----------------------- MODULE ValidationScriptProofs -----------------------
(***************************************************************************)
(* Proofs about the validation script, for any other tenants and any       *)
(* evidence that they go on storing: what its cleanup does to its rows and *)
(* to everybody else's, and that every answer passes its checks.           *)
(***************************************************************************)
EXTENDS ValidationScript, ContextCompilerProofs

\* A sequence of its own members.
IsSequence(s) == s \in Seq(ToSet(s))

\* The members of a concatenation.
LEMMA ConcatMembers ==
    ASSUME NEW s, NEW t, IsSequence(s), IsSequence(t)
    PROVE  IsSequence(s \o t) /\ ToSet(s \o t) = ToSet(s) \cup ToSet(t)
<1> DEFINE S == ToSet(s) \cup ToSet(t)
<1>0. s \in Seq(S) /\ t \in Seq(S)
  BY SeqMonotonic DEF IsSequence
<1> HIDE DEF S
<1>1. /\ s \o t \in Seq(S) /\ Len(s \o t) = Len(s) + Len(t)
      /\ Len(s) \in Nat /\ Len(t) \in Nat
      /\ \A i \in 1..Len(s) + Len(t) :
            (s \o t)[i] = IF i <= Len(s) THEN s[i] ELSE t[i - Len(s)]
  BY <1>0, ConcatProperties, LenProperties
<1>2. /\ DOMAIN s = 1..Len(s) /\ DOMAIN t = 1..Len(t)
      /\ DOMAIN (s \o t) = 1..(Len(s) + Len(t))
  BY <1>0, <1>1, LenProperties
<1> DEFINE u == s \o t
<1> HIDE DEF u
<1>3. ToSet(u) \subseteq ToSet(s) \cup ToSet(t)
  <2> SUFFICES ASSUME NEW i \in 1..(Len(s) + Len(t))
               PROVE  u[i] \in ToSet(s) \cup ToSet(t)
    BY <1>2 DEF ToSet, u
  <2>1. CASE i <= Len(s)
    BY <1>1, <1>2, <2>1 DEF ToSet, u
  <2>2. CASE ~(i <= Len(s))
    <3>1. u[i] = t[i - Len(s)] /\ i - Len(s) \in 1..Len(t)
      BY <1>1, <2>2 DEF u
    <3> QED BY <1>2, <3>1 DEF ToSet
  <2> QED BY <2>1, <2>2
<1>4. ASSUME NEW i \in 1..Len(s) PROVE s[i] \in ToSet(u)
  <2>1. i \in 1..(Len(s) + Len(t)) /\ u[i] = s[i]
    BY <1>1 DEF u
  <2> QED BY <1>2, <2>1 DEF ToSet, u
<1>5. ASSUME NEW i \in 1..Len(t) PROVE t[i] \in ToSet(u)
  <2>1. i + Len(s) \in 1..(Len(s) + Len(t)) /\ u[i + Len(s)] = t[i]
    BY <1>1 DEF u
  <2> QED BY <1>2, <2>1 DEF ToSet, u
<1>6. ToSet(u) = S
  BY <1>2, <1>3, <1>4, <1>5 DEF ToSet, S
<1> QED BY <1>1, <1>6 DEF S, u, IsSequence

\* What all calls of the script have in common: they speak of its own tenants,
\* and its sources have ids of its own.
OwnCall(c) ==
    /\ c.row.tenant_id \in Mine
    /\ c.op = "envelope" => c.row.source_id \in 1..6
    /\ c.op = "assertion" => c.row \in AssertionRecord

OwnCalls(u) == IsSequence(u) /\ \A c \in ToSet(u) : OwnCall(c)

\* The row of the abandoned request, once it may have been executed.
Late == IF abandoned # None /\ ~pending THEN {abandoned.row} ELSE {}

LedgerInv ==
    /\ ledger \in [AssertionKey -> AssertionRecord \cup {None}]
    /\ \A k \in AssertionKey : ledger[k] # None => KeyOf(ledger[k]) = k

\* No span of another tenant hangs under a source of the script.
SourcesInv ==
    /\ \A s \in sources : s.tenant_id \in Mine => s.source_id \in 1..6
    /\ \A s \in spans : s.tenant_id \notin Mine => s.source_id \notin 1..6

ControlInv ==
    /\ step \in Nat \ {0}
    /\ stage \in {"calls", "deletes", "refused", "cleaned", "dead"}
    /\ stage = "calls" => step <= Len(Script) /\ abandoned = None
    /\ abandoned # None => OwnCall(abandoned)
    /\ pending \in BOOLEAN /\ (pending => abandoned # None)

\* While cleanup() runs, what its statements have passed is doomed, except what
\* came too late for them.
DoomedInv ==
    /\ \A r \in doomed : r.tenant_id \in Mine
    /\ stage # "deletes" => doomed = {}
    /\ stage = "deletes" =>
          \A i \in DOMAIN Deletions : i < step => ToDelete(Deletions[i]) \subseteq doomed \cup Late

\* Until cleanup() has committed, all is there that was when it began.
KeptInv ==
    stage # "cleaned" =>
        kept.rows \subseteq Holdings.rows /\ kept.keys \subseteq Holdings.keys

RunInv ==
    /\ LedgerInv /\ SourcesInv /\ ControlInv /\ DoomedInv
    /\ stage = "cleaned" => OwnRows \subseteq Late
    /\ RefusedOnlyByLate
    /\ KeptInv

-----------------------------------------------------------------------------
\* The calls of the script.

\* Together.
LEMMA CallsTogether ==
    ASSUME NEW u, NEW v, OwnCalls(u), OwnCalls(v)
    PROVE  OwnCalls(u \o v)
BY ConcatMembers DEF OwnCalls

\* Those for a document.
LEMMA SubmitCalls ==
    ASSUME NEW i \in 1..6
    PROVE  OwnCalls(Submit(i))
<1> DEFINE a == Call("envelope", source_payload(i), None)
           b == Call("span", span_payload(i), None)
           c == Call("embedding", embedding_payload(i), "inserted")
<1>1. current_tenant(i) \in Mine
  BY DEF current_tenant, Mine
<1>2. OwnCall(a)
  BY <1>1 DEF OwnCall, Call, source_payload
<1>3. OwnCall(b)
  BY <1>1 DEF OwnCall, Call, span_payload
<1>4. OwnCall(c)
  BY <1>1 DEF OwnCall, Call, embedding_payload
<1>5. Submit(i) = <<a, b, c>>
  BY DEF Submit
<1> HIDE DEF a, b, c
<1>6. ToSet(<<a, b, c>>) = {a, b, c}
  BY DEF ToSet
<1>7. <<a, b, c>> \in Seq({a, b, c})
  OBVIOUS
<1> QED BY <1>2, <1>3, <1>4, <1>5, <1>6, <1>7 DEF OwnCalls, IsSequence

\* Those after that.
LEMMA OtherCalls ==
    \A row, check :
        /\ row.tenant_id \in Mine =>
              /\ OwnCall(Call("put workflow", row, check))
              /\ OwnCall(Call("get workflow", row, check))
              /\ OwnCall(Call("compile", row, check))
              /\ OwnCall(Call("span", row, check))
        /\ row.tenant_id \in Mine /\ row \in AssertionRecord =>
              OwnCall(Call("assertion", row, check))
BY DEF OwnCall, Call

\* All of them.
LEMMA ScriptCalls ==
    OwnCalls(Script) /\ Len(Script) \in Nat \ {0} /\ DOMAIN Script = 1..Len(Script)
<1> DEFINE u == Submit(1) \o Submit(2) \o Submit(3) \o Submit(4) \o Submit(5) \o Submit(6)
           s1 == Call("put workflow", workflow_payload, None)
           s2 == Call("get workflow", workflow_payload, "persistence")
           s3 == Call("assertion", contract_assertion, None)
           s4 == Call("assertion", amendment_assertion, None)
           s5 == Call("assertion", draft_assertion, "creation")
           s6 == Call("assertion", amendment_assertion, "idempotency")
           s7 == Call("compile", current_context, "current")
           s8 == Call("compile", historical_context, "historical")
           s9 == Call("compile", retrieval_context, "retrieval")
           s10 == Call("span", span_payload(2), "idempotency")
           v == <<s1, s2, s3, s4, s5, s6, s7, s8, s9, s10>>
           c == Call("compile", current_context, None)
           w == [i \in 1..19 |-> c]
<1>1. OwnCalls(u)
  BY SubmitCalls, CallsTogether
<1>2. /\ workflow_payload.tenant_id \in Mine /\ current_context.tenant_id \in Mine
      /\ historical_context.tenant_id \in Mine /\ retrieval_context.tenant_id \in Mine
  BY DEF workflow_payload, current_context, historical_context, retrieval_context, Ask, Mine
<1>3. span_payload(2).tenant_id \in Mine
  BY DEF span_payload, current_tenant, Mine
<1>4. /\ contract_assertion.tenant_id \in Mine /\ amendment_assertion.tenant_id \in Mine
      /\ draft_assertion.tenant_id \in Mine
  BY DEF contract_assertion, amendment_assertion, draft_assertion, assertion_payload, Mine
<1>5. {contract_assertion, amendment_assertion, draft_assertion} \subseteq AssertionRecord
  BY ScenarioAssumption
<1>6. OwnCall(s1) /\ OwnCall(s2) /\ OwnCall(s7) /\ OwnCall(s8) /\ OwnCall(s9) /\ OwnCall(s10) /\ OwnCall(c)
  BY <1>2, <1>3, OtherCalls
<1>7. OwnCall(s3) /\ OwnCall(s4) /\ OwnCall(s5) /\ OwnCall(s6)
  BY <1>4, <1>5, OtherCalls
<1>8. Script = u \o v \o w
  BY DEF Script
<1> HIDE DEF u, s1, s2, s3, s4, s5, s6, s7, s8, s9, s10, c
<1>9. OwnCalls(v)
  <2>1. v \in Seq({s1, s2, s3, s4, s5, s6, s7, s8, s9, s10})
    OBVIOUS
  <2>2. ToSet(v) = {s1, s2, s3, s4, s5, s6, s7, s8, s9, s10}
    BY DEF ToSet
  <2> QED BY <1>6, <1>7, <2>1, <2>2 DEF OwnCalls, IsSequence
<1>10. OwnCalls(w)
  <2>1. w \in Seq({c}) /\ ToSet(w) = {c}
    BY SeqDef DEF ToSet
  <2> QED BY <1>6, <2>1 DEF OwnCalls, IsSequence
<1>0. c \in ToSet(w)
  BY DEF ToSet
<1> HIDE DEF v, w
<1>11. OwnCalls(Script)
  BY <1>1, <1>8, <1>9, <1>10, CallsTogether
<1>12. Len(Script) \in Nat /\ DOMAIN Script = 1..Len(Script)
  BY <1>11, LenProperties DEF OwnCalls, IsSequence
<1>13. c \in ToSet(Script)
  <2>1. OwnCalls(u \o v)
    BY <1>1, <1>9, CallsTogether
  <2> QED BY <1>0, <1>8, <1>10, <2>1, ConcatMembers DEF OwnCalls
<1> QED BY <1>11, <1>12, <1>13 DEF ToSet

\* The call that the script makes next.
LEMMA NextCall ==
    ASSUME ControlInv, stage = "calls"
    PROVE  OwnCall(Script[step]) /\ Script[step] # None
<1>1. step \in 1..Len(Script) /\ Len(Script) \in Nat
  BY ScriptCalls DEF ControlInv
<1>2. Script[step] \in ToSet(Script)
  BY <1>1, ScriptCalls DEF ToSet
<1> QED BY <1>2, ScriptCalls, CallsAssumption DEF OwnCalls

-----------------------------------------------------------------------------
\* What a call of the script does to the tables, whenever it is executed.

\* A set keeps what it has and gets at most this row.
Gains(S, T, row) == S \subseteq T /\ T \subseteq S \cup {row}

EvidenceGains(row) ==
    /\ Gains(workflow, workflow', row) /\ Gains(sources, sources', row)
    /\ Gains(spans, spans', row) /\ Gains(embeddings, embeddings', row)

\* What changes in the ledger is the row of a new assertion and that of its target.
LedgerEffect(a) ==
    \A k \in AssertionKey :
        ledger'[k] # ledger[k] =>
            /\ ledger[KeyOf(a)] = None
            /\ ledger'[k] # None
            /\ \/ k = KeyOf(a) /\ ledger'[k] = a
               \/ k = TargetOf(a) /\ ledger[k] # None

\* put() alone on the ledger.
LEMMA PutKeeps ==
    ASSUME LedgerInv, NEW a \in AssertionRecord, PutAssertion(a)
    PROVE  LedgerInv' /\ LedgerEffect(a)
<1>1. KeyOf(a) \in AssertionKey /\ a # None
  BY NoneAssumption DEF KeyOf, AssertionKey, AssertionRecord
<1>2. CASE ledger[KeyOf(a)] # None
  <2>1. ledger' = ledger
    BY <1>2 DEF PutAssertion
  <2> QED BY <2>1 DEF LedgerInv, LedgerEffect
<1>3. CASE ledger[KeyOf(a)] = None
  <2>1. ledger' = [k \in AssertionKey |->
                      IF k = KeyOf(a) THEN a
                      ELSE IF k = TargetOf(a) /\ ledger[k] # None THEN Supersede(ledger[k], a)
                      ELSE ledger[k]]
    BY <1>3 DEF PutAssertion
  <2>2. \A k \in AssertionKey :
           ledger'[k] = IF k = KeyOf(a) THEN a
                        ELSE IF k = TargetOf(a) /\ ledger[k] # None THEN Supersede(ledger[k], a)
                        ELSE ledger[k]
    BY <2>1
  <2>3. \A k \in AssertionKey :
           ledger[k] # None =>
              /\ Supersede(ledger[k], a) \in AssertionRecord
              /\ Supersede(ledger[k], a) # None
              /\ KeyOf(Supersede(ledger[k], a)) = k
    BY SupersedeKeeps, NoneAssumption DEF LedgerInv
  <2>4. ledger' \in [AssertionKey -> AssertionRecord \cup {None}]
    BY <2>1, <2>3 DEF LedgerInv
  <2>5. \A k \in AssertionKey : ledger'[k] # None => KeyOf(ledger'[k]) = k
    BY <2>2, <2>3 DEF LedgerInv
  <2>6. LedgerEffect(a)
    BY <1>1, <1>3, <2>2, <2>3 DEF LedgerEffect
  <2> QED BY <2>4, <2>5, <2>6 DEF LedgerInv
<1> QED BY <1>2, <1>3

\* A call of the script.
LEMMA ExecuteEffect ==
    ASSUME LedgerInv, SourcesInv, NEW c, OwnCall(c), Execute(c)
    PROVE  /\ LedgerInv' /\ SourcesInv' /\ EvidenceGains(c.row)
           /\ \/ ledger' = ledger
              \/ c.op = "assertion" /\ c.row \in AssertionRecord /\ LedgerEffect(c.row)
<1>0. c.row.tenant_id \in Mine /\ (c.op = "envelope" => c.row.source_id \in 1..6)
  BY DEF OwnCall
<1>1. CASE c.op = "assertion"
  <2>1. c.row \in AssertionRecord /\ PutAssertion(c.row) /\ workflow' = workflow
    BY <1>1 DEF Execute, OwnCall
  <2>2. UNCHANGED evidence
    BY <2>1 DEF PutAssertion
  <2> QED BY <1>1, <2>1, <2>2, PutKeeps DEF evidence, SourcesInv, EvidenceGains, Gains
<1>2. CASE c.op # "assertion"
  <2>1. /\ ledger' = ledger
        /\ \/ c.op = "envelope" /\ PutEnvelope(c.row)
           \/ c.op = "span" /\ PutSpan(c.row)
           \/ c.op = "embedding" /\ PutEmbedding(c.row)
           \/ UNCHANGED evidence
        /\ workflow' = workflow \/ workflow' = workflow \cup {c.row}
    BY <1>2 DEF Execute
  <2>2. EvidenceGains(c.row) /\ (sources' # sources => c.op = "envelope")
    BY <2>1 DEF EvidenceGains, Gains, PutEnvelope, PutSpan, PutEmbedding, evidence
  <2>3. LedgerInv'
    BY <2>1 DEF LedgerInv
  <2>4. SourcesInv'
    BY <1>0, <2>2 DEF SourcesInv, EvidenceGains, Gains
  <2> QED BY <2>1, <2>2, <2>3, <2>4
<1> QED BY <1>1, <1>2

\* A call of another tenant's client.
LEMMA OthersEffect ==
    ASSUME SourcesInv, EvidenceNext
    PROVE  /\ SourcesInv'
           /\ \E row \in Envelopes \cup Spans \cup Embeddings :
                 /\ Gains(sources, sources', row) /\ Gains(spans, spans', row)
                 /\ Gains(embeddings, embeddings', row)
                 /\ row.tenant_id \notin Mine
<1>1. CASE \E e \in Envelopes : PutEnvelope(e)
  BY <1>1, OthersAssumption DEF PutEnvelope, Gains, SourcesInv
<1>2. CASE \E s \in Spans : PutSpan(s)
  BY <1>2, OthersAssumption DEF PutSpan, Gains, SourcesInv
<1>3. CASE \E e \in Embeddings : PutEmbedding(e)
  BY <1>3, OthersAssumption DEF PutEmbedding, Gains, SourcesInv
<1> QED BY <1>1, <1>2, <1>3 DEF EvidenceNext

-----------------------------------------------------------------------------
\* What cleanup() erases.

\* Nothing but the rows given.
LEMMA EraseEffect ==
    ASSUME LedgerInv, SourcesInv, NEW rows, Erase(rows)
    PROVE  /\ LedgerInv' /\ SourcesInv'
           /\ Rows' = Rows \ rows
           /\ workflow' = workflow \ rows /\ sources' = sources \ rows
           /\ spans' = spans \ rows /\ embeddings' = embeddings \ rows
<1>1. /\ ledger' = [k \in AssertionKey |-> IF ledger[k] \in rows THEN None ELSE ledger[k]]
      /\ workflow' = workflow \ rows /\ sources' = sources \ rows
      /\ spans' = spans \ rows /\ embeddings' = embeddings \ rows
  BY DEF Erase
<1>2. \A k \in AssertionKey : ledger'[k] = IF ledger[k] \in rows THEN None ELSE ledger[k]
  BY <1>1
<1>3. LedgerInv'
  BY <1>1, <1>2 DEF LedgerInv
<1>4. Rows' = Rows \ rows
  BY <1>2 DEF Rows
<1>5. SourcesInv'
  BY <1>1 DEF SourcesInv
<1> QED BY <1>1, <1>3, <1>4, <1>5

\* The tables in the order of the deletions.
LEMMA TablesInOrder ==
    /\ DOMAIN Deletions = 1..5 /\ Len(Deletions) = 5
    /\ ToDelete(Deletions[1]) = {r \in workflow : r.tenant_id \in Mine}
    /\ ToDelete(Deletions[2]) = {r \in Rows : r.tenant_id \in Mine}
    /\ ToDelete(Deletions[3]) = {r \in embeddings : r.tenant_id \in Mine}
    /\ ToDelete(Deletions[4]) = {r \in spans : r.tenant_id \in Mine}
    /\ ToDelete(Deletions[5]) = {r \in sources : r.tenant_id \in Mine}
    /\ Deletions[1] = "workflow" /\ Deletions[2] = "assertions"
    /\ Deletions[3] = "embeddings" /\ Deletions[4] = "spans" /\ Deletions[5] = "sources"
BY DEF Deletions, ToDelete, RowsOf

\* The rows of the script are those of the five tables.
LEMMA OwnRowsByTable ==
    OwnRows = UNION {ToDelete(Deletions[i]) : i \in DOMAIN Deletions}
<1>1. \A r : r \in OwnRows <=> \E i \in DOMAIN Deletions : r \in ToDelete(Deletions[i])
  BY TablesInOrder DEF OwnRows
<1> QED BY <1>1

\* A call that is executed once the script's rows are in D adds its own row to
\* them at most, unless it can change one that it corrects.
LEMMA OwnLedgerRows ==
    ASSUME LedgerInv, SourcesInv, NEW c, OwnCall(c), Execute(c), NEW D,
           {r \in Rows : r.tenant_id \in Mine} \subseteq D,
           c.op = "assertion" => \A r \in D \cap Rows : KeyOf(r) # TargetOf(c.row)
    PROVE  {r \in Rows' : r.tenant_id \in Mine} \subseteq D \cup {c.row}
<1> SUFFICES ASSUME NEW k \in AssertionKey, ledger'[k] # None, ledger'[k].tenant_id \in Mine
             PROVE  ledger'[k] \in D \cup {c.row}
  BY DEF Rows
<1>1. CASE ledger'[k] = ledger[k]
  BY <1>1 DEF Rows
<1>2. CASE ledger'[k] # ledger[k]
  <2>1. c.op = "assertion" /\ LedgerEffect(c.row)
    BY <1>2, ExecuteEffect
  <2>2. ledger'[k] = c.row \/ (k = TargetOf(c.row) /\ ledger[k] # None)
    BY <1>2, <2>1 DEF LedgerEffect
  <2>3. ASSUME k = TargetOf(c.row), ledger[k] # None
        PROVE  FALSE
    <3>1. KeyOf(ledger[k]) = TargetOf(c.row) /\ ledger[k] \in Rows
      BY <2>3 DEF LedgerInv, Rows
    <3>2. ledger[k].tenant_id = c.row.tenant_id
      BY <3>1 DEF KeyOf, TargetOf
    <3>3. ledger[k] \in D
      BY <3>1, <3>2 DEF OwnCall
    <3> QED BY <2>1, <3>1, <3>3
  <2> QED BY <2>2, <2>3
<1> QED BY <1>1, <1>2

\* Nothing that cleanup() is to delete disappears by a call.
LEMMA HoldingsGrow ==
    ASSUME LedgerInv, SourcesInv, NEW c, OwnCall(c), Execute(c)
    PROVE  Holdings.rows \subseteq Holdings'.rows /\ Holdings.keys \subseteq Holdings'.keys
<1>1. LedgerInv' /\ EvidenceGains(c.row)
  BY ExecuteEffect
<1>2. Holdings.rows \subseteq Holdings'.rows
  BY <1>1 DEF Holdings, EvidenceGains, Gains
<1>3. ASSUME NEW k \in AssertionKey, ledger[k] # None, ledger[k].tenant_id \in Mine
      PROVE  ledger'[k] # None /\ ledger'[k].tenant_id \in Mine
  <2>1. ledger'[k] # None
    BY <1>3, ExecuteEffect DEF LedgerEffect
  <2>2. KeyOf(ledger[k]) = k /\ KeyOf(ledger'[k]) = k
    BY <1>1, <1>3, <2>1 DEF LedgerInv
  <2> QED BY <1>3, <2>1, <2>2 DEF KeyOf
<1>4. Holdings.keys \subseteq Holdings'.keys
  BY <1>3 DEF Holdings
<1> QED BY <1>2, <1>4

-----------------------------------------------------------------------------
\* The steps of the script.

\* The invariant holds at first.
LEMMA RunStart == Init => RunInv
<1> SUFFICES ASSUME Init PROVE RunInv
  OBVIOUS
<1>1. /\ step = 1 /\ stage = "calls" /\ abandoned = None /\ pending = FALSE
      /\ doomed = {} /\ kept = [rows |-> {}, keys |-> {}]
      /\ sources = others.sources /\ spans = others.spans
  BY DEF Init
<1>2. LedgerInv
  <2>1. /\ ledger = [k \in AssertionKey |->
                       IF \E a \in others.assertions : KeyOf(a) = k
                       THEN CHOOSE a \in others.assertions : KeyOf(a) = k ELSE None]
        /\ others.assertions \subseteq AssertionRecord
    BY OthersAssumption DEF Init
  <2>2. \A k \in AssertionKey :
           ledger[k] = None \/ (ledger[k] \in others.assertions /\ KeyOf(ledger[k]) = k)
    BY <2>1
  <2> QED BY <2>1, <2>2 DEF LedgerInv
<1>3. SourcesInv
  BY <1>1, OthersAssumption DEF SourcesInv
<1>5. ControlInv
  <2>1. step \in Nat \ {0} /\ step <= Len(Script)
    BY <1>1, ScriptCalls
  <2>2. pending \in BOOLEAN /\ ~pending
    BY <1>1
  <2> QED BY <1>1, <2>1, <2>2 DEF ControlInv
<1>6. DoomedInv /\ RefusedOnlyByLate /\ KeptInv
  BY <1>1 DEF DoomedInv, RefusedOnlyByLate, KeptInv
<1> QED BY <1>1, <1>2, <1>3, <1>5, <1>6 DEF RunInv

\* What holds when the calls have ended, however they did.
LEMMA CallsEnd ==
    ASSUME RunInv, stage = "calls", Finish, doomed' = doomed, LedgerInv', SourcesInv',
           \/ abandoned' = None /\ pending' = pending
           \/ abandoned' # None /\ OwnCall(abandoned') /\ pending' \in BOOLEAN
    PROVE  RunInv'
<1>1. /\ stage' = "deletes" /\ step' = 1 /\ kept' = Holdings' /\ doomed' = {}
      /\ abandoned = None /\ ~pending /\ pending \in BOOLEAN
  BY DEF Finish, RunInv, ControlInv, DoomedInv
<1>2. ControlInv'
  BY <1>1 DEF ControlInv, OwnCall, Mine
<1>3. DoomedInv'
  <2>1. \A i \in DOMAIN Deletions : ~(i < 1)
    BY TablesInOrder
  <2> QED BY <1>1, <2>1 DEF DoomedInv
<1>4. RefusedOnlyByLate' /\ KeptInv'
  BY <1>1 DEF RefusedOnlyByLate, KeptInv, Holdings
<1> QED BY <1>1, <1>2, <1>3, <1>4 DEF RunInv

\* A call whose answer arrives.
LEMMA CallStep == RunInv /\ MakeCall => RunInv'
<1> SUFFICES ASSUME RunInv, MakeCall PROVE RunInv'
  OBVIOUS
<1> DEFINE c == Script[step]
<1>1. /\ stage = "calls" /\ Execute(c) /\ UNCHANGED <<abandoned, pending, doomed>>
      /\ \/ Finish
         \/ step # Len(Script) /\ step' = step + 1 /\ UNCHANGED <<stage, kept>>
  BY DEF MakeCall
<1>2. OwnCall(c) /\ abandoned = None /\ LedgerInv /\ SourcesInv
  BY <1>1, NextCall DEF RunInv, ControlInv
<1> HIDE DEF c
<1>3. LedgerInv' /\ SourcesInv'
  BY <1>1, <1>2, ExecuteEffect
<1>4. CASE Finish
  BY <1>1, <1>2, <1>3, <1>4, CallsEnd
<1>5. CASE step # Len(Script) /\ step' = step + 1 /\ UNCHANGED <<stage, kept>>
  <2>0. step \in Nat \ {0} /\ step <= Len(Script)
    BY <1>1 DEF RunInv, ControlInv
  <2>1. step' \in Nat \ {0} /\ step' <= Len(Script)
    <3>1. Len(Script) \in Nat
      BY ScriptCalls
    <3>2. step # Len(Script) /\ step' = step + 1
      BY <1>5
    <3> QED BY <2>0, <3>1, <3>2
  <2>2. ControlInv'
    BY <1>1, <1>2, <1>5, <2>1 DEF RunInv, ControlInv, OwnCall, Mine
  <2>3. DoomedInv'
    BY <1>1, <1>5 DEF RunInv, DoomedInv, Mine
  <2>4. KeptInv'
    BY <1>1, <1>2, <1>5, HoldingsGrow DEF RunInv, KeptInv
  <2>5. RefusedOnlyByLate'
    BY <1>1, <1>5 DEF RefusedOnlyByLate
  <2> QED BY <1>1, <1>3, <1>5, <2>2, <2>3, <2>4, <2>5 DEF RunInv
<1> QED BY <1>1, <1>4, <1>5

\* A call without an answer.
LEMMA FailureStep == RunInv /\ (CallFails \/ TimeOut) => RunInv'
<1> SUFFICES ASSUME RunInv, CallFails \/ TimeOut PROVE RunInv'
  OBVIOUS
<1> DEFINE c == Script[step]
<1>1. /\ stage = "calls" /\ (Execute(c) \/ UNCHANGED tables) /\ Finish /\ doomed' = doomed
      /\ \/ UNCHANGED <<abandoned, pending>>
         \/ abandoned' = c /\ pending' = TRUE
  BY DEF CallFails, TimeOut
<1>2. OwnCall(c) /\ c # None /\ abandoned = None /\ LedgerInv /\ SourcesInv
  BY <1>1, NextCall DEF RunInv, ControlInv
<1> HIDE DEF c
<1>3. LedgerInv' /\ SourcesInv'
  <2>1. CASE Execute(c)
    BY <1>2, <2>1, ExecuteEffect
  <2>2. CASE UNCHANGED tables
    BY <1>2, <2>2 DEF LedgerInv, SourcesInv, tables, evidence
  <2> QED BY <1>1, <2>1, <2>2
<1>4. CASE UNCHANGED <<abandoned, pending>>
  BY <1>1, <1>2, <1>3, <1>4, CallsEnd
<1>5. CASE abandoned' = c /\ pending' = TRUE
  <2>1. abandoned' # None /\ OwnCall(abandoned') /\ pending' \in BOOLEAN
    BY <1>2, <1>5
  <2> QED BY <1>1, <1>3, <2>1, CallsEnd
<1> QED BY <1>1, <1>4, <1>5

\* A statement of cleanup(): it can only fail on what came too late for one before.
LEMMA DeleteStep == RunInv /\ Delete => RunInv'
<1> SUFFICES ASSUME RunInv, Delete PROVE RunInv'
  OBVIOUS
<1> DEFINE gone == ToDelete(Deletions[step])
<1>0. /\ stage = "deletes" /\ step \in 1..5 /\ UNCHANGED <<abandoned, pending, kept>>
      /\ UNCHANGED tables
      /\ \/ /\ \E r \in gone : Referring(Deletions[step], r) \ doomed # {}
            /\ stage' = "refused" /\ step' = step /\ doomed' = {}
         \/ stage' = stage /\ step' = step + 1 /\ doomed' = doomed \cup gone
  BY TablesInOrder DEF Delete, RollBack, RunInv, ControlInv
<1>1. LedgerInv' /\ SourcesInv' /\ Holdings' = Holdings /\ Late' = Late
      /\ \A i \in DOMAIN Deletions : ToDelete(Deletions[i])' = ToDelete(Deletions[i])
  BY <1>0 DEF tables, evidence, RunInv, LedgerInv, SourcesInv, Holdings, Late, ToDelete, RowsOf,
              Rows, Mine, Deletions
<1>2. \A i \in 1..5 : i < step => ToDelete(Deletions[i]) \subseteq doomed \cup Late
  BY <1>0, TablesInOrder DEF RunInv, DoomedInv
<1>3. KeptInv'
  BY <1>0, <1>1 DEF RunInv, KeptInv
<1>4. CASE stage' = stage /\ step' = step + 1 /\ doomed' = doomed \cup gone
  <2>1. ControlInv'
    BY <1>0, <1>4 DEF RunInv, ControlInv, OwnCall, Mine
  <2>2. \A i \in 1..5 : i < step + 1 => ToDelete(Deletions[i]) \subseteq doomed' \cup Late
    BY <1>0, <1>2, <1>4
  <2>3. \A r \in doomed' : r.tenant_id \in Mine
    BY <1>4 DEF RunInv, DoomedInv, ToDelete
  <2>4. DoomedInv'
    BY <1>0, <1>1, <1>4, <2>2, <2>3, TablesInOrder DEF DoomedInv, Mine
  <2> QED BY <1>0, <1>1, <1>3, <1>4, <2>1, <2>4 DEF RunInv, RefusedOnlyByLate
<1>5. CASE /\ \E r \in gone : Referring(Deletions[step], r) \ doomed # {}
           /\ stage' = "refused" /\ step' = step /\ doomed' = {}
  <2>1. PICK r \in gone : Referring(Deletions[step], r) \ doomed # {}
    BY <1>5
  <2>2. PICK s \in Referring(Deletions[step], r) : s \notin doomed
    BY <2>1
  <2>3. step \in {4, 5}
    BY <1>0, <2>2, TablesInOrder DEF Referring, SpansUnder, EmbeddingsUnder
  <2>4. s \in Late /\ s \in spans \cup embeddings
    <3>1. CASE step = 4
      <4>1. s \in embeddings /\ SpanKey(s) = SpanKey(r) /\ r.tenant_id \in Mine
        BY <2>2, <3>1, TablesInOrder DEF Referring, SpansUnder, EmbeddingsUnder
      <4>2. s \in ToDelete(Deletions[3])
        BY <4>1, TablesInOrder DEF SpanKey
      <4> QED BY <1>2, <2>2, <3>1, <4>1, <4>2
    <3>2. CASE step = 5
      <4>1. s \in spans /\ s.source_id = r.source_id /\ r.tenant_id \in Mine /\ r \in sources
        BY <2>2, <3>2, TablesInOrder DEF Referring, SpansUnder, EmbeddingsUnder
      <4>2. s \in ToDelete(Deletions[4])
        BY <4>1, TablesInOrder DEF RunInv, SourcesInv
      <4> QED BY <1>2, <2>2, <3>2, <4>1, <4>2
    <3> QED BY <2>3, <3>1, <3>2
  <2>5. RefusedOnlyByLate'
    BY <1>0, <2>4 DEF RefusedOnlyByLate, Late, tables, evidence
  <2>6. ControlInv'
    BY <1>0, <1>5 DEF RunInv, ControlInv, OwnCall, Mine
  <2>7. DoomedInv'
    BY <1>5 DEF DoomedInv
  <2> QED BY <1>1, <1>3, <1>5, <2>5, <2>6, <2>7 DEF RunInv
<1> QED BY <1>0, <1>4, <1>5

\* The commit: all five statements have passed.
LEMMA CommitStep == RunInv /\ Commit => RunInv'
<1> SUFFICES ASSUME RunInv, Commit PROVE RunInv'
  OBVIOUS
<1>1. /\ stage = "deletes" /\ step > 5 /\ stage' = "cleaned" /\ Erase(doomed) /\ doomed' = {}
      /\ UNCHANGED <<step, abandoned, pending, kept>>
  BY TablesInOrder DEF Commit
<1>2. OwnRows \subseteq doomed \cup Late
  <2>1. \A i \in DOMAIN Deletions : ToDelete(Deletions[i]) \subseteq doomed \cup Late
    BY <1>1, TablesInOrder DEF RunInv, DoomedInv, ControlInv
  <2> QED BY <2>1, OwnRowsByTable
<1>3. /\ LedgerInv' /\ SourcesInv'
      /\ Rows' = Rows \ doomed /\ workflow' = workflow \ doomed
      /\ sources' = sources \ doomed /\ spans' = spans \ doomed
      /\ embeddings' = embeddings \ doomed
  BY <1>1, EraseEffect DEF RunInv
<1>4. OwnRows' \subseteq Late'
  <2>1. OwnRows' = OwnRows \ doomed
    BY <1>3 DEF OwnRows, Mine
  <2>2. Late' = Late
    BY <1>1 DEF Late
  <2> QED BY <1>2, <2>1, <2>2
<1>5. ControlInv'
  BY <1>1 DEF RunInv, ControlInv, OwnCall, Mine
<1>6. DoomedInv' /\ KeptInv' /\ RefusedOnlyByLate'
  BY <1>1 DEF DoomedInv, KeptInv, RefusedOnlyByLate
<1> QED BY <1>3, <1>4, <1>5, <1>6 DEF RunInv

\* The end of the script at any point.
LEMMA DeathStep == RunInv /\ Die => RunInv'
<1> SUFFICES ASSUME RunInv, Die PROVE RunInv'
  OBVIOUS
<1>1. /\ stage # "cleaned" /\ stage' = "dead" /\ step' = 1 /\ doomed' = {}
      /\ UNCHANGED tables /\ UNCHANGED <<abandoned, pending, kept>>
  BY DEF Die, RollBack
<1>2. LedgerInv' /\ SourcesInv' /\ Holdings' = Holdings
  BY <1>1 DEF tables, evidence, RunInv, LedgerInv, SourcesInv, Holdings, Mine
<1>3. ControlInv'
  BY <1>1 DEF RunInv, ControlInv, OwnCall, Mine
<1>4. DoomedInv' /\ KeptInv' /\ RefusedOnlyByLate'
  BY <1>1, <1>2 DEF RunInv, DoomedInv, KeptInv, RefusedOnlyByLate
<1> QED BY <1>1, <1>2, <1>3, <1>4 DEF RunInv

\* The abandoned request finds no assertion to correct among those that cleanup()
\* has passed: it would wait for the transaction, or they are gone.
LEMMA LateStep == RunInv /\ ExecuteLate => RunInv'
<1> SUFFICES ASSUME RunInv, ExecuteLate PROVE RunInv'
  OBVIOUS
<1>1. /\ pending /\ ~Waits(abandoned) /\ pending' = FALSE
      /\ Execute(abandoned) \/ UNCHANGED tables
      /\ UNCHANGED <<step, stage, abandoned, doomed, kept>>
  BY DEF ExecuteLate
<1>2. /\ LedgerInv /\ SourcesInv /\ OwnCall(abandoned) /\ abandoned # None
      /\ Late = {} /\ Late' = {abandoned.row} /\ stage \notin {"calls", "refused"}
  BY <1>1 DEF RunInv, ControlInv, Late, RefusedOnlyByLate
<1>3. ControlInv'
  <2>1. pending' \in BOOLEAN /\ ~pending'
    BY <1>1
  <2> QED BY <1>1, <1>2, <2>1 DEF RunInv, ControlInv, OwnCall, Mine
<1>4. RefusedOnlyByLate'
  BY <1>1, <1>2 DEF RefusedOnlyByLate
<1>5. CASE UNCHANGED tables
  <2>1. LedgerInv' /\ SourcesInv' /\ Holdings' = Holdings /\ OwnRows' = OwnRows
        /\ \A i \in DOMAIN Deletions : ToDelete(Deletions[i])' = ToDelete(Deletions[i])
    BY <1>2, <1>5 DEF tables, evidence, LedgerInv, SourcesInv, Holdings, ToDelete, RowsOf, OwnRows,
              Rows, Mine, Deletions
  <2>2. KeptInv' /\ (stage' = "cleaned" => OwnRows' \subseteq Late')
    BY <1>1, <1>2, <2>1 DEF RunInv, KeptInv
  <2>3. DoomedInv'
    BY <1>1, <1>2, <2>1 DEF RunInv, DoomedInv, Mine, Deletions
  <2> QED BY <1>3, <1>4, <2>1, <2>2, <2>3 DEF RunInv
<1>6. CASE Execute(abandoned)
  <2> DEFINE row == abandoned.row
  <2>0. /\ Mine' = Mine /\ Deletions' = Deletions
        /\ ToDelete(Deletions[1])' = {r \in workflow' : r.tenant_id \in Mine}
        /\ ToDelete(Deletions[2])' = {r \in Rows' : r.tenant_id \in Mine}
        /\ ToDelete(Deletions[3])' = {r \in embeddings' : r.tenant_id \in Mine}
        /\ ToDelete(Deletions[4])' = {r \in spans' : r.tenant_id \in Mine}
        /\ ToDelete(Deletions[5])' = {r \in sources' : r.tenant_id \in Mine}
    BY DEF Deletions, ToDelete, RowsOf, Mine
  <2>1. LedgerInv' /\ SourcesInv' /\ EvidenceGains(row)
    BY <1>2, <1>6, ExecuteEffect
  <2>2. KeptInv'
    BY <1>1, <1>2, <1>6, HoldingsGrow DEF RunInv, KeptInv
  <2>3. ASSUME {r \in Rows : r.tenant_id \in Mine} \subseteq doomed
        PROVE  {r \in Rows' : r.tenant_id \in Mine} \subseteq doomed \cup {row}
    <3>1. abandoned.op = "assertion" => \A r \in doomed \cap Rows : KeyOf(r) # TargetOf(row)
      BY <1>1 DEF Waits
    <3> QED BY <1>2, <1>6, <2>3, <3>1, OwnLedgerRows
  <2>4. ASSUME NEW i \in DOMAIN Deletions, ToDelete(Deletions[i]) \subseteq doomed
        PROVE  ToDelete(Deletions[i])' \subseteq doomed \cup {row}
    <3>2. i \in 1..5
      BY TablesInOrder
    <3>3. CASE i = 2
      BY <2>0, <2>3, <2>4, <3>3, TablesInOrder
    <3>4. CASE i # 2
      BY <2>0, <2>1, <2>4, <3>2, <3>4, TablesInOrder DEF EvidenceGains, Gains
    <3> QED BY <3>3, <3>4
  <2>5. stage' = "cleaned" => OwnRows' \subseteq Late'
    <3> SUFFICES ASSUME stage = "cleaned" PROVE OwnRows' \subseteq Late'
      BY <1>1
    <3>1. OwnRows = {} /\ doomed = {}
      BY <1>2 DEF RunInv, DoomedInv
    <3>2. \A i \in DOMAIN Deletions : ToDelete(Deletions[i]) \subseteq doomed
      BY <3>1, OwnRowsByTable
    <3>3. \A i \in DOMAIN Deletions : ToDelete(Deletions[i])' \subseteq {row}
      BY <2>4, <3>1, <3>2
    <3>4. \A r \in OwnRows' : \E i \in 1..5 : r \in ToDelete(Deletions[i])'
      BY <2>0 DEF OwnRows
    <3> QED BY <1>2, <3>3, <3>4, TablesInOrder
  <2>6. DoomedInv'
    <3>1. stage = "deletes" =>
             \A i \in DOMAIN Deletions : i < step => ToDelete(Deletions[i])' \subseteq doomed \cup {row}
      BY <1>2, <2>4 DEF RunInv, DoomedInv
    <3> QED BY <1>1, <1>2, <3>1 DEF RunInv, DoomedInv, Mine, Deletions
  <2> QED BY <1>3, <1>4, <2>1, <2>2, <2>5, <2>6 DEF RunInv
<1> QED BY <1>1, <1>5, <1>6

\* The others store nothing that cleanup() would delete or that refers to it.
LEMMA OthersStep == RunInv /\ OtherClients => RunInv'
<1> SUFFICES ASSUME RunInv, OtherClients PROVE RunInv'
  OBVIOUS
<1>1. EvidenceNext /\ UNCHANGED <<ledger, workflow, step, stage, abandoned, pending, doomed, kept>>
  BY DEF OtherClients, script
<1>2. SourcesInv'
  BY <1>1, OthersEffect DEF RunInv
<1>3. PICK row \in Envelopes \cup Spans \cup Embeddings :
         /\ Gains(sources, sources', row) /\ Gains(spans, spans', row)
         /\ Gains(embeddings, embeddings', row)
         /\ row.tenant_id \notin Mine
  BY <1>1, OthersEffect DEF RunInv
<1>4. /\ LedgerInv' /\ Holdings' = Holdings /\ OwnRows' = OwnRows /\ Late' = Late
      /\ spans \cup embeddings \subseteq spans' \cup embeddings'
  <2>1. Rows' = Rows /\ LedgerInv' /\ Late' = Late
    BY <1>1 DEF RunInv, LedgerInv, Rows, Late
  <2>2. \A r : r.tenant_id \in Mine =>
           /\ r \in sources' <=> r \in sources
           /\ r \in spans' <=> r \in spans
           /\ r \in embeddings' <=> r \in embeddings
    BY <1>3 DEF Gains
  <2>3. OwnRows' = OwnRows
    BY <1>1, <2>1, <2>2 DEF OwnRows, Mine
  <2>4. Holdings' = Holdings
    <3>1. Holdings'.rows = Holdings.rows /\ Holdings'.keys = Holdings.keys
      BY <1>1, <2>2 DEF Holdings, Mine
    <3> QED BY <3>1 DEF Holdings
  <2> QED BY <1>3, <2>1, <2>3, <2>4 DEF Gains
<1>5. \A i \in DOMAIN Deletions : ToDelete(Deletions[i])' = ToDelete(Deletions[i])
  <2>1. {r \in sources' : r.tenant_id \in Mine} = {r \in sources : r.tenant_id \in Mine}
        /\ {r \in spans' : r.tenant_id \in Mine} = {r \in spans : r.tenant_id \in Mine}
        /\ {r \in embeddings' : r.tenant_id \in Mine} = {r \in embeddings : r.tenant_id \in Mine}
    BY <1>3 DEF Gains
  <2>2. Rows' = Rows /\ workflow' = workflow
    BY <1>1 DEF Rows
  <2> QED BY <2>1, <2>2 DEF ToDelete, RowsOf, Mine, Deletions
<1>6. ControlInv'
  BY <1>1 DEF RunInv, ControlInv, OwnCall, Mine
<1>7. DoomedInv'
  BY <1>1, <1>4, <1>5 DEF RunInv, DoomedInv, Mine, Deletions
<1>8. KeptInv' /\ RefusedOnlyByLate' /\ (stage' = "cleaned" => OwnRows' \subseteq Late')
  BY <1>1, <1>4 DEF RunInv, KeptInv, RefusedOnlyByLate
<1> QED BY <1>2, <1>4, <1>6, <1>7, <1>8 DEF RunInv

\* The invariant is kept by every step.
LEMMA RunStep == RunInv /\ [Next]_vars => RunInv'
<1> SUFFICES ASSUME RunInv, [Next]_vars PROVE RunInv'
  OBVIOUS
<1>1. CASE UNCHANGED vars
  <2>1. UNCHANGED <<ledger, workflow, sources, spans, embeddings, step, stage, abandoned, pending,
                    doomed, kept>>
    BY <1>1 DEF vars, tables, evidence, script
  <2> QED BY <2>1 DEF RunInv, LedgerInv, SourcesInv, ControlInv, OwnCall, DoomedInv, Deletions,
                      ToDelete, RowsOf, Rows, Mine, Late, OwnRows, RefusedOnlyByLate, KeptInv, Holdings
<1>2. CASE Next
  BY <1>2, CallStep, FailureStep, LateStep, DeleteStep, CommitStep, DeathStep, OthersStep DEF Next
<1> QED BY <1>1, <1>2

\* A cleanup that has not committed has deleted nothing, at whatever statement it
\* was refused or killed and whatever late requests did.
THEOREM CleanupsAreAtomic == Spec => []CleanupIsAtomic
<1>1. RunInv => CleanupIsAtomic
  BY DEF RunInv, KeptInv, CleanupIsAtomic
<1> QED BY <1>1, RunStart, RunStep, PTL DEF Spec

\* A cleanup that has committed leaves at most the row of the abandoned request.
THEOREM LeftoversAreLate == Spec => []LeftoverIsLate
<1>1. RunInv => LeftoverIsLate
  <2> SUFFICES ASSUME RunInv, stage = "cleaned"
               PROVE  OwnRows \subseteq IF abandoned = None THEN {} ELSE {abandoned.row}
    BY DEF LeftoverIsLate
  <2> QED BY DEF RunInv, Late
<1> QED BY <1>1, RunStart, RunStep, PTL DEF Spec

\* A cleanup is refused only on account of the abandoned request: the order of the
\* deletions is that of the foreign keys.
THEOREM RefusalsAreLate == Spec => []RefusedOnlyByLate
<1>1. RunInv => RefusedOnlyByLate
  BY DEF RunInv
<1> QED BY <1>1, RunStart, RunStep, PTL DEF Spec

-----------------------------------------------------------------------------
\* The rows of the others.

TheirRows == {r \in Rows \cup workflow \cup sources \cup spans \cup embeddings : r.tenant_id \notin Mine}

\* A call of the script does nothing to them.
LEMMA CallsLeaveThem ==
    ASSUME LedgerInv, SourcesInv, NEW c, OwnCall(c), Execute(c)
    PROVE  TheirRows' = TheirRows
<1>1. LedgerInv' /\ EvidenceGains(c.row) /\ c.row.tenant_id \in Mine
  BY ExecuteEffect DEF OwnCall
<1>2. ASSUME NEW k \in AssertionKey, k[1] \notin Mine
      PROVE  ledger'[k] = ledger[k]
  <2>1. k # KeyOf(c.row) /\ k # TargetOf(c.row)
    BY <1>1, <1>2 DEF KeyOf, TargetOf
  <2> QED BY <2>1, ExecuteEffect DEF LedgerEffect
<1>3. \A r : r.tenant_id \notin Mine => (r \in Rows' <=> r \in Rows)
  <2>1. \A k \in AssertionKey : ledger[k] # None => ledger[k].tenant_id = k[1]
    BY DEF LedgerInv, KeyOf
  <2>2. \A k \in AssertionKey : ledger'[k] # None => ledger'[k].tenant_id = k[1]
    BY <1>1 DEF LedgerInv, KeyOf
  <2> QED BY <1>2, <2>1, <2>2 DEF Rows
<1>4. \A r : r.tenant_id \notin Mine =>
         /\ r \in workflow' <=> r \in workflow
         /\ r \in sources' <=> r \in sources
         /\ r \in spans' <=> r \in spans
         /\ r \in embeddings' <=> r \in embeddings
  BY <1>1 DEF EvidenceGains, Gains
<1> QED BY <1>3, <1>4 DEF TheirRows, Mine

\* The script never touches a row of another tenant, in its calls or in cleanup().
THEOREM OthersAreLeftAlone == Spec => OthersUntouched
<1>1. RunInv /\ [Next]_vars => [OthersLeftAlone]_vars
  <2> SUFFICES ASSUME RunInv, Next PROVE OthersLeftAlone
    OBVIOUS
  <2>0. /\ LedgerInv /\ SourcesInv /\ \A r \in doomed : r.tenant_id \in Mine
    BY DEF RunInv, DoomedInv
  <2>1. TheirRows' = TheirRows => OthersLeftAlone
    BY DEF TheirRows, OthersLeftAlone
  <2>2. UNCHANGED tables => TheirRows' = TheirRows
    BY DEF tables, evidence, TheirRows, Rows, Mine
  <2>3. CASE MakeCall
    BY <2>0, <2>1, <2>3, NextCall, CallsLeaveThem DEF MakeCall, RunInv
  <2>4. CASE CallFails \/ TimeOut
    BY <2>0, <2>1, <2>2, <2>4, NextCall, CallsLeaveThem DEF CallFails, TimeOut, RunInv
  <2>5. CASE ExecuteLate
    <3>1. OwnCall(abandoned)
      BY <2>5 DEF ExecuteLate, RunInv, ControlInv
    <3> QED BY <2>0, <2>1, <2>2, <2>5, <3>1, CallsLeaveThem DEF ExecuteLate
  <2>6. CASE Delete \/ Die
    BY <2>1, <2>2, <2>6 DEF Delete, Die, RollBack
  <2>7. CASE Commit
    <3>1. TheirRows' = TheirRows
      BY <2>0, <2>7, EraseEffect DEF Commit, TheirRows, Mine
    <3> QED BY <2>1, <3>1
  <2>8. CASE OtherClients
    <3>1. PICK row \in Envelopes \cup Spans \cup Embeddings :
             /\ Gains(sources, sources', row) /\ Gains(spans, spans', row)
             /\ Gains(embeddings, embeddings', row)
      BY <2>0, <2>8, OthersEffect DEF OtherClients
    <3>2. Rows' = Rows /\ workflow' = workflow
      BY <2>8 DEF OtherClients, Rows
    <3>3. TheirRows \subseteq TheirRows' /\ TheirRows' \ TheirRows \subseteq {row}
      BY <3>1, <3>2 DEF TheirRows, Gains, Mine
    <3> QED BY <3>3 DEF TheirRows, OthersLeftAlone
  <2> QED BY <2>3, <2>4, <2>5, <2>6, <2>7, <2>8 DEF Next
<1> QED BY <1>1, RunStart, RunStep, PTL DEF Spec, OthersUntouched

-----------------------------------------------------------------------------
\* The calls of the script, in their order.

\* The sequence u is s, of length m, followed by t, of length n.
Joined(u, s, t, m, n) ==
    /\ IsSequence(u) /\ Len(u) = m + n
    /\ \A i \in 1..m : u[i] = s[i]
    /\ \A i \in 1..n : u[m + i] = t[i]

\* The places of a concatenation.
LEMMA ConcatPlaces ==
    ASSUME NEW s, NEW t, IsSequence(s), IsSequence(t)
    PROVE  Joined(s \o t, s, t, Len(s), Len(t))
<1> DEFINE S == ToSet(s) \cup ToSet(t)
           u == s \o t
           m == Len(s)
           n == Len(t)
<1>1. s \in Seq(S) /\ t \in Seq(S)
  BY SeqMonotonic DEF IsSequence
<1> HIDE DEF S
<1>2. /\ Len(u) = m + n /\ m \in Nat /\ n \in Nat
      /\ \A i \in 1..m + n : u[i] = IF i <= m THEN s[i] ELSE t[i - m]
  BY <1>1, ConcatProperties, LenProperties
<1>3. IsSequence(u)
  BY ConcatMembers
<1> HIDE DEF u, m, n
<1>4. \A i \in 1..n : u[m + i] = t[i]
  <2> SUFFICES ASSUME NEW i \in 1..n PROVE u[m + i] = t[i]
    OBVIOUS
  <2>1. m + i \in 1..m + n /\ ~(m + i <= m) /\ (m + i) - m = i
    BY <1>2
  <2> QED BY <1>2, <2>1
<1>5. \A i \in 1..m : u[i] = s[i]
  BY <1>2
<1>6. Joined(u, s, t, m, n)
  BY <1>2, <1>3, <1>4, <1>5 DEF Joined
<1> QED BY <1>6 DEF u, m, n

\* The calls that store the first k documents.
Submits(u, k) ==
    /\ IsSequence(u) /\ Len(u) = 3 * k
    /\ \A i \in 1..k :
          /\ u[3 * i - 2] = Call("envelope", source_payload(i), None)
          /\ u[3 * i - 1] = Call("span", span_payload(i), None)
          /\ u[3 * i] = Call("embedding", embedding_payload(i), "inserted")

\* One document more.
LEMMA SubmitsNext ==
    ASSUME NEW k \in 0..5, NEW u, Submits(u, k)
    PROVE  Submits(u \o Submit(k + 1), k + 1)
<1> DEFINE t == Submit(k + 1)
           v == u \o t
<1>1. /\ IsSequence(t) /\ Len(t) = 3
      /\ t[1] = Call("envelope", source_payload(k + 1), None)
      /\ t[2] = Call("span", span_payload(k + 1), None)
      /\ t[3] = Call("embedding", embedding_payload(k + 1), "inserted")
  BY DEF Submit, IsSequence, ToSet
<1> HIDE DEF t
<1>2. Joined(v, u, t, 3 * k, 3)
  BY <1>1, ConcatPlaces DEF Submits
<1> HIDE DEF v
<1>3. IsSequence(v) /\ Len(v) = 3 * (k + 1)
  BY <1>2 DEF Joined
<1>4. ASSUME NEW i \in 1..(k + 1)
      PROVE  /\ v[3 * i - 2] = Call("envelope", source_payload(i), None)
             /\ v[3 * i - 1] = Call("span", span_payload(i), None)
             /\ v[3 * i] = Call("embedding", embedding_payload(i), "inserted")
  <2>1. CASE i \in 1..k
    <3>1. 3 * i - 2 \in 1..(3 * k) /\ 3 * i - 1 \in 1..(3 * k) /\ 3 * i \in 1..(3 * k)
      BY <2>1
    <3>2. v[3 * i - 2] = u[3 * i - 2] /\ v[3 * i - 1] = u[3 * i - 1] /\ v[3 * i] = u[3 * i]
      BY <1>2, <3>1 DEF Joined
    <3> QED BY <2>1, <3>2 DEF Submits
  <2>2. CASE i = k + 1
    <3>1. 3 * i - 2 = 3 * k + 1 /\ 3 * i - 1 = 3 * k + 2 /\ 3 * i = 3 * k + 3
      BY <2>2
    <3>2. v[3 * k + 1] = t[1] /\ v[3 * k + 2] = t[2] /\ v[3 * k + 3] = t[3]
      BY <1>2 DEF Joined
    <3> QED BY <1>1, <2>2, <3>1, <3>2
  <2> QED BY <2>1, <2>2
<1>5. Submits(v, k + 1)
  BY <1>3, <1>4 DEF Submits
<1> QED BY <1>5 DEF v, t

\* Which call is made at which step.
LEMMA ScriptPlaces ==
    /\ Len(Script) = 47
    /\ \A i \in 1..6 :
          /\ Script[3 * i - 2] = Call("envelope", source_payload(i), None)
          /\ Script[3 * i - 1] = Call("span", span_payload(i), None)
          /\ Script[3 * i] = Call("embedding", embedding_payload(i), "inserted")
    /\ Script[19] = Call("put workflow", workflow_payload, None)
    /\ Script[20] = Call("get workflow", workflow_payload, "persistence")
    /\ Script[21] = Call("assertion", contract_assertion, None)
    /\ Script[22] = Call("assertion", amendment_assertion, None)
    /\ Script[23] = Call("assertion", draft_assertion, "creation")
    /\ Script[24] = Call("assertion", amendment_assertion, "idempotency")
    /\ Script[25] = Call("compile", current_context, "current")
    /\ Script[26] = Call("compile", historical_context, "historical")
    /\ Script[27] = Call("compile", retrieval_context, "retrieval")
    /\ Script[28] = Call("span", span_payload(2), "idempotency")
    /\ \A j \in 29..47 : Script[j] = Call("compile", current_context, None)
<1> DEFINE u1 == Submit(1)
           u2 == u1 \o Submit(2)
           u3 == u2 \o Submit(3)
           u4 == u3 \o Submit(4)
           u5 == u4 \o Submit(5)
           u == u5 \o Submit(6)
           s1 == Call("put workflow", workflow_payload, None)
           s2 == Call("get workflow", workflow_payload, "persistence")
           s3 == Call("assertion", contract_assertion, None)
           s4 == Call("assertion", amendment_assertion, None)
           s5 == Call("assertion", draft_assertion, "creation")
           s6 == Call("assertion", amendment_assertion, "idempotency")
           s7 == Call("compile", current_context, "current")
           s8 == Call("compile", historical_context, "historical")
           s9 == Call("compile", retrieval_context, "retrieval")
           s10 == Call("span", span_payload(2), "idempotency")
           v == <<s1, s2, s3, s4, s5, s6, s7, s8, s9, s10>>
           c == Call("compile", current_context, None)
           w == [i \in 1..19 |-> c]
           uv == u \o v
           s == uv \o w
<1>1. Script = s
  BY DEF Script
<1>2. Submits(u1, 1)
  <2> DEFINE a == Call("envelope", source_payload(1), None)
             b == Call("span", span_payload(1), None)
             d == Call("embedding", embedding_payload(1), "inserted")
  <2>1. u1 = <<a, b, d>>
    BY DEF Submit
  <2> HIDE DEF a, b, d, u1
  <2>2. /\ IsSequence(u1) /\ Len(u1) = 3
        /\ u1[1] = a /\ u1[2] = b /\ u1[3] = d
    BY <2>1 DEF IsSequence, ToSet
  <2>3. \A i \in 1..1 : i = 1 /\ 3 * i - 2 = 1 /\ 3 * i - 1 = 2 /\ 3 * i = 3
    OBVIOUS
  <2> QED BY <2>2, <2>3 DEF Submits, a, b, d
<1>3. Submits(u, 6)
  <2> HIDE DEF u1
  <2>1. Submits(u2, 2)
    BY <1>2, SubmitsNext
  <2> HIDE DEF u2
  <2>2. Submits(u3, 3)
    BY <2>1, SubmitsNext
  <2> HIDE DEF u3
  <2>3. Submits(u4, 4)
    BY <2>2, SubmitsNext
  <2> HIDE DEF u4
  <2>4. Submits(u5, 5)
    BY <2>3, SubmitsNext
  <2> HIDE DEF u5
  <2> QED BY <2>4, SubmitsNext
<1> HIDE DEF u, s1, s2, s3, s4, s5, s6, s7, s8, s9, s10, c
<1>4. /\ IsSequence(v) /\ Len(v) = 10
      /\ v[1] = s1 /\ v[2] = s2 /\ v[3] = s3 /\ v[4] = s4 /\ v[5] = s5
      /\ v[6] = s6 /\ v[7] = s7 /\ v[8] = s8 /\ v[9] = s9 /\ v[10] = s10
  <2> DEFINE R == {s1, s2, s3, s4, s5, s6, s7, s8, s9, s10}
  <2>1. v \in Seq(R) /\ Len(v) = 10
    OBVIOUS
  <2>2. ToSet(v) = R
    BY DEF ToSet
  <2>3. IsSequence(v)
    BY <2>1, <2>2 DEF IsSequence
  <2> QED BY <2>1, <2>3
<1>5. IsSequence(w) /\ Len(w) = 19 /\ \A i \in 1..19 : w[i] = c
  <2>1. w \in Seq({c}) /\ ToSet(w) = {c}
    BY SeqDef DEF ToSet
  <2>2. DOMAIN w = 1..19
    OBVIOUS
  <2>3. Len(w) = 19
    BY <2>1, <2>2, LenProperties
  <2> QED BY <2>1, <2>3 DEF IsSequence
<1> HIDE DEF v, w
<1>6. Joined(uv, u, v, 18, 10)
  <2>1. IsSequence(u) /\ Len(u) = 18
    BY <1>3 DEF Submits
  <2> QED BY <1>4, <2>1, ConcatPlaces
<1> HIDE DEF uv
<1>7. Joined(s, uv, w, 28, 19)
  <2>1. IsSequence(uv) /\ Len(uv) = 28
    BY <1>6 DEF Joined
  <2> QED BY <1>5, <2>1, ConcatPlaces
<1> HIDE DEF s
<1>8. Len(s) = 47
  BY <1>7 DEF Joined
<1>9. ASSUME NEW i \in 1..6
      PROVE  /\ s[3 * i - 2] = Call("envelope", source_payload(i), None)
             /\ s[3 * i - 1] = Call("span", span_payload(i), None)
             /\ s[3 * i] = Call("embedding", embedding_payload(i), "inserted")
  <2>1. 3 * i - 2 \in 1..18 /\ 3 * i - 1 \in 1..18 /\ 3 * i \in 1..18
    OBVIOUS
  <2>2. \A j \in 1..18 : s[j] = u[j]
    BY <1>6, <1>7 DEF Joined
  <2> QED BY <1>3, <2>1, <2>2 DEF Submits
<1>10. \A j \in 1..10 : s[18 + j] = v[j]
  BY <1>6, <1>7 DEF Joined
<1>11. /\ s[19] = s1 /\ s[20] = s2 /\ s[21] = s3 /\ s[22] = s4 /\ s[23] = s5
       /\ s[24] = s6 /\ s[25] = s7 /\ s[26] = s8 /\ s[27] = s9 /\ s[28] = s10
  <2>1. /\ s[18 + 1] = v[1] /\ s[18 + 2] = v[2] /\ s[18 + 3] = v[3] /\ s[18 + 4] = v[4]
        /\ s[18 + 5] = v[5] /\ s[18 + 6] = v[6] /\ s[18 + 7] = v[7] /\ s[18 + 8] = v[8]
        /\ s[18 + 9] = v[9] /\ s[18 + 10] = v[10]
    BY <1>10
  <2> QED BY <1>4, <2>1
<1>12. ASSUME NEW j \in 29..47
       PROVE  s[j] = c
  <2>1. j - 28 \in 1..19 /\ 28 + (j - 28) = j
    OBVIOUS
  <2> QED BY <1>5, <1>7, <2>1 DEF Joined
<1> QED BY <1>1, <1>8, <1>9, <1>11, <1>12 DEF s1, s2, s3, s4, s5, s6, s7, s8, s9, s10, c

-----------------------------------------------------------------------------
\* What the script hears, and what it takes to pass.

\* The answers heard up to the latest one: what was heard before is in front.
LEMMA Hearing ==
    ASSUME NEW a, IsSequence(a), NEW answer
    PROVE  LET h == Append(a, answer)
               outcomes == [i \in DOMAIN h |-> h[i].outcome]
           IN  /\ IsSequence(h) /\ Last(h) = answer
               /\ ToSet(h) = ToSet(a) \cup {answer}
               /\ ToSet(outcomes) = {x.outcome : x \in ToSet(h)}
               /\ ToSet(Front(outcomes)) = {x.outcome : x \in ToSet(a)}
               /\ Last(outcomes) = answer.outcome
<1> DEFINE S == ToSet(a) \cup {answer}
           n == Len(a)
           h == Append(a, answer)
           outcomes == [i \in DOMAIN h |-> h[i].outcome]
           R == {x.outcome : x \in S}
           front == Front(outcomes)
<1>1. a \in Seq(S) /\ answer \in S
  <2> DEFINE T == ToSet(a)
  <2>1. a \in Seq(T) /\ T \subseteq S
    BY DEF IsSequence
  <2> QED BY <2>1, SeqMonotonic
<1>2. /\ n \in Nat /\ DOMAIN a = 1..n /\ ToSet(a) = {a[i] : i \in 1..n}
  BY <1>1, SequenceFacts
<1> HIDE DEF S, n
<1>3. /\ h \in Seq(S) /\ Len(h) = n + 1
      /\ \A i \in 1..n : h[i] = a[i]
      /\ h[n + 1] = answer
  <2>1. /\ h \in Seq(S) /\ Len(h) = Len(a) + 1
        /\ \A i \in 1..Len(a) : h[i] = a[i]
        /\ h[Len(a) + 1] = answer
    BY <1>1, AppendProperties
  <2> QED BY <2>1 DEF n
<1> HIDE DEF h
<1>4. DOMAIN h = 1..(n + 1) /\ ToSet(h) = {h[i] : i \in 1..(n + 1)}
  BY <1>3, SequenceFacts
<1>5. \A i : i \in 1..(n + 1) <=> i \in 1..n \/ i = n + 1
  BY <1>2
<1>6. ToSet(h) = ToSet(a) \cup {answer}
  BY <1>2, <1>3, <1>4, <1>5
<1>7. IsSequence(h) /\ Last(h) = answer
  BY <1>3, <1>6 DEF IsSequence, Last, S
<1>8. outcomes = [i \in 1..(n + 1) |-> h[i].outcome]
  BY <1>4
<1>9. outcomes \in [1..(n + 1) -> R]
  BY <1>3, <1>4, <1>6, <1>8 DEF S
<1>10. outcomes \in Seq(R) /\ Len(outcomes) = n + 1 /\ DOMAIN outcomes = 1..(n + 1)
  <2> HIDE DEF outcomes, R
  <2> QED BY <1>2, <1>9, SeqDef, LenProperties
<1>11. \A i \in 1..(n + 1) : outcomes[i] = h[i].outcome
  BY <1>8
<1> HIDE DEF outcomes, R
<1>12. ToSet(outcomes) = {x.outcome : x \in ToSet(h)}
  BY <1>4, <1>10, <1>11 DEF ToSet
<1>13. Last(outcomes) = answer.outcome
  BY <1>2, <1>3, <1>10, <1>11 DEF Last
<1>14. /\ front \in Seq(R) /\ Len(front) = n
       /\ \A i \in 1..n : front[i] = outcomes[i]
  <2>1. (n + 1) - 1 = n /\ n \in 0..(n + 1)
    BY <1>2
  <2>2. front = SubSeq(outcomes, 1, n)
    BY <1>10, <2>1 DEF Front
  <2>3. \A i \in 1..n : outcomes[i] \in R
    BY <1>5, <1>9
  <2> HIDE DEF front
  <2> QED BY <1>2, <1>10, <2>2, <2>3, SubSeqProperties
<1> HIDE DEF front
<1>15. ToSet(front) = {front[i] : i \in 1..n}
  BY <1>14, SequenceFacts
<1>16. \A i \in 1..n : front[i] = a[i].outcome
  BY <1>3, <1>5, <1>11, <1>14
<1>17. ToSet(front) = {x.outcome : x \in ToSet(a)}
  BY <1>2, <1>15, <1>16
<1> QED BY <1>6, <1>7, <1>12, <1>13, <1>17 DEF front, outcomes, h

\* All that was heard since the last check is new rows.
AllCreated(a) == \A x \in ToSet(a) : x.outcome = "created"

\* The checks, one by one.
LEMMA WhatPasses ==
    ASSUME NEW a, IsSequence(a), NEW answer
    PROVE  LET h == Append(a, answer)  body == answer.body IN
           /\ Passes(None, h)
           /\ AllCreated(a) /\ answer.outcome = "created" => Passes("inserted", h)
           /\ body = {workflow_payload} => Passes("persistence", h)
           /\ AllCreated(a) /\ ToSet(a) # {} => Passes("creation", h)
           /\ answer.outcome = "duplicate" => Passes("idempotency", h)
           /\ (/\ 12 \in Values(body) /\ 10 \notin Values(body)
               /\ \E x \in body.assertions : x.content.evidence_span_id = 2
               /\ Cardinality(body.conflicts) = 1
               /\ body.bounded /\ Len(body.evidence) <= 3) => Passes("current", h)
           /\ Values(body) = {10} => Passes("historical", h)
           /\ 12 \in Rates(body) /\ 99 \notin Rates(body) => Passes("retrieval", h)
<1> DEFINE h == Append(a, answer)
           outcomes == [i \in DOMAIN h |-> h[i].outcome]
<1>1. /\ Last(h) = answer
      /\ ToSet(h) = ToSet(a) \cup {answer}
      /\ ToSet(outcomes) = {x.outcome : x \in ToSet(h)}
      /\ ToSet(Front(outcomes)) = {x.outcome : x \in ToSet(a)}
      /\ Last(outcomes) = answer.outcome
  BY Hearing
<1>2. /\ None # "inserted" /\ None # "persistence" /\ None # "creation"
      /\ None # "idempotency" /\ None # "current" /\ None # "historical"
      /\ None # "retrieval"
  BY NamesAssumption
<1>3. AllCreated(a) /\ answer.outcome = "created" => ToSet(outcomes) = {"created"}
  BY <1>1 DEF AllCreated
<1>4. AllCreated(a) /\ ToSet(a) # {} => ToSet(Front(outcomes)) = {"created"}
  BY <1>1 DEF AllCreated
<1> HIDE DEF h
<1>5. Passes(None, h)
  BY <1>2 DEF Passes
<1>6. AllCreated(a) /\ answer.outcome = "created" => Passes("inserted", h)
  BY <1>2, <1>3 DEF Passes
<1>7. answer.body = {workflow_payload} => Passes("persistence", h)
  BY <1>1, <1>2 DEF Passes
<1>8. AllCreated(a) /\ ToSet(a) # {} => Passes("creation", h)
  BY <1>2, <1>4 DEF Passes
<1>9. answer.outcome = "duplicate" => Passes("idempotency", h)
  BY <1>1, <1>2 DEF Passes
<1>10. (/\ 12 \in Values(answer.body) /\ 10 \notin Values(answer.body)
        /\ \E x \in answer.body.assertions : x.content.evidence_span_id = 2
        /\ Cardinality(answer.body.conflicts) = 1
        /\ answer.body.bounded /\ Len(answer.body.evidence) <= 3) => Passes("current", h)
  BY <1>1, <1>2 DEF Passes
<1>11. Values(answer.body) = {10} => Passes("historical", h)
  BY <1>1, <1>2 DEF Passes
<1>12. 12 \in Rates(answer.body) /\ 99 \notin Rates(answer.body) => Passes("retrieval", h)
  BY <1>1, <1>2 DEF Passes
<1> QED BY <1>5, <1>6, <1>7, <1>8, <1>9, <1>10, <1>11, <1>12 DEF h

-----------------------------------------------------------------------------
\* What the run has stored before each call.

\* The run's own rows of a table.
Ours(rows) == {r \in rows : r.tenant_id \in Mine}

\* Its ledger before call n.
LedgerAt(n, k) ==
    IF k = KeyOf(contract_assertion) /\ n > 21
    THEN IF n > 22 THEN Supersede(contract_assertion, amendment_assertion)
                   ELSE contract_assertion
    ELSE IF k = KeyOf(amendment_assertion) /\ n > 22 THEN amendment_assertion
    ELSE IF k = KeyOf(draft_assertion) /\ n > 23 THEN draft_assertion
    ELSE None

\* Its evidence and its ledger before call n.
EvidenceAt(n) ==
    /\ Ours(sources) = {source_payload(i) : i \in {i \in 1..6 : 3 * i - 2 < n}}
    /\ Ours(spans) = {span_payload(i) : i \in {i \in 1..6 : 3 * i - 1 < n}}
    /\ Ours(embeddings) = {embedding_payload(i) : i \in {i \in 1..6 : 3 * i < n}}

LedgerFilled(n) == \A k \in AssertionKey : k[1] \in Mine => ledger[k] = LedgerAt(n, k)

WorkflowAt(n) == Ours(workflow) = IF n > 19 THEN {workflow_payload} ELSE {}

Loaded(n) == EvidenceAt(n) /\ WorkflowAt(n) /\ LedgerFilled(n)

\* What it has heard since the last check.
HeardAt(n, a) ==
    /\ IsSequence(a)
    /\ n \in 1..18 \cup 21..23 => AllCreated(a)
    /\ n \in 22..23 => ToSet(a) # {}

\* Sources of others have other ids.
OthersSources == \A s \in sources : s.tenant_id \notin Mine => s.source_id \notin 1..6

\* While the script makes its calls, each finds of the run's rows what the calls before
\* it stored.
ScenarioInv ==
    /\ ChecksPass /\ OthersSources
    /\ stage = "calls" => \E n \in 1..47 : step = n /\ Loaded(n) /\ HeardAt(n, answers)

\* The rows of document i.
LEMMA Payloads ==
    ASSUME NEW i \in 1..6
    PROVE  /\ current_tenant(i) \in Mine
           /\ source_payload(i).tenant_id = current_tenant(i)
           /\ source_payload(i).source_id = i
           /\ span_payload(i).tenant_id = current_tenant(i)
           /\ span_payload(i).span_id = i /\ span_payload(i).source_id = i
           /\ span_payload(i).says = documents[i].says
           /\ embedding_payload(i).tenant_id = current_tenant(i)
           /\ embedding_payload(i).span_id = i
           /\ embedding_payload(i).model = "validation-embedding"
           /\ embedding_payload(i).vector = documents[i].vector
<1>1. current_tenant(i) \in Mine
  BY DEF current_tenant, Mine
<1> QED BY <1>1 DEF source_payload, span_payload, embedding_payload

\* The rows of others are the others' alone.
LEMMA OursOnly ==
    ASSUME NEW S, NEW T, NEW row, T = S \cup {row}
    PROVE  /\ row.tenant_id \in Mine => Ours(T) = Ours(S) \cup {row}
           /\ row.tenant_id \notin Mine => Ours(T) = Ours(S)
BY DEF Ours

\* An envelope of the script is stored.
LEMMA EnvelopeStored ==
    ASSUME OthersSources, NEW i \in 1..6, EvidenceAt(3 * i - 2),
           NEW e, e = source_payload(i), PutEnvelope(e)
    PROVE  EnvelopeOutcome(e) = "created" /\ EvidenceAt(3 * i - 1)'
<1>1. /\ e.tenant_id \in Mine /\ e.source_id = i /\ SourceKey(e) = <<e.tenant_id, i>>
  BY Payloads DEF SourceKey
<1>2. ASSUME NEW r \in sources
      PROVE  r.source_id # i
  <2>1. CASE r.tenant_id \in Mine
    <3>1. PICK j \in 1..6 : 3 * j - 2 < 3 * i - 2 /\ r = source_payload(j)
      BY <2>1 DEF EvidenceAt, Ours
    <3>2. r.source_id = j
      BY <3>1, Payloads
    <3> QED BY <3>1, <3>2
  <2>2. CASE r.tenant_id \notin Mine
    BY <2>2 DEF OthersSources
  <2> QED BY <2>1, <2>2
<1>3. EnvelopeOutcome(e) = "created"
  BY <1>1, <1>2 DEF EnvelopeOutcome, SourceStored, SourceKey
<1>4. sources' = sources \cup {e} /\ spans' = spans /\ embeddings' = embeddings
  BY <1>3 DEF PutEnvelope
<1>5. Ours(sources') = Ours(sources) \cup {e}
  BY <1>1, <1>4, OursOnly
<1>6. {j \in 1..6 : 3 * j - 2 < 3 * i - 1} = {j \in 1..6 : 3 * j - 2 < 3 * i - 2} \cup {i}
  OBVIOUS
<1>7. /\ {j \in 1..6 : 3 * j - 1 < 3 * i - 1} = {j \in 1..6 : 3 * j - 1 < 3 * i - 2}
      /\ {j \in 1..6 : 3 * j < 3 * i - 1} = {j \in 1..6 : 3 * j < 3 * i - 2}
  OBVIOUS
<1>8. Ours(sources') = {source_payload(j) : j \in {j \in 1..6 : 3 * j - 2 < 3 * i - 1}}
  BY <1>5, <1>6 DEF EvidenceAt
<1>9. /\ Ours(spans') = {span_payload(j) : j \in {j \in 1..6 : 3 * j - 1 < 3 * i - 1}}
      /\ Ours(embeddings') = {embedding_payload(j) : j \in {j \in 1..6 : 3 * j < 3 * i - 1}}
  BY <1>4, <1>7 DEF EvidenceAt
<1>10. EvidenceAt(3 * i - 1)'
  BY <1>8, <1>9 DEF EvidenceAt, Ours
<1> QED BY <1>3, <1>10

\* So is its span.
LEMMA SpanInserted ==
    ASSUME NEW i \in 1..6, EvidenceAt(3 * i - 1),
           NEW s, s = span_payload(i), PutSpan(s)
    PROVE  SpanOutcome(s) = "created" /\ EvidenceAt(3 * i)'
<1>1. s.tenant_id \in Mine /\ s.source_id = i /\ SpanKey(s) = <<s.tenant_id, i>>
  BY Payloads DEF SpanKey
<1>2. ~SpanStored(SpanKey(s))
  <2> SUFFICES ASSUME NEW r \in spans, SpanKey(r) = SpanKey(s)
               PROVE  FALSE
    BY DEF SpanStored
  <2>1. r.tenant_id \in Mine /\ r.span_id = i
    BY <1>1 DEF SpanKey
  <2>2. PICK j \in 1..6 : 3 * j - 1 < 3 * i - 1 /\ r = span_payload(j)
    BY <2>1 DEF EvidenceAt, Ours
  <2>3. r.span_id = j
    BY <2>2, Payloads
  <2> QED BY <2>1, <2>2, <2>3
<1>3. \E r \in sources : r.source_id = s.source_id
  <2>1. source_payload(i) \in Ours(sources)
    <3>1. 3 * i - 2 < 3 * i - 1
      OBVIOUS
    <3> QED BY <3>1 DEF EvidenceAt
  <2>2. source_payload(i).source_id = i
    BY Payloads
  <2> QED BY <1>1, <2>1, <2>2 DEF Ours
<1>4. SpanOutcome(s) = "created"
  BY <1>2, <1>3 DEF SpanOutcome
<1>5. spans' = spans \cup {s} /\ sources' = sources /\ embeddings' = embeddings
  BY <1>4 DEF PutSpan
<1>6. Ours(spans') = Ours(spans) \cup {s}
  BY <1>1, <1>5, OursOnly
<1>7. {j \in 1..6 : 3 * j - 1 < 3 * i} = {j \in 1..6 : 3 * j - 1 < 3 * i - 1} \cup {i}
  OBVIOUS
<1>8. /\ {j \in 1..6 : 3 * j - 2 < 3 * i} = {j \in 1..6 : 3 * j - 2 < 3 * i - 1}
      /\ {j \in 1..6 : 3 * j < 3 * i} = {j \in 1..6 : 3 * j < 3 * i - 1}
  OBVIOUS
<1>9. Ours(spans') = {span_payload(j) : j \in {j \in 1..6 : 3 * j - 1 < 3 * i}}
  BY <1>6, <1>7 DEF EvidenceAt
<1>10. /\ Ours(sources') = {source_payload(j) : j \in {j \in 1..6 : 3 * j - 2 < 3 * i}}
       /\ Ours(embeddings') = {embedding_payload(j) : j \in {j \in 1..6 : 3 * j < 3 * i}}
  BY <1>5, <1>8 DEF EvidenceAt
<1>11. EvidenceAt(3 * i)'
  BY <1>9, <1>10 DEF EvidenceAt, Ours
<1> QED BY <1>4, <1>11

\* And its embedding.
LEMMA EmbeddingInserted ==
    ASSUME NEW i \in 1..6, EvidenceAt(3 * i),
           NEW e, e = embedding_payload(i), PutEmbedding(e)
    PROVE  EmbeddingOutcome(e) = "created" /\ EvidenceAt(3 * i + 1)'
<1>1. /\ e.tenant_id \in Mine /\ e.span_id = i /\ SpanKey(e) = <<current_tenant(i), i>>
      /\ EmbeddingKey(e) = <<e.tenant_id, i, e.model>>
  BY Payloads DEF SpanKey, EmbeddingKey
<1>2. ASSUME NEW r \in embeddings, EmbeddingKey(r) = EmbeddingKey(e)
      PROVE  FALSE
  <2>1. r.tenant_id \in Mine /\ r.span_id = i
    BY <1>1, <1>2 DEF EmbeddingKey
  <2>2. PICK j \in 1..6 : 3 * j < 3 * i /\ r = embedding_payload(j)
    BY <2>1 DEF EvidenceAt, Ours
  <2>3. r.span_id = j
    BY <2>2, Payloads
  <2> QED BY <2>1, <2>2, <2>3
<1>3. SpanStored(SpanKey(e))
  <2>1. span_payload(i) \in Ours(spans)
    <3>1. 3 * i - 1 < 3 * i
      OBVIOUS
    <3> QED BY <3>1 DEF EvidenceAt
  <2>2. SpanKey(span_payload(i)) = <<current_tenant(i), i>>
    BY Payloads DEF SpanKey
  <2> QED BY <1>1, <2>1, <2>2 DEF Ours, SpanStored
<1>4. EmbeddingOutcome(e) = "created"
  BY <1>2, <1>3 DEF EmbeddingOutcome
<1>5. embeddings' = embeddings \cup {e} /\ sources' = sources /\ spans' = spans
  BY <1>4 DEF PutEmbedding
<1>6. Ours(embeddings') = Ours(embeddings) \cup {e}
  BY <1>1, <1>5, OursOnly
<1>7. {j \in 1..6 : 3 * j < 3 * i + 1} = {j \in 1..6 : 3 * j < 3 * i} \cup {i}
  OBVIOUS
<1>8. /\ {j \in 1..6 : 3 * j - 2 < 3 * i + 1} = {j \in 1..6 : 3 * j - 2 < 3 * i}
      /\ {j \in 1..6 : 3 * j - 1 < 3 * i + 1} = {j \in 1..6 : 3 * j - 1 < 3 * i}
  OBVIOUS
<1>9. Ours(embeddings') = {embedding_payload(j) : j \in {j \in 1..6 : 3 * j < 3 * i + 1}}
  BY <1>6, <1>7 DEF EvidenceAt
<1>10. /\ Ours(sources') = {source_payload(j) : j \in {j \in 1..6 : 3 * j - 2 < 3 * i + 1}}
       /\ Ours(spans') = {span_payload(j) : j \in {j \in 1..6 : 3 * j - 1 < 3 * i + 1}}
  BY <1>5, <1>8 DEF EvidenceAt
<1>11. EvidenceAt(3 * i + 1)'
  BY <1>9, <1>10 DEF EvidenceAt, Ours
<1> QED BY <1>4, <1>11

\* The three assertions of the scenario: their keys, and what the second corrects.
LEMMA ScriptAssertions ==
    /\ {contract_assertion, amendment_assertion, draft_assertion} \subseteq AssertionRecord
    /\ KeyOf(contract_assertion) = <<tenant_id, 1>>
    /\ KeyOf(amendment_assertion) = <<tenant_id, 2>>
    /\ KeyOf(draft_assertion) = <<tenant_id, 4>>
    /\ TargetOf(contract_assertion) = <<tenant_id, None>>
    /\ TargetOf(amendment_assertion) = <<tenant_id, 1>>
    /\ TargetOf(draft_assertion) = <<tenant_id, None>>
    /\ <<tenant_id, 1>> \in AssertionKey /\ <<tenant_id, 2>> \in AssertionKey
    /\ <<tenant_id, 4>> \in AssertionKey /\ <<tenant_id, None>> \notin AssertionKey
    /\ contract_assertion # None /\ amendment_assertion # None /\ draft_assertion # None
    /\ tenant_id \in Mine /\ None \notin Int
<1>1. /\ contract_assertion.tenant_id = tenant_id /\ contract_assertion.assertion_id = 1
      /\ contract_assertion.supersedes_assertion_id = None
      /\ amendment_assertion.tenant_id = tenant_id /\ amendment_assertion.assertion_id = 2
      /\ amendment_assertion.supersedes_assertion_id = 1
      /\ draft_assertion.tenant_id = tenant_id /\ draft_assertion.assertion_id = 4
      /\ draft_assertion.supersedes_assertion_id = None
  BY DEF contract_assertion, amendment_assertion, draft_assertion, assertion_payload
<1>2. /\ contract_assertion \in AssertionRecord /\ amendment_assertion \in AssertionRecord
      /\ draft_assertion \in AssertionRecord
  BY ScenarioAssumption
<1>3. /\ tenant_id \in Tenants /\ 1 \in AssertionIds /\ 2 \in AssertionIds
      /\ 4 \in AssertionIds
  BY <1>1, <1>2 DEF AssertionRecord
<1>4. None \notin Int /\ None \notin AssertionIds /\ None \notin AssertionRecord
  BY NoneAssumption
<1>5. tenant_id \in Mine
  BY DEF Mine
<1> HIDE DEF contract_assertion, amendment_assertion, draft_assertion
<1>6. /\ <<tenant_id, 1>> \in AssertionKey /\ <<tenant_id, 2>> \in AssertionKey
      /\ <<tenant_id, 4>> \in AssertionKey /\ <<tenant_id, None>> \notin AssertionKey
  BY <1>3, <1>4 DEF AssertionKey
<1>7. /\ KeyOf(contract_assertion) = <<tenant_id, 1>>
      /\ KeyOf(amendment_assertion) = <<tenant_id, 2>>
      /\ KeyOf(draft_assertion) = <<tenant_id, 4>>
      /\ TargetOf(contract_assertion) = <<tenant_id, None>>
      /\ TargetOf(amendment_assertion) = <<tenant_id, 1>>
      /\ TargetOf(draft_assertion) = <<tenant_id, None>>
  BY <1>1 DEF KeyOf, TargetOf
<1> QED BY <1>2, <1>4, <1>5, <1>6, <1>7

\* What put() writes when the key is free.
LEMMA PutWrites ==
    ASSUME NEW a, PutAssertion(a), ledger[KeyOf(a)] = None, NEW k \in AssertionKey
    PROVE  ledger'[k] = IF k = KeyOf(a) THEN a
                        ELSE IF k = TargetOf(a) /\ ledger[k] # None
                             THEN Supersede(ledger[k], a) ELSE ledger[k]
BY DEF PutAssertion

\* The assertion of each call is stored, the second over the first.
LEMMA AssertionStored ==
    ASSUME NEW n \in 21..23, LedgerFilled(n), NEW a, PutAssertion(a),
           a = IF n = 21 THEN contract_assertion
               ELSE IF n = 22 THEN amendment_assertion ELSE draft_assertion
    PROVE  AssertionOutcome(a) = "created" /\ LedgerFilled(n + 1)'
<1> DEFINE at(m, k) ==
              IF k = <<tenant_id, 1>> /\ m > 21
              THEN IF m > 22 THEN Supersede(contract_assertion, amendment_assertion)
                             ELSE contract_assertion
              ELSE IF k = <<tenant_id, 2>> /\ m > 22 THEN amendment_assertion
              ELSE IF k = <<tenant_id, 4>> /\ m > 23 THEN draft_assertion
              ELSE None
<1>1. \A m \in Int : \A k : LedgerAt(m, k) = at(m, k)
  BY ScriptAssertions DEF LedgerAt
<1>2. \A k \in AssertionKey : k[1] \in Mine => ledger[k] = at(n, k)
  BY <1>1 DEF LedgerFilled
<1>3. ledger[KeyOf(a)] = None
  <2>1. CASE n = 21
    BY <1>2, <2>1, ScriptAssertions
  <2>2. CASE n = 22
    BY <1>2, <2>2, ScriptAssertions
  <2>3. CASE n = 23
    BY <1>2, <2>3, ScriptAssertions
  <2> QED BY <2>1, <2>2, <2>3
<1>4. ASSUME NEW k \in AssertionKey, k[1] \in Mine
      PROVE  ledger'[k] = at(n + 1, k)
  <2>1. ledger'[k] = IF k = KeyOf(a) THEN a
                     ELSE IF k = TargetOf(a) /\ ledger[k] # None
                          THEN Supersede(ledger[k], a) ELSE ledger[k]
    BY <1>3, PutWrites
  <2>2. ledger[k] = at(n, k)
    BY <1>2, <1>4
  <2>3. CASE n = 21
    BY <2>1, <2>2, <2>3, ScriptAssertions
  <2>4. CASE n = 22
    BY <2>1, <2>2, <2>4, ScriptAssertions
  <2>5. CASE n = 23
    BY <2>1, <2>2, <2>5, ScriptAssertions
  <2> QED BY <2>3, <2>4, <2>5
<1>5. LedgerFilled(n + 1)'
  <2>1. n + 1 \in Int
    OBVIOUS
  <2> QED BY <1>1, <1>4, <2>1 DEF LedgerFilled
<1> QED BY <1>3, <1>5 DEF AssertionOutcome

\* The amendment a second time changes nothing.
LEMMA AssertionRepeated ==
    ASSUME LedgerFilled(24), NEW a, a = amendment_assertion, PutAssertion(a)
    PROVE  AssertionOutcome(a) = "duplicate" /\ LedgerFilled(25)'
<1>1. ledger[<<tenant_id, 2>>] = amendment_assertion
  <2>1. LedgerAt(24, <<tenant_id, 2>>) = amendment_assertion
    BY ScriptAssertions DEF LedgerAt
  <2>2. <<tenant_id, 2>>[1] = tenant_id
    OBVIOUS
  <2> QED BY <2>1, <2>2, ScriptAssertions DEF LedgerFilled
<1>2. ledger' = ledger
  BY <1>1, ScriptAssertions DEF PutAssertion
<1>3. \A k : LedgerAt(25, k) = LedgerAt(24, k)
  BY DEF LedgerAt
<1> QED BY <1>1, <1>2, <1>3, ScriptAssertions DEF AssertionOutcome, LedgerFilled

\* A call that leaves the ledger alone.
LEMMA LedgerStays ==
    ASSUME NEW n \in 1..47, n \notin 21..23, LedgerFilled(n), ledger' = ledger
    PROVE  LedgerFilled(n + 1)'
<1>1. \A k : LedgerAt(n + 1, k) = LedgerAt(n, k)
  BY DEF LedgerAt
<1> QED BY <1>1 DEF LedgerFilled

\* The same of the workflow's.
LEMMA WorkflowStays ==
    ASSUME NEW n \in 1..47, n # 19, WorkflowAt(n), workflow' = workflow
    PROVE  WorkflowAt(n + 1)'
<1>1. n + 1 > 19 <=> n > 19
  OBVIOUS
<1> QED BY <1>1 DEF WorkflowAt, Ours

\* Once the documents are stored.
LEMMA EvidenceFull ==
    ASSUME NEW n \in Int, n >= 19
    PROVE  EvidenceAt(n) <=>
              /\ Ours(sources) = {source_payload(i) : i \in 1..6}
              /\ Ours(spans) = {span_payload(i) : i \in 1..6}
              /\ Ours(embeddings) = {embedding_payload(i) : i \in 1..6}
<1>1. /\ {i \in 1..6 : 3 * i - 2 < n} = 1..6
      /\ {i \in 1..6 : 3 * i - 1 < n} = 1..6
      /\ {i \in 1..6 : 3 * i < n} = 1..6
  OBVIOUS
<1> QED BY <1>1 DEF EvidenceAt

\* And stay so.
LEMMA EvidenceStays ==
    ASSUME NEW n \in 19..47, EvidenceAt(n), UNCHANGED evidence
    PROVE  EvidenceAt(n + 1)'
<1>1. n >= 19 /\ n + 1 \in Int /\ n + 1 >= 19
  OBVIOUS
<1>2. sources' = sources /\ spans' = spans /\ embeddings' = embeddings
  BY DEF evidence
<1>3. EvidenceAt(n + 1)
  BY <1>1, EvidenceFull
<1> QED BY <1>2, <1>3 DEF EvidenceAt, Ours

\* The checkpoint is stored.
LEMMA CheckpointStored ==
    ASSUME WorkflowAt(19), workflow' = workflow \cup {workflow_payload}
    PROVE  WorkflowAt(20)'
<1>1. workflow_payload.tenant_id \in Mine
  BY DEF workflow_payload, Mine
<1>2. Ours(workflow') = Ours(workflow) \cup {workflow_payload}
  BY <1>1, OursOnly
<1>3. Ours(workflow) = {}
  BY DEF WorkflowAt
<1> QED BY <1>2, <1>3 DEF WorkflowAt, Ours

\* The script asks for it and gets it back.
LEMMA CheckpointFound ==
    ASSUME WorkflowAt(20)
    PROVE  {w \in workflow : w.tenant_id = tenant_id} = {workflow_payload}
<1>1. Ours(workflow) = {workflow_payload}
  BY DEF WorkflowAt
<1>2. workflow_payload.tenant_id = tenant_id
  BY DEF workflow_payload
<1> QED BY <1>1, <1>2 DEF Ours, Mine

\* The second span a second time is not stored again.
LEMMA SpanRepeated ==
    ASSUME NEW n \in 19..47, EvidenceAt(n)
    PROVE  SpanOutcome(span_payload(2)) = "duplicate"
<1>1. span_payload(2) \in Ours(spans)
  BY EvidenceFull
<1> QED BY <1>1 DEF Ours, SpanOutcome, SpanStored

-----------------------------------------------------------------------------
\* What a compile answers to the script.

\* The contract once the amendment is stored.
superseded_contract == Supersede(contract_assertion, amendment_assertion)

\* What the rows of the scenario say.
LEMMA ScenarioRows ==
    /\ contract_assertion.tenant_id = tenant_id
    /\ amendment_assertion.tenant_id = tenant_id
    /\ amendment_assertion.content =
          [entity_id |-> "vendor-acme", topic |-> "funding_rate", value |-> 12,
           source_id |-> 2, evidence_span_id |-> 2, recorded_at |-> 415]
    /\ amendment_assertion.valid_from = 401 /\ amendment_assertion.valid_to = None
    /\ draft_assertion.tenant_id = tenant_id
    /\ draft_assertion.content =
          [entity_id |-> "vendor-acme", topic |-> "funding_rate", value |-> 11,
           source_id |-> 4, evidence_span_id |-> 4, recorded_at |-> 405]
    /\ draft_assertion.valid_from = 401 /\ draft_assertion.valid_to = None
    /\ superseded_contract.tenant_id = tenant_id
    /\ superseded_contract.content =
          [entity_id |-> "vendor-acme", topic |-> "funding_rate", value |-> 10,
           source_id |-> 1, evidence_span_id |-> 1, recorded_at |-> 101]
    /\ superseded_contract.valid_from = 101 /\ superseded_contract.valid_to = 401
<1>1. documents[1].says = 10 /\ documents[2].says = 12 /\ documents[4].says = 11
  BY DEF documents, Document
<1>2. None \notin Int
  BY NoneAssumption
<1>3. /\ contract_assertion.tenant_id = tenant_id
      /\ contract_assertion.content =
            [entity_id |-> "vendor-acme", topic |-> "funding_rate", value |-> 10,
             source_id |-> 1, evidence_span_id |-> 1, recorded_at |-> 101]
      /\ contract_assertion.valid_from = 101 /\ contract_assertion.valid_to = None
  BY <1>1 DEF contract_assertion, assertion_payload
<1>4. /\ amendment_assertion.tenant_id = tenant_id
      /\ amendment_assertion.content =
            [entity_id |-> "vendor-acme", topic |-> "funding_rate", value |-> 12,
             source_id |-> 2, evidence_span_id |-> 2, recorded_at |-> 415]
      /\ amendment_assertion.valid_from = 401 /\ amendment_assertion.valid_to = None
  BY <1>1 DEF amendment_assertion, assertion_payload
<1>5. /\ draft_assertion.tenant_id = tenant_id
      /\ draft_assertion.content =
            [entity_id |-> "vendor-acme", topic |-> "funding_rate", value |-> 11,
             source_id |-> 4, evidence_span_id |-> 4, recorded_at |-> 405]
      /\ draft_assertion.valid_from = 401 /\ draft_assertion.valid_to = None
  BY <1>1 DEF draft_assertion, assertion_payload
<1>6. /\ superseded_contract.tenant_id = contract_assertion.tenant_id
      /\ superseded_contract.content = contract_assertion.content
      /\ superseded_contract.valid_from = contract_assertion.valid_from
  BY DEF superseded_contract, Supersede, contract_assertion, assertion_payload
<1>7. superseded_contract.valid_to = ClosedAt(None, 401)
  <2>1. /\ amendment_assertion.valid_from # None
        /\ "valid_to" \in DOMAIN contract_assertion
    BY <1>2, <1>4 DEF contract_assertion, assertion_payload
  <2> HIDE DEF contract_assertion, amendment_assertion
  <2> QED BY <1>3, <1>4, <2>1 DEF superseded_contract, Supersede
<1>8. ClosedAt(None, 401) = 401
  BY DEF ClosedAt
<1> HIDE DEF contract_assertion, amendment_assertion, draft_assertion, superseded_contract
<1> QED BY <1>3, <1>4, <1>5, <1>6, <1>7, <1>8

\* What the repository holds of the tenant when the contexts are compiled.
LEMMA OwnAssertions ==
    ASSUME LedgerInv, NEW n \in 25..48, LedgerFilled(n)
    PROVE  Own(Rows, tenant_id) = {superseded_contract, amendment_assertion, draft_assertion}
<1>1. /\ LedgerAt(n, <<tenant_id, 1>>) = superseded_contract
      /\ LedgerAt(n, <<tenant_id, 2>>) = amendment_assertion
      /\ LedgerAt(n, <<tenant_id, 4>>) = draft_assertion
      /\ \A k : k \notin {<<tenant_id, 1>>, <<tenant_id, 2>>, <<tenant_id, 4>>} =>
            LedgerAt(n, k) = None
  BY ScriptAssertions DEF LedgerAt, superseded_contract
<1>2. /\ superseded_contract.tenant_id = tenant_id
      /\ amendment_assertion.tenant_id = tenant_id /\ draft_assertion.tenant_id = tenant_id
  BY ScenarioRows
<1>3. superseded_contract # None
  BY ScriptAssertions, SupersedeKeeps, NoneAssumption DEF superseded_contract
<1> HIDE DEF superseded_contract
<1>4. /\ ledger[<<tenant_id, 1>>] = superseded_contract
      /\ ledger[<<tenant_id, 2>>] = amendment_assertion
      /\ ledger[<<tenant_id, 4>>] = draft_assertion
  <2>1. <<tenant_id, 1>>[1] = tenant_id /\ <<tenant_id, 2>>[1] = tenant_id
        /\ <<tenant_id, 4>>[1] = tenant_id
    OBVIOUS
  <2> QED BY <1>1, <2>1, ScriptAssertions DEF LedgerFilled
<1>5. {superseded_contract, amendment_assertion, draft_assertion} \subseteq Own(Rows, tenant_id)
  BY <1>2, <1>3, <1>4, ScriptAssertions DEF Own, Rows
<1>6. ASSUME NEW r \in Own(Rows, tenant_id)
      PROVE  r \in {superseded_contract, amendment_assertion, draft_assertion}
  <2>1. PICK k \in AssertionKey : r = ledger[k] /\ r # None
    BY DEF Own, Rows
  <2>2. r.tenant_id = tenant_id /\ KeyOf(r) = k
    BY <2>1 DEF Own, LedgerInv
  <2>3. k[1] = tenant_id
    BY <2>2 DEF KeyOf
  <2>4. r = LedgerAt(n, k)
    BY <2>1, <2>3, ScriptAssertions DEF LedgerFilled
  <2> QED BY <1>1, <2>1, <2>4
<1> QED BY <1>5, <1>6

\* The two settings that bound a bundle leave room for what the script looks for.
SettingsLeaveRoom ==
    settings.max_context_assertions >= 2 /\ settings.max_context_evidence >= 1

\* The three requests of the script.
LEMMA Requests ==
    ASSUME SettingsLeaveRoom,
           NEW q \in {current_context, historical_context, retrieval_context}
    PROVE  /\ q.tenant_id = tenant_id /\ q.embedding.model = "validation-embedding"
           /\ q.embedding.dimensions = 2
           /\ AssertionLimit(q) \in Nat /\ AssertionLimit(q) >= 2
           /\ EvidenceLimit(q) \in 1..3
           /\ current_context.entity_id = "vendor-acme" /\ current_context.at_time = 501
           /\ historical_context.entity_id = "vendor-acme" /\ historical_context.at_time = 201
           /\ retrieval_context.entity_id = None
           /\ 501 # None /\ 201 # None /\ "vendor-acme" # None
<1>1. /\ q.tenant_id = tenant_id /\ q.embedding.model = "validation-embedding"
      /\ q.embedding.dimensions = 2 /\ q.settings = settings
      /\ q.max_assertions \in {5, 10} /\ q.max_evidence_items = 3
  BY DEF current_context, historical_context, retrieval_context, Ask
<1>0. settings.max_context_assertions \in Int /\ settings.max_context_evidence \in Int
  BY SettingsAssumption DEF Settings
<1>2. AssertionLimit(q) \in Nat /\ AssertionLimit(q) >= 2
  <2>1. q.max_assertions \in Int /\ q.max_assertions >= 2
    BY <1>1
  <2> QED BY <1>0, <1>1, <2>1, MinMax DEF AssertionLimit, SettingsLeaveRoom
<1>3. EvidenceLimit(q) \in 1..3
  <2>1. q.max_evidence_items \in Int /\ q.max_evidence_items = 3
    BY <1>1
  <2> QED BY <1>0, <1>1, <2>1, MinMax DEF EvidenceLimit, SettingsLeaveRoom
<1>4. /\ current_context.entity_id = "vendor-acme" /\ current_context.at_time = 501
      /\ historical_context.entity_id = "vendor-acme" /\ historical_context.at_time = 201
      /\ retrieval_context.entity_id = None
  BY DEF current_context, historical_context, retrieval_context, Ask
<1> QED BY <1>1, <1>2, <1>3, <1>4, NoneAssumption, NamesAssumption

\* What find() returns when all that is selected of the tenant's rows fits.
LEMMA FindsAll ==
    ASSUME NEW q, NEW S, Selected(Own(Rows, q.tenant_id), q) = S, IsFiniteSet(S),
           AssertionLimit(q) \in Nat, Cardinality(S) <= AssertionLimit(q),
           NEW found \in FindResults(Rows, q)
    PROVE  found \in Seq(S) /\ ToSet(found) = S /\ Len(found) <= AssertionLimit(q)
<1>1. Selected(Rows, q) = S
  BY DEF Selected, Own
<1>2. PICK s \in SetToSeqs(S) : found = Take(s, AssertionLimit(q))
  BY <1>1 DEF FindResults, Orderings
<1> QED BY <1>2, WholeSlice

\* At each of the two times: what holds then, whatever others have stored.
LEMMA CurrentAndHistorical ==
    ASSUME SettingsLeaveRoom, LedgerInv, NEW n \in 25..48, LedgerFilled(n)
    PROVE  /\ \A found \in FindResults(Rows, current_context) :
                 /\ found \in Seq({amendment_assertion, draft_assertion})
                 /\ ToSet(found) = {amendment_assertion, draft_assertion}
                 /\ Len(found) <= AssertionLimit(current_context)
           /\ \A found \in FindResults(Rows, historical_context) :
                 /\ found \in Seq({superseded_contract})
                 /\ ToSet(found) = {superseded_contract}
<1> DEFINE own == {superseded_contract, amendment_assertion, draft_assertion}
           two == {amendment_assertion, draft_assertion}
           one == {superseded_contract}
<1>1. Own(Rows, tenant_id) = own
  BY OwnAssertions
<1>2. Selected(own, current_context) = two
  <2>1. ~ValidAt(superseded_contract, 501) /\ ValidAt(amendment_assertion, 501)
        /\ ValidAt(draft_assertion, 501)
    BY ScenarioRows, NoneAssumption DEF ValidAt
  <2>2. \A r \in own : r.tenant_id = current_context.tenant_id
                       /\ r.content.entity_id = current_context.entity_id
    BY ScenarioRows, Requests
  <2>3. current_context.at_time = 501 /\ 501 # None
    BY Requests
  <2> HIDE DEF current_context
  <2> QED BY <2>1, <2>2, <2>3 DEF Selected
<1>3. Selected(own, historical_context) = one
  <2>1. ValidAt(superseded_contract, 201) /\ ~ValidAt(amendment_assertion, 201)
        /\ ~ValidAt(draft_assertion, 201)
    BY ScenarioRows, NoneAssumption DEF ValidAt
  <2>2. \A r \in own : r.tenant_id = historical_context.tenant_id
                       /\ r.content.entity_id = historical_context.entity_id
    BY ScenarioRows, Requests
  <2>3. historical_context.at_time = 201 /\ 201 # None
    BY Requests
  <2> QED BY <2>1, <2>2, <2>3 DEF Selected
<1>4. IsFiniteSet(two) /\ Cardinality(two) <= 2
  <2> DEFINE first == {amendment_assertion}
  <2>1. IsFiniteSet(first) /\ Cardinality(first) = 1
    BY FS_Singleton
  <2>2. two = first \cup {draft_assertion}
    OBVIOUS
  <2> HIDE DEF first
  <2> QED BY <2>1, <2>2, FS_AddElement
<1>5. IsFiniteSet(one) /\ Cardinality(one) <= 2
  <2>1. IsFiniteSet(one) /\ Cardinality(one) = 1
    BY FS_Singleton
  <2> QED BY <2>1
<1> HIDE DEF own, two, one
<1>6. /\ current_context.tenant_id = tenant_id /\ historical_context.tenant_id = tenant_id
      /\ AssertionLimit(current_context) \in Nat /\ AssertionLimit(current_context) >= 2
      /\ AssertionLimit(historical_context) \in Nat /\ AssertionLimit(historical_context) >= 2
  BY Requests
<1>7. Cardinality(two) <= AssertionLimit(current_context)
      /\ Cardinality(one) <= AssertionLimit(historical_context)
  BY <1>4, <1>5, <1>6, FS_CardinalityType
<1>8. \A found \in FindResults(Rows, current_context) :
         /\ found \in Seq(two) /\ ToSet(found) = two
         /\ Len(found) <= AssertionLimit(current_context)
  BY <1>1, <1>2, <1>4, <1>6, <1>7, FindsAll
<1>9. \A found \in FindResults(Rows, historical_context) :
         found \in Seq(one) /\ ToSet(found) = one
  BY <1>1, <1>3, <1>5, <1>6, <1>7, FindsAll
<1> QED BY <1>8, <1>9 DEF two, one

\* The draft and the amendment are the one conflict of the current context.
LEMMA OneConflict ==
    ASSUME NEW found \in Seq({amendment_assertion, draft_assertion}),
           ToSet(found) = {amendment_assertion, draft_assertion}
    PROVE  Cardinality(Conflicts(found, 501)) = 1
<1> DEFINE clashing == {i \in DOMAIN found : \E j \in DOMAIN found :
                          i # j /\ Clash(found[i], found[j], 501)}
           g == <<"vendor-acme", "funding_rate">>
           named(t) == {found[i].assertion_id :
                           i \in {j \in clashing : TopicOf(found[j]) = t}}
           topics == {TopicOf(found[i]) : i \in clashing}
<1>1. Clash(amendment_assertion, draft_assertion, 501)
  <2>1. ValidAt(amendment_assertion, 501) /\ ValidAt(draft_assertion, 501)
    BY ScenarioRows, NoneAssumption DEF ValidAt
  <2>2. 501 # None
    BY NoneAssumption
  <2>3. IntervalsOverlap(amendment_assertion, draft_assertion)
    BY ScenarioRows DEF IntervalsOverlap
  <2>4. /\ TopicOf(amendment_assertion) = TopicOf(draft_assertion)
        /\ amendment_assertion.content.value # draft_assertion.content.value
    BY ScenarioRows DEF TopicOf
  <2> QED BY <2>1, <2>2, <2>3, <2>4 DEF Clash, Contestable, RelevantToContext
<1>2. amendment_assertion # draft_assertion
  <2>1. 12 # 11
    OBVIOUS
  <2> QED BY <2>1, ScenarioRows
<1>3. TopicOf(amendment_assertion) = g /\ TopicOf(draft_assertion) = g
  BY ScenarioRows DEF TopicOf
<1>4. /\ DOMAIN found = 1..Len(found)
      /\ {found[i] : i \in DOMAIN found} = {amendment_assertion, draft_assertion}
  BY SequenceFacts DEF ToSet
<1>5. PICK i \in DOMAIN found, j \in DOMAIN found :
         found[i] = amendment_assertion /\ found[j] = draft_assertion
  BY <1>4
<1>6. i \in clashing
  BY <1>1, <1>2, <1>5
<1>7. topics = {g}
  <2>1. \A x \in clashing : TopicOf(found[x]) = g
    BY <1>3, <1>4
  <2> QED BY <1>6, <2>1
<1>8. Conflicts(found, 501) = {[topic |-> t, assertion_ids |-> named(t)] : t \in topics}
  BY DEF Conflicts
<1> HIDE DEF topics, named
<1>9. Conflicts(found, 501) = {[topic |-> g, assertion_ids |-> named(g)]}
  BY <1>7, <1>8
<1> QED BY <1>9, FS_Singleton

\* The documents of the tenant that asks: each is found by its own vector, the
\* amendment's before all others.
LEMMA Documents ==
    /\ \A i \in 1..5 : current_tenant(i) = tenant_id
    /\ current_tenant(6) # tenant_id
    /\ \A i \in 1..5 : documents[i].says \in {10, 11, 12, None}
    /\ documents[2].says = 12
    /\ \A i \in 1..5 : i # 2 => Closer(embedding_payload(2), embedding_payload(i))
<1>1. /\ documents[1] = Document(10, 80, 20) /\ documents[2] = Document(12, 100, 0)
      /\ documents[3] = Document(12, 95, 5) /\ documents[4] = Document(11, 85, 15)
      /\ documents[5] = Document(None, 0, 100)
  BY DEF documents
<1>2. \A i \in 1..5 : current_tenant(i) = tenant_id
  BY DEF current_tenant
<1>3. current_tenant(6) # tenant_id
  BY TenantsAssumption DEF current_tenant
<1>4. \A says, x, y : /\ Document(says, x, y).says = says
                      /\ Document(says, x, y).vector[1] = x
                      /\ Document(says, x, y).vector[2] = y
  BY DEF Document
<1>5. \A i : i \in 1..5 <=> i \in {1, 2, 3, 4, 5}
  OBVIOUS
<1> HIDE DEF documents
<1>6. \A i \in 1..5 : documents[i].says \in {10, 11, 12, None}
  BY <1>1, <1>4, <1>5
<1>7. documents[2].says = 12 /\ documents[2].vector[1] = 100 /\ documents[2].vector[2] = 0
  BY <1>1, <1>4
<1>8. ASSUME NEW i \in 1..5, i # 2
      PROVE  Closer(embedding_payload(2), embedding_payload(i))
  <2>1. documents[i].vector[1] \in 0..100 /\ documents[i].vector[2] \in 1..100
    BY <1>1, <1>4, <1>5, <1>8
  <2>2. /\ embedding_payload(2).vector = documents[2].vector
        /\ embedding_payload(i).vector = documents[i].vector
    BY DEF embedding_payload
  <2>3. \A x \in 0..100, y \in 1..100 : 0 * x < y * 100
    OBVIOUS
  <2> HIDE DEF embedding_payload
  <2> QED BY <1>7, <2>1, <2>2, <2>3 DEF Closer
<1> QED BY <1>2, <1>3, <1>6, <1>7, <1>8

\* The tenant's own part of the evidence.
LEMMA OwnEvidence ==
    ASSUME SettingsLeaveRoom, NEW n \in 25..48, EvidenceAt(n),
           NEW q \in {current_context, historical_context, retrieval_context}
    PROVE  /\ Own(spans, tenant_id) = {span_payload(i) : i \in 1..5}
           /\ Embedded(embeddings, q) = {embedding_payload(i) : i \in 1..5}
           /\ \A i \in 1..5 : StoredSpan(i) = span_payload(i)
<1>1. /\ Ours(spans) = {span_payload(i) : i \in 1..6}
      /\ Ours(embeddings) = {embedding_payload(i) : i \in 1..6}
  BY EvidenceFull
<1>2. tenant_id \in Mine /\ \A i \in 1..5 : i \in 1..6
  BY DEF Mine
<1>3. \A i \in 1..6 : i \notin 1..5 => i = 6
  OBVIOUS
<1>4. /\ \A i \in 1..5 : current_tenant(i) = tenant_id
      /\ current_tenant(6) # tenant_id
  BY Documents
<1>5. \A i \in 1..6 : /\ span_payload(i).tenant_id = current_tenant(i)
                      /\ span_payload(i).span_id = i
                      /\ embedding_payload(i).tenant_id = current_tenant(i)
                      /\ embedding_payload(i).model = "validation-embedding"
  BY Payloads
<1>6. q.tenant_id = tenant_id /\ q.embedding.model = "validation-embedding"
  BY Requests
<1> HIDE DEF span_payload, embedding_payload, current_tenant
<1>7. \A i \in 1..6 : span_payload(i).tenant_id = tenant_id <=> i \in 1..5
  BY <1>3, <1>4, <1>5
<1>8. \A i \in 1..6 : embedding_payload(i).tenant_id = tenant_id <=> i \in 1..5
  BY <1>3, <1>4, <1>5
<1>9. Own(spans, tenant_id) = {span_payload(i) : i \in 1..5}
  <2>1. Own(spans, tenant_id) = {r \in Ours(spans) : r.tenant_id = tenant_id}
    BY <1>2 DEF Own, Ours
  <2> QED BY <1>1, <1>2, <1>7, <2>1
<1>10. Embedded(embeddings, q) = {embedding_payload(i) : i \in 1..5}
  <2>1. Embedded(embeddings, q)
           = {e \in Ours(embeddings) : e.tenant_id = tenant_id /\ e.model = "validation-embedding"}
    BY <1>2, <1>6 DEF Embedded, Ours
  <2> QED BY <1>1, <1>2, <1>5, <1>8, <2>1
<1>11. ASSUME NEW i \in 1..5
       PROVE  StoredSpan(i) = span_payload(i)
  <2>1. span_payload(i) \in spans /\ SpanKey(span_payload(i)) = <<tenant_id, i>>
    BY <1>2, <1>4, <1>5, <1>9 DEF Own, SpanKey
  <2>2. ASSUME NEW s \in spans, SpanKey(s) = <<tenant_id, i>>
        PROVE  s = span_payload(i)
    <3>1. s.tenant_id = tenant_id /\ s.span_id = i
      BY <2>2 DEF SpanKey
    <3>2. PICK j \in 1..5 : s = span_payload(j)
      BY <1>9, <3>1 DEF Own
    <3> QED BY <1>2, <1>5, <3>1, <3>2
  <2> QED BY <2>1, <2>2 DEF StoredSpan
<1> QED BY <1>9, <1>10, <1>11

\* Whatever limit a search has, it has room for the tenant's five embeddings.
LEMMA RoomForCandidates ==
    ASSUME NEW n \in 1..3
    PROVE  CandidateLimit(n) \in Nat /\ CandidateLimit(n) >= 5
<1> DEFINE m == n * 3
           l == Max({m, 10})
<1>1. m \in Nat /\ 10 \in Nat
  OBVIOUS
<1> HIDE DEF m
<1>2. l = IF m <= 10 THEN 10 ELSE m
  BY <1>1, MinMax
<1> HIDE DEF l
<1>3. l \in Nat /\ l >= 5
  BY <1>1, <1>2
<1> QED BY <1>3 DEF CandidateLimit, l, m

\* The hits of the script's search: its documents, the amendment first.
LEMMA AmendmentFirst ==
    ASSUME SettingsLeaveRoom, NEW n \in 25..48, EvidenceAt(n),
           NEW q \in {current_context, historical_context, retrieval_context},
           NEW hits \in Hits(q)
    PROVE  hits \in Seq(1..5) /\ Distinct(hits) /\ Len(hits) >= 1 /\ hits[1] = 2
<1> DEFINE E == {embedding_payload(i) : i \in 1..5}
           L == CandidateLimit(EvidenceLimit(q))
<1>1. Embedded(embeddings, q) = E
  BY OwnEvidence
<1>2. L \in Nat /\ L >= 5
  BY Requests, RoomForCandidates
<1>3. PICK s \in Orderings(E, Closer) :
         hits = Fuse(<<>>, Take([i \in DOMAIN s |-> s[i].span_id], L))
  BY <1>1 DEF Hits
<1>4. /\ s \in SetToSeqs(E)
      /\ \A i, j \in DOMAIN s : i < j => ~Closer(s[j], s[i])
  BY <1>3 DEF Orderings
<1>5. /\ \A i \in 1..5 : embedding_payload(i).span_id = i
      /\ \A i \in 1..5 : i # 2 => Closer(embedding_payload(2), embedding_payload(i))
  <2>1. \A i \in 1..5 : i \in 1..6
    OBVIOUS
  <2> QED BY <2>1, Payloads, Documents
<1>6. IsFiniteSet(E) /\ Cardinality(E) <= 5
  <2> DEFINE f == [i \in 1..5 |-> embedding_payload(i)]
  <2>1. IsFiniteSet(1..5) /\ Cardinality(1..5) = 5
    <3> DEFINE m == 5
    <3>1. 1 \in Int /\ m \in Int /\ 1 <= m
      OBVIOUS
    <3> HIDE DEF m
    <3>2. IsFiniteSet(1..m)
      BY <3>1, FS_Interval
    <3>3. Cardinality(1..m) = IF 1 > m THEN 0 ELSE m - 1 + 1
      BY <3>1, FS_Interval
    <3>4. Cardinality(1..m) = m
      BY <3>1, <3>3
    <3> QED BY <3>2, <3>4 DEF m
  <2>2. f \in Surjection(1..5, E)
    BY DEF Surjection
  <2> HIDE DEF f
  <2>3. IsFiniteSet(E) /\ Cardinality(E) <= Cardinality(1..5)
    BY <2>1, <2>2, FS_Surjection
  <2> QED BY <2>1, <2>3
<1> HIDE DEF L, E
<1>7. s \in Seq(E) /\ Len(s) = Cardinality(E) /\ Distinct(s) /\ ToSet(s) = E
  BY <1>4, <1>6, SeqsOfSet
<1> DEFINE ids == Ids(s)
<1>8. /\ Len(s) \in Nat /\ DOMAIN s = 1..Len(s) /\ E = {s[i] : i \in 1..Len(s)}
      /\ \A i \in 1..Len(s) : s[i] \in E
  BY <1>7, SequenceFacts
<1>9. {x.span_id : x \in E} = 1..5
  BY <1>5 DEF E
<1>10. ids \in Seq(1..5) /\ Len(ids) = Len(s) /\ ToSet(ids) = 1..5
  BY <1>7, <1>9, IdsFacts
<1>11. \A i \in 1..Len(s) : ids[i] = s[i].span_id
  BY <1>8 DEF Ids
<1>12. hits = Fuse(<<>>, Take(ids, L))
  BY <1>3 DEF Ids
<1>13. Distinct(ids)
  <2>1. DOMAIN ids = 1..Len(s)
    BY <1>8 DEF Ids
  <2>2. ASSUME NEW i \in 1..Len(s), NEW j \in 1..Len(s), ids[i] = ids[j]
        PROVE  i = j
    <3>1. PICK k \in 1..5 : s[i] = embedding_payload(k)
      BY <1>8 DEF E
    <3>2. PICK m \in 1..5 : s[j] = embedding_payload(m)
      BY <1>8 DEF E
    <3>3. k = m
      BY <1>5, <1>11, <2>2, <3>1, <3>2
    <3> QED BY <1>7, <1>8, <3>1, <3>2, <3>3 DEF Distinct
  <2> QED BY <2>1, <2>2 DEF Distinct
<1>14. Len(s) >= 1 /\ s[1] = embedding_payload(2)
  <2>1. PICK p \in 1..Len(s) : s[p] = embedding_payload(2)
    BY <1>8 DEF E
  <2>2. PICK k \in 1..5 : s[1] = embedding_payload(k)
    BY <1>8, <2>1 DEF E
  <2>3. p = 1
    <3> SUFFICES ASSUME p # 1 PROVE FALSE
      OBVIOUS
    <3>1. 1 < p /\ 1 \in 1..Len(s)
      BY <1>8
    <3>2. ~Closer(embedding_payload(2), embedding_payload(k))
      BY <1>4, <1>8, <2>1, <2>2, <3>1
    <3>3. k = 2
      BY <1>5, <3>2
    <3>4. s[p] = s[1]
      BY <2>1, <2>2, <3>3
    <3> QED BY <1>7, <1>8, <3>1, <3>4 DEF Distinct
  <2> QED BY <2>1, <2>3
<1>15. ids[1] = 2
  BY <1>5, <1>8, <1>11, <1>14
<1> HIDE DEF ids
<1> DEFINE top == Take(ids, L)
<1>16. /\ top \in Seq(1..5) /\ Len(top) = Len(s)
       /\ \A i \in 1..Len(top) : top[i] = ids[i]
  <2>1. /\ top \in Seq(1..5) /\ Len(top) = IF L <= Len(ids) THEN L ELSE Len(ids)
        /\ \A i \in 1..Len(top) : top[i] = ids[i]
    BY <1>2, <1>10, TakeFacts
  <2> HIDE DEF top
  <2>2. Len(ids) <= 5 /\ Len(ids) \in Nat
    BY <1>6, <1>7, <1>8, <1>10
  <2>3. Len(top) = Len(ids)
    BY <1>2, <2>1, <2>2
  <2> QED BY <1>10, <2>1, <2>3
<1>17. Distinct(top)
  BY <1>2, <1>10, <1>13, TakeAll
<1>18. top[1] = 2 /\ Len(top) >= 1
  BY <1>14, <1>15, <1>16
<1>19. hits = Fuse(<<>>, top)
  BY <1>12
<1> HIDE DEF top
<1>20. top \in Seq(Nat)
  <2>1. 1..5 \subseteq Nat
    OBVIOUS
  <2> QED BY <1>16, <2>1, SeqMonotonic
<1>21. hits \in Seq(ToSet(top)) /\ Distinct(hits) /\ Len(hits) >= 1 /\ hits[1] = 2
  BY <1>17, <1>18, <1>19, <1>20, FirstStaysFirst
<1>22. ToSet(top) \subseteq 1..5
  BY <1>16, SequenceFacts
<1> QED BY <1>21, <1>22, SeqMonotonic

\* The spans of hits.
SpansOf(best) == [i \in DOMAIN best |-> RetrievedSpan(StoredSpan(best[i]))]

\* They are retrieved spans of the tenant's documents.
LEMMA SpansOfHits ==
    ASSUME SettingsLeaveRoom, NEW n \in 25..48, EvidenceAt(n), NEW best \in Seq(1..5)
    PROVE  LET R == {RetrievedSpan(span_payload(i)) : i \in 1..5}
               r == SpansOf(best)
           IN  /\ r \in Seq(R) /\ Len(r) = Len(best)
               /\ \A i \in 1..Len(best) : r[i] = RetrievedSpan(span_payload(best[i]))
               /\ \A i \in 1..5 : /\ RetrievedSpan(span_payload(i)).span_id = i
                                  /\ RetrievedSpan(span_payload(i)).says = documents[i].says
<1> DEFINE R == {RetrievedSpan(span_payload(i)) : i \in 1..5}
           r == SpansOf(best)
<1>1. Len(best) \in Nat /\ DOMAIN best = 1..Len(best) /\ best \in [1..Len(best) -> 1..5]
  BY SequenceFacts
<1>2. \A i \in 1..5 : StoredSpan(i) = span_payload(i)
  BY OwnEvidence
<1>3. \A i \in 1..5 : /\ RetrievedSpan(span_payload(i)).span_id = i
                      /\ RetrievedSpan(span_payload(i)).says = documents[i].says
  BY DEF RetrievedSpan, span_payload
<1>4. r = [i \in 1..Len(best) |-> RetrievedSpan(span_payload(best[i]))]
  BY <1>1, <1>2 DEF SpansOf
<1> HIDE DEF r
<1>5. r \in [1..Len(best) -> R]
  BY <1>1, <1>4
<1> HIDE DEF R
<1>6. r \in Seq(R) /\ DOMAIN r = 1..Len(best)
  BY <1>1, <1>5, SeqDef
<1>7. Len(r) = Len(best)
  BY <1>1, <1>6, LenProperties
<1> QED BY <1>3, <1>4, <1>6, <1>7 DEF R, r

\* The reads that a bundle is made of.
Assembled(q, bundle, found, cited, hits) ==
    /\ q.entity_id = None => found = <<>>
    /\ q.entity_id # None => found \in FindResults(Rows, q)
    /\ cited \in SourceEvidence(spans, q.tenant_id,
                                {a.content.source_id : a \in ToSet(found)},
                                EvidenceLimit(q))
    /\ hits \in Hits(q)
    /\ bundle.assertions = ToSet(found)
    /\ bundle.evidence = MergeEvidence(SpansOf(Take(hits, EvidenceLimit(q))),
                                       cited, EvidenceLimit(q))
    /\ bundle.conflicts = Conflicts(found, q.at_time)
    /\ bundle.bounded = Bounded(found, bundle.evidence, {}, q)

\* Each bundle is made of some.
LEMMA BundleParts ==
    ASSUME NEW q, NEW bundle \in Bundles(q)
    PROVE  \E found, cited, hits : Assembled(q, bundle, found, cited, hits)
<1> DEFINE F == IF q.entity_id = None THEN {<<>>} ELSE FindResults(Rows, q)
           C(found) == SourceEvidence(spans, q.tenant_id,
                                      {a.content.source_id : a \in ToSet(found)},
                                      EvidenceLimit(q))
           E(cited, hits) == MergeEvidence(SpansOf(Take(hits, EvidenceLimit(q))),
                                           cited, EvidenceLimit(q))
           B(found, cited, hits) == [assertions |-> ToSet(found), evidence |-> E(cited, hits),
                                     conflicts |-> Conflicts(found, q.at_time),
                                     bounded |-> Bounded(found, E(cited, hits), {}, q)]
           X(found) == {B(found, cited, hits) : cited \in C(found), hits \in Hits(q)}
<1>1. Bundles(q) = UNION {X(found) : found \in F}
  BY DEF Bundles, BundleFrom, SpansOf
<1> HIDE DEF X
<1>2. PICK found \in F : bundle \in X(found)
  BY <1>1
<1> USE DEF X
<1> HIDE DEF B, C, E
<1>3. PICK cited \in C(found), hits \in Hits(q) : bundle = B(found, cited, hits)
  BY <1>2
<1>4. /\ bundle.assertions = ToSet(found) /\ bundle.evidence = E(cited, hits)
      /\ bundle.conflicts = Conflicts(found, q.at_time)
      /\ bundle.bounded = Bounded(found, E(cited, hits), {}, q)
  BY <1>3 DEF B
<1>5. /\ q.entity_id = None => found = <<>>
      /\ q.entity_id # None => found \in FindResults(Rows, q)
  OBVIOUS
<1> QED BY <1>3, <1>4, <1>5 DEF Assembled, C, E

\* The spans found by their source are the tenant's.
LEMMA CitedSpans ==
    ASSUME SettingsLeaveRoom, NEW n \in 25..48, EvidenceAt(n), NEW ids, NEW limit \in Nat,
           NEW cited \in SourceEvidence(spans, tenant_id, ids, limit)
    PROVE  /\ cited \in Seq({span_payload(i) : i \in 1..5})
           /\ ids = {} => Len(cited) = 0
<1> DEFINE own == {span_payload(i) : i \in 1..5}
           found == OfSources(own, tenant_id, ids)
<1>1. Own(spans, tenant_id) = own
  BY OwnEvidence
<1>2. {s \in spans : s.tenant_id = tenant_id /\ s.source_id \in ids} = found
  BY <1>1 DEF Own, OfSources
<1>3. cited \in SourceEvidence(own, tenant_id, ids, limit)
  BY <1>2 DEF SourceEvidence, OfSources
<1>4. IsFiniteSet(own)
  <2> DEFINE f == [i \in 1..5 |-> span_payload(i)]
  <2>1. IsFiniteSet(1..5)
    <3>1. 1 \in Int /\ 5 \in Int
      OBVIOUS
    <3> QED BY <3>1, FS_Interval
  <2>2. f \in Surjection(1..5, own)
    BY DEF Surjection
  <2> HIDE DEF f, own
  <2> QED BY <2>1, <2>2, FS_Surjection
<1> HIDE DEF own
<1>5. cited \in Seq(found)
  BY <1>3, <1>4, SourceEvidenceFacts
<1>6. found \subseteq own
  BY DEF OfSources
<1>7. ASSUME ids = {}
      PROVE  Len(cited) = 0
  <2>1. found = {}
    BY <1>7 DEF OfSources
  <2> HIDE DEF found
  <2>2. cited \in [1..Len(cited) -> {}] /\ Len(cited) \in Nat
    BY <1>5, <2>1, SequenceFacts
  <2> QED BY <2>2
<1> HIDE DEF found
<1> QED BY <1>5, <1>6, <1>7, SeqMonotonic DEF own

\* The evidence of a bundle of the script.
LEMMA EvidenceOfBundle ==
    ASSUME SettingsLeaveRoom, NEW n \in 25..48, EvidenceAt(n),
           NEW q \in {current_context, historical_context, retrieval_context},
           NEW bundle \in Bundles(q)
    PROVE  /\ Len(bundle.evidence) <= 3
           /\ Len(bundle.evidence) <= EvidenceLimit(q)
<1>1. PICK found, cited, hits : Assembled(q, bundle, found, cited, hits)
  BY BundleParts
<1> DEFINE ids == {a.content.source_id : a \in ToSet(found)}
<1>0. /\ hits \in Hits(q)
      /\ cited \in SourceEvidence(spans, tenant_id, ids, EvidenceLimit(q))
      /\ bundle.evidence = MergeEvidence(SpansOf(Take(hits, EvidenceLimit(q))),
                                         cited, EvidenceLimit(q))
  <2>1. q.tenant_id = tenant_id
    BY Requests
  <2> QED BY <1>1, <2>1 DEF Assembled
<1> HIDE DEF ids
<1> DEFINE limit == EvidenceLimit(q)
           best == Take(hits, limit)
           R == {RetrievedSpan(span_payload(i)) : i \in 1..5}
           C == {span_payload(i) : i \in 1..5}
           S == R \cup C
<1>2. limit \in 1..3 /\ limit \in Nat
  BY Requests
<1>3. hits \in Seq(1..5)
  BY <1>0, AmendmentFirst
<1> HIDE DEF limit
<1>4. best \in Seq(1..5)
  BY <1>2, <1>3, TakeFacts
<1> HIDE DEF best
<1>5. SpansOf(best) \in Seq(R)
  BY <1>4, SpansOfHits
<1>6. cited \in Seq(C)
  BY <1>0, <1>2, CitedSpans DEF limit
<1> HIDE DEF R, C
<1>7. SpansOf(best) \in Seq(S) /\ cited \in Seq(S)
  <2>1. R \subseteq S /\ C \subseteq S
    OBVIOUS
  <2> HIDE DEF S
  <2> QED BY <1>5, <1>6, <2>1, SeqMonotonic
<1> DEFINE e == MergeEvidence(SpansOf(best), cited, limit)
<1> HIDE DEF S
<1>8. Len(e) <= limit /\ e \in Seq(S)
  BY <1>2, <1>7, MergeEvidenceFacts
<1>9. bundle.evidence = e
  BY <1>0 DEF limit, best
<1> HIDE DEF e
<1>10. Len(e) \in Nat
  BY <1>8, LenProperties
<1> QED BY <1>2, <1>8, <1>9, <1>10 DEF limit

\* The current context: the amendment and the draft, and their conflict.
LEMMA CurrentPasses ==
    ASSUME SettingsLeaveRoom, LedgerInv, NEW n \in 25..48, LedgerFilled(n), EvidenceAt(n),
           NEW bundle \in Bundles(current_context)
    PROVE  /\ 12 \in Values(bundle) /\ 10 \notin Values(bundle)
           /\ \E a \in bundle.assertions : a.content.evidence_span_id = 2
           /\ Cardinality(bundle.conflicts) = 1
           /\ bundle.bounded /\ Len(bundle.evidence) <= 3
<1>1. current_context.entity_id # None /\ current_context.at_time = 501
  BY Requests
<1>0. PICK found, cited, hits : Assembled(current_context, bundle, found, cited, hits)
  BY BundleParts
<1>2. /\ found \in FindResults(Rows, current_context)
      /\ bundle.assertions = ToSet(found)
      /\ bundle.conflicts = Conflicts(found, 501)
      /\ bundle.bounded = Bounded(found, bundle.evidence, {}, current_context)
  BY <1>0, <1>1 DEF Assembled
<1>3. /\ found \in Seq({amendment_assertion, draft_assertion})
      /\ ToSet(found) = {amendment_assertion, draft_assertion}
      /\ Len(found) <= AssertionLimit(current_context)
  BY <1>2, CurrentAndHistorical
<1>4. Values(bundle) = {12, 11}
  BY <1>2, <1>3, ScenarioRows DEF Values
<1>5. amendment_assertion.content.evidence_span_id = 2
  BY ScenarioRows
<1>6. Cardinality(bundle.conflicts) = 1
  BY <1>2, <1>3, OneConflict
<1>7. /\ Len(bundle.evidence) <= 3
      /\ Len(bundle.evidence) <= EvidenceLimit(current_context)
  BY EvidenceOfBundle
<1>8. bundle.bounded
  <2>1. Cardinality({}) <= EvidenceLimit(current_context) * 4
    BY Requests, FS_EmptySet
  <2> QED BY <1>2, <1>3, <1>7, <2>1 DEF Bounded
<1> QED BY <1>2, <1>3, <1>4, <1>5, <1>6, <1>7, <1>8

\* The historical context: the contract alone.
LEMMA HistoricalPasses ==
    ASSUME SettingsLeaveRoom, LedgerInv, NEW n \in 25..48, LedgerFilled(n),
           NEW bundle \in Bundles(historical_context)
    PROVE  Values(bundle) = {10}
<1>1. historical_context.entity_id # None
  BY Requests
<1>0. PICK found, cited, hits : Assembled(historical_context, bundle, found, cited, hits)
  BY BundleParts
<1>2. found \in FindResults(Rows, historical_context) /\ bundle.assertions = ToSet(found)
  BY <1>0, <1>1 DEF Assembled
<1>3. ToSet(found) = {superseded_contract}
  BY <1>2, CurrentAndHistorical
<1> QED BY <1>2, <1>3, ScenarioRows DEF Values

\* The retrieval: the amendment's text is among the best, the isolated tenant's is not.
LEMMA RetrievalPasses ==
    ASSUME SettingsLeaveRoom, NEW n \in 25..48, EvidenceAt(n),
           NEW bundle \in Bundles(retrieval_context)
    PROVE  12 \in Rates(bundle) /\ 99 \notin Rates(bundle)
<1> DEFINE limit == EvidenceLimit(retrieval_context)
           R == {RetrievedSpan(span_payload(i)) : i \in 1..5}
<1>0. PICK found, cited, hits : Assembled(retrieval_context, bundle, found, cited, hits)
  BY BundleParts
<1>1. /\ hits \in Hits(retrieval_context)
      /\ cited \in SourceEvidence(spans, tenant_id, {}, limit)
      /\ bundle.evidence = MergeEvidence(SpansOf(Take(hits, limit)), cited, limit)
  <2>1. retrieval_context.entity_id = None /\ retrieval_context.tenant_id = tenant_id
    BY Requests
  <2>2. {a.content.source_id : a \in ToSet(<<>>)} = {}
    BY DEF ToSet
  <2> QED BY <1>0, <2>1, <2>2 DEF Assembled
<1>2. limit \in 1..3 /\ limit \in Nat
  BY Requests
<1>3. hits \in Seq(1..5) /\ Distinct(hits) /\ Len(hits) >= 1 /\ hits[1] = 2
  BY <1>1, AmendmentFirst
<1>4. Len(cited) = 0 /\ cited \in Seq({span_payload(i) : i \in 1..5})
  BY <1>1, <1>2, CitedSpans
<1> HIDE DEF limit
<1> DEFINE best == Take(hits, limit)
<1>5. /\ best \in Seq(1..5) /\ Distinct(best) /\ Len(best) \in Nat
      /\ Len(best) <= limit /\ Len(best) >= 1 /\ best[1] = 2
  <2>1. /\ best \in Seq(1..5) /\ Len(best) <= limit
        /\ Len(best) = IF limit <= Len(hits) THEN limit ELSE Len(hits)
        /\ \A i \in 1..Len(best) : best[i] = hits[i]
    BY <1>2, <1>3, TakeFacts
  <2>2. Distinct(best)
    BY <1>2, <1>3, TakeAll
  <2> HIDE DEF best
  <2>3. Len(hits) \in Nat /\ Len(best) \in Nat
    BY <1>3, <2>1, LenProperties
  <2>4. Len(best) >= 1
    BY <1>2, <1>3, <2>1, <2>3
  <2> QED BY <1>3, <2>1, <2>2, <2>3, <2>4
<1> DEFINE r == SpansOf(best)
           m == Merge(r, cited)
           e == Take(m, limit)
<1>6. bundle.evidence = e
  BY <1>1 DEF MergeEvidence
<1> HIDE DEF best
<1>7. /\ r \in Seq(R) /\ Len(r) = Len(best)
      /\ \A i \in 1..Len(best) : r[i] = RetrievedSpan(span_payload(best[i]))
  BY <1>5, SpansOfHits
<1>8. \A i \in 1..5 : /\ RetrievedSpan(span_payload(i)).span_id = i
                      /\ RetrievedSpan(span_payload(i)).says = documents[i].says
  BY <1>5, SpansOfHits
<1> HIDE DEF r
<1>9. cited \in Seq(R) /\ ToSet(cited) = {}
  <2> DEFINE C == {span_payload(i) : i \in 1..5}
  <2> HIDE DEF C
  <2>1. ToSet(cited) = {cited[i] : i \in 1..Len(cited)}
    <3>1. cited \in Seq(C)
      BY <1>4 DEF C
    <3> QED BY <3>1, SequenceFacts
  <2>2. ToSet(cited) = {}
    BY <1>4, <2>1
  <2>3. cited \in Seq(ToSet(cited))
    <3>1. cited \in Seq(C)
      BY <1>4 DEF C
    <3> QED BY <3>1, SequenceFacts
  <2> HIDE DEF R
  <2> QED BY <2>2, <2>3, SeqMonotonic
<1>10. /\ ToSet(r) = {r[i] : i \in 1..Len(best)} /\ ToSet(r) \subseteq R
       /\ ToSet(best) = {best[i] : i \in 1..Len(best)} /\ ToSet(best) \subseteq 1..5
       /\ IsFiniteSet(ToSet(best))
  <2> HIDE DEF R
  <2>1. /\ ToSet(r) = {r[i] : i \in 1..Len(r)} /\ ToSet(r) \subseteq R
    BY <1>7, SequenceFacts
  <2>2. /\ ToSet(best) = {best[i] : i \in 1..Len(best)} /\ ToSet(best) \subseteq 1..5
        /\ IsFiniteSet(ToSet(best))
    BY <1>5, SequenceFacts
  <2> QED BY <1>7, <2>1, <2>2
<1>11. {x.span_id : x \in ToSet(r)} = ToSet(best)
  <2>1. \A i \in 1..Len(best) : r[i].span_id = best[i]
    BY <1>7, <1>8, <1>10
  <2> QED BY <1>10, <2>1
<1>12. /\ m \in Seq(R) /\ ToSet(m) \subseteq ToSet(r) /\ Distinct(Ids(m))
       /\ \A x \in ToSet(r) : \E y \in ToSet(m) : y.span_id = x.span_id
  <2> HIDE DEF R
  <2> QED BY <1>7, <1>9, MergeFacts
<1> HIDE DEF m, R
<1>13. Len(m) <= limit
  <2> DEFINE ids == {x.span_id : x \in ToSet(m)}
  <2>1. Cardinality(ids) = Len(m)
    BY <1>12, IdsFacts
  <2>2. ids \subseteq ToSet(best)
    BY <1>11, <1>12
  <2>3. Cardinality(ToSet(best)) = Len(best)
    BY <1>5, DistinctCounts
  <2> HIDE DEF ids
  <2>4. Cardinality(ids) <= Cardinality(ToSet(best))
    BY <1>10, <2>2, FS_Subset
  <2>5. Len(m) \in Nat
    BY <1>12, LenProperties
  <2> QED BY <1>2, <1>5, <2>1, <2>3, <2>4, <2>5
<1>14. ToSet(e) = ToSet(m)
  <2>1. /\ e \in Seq(R) /\ Len(e) = IF limit <= Len(m) THEN limit ELSE Len(m)
        /\ \A i \in 1..Len(e) : e[i] = m[i]
    BY <1>2, <1>12, TakeFacts
  <2> HIDE DEF e
  <2>2. Len(m) \in Nat
    BY <1>12, LenProperties
  <2>3. Len(e) = Len(m)
    BY <1>2, <1>13, <2>1, <2>2
  <2>4. ToSet(e) = {e[i] : i \in 1..Len(e)} /\ ToSet(m) = {m[i] : i \in 1..Len(m)}
    BY <1>12, <2>1, SequenceFacts
  <2> QED BY <2>1, <2>3, <2>4
<1> HIDE DEF e
<1>15. Rates(bundle) = {x.says : x \in ToSet(m)}
  BY <1>6, <1>14 DEF Rates
<1>16. 12 \in Rates(bundle)
  <2>1. 1 \in 1..Len(best)
    BY <1>5
  <2>2. r[1] \in ToSet(r) /\ r[1].span_id = 2
    BY <1>5, <1>7, <1>8, <1>10, <2>1
  <2>3. PICK y \in ToSet(m) : y.span_id = 2
    BY <1>12, <2>2
  <2>4. PICK i \in 1..5 : y = RetrievedSpan(span_payload(i))
    BY <1>10, <1>12 DEF R
  <2>5. i = 2
    BY <1>8, <2>3, <2>4
  <2>6. y.says = 12
    BY <1>8, <2>4, <2>5, Documents
  <2> QED BY <1>15, <2>6
<1>17. 99 \notin Rates(bundle)
  <2> SUFFICES ASSUME NEW y \in ToSet(m)
               PROVE  y.says # 99
    BY <1>15
  <2>1. PICK i \in 1..5 : y = RetrievedSpan(span_payload(i))
    BY <1>10, <1>12 DEF R
  <2>2. y.says \in {10, 11, 12, None}
    BY <1>8, <2>1, Documents
  <2> QED BY <2>2, NoneAssumption
<1> QED BY <1>16, <1>17

-----------------------------------------------------------------------------
\* No check fails.

\* What a call does and answers, by its kind.
LEMMA KindsOfCalls ==
    ASSUME NEW c, Execute(c), NEW answer \in Answers(c)
    PROVE  /\ c.op = "envelope" =>
                 /\ PutEnvelope(c.row) /\ UNCHANGED <<ledger, workflow>>
                 /\ answer.outcome = EnvelopeOutcome(c.row)
           /\ c.op = "span" =>
                 /\ PutSpan(c.row) /\ UNCHANGED <<ledger, workflow>>
                 /\ answer.outcome = SpanOutcome(c.row)
           /\ c.op = "embedding" =>
                 /\ PutEmbedding(c.row) /\ UNCHANGED <<ledger, workflow>>
                 /\ answer.outcome = EmbeddingOutcome(c.row)
           /\ c.op = "assertion" =>
                 /\ PutAssertion(c.row) /\ UNCHANGED <<evidence, workflow>>
                 /\ answer.outcome = AssertionOutcome(c.row)
           /\ c.op = "put workflow" =>
                 /\ workflow' = workflow \cup {c.row} /\ UNCHANGED <<evidence, ledger>>
                 /\ answer.outcome = "updated"
           /\ c.op = "get workflow" =>
                 /\ UNCHANGED <<evidence, ledger, workflow>>
                 /\ answer.outcome = "found"
                 /\ answer.body = {w \in workflow : w.tenant_id = tenant_id}
           /\ c.op = "compile" =>
                 /\ UNCHANGED <<evidence, ledger, workflow>>
                 /\ ~CompileRaises(c.row) =>
                       answer.outcome = "compiled" /\ answer.body \in Bundles(c.row)
<1>1. \A outcome, body : Answer(outcome, body).outcome = outcome /\ Answer(outcome, body).body = body
  BY DEF Answer
<1>2. CASE c.op = "envelope"
  BY <1>1, <1>2 DEF Execute, Answers
<1>3. CASE c.op = "span"
  BY <1>1, <1>3 DEF Execute, Answers
<1>4. CASE c.op = "embedding"
  BY <1>1, <1>4 DEF Execute, Answers
<1>5. CASE c.op = "assertion"
  <2>1. PutAssertion(c.row) /\ workflow' = workflow /\ answer.outcome = AssertionOutcome(c.row)
    BY <1>1, <1>5 DEF Execute, Answers
  <2>2. UNCHANGED evidence
    BY <2>1 DEF PutAssertion
  <2> QED BY <1>5, <2>1, <2>2
<1>6. CASE c.op = "put workflow"
  BY <1>1, <1>6 DEF Execute, Answers
<1>7. CASE c.op = "get workflow"
  <2> DEFINE found == {w \in workflow : w.tenant_id = tenant_id}
  <2>1. UNCHANGED <<evidence, ledger, workflow>>
    BY <1>7 DEF Execute
  <2>2. answer = Answer("found", found)
    BY <1>7 DEF Answers
  <2> HIDE DEF found
  <2>3. answer.outcome = "found" /\ answer.body = found
    BY <1>1, <2>2
  <2> QED BY <1>7, <2>1, <2>3 DEF found
<1>8. CASE c.op = "compile"
  <2>1. UNCHANGED <<evidence, ledger, workflow>>
    BY <1>8 DEF Execute
  <2>2. ASSUME ~CompileRaises(c.row)
        PROVE  answer.outcome = "compiled" /\ answer.body \in Bundles(c.row)
    <3>1. PICK bundle \in Bundles(c.row) : answer = Answer("compiled", bundle)
      BY <1>8, <2>2 DEF Answers
    <3> QED BY <1>1, <3>1
  <2> QED BY <1>8, <2>1, <2>2
<1> QED BY <1>2, <1>3, <1>4, <1>5, <1>6, <1>7, <1>8

\* What the script goes on with after an answer.
Carried(check, a, answer) == IF check = None THEN Append(a, answer) ELSE <<>>

\* Call n leaves the tables as the next call expects them, and its check passes.
Passed(n, check, answer) ==
    /\ answer.outcome # "error"
    /\ Passes(check, Append(answers, answer))
    /\ Loaded(n + 1)'
    /\ HeardAt(n + 1, Carried(check, answers, answer))

\* What is heard by the next call.
LEMMA HeardNext ==
    ASSUME NEW n \in 1..47, NEW a, HeardAt(n, a), NEW answer, NEW check,
           check = None /\ n + 1 \in 1..18 \cup 21..23 =>
              n \in 1..18 \cup 21..23 /\ answer.outcome = "created",
           check # None => n + 1 \notin 22..23
    PROVE  HeardAt(n + 1, Carried(check, a, answer))
<1>1. CASE check = None
  <2> DEFINE h == Append(a, answer)
  <2>1. IsSequence(h) /\ ToSet(h) = ToSet(a) \cup {answer}
    BY Hearing DEF HeardAt
  <2> HIDE DEF h
  <2>2. n + 1 \in 1..18 \cup 21..23 => AllCreated(h)
    BY <1>1, <2>1 DEF HeardAt, AllCreated
  <2>3. HeardAt(n + 1, h)
    BY <2>1, <2>2 DEF HeardAt
  <2> QED BY <1>1, <2>3 DEF Carried, h
<1>2. CASE check # None
  <2>1. IsSequence(<<>>) /\ ToSet(<<>>) = {}
    BY DEF IsSequence, ToSet
  <2> QED BY <1>2, <2>1 DEF HeardAt, Carried, AllCreated
<1> QED BY <1>1, <1>2

\* The calls that store a document.
LEMMA DocumentCalls ==
    ASSUME OthersSources, NEW i \in 1..6, NEW n \in {3 * i - 2, 3 * i - 1, 3 * i},
           Loaded(n), HeardAt(n, answers),
           NEW c, c = Script[n], Execute(c), NEW answer \in Answers(c)
    PROVE  Passed(n, c.check, answer)
<1>1. /\ Script[3 * i - 2] = Call("envelope", source_payload(i), None)
      /\ Script[3 * i - 1] = Call("span", span_payload(i), None)
      /\ Script[3 * i] = Call("embedding", embedding_payload(i), "inserted")
  BY ScriptPlaces
<1>2. n \in 1..18 /\ n \in 1..47 /\ n \notin 21..23 /\ n # 19
  OBVIOUS
<1>3. EvidenceAt(n) /\ WorkflowAt(n) /\ LedgerFilled(n)
  BY DEF Loaded
<1>4. IsSequence(answers) /\ AllCreated(answers)
  BY <1>2 DEF HeardAt
<1>5. \A op, row, check : LET call == Call(op, row, check) IN
         call.op = op /\ call.row = row /\ call.check = check
  BY DEF Call
<1>6. "inserted" # None /\ "created" # "error"
  BY NamesAssumption
<1>7. CASE n = 3 * i - 2
  <2>1. c.op = "envelope" /\ c.row = source_payload(i) /\ c.check = None
    BY <1>1, <1>5, <1>7
  <2>2. PutEnvelope(c.row) /\ UNCHANGED <<ledger, workflow>> /\ answer.outcome = EnvelopeOutcome(c.row)
    BY <2>1, KindsOfCalls
  <2>3. EnvelopeOutcome(c.row) = "created" /\ EvidenceAt(n + 1)'
    <3>1. EnvelopeOutcome(c.row) = "created" /\ EvidenceAt(3 * i - 1)'
      BY <1>3, <1>7, <2>2, <2>1, EnvelopeStored
    <3>2. n + 1 = 3 * i - 1
      BY <1>7
    <3> QED BY <3>1, <3>2
  <2>4. Loaded(n + 1)'
    BY <1>2, <1>3, <2>2, <2>3, WorkflowStays, LedgerStays DEF Loaded
  <2>5. Passes(None, Append(answers, answer))
    BY <1>4, WhatPasses
  <2>6. HeardAt(n + 1, Carried(None, answers, answer))
    BY <1>2, <2>2, <2>3, HeardNext
  <2> QED BY <1>6, <2>1, <2>2, <2>3, <2>4, <2>5, <2>6 DEF Passed
<1>8. CASE n = 3 * i - 1
  <2>1. c.op = "span" /\ c.row = span_payload(i) /\ c.check = None
    BY <1>1, <1>5, <1>8
  <2>2. PutSpan(c.row) /\ UNCHANGED <<ledger, workflow>> /\ answer.outcome = SpanOutcome(c.row)
    BY <2>1, KindsOfCalls
  <2>3. SpanOutcome(c.row) = "created" /\ EvidenceAt(n + 1)'
    <3>1. SpanOutcome(c.row) = "created" /\ EvidenceAt(3 * i)'
      BY <1>3, <1>8, <2>2, <2>1, SpanInserted
    <3>2. n + 1 = 3 * i
      BY <1>8
    <3> QED BY <3>1, <3>2
  <2>4. Loaded(n + 1)'
    BY <1>2, <1>3, <2>2, <2>3, WorkflowStays, LedgerStays DEF Loaded
  <2>5. Passes(None, Append(answers, answer))
    BY <1>4, WhatPasses
  <2>6. HeardAt(n + 1, Carried(None, answers, answer))
    BY <1>2, <2>2, <2>3, HeardNext
  <2> QED BY <1>6, <2>1, <2>2, <2>3, <2>4, <2>5, <2>6 DEF Passed
<1>9. CASE n = 3 * i
  <2>1. c.op = "embedding" /\ c.row = embedding_payload(i) /\ c.check = "inserted"
    BY <1>1, <1>5, <1>9
  <2>2. PutEmbedding(c.row) /\ UNCHANGED <<ledger, workflow>> /\ answer.outcome = EmbeddingOutcome(c.row)
    BY <2>1, KindsOfCalls
  <2>3. EmbeddingOutcome(c.row) = "created" /\ EvidenceAt(n + 1)'
    <3>1. EmbeddingOutcome(c.row) = "created" /\ EvidenceAt(3 * i + 1)'
      BY <1>3, <1>9, <2>2, <2>1, EmbeddingInserted
    <3>2. n + 1 = 3 * i + 1
      BY <1>9
    <3> QED BY <3>1, <3>2
  <2>4. Loaded(n + 1)'
    BY <1>2, <1>3, <2>2, <2>3, WorkflowStays, LedgerStays DEF Loaded
  <2>5. Passes("inserted", Append(answers, answer))
    BY <1>4, <2>2, <2>3, WhatPasses
  <2>6. HeardAt(n + 1, Carried("inserted", answers, answer))
    <3>1. n + 1 \notin 22..23
      BY <1>2
    <3> QED BY <1>2, <1>6, <3>1, HeardNext
  <2> QED BY <1>6, <2>1, <2>2, <2>3, <2>4, <2>5, <2>6 DEF Passed
<1> QED BY <1>7, <1>8, <1>9

\* The calls that store the checkpoint and read it back.
LEMMA CheckpointCalls ==
    ASSUME NEW n \in {19, 20}, Loaded(n), HeardAt(n, answers),
           NEW c, c = Script[n], Execute(c), NEW answer \in Answers(c)
    PROVE  Passed(n, c.check, answer)
<1>1. /\ Script[19] = Call("put workflow", workflow_payload, None)
      /\ Script[20] = Call("get workflow", workflow_payload, "persistence")
  BY ScriptPlaces
<1>2. EvidenceAt(n) /\ WorkflowAt(n) /\ LedgerFilled(n)
  BY DEF Loaded
<1>3. IsSequence(answers)
  BY DEF HeardAt
<1>5. "persistence" # None /\ "updated" # "error" /\ "found" # "error"
  BY NamesAssumption
<1>6. CASE n = 19
  <2>1. c.op = "put workflow" /\ c.row = workflow_payload /\ c.check = None
    <3>1. c = Call("put workflow", workflow_payload, None)
      BY <1>1, <1>6
    <3> QED BY ONLY <3>1 DEF Call
  <2>2. /\ workflow' = workflow \cup {workflow_payload} /\ UNCHANGED <<evidence, ledger>>
        /\ answer.outcome = "updated"
    BY <2>1, KindsOfCalls
  <2>3. Loaded(n + 1)'
    <3>1. WorkflowAt(20)'
      BY <1>2, <1>6, <2>2, CheckpointStored
    <3>2. LedgerFilled(n + 1)' /\ EvidenceAt(n + 1)'
      BY <1>2, <1>6, <2>2, LedgerStays, EvidenceStays
    <3> QED BY <1>6, <3>1, <3>2 DEF Loaded
  <2>4. Passes(None, Append(answers, answer))
    BY <1>3, WhatPasses
  <2>5. HeardAt(n + 1, Carried(None, answers, answer))
    BY <1>6, HeardNext
  <2> QED BY <1>5, <2>1, <2>2, <2>3, <2>4, <2>5 DEF Passed
<1>7. CASE n = 20
  <2>1. c.op = "get workflow" /\ c.row = workflow_payload /\ c.check = "persistence"
    <3>1. c = Call("get workflow", workflow_payload, "persistence")
      BY <1>1, <1>7
    <3> QED BY ONLY <3>1 DEF Call
  <2>2. /\ UNCHANGED <<evidence, ledger, workflow>> /\ answer.outcome = "found"
        /\ answer.body = {w \in workflow : w.tenant_id = tenant_id}
    BY <2>1, KindsOfCalls
  <2>3. Loaded(n + 1)'
    BY <1>2, <1>7, <2>2, WorkflowStays, LedgerStays, EvidenceStays DEF Loaded
  <2>4. Passes("persistence", Append(answers, answer))
    <3>1. answer.body = {workflow_payload}
      BY <1>2, <1>7, <2>2, CheckpointFound
    <3> QED BY <1>3, <3>1, WhatPasses
  <2>5. HeardAt(n + 1, Carried("persistence", answers, answer))
    BY <1>5, <1>7, HeardNext
  <2> QED BY <1>5, <2>1, <2>2, <2>3, <2>4, <2>5 DEF Passed
<1> QED BY <1>6, <1>7

\* The calls that store the assertions, one of them twice.
LEMMA AssertionCalls ==
    ASSUME NEW n \in 21..24, Loaded(n), HeardAt(n, answers),
           NEW c, c = Script[n], Execute(c), NEW answer \in Answers(c)
    PROVE  Passed(n, c.check, answer)
<1> DEFINE row == IF n = 21 THEN contract_assertion
                  ELSE IF n = 22 \/ n = 24 THEN amendment_assertion ELSE draft_assertion
           check == IF n = 23 THEN "creation" ELSE IF n = 24 THEN "idempotency" ELSE None
<1>1. EvidenceAt(n) /\ WorkflowAt(n) /\ LedgerFilled(n) /\ IsSequence(answers)
  BY DEF Loaded, HeardAt
<1>2. "creation" # None /\ "idempotency" # None /\ "created" # "error" /\ "duplicate" # "error"
  BY NamesAssumption
<1>3. c = Call("assertion", row, check)
  <2>1. /\ Script[21] = Call("assertion", contract_assertion, None)
        /\ Script[22] = Call("assertion", amendment_assertion, None)
        /\ Script[23] = Call("assertion", draft_assertion, "creation")
        /\ Script[24] = Call("assertion", amendment_assertion, "idempotency")
    BY ScriptPlaces
  <2>2. n \in {21, 22, 23, 24}
    OBVIOUS
  <2> QED BY <2>1, <2>2
<1> HIDE DEF row, check
<1>4. c.op = "assertion" /\ c.row = row /\ c.check = check
  BY ONLY <1>3 DEF Call
<1>5. /\ PutAssertion(c.row) /\ UNCHANGED <<evidence, workflow>>
      /\ answer.outcome = AssertionOutcome(c.row)
  BY <1>4, KindsOfCalls
<1>6. EvidenceAt(n + 1)' /\ WorkflowAt(n + 1)'
  BY <1>1, <1>5, EvidenceStays, WorkflowStays
<1>7. CASE n \in 21..23
  <2>1. n \in {21, 22, 23}
    BY <1>7
  <2>2. c.row = IF n = 21 THEN contract_assertion
                ELSE IF n = 22 THEN amendment_assertion ELSE draft_assertion
    BY <1>4, <2>1 DEF row
  <2>3. AssertionOutcome(c.row) = "created" /\ LedgerFilled(n + 1)'
    BY <1>1, <1>5, <1>7, <2>2, AssertionStored
  <2>4. AllCreated(answers) /\ (n = 23 => ToSet(answers) # {})
    BY <1>7 DEF HeardAt
  <2>5. Passes(c.check, Append(answers, answer))
    <3>1. CASE n = 23
      <4>1. c.check = "creation"
        BY <1>4, <3>1 DEF check
      <4> QED BY <1>1, <2>4, <3>1, <4>1, WhatPasses
    <3>2. CASE n # 23
      <4>1. c.check = None
        BY <1>4, <2>1, <3>2 DEF check
      <4> QED BY <1>1, <4>1, WhatPasses
    <3> QED BY <3>1, <3>2
  <2>6. HeardAt(n + 1, Carried(c.check, answers, answer))
    <3>1. c.check # None => n = 23
      BY <1>4, <2>1 DEF check
    <3> QED BY <1>5, <1>7, <2>1, <2>3, <3>1, HeardNext
  <2> QED BY <1>2, <1>5, <1>6, <2>3, <2>5, <2>6 DEF Passed, Loaded
<1>8. CASE n = 24
  <2>1. c.row = amendment_assertion /\ c.check = "idempotency"
    BY <1>4, <1>8 DEF row, check
  <2>2. AssertionOutcome(c.row) = "duplicate" /\ LedgerFilled(n + 1)'
    BY <1>1, <1>5, <1>8, <2>1, AssertionRepeated
  <2>3. Passes(c.check, Append(answers, answer))
    BY <1>1, <1>5, <2>1, <2>2, WhatPasses
  <2>4. HeardAt(n + 1, Carried(c.check, answers, answer))
    BY <1>2, <1>8, <2>1, HeardNext
  <2> QED BY <1>2, <1>5, <1>6, <2>2, <2>3, <2>4 DEF Passed, Loaded
<1> QED BY <1>7, <1>8

\* What passes after a call that changes nothing.
LEMMA ReadingCall ==
    ASSUME NEW n \in 25..47, Loaded(n), HeardAt(n, answers),
           UNCHANGED <<evidence, ledger, workflow>>,
           NEW check, NEW answer, answer.outcome # "error",
           Passes(check, Append(answers, answer))
    PROVE  Passed(n, check, answer)
<1>1. EvidenceAt(n) /\ WorkflowAt(n) /\ LedgerFilled(n)
  BY DEF Loaded
<1>2. n \in 1..47 /\ n \in 19..47 /\ n \notin 21..23 /\ n # 19
  OBVIOUS
<1>3. Loaded(n + 1)'
  BY <1>1, <1>2, EvidenceStays, WorkflowStays, LedgerStays DEF Loaded
<1>4. HeardAt(n + 1, Carried(check, answers, answer))
  <2>1. n + 1 \notin 1..18 \cup 21..23
    OBVIOUS
  <2> QED BY <1>2, <2>1, HeardNext
<1> QED BY <1>3, <1>4 DEF Passed

\* Within such settings no context of the script is refused, and the tenant's
\* embeddings can be compared with its query.
LEMMA NothingRaises ==
    ASSUME SettingsLeaveRoom, NEW n \in 25..48, EvidenceAt(n),
           NEW q \in {current_context, historical_context, retrieval_context}
    PROVE  ~CompileRaises(q)
<1>1. /\ AssertionLimit(q) >= 2 /\ AssertionLimit(q) \in Nat /\ EvidenceLimit(q) \in 1..3
      /\ q.embedding.dimensions = 2
  BY Requests
<1>2. ~FindRefused(q)
  BY <1>1 DEF FindRefused
<1>3. ~SearchRefused(q)
  BY <1>1 DEF SearchRefused
<1>4. Comparable(embeddings, q)
  <2>1. Embedded(embeddings, q) = {embedding_payload(i) : i \in 1..5}
    BY OwnEvidence
  <2>2. \A i \in 1..5 : embedding_payload(i).dimensions = 2
    BY DEF embedding_payload
  <2> HIDE DEF embedding_payload
  <2> QED BY <1>1, <2>1, <2>2 DEF Comparable
<1> QED BY <1>2, <1>3, <1>4 DEF CompileRaises

\* The contexts that are compiled, and the repeated span.
LEMMA ReadingCalls ==
    ASSUME SettingsLeaveRoom, LedgerInv,
           NEW n \in 25..47, Loaded(n), HeardAt(n, answers),
           NEW c, c = Script[n], Execute(c), NEW answer \in Answers(c)
    PROVE  Passed(n, c.check, answer)
<1>1. EvidenceAt(n) /\ WorkflowAt(n) /\ LedgerFilled(n) /\ IsSequence(answers)
  BY DEF Loaded, HeardAt
<1>2. n \in 25..48 /\ n \in 19..47
  OBVIOUS
<1>3. /\ Script[25] = Call("compile", current_context, "current")
      /\ Script[26] = Call("compile", historical_context, "historical")
      /\ Script[27] = Call("compile", retrieval_context, "retrieval")
      /\ Script[28] = Call("span", span_payload(2), "idempotency")
      /\ \A j \in 29..47 : Script[j] = Call("compile", current_context, None)
  BY ScriptPlaces
<1>4. ASSUME c.op = "compile",
             c.row \in {current_context, historical_context, retrieval_context}
      PROVE  /\ UNCHANGED <<evidence, ledger, workflow>>
             /\ answer.outcome # "error" /\ answer.body \in Bundles(c.row)
  <2>1. ~CompileRaises(c.row)
    BY <1>1, <1>2, <1>4, NothingRaises
  <2> QED BY <1>4, <2>1, KindsOfCalls
<1>5. CASE n = 25
  <2>1. c = Call("compile", current_context, "current")
    BY <1>3, <1>5
  <2>2. c.op = "compile" /\ c.row = current_context /\ c.check = "current"
    BY ONLY <2>1 DEF Call
  <2>3. Passes("current", Append(answers, answer))
    <3> DEFINE body == answer.body
    <3>1. body \in Bundles(current_context)
      BY <1>4, <2>2
    <3>2. /\ 12 \in Values(body) /\ 10 \notin Values(body)
          /\ \E a \in body.assertions : a.content.evidence_span_id = 2
          /\ Cardinality(body.conflicts) = 1
          /\ body.bounded /\ Len(body.evidence) <= 3
      BY <1>1, <1>2, <3>1, CurrentPasses
    <3> QED BY <1>1, <3>2, WhatPasses
  <2> QED BY <1>4, <2>2, <2>3, ReadingCall
<1>6. CASE n = 26
  <2>1. c = Call("compile", historical_context, "historical")
    BY <1>3, <1>6
  <2>2. c.op = "compile" /\ c.row = historical_context /\ c.check = "historical"
    BY ONLY <2>1 DEF Call
  <2>3. Passes("historical", Append(answers, answer))
    <3>1. Values(answer.body) = {10}
      BY <1>1, <1>2, <1>4, <2>2, HistoricalPasses
    <3> QED BY <1>1, <3>1, WhatPasses
  <2> QED BY <1>4, <2>2, <2>3, ReadingCall
<1>7. CASE n = 27
  <2>1. c = Call("compile", retrieval_context, "retrieval")
    BY <1>3, <1>7
  <2>2. c.op = "compile" /\ c.row = retrieval_context /\ c.check = "retrieval"
    BY ONLY <2>1 DEF Call
  <2>3. Passes("retrieval", Append(answers, answer))
    <3>1. 12 \in Rates(answer.body) /\ 99 \notin Rates(answer.body)
      BY <1>1, <1>2, <1>4, <2>2, RetrievalPasses
    <3> QED BY <1>1, <3>1, WhatPasses
  <2> QED BY <1>4, <2>2, <2>3, ReadingCall
<1>8. CASE n = 28
  <2>1. c = Call("span", span_payload(2), "idempotency")
    BY <1>3, <1>8
  <2>2. c.op = "span" /\ c.row = span_payload(2) /\ c.check = "idempotency"
    BY ONLY <2>1 DEF Call
  <2>3. /\ PutSpan(c.row) /\ UNCHANGED <<ledger, workflow>>
        /\ answer.outcome = SpanOutcome(c.row)
    BY <2>2, KindsOfCalls
  <2>4. answer.outcome = "duplicate"
    BY <1>1, <1>2, <2>2, <2>3, SpanRepeated
  <2>5. UNCHANGED <<evidence, ledger, workflow>>
    BY <2>3, <2>4 DEF PutSpan, evidence
  <2>6. Passes("idempotency", Append(answers, answer))
    BY <1>1, <2>4, WhatPasses
  <2>7. answer.outcome # "error"
    BY <2>4
  <2> QED BY <2>2, <2>5, <2>6, <2>7, ReadingCall
<1>9. CASE n \in 29..47
  <2>1. c = Call("compile", current_context, None)
    BY <1>3, <1>9
  <2>2. c.op = "compile" /\ c.row = current_context /\ c.check = None
    BY ONLY <2>1 DEF Call
  <2>3. Passes(None, Append(answers, answer))
    BY <1>1, WhatPasses
  <2> QED BY <1>4, <2>2, <2>3, ReadingCall
<1>10. n \in {25, 26, 27, 28} \/ n \in 29..47
  OBVIOUS
<1> QED BY <1>5, <1>6, <1>7, <1>8, <1>9, <1>10

\* Every call of the script passes its check.
LEMMA CallsPass ==
    ASSUME SettingsLeaveRoom, LedgerInv, OthersSources,
           NEW n \in 1..47, Loaded(n), HeardAt(n, answers),
           NEW c, c = Script[n], Execute(c), NEW answer \in Answers(c)
    PROVE  Passed(n, c.check, answer)
<1>1. CASE n \in 1..18
  <2>1. PICK i \in 1..6 : n \in {3 * i - 2, 3 * i - 1, 3 * i}
    <3> DEFINE i == (n + 2) \div 3
    <3>1. i \in 1..6 /\ n \in {3 * i - 2, 3 * i - 1, 3 * i}
      BY <1>1
    <3> QED BY <3>1
  <2> QED BY <2>1, DocumentCalls
<1>2. CASE n \in {19, 20}
  BY <1>2, CheckpointCalls
<1>3. CASE n \in 21..24
  BY <1>3, AssertionCalls
<1>4. CASE n \in 25..47
  BY <1>4, ReadingCalls
<1>5. n \in 1..18 \/ n \in {19, 20} \/ n \in 21..24 \/ n \in 25..47
  OBVIOUS
<1> QED BY <1>1, <1>2, <1>3, <1>4, <1>5

\* Nothing of the run is there at first.
LEMMA ScenarioStart == Init => ScenarioInv
<1> SUFFICES ASSUME Init PROVE ScenarioInv
  OBVIOUS
<1>1. verdict = None /\ stage = "calls" /\ step = 1 /\ answers = <<>>
  BY DEF Init
<1>2. /\ Ours(sources) = {} /\ Ours(spans) = {} /\ Ours(embeddings) = {} /\ Ours(workflow) = {}
  BY OthersAssumption DEF Init, Ours
<1>3. EvidenceAt(1)
  <2>1. /\ {i \in 1..6 : 3 * i - 2 < 1} = {} /\ {i \in 1..6 : 3 * i - 1 < 1} = {}
        /\ {i \in 1..6 : 3 * i < 1} = {}
    OBVIOUS
  <2> QED BY <1>2, <2>1 DEF EvidenceAt
<1>4. LedgerFilled(1)
  <2> SUFFICES ASSUME NEW k \in AssertionKey, k[1] \in Mine
               PROVE  ledger[k] = None
    BY DEF LedgerFilled, LedgerAt
  <2>1. ASSUME NEW a \in others.assertions
        PROVE  KeyOf(a) # k
    <3>1. a.tenant_id \notin Mine
      BY OthersAssumption
    <3> QED BY <3>1 DEF KeyOf
  <2> QED BY <2>1 DEF Init
<1>5. WorkflowAt(1)
  BY <1>2 DEF WorkflowAt
<1>6. HeardAt(1, <<>>)
  BY DEF HeardAt, AllCreated, IsSequence, ToSet
<1>7. OthersSources
  BY OthersAssumption DEF Init, OthersSources
<1>8. verdict # "FAIL"
  BY <1>1, NamesAssumption
<1> QED BY <1>1, <1>3, <1>4, <1>5, <1>6, <1>7, <1>8 DEF ScenarioInv, Loaded, ChecksPass

\* The script stores no source under the others' names.
LEMMA SourcesStay ==
    ASSUME OthersSources, LedgerInv, SourcesInv, NEW c, OwnCall(c), Execute(c)
    PROVE  OthersSources'
<1>1. Gains(sources, sources', c.row) /\ c.row.tenant_id \in Mine
  BY ExecuteEffect DEF EvidenceGains, OwnCall
<1> QED BY <1>1 DEF Gains, OthersSources

\* A call of the script, answered.
LEMMA ScenarioCall == SettingsLeaveRoom /\ RunInv /\ ScenarioInv /\ MakeCall => ScenarioInv'
<1> SUFFICES ASSUME SettingsLeaveRoom, RunInv, ScenarioInv, MakeCall
             PROVE  ScenarioInv'
  OBVIOUS
<1> DEFINE c == Script[step]
<1>1. stage = "calls" /\ LedgerInv /\ SourcesInv /\ ControlInv /\ OthersSources
  BY DEF MakeCall, RunInv, ScenarioInv
<1>2. PICK n \in 1..47 : step = n /\ Loaded(n) /\ HeardAt(n, answers)
  BY <1>1 DEF ScenarioInv
<1>3. OwnCall(c) /\ Len(Script) = 47
  BY <1>1, NextCall, ScriptPlaces
<1>4. Execute(c)
  BY DEF MakeCall
<1>5. PICK answer \in Answers(c) :
         LET heard == Append(answers, answer) IN
         IF answer.outcome = "error" \/ ~Passes(c.check, heard)
         THEN verdict' = "FAIL" /\ Finish
         ELSE IF step = Len(Script)
         THEN verdict' = "PASS" /\ Finish
         ELSE /\ step' = step + 1
              /\ answers' = IF c.check = None THEN heard ELSE <<>>
              /\ UNCHANGED <<stage, verdict, kept>>
  BY DEF MakeCall
<1>6. OthersSources'
  BY <1>1, <1>3, <1>4, SourcesStay
<1>7. c = Script[n]
  BY <1>2
<1> HIDE DEF c
<1>8. Passed(n, c.check, answer)
  BY <1>1, <1>2, <1>4, <1>7, CallsPass
<1>9. CASE n = 47
  <2>1. verdict' = "PASS" /\ Finish
    BY <1>2, <1>3, <1>5, <1>8, <1>9 DEF Passed
  <2>2. stage' # "calls" /\ verdict' # "FAIL"
    BY <2>1 DEF Finish
  <2> QED BY <1>6, <2>2 DEF ScenarioInv, ChecksPass
<1>10. CASE n # 47
  <2>1. /\ step' = n + 1 /\ answers' = Carried(c.check, answers, answer)
        /\ verdict' = verdict
    BY <1>2, <1>3, <1>5, <1>8, <1>10 DEF Passed, Carried
  <2>2. n + 1 \in 1..47
    BY <1>10
  <2>3. Loaded(n + 1)' /\ HeardAt(n + 1, answers')
    BY <1>8, <2>1 DEF Passed
  <2>4. \E m \in 1..47 : step' = m /\ Loaded(m)' /\ HeardAt(m, answers')
    BY <2>1, <2>2, <2>3
  <2>5. ChecksPass'
    BY <2>1 DEF ScenarioInv, ChecksPass
  <2> QED BY <1>6, <2>4, <2>5 DEF ScenarioInv
<1> QED BY <1>9, <1>10

\* What others store.
LEMMA ScenarioOthers == RunInv /\ ScenarioInv /\ OtherClients => ScenarioInv'
<1> SUFFICES ASSUME RunInv, ScenarioInv, OtherClients
             PROVE  ScenarioInv'
  OBVIOUS
<1>1. /\ EvidenceNext /\ UNCHANGED <<ledger, workflow>> /\ step' = step
      /\ answers' = answers /\ stage' = stage /\ verdict' = verdict
  BY DEF OtherClients, script
<1>2. /\ Ours(sources') = Ours(sources) /\ Ours(spans') = Ours(spans)
      /\ Ours(embeddings') = Ours(embeddings)
  <2>1. PICK row : /\ Gains(sources, sources', row) /\ Gains(spans, spans', row)
                   /\ Gains(embeddings, embeddings', row)
                   /\ row.tenant_id \notin Mine
    BY <1>1, OthersEffect DEF RunInv
  <2> QED BY <2>1 DEF Gains, Ours
<1>3. OthersSources'
  <2>1. sources' = sources \/ \E e \in Envelopes : sources' = sources \cup {e}
    BY <1>1 DEF EvidenceNext, PutEnvelope, PutSpan, PutEmbedding
  <2>2. \A e \in Envelopes : e.source_id \notin 1..6
    BY OthersAssumption
  <2> QED BY <2>1, <2>2 DEF ScenarioInv, OthersSources
<1>4. ASSUME NEW n \in 1..47, Loaded(n)
      PROVE  Loaded(n)'
  BY <1>1, <1>2, <1>4 DEF Loaded, EvidenceAt, WorkflowAt, LedgerFilled, Ours
<1>5. (stage = "calls" => \E n \in 1..47 : step = n /\ Loaded(n) /\ HeardAt(n, answers))'
  BY <1>1, <1>4 DEF ScenarioInv
<1> QED BY <1>1, <1>3, <1>5 DEF ScenarioInv, ChecksPass

\* All other steps end the calls or come after them.
LEMMA ScenarioEnd ==
    ASSUME RunInv, ScenarioInv,
           CallFails \/ TimeOut \/ ExecuteLate \/ Delete \/ Commit \/ Die
    PROVE  ScenarioInv'
<1>1. LedgerInv /\ SourcesInv /\ ControlInv /\ OthersSources /\ verdict # "FAIL"
  BY DEF RunInv, ScenarioInv, ChecksPass
<1>2. verdict' = verdict
  BY DEF CallFails, TimeOut, ExecuteLate, Delete, Commit, Die
<1>3. stage' # "calls"
  <2>1. CASE CallFails \/ TimeOut
    BY <2>1 DEF CallFails, TimeOut, Finish
  <2>2. CASE ExecuteLate
    BY <1>1, <2>2 DEF ExecuteLate, ControlInv
  <2>3. CASE Delete \/ Commit \/ Die
    BY <2>3 DEF Delete, Commit, Die
  <2> QED BY <2>1, <2>2, <2>3
<1>4. OthersSources'
  <2>1. CASE sources' \subseteq sources
    BY <1>1, <2>1 DEF OthersSources
  <2>2. CASE CallFails /\ Execute(Script[step])
    <3>1. OwnCall(Script[step])
      BY <1>1, <2>2, NextCall DEF CallFails
    <3> QED BY <1>1, <2>2, <3>1, SourcesStay
  <2>3. CASE ExecuteLate /\ Execute(abandoned)
    <3>1. OwnCall(abandoned)
      BY <1>1, <2>3 DEF ExecuteLate, ControlInv
    <3> QED BY <1>1, <2>3, <3>1, SourcesStay
  <2>4. UNCHANGED tables => sources' \subseteq sources
    BY DEF tables, evidence
  <2>5. CASE Delete \/ Commit \/ Die
    <3>1. sources' \subseteq sources
      BY <2>4, <2>5 DEF Delete, Commit, Die, RollBack, Erase
    <3> QED BY <2>1, <3>1
  <2> QED BY <2>1, <2>2, <2>3, <2>4, <2>5 DEF CallFails, TimeOut, ExecuteLate
<1> QED BY <1>1, <1>2, <1>3, <1>4 DEF ScenarioInv, ChecksPass

\* The invariant is kept by every step.
LEMMA ScenarioStep ==
    SettingsLeaveRoom /\ RunInv /\ ScenarioInv /\ [Next]_vars => ScenarioInv'
<1> SUFFICES ASSUME SettingsLeaveRoom, RunInv, ScenarioInv, [Next]_vars
             PROVE  ScenarioInv'
  OBVIOUS
<1>1. CASE MakeCall
  BY <1>1, ScenarioCall
<1>2. CASE OtherClients
  BY <1>2, ScenarioOthers
<1>3. CASE CallFails \/ TimeOut \/ ExecuteLate \/ Delete \/ Commit \/ Die
  BY <1>3, ScenarioEnd
<1>4. CASE UNCHANGED vars
  <2>1. /\ sources' = sources /\ spans' = spans /\ embeddings' = embeddings
        /\ ledger' = ledger /\ workflow' = workflow /\ step' = step
        /\ answers' = answers /\ stage' = stage /\ verdict' = verdict
    BY <1>4 DEF vars, tables, evidence, script
  <2>2. ASSUME NEW n \in 1..47, Loaded(n)
        PROVE  Loaded(n)'
    BY <2>1, <2>2 DEF Loaded, EvidenceAt, WorkflowAt, LedgerFilled, Ours
  <2>3. (stage = "calls" => \E n \in 1..47 : step = n /\ Loaded(n) /\ HeardAt(n, answers))'
    BY <2>1, <2>2 DEF ScenarioInv
  <2>4. ChecksPass' /\ OthersSources'
    BY <2>1 DEF ScenarioInv, ChecksPass, OthersSources
  <2> QED BY <2>3, <2>4 DEF ScenarioInv
<1> QED BY <1>1, <1>2, <1>3, <1>4 DEF Next

\* No check of the script fails (scripts/realworld_validation.py, check() and
\* post_expect_created()), whatever other tenants have stored and go on storing, if the
\* settings let two assertions and one piece of evidence into a bundle.
THEOREM ChecksAlwaysPass == SettingsLeaveRoom => (Spec => []ChecksPass)
<1> SUFFICES ASSUME SettingsLeaveRoom PROVE Spec => []ChecksPass
  OBVIOUS
<1>1. Init => RunInv /\ ScenarioInv
  BY RunStart, ScenarioStart
<1>2. RunInv /\ ScenarioInv /\ [Next]_vars => (RunInv /\ ScenarioInv)'
  BY RunStep, ScenarioStep
<1>3. RunInv /\ ScenarioInv => ChecksPass
  BY DEF ScenarioInv
<1> QED BY <1>1, <1>2, <1>3, PTL DEF Spec
=============================================================================
