------------------------ MODULE EmailIngestionProofs ------------------------
(***************************************************************************)
(* Proofs about email ingestion, for any number of workers, mails and      *)
(* clients that post evidence of their own.                                *)
(***************************************************************************)
EXTENDS EmailIngestion, SequenceTheorems, TLAPS

\* Two sources with one body span id are one source.
LEMMA BodyIdsTell ==
    ASSUME NEW m \in Emails, NEW n \in Emails, SpanId(m) = SpanId(n)
    PROVE  SourceId(m) = SourceId(n)
<1> DEFINE s == SourceId(m)  t == SourceId(n)
<1>1. <<":">> \in Seq(Tokens) /\ <<"body">> \in Seq(Tokens) /\ Len(<<"body">>) = 1
  BY EmailsAssumption
<1>2. s \in Seq(Tokens) /\ t \in Seq(Tokens)
  BY <1>1, EmailsAssumption DEF SourceId
<1>3. s \o <<"body">> = t \o <<"body">>
  BY DEF SpanId
<1> HIDE DEF s, t
<1>4. Len(s) = Len(t)
  BY <1>1, <1>2, <1>3, LenProperties, ConcatProperties
<1>5. \A i \in 1..Len(s) : s[i] = t[i]
  BY <1>1, <1>2, <1>3, <1>4, LenProperties, ConcatProperties
<1> QED BY <1>2, <1>4, <1>5, SeqEqual DEF s, t

-----------------------------------------------------------------------------

\* No id has two rows.
KeysUnique ==
    /\ \A r, s \in spans : SpanKey(r) = SpanKey(s) => r = s
    /\ \A r, s \in sources : r.source_id = s.source_id => r = s

\* A worker past the parsing has a mail it could read, and one that is about to
\* store the body has the envelope of that mail's own tenant behind it.
WorkersOnCourse ==
    \A w \in Workers :
        /\ pc[w] # "idle" => mail[w] \in Emails /\ Readable(mail[w])
        /\ pc[w] = "span" => SourceStored(SourceKey(Envelope(mail[w])))

EmailInv ==
    /\ TypeOK
    /\ KeysUnique
    /\ WorkersOnCourse
    /\ ReturnedIsStored
    /\ BodyUnderOwnEnvelope

\* The three writers only add rows, and no second one under an id.
LEMMA WritersAdd ==
    ASSUME KeysUnique
    PROVE  /\ \A e : PutEnvelope(e) => StoredEvidenceStays
           /\ \A s : PutSpan(s) => StoredEvidenceStays
           /\ \A e : PutEmbedding(e) => StoredEvidenceStays
<1>1. ASSUME NEW e, PutEnvelope(e) PROVE StoredEvidenceStays
  BY <1>1 DEF PutEnvelope, EnvelopeOutcome, StoredEvidenceStays, KeysUnique, SpanKey
<1>2. ASSUME NEW s, PutSpan(s) PROVE StoredEvidenceStays
  <2>1. spans' = spans \/ (spans' = spans \cup {s} /\ ~SpanStored(SpanKey(s)))
    BY <1>2 DEF PutSpan, SpanOutcome
  <2> QED BY <1>2, <2>1 DEF PutSpan, StoredEvidenceStays, KeysUnique, SpanStored
<1>3. ASSUME NEW e, PutEmbedding(e) PROVE StoredEvidenceStays
  BY <1>3 DEF PutEmbedding, StoredEvidenceStays, KeysUnique
<1> QED BY <1>1, <1>2, <1>3

\* Every step adds, or leaves the tables alone.
LEMMA StepAdds ==
    ASSUME KeysUnique, [Next]_vars
    PROVE  StoredEvidenceStays
<1>1. CASE UNCHANGED evidence
  BY <1>1 DEF evidence, StoredEvidenceStays, KeysUnique
<1>2. CASE \E w \in Workers : StoreEnvelope(w) \/ StoreSpan(w)
  BY <1>2, WritersAdd DEF StoreEnvelope, StoreSpan
<1>3. CASE EvidenceNext
  BY <1>3, WritersAdd DEF EvidenceNext
<1> QED BY <1>1, <1>2, <1>3
     DEF Next, Receive, Crash, OtherClient, vars

\* What is stored stays stored.
LEMMA StoredStays ==
    ASSUME StoredEvidenceStays
    PROVE  /\ \A k : SourceStored(k) => SourceStored(k)'
           /\ \A k : SpanStored(k) => SpanStored(k)'
BY DEF StoredEvidenceStays, SourceStored, SpanStored

\* A posted span is of no body, so that only ingest stores bodies.
LEMMA ClientKeepsBodies ==
    ASSUME EvidenceNext, NEW m \in Emails, SpanStored(SpanKey(BodySpan(m)))'
    PROVE  SpanStored(SpanKey(BodySpan(m)))
<1>1. CASE spans' = spans
  BY <1>1 DEF SpanStored
<1>2. CASE \E s \in Spans : spans' = spans \cup {s}
  BY <1>2, BodySpanIdsAssumption DEF SpanStored
<1> QED BY <1>1, <1>2 DEF EvidenceNext, PutEnvelope, PutSpan, PutEmbedding

\* After StoreSpan the body of a mail is newly stored only if it has the ids of
\* the worker's mail.
LEMMA BodyStored ==
    ASSUME TypeOK, WorkersOnCourse, NEW w \in Workers, StoreSpan(w),
           NEW m \in Emails, SpanStored(SpanKey(BodySpan(m)))',
           ~SpanStored(SpanKey(BodySpan(m)))
    PROVE  SourceStored(SourceKey(Envelope(m)))
<1> DEFINE n == mail[w]
<1>1. n \in Emails /\ SourceStored(SourceKey(Envelope(n)))
  BY DEF StoreSpan, WorkersOnCourse
<1>2. SpanKey(BodySpan(m)) = SpanKey(BodySpan(n))
  BY DEF StoreSpan, PutSpan, SpanStored
<1>3. m.tenant_id = n.tenant_id /\ SpanId(m) = SpanId(n)
  BY <1>2 DEF SpanKey, BodySpan
<1>4. SourceKey(Envelope(m)) = SourceKey(Envelope(n))
  BY <1>1, <1>3, BodyIdsTell DEF SourceKey, Envelope
<1> QED BY <1>1, <1>4

\* Every step keeps the types.
LEMMA TypeStep ==
    ASSUME EmailInv, [Next]_vars
    PROVE  TypeOK'
<1> USE DEF EmailInv, TypeOK
<1>1. ASSUME NEW w \in Workers, NEW m \in Emails, Receive(w, m) PROVE TypeOK'
  BY <1>1 DEF Receive, evidence
<1>2. ASSUME NEW w \in Workers, StoreEnvelope(w) PROVE TypeOK'
  <2>1. mail[w] \in Emails
    BY <1>2 DEF StoreEnvelope, WorkersOnCourse
  <2> QED BY <1>2, <2>1 DEF StoreEnvelope, PutEnvelope
<1>3. ASSUME NEW w \in Workers, StoreSpan(w) PROVE TypeOK'
  <2>1. mail[w] \in Emails /\ Readable(mail[w])
    BY <1>3 DEF StoreSpan, WorkersOnCourse
  <2> QED BY <1>3, <2>1 DEF StoreSpan, PutSpan
<1>4. ASSUME NEW w \in Workers, Crash(w) PROVE TypeOK'
  BY <1>4, MaxCrashesAssumption DEF Crash, evidence
<1>5. CASE OtherClient
  BY <1>5 DEF OtherClient, EvidenceNext, PutEnvelope, PutSpan, PutEmbedding
<1>6. CASE UNCHANGED vars
  BY <1>6 DEF vars, evidence
<1> QED BY <1>1, <1>2, <1>3, <1>4, <1>5, <1>6 DEF Next

\* Every step keeps the workers on course: an envelope that is there already is
\* taken for a success only if it is the tenant's own.
LEMMA CourseStep ==
    ASSUME EmailInv, [Next]_vars
    PROVE  WorkersOnCourse'
<1> USE DEF EmailInv, WorkersOnCourse
<1>0. \A k : SourceStored(k) => SourceStored(k)'
  BY StepAdds, StoredStays
<1>1. ASSUME NEW w \in Workers, NEW m \in Emails, Receive(w, m)
      PROVE  WorkersOnCourse'
  BY <1>0, <1>1 DEF Receive, TypeOK
<1>2. ASSUME NEW w \in Workers, StoreEnvelope(w) PROVE WorkersOnCourse'
  <2> DEFINE e == Envelope(mail[w])
  <2>1. EnvelopeOutcome(e) # "error" => SourceStored(SourceKey(e))'
    BY <1>2 DEF StoreEnvelope, PutEnvelope, EnvelopeOutcome, SourceStored
  <2>2. mail' = mail /\ pc'[w] = "span" => EnvelopeOutcome(e) # "error"
    BY <1>2 DEF StoreEnvelope, TypeOK
  <2>3. \A v \in Workers \ {w} : pc'[v] = pc[v]
    BY <1>2 DEF StoreEnvelope, TypeOK
  <2>4. pc[w] = "envelope" /\ mail' = mail
    BY <1>2 DEF StoreEnvelope
  <2> QED BY <1>0, <2>1, <2>2, <2>3, <2>4
<1>3. ASSUME NEW w \in Workers, StoreSpan(w) \/ Crash(w) PROVE WorkersOnCourse'
  BY <1>0, <1>3 DEF StoreSpan, Crash, TypeOK
<1>4. CASE OtherClient \/ UNCHANGED vars
  BY <1>0, <1>4 DEF OtherClient, vars
<1> QED BY <1>1, <1>2, <1>3, <1>4 DEF Next

\* An ingest returns only when both halves are stored.
LEMMA ReturnedStep ==
    ASSUME EmailInv, [Next]_vars
    PROVE  ReturnedIsStored'
<1> USE DEF EmailInv, ReturnedIsStored
<1>0. /\ \A k : SourceStored(k) => SourceStored(k)'
      /\ \A k : SpanStored(k) => SpanStored(k)'
  BY StepAdds, StoredStays
<1>1. CASE returned' = returned
  BY <1>0, <1>1
<1>2. ASSUME NEW w \in Workers, StoreSpan(w), returned' # returned
      PROVE  ReturnedIsStored'
  <2> DEFINE s == BodySpan(mail[w])
  <2>1. SpanOutcome(s) # "error" /\ returned' = returned \cup {mail[w]} /\ mail' = mail
    BY <1>2 DEF StoreSpan
  <2>2. SpanStored(SpanKey(s))'
    BY <1>2, <2>1 DEF StoreSpan, PutSpan, SpanOutcome, SpanStored
  <2>3. SourceStored(SourceKey(Envelope(mail[w])))
    BY <1>2 DEF StoreSpan, WorkersOnCourse
  <2> SUFFICES ASSUME NEW m \in returned'
               PROVE  SourceStored(SourceKey(Envelope(m)))' /\ SpanStored(SpanKey(BodySpan(m)))'
    OBVIOUS
  <2>4. CASE m \in returned
    BY <1>0, <2>4
  <2>5. CASE m = mail[w]
    BY <1>0, <2>1, <2>2, <2>3, <2>5
  <2> QED BY <2>1, <2>4, <2>5
<1> QED BY <1>1, <1>2 DEF Next, Receive, StoreEnvelope, Crash, OtherClient, vars

\* Every step keeps bodies under envelopes of their own tenant.
LEMMA BodyStep ==
    ASSUME EmailInv, [Next]_vars
    PROVE  BodyUnderOwnEnvelope'
<1> USE DEF EmailInv, BodyUnderOwnEnvelope
<1> SUFFICES ASSUME NEW m \in Emails, SpanStored(SpanKey(BodySpan(m)))'
             PROVE  SourceStored(SourceKey(Envelope(m)))'
  OBVIOUS
<1>0. \A k : SourceStored(k) => SourceStored(k)'
  BY StepAdds, StoredStays
<1>1. SpanStored(SpanKey(BodySpan(m))) => SourceStored(SourceKey(Envelope(m)))'
  BY <1>0
<1>2. CASE spans' = spans
  BY <1>1, <1>2 DEF SpanStored
<1>3. CASE \E w \in Workers : StoreSpan(w)
  BY <1>0, <1>1, <1>3, BodyStored
<1>4. CASE OtherClient
  BY <1>1, <1>4, ClientKeepsBodies DEF OtherClient
<1> QED BY <1>2, <1>3, <1>4
     DEF Next, Receive, StoreEnvelope, PutEnvelope, Crash, vars, evidence

\* The invariant is inductive.
LEMMA EmailStep == EmailInv /\ [Next]_vars => EmailInv'
<1> SUFFICES ASSUME EmailInv, [Next]_vars PROVE EmailInv'
  OBVIOUS
<1>1. KeysUnique'
  BY StepAdds DEF EmailInv, StoredEvidenceStays, KeysUnique, SpanKey
<1> QED BY <1>1, TypeStep, CourseStep, ReturnedStep, BodyStep DEF EmailInv

\* It holds at first, when nothing is stored and nobody works.
LEMMA EmailStart == Init => EmailInv
<1> SUFFICES ASSUME Init PROVE EmailInv
  OBVIOUS
<1> USE DEF Init, EvidenceInit
<1>1. TypeOK
  BY MaxCrashesAssumption DEF TypeOK
<1>2. KeysUnique /\ ReturnedIsStored
  BY DEF KeysUnique, ReturnedIsStored
<1>3. WorkersOnCourse
  BY DEF WorkersOnCourse
<1>4. BodyUnderOwnEnvelope
  BY DEF BodyUnderOwnEnvelope, SpanStored
<1> QED BY <1>1, <1>2, <1>3, <1>4 DEF EmailInv

-----------------------------------------------------------------------------

\* Every state of ingestion is well typed.
THEOREM TypeCorrect == Spec => []TypeOK
<1>1. EmailInv => TypeOK
  BY DEF EmailInv
<1> QED BY <1>1, EmailStart, EmailStep, PTL DEF Spec

\* An ingest that has returned has left envelope and body under the ids of its
\* mail, whatever crashed, was delivered twice or was stored by others.
THEOREM ReturnedMailsAreStored == Spec => []ReturnedIsStored
<1>1. EmailInv => ReturnedIsStored
  BY DEF EmailInv
<1> QED BY <1>1, EmailStart, EmailStep, PTL DEF Spec

\* No body is stored without the envelope of its own tenant, although the
\* foreign key of a span does not look at the tenant.
THEOREM BodiesHaveOwnEnvelope == Spec => []BodyUnderOwnEnvelope
<1>1. EmailInv => BodyUnderOwnEnvelope
  BY DEF EmailInv
<1> QED BY <1>1, EmailStart, EmailStep, PTL DEF Spec

\* No delivery and no client replaces or drops stored evidence.
THEOREM EvidenceIsPreserved == Spec => EvidencePreserved
<1>1. EmailInv /\ [Next]_vars => [StoredEvidenceStays]_vars
  BY StepAdds DEF EmailInv
<1> QED BY <1>1, EmailStart, EmailStep, PTL DEF Spec, EvidencePreserved
=============================================================================
