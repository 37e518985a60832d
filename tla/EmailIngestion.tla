--------------------------- MODULE EmailIngestion ---------------------------
(***************************************************************************)
(* EmailIngestionService.ingest, run by several workers over the same      *)
(* evidence tables: parse, store the envelope in one transaction, store    *)
(* the body as a span in a second one.  A worker may die between the two;  *)
(* the caller may deliver a mail again, or deliver another copy of it.     *)
(* A header or an identifier is a sequence of tokens.                      *)
(***************************************************************************)
EXTENDS EvidenceStore, Naturals, Sequences

CONSTANTS
    Workers,
    Tokens,     \* what names, message ids and texts are made of
    Emails,     \* [tenant_id, message_id, raw, body]; <<>> where a part is missing
    MaxCrashes  \* bound: how many workers die

ASSUME MaxCrashesAssumption == MaxCrashes \in Nat

ASSUME EmailsAssumption ==
    /\ {":", "body"} \subseteq Tokens
    /\ \A m \in Emails : {m.tenant_id, m.message_id, m.body} \subseteq Seq(Tokens)

VARIABLES
    pc,         \* what each worker does next
    mail,       \* the mail it works on
    answer,     \* how its last ingest ended
    returned,   \* history: the mails some ingest has returned for
    crashes

vars == <<evidence, pc, mail, answer, returned, crashes>>

\* uuid5 of "tenant:message-id": as good as the string itself.
SourceId(m) == m.tenant_id \o <<":">> \o m.message_id

SpanId(m) == SourceId(m) \o <<"body">>

Envelope(m) ==
    [tenant_id |-> m.tenant_id, source_id |-> SourceId(m), checksum |-> m.raw]

BodySpan(m) ==
    [tenant_id |-> m.tenant_id, span_id |-> SpanId(m), source_id |-> SourceId(m),
     text |-> m.body]

\* Span ids are made up by whoever posts a span; those of bodies are ingest's.
ASSUME BodySpanIdsAssumption ==
    \A s \in Spans, m \in Emails : SpanKey(s) # SpanKey(BodySpan(m))

\* reconstruct_thread_key and _extract_body raise before anything is stored; so
\* do the validators of EvidenceEnvelope, on an over-long message id for instance.
Readable(m) == m.message_id # <<>> /\ m.body # <<>>

-----------------------------------------------------------------------------

Init ==
    /\ EvidenceInit
    /\ pc = [w \in Workers |-> "idle"]
    /\ mail = [w \in Workers |-> <<>>]
    /\ answer = [w \in Workers |-> "none"]
    /\ returned = {}
    /\ crashes = 0

\* A faulty Receive: it stores what it cannot read.
ReceiveUnchecked(w, m) ==
    /\ pc[w] = "idle"
    /\ pc' = [pc EXCEPT ![w] = "envelope"]
    /\ mail' = [mail EXCEPT ![w] = m]
    /\ answer' = [answer EXCEPT ![w] = "none"]
    /\ UNCHANGED <<evidence, returned, crashes>>

\* ingest is called and parses the mail.
Receive(w, m) ==
    /\ pc[w] = "idle"
    /\ pc' = [pc EXCEPT ![w] = IF Readable(m) THEN "envelope" ELSE "idle"]
    /\ mail' = [mail EXCEPT ![w] = m]
    /\ answer' = [answer EXCEPT ![w] = IF Readable(m) THEN "none" ELSE "rejected"]
    /\ UNCHANGED <<evidence, returned, crashes>>

\* A faulty StoreEnvelope: it goes on to the span after an IntegrityError.
StoreEnvelopeSwallowing(w) ==
    /\ pc[w] = "envelope"
    /\ PutEnvelope(Envelope(mail[w]))
    /\ pc' = [pc EXCEPT ![w] = "span"]
    /\ UNCHANGED <<mail, answer, returned, crashes>>

\* Another faulty one: it takes a duplicate envelope for a finished ingest.
StoreEnvelopeSkipping(w) ==
    LET outcome == EnvelopeOutcome(Envelope(mail[w])) IN
    /\ pc[w] = "envelope"
    /\ PutEnvelope(Envelope(mail[w]))
    /\ pc' = [pc EXCEPT ![w] = IF outcome = "created" THEN "span" ELSE "idle"]
    /\ answer' = [answer EXCEPT ![w] = IF outcome = "error" THEN "error" ELSE "none"]
    /\ returned' = IF outcome = "duplicate" THEN returned \cup {mail[w]} ELSE returned
    /\ UNCHANGED <<mail, crashes>>

\* Whether the row was new is not looked at; an error ends the ingest.
StoreEnvelope(w) ==
    LET failed == EnvelopeOutcome(Envelope(mail[w])) = "error" IN
    /\ pc[w] = "envelope"
    /\ PutEnvelope(Envelope(mail[w]))
    /\ pc' = [pc EXCEPT ![w] = IF failed THEN "idle" ELSE "span"]
    /\ answer' = [answer EXCEPT ![w] = IF failed THEN "error" ELSE "none"]
    /\ UNCHANGED <<mail, returned, crashes>>

StoreSpan(w) ==
    LET failed == SpanOutcome(BodySpan(mail[w])) = "error" IN
    /\ pc[w] = "span"
    /\ PutSpan(BodySpan(mail[w]))
    /\ pc' = [pc EXCEPT ![w] = "idle"]
    /\ answer' = [answer EXCEPT ![w] = IF failed THEN "error" ELSE "returned"]
    /\ returned' = IF failed THEN returned ELSE returned \cup {mail[w]}
    /\ UNCHANGED <<mail, crashes>>

\* The process or its connection dies; what was committed stays.
Crash(w) ==
    /\ pc[w] # "idle"
    /\ crashes < MaxCrashes
    /\ pc' = [pc EXCEPT ![w] = "idle"]
    /\ answer' = [answer EXCEPT ![w] = "error"]
    /\ crashes' = crashes + 1
    /\ UNCHANGED <<evidence, mail, returned>>

\* Other clients write the same tables.
OtherClient ==
    /\ EvidenceNext
    /\ UNCHANGED <<pc, mail, answer, returned, crashes>>

Next ==
    \/ \E w \in Workers :
          \/ \E m \in Emails : Receive(w, m)
          \/ StoreEnvelope(w)
          \/ StoreSpan(w)
          \/ Crash(w)
    \/ OtherClient

\* A worker that is not dead goes on, and a mail whose ingest has not returned
\* is delivered again: the callers of ingest have to do that, the code does not.
Fairness ==
    /\ \A w \in Workers : WF_vars(StoreEnvelope(w)) /\ WF_vars(StoreSpan(w))
    /\ \A m \in Emails :
          SF_vars(m \notin returned /\ \E w \in Workers : Receive(w, m))

Spec == Init /\ [][Next]_vars

FairSpec == Spec /\ Fairness

-----------------------------------------------------------------------------

TypeOK ==
    /\ sources \subseteq Envelopes \cup {Envelope(m) : m \in Emails}
    /\ spans \subseteq Spans \cup {BodySpan(m) : m \in Emails}
    /\ embeddings \subseteq Embeddings
    /\ pc \in [Workers -> {"idle", "envelope", "span"}]
    /\ mail \in [Workers -> Emails \cup {<<>>}]
    /\ answer \in [Workers -> {"none", "returned", "rejected", "error"}]
    /\ returned \subseteq {m \in Emails : Readable(m)}
    /\ crashes \in 0..MaxCrashes

\* An ingest that returned has left both halves, under the ids the caller can
\* compute, whoever stored them and however often the mail was delivered.
ReturnedIsStored ==
    \A m \in returned :
        SourceStored(SourceKey(Envelope(m))) /\ SpanStored(SpanKey(BodySpan(m)))

\* The body of a mail never hangs under the envelope of another tenant, even
\* when two tenants' names and message ids join to one source id.
BodyUnderOwnEnvelope ==
    \A m \in Emails :
        SpanStored(SpanKey(BodySpan(m))) => SourceStored(SourceKey(Envelope(m)))

\* Raw evidence is preserved: no delivery replaces or drops what is stored, and
\* no id has two rows.
StoredEvidenceStays ==
    /\ sources \subseteq sources' /\ spans \subseteq spans'
    /\ embeddings \subseteq embeddings'
    /\ \A r, s \in spans' : SpanKey(r) = SpanKey(s) => r = s
    /\ \A r, s \in sources' : r.source_id = s.source_id => r = s

EvidencePreserved == [][StoredEvidenceStays]_vars

\* A mail left half stored by a dead worker is completed by a later delivery.
HalfStored(m) ==
    SourceStored(SourceKey(Envelope(m))) /\ ~SpanStored(SpanKey(BodySpan(m)))

HalfStoredIsRepaired ==
    \A m \in Emails : Readable(m) => (HalfStored(m) ~> ~HalfStored(m))
=============================================================================
