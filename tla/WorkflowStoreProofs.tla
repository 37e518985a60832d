------------------------ MODULE WorkflowStoreProofs ------------------------
(***************************************************************************)
(* Proofs about the workflow endpoints, for any number of cases, workers   *)
(* and steps and any bound on the failures of each worker.                 *)
(***************************************************************************)
EXTENDS WorkflowStore, TLAPS

\* The states of a case that are worth a checkpoint.
Checkpoints(c) == {State(c, n) : n \in 1..MaxSteps}

\* What a worker sends.
PutsOf(w) ==
    [path : {case_of[w]}, state : Checkpoints(case_of[w]),
     worker : {w}, attempt : 0..failures[w]]

\* What a worker holds: nothing, or the state of its case.
HeldAsDue(w) ==
    LET states(m, n) == {State(case_of[w], i) : i \in m..n} IN
    /\ pc[w] = "work" => held[w] \in states(0, MaxSteps - 1)
    /\ pc[w] \in {"send", "wait"} => held[w] \in states(1, MaxSteps)
    /\ held[w] \in states(0, MaxSteps) \cup {None}

\* Types, and what every PUT under way is: misaddressed, or a checkpoint of its
\* worker's case, and if the worker has not failed since, the one it waits for.
PutAsDue(p) ==
    \/ p \in MisaddressedPuts
    \/ /\ p.worker \in Workers
       /\ p \in PutsOf(p.worker)
       /\ p.attempt = failures[p.worker] =>
             pc[p.worker] = "wait" /\ p.state = held[p.worker]

TypeInv ==
    /\ TypeOK
    /\ \A c \in Cases : workflow[c] \in Checkpoints(c) \cup {None}
    /\ \A w \in Workers : HeldAsDue(w)
    /\ \A p \in puts : PutAsDue(p)

\* Without overtaking, a worker has one PUT under way at most, and that while it
\* waits for it or after it died waiting.
OnePut ==
    /\ \A p, q \in puts : p.worker = q.worker /\ p.worker \in Workers => p = q
    /\ \A p \in puts : p.worker \in Workers =>
          \/ pc[p.worker] = "start"
          \/ pc[p.worker] = "wait" /\ p.attempt = failures[p.worker]

\* What is stored for a worker alone on its case is the state it works from, and
\* whatever is under way takes it one step further.
StoredIsRecent(w) ==
    LET stored == Completed(case_of[w]) IN
    /\ acknowledged[w] <= stored
    /\ \A p \in puts : p.worker = w =>
          p.state.completed_steps \in {stored, stored + 1}
    /\ pc[w] = "work" => held[w].completed_steps = stored
    /\ pc[w] \in {"send", "wait"} => held[w].completed_steps \in {stored, stored + 1}

\* Steps are repeated only after a failure.
StepsCounted(w) ==
    /\ pc[w] \in {"work", "send", "wait"} =>
          performed[w] <= held[w].completed_steps + failures[w]
    /\ pc[w] \in {"start", "done"} =>
          performed[w] <= Completed(case_of[w]) + failures[w]

\* A worker that never failed never goes back behind what it was told.
NoStepBack(w) ==
    /\ \A p \in puts : p.worker = w => acknowledged[w] <= p.state.completed_steps
    /\ pc[w] \in {"work", "send", "wait"} =>
          acknowledged[w] <= held[w].completed_steps
    /\ pc[w] = "start" => acknowledged[w] = 0

SettledInv ==
    /\ TypeInv
    /\ OnePut
    /\ \A w \in Workers : Alone(w) => StoredIsRecent(w) /\ StepsCounted(w)
    /\ \A w \in Workers : failures[w] = 0 => NoStepBack(w)
    /\ OneCheckpointKept

\* A state says which case it is of.
LEMMA StateFacts ==
    ASSUME NEW c \in Cases, NEW n
    PROVE  /\ CaseOf(State(c, n)) = c
           /\ State(c, n).completed_steps = n
           /\ n \in 0..MaxSteps => State(c, n) # None
<1>1. c = <<c[1], c[2]>>
  BY WorkflowAssumption
<1>2. CaseOf(State(c, n)) = <<c[1], c[2]>>
  BY DEF CaseOf, State
<1>3. State(c, n).completed_steps = n
  BY DEF State
<1> QED BY <1>1, <1>2, <1>3, NoneAssumption

\* One more step makes the next state of the case.
LEMMA NextState ==
    ASSUME NEW c \in Cases, NEW n
    PROVE  [State(c, n) EXCEPT !.completed_steps = @ + 1] = State(c, n + 1)
BY DEF State

\* The number of completed steps of a case.
LEMMA CompletedType ==
    ASSUME TypeInv, NEW c \in Cases
    PROVE  /\ Completed(c) \in 0..MaxSteps
           /\ workflow[c] # None => workflow[c] = State(c, Completed(c))
<1>1. CASE workflow[c] = None
  BY <1>1, WorkflowAssumption DEF Completed
<1>2. CASE workflow[c] # None
  <2>1. PICK n \in 1..MaxSteps : workflow[c] = State(c, n)
    BY <1>2 DEF TypeInv, Checkpoints
  <2> QED BY <1>2, <2>1, StateFacts, WorkflowAssumption DEF Completed
<1> QED BY <1>1, <1>2

\* A worker at work holds a state of its case and knows how far it is.
LEMMA HeldFacts ==
    ASSUME TypeInv, NEW w \in Workers, pc[w] \in {"work", "send", "wait"}
    PROVE  /\ held[w] = State(case_of[w], held[w].completed_steps)
           /\ held[w].completed_steps \in 0..MaxSteps
           /\ pc[w] = "work" => held[w].completed_steps < MaxSteps
           /\ pc[w] \in {"send", "wait"} => held[w].completed_steps >= 1
<1>0. case_of[w] \in Cases
  BY WorkflowAssumption
<1>1. CASE pc[w] = "work"
  <2>1. PICK n \in 0..(MaxSteps - 1) : held[w] = State(case_of[w], n)
    BY <1>1 DEF TypeInv, HeldAsDue
  <2> QED BY <1>0, <1>1, <2>1, StateFacts, WorkflowAssumption
<1>2. CASE pc[w] \in {"send", "wait"}
  <2>1. PICK n \in 1..MaxSteps : held[w] = State(case_of[w], n)
    BY <1>2 DEF TypeInv, HeldAsDue
  <2> QED BY <1>0, <1>2, <2>1, StateFacts, WorkflowAssumption
<1> QED BY <1>1, <1>2

\* The PUT of a worker carries a checkpoint of its case.
LEMMA PutFacts ==
    ASSUME TypeInv, NEW p \in puts, p.worker \in Workers
    PROVE  LET w == p.worker IN
           /\ p.path = case_of[w] /\ CaseOf(p.state) = case_of[w]
           /\ p.state.completed_steps \in 1..MaxSteps
           /\ p.state \in Checkpoints(case_of[w])
           /\ p.state # None
           /\ p.attempt \in 0..failures[w]
           /\ p.attempt = failures[w] => pc[w] = "wait" /\ p.state = held[w]
<1> DEFINE w == p.worker
<1>0. case_of[w] \in Cases
  BY WorkflowAssumption
<1>1. p \notin MisaddressedPuts
  BY MisaddressedAssumption
<1>2. p \in PutsOf(w) /\ (p.attempt = failures[w] => pc[w] = "wait" /\ p.state = held[w])
  BY <1>1 DEF TypeInv, PutAsDue
<1>3. PICK n \in 1..MaxSteps : p.state = State(case_of[w], n)
  BY <1>2 DEF PutsOf, Checkpoints
<1>4. p.path = case_of[w] /\ p.attempt \in 0..failures[w]
  BY <1>2 DEF PutsOf
<1>5. /\ p.state \in Checkpoints(case_of[w]) /\ p.state # None
      /\ CaseOf(p.state) = case_of[w] /\ p.state.completed_steps \in 1..MaxSteps
  BY <1>0, <1>3, StateFacts, WorkflowAssumption DEF Checkpoints
<1> QED BY <1>2, <1>4, <1>5

\* A handled PUT changes a row only if it is a worker's, and then to what that
\* worker sent.
LEMMA HandleFacts ==
    ASSUME TypeInv, NEW p \in puts, HandlePut(p)
    PROVE  \/ UNCHANGED <<workflow, workers>>
           \/ /\ p.worker \in Workers
              /\ workflow' = [workflow EXCEPT ![case_of[p.worker]] = p.state]
              /\ Respond(p)
<1>1. CASE CaseOf(p.state) # p.path
  BY <1>1 DEF HandlePut
<1>2. CASE CaseOf(p.state) = p.path
  <2>1. p.worker \in Workers
    BY <1>2, MisaddressedAssumption DEF TypeInv, PutAsDue
  <2> QED BY <1>2, <2>1, PutFacts DEF HandlePut, Upsert
<1> QED BY <1>1, <1>2

-----------------------------------------------------------------------------

\* A worker that fails waits for none of its PUTs any more.
LEMMA OldPuts ==
    ASSUME TypeOK, NEW q \in puts, PutAsDue(q), NEW w \in Workers,
           failures' = [failures EXCEPT ![w] = @ + 1],
           \A v \in Workers \ {w} : pc'[v] = pc[v] /\ held'[v] = held[v]
    PROVE  PutAsDue(q)'
<1>0. \A v \in Workers : failures[v] \in Nat
  BY DEF TypeOK
<1>1. CASE q.worker \in Workers \ {w}
  <2>1. failures'[q.worker] = failures[q.worker]
    BY <1>1 DEF TypeOK
  <2> QED BY <1>1, <2>1 DEF PutAsDue, PutsOf
<1>2. CASE q.worker = w /\ q \in PutsOf(w)
  <2>1. failures'[w] = failures[w] + 1
    BY DEF TypeOK
  <2>2. q.attempt \in 0..failures[w] /\ q \in PutsOf(w)'
    BY <1>0, <1>2, <2>1 DEF PutsOf
  <2> QED BY <1>0, <1>2, <2>1, <2>2 DEF PutAsDue
<1> QED BY <1>1, <1>2 DEF PutAsDue

\* Every step of a worker keeps the types.
LEMMA WorkerTypes ==
    ASSUME TypeInv, NEW w \in Workers,
           Get(w) \/ PerformStep(w) \/ Send(w) \/ TimeOut(w) \/ Crash(w)
    PROVE  TypeInv'
<1> DEFINE c == case_of[w]
<1>0. c \in Cases /\ MaxSteps \in Nat \ {0} /\ MaxFailures \in [Workers -> Nat]
  BY WorkflowAssumption
<1>a. TypeOK /\ \A p \in puts : PutAsDue(p)
  BY DEF TypeInv
<1>b. workflow' = workflow
  BY DEF Get, PerformStep, Send, TimeOut, Crash
<1>1. CASE Get(w)
  <2>1. Completed(c) \in 0..MaxSteps
    BY <1>0, CompletedType
  <2>2. HeldAsDue(w)'
    <3>1. held'[w] = State(c, Completed(c))
          /\ pc'[w] = IF Completed(c) = MaxSteps THEN "done" ELSE "work"
      BY <1>1, <1>a DEF Get, TypeOK
    <3>2. pc'[w] = "work" => Completed(c) \in 0..(MaxSteps - 1)
      BY <1>0, <2>1, <3>1
    <3> QED BY <2>1, <3>1, <3>2 DEF HeldAsDue
  <2>3. \A v \in Workers \ {w} : HeldAsDue(v)'
    BY <1>1, <1>a DEF Get, HeldAsDue, TypeOK, TypeInv
  <2>4. \A p \in puts' : PutAsDue(p)'
    BY <1>1, <1>a DEF Get, PutAsDue, PutsOf, TypeOK
  <2>5. TypeOK'
    BY <1>0, <1>1, <1>a, <2>1 DEF Get, TypeOK
  <2> QED BY <1>b, <2>2, <2>3, <2>4, <2>5 DEF TypeInv
<1>2. CASE PerformStep(w)
  <2> DEFINE n == held[w].completed_steps
  <2>1. held[w] = State(c, n) /\ n \in 0..(MaxSteps - 1)
    BY <1>0, <1>2, HeldFacts DEF PerformStep
  <2>2. held'[w] = State(c, n + 1) /\ n + 1 \in 1..MaxSteps
    BY <1>0, <1>2, <1>a, <2>1, NextState DEF PerformStep, TypeOK
  <2>3. HeldAsDue(w)'
    BY <1>0, <1>2, <1>a, <2>2 DEF PerformStep, HeldAsDue, TypeOK
  <2>4. \A v \in Workers \ {w} : HeldAsDue(v)'
    BY <1>2, <1>a DEF PerformStep, HeldAsDue, TypeOK, TypeInv
  <2>5. \A p \in puts' : PutAsDue(p)'
    BY <1>2, <1>a DEF PerformStep, PutAsDue, PutsOf, TypeOK
  <2>6. held' \in [Workers -> {State(d, i) : d \in Cases, i \in 0..MaxSteps} \cup {None}]
    <3>1. held' = [held EXCEPT ![w] = State(c, n + 1)]
      BY <1>2, <2>2 DEF PerformStep
    <3> QED BY <1>0, <1>a, <2>2, <3>1 DEF TypeOK
  <2>7. TypeOK'
    BY <1>2, <1>a, <2>6 DEF PerformStep, TypeOK
  <2> QED BY <1>b, <2>3, <2>4, <2>5, <2>7 DEF TypeInv
<1>3. CASE Send(w)
  <2> DEFINE p == [path |-> c, state |-> held[w], worker |-> w, attempt |-> failures[w]]
  <2>1. held[w] \in Checkpoints(c)
    BY <1>3 DEF Send, TypeInv, HeldAsDue, Checkpoints
  <2>2. PutAsDue(p)'
    BY <1>3, <1>a, <2>1 DEF Send, PutAsDue, PutsOf, TypeOK
  <2>3. \A v \in Workers : HeldAsDue(v)'
    BY <1>3, <1>a DEF Send, HeldAsDue, TypeOK, TypeInv
  <2>4. \A q \in puts : PutAsDue(q)'
    BY <1>3, <1>a DEF Send, PutAsDue, PutsOf, TypeOK
  <2>5. TypeOK'
    BY <1>3, <1>a DEF Send, TypeOK
  <2> QED BY <1>3, <1>b, <2>2, <2>3, <2>4, <2>5 DEF Send, TypeInv
<1>4. CASE TimeOut(w)
  <2>1. \A v \in Workers : HeldAsDue(v)'
    BY <1>4, <1>a DEF TimeOut, HeldAsDue, TypeOK, TypeInv
  <2>2. \A q \in puts : PutAsDue(q)'
    <3>1. failures' = [failures EXCEPT ![w] = @ + 1]
          /\ \A v \in Workers \ {w} : pc'[v] = pc[v] /\ held'[v] = held[v]
      BY <1>4, <1>a DEF TimeOut, TypeOK
    <3> QED BY <1>a, <3>1, OldPuts
  <2>3. TypeOK'
    BY <1>0, <1>4, <1>a DEF TimeOut, TypeOK
  <2> QED BY <1>4, <1>b, <2>1, <2>2, <2>3 DEF TimeOut, TypeInv
<1>5. CASE Crash(w)
  <2>1. \A v \in Workers : HeldAsDue(v)'
    BY <1>5, <1>a DEF Crash, HeldAsDue, TypeOK, TypeInv
  <2>2. \A q \in puts : PutAsDue(q)'
    <3>1. failures' = [failures EXCEPT ![w] = @ + 1]
          /\ \A v \in Workers \ {w} : pc'[v] = pc[v] /\ held'[v] = held[v]
      BY <1>5, <1>a DEF Crash, TypeOK
    <3> QED BY <1>a, <3>1, OldPuts
  <2>3. TypeOK'
    BY <1>0, <1>5, <1>a DEF Crash, TypeOK
  <2> QED BY <1>5, <1>b, <2>1, <2>2, <2>3 DEF Crash, TypeInv
<1> QED BY <1>1, <1>2, <1>3, <1>4, <1>5

\* A worker waits for one PUT only.
LEMMA OneAwaited ==
    ASSUME TypeInv, NEW p \in puts, NEW q \in puts, p.worker \in Workers,
           p.worker = q.worker, p.attempt = failures[p.worker], q.attempt = p.attempt
    PROVE  p = q
<1>1. p \in PutsOf(p.worker) /\ q \in PutsOf(p.worker) /\ p.state = q.state
  BY MisaddressedAssumption DEF TypeInv, PutAsDue
<1> QED BY <1>1 DEF PutsOf

\* Handling or losing a PUT keeps the types, and so does a misaddressed one.
LEMMA PutTypes ==
    ASSUME TypeInv,
           \/ \E p \in puts : HandlePut(p) \/ LosePut(p)
           \/ \E p \in MisaddressedPuts : Misaddress(p)
    PROVE  TypeInv'
<1>a. TypeOK /\ \A p \in puts : PutAsDue(p)
  BY DEF TypeInv
<1>1. CASE puts' \subseteq puts \cup MisaddressedPuts /\ UNCHANGED <<workflow, workers>>
  <2>1. TypeOK' /\ \A w \in Workers : HeldAsDue(w)'
    BY <1>1 DEF TypeInv, TypeOK, HeldAsDue, workers
  <2>2. \A q \in puts' : PutAsDue(q)'
    BY <1>1, <1>a DEF PutAsDue, PutsOf, workers
  <2> QED BY <1>1, <2>1, <2>2 DEF TypeInv
<1>2. ASSUME NEW p \in puts, HandlePut(p), p.worker \in Workers, Respond(p),
             workflow' = [workflow EXCEPT ![case_of[p.worker]] = p.state]
      PROVE  TypeInv'
  <2> DEFINE w == p.worker
  <2>0. case_of[w] \in Cases /\ MaxSteps \in Nat
        /\ p.state \in Checkpoints(case_of[w])
        /\ p.state.completed_steps \in 1..MaxSteps
        /\ puts' = puts \ {p}
    BY <1>2, PutFacts, WorkflowAssumption DEF HandlePut
  <2>1. \A c \in Cases : workflow'[c] \in Checkpoints(c) \cup {None}
    BY <1>2, <1>a, <2>0 DEF TypeInv, TypeOK
  <2>2. workflow' \in [Cases -> {State(c, n) : c \in Cases, n \in 1..MaxSteps} \cup {None}]
    BY <1>2, <1>a, <2>0 DEF TypeOK, Checkpoints
  <2>3. CASE UNCHANGED workers
    <3>1. TypeOK' /\ \A v \in Workers : HeldAsDue(v)'
      BY <2>0, <2>2, <2>3, <1>a DEF TypeInv, TypeOK, HeldAsDue, workers
    <3>2. \A q \in puts' : PutAsDue(q)'
      BY <2>0, <2>3, <1>a DEF PutAsDue, PutsOf, workers
    <3> QED BY <2>1, <3>1, <3>2 DEF TypeInv
  <2>4. CASE Awaited(p)
             /\ acknowledged' = [acknowledged EXCEPT ![w] = p.state.completed_steps]
             /\ pc' = [pc EXCEPT ![w] =
                   IF p.state.completed_steps = MaxSteps THEN "done" ELSE "work"]
             /\ UNCHANGED <<held, failures, performed>>
    <3>1. p.state = held[w] /\ p.attempt = failures[w]
      BY <1>2, <2>4, PutFacts DEF Awaited
    <3>2. TypeOK'
      BY <1>2, <1>a, <2>0, <2>2, <2>4 DEF TypeOK
    <3>3. HeldAsDue(w)'
      <4>1. PICK n \in 1..MaxSteps : p.state = State(case_of[w], n)
        BY <2>0 DEF Checkpoints
      <4>2. p.state.completed_steps = n
        BY <2>0, <4>1, StateFacts
      <4>3. pc'[w] = (IF n = MaxSteps THEN "done" ELSE "work")
            /\ held'[w] = State(case_of[w], n)
        BY <1>2, <1>a, <2>4, <3>1, <4>1, <4>2 DEF TypeOK
      <4>4. n \in 0..MaxSteps /\ (pc'[w] = "work" => n \in 0..(MaxSteps - 1))
        BY <2>0, <4>3
      <4> QED BY <4>3, <4>4 DEF HeldAsDue
    <3>4. \A v \in Workers \ {w} : HeldAsDue(v)'
      BY <1>2, <1>a, <2>4 DEF TypeInv, TypeOK, HeldAsDue
    <3>5. ASSUME NEW q \in puts' PROVE PutAsDue(q)'
      <4>1. q \in puts /\ q # p /\ PutAsDue(q)
        BY <1>a, <2>0
      <4>2. q.worker = w => q.attempt # failures[w]
        BY <1>2, <3>1, <4>1, OneAwaited
      <4> QED BY <1>a, <2>4, <4>1, <4>2 DEF PutAsDue, PutsOf, TypeOK
    <3> QED BY <2>1, <3>2, <3>3, <3>4, <3>5 DEF TypeInv
  <2> QED BY <1>2, <2>3, <2>4 DEF Respond
<1>3. ASSUME NEW p \in puts, HandlePut(p) PROVE TypeInv'
  <2>1. puts' \subseteq puts
    BY <1>3 DEF HandlePut
  <2> QED BY <1>1, <1>2, <1>3, <2>1, HandleFacts
<1> QED BY <1>1, <1>3 DEF LosePut, Misaddress

\* Every step keeps the types.
LEMMA TypeStep == TypeInv /\ [Next]_vars => TypeInv'
<1> SUFFICES ASSUME TypeInv, [Next]_vars PROVE TypeInv'
  OBVIOUS
<1>1. CASE UNCHANGED vars
  <2>1. TypeOK' /\ \A w \in Workers : HeldAsDue(w)'
    BY <1>1 DEF TypeInv, TypeOK, HeldAsDue, vars, workers
  <2>2. \A q \in puts' : PutAsDue(q)'
    BY <1>1 DEF TypeInv, PutAsDue, PutsOf, vars, workers
  <2> QED BY <1>1, <2>1, <2>2 DEF TypeInv, vars
<1> QED BY <1>1, WorkerTypes, PutTypes DEF Next

\* At first no case has a row, and no worker a state.
LEMMA TypeStart == Init => TypeInv
BY WorkflowAssumption DEF Init, TypeInv, TypeOK, HeldAsDue

\* Every state of the workflow endpoints is well typed, and no row holds more
\* than the steps of a case; overtaking PUTs do not matter for this.
THEOREM TypeCorrect == Spec => []TypeOK
<1>1. TypeInv => TypeOK
  BY DEF TypeInv
<1> QED BY <1>1, TypeStart, TypeStep, PTL DEF Spec

\* A step changes a row only as a PUT to its own path says.
LEMMA OwnPutOnly ==
    ASSUME TypeInv, [Next]_vars
    PROVE  WrittenByOwnPut
<1>1. CASE workflow' = workflow
  BY <1>1 DEF WrittenByOwnPut
<1>2. ASSUME NEW p \in puts, HandlePut(p), CaseOf(p.state) = p.path, Upsert(p.state)
      PROVE  WrittenByOwnPut
  <2>1. p \in puts \ puts'
    BY <1>2 DEF HandlePut
  <2> QED BY <1>2, <2>1 DEF Upsert, WrittenByOwnPut, TypeInv, TypeOK
<1> QED BY <1>1, <1>2
     DEF Next, Get, PerformStep, Send, TimeOut, Crash, Misaddress, LosePut, HandlePut, vars

\* The rows of cases are kept apart: each changes only by a PUT to its own path.
THEOREM CasesAreApart == Spec => CasesApart
<1>1. TypeInv /\ [Next]_vars => [WrittenByOwnPut]_vars
  BY OwnPutOnly
<1> QED BY <1>1, TypeStart, TypeStep, PTL DEF Spec, CasesApart

-----------------------------------------------------------------------------

\* Nothing of a worker changes, but its PUTs may be handled.
Same(w) ==
    /\ pc'[w] = pc[w] /\ held'[w] = held[w] /\ failures'[w] = failures[w]
    /\ acknowledged'[w] = acknowledged[w] /\ performed'[w] = performed[w]
    /\ \A p \in puts' : p.worker = w => p \in puts

\* A worker acts on its own state only.
LEMMA OthersLeave ==
    ASSUME TypeInv, NEW v \in Workers, NEW w \in Workers \ {v},
           Get(v) \/ PerformStep(v) \/ Send(v) \/ TimeOut(v) \/ Crash(v)
    PROVE  Same(w)
<1> USE DEF TypeInv, TypeOK, Same
<1>1. CASE Get(v) \/ PerformStep(v)
  BY <1>1 DEF Get, PerformStep
<1>2. CASE Send(v)
  BY <1>2 DEF Send
<1>3. CASE TimeOut(v) \/ Crash(v)
  BY <1>3 DEF TimeOut, Crash
<1> QED BY <1>1, <1>2, <1>3

\* A PUT that is executed makes its state the row of its worker's case.
LEMMA Executed ==
    ASSUME TypeInv, NEW p \in puts, p.worker \in Workers,
           workflow' = [workflow EXCEPT ![case_of[p.worker]] = p.state]
    PROVE  /\ Completed(case_of[p.worker])' = p.state.completed_steps
           /\ \A c \in Cases \ {case_of[p.worker]} : Completed(c)' = Completed(c)
<1>1. p.state # None /\ case_of[p.worker] \in Cases
  BY PutFacts, WorkflowAssumption
<1>2. workflow'[case_of[p.worker]] = p.state
  BY <1>1 DEF TypeInv, TypeOK
<1>3. \A c \in Cases \ {case_of[p.worker]} : workflow'[c] = workflow[c]
  BY DEF TypeInv, TypeOK
<1> QED BY <1>1, <1>2, <1>3 DEF Completed

\* What a PUT does to the workers: nothing, or the one that waits for it goes on.
LEMMA PutEffect ==
    ASSUME TypeInv, NEW p \in puts, HandlePut(p) \/ LosePut(p)
    PROVE  /\ puts' = puts \ {p}
           /\ \A w \in Workers : w # p.worker => Same(w)
           /\ \/ UNCHANGED <<workflow, workers>>
              \/ /\ p.worker \in Workers
                 /\ workflow' = [workflow EXCEPT ![case_of[p.worker]] = p.state]
                 /\ \/ UNCHANGED workers
                    \/ LET w == p.worker IN
                       /\ pc[w] = "wait" /\ p.attempt = failures[w] /\ p.state = held[w]
                       /\ acknowledged'[w] = p.state.completed_steps
                       /\ pc'[w] \in {"work", "done"}
                       /\ UNCHANGED <<held, failures, performed>>
<1>0. puts' = puts \ {p}
  BY DEF HandlePut, LosePut
<1>1. CASE UNCHANGED <<workflow, workers>>
  BY <1>0, <1>1 DEF Same, workers
<1>2. CASE p.worker \in Workers /\ Respond(p)
             /\ workflow' = [workflow EXCEPT ![case_of[p.worker]] = p.state]
  <2>1. CASE UNCHANGED workers
    BY <1>0, <1>2, <2>1 DEF Same, workers
  <2>2. CASE /\ Awaited(p)
             /\ acknowledged' = [acknowledged EXCEPT ![p.worker] = p.state.completed_steps]
             /\ pc' = [pc EXCEPT ![p.worker] =
                   IF p.state.completed_steps = MaxSteps THEN "done" ELSE "work"]
             /\ UNCHANGED <<held, failures, performed>>
    <3>1. \A w \in Workers : w # p.worker => Same(w)
      BY <1>0, <2>2 DEF Same, TypeInv, TypeOK
    <3>2. /\ acknowledged'[p.worker] = p.state.completed_steps
          /\ pc'[p.worker] \in {"work", "done"}
      BY <1>2, <2>2 DEF TypeInv, TypeOK
    <3>3. pc[p.worker] = "wait" /\ p.attempt = failures[p.worker] /\ p.state = held[p.worker]
      BY <1>2, <2>2, PutFacts DEF Awaited
    <3> QED BY <1>0, <1>2, <2>2, <3>1, <3>2, <3>3
  <2> QED BY <1>2, <2>1, <2>2 DEF Respond
<1> QED BY <1>1, <1>2, HandleFacts DEF LosePut

\* Without overtaking there stays one PUT of a worker under way at most.
LEMMA OnePutStep ==
    ASSUME ~Overtaking, TypeInv, OnePut, [Next]_vars
    PROVE  OnePut'
<1> USE DEF OnePut
<1>a. \A p \in puts : p.worker \in Workers => p.attempt <= failures[p.worker]
                                              /\ failures[p.worker] \in Nat
                                              /\ p.attempt \in Nat
  BY PutFacts DEF TypeInv, TypeOK
<1>1. ASSUME NEW w \in Workers, Get(w) \/ TimeOut(w) PROVE OnePut'
  <2>1. puts' = puts /\ \A p \in puts : p.worker # w
    BY <1>1 DEF Get, TimeOut, Settled
  <2>2. \A v \in Workers \ {w} : Same(v)
    BY <1>1, OthersLeave
  <2> QED BY <2>1, <2>2 DEF Same
<1>2. ASSUME NEW w \in Workers, PerformStep(w) PROVE OnePut'
  <2>1. puts' = puts /\ \A p \in puts : p.worker # w
    BY <1>2 DEF PerformStep
  <2>2. \A v \in Workers \ {w} : Same(v)
    BY <1>2, OthersLeave
  <2> QED BY <2>1, <2>2 DEF Same
<1>3. ASSUME NEW w \in Workers, Send(w) PROVE OnePut'
  <2> DEFINE p == [path |-> case_of[w], state |-> held[w], worker |-> w, attempt |-> failures[w]]
  <2>1. puts' = puts \cup {p} /\ \A q \in puts : q.worker # w
    BY <1>3 DEF Send
  <2>2. \A v \in Workers \ {w} : Same(v)
    BY <1>3, OthersLeave
  <2>3. pc'[w] = "wait" /\ p.attempt = failures'[w]
    BY <1>3 DEF Send, TypeInv, TypeOK
  <2>4. p.worker = w
    OBVIOUS
  <2> HIDE DEF p
  <2> QED BY <2>1, <2>2, <2>3, <2>4 DEF Same
<1>4. ASSUME NEW w \in Workers, Crash(w) PROVE OnePut'
  <2>1. puts' = puts /\ pc'[w] = "start"
    BY <1>4 DEF Crash, TypeInv, TypeOK
  <2>2. \A v \in Workers \ {w} : Same(v)
    BY <1>4, OthersLeave
  <2> QED BY <2>1, <2>2 DEF Same
<1>5. ASSUME NEW p \in puts, HandlePut(p) \/ LosePut(p) PROVE OnePut'
  <2>1. puts' = puts \ {p} /\ \A w \in Workers : w # p.worker => Same(w)
    BY <1>5, PutEffect
  <2> QED BY <2>1 DEF Same
<1>6. ASSUME NEW p \in MisaddressedPuts, Misaddress(p) PROVE OnePut'
  BY <1>6, MisaddressedAssumption DEF Misaddress, workers
<1>7. CASE UNCHANGED vars
  BY <1>7 DEF vars, workers
<1> QED BY <1>1, <1>2, <1>3, <1>4, <1>5, <1>6, <1>7 DEF Next

\* The numbers that the invariants compare.
LEMMA NumberTypes ==
    ASSUME TypeInv, NEW w \in Workers
    PROVE  /\ case_of[w] \in Cases /\ Completed(case_of[w]) \in Nat
           /\ acknowledged[w] \in Nat /\ performed[w] \in Nat /\ failures[w] \in Nat
           /\ pc[w] \in {"work", "send", "wait"} => held[w].completed_steps \in Nat
           /\ \A p \in puts : p.worker = w => p.state.completed_steps \in Nat
<1>0. case_of[w] \in Cases /\ MaxSteps \in Nat
  BY WorkflowAssumption
<1> QED BY <1>0, CompletedType, HeldFacts, PutFacts DEF TypeInv, TypeOK

\* The effect of a worker's own steps on the numbers.
LEMMA OwnSteps ==
    ASSUME ~Overtaking, TypeInv, OnePut, NEW w \in Workers
    PROVE  /\ Get(w) =>
                 /\ held'[w].completed_steps = Completed(case_of[w])
                 /\ pc'[w] \in {"work", "done"} /\ failures'[w] = failures[w]
                 /\ pc[w] = "start" /\ puts' = puts /\ \A p \in puts : p.worker # w
           /\ PerformStep(w) =>
                 /\ held'[w].completed_steps = held[w].completed_steps + 1
                 /\ performed'[w] = performed[w] + 1
                 /\ pc[w] = "work" /\ pc'[w] = "send" /\ failures'[w] = failures[w]
                 /\ puts' = puts /\ \A p \in puts : p.worker # w
           /\ TimeOut(w) =>
                 /\ pc[w] = "wait" /\ pc'[w] = "send" /\ failures'[w] = failures[w] + 1
                 /\ held' = held /\ puts' = puts /\ \A p \in puts : p.worker # w
           /\ Crash(w) =>
                 /\ pc[w] \in {"work", "send", "wait"} /\ pc'[w] = "start"
                 /\ failures'[w] = failures[w] + 1 /\ puts' = puts
           /\ Send(w) =>
                 /\ pc[w] = "send" /\ pc'[w] = "wait" /\ UNCHANGED <<held, failures>>
                 /\ \A p \in puts' : p.worker = w => p.state = held[w]
<1>0. /\ case_of[w] \in Cases
      /\ pc[w] = "work" => held[w] = State(case_of[w], held[w].completed_steps)
  BY HeldFacts, WorkflowAssumption
<1> USE DEF TypeInv, TypeOK
<1>1. ASSUME Get(w) PROVE held'[w].completed_steps = Completed(case_of[w])
  <2>1. held'[w] = State(case_of[w], Completed(case_of[w]))
    BY <1>1 DEF Get
  <2> QED BY <2>1, StateFacts, NumberTypes
<1>2. ASSUME PerformStep(w)
      PROVE  held'[w].completed_steps = held[w].completed_steps + 1
  <2> DEFINE n == held[w].completed_steps
  <2>1. held[w] = State(case_of[w], n) /\ case_of[w] \in Cases
    BY <1>0, <1>2 DEF PerformStep
  <2>2. held'[w] = State(case_of[w], n + 1)
    BY <1>2, <2>1, NextState DEF PerformStep
  <2> QED BY <2>1, <2>2, StateFacts
<1>3. pc[w] \in {"work", "send"} => \A p \in puts : p.worker # w
  BY DEF OnePut
<1>4. Send(w) => \A p \in puts' : p.worker = w => p.state = held[w]
  BY <1>3 DEF Send
<1>5. (Get(w) \/ TimeOut(w)) => \A p \in puts : p.worker # w
  BY DEF Get, TimeOut, Settled
<1>6. Get(w) => /\ pc'[w] \in {"work", "done"} /\ failures'[w] = failures[w]
                /\ pc[w] = "start" /\ puts' = puts
  BY DEF Get
<1>7. PerformStep(w) => /\ performed'[w] = performed[w] + 1
                        /\ pc[w] = "work" /\ pc'[w] = "send" /\ failures'[w] = failures[w]
                        /\ puts' = puts
  BY DEF PerformStep
<1>8. TimeOut(w) => /\ pc[w] = "wait" /\ pc'[w] = "send" /\ failures'[w] = failures[w] + 1
                    /\ held' = held /\ puts' = puts
  BY DEF TimeOut
<1>9. Crash(w) => /\ pc[w] \in {"work", "send", "wait"} /\ pc'[w] = "start"
                  /\ failures'[w] = failures[w] + 1 /\ puts' = puts
  BY DEF Crash
<1>10. Send(w) => pc[w] = "send" /\ pc'[w] = "wait" /\ UNCHANGED <<held, failures>>
  BY DEF Send
<1> QED BY <1>1, <1>2, <1>3, <1>4, <1>5, <1>6, <1>7, <1>8, <1>9, <1>10

\* A worker's step tells nobody anything, and only PerformStep does work.
LEMMA WorkerSilent ==
    ASSUME NEW w \in Workers,
           Get(w) \/ PerformStep(w) \/ Send(w) \/ TimeOut(w) \/ Crash(w)
    PROVE  /\ workflow' = workflow /\ acknowledged' = acknowledged
           /\ \A c \in Cases : Completed(c)' = Completed(c)
           /\ ~PerformStep(w) => performed' = performed
BY DEF Get, PerformStep, Send, TimeOut, Crash, Completed

\* A case with one worker is changed by that worker's PUTs only.
LEMMA AloneUndisturbed ==
    ASSUME TypeInv, NEW w \in Workers, Alone(w), NEW p \in puts, p.worker # w,
           HandlePut(p) \/ LosePut(p)
    PROVE  Completed(case_of[w])' = Completed(case_of[w])
<1>1. CASE workflow' = workflow
  BY <1>1 DEF Completed
<1>2. CASE p.worker \in Workers /\ workflow' = [workflow EXCEPT ![case_of[p.worker]] = p.state]
  <2>1. case_of[w] \in Cases \ {case_of[p.worker]}
    BY <1>2, WorkflowAssumption DEF Alone, WorkersOn
  <2> QED BY <1>2, <2>1, Executed
<1> QED BY <1>1, <1>2, PutEffect

\* The worker alone on its case stays at most one step ahead of the store.
LEMMA RecentStep ==
    ASSUME ~Overtaking, TypeInv, OnePut, [Next]_vars,
           NEW w \in Workers, Alone(w), StoredIsRecent(w), StepsCounted(w)
    PROVE  StoredIsRecent(w)' /\ StepsCounted(w)'
<1> DEFINE c == case_of[w]
<1>0. /\ c \in Cases /\ Completed(c) \in Nat /\ acknowledged[w] \in Nat
      /\ performed[w] \in Nat /\ failures[w] \in Nat
      /\ pc[w] \in {"work", "send", "wait"} => held[w].completed_steps \in Nat
      /\ \A p \in puts : p.worker = w => p.state.completed_steps \in Nat
  BY NumberTypes
<1> USE DEF StoredIsRecent, StepsCounted
<1>1. CASE Same(w) /\ Completed(c)' = Completed(c)
  BY <1>1 DEF Same
<1>2. CASE Get(w)
  BY <1>0, <1>2, OwnSteps, WorkerSilent DEF PerformStep
<1>3. CASE PerformStep(w)
  BY <1>0, <1>3, OwnSteps, WorkerSilent
<1>4. CASE Send(w)
  BY <1>0, <1>4, OwnSteps, WorkerSilent DEF PerformStep
<1>5. CASE TimeOut(w)
  BY <1>0, <1>5, OwnSteps, WorkerSilent DEF PerformStep
<1>6. CASE Crash(w)
  BY <1>0, <1>6, OwnSteps, WorkerSilent DEF PerformStep
<1>7. ASSUME NEW p \in puts, HandlePut(p) \/ LosePut(p), p.worker = w
      PROVE  StoredIsRecent(w)' /\ StepsCounted(w)'
  <2>1. puts' = puts \ {p} /\ \A q \in puts' : q.worker # w
    BY <1>7, PutEffect DEF OnePut
  <2>2. CASE UNCHANGED <<workflow, workers>>
    BY <2>1, <2>2 DEF Completed, workers
  <2>3. ASSUME workflow' = [workflow EXCEPT ![c] = p.state]
        PROVE  Completed(c)' = p.state.completed_steps
    BY <1>7, <2>3, Executed
  <2>4. CASE workflow' = [workflow EXCEPT ![c] = p.state] /\ UNCHANGED workers
    <3>1. pc[w] \in {"start", "wait"} /\ (pc[w] = "wait" => p.state = held[w])
      BY <1>7, PutFacts DEF OnePut
    <3>2. UNCHANGED <<pc, held, failures, acknowledged, performed>>
      BY <2>4 DEF workers
    <3> QED BY <1>0, <1>7, <2>1, <2>3, <2>4, <3>1, <3>2
  <2>5. CASE /\ workflow' = [workflow EXCEPT ![c] = p.state]
             /\ pc[w] = "wait" /\ p.state = held[w]
             /\ acknowledged'[w] = p.state.completed_steps
             /\ pc'[w] \in {"work", "done"}
             /\ UNCHANGED <<held, failures, performed>>
    BY <1>0, <1>7, <2>1, <2>3, <2>5
  <2> QED BY <1>7, <2>2, <2>4, <2>5, PutEffect
<1>8. ASSUME NEW p \in puts, HandlePut(p) \/ LosePut(p), p.worker # w
      PROVE  StoredIsRecent(w)' /\ StepsCounted(w)'
  BY <1>1, <1>8, PutEffect, AloneUndisturbed
<1>9. ASSUME NEW v \in Workers \ {w},
             Get(v) \/ PerformStep(v) \/ Send(v) \/ TimeOut(v) \/ Crash(v)
      PROVE  StoredIsRecent(w)' /\ StepsCounted(w)'
  BY <1>0, <1>1, <1>9, OthersLeave, WorkerSilent
<1>10. ASSUME NEW p \in MisaddressedPuts, Misaddress(p)
       PROVE  StoredIsRecent(w)' /\ StepsCounted(w)'
  BY <1>1, <1>10, MisaddressedAssumption DEF Misaddress, workers, Same, Completed
<1>11. CASE UNCHANGED vars
  BY <1>1, <1>11 DEF vars, workers, Same, Completed
<1> QED BY <1>2, <1>3, <1>4, <1>5, <1>6, <1>7, <1>8, <1>9, <1>10, <1>11 DEF Next

\* A worker that never failed keeps going forward.
LEMMA ForwardStep ==
    ASSUME ~Overtaking, TypeInv, OnePut, [Next]_vars,
           NEW w \in Workers, failures'[w] = 0, failures[w] = 0 => NoStepBack(w)
    PROVE  NoStepBack(w)'
<1>0. /\ acknowledged[w] \in Nat /\ failures[w] \in Nat
      /\ pc[w] \in {"work", "send", "wait"} => held[w].completed_steps \in Nat
      /\ \A p \in puts : p.worker = w => p.state.completed_steps \in Nat
      /\ case_of[w] \in Cases /\ Completed(case_of[w]) \in Nat
  BY NumberTypes
<1>1. CASE Same(w)
  BY <1>1 DEF Same, NoStepBack
<1>2. CASE Get(w) \/ PerformStep(w) \/ Send(w) \/ TimeOut(w) \/ Crash(w)
  <2>1. failures[w] = 0 /\ ~TimeOut(w) /\ ~Crash(w)
    BY <1>0, <1>2, OwnSteps
  <2>2. acknowledged' = acknowledged
    BY <1>2, WorkerSilent
  <2>3. CASE Get(w)
    BY <1>0, <2>1, <2>2, <2>3, OwnSteps DEF NoStepBack
  <2>4. CASE PerformStep(w)
    BY <1>0, <2>1, <2>2, <2>4, OwnSteps DEF NoStepBack
  <2>5. CASE Send(w)
    BY <1>0, <2>1, <2>2, <2>5, OwnSteps DEF NoStepBack
  <2> QED BY <1>2, <2>1, <2>3, <2>4, <2>5
<1>3. ASSUME NEW p \in puts, HandlePut(p) \/ LosePut(p), p.worker = w
      PROVE  NoStepBack(w)'
  <2>1. puts' = puts \ {p} /\ \A q \in puts' : q.worker # w
    BY <1>3, PutEffect DEF OnePut
  <2>2. CASE UNCHANGED workers
    BY <2>1, <2>2 DEF workers, NoStepBack
  <2>3. CASE /\ pc[w] = "wait" /\ p.state = held[w]
             /\ acknowledged'[w] = p.state.completed_steps
             /\ pc'[w] \in {"work", "done"}
             /\ UNCHANGED <<held, failures, performed>>
    BY <1>0, <1>3, <2>1, <2>3 DEF NoStepBack
  <2> QED BY <1>3, <2>2, <2>3, PutEffect
<1>4. ASSUME NEW p \in puts, HandlePut(p) \/ LosePut(p), p.worker # w
      PROVE  NoStepBack(w)'
  BY <1>1, <1>4, PutEffect
<1>5. ASSUME NEW v \in Workers \ {w},
             Get(v) \/ PerformStep(v) \/ Send(v) \/ TimeOut(v) \/ Crash(v)
      PROVE  NoStepBack(w)'
  BY <1>1, <1>5, OthersLeave
<1>6. ASSUME NEW p \in MisaddressedPuts, Misaddress(p) PROVE NoStepBack(w)'
  BY <1>1, <1>6, MisaddressedAssumption DEF Misaddress, workers, Same
<1>7. CASE UNCHANGED vars
  BY <1>1, <1>7 DEF vars, workers, Same
<1> QED BY <1>2, <1>3, <1>4, <1>5, <1>6, <1>7 DEF Next

\* Failures are never forgotten.
LEMMA FailuresStay ==
    ASSUME TypeInv, [Next]_vars, NEW w \in Workers, failures'[w] = 0
    PROVE  failures[w] = 0
<1>0. failures[w] \in Nat
  BY DEF TypeInv, TypeOK
<1> QED BY <1>0
     DEF Next, Get, PerformStep, Send, TimeOut, Crash, Misaddress, LosePut, HandlePut,
         Respond, workers, vars, TypeInv, TypeOK

\* The worker that wrote last was told no more than it wrote.
LEMMA KeptStep ==
    ASSUME ~Overtaking, TypeInv, OnePut, [Next]_vars, OneCheckpointKept,
           \A w \in Workers : failures[w] = 0 => NoStepBack(w)
    PROVE  OneCheckpointKept'
<1> SUFFICES ASSUME NEW c \in Cases, WorkersOn(c) # {},
                    \A w \in WorkersOn(c) : failures'[w] = 0
             PROVE  \E w \in WorkersOn(c) : acknowledged'[w] <= Completed(c)'
  BY DEF OneCheckpointKept, WorkersOn
<1>0. WorkersOn(c) \subseteq Workers /\ \A w \in WorkersOn(c) : failures[w] = 0
  BY FailuresStay DEF WorkersOn
<1>1. PICK w \in WorkersOn(c) : acknowledged[w] <= Completed(c)
  BY <1>0 DEF OneCheckpointKept
<1>2. CASE acknowledged'[w] = acknowledged[w] /\ Completed(c)' = Completed(c)
  BY <1>1, <1>2
<1>3. CASE \E v \in Workers : Get(v) \/ PerformStep(v) \/ Send(v) \/ TimeOut(v) \/ Crash(v)
  BY <1>2, <1>3, WorkerSilent
<1>4. ASSUME NEW p \in puts, HandlePut(p) \/ LosePut(p)
      PROVE  \E v \in WorkersOn(c) : acknowledged'[v] <= Completed(c)'
  <2> DEFINE v == p.worker
  <2>1. CASE UNCHANGED <<workflow, workers>>
    BY <1>2, <2>1 DEF Completed, workers
  <2>2. ASSUME v \in Workers, workflow' = [workflow EXCEPT ![case_of[v]] = p.state],
               case_of[v] # c
        PROVE  acknowledged'[w] = acknowledged[w] /\ Completed(c)' = Completed(c)
    <3>1. v # w /\ w \in Workers
      BY <1>0, <1>1, <2>2 DEF WorkersOn
    <3> QED BY <1>4, <2>2, <3>1, Executed, PutEffect DEF Same
  <2>3. ASSUME v \in Workers, workflow' = [workflow EXCEPT ![case_of[v]] = p.state],
               case_of[v] = c
        PROVE  v \in WorkersOn(c) /\ acknowledged'[v] <= Completed(c)'
    <3>1. Completed(c)' = p.state.completed_steps /\ p.state.completed_steps \in Nat
      BY <2>3, Executed, NumberTypes
    <3>2. acknowledged[v] <= p.state.completed_steps
      BY <1>0, <2>3 DEF NoStepBack, WorkersOn
    <3>3. acknowledged'[v] \in {acknowledged[v], p.state.completed_steps}
      BY <1>4, PutEffect, <2>3 DEF workers
    <3> QED BY <2>3, <3>1, <3>2, <3>3 DEF WorkersOn
  <2> QED BY <1>2, <1>4, <2>1, <2>2, <2>3, PutEffect
<1>5. CASE \E p \in MisaddressedPuts : Misaddress(p)
  BY <1>2, <1>5 DEF Misaddress, workers, Completed
<1>6. CASE UNCHANGED vars
  BY <1>2, <1>6 DEF vars, workers, Completed
<1> QED BY <1>3, <1>4, <1>5, <1>6 DEF Next

\* The invariant of workers that do not overtake is inductive.
LEMMA SettledStep == ~Overtaking /\ SettledInv /\ [Next]_vars => SettledInv'
<1> SUFFICES ASSUME ~Overtaking, SettledInv, [Next]_vars PROVE SettledInv'
  OBVIOUS
<1>0. /\ TypeInv /\ OnePut /\ OneCheckpointKept
      /\ \A w \in Workers : Alone(w) => StoredIsRecent(w) /\ StepsCounted(w)
      /\ \A w \in Workers : failures[w] = 0 => NoStepBack(w)
  BY DEF SettledInv
<1>1. TypeInv' /\ OnePut' /\ OneCheckpointKept'
  BY <1>0, TypeStep, OnePutStep, KeptStep
<1>2. \A w \in Workers : Alone(w) => StoredIsRecent(w)' /\ StepsCounted(w)'
  BY <1>0, RecentStep
<1>3. \A w \in Workers : failures'[w] = 0 => NoStepBack(w)'
  BY <1>0, ForwardStep
<1> QED BY <1>1, <1>2, <1>3 DEF SettledInv, Alone, WorkersOn

\* It holds at first.
LEMMA SettledStart == Init => SettledInv
<1> SUFFICES ASSUME Init PROVE SettledInv
  OBVIOUS
<1>0. TypeInv /\ \A w \in Workers : case_of[w] \in Cases
  BY TypeStart, WorkflowAssumption
<1>1. OnePut
  BY DEF Init, OnePut
<1>2. \A c \in Cases : Completed(c) = 0
  BY DEF Init, Completed
<1>3. \A w \in Workers : StoredIsRecent(w) /\ StepsCounted(w) /\ NoStepBack(w)
  BY <1>0, <1>2 DEF Init, StoredIsRecent, StepsCounted, NoStepBack
<1>4. OneCheckpointKept
  BY <1>2 DEF Init, OneCheckpointKept, WorkersOn
<1> QED BY <1>0, <1>1, <1>3, <1>4 DEF SettledInv

\* Without overtaking, what a worker alone on its case was told is stored stays
\* stored, through any failures, late PUTs and lost answers; and workers that
\* share a case and never failed do not lose the checkpoints of all of them.
THEOREM CheckpointsAreDurable ==
    ASSUME ~Overtaking
    PROVE  Spec => []CheckpointsDurable
<1>1. SettledInv => CheckpointsDurable
  <2>1. SettledInv => OwnCheckpointKept
    BY DEF SettledInv, StoredIsRecent, OwnCheckpointKept
  <2>2. SettledInv => OneCheckpointKept
    BY DEF SettledInv
  <2> QED BY <2>1, <2>2 DEF CheckpointsDurable
<1>2. SettledInv /\ [Next]_vars => SettledInv'
  BY SettledStep
<1> QED BY <1>1, <1>2, SettledStart, PTL DEF Spec

\* Without overtaking, a restart costs a worker alone on its case the step in
\* hand at most.
THEOREM RestartsRepeatLittle ==
    ASSUME ~Overtaking
    PROVE  Spec => []RestartRepeatsLittle
<1>1. SettledInv => RestartRepeatsLittle
  <2> SUFFICES ASSUME SettledInv, NEW w \in Workers, Alone(w)
               PROVE  performed[w] <= Completed(case_of[w]) + failures[w] + 1
    BY DEF RestartRepeatsLittle
  <2>1. TypeInv /\ StoredIsRecent(w) /\ StepsCounted(w)
    BY DEF SettledInv
  <2>2. pc[w] \in {"start", "work", "send", "wait", "done"}
    BY <2>1 DEF TypeInv, TypeOK
  <2> QED BY <2>1, <2>2, NumberTypes DEF StoredIsRecent, StepsCounted
<1>2. SettledInv /\ [Next]_vars => SettledInv'
  BY SettledStep
<1> QED BY <1>1, <1>2, SettledStart, PTL DEF Spec
=============================================================================
