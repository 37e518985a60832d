---------------------------- MODULE WorkflowStore ----------------------------
(***************************************************************************)
(* The workflow endpoints and PostgresWorkflowRepository: the whole state  *)
(* of a case is read with GET and overwritten with PUT, an unconditional   *)
(* upsert.  The callers are outside the repository: workers, each on a     *)
(* case, which load the state, perform a step, checkpoint it, and after a  *)
(* failure start again from what is stored.  A PUT is handled by one of    *)
(* several replicas, so a resent one may be handled before the first.      *)
(***************************************************************************)
EXTENDS Naturals

CONSTANTS
    Cases,          \* <<tenant_id, case_id>> of the cases at work
    Workers, case_of,   \* the workers, and the case of each
    MaxSteps,       \* the steps of a case
    MisaddressedPuts,   \* PUTs whose body belongs to another path
    Overtaking,     \* may a worker act before its earlier PUT has ended?
    MaxFailures,    \* bound: timeouts and crashes of each worker
    None

ASSUME WorkflowAssumption ==
    /\ MaxSteps \in Nat \ {0} /\ MaxFailures \in [Workers -> Nat]
    /\ Overtaking \in BOOLEAN
    /\ case_of \in [Workers -> Cases]
    /\ \A c \in Cases : c = <<c[1], c[2]>>

VARIABLES
    workflow,       \* the row of workflow_state of each case, or None
    puts,           \* the PUTs that the replicas have yet to execute
    pc, held,       \* what each worker does next, and the state it holds
    failures,       \* how often each worker timed out or crashed
    acknowledged,   \* history: the most steps a 200 was received for
    performed       \* history: how many steps were performed, repeated ones too

workers == <<pc, held, failures, acknowledged, performed>>

vars == <<workflow, puts, workers>>

\* completed_steps stands for the columns a checkpoint carries along.
State(c, n) == [tenant_id |-> c[1], case_id |-> c[2], completed_steps |-> n]

CaseOf(state) == <<state.tenant_id, state.case_id>>

Completed(c) == IF workflow[c] = None THEN 0 ELSE workflow[c].completed_steps

ASSUME NoneAssumption ==
    \A c \in Cases, n \in 0..MaxSteps : None # State(c, n)

\* Whoever confuses two cases is none of the workers.
ASSUME MisaddressedAssumption ==
    \A p \in MisaddressedPuts : p.worker \notin Workers /\ CaseOf(p.state) # p.path

\* A worker that does not overtake acts when none of its PUTs is under way.
Settled(w) == Overtaking \/ \A p \in puts : p.worker # w

\* The PUT that a worker waits for.
Awaited(p) ==
    /\ p.worker \in Workers
    /\ pc[p.worker] = "wait"
    /\ p.attempt = failures[p.worker]

-----------------------------------------------------------------------------

Init ==
    /\ workflow = [c \in Cases |-> None]
    /\ puts = {}
    /\ pc = [w \in Workers |-> "start"]
    /\ held = [w \in Workers |-> None]
    /\ failures = [w \in Workers |-> 0]
    /\ acknowledged = [w \in Workers |-> 0]
    /\ performed = [w \in Workers |-> 0]

\* GET; on 404 the worker starts from the beginning.
Get(w) ==
    /\ pc[w] = "start"
    /\ Settled(w)
    /\ LET n == Completed(case_of[w]) IN
       /\ held' = [held EXCEPT ![w] = State(case_of[w], n)]
       /\ pc' = [pc EXCEPT ![w] = IF n = MaxSteps THEN "done" ELSE "work"]
    /\ UNCHANGED <<workflow, puts, failures, acknowledged, performed>>

PerformStep(w) ==
    /\ pc[w] = "work"
    /\ pc' = [pc EXCEPT ![w] = "send"]
    /\ held' = [held EXCEPT ![w].completed_steps = @ + 1]
    /\ performed' = [performed EXCEPT ![w] = @ + 1]
    /\ UNCHANGED <<workflow, puts, failures, acknowledged>>

Send(w) ==
    /\ pc[w] = "send"
    /\ pc' = [pc EXCEPT ![w] = "wait"]
    /\ puts' = puts \cup
          {[path |-> case_of[w], state |-> held[w], worker |-> w, attempt |-> failures[w]]}
    /\ UNCHANGED <<workflow, held, failures, acknowledged, performed>>

\* Faulty variants of Upsert: the steps appended to those already stored; DO
\* NOTHING on conflict, as the other repositories have it.
UpsertAppending(state) ==
    workflow' = [workflow EXCEPT ![CaseOf(state)] =
        [state EXCEPT !.completed_steps = @ + Completed(CaseOf(state))]]

UpsertNothing(state) ==
    workflow' = [workflow EXCEPT ![CaseOf(state)] = IF @ = None THEN state ELSE @]

Upsert(state) == workflow' = [workflow EXCEPT ![CaseOf(state)] = state]

\* The 200 reaches the worker that waits for it, or is lost.
Respond(p) ==
    \/ /\ Awaited(p)
       /\ acknowledged' = [acknowledged EXCEPT ![p.worker] = p.state.completed_steps]
       /\ pc' = [pc EXCEPT ![p.worker] =
                    IF p.state.completed_steps = MaxSteps THEN "done" ELSE "work"]
       /\ UNCHANGED <<held, failures, performed>>
    \/ /\ Awaited(p) => failures[p.worker] < MaxFailures[p.worker]
       /\ UNCHANGED workers

\* A faulty HandlePut: it does not compare the body with the path.
HandlePutUnchecked(p) ==
    /\ puts' = puts \ {p}
    /\ Upsert(p.state)
    /\ Respond(p)

\* put_workflow: 400 unless tenant and case match the path, else upsert and 200.
HandlePut(p) ==
    /\ puts' = puts \ {p}
    /\ IF CaseOf(p.state) = p.path
       THEN Upsert(p.state) /\ Respond(p)
       ELSE UNCHANGED <<workflow, workers>>

\* The replica dies before the commit.
LosePut(p) ==
    /\ puts' = puts \ {p}
    /\ Awaited(p) => failures[p.worker] < MaxFailures[p.worker]
    /\ UNCHANGED <<workflow, workers>>

\* No answer in time: the same state is sent again.
TimeOut(w) ==
    /\ pc[w] = "wait"
    /\ failures[w] < MaxFailures[w]
    /\ Settled(w)
    /\ failures' = [failures EXCEPT ![w] = @ + 1]
    /\ pc' = [pc EXCEPT ![w] = "send"]
    /\ UNCHANGED <<workflow, puts, held, acknowledged, performed>>

\* The worker dies; its PUT may still be on its way.
Crash(w) ==
    /\ pc[w] \in {"work", "send", "wait"}
    /\ failures[w] < MaxFailures[w]
    /\ failures' = [failures EXCEPT ![w] = @ + 1]
    /\ pc' = [pc EXCEPT ![w] = "start"]
    /\ held' = [held EXCEPT ![w] = None]
    /\ UNCHANGED <<workflow, puts, acknowledged, performed>>

\* Some client confuses two cases.
Misaddress(p) ==
    /\ puts' = puts \cup {p}
    /\ UNCHANGED <<workflow, workers>>

Next ==
    \/ \E w \in Workers : Get(w) \/ PerformStep(w) \/ Send(w) \/ TimeOut(w) \/ Crash(w)
    \/ \E p \in puts : HandlePut(p) \/ LosePut(p)
    \/ \E p \in MisaddressedPuts : Misaddress(p)

\* Replicas handle what they accepted, a worker goes on or is restarted, and
\* gives up waiting: the deployment restarts what died, timeouts are bounded.
Fairness ==
    \A w \in Workers :
        /\ WF_vars(Get(w)) /\ WF_vars(PerformStep(w)) /\ WF_vars(Send(w))
        /\ WF_vars(TimeOut(w))
        /\ WF_vars(\E p \in puts : p.worker = w /\ HandlePut(p))

Spec == Init /\ [][Next]_vars

FairSpec == Spec /\ Fairness

-----------------------------------------------------------------------------

TypeOK ==
    /\ workflow \in [Cases -> {State(c, n) : c \in Cases, n \in 1..MaxSteps} \cup {None}]
    /\ \A p \in puts \ MisaddressedPuts :
          p.path = case_of[p.worker] /\ p.attempt \in 0..MaxFailures[p.worker]
    /\ pc \in [Workers -> {"start", "work", "send", "wait", "done"}]
    /\ held \in [Workers -> {State(c, n) : c \in Cases, n \in 0..MaxSteps} \cup {None}]
    /\ failures \in [Workers -> Nat]
    /\ \A w \in Workers : failures[w] <= MaxFailures[w]
    /\ acknowledged \in [Workers -> 0..MaxSteps]
    /\ performed \in [Workers -> Nat]

WorkersOn(c) == {w \in Workers : case_of[w] = c}

Alone(w) == WorkersOn(case_of[w]) = {w}

\* A worker alone on its case keeps each checkpoint, whatever fails after: what
\* it loads when restarted is at least what it was told is stored.
OwnCheckpointKept ==
    \A w \in Workers : Alone(w) => acknowledged[w] <= Completed(case_of[w])

\* Workers that share a case overwrite each other, but as long as none of them
\* failed, what is stored is at least what one of them was told.
OneCheckpointKept ==
    \A c \in Cases :
        WorkersOn(c) # {} /\ (\A w \in WorkersOn(c) : failures[w] = 0) =>
            \E w \in WorkersOn(c) : acknowledged[w] <= Completed(c)

\* An acknowledged checkpoint is not taken back, as far as a worker can rely on it.
CheckpointsDurable == OwnCheckpointKept /\ OneCheckpointKept

\* A failure costs at most the step in hand: a worker alone on its case repeats
\* steps no more often than it failed.
RestartRepeatsLittle ==
    \A w \in Workers :
        Alone(w) => performed[w] <= Completed(case_of[w]) + failures[w] + 1

\* The row of a case holds that case's state, and is written only by a PUT to
\* its own path.
WrittenByOwnPut ==
    \A c \in Cases :
        workflow'[c] # workflow[c] =>
            /\ CaseOf(workflow'[c]) = c
            /\ \E p \in puts \ puts' : p.path = c /\ p.state = workflow'[c]

CasesApart == [][WrittenByOwnPut]_vars

\* Every case comes to its end and what is stored says so, even after workers that
\* share it have overwritten each other's checkpoints.
CaseCompletes == \A c \in Cases : <>[](Completed(c) = MaxSteps)
=============================================================================
