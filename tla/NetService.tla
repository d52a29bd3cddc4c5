----------------------------- MODULE NetService -----------------------------
(***************************************************************************)
(* The sender of net.http_request_queue.  A timer starts a tick; unless       *)
(* another tick is draining the queue, it reads a batch of requests and       *)
(* sends, records and dequeues one after the other.                          *)
(***************************************************************************)
EXTENDS Integers, FiniteSets

CONSTANTS
    Ids,            \* ids of net.http_request_queue, in the order they are given
    Batch,          \* how many rows a tick reads (20 in the code)
    Ticks,          \* slots for the ticks in progress
    Unrecordable,   \* requests whose reply the response table cannot hold
    MaxFaults,      \* bound on failed queries and restarts
    None

ASSUME IdsAssumption == Ids \subseteq Int /\ Unrecordable \subseteq Ids
ASSUME BoundsAssumption == Batch \in Nat \ {0} /\ MaxFaults \in Nat
ASSUME NoneAssumption == None \notin Ticks

VARIABLES
    asked,      \* history: the requests SQL has enqueued
    queued,     \* net.http_request_queue
    response,   \* net._http_response: the sending each reply answers, or 0
    draining,   \* this.draining
    inFlight,   \* the tick the service remembers: a slot, "settled" or None
    phase,      \* "up" until stop(), then "stopping" and "stopped"
    step,       \* what each tick does next
    batch,      \* the rows each tick has still to deliver
    sends,      \* history: how often each request was sent; 2 means more than once
    faults      \* how many queries failed and how often the process restarted

vars == <<asked, queued, response, draining, inFlight, phase, step, batch, sends, faults>>
tables == <<asked, queued, response>>

TypeOK ==
    /\ asked \subseteq Ids /\ queued \subseteq asked
    /\ response \in [Ids -> 0 .. 2]
    /\ draining \in BOOLEAN
    /\ inFlight \in Ticks \cup {"settled", None}
    /\ phase \in {"up", "stopping", "stopped"}
    /\ step \in [Ticks -> {"free", "select", "send", "insert", "delete"}]
    /\ batch \in [Ticks -> {S \in SUBSET Ids : Cardinality(S) <= Batch}]
    /\ sends \in [Ids -> 0 .. 2]
    /\ faults \in 0 .. MaxFaults

----------------------------------------------------------------------------

Init ==
    /\ asked = {} /\ queued = {}
    /\ response = [q \in Ids |-> 0]
    /\ draining = FALSE
    /\ inFlight = None
    /\ phase = "up"
    /\ step = [t \in Ticks |-> "free"]
    /\ batch = [t \in Ticks |-> {}]
    /\ sends = [q \in Ids |-> 0]
    /\ faults = 0

(* order by id                                                               *)
IsFirst(q, S) == q \in S /\ \A p \in S : q <= p

(* Mutant: one row too many. *)
OneTooMany(S) == {q \in S : Cardinality({p \in S : p < q}) <= Batch}

FirstOnes(S) == {q \in S : Cardinality({p \in S : p < q}) < Batch}

(* net.http_get, net.http_post or net.http_delete.                           *)
Enqueue ==
    /\ \E q \in Ids \ asked :
        /\ asked' = asked \cup {q}
        /\ queued' = queued \cup {q}
    /\ UNCHANGED <<response, draining, inFlight, phase, step, batch, sends, faults>>

(* Mutant: ticks drain at the same time. *)
TickAnyway(t) ==
    /\ phase = "up" /\ step[t] = "free"
    /\ draining' = TRUE
    /\ step' = [step EXCEPT ![t] = "select"]
    /\ inFlight' = t
    /\ UNCHANGED <<tables, phase, batch, sends, faults>>

(* The timer fires; a tick that finds another one draining is over at once.  *)
Tick(t) ==
    /\ phase = "up" /\ step[t] = "free"
    /\ IF draining
         THEN /\ inFlight' = "settled"
              /\ UNCHANGED <<draining, step>>
         ELSE /\ draining' = TRUE
              /\ step' = [step EXCEPT ![t] = "select"]
              /\ inFlight' = t
    /\ UNCHANGED <<tables, phase, batch, sends, faults>>

(* Mutant: the flag is not reset. *)
ContinueForever(t, left) ==
    /\ batch' = [batch EXCEPT ![t] = left]
    /\ step' = [step EXCEPT ![t] = IF left = {} THEN "free" ELSE "send"]
    /\ UNCHANGED draining

(* The loop goes on with the rows left, or the tick ends.                    *)
Continue(t, left) ==
    /\ batch' = [batch EXCEPT ![t] = left]
    /\ step' = [step EXCEPT ![t] = IF left = {} THEN "free" ELSE "send"]
    /\ draining' = (left # {})

Select(t) ==
    /\ step[t] = "select"
    /\ Continue(t, FirstOnes(queued))
    /\ UNCHANGED <<tables, inFlight, phase, sends, faults>>

Goto(t, where) ==
    /\ step' = [step EXCEPT ![t] = where]
    /\ UNCHANGED <<draining, batch>>

(* deliver: a reply, a timeout or an error; all of them are recorded.        *)
Send(t) ==
    /\ step[t] = "send"
    /\ \E q \in batch[t] :
        /\ IsFirst(q, batch[t])
        /\ sends' = [sends EXCEPT ![q] = IF @ = 0 THEN 1 ELSE 2]
    /\ Goto(t, "insert")
    /\ UNCHANGED <<tables, inFlight, phase, faults>>

(* Mutant: the row is dequeued before the reply is recorded. *)
DequeueFirst(t) ==
    /\ step[t] = "insert"
    /\ \E q \in batch[t] :
        /\ IsFirst(q, batch[t])
        /\ queued' = queued \ {q}
    /\ Goto(t, "delete")
    /\ UNCHANGED <<asked, response, inFlight, phase, sends, faults>>

(* record: a response that is there already stays.                           *)
Insert(t) ==
    /\ step[t] = "insert"
    /\ \E q \in batch[t] \ Unrecordable :
        /\ IsFirst(q, batch[t])
        /\ response' = [response EXCEPT ![q] = IF @ = 0 THEN sends[q] ELSE @]
    /\ Goto(t, "delete")
    /\ UNCHANGED <<asked, queued, inFlight, phase, sends, faults>>

Delete(t) ==
    /\ step[t] = "delete"
    /\ \E q \in batch[t] :
        /\ IsFirst(q, batch[t])
        /\ queued' = queued \ {q}
        /\ Continue(t, batch[t] \ {q})
    /\ UNCHANGED <<asked, response, inFlight, phase, sends, faults>>

(* The insert is refused for its content; record leaves the row queued.      *)
Refuse(t) ==
    /\ step[t] = "insert"
    /\ \E q \in batch[t] \cap Unrecordable :
        /\ IsFirst(q, batch[t])
        /\ Continue(t, batch[t] \ {q})
    /\ UNCHANGED <<tables, inFlight, phase, sends, faults>>

Fault == faults < MaxFaults /\ faults' = faults + 1

(* A query fails: a tick without rows ends, a row that is not recorded or    *)
(* not dequeued is left for a later tick.                                    *)
QueryFails(t) ==
    /\ Fault
    /\ \/ step[t] = "select" /\ Continue(t, {})
       \/ /\ step[t] \in {"insert", "delete"}
          /\ \E q \in batch[t] :
                IsFirst(q, batch[t]) /\ Continue(t, batch[t] \ {q})
    /\ UNCHANGED <<tables, inFlight, phase, sends>>

----------------------------------------------------------------------------

(* stop(): no more ticks; then it waits for the one it remembers.            *)
Stop ==
    /\ phase = "up"
    /\ phase' = "stopping"
    /\ UNCHANGED <<tables, draining, inFlight, step, batch, sends, faults>>

Stopped ==
    /\ phase = "stopping"
    /\ inFlight \in Ticks => step[inFlight] = "free"
    /\ phase' = "stopped"
    /\ inFlight' = None
    /\ UNCHANGED <<tables, draining, step, batch, sends, faults>>

(* The process dies at any point and starts again; the tables stay.          *)
Restart ==
    /\ Fault
    /\ draining' = FALSE
    /\ inFlight' = None
    /\ phase' = "up"
    /\ step' = [t \in Ticks |-> "free"]
    /\ batch' = [t \in Ticks |-> {}]
    /\ UNCHANGED <<tables, sends>>

Work(t) == Select(t) \/ Send(t) \/ Insert(t) \/ Delete(t) \/ Refuse(t)

Next ==
    \/ Enqueue
    \/ \E t \in Ticks : Tick(t) \/ Work(t) \/ QueryFails(t)
    \/ Stop \/ Stopped
    \/ Restart

Spec == Init /\ [][Next]_vars

(* The timer keeps firing, queries and fetches settle (a fetch is aborted    *)
(* when its time is over), and stop() goes on when it can.                   *)
FairSpec ==
    /\ Spec
    /\ \A t \in Ticks : WF_vars(Work(t))
    /\ WF_vars(\E t \in Ticks : Tick(t) /\ ~draining)
    /\ WF_vars(Stopped)

----------------------------------------------------------------------------
(* Properties.                                                               *)

(* A request leaves the queue only with its reply recorded, at whatever      *)
(* point a query fails or the process dies.                                  *)
NothingLost == \A q \in asked \ queued : response[q] # 0

(* Only a fault makes a request go out more than once, except one whose      *)
(* reply cannot be recorded.                                                 *)
SentTwiceOnlyAfterFault == \A q \in Ids \ Unrecordable : sends[q] > 1 => faults > 0

(* A queued request that fewer than a batch of older unrecordable ones are     *)
(* before is answered and dequeued, unless the service is stopped.  A refused *)
(* row stays at the head of the queue and takes its place in every batch, so *)
(* behind a whole batch of them a request is never read.                     *)
RefusedBefore(q) == {u \in Unrecordable : u < q}
EveryRequestAnswered ==
    \A q \in Ids \ Unrecordable : Cardinality(RefusedBefore(q)) < Batch =>
        (q \in queued ~> (q \notin queued /\ response[q] # 0) \/ phase # "up")

============================================================================
