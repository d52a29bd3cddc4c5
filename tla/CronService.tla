---------------------------- MODULE CronService ----------------------------
(***************************************************************************)
(* The scheduler of cron.job.  A timer starts a tick; a tick reads the       *)
(* active jobs, takes the time, and runs and logs the due ones one after the *)
(* other.  Every query waits its turn on the one database connection, and    *)
(* the timer does not wait for the previous tick.                            *)
(***************************************************************************)
EXTENDS Integers, Sequences, FiniteSets

CONSTANTS
    Jobs,           \* jobids
    Period,         \* Period[j]: seconds of an "N seconds" job, 0 for cron fields
    Matching,       \* Matching[j]: the minutes the cron fields of j match
    Ticks,          \* slots for the ticks in progress
    MaxRestarts,    \* bound on the restarts of the process
    MinuteLength,   \* seconds in a minute
    MaxTime,        \* bound on the clock
    None

Times == 0 .. MaxTime
MinuteOf(t) == t \div MinuteLength
Minutes == 0 .. MinuteOf(MaxTime)

ASSUME ClockAssumption == MinuteLength \in Nat \ {0} /\ MaxTime \in Nat
ASSUME JobsAssumption == Period \in [Jobs -> Nat] /\ Matching \in [Jobs -> SUBSET Minutes]
ASSUME BoundAssumption == MaxRestarts \in Nat
ASSUME NoneAssumption == None \notin Ticks \cup Int

VARIABLES
    time,           \* the clock
    active,         \* the active rows of cron.job
    phase,          \* "up" until stop(), then "stopping" and "stopped"
    inFlight,       \* the latest tick, or None
    queue,          \* ticks with a query at the database, in turn
    step,           \* what each tick waits for
    now,            \* the time each tick took
    rest,           \* the jobs each tick has still to look at
    lastRun,        \* when each job was last run, or None
    lastMinute,     \* the minute each job was last run for, or None
    runs,           \* history: how often each job was started for each minute
    owed,           \* history: the jobs ticks read in a minute they match
    overlapped,     \* history: whether a tick started while another was in progress
    restarts        \* how often the process restarted; the histories start anew

vars == <<time, active, phase, inFlight, queue, step, now, rest, lastRun, lastMinute, runs,
          owed, overlapped, restarts>>
memory == <<lastRun, lastMinute, runs>>
others == <<owed, overlapped, restarts>>

Orders == UNION {[1 .. n -> Jobs] : n \in 0 .. Cardinality(Jobs)}
Snapshots(S) == {s \in Orders : {s[i] : i \in DOMAIN s} = S /\ Len(s) = Cardinality(S)}

TypeOK ==
    /\ time \in Times
    /\ active \in SUBSET Jobs
    /\ phase \in {"up", "stopping", "stopped"}
    /\ inFlight \in Ticks \cup {None}
    /\ queue \in Seq(Ticks)
    /\ step \in [Ticks -> {"free", "select", "run", "log"}]
    /\ now \in [Ticks -> Times]
    /\ rest \in [Ticks -> Seq(Jobs)]
    /\ lastRun \in [Jobs -> Times \cup {None}]
    /\ lastMinute \in [Jobs -> Minutes \cup {None}]
    /\ runs \in [Jobs -> [Minutes -> Nat]]
    /\ owed \in SUBSET (Jobs \X Minutes)
    /\ overlapped \in BOOLEAN
    /\ restarts \in 0 .. MaxRestarts

InProgress == {t \in Ticks : step[t] # "free"}

----------------------------------------------------------------------------

Init ==
    /\ time = 0
    /\ active \in SUBSET Jobs
    /\ phase = "up"
    /\ inFlight = None
    /\ queue = <<>>
    /\ step = [t \in Ticks |-> "free"]
    /\ now = [t \in Ticks |-> 0]
    /\ rest = [t \in Ticks |-> <<>>]
    /\ lastRun = [j \in Jobs |-> None]
    /\ lastMinute = [j \in Jobs |-> None]
    /\ runs = [j \in Jobs |-> [m \in Minutes |-> 0]]
    /\ owed = {}
    /\ overlapped = FALSE
    /\ restarts = 0

Matches(j, n) == Period[j] = 0 /\ MinuteOf(n) \in Matching[j]

(* Mutant: a cron job is due whenever its fields match. *)
IsDueAgain(j, n) ==
    \/ Period[j] > 0 /\ (lastRun[j] # None => n - lastRun[j] >= Period[j])
    \/ Matches(j, n)

(* isDue: epoch 0 stands for a job that never ran, so it is due at once.     *)
IsDue(j, n) ==
    \/ Period[j] > 0 /\ (lastRun[j] # None => n - lastRun[j] >= Period[j])
    \/ Matches(j, n) /\ lastMinute[j] # MinuteOf(n)

(* The timer fires.                                                          *)
StartTick(t) ==
    /\ phase = "up"
    /\ step[t] = "free"
    /\ step' = [step EXCEPT ![t] = "select"]
    /\ queue' = Append(queue, t)
    /\ inFlight' = t
    /\ overlapped' = (overlapped \/ InProgress # {})
    /\ UNCHANGED <<time, active, phase, now, rest, memory, owed, restarts>>

(* Mutant: the minute of the run is kept as a time. *)
StartAtSecond(j, n) ==
    /\ lastRun' = [lastRun EXCEPT ![j] = n]
    /\ lastMinute' = [lastMinute EXCEPT ![j] = n]
    /\ runs' = [runs EXCEPT ![j][MinuteOf(n)] = @ + 1]

(* run: the job is marked with the tick's time, before its command is sent.  *)
Start(j, n) ==
    /\ lastRun' = [lastRun EXCEPT ![j] = n]
    /\ lastMinute' = [lastMinute EXCEPT ![j] = MinuteOf(n)]
    /\ runs' = [runs EXCEPT ![j][MinuteOf(n)] = @ + 1]

(* tick, from one awaited query to the next: it runs the first job of the    *)
(* list that is due, or ends.                                                *)
LookAt(t, list, n) ==
    \/ \E i \in 1 .. Len(list) :
        /\ IsDue(list[i], n)
        /\ \A k \in 1 .. i - 1 : ~IsDue(list[k], n)
        /\ Start(list[i], n)
        /\ rest' = [rest EXCEPT ![t] = SubSeq(list, i + 1, Len(list))]
        /\ step' = [step EXCEPT ![t] = "run"]
        /\ queue' = Append(Tail(queue), t)
    \/ /\ \A i \in 1 .. Len(list) : ~IsDue(list[i], n)
       /\ rest' = [rest EXCEPT ![t] = <<>>]
       /\ step' = [step EXCEPT ![t] = "free"]
       /\ queue' = Tail(queue)
       /\ UNCHANGED memory

Served(t) == queue # <<>> /\ queue[1] = t

(* The jobs arrive, in any order, and the tick takes the time.               *)
Select(t) ==
    /\ step[t] = "select" /\ Served(t)
    /\ now' = [now EXCEPT ![t] = time]
    /\ \E list \in Snapshots(active) : LookAt(t, list, time)
    /\ owed' = owed \cup {<<j, MinuteOf(time)>> : j \in {j \in active : Matches(j, time)}}
    /\ UNCHANGED <<time, active, phase, inFlight, overlapped, restarts>>

SelectFails(t) ==
    /\ step[t] = "select" /\ Served(t)
    /\ step' = [step EXCEPT ![t] = "free"]
    /\ queue' = Tail(queue)
    /\ UNCHANGED <<time, active, phase, inFlight, now, rest, memory, others>>

(* Mutant: a command that failed is sent again. *)
CommandRetried(t) ==
    /\ step[t] = "run" /\ Served(t)
    /\ step' \in {[step EXCEPT ![t] = "log"], step}
    /\ queue' = Append(Tail(queue), t)
    /\ UNCHANGED <<time, active, phase, inFlight, now, rest, memory, others>>

(* The command succeeded or failed; either is logged.                        *)
CommandEnds(t) ==
    /\ step[t] = "run" /\ Served(t)
    /\ step' = [step EXCEPT ![t] = "log"]
    /\ queue' = Append(Tail(queue), t)
    /\ UNCHANGED <<time, active, phase, inFlight, now, rest, memory, others>>

(* Mutant: the tick gives up after a job. *)
OneJobPerTick(t) ==
    /\ step[t] = "log" /\ Served(t)
    /\ step' = [step EXCEPT ![t] = "free"]
    /\ queue' = Tail(queue)
    /\ UNCHANGED <<time, active, phase, inFlight, now, rest, memory, others>>

(* The log entry is written, or not; the loop goes on with the tick's time.  *)
LogEnds(t) ==
    /\ step[t] = "log" /\ Served(t)
    /\ LookAt(t, rest[t], now[t])
    /\ UNCHANGED <<time, active, phase, inFlight, now, others>>

----------------------------------------------------------------------------

(* Mutant: stop does not wait. *)
StopAtOnce ==
    /\ phase = "up"
    /\ phase' = "stopped"
    /\ inFlight' = None
    /\ UNCHANGED <<time, active, queue, step, now, rest, memory, others>>

(* stop(): no more ticks; then it waits for the one it knows of.             *)
Stop ==
    /\ phase = "up"
    /\ phase' = "stopping"
    /\ UNCHANGED <<time, active, inFlight, queue, step, now, rest, memory, others>>

Stopped ==
    /\ phase = "stopping"
    /\ inFlight # None => step[inFlight] = "free"
    /\ phase' = "stopped"
    /\ inFlight' = None
    /\ UNCHANGED <<time, active, queue, step, now, rest, memory, others>>

(* cron.schedule and cron.unschedule, or any other change of cron.job.       *)
ChangeJobs ==
    /\ active' \in SUBSET Jobs
    /\ UNCHANGED <<time, phase, inFlight, queue, step, now, rest, memory, others>>

Clock ==
    /\ time < MaxTime
    /\ time' = time + 1
    /\ UNCHANGED <<active, phase, inFlight, queue, step, now, rest, memory, others>>

(* The maps of last runs are in memory only.                                 *)
Restart ==
    /\ restarts < MaxRestarts
    /\ restarts' = restarts + 1
    /\ runs' = [j \in Jobs |-> [m \in Minutes |-> 0]]
    /\ owed' = {}
    /\ overlapped' = FALSE
    /\ phase' = "up"
    /\ inFlight' = None
    /\ queue' = <<>>
    /\ step' = [t \in Ticks |-> "free"]
    /\ rest' = [t \in Ticks |-> <<>>]
    /\ lastRun' = [j \in Jobs |-> None]
    /\ lastMinute' = [j \in Jobs |-> None]
    /\ UNCHANGED <<time, active, now>>

Serve(t) == Select(t) \/ SelectFails(t) \/ CommandEnds(t) \/ LogEnds(t)

Next ==
    \/ \E t \in Ticks : StartTick(t) \/ Serve(t)
    \/ Stop \/ Stopped
    \/ ChangeJobs
    \/ Clock
    \/ Restart

Spec == Init /\ [][Next]_vars

(* The database answers every query, and stop() goes on when it can.         *)
FairSpec == Spec /\ WF_vars(\E t \in Ticks : Serve(t)) /\ WF_vars(Stopped)

----------------------------------------------------------------------------
(* Properties.                                                               *)

(* A cron job is run at most once per matching minute.                       *)
AtMostOncePerMinute ==
    \A j \in Jobs, m \in Minutes : Period[j] = 0 => runs[j][m] <= 1

(* That holds as long as every tick ends before the next one starts, however *)
(* late in its minute a tick starts a job and whatever jobs come and go.     *)
OncePerMinuteInTurn == ~overlapped => AtMostOncePerMinute

(* A job that a tick reads in a minute its fields match is run for that      *)
(* minute before the ticks end: neither a job that fails or runs long nor    *)
(* an overlapping tick makes another job miss its minute.                    *)
NoMinuteMissed ==
    InProgress = {} => \A j \in Jobs, m \in Minutes : <<j, m>> \in owed => runs[j][m] >= 1

(* stop() returns, and the database is closed, only after the last tick has   *)
(* ended, as long as ticks do not overlap.                                   *)
StopDrainsInTurn == phase = "stopped" /\ ~overlapped => InProgress = {}

(* A stop() that was called returns: the tick it waits for ends.             *)
StopReturns == phase = "stopping" ~> phase # "stopping"

============================================================================
