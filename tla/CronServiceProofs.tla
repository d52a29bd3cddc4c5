------------------------- MODULE CronServiceProofs -------------------------
(***************************************************************************)
(* What the scheduler guarantees for any jobs, any schedule of the ticks and *)
(* any change of cron.job.                                                   *)
(***************************************************************************)
EXTENDS CronService, TLAPS

Typed ==
    /\ time \in Int
    /\ active \in SUBSET Jobs
    /\ step \in [Ticks -> {"free", "select", "run", "log"}]
    /\ now \in [Ticks -> Int]
    /\ rest \in [Ticks -> Seq(Jobs)]
    /\ lastRun \in [Jobs -> Int \cup {None}]
    /\ lastMinute \in [Jobs -> Int \cup {None}]
    /\ runs \in [Jobs -> [Minutes -> Nat]]
    /\ owed \in SUBSET (Jobs \X Minutes)
    /\ restarts \in Nat

LEMMA MinuteIsInt == ASSUME NEW n \in Int PROVE MinuteOf(n) \in Int
BY ClockAssumption DEF MinuteOf

LEMMA SnapshotList ==
    ASSUME NEW S \in SUBSET Jobs, NEW list \in Snapshots(S)
    PROVE  list \in Seq(Jobs) /\ \A j \in S : \E i \in 1 .. Len(list) : list[i] = j
<1>1. \A n \in 0 .. Cardinality(Jobs) : \A s \in [1 .. n -> Jobs] : s \in Seq(Jobs)
    OBVIOUS
<1>2. list \in Seq(Jobs) /\ {list[i] : i \in DOMAIN list} = S
    BY <1>1 DEF Snapshots, Orders
<1>. QED BY <1>2

(* The part of a step that a tick takes between two queries.                 *)
LEMMA StartTyped ==
    ASSUME Typed, NEW j \in Jobs, NEW n \in Int, Start(j, n)
    PROVE  /\ lastRun' \in [Jobs -> Int \cup {None}]
           /\ lastMinute' \in [Jobs -> Int \cup {None}]
           /\ runs' \in [Jobs -> [Minutes -> Nat]]
<1>1. \A m \in Minutes : runs[j][m] + 1 \in Nat
    BY DEF Typed
<1>2. [runs[j] EXCEPT ![MinuteOf(n)] = @ + 1] \in [Minutes -> Nat]
    BY <1>1 DEF Typed
<1>. QED BY <1>2, MinuteIsInt DEF Typed, Start

LEMMA LookTyped ==
    ASSUME Typed, NEW t \in Ticks, NEW list \in Seq(Jobs), NEW n \in Int, LookAt(t, list, n)
    PROVE  /\ step' \in [Ticks -> {"free", "select", "run", "log"}]
           /\ rest' \in [Ticks -> Seq(Jobs)]
           /\ lastRun' \in [Jobs -> Int \cup {None}]
           /\ lastMinute' \in [Jobs -> Int \cup {None}]
           /\ runs' \in [Jobs -> [Minutes -> Nat]]
<1>1. ASSUME NEW i \in 1 .. Len(list), Start(list[i], n),
             rest' = [rest EXCEPT ![t] = SubSeq(list, i + 1, Len(list))],
             step' = [step EXCEPT ![t] = "run"]
      PROVE  /\ step' \in [Ticks -> {"free", "select", "run", "log"}]
             /\ rest' \in [Ticks -> Seq(Jobs)]
             /\ lastRun' \in [Jobs -> Int \cup {None}]
             /\ lastMinute' \in [Jobs -> Int \cup {None}]
             /\ runs' \in [Jobs -> [Minutes -> Nat]]
    <2>1. list[i] \in Jobs /\ SubSeq(list, i + 1, Len(list)) \in Seq(Jobs)
        BY <1>1
    <2>. QED BY <1>1, <2>1, StartTyped DEF Typed
<1>2. CASE /\ rest' = [rest EXCEPT ![t] = <<>>]
           /\ step' = [step EXCEPT ![t] = "free"]
           /\ UNCHANGED memory
    BY <1>2 DEF Typed, memory
<1>. QED BY <1>1, <1>2 DEF LookAt

LEMMA TypedInit == Init => Typed
BY DEF Init, Typed, Times

LEMMA TypedNext == Typed /\ [Next]_vars => Typed'
<1> SUFFICES ASSUME Typed, [Next]_vars PROVE Typed'
    OBVIOUS
<1>1. ASSUME NEW t \in Ticks, StartTick(t) PROVE Typed'
    BY <1>1 DEF StartTick, Typed, memory, others
<1>2. ASSUME NEW t \in Ticks, Select(t) PROVE Typed'
    <2>1. PICK list \in Snapshots(active) : LookAt(t, list, time)
        BY <1>2 DEF Select
    <2>2. list \in Seq(Jobs) /\ time \in Int
        BY SnapshotList DEF Typed
    <2>3. owed' \in SUBSET (Jobs \X Minutes)
        <3>1. \A j \in Jobs : Matches(j, time) => MinuteOf(time) \in Minutes
            BY JobsAssumption DEF Matches
        <3>. QED BY <1>2, <3>1 DEF Select, Typed
    <2>4. /\ now' = [now EXCEPT ![t] = time]
          /\ UNCHANGED <<time, active, restarts>>
        BY <1>2 DEF Select
    <2>. QED BY <2>1, <2>2, <2>3, <2>4, LookTyped DEF Typed
<1>3. ASSUME NEW t \in Ticks, SelectFails(t) \/ CommandEnds(t) PROVE Typed'
    BY <1>3 DEF SelectFails, CommandEnds, Typed, memory, others
<1>4. ASSUME NEW t \in Ticks, LogEnds(t) PROVE Typed'
    <2>1. LookAt(t, rest[t], now[t]) /\ rest[t] \in Seq(Jobs) /\ now[t] \in Int
        BY <1>4 DEF LogEnds, Typed
    <2>2. UNCHANGED <<time, active, now, others>>
        BY <1>4 DEF LogEnds
    <2>. QED BY <2>1, <2>2, LookTyped DEF Typed, others
<1>5. CASE Stop \/ Stopped \/ ChangeJobs \/ Clock \/ UNCHANGED vars
    BY <1>5 DEF Stop, Stopped, ChangeJobs, Clock, vars, Typed, memory, others
<1>6. CASE Restart
    BY <1>6 DEF Restart, Typed, memory
<1>. QED BY <1>1, <1>2, <1>3, <1>4, <1>5, <1>6 DEF Next, Serve

----------------------------------------------------------------------------
(* No minute is missed: a job that is owed a run has had it, or is on the     *)
(* list of a tick that runs for that minute.                                 *)

Listed(j, m) == \E t \in Ticks :
    /\ step[t] \in {"run", "log"}
    /\ \E i \in 1 .. Len(rest[t]) : rest[t][i] = j
    /\ Matches(j, now[t]) /\ MinuteOf(now[t]) = m

Marked == \A j \in Jobs, m \in Minutes :
    Period[j] = 0 /\ lastMinute[j] = m => runs[j][m] >= 1

Provided == \A j \in Jobs, m \in Minutes :
    <<j, m>> \in owed => runs[j][m] >= 1 \/ Listed(j, m)

Kept == Typed /\ Marked /\ Provided

LEMMA StartMarks ==
    ASSUME Typed, Marked, NEW j \in Jobs, NEW n \in Int, Start(j, n)
    PROVE  /\ Marked'
           /\ \A k \in Jobs, m \in Minutes : runs[k][m] >= 1 => runs'[k][m] >= 1
           /\ \A m \in Minutes : MinuteOf(n) = m => runs'[j][m] >= 1
<1>1. \A m \in Minutes : runs[j][m] \in Nat /\ (m # MinuteOf(n) => runs'[j][m] = runs[j][m])
    BY DEF Typed, Start
<1>2. \A m \in Minutes : m = MinuteOf(n) => runs'[j][m] = runs[j][m] + 1
    BY DEF Typed, Start
<1>3. \A k \in Jobs \ {j} : runs'[k] = runs[k] /\ lastMinute'[k] = lastMinute[k]
    BY DEF Typed, Start
<1>4. lastMinute'[j] = MinuteOf(n)
    BY DEF Typed, Start
<1>. QED BY <1>1, <1>2, <1>3, <1>4 DEF Marked

(* A tick at the list with the time n leaves every job that matches n with   *)
(* a run for that minute or on the rest of its list.                         *)
LEMMA LookProvides ==
    ASSUME Typed, Marked, NEW t \in Ticks, NEW list \in Seq(Jobs), NEW n \in Int,
           LookAt(t, list, n)
    PROVE  /\ Marked'
           /\ \A k \in Jobs, m \in Minutes : runs[k][m] >= 1 => runs'[k][m] >= 1
           /\ \A u \in Ticks \ {t} : step'[u] = step[u] /\ rest'[u] = rest[u]
           /\ \A i \in 1 .. Len(list), m \in Minutes :
                Matches(list[i], n) /\ MinuteOf(n) = m =>
                   \/ runs'[list[i]][m] >= 1
                   \/ step'[t] = "run" /\ \E k \in 1 .. Len(rest'[t]) : rest'[t][k] = list[i]
<1>1. ASSUME NEW i \in 1 .. Len(list), Matches(list[i], n), ~IsDue(list[i], n),
             NEW m \in Minutes, MinuteOf(n) = m
      PROVE  runs[list[i]][m] >= 1
    BY <1>1 DEF Matches, IsDue, Marked
<1>2. CASE /\ \A i \in 1 .. Len(list) : ~IsDue(list[i], n)
           /\ rest' = [rest EXCEPT ![t] = <<>>]
           /\ step' = [step EXCEPT ![t] = "free"]
           /\ UNCHANGED memory
    BY <1>1, <1>2 DEF Typed, memory, Marked
<1>3. ASSUME NEW i \in 1 .. Len(list),
             \A k \in 1 .. i - 1 : ~IsDue(list[k], n),
             Start(list[i], n),
             rest' = [rest EXCEPT ![t] = SubSeq(list, i + 1, Len(list))],
             step' = [step EXCEPT ![t] = "run"]
      PROVE  /\ Marked'
             /\ \A k \in Jobs, m \in Minutes : runs[k][m] >= 1 => runs'[k][m] >= 1
             /\ \A u \in Ticks \ {t} : step'[u] = step[u] /\ rest'[u] = rest[u]
             /\ \A k \in 1 .. Len(list), m \in Minutes :
                  Matches(list[k], n) /\ MinuteOf(n) = m =>
                     \/ runs'[list[k]][m] >= 1
                     \/ step'[t] = "run" /\ \E l \in 1 .. Len(rest'[t]) : rest'[t][l] = list[k]
    <2>1. list[i] \in Jobs
        OBVIOUS
    <2>2. /\ Marked'
          /\ \A k \in Jobs, m \in Minutes : runs[k][m] >= 1 => runs'[k][m] >= 1
          /\ \A m \in Minutes : MinuteOf(n) = m => runs'[list[i]][m] >= 1
        BY <1>3, <2>1, StartMarks
    <2>3. rest'[t] = SubSeq(list, i + 1, Len(list)) /\ step'[t] = "run"
        BY <1>3 DEF Typed
    <2>4. ASSUME NEW k \in 1 .. Len(list), NEW m \in Minutes,
                 Matches(list[k], n), MinuteOf(n) = m
          PROVE  \/ runs'[list[k]][m] >= 1
                 \/ \E l \in 1 .. Len(rest'[t]) : rest'[t][l] = list[k]
        <3>1. CASE k < i
            BY <3>1, <1>1, <1>3, <2>2, <2>4
        <3>2. CASE k = i
            BY <3>2, <2>2, <2>4
        <3>3. CASE k > i
            <4>1. k - i \in 1 .. Len(rest'[t]) /\ rest'[t][k - i] = list[k]
                BY <2>3, <3>3
            <4>. QED BY <4>1
        <3>. QED BY <3>1, <3>2, <3>3
    <2>5. \A u \in Ticks \ {t} : step'[u] = step[u] /\ rest'[u] = rest[u]
        BY <1>3 DEF Typed
    <2>. QED BY <2>2, <2>3, <2>4, <2>5
<1>. QED BY <1>2, <1>3 DEF LookAt

LEMMA KeptInit == Init => Kept
BY TypedInit, NoneAssumption DEF Init, Kept, Marked, Provided, Minutes, Times, MinuteOf

LEMMA KeptNext == Kept /\ [Next]_vars => Kept'
<1> SUFFICES ASSUME Kept, [Next]_vars PROVE Kept'
    OBVIOUS
<1>0. Typed /\ Typed'
    BY TypedNext DEF Kept
<1> USE DEF Kept
<1>1. ASSUME NEW t \in Ticks, StartTick(t) PROVE Kept'
    <2>1. /\ step[t] = "free" /\ step' = [step EXCEPT ![t] = "select"]
          /\ UNCHANGED <<now, rest, memory, owed>>
        BY <1>1 DEF StartTick
    <2>2. \A j \in Jobs, m \in Minutes : Listed(j, m) => Listed(j, m)'
        BY <1>0, <2>1 DEF Listed, Typed, Matches
    <2>. QED BY <1>0, <2>1, <2>2 DEF Marked, Provided, memory
<1>2. ASSUME NEW t \in Ticks, Select(t) PROVE Kept'
    <2>1. PICK list \in Snapshots(active) : LookAt(t, list, time)
        BY <1>2 DEF Select
    <2>2. /\ list \in Seq(Jobs) /\ time \in Int
          /\ \A j \in active : \E i \in 1 .. Len(list) : list[i] = j
        <3>1. active \in SUBSET Jobs /\ time \in Int
            BY <1>0 DEF Typed
        <3>. QED BY <3>1, SnapshotList
    <2>3. /\ step[t] = "select"
          /\ now' = [now EXCEPT ![t] = time]
          /\ owed' = owed \cup {<<j, MinuteOf(time)>> : j \in {j \in active : Matches(j, time)}}
        BY <1>2 DEF Select
    <2>4. /\ Marked'
          /\ \A k \in Jobs, m \in Minutes : runs[k][m] >= 1 => runs'[k][m] >= 1
          /\ \A u \in Ticks \ {t} : step'[u] = step[u] /\ rest'[u] = rest[u]
          /\ \A i \in 1 .. Len(list), m \in Minutes :
                Matches(list[i], time) /\ MinuteOf(time) = m =>
                   \/ runs'[list[i]][m] >= 1
                   \/ step'[t] = "run" /\ \E k \in 1 .. Len(rest'[t]) : rest'[t][k] = list[i]
        BY <2>1, <2>2, LookProvides
    <2>5. now'[t] = time /\ \A u \in Ticks \ {t} : now'[u] = now[u]
        BY <1>0, <2>3 DEF Typed
    <2>6. ASSUME NEW j \in Jobs, NEW m \in Minutes, <<j, m>> \in owed'
          PROVE  runs'[j][m] >= 1 \/ Listed(j, m)'
        <3>1. CASE <<j, m>> \in owed
            <4>1. Listed(j, m) => Listed(j, m)'
                BY <2>3, <2>4, <2>5 DEF Listed, Matches
            <4>. QED BY <3>1, <4>1, <2>4 DEF Provided
        <3>2. CASE j \in active /\ Matches(j, time) /\ m = MinuteOf(time)
            <4>1. PICK i \in 1 .. Len(list) : list[i] = j
                BY <3>2, <2>2
            <4>2. \/ runs'[j][m] >= 1
                  \/ step'[t] = "run" /\ \E k \in 1 .. Len(rest'[t]) : rest'[t][k] = j
                BY <3>2, <4>1, <2>4
            <4>. QED BY <3>2, <4>2, <2>5 DEF Listed, Matches
        <3>. QED BY <2>3, <2>6, <3>1, <3>2
    <2>. QED BY <1>0, <2>4, <2>6 DEF Provided
<1>3. ASSUME NEW t \in Ticks, SelectFails(t) \/ CommandEnds(t) PROVE Kept'
    <2>1. /\ step[t] \in {"select", "run"}
          /\ \/ step[t] = "select" /\ step' = [step EXCEPT ![t] = "free"]
             \/ step[t] = "run" /\ step' = [step EXCEPT ![t] = "log"]
          /\ UNCHANGED <<now, rest, memory, others>>
        BY <1>3 DEF SelectFails, CommandEnds
    <2>2. \A j \in Jobs, m \in Minutes : Listed(j, m) => Listed(j, m)'
        BY <1>0, <2>1 DEF Listed, Typed, Matches
    <2>. QED BY <1>0, <2>1, <2>2 DEF Marked, Provided, memory, others
<1>4. ASSUME NEW t \in Ticks, LogEnds(t) PROVE Kept'
    <2>1. LookAt(t, rest[t], now[t]) /\ rest[t] \in Seq(Jobs) /\ now[t] \in Int
        BY <1>0, <1>4 DEF LogEnds, Typed
    <2>2. UNCHANGED <<now, owed>>
        BY <1>4 DEF LogEnds, others
    <2>3. /\ Marked'
          /\ \A k \in Jobs, m \in Minutes : runs[k][m] >= 1 => runs'[k][m] >= 1
          /\ \A u \in Ticks \ {t} : step'[u] = step[u] /\ rest'[u] = rest[u]
          /\ \A i \in 1 .. Len(rest[t]), m \in Minutes :
                Matches(rest[t][i], now[t]) /\ MinuteOf(now[t]) = m =>
                   \/ runs'[rest[t][i]][m] >= 1
                   \/ step'[t] = "run" /\ \E k \in 1 .. Len(rest'[t]) : rest'[t][k] = rest[t][i]
        BY <2>1, LookProvides
    <2>4. ASSUME NEW j \in Jobs, NEW m \in Minutes, <<j, m>> \in owed'
          PROVE  runs'[j][m] >= 1 \/ Listed(j, m)'
        <3>1. CASE runs[j][m] >= 1
            BY <3>1, <2>3
        <3>2. ASSUME NEW u \in Ticks \ {t},
                     step[u] \in {"run", "log"}, \E i \in 1 .. Len(rest[u]) : rest[u][i] = j,
                     Matches(j, now[u]), MinuteOf(now[u]) = m
              PROVE  Listed(j, m)'
            BY <3>2, <2>2, <2>3 DEF Listed, Matches
        <3>3. ASSUME NEW i \in 1 .. Len(rest[t]), rest[t][i] = j,
                     Matches(j, now[t]), MinuteOf(now[t]) = m
              PROVE  runs'[j][m] >= 1 \/ Listed(j, m)'
            <4>1. \/ runs'[j][m] >= 1
                  \/ step'[t] = "run" /\ \E k \in 1 .. Len(rest'[t]) : rest'[t][k] = j
                BY <3>3, <2>3
            <4>. QED BY <3>3, <4>1, <2>2 DEF Listed, Matches
        <3>. QED BY <2>2, <2>4, <3>1, <3>2, <3>3 DEF Provided, Listed
    <2>. QED BY <1>0, <2>3, <2>4 DEF Provided
<1>5. CASE Stop \/ Stopped \/ ChangeJobs \/ Clock \/ UNCHANGED vars
    BY <1>0, <1>5 DEF Stop, Stopped, ChangeJobs, Clock, vars, Marked, Provided, Listed, Matches,
       memory, others
<1>6. CASE Restart
    <2>1. lastMinute' = [j \in Jobs |-> None] /\ owed' = {}
        BY <1>6 DEF Restart
    <2>2. \A m \in Minutes : m # None
        BY NoneAssumption, MinuteIsInt, ClockAssumption DEF Minutes, MinuteOf
    <2>. QED BY <1>0, <2>1, <2>2 DEF Marked, Provided
<1>. QED BY <1>1, <1>2, <1>3, <1>4, <1>5, <1>6 DEF Next, Serve

(* CronService.tick: whichever jobs run long or fail, and however ticks       *)
(* overlap, a job that a tick saw in its minute is run for that minute.      *)
THEOREM EveryMinuteIsRun == Spec => []NoMinuteMissed
<1>1. Init => Kept
    BY KeptInit
<1>2. Kept /\ [Next]_vars => Kept'
    BY KeptNext
<1>3. Kept => NoMinuteMissed
    BY DEF Kept, Provided, Listed, NoMinuteMissed, InProgress
<1>. QED BY <1>1, <1>2, <1>3, PTL DEF Spec

----------------------------------------------------------------------------
(* Where ticks do not overlap, time only goes on from tick to tick, so a job *)
(* that ran for a minute is past every earlier one.                          *)

Serial ==
    /\ \A t, u \in Ticks : step[t] # "free" /\ step[u] # "free" => t = u
    /\ \A t \in Ticks : step[t] \in {"run", "log"} => MinuteOf(now[t]) <= MinuteOf(time)

Reached(n) == \A j \in Jobs :
    Period[j] = 0 /\ lastMinute[j] # None => lastMinute[j] <= MinuteOf(n)

RunsUpToLast == \A j \in Jobs, m \in Minutes :
    Period[j] = 0 =>
        /\ runs[j][m] <= 1
        /\ lastMinute[j] = None \/ m > lastMinute[j] => runs[j][m] = 0

InTurn ==
    /\ Serial /\ RunsUpToLast /\ Reached(time)
    /\ \A t \in Ticks : step[t] \in {"run", "log"} => Reached(now[t])

Monotone == Typed /\ overlapped \in BOOLEAN /\ (~overlapped => InTurn)

LEMMA MinutesGoOn == ASSUME NEW n \in Int PROVE MinuteOf(n) <= MinuteOf(n + 1)
BY ClockAssumption DEF MinuteOf

LEMMA LookOnce ==
    ASSUME Typed, RunsUpToLast, NEW t \in Ticks, NEW list \in Seq(Jobs), NEW n \in Int,
           Reached(n), LookAt(t, list, n)
    PROVE  /\ RunsUpToLast'
           /\ \A j \in Jobs :
                Period[j] = 0 /\ lastMinute'[j] # None => lastMinute'[j] <= MinuteOf(n)
           /\ step' \in {[step EXCEPT ![t] = "run"], [step EXCEPT ![t] = "free"]}
<1>1. CASE UNCHANGED memory /\ step' = [step EXCEPT ![t] = "free"]
    BY <1>1 DEF memory, RunsUpToLast, Reached
<1>2. ASSUME NEW i \in 1 .. Len(list), IsDue(list[i], n), Start(list[i], n)
      PROVE  /\ RunsUpToLast'
             /\ \A j \in Jobs :
                  Period[j] = 0 /\ lastMinute'[j] # None => lastMinute'[j] <= MinuteOf(n)
    <2> DEFINE j == list[i]
    <2>1. j \in Jobs /\ IsDue(j, n) /\ Start(j, n)
        BY <1>2
    <2> HIDE DEF j
    <2>2. /\ lastMinute'[j] = MinuteOf(n)
          /\ \A k \in Jobs \ {j} : runs'[k] = runs[k] /\ lastMinute'[k] = lastMinute[k]
        BY <2>1 DEF Start, Typed
    <2>3. \A m \in Minutes : runs'[j][m] = IF m = MinuteOf(n) THEN runs[j][m] + 1 ELSE runs[j][m]
        BY <2>1 DEF Start, Typed
    <2>4. Period[j] = 0 => lastMinute[j] # MinuteOf(n)
        BY <2>1 DEF IsDue
    <2>5. MinuteOf(n) \in Int /\ lastMinute[j] \in Int \cup {None} /\ None \notin Int
        BY <2>1, MinuteIsInt, NoneAssumption DEF Typed
    <2>6. Period[j] = 0 /\ lastMinute[j] # None => lastMinute[j] < MinuteOf(n)
        BY <2>1, <2>4, <2>5 DEF Reached
    <2>7. \A m \in Minutes : m \in Int /\ runs[j][m] \in Nat
        <3>1. Minutes \subseteq Int
            BY DEF Minutes
        <3>. QED BY <2>1, <3>1 DEF Typed
    <2>8. ASSUME NEW m \in Minutes, Period[j] = 0
          PROVE  /\ runs'[j][m] <= 1
                 /\ m > lastMinute'[j] => runs'[j][m] = 0
        <3>1. m \in Int /\ runs[j][m] \in Nat
            BY <2>7
        <3>2. m >= MinuteOf(n) => runs[j][m] = 0
            BY <2>1, <2>5, <2>6, <2>8, <3>1 DEF RunsUpToLast
        <3>3. runs[j][m] <= 1
            BY <2>1, <2>8 DEF RunsUpToLast
        <3>. QED BY <2>2, <2>3, <2>5, <3>1, <3>2, <3>3
    <2>9. RunsUpToLast'
        BY <2>2, <2>5, <2>8 DEF RunsUpToLast
    <2>. QED BY <2>2, <2>5, <2>9 DEF Reached
<1>. QED BY <1>1, <1>2 DEF LookAt

LEMMA MonotoneInit == Init => Monotone
<1> SUFFICES ASSUME Init PROVE Monotone
    OBVIOUS
<1>1. Typed /\ overlapped \in BOOLEAN
    BY TypedInit DEF Init
<1>2. Serial /\ Reached(time) /\ \A t \in Ticks : step[t] \notin {"run", "log"}
    BY DEF Init, Serial, Reached
<1>3. RunsUpToLast
    BY DEF Init, RunsUpToLast
<1>. QED BY <1>1, <1>2, <1>3 DEF Monotone, InTurn

LEMMA InTurnNext ==
    ASSUME Typed, Typed', InTurn, ~overlapped', [Next]_vars
    PROVE  InTurn'
<1> USE DEF InTurn
<1>1. ASSUME NEW t \in Ticks, StartTick(t) PROVE InTurn'
    <2>1. /\ step[t] = "free" /\ step' = [step EXCEPT ![t] = "select"]
          /\ \A u \in Ticks : step[u] = "free"
          /\ UNCHANGED <<time, now, memory>>
        BY <1>1 DEF StartTick, InProgress
    <2>2. Serial' /\ \A u \in Ticks : step'[u] \notin {"run", "log"}
        BY <2>1 DEF Serial, Typed
    <2>. QED BY <2>1, <2>2 DEF RunsUpToLast, Reached, memory
<1>2. ASSUME NEW t \in Ticks, Select(t) PROVE InTurn'
    <2>1. active \in SUBSET Jobs /\ time \in Int
        BY DEF Typed
    <2>2. PICK list \in Snapshots(active) : LookAt(t, list, time)
        BY <1>2 DEF Select
    <2>3. /\ RunsUpToLast'
          /\ \A j \in Jobs :
                Period[j] = 0 /\ lastMinute'[j] # None => lastMinute'[j] <= MinuteOf(time)
          /\ step' \in {[step EXCEPT ![t] = "run"], [step EXCEPT ![t] = "free"]}
        BY <2>1, <2>2, SnapshotList, LookOnce
    <2>4. step[t] = "select" /\ now' = [now EXCEPT ![t] = time] /\ time' = time
        BY <1>2 DEF Select
    <2>5. \A u \in Ticks : step'[u] \in {"run", "log"} => u = t /\ now'[u] = time
        BY <2>3, <2>4 DEF Serial, Typed
    <2>6. Serial'
        <3>1. \A u \in Ticks \ {t} : step'[u] = "free"
            BY <2>3, <2>4 DEF Serial, Typed
        <3>2. MinuteOf(time) \in Int
            BY <2>1, MinuteIsInt
        <3>. QED BY <2>4, <2>5, <3>1, <3>2 DEF Serial
    <2>7. Reached(time)' /\ \A u \in Ticks : step'[u] \in {"run", "log"} => Reached(now[u])'
        BY <2>3, <2>4, <2>5 DEF Reached
    <2>. QED BY <2>3, <2>6, <2>7
<1>3. ASSUME NEW t \in Ticks, SelectFails(t) \/ CommandEnds(t) PROVE InTurn'
    <2>1. /\ step[t] # "free" /\ step[t] # "log"
          /\ \/ step' = [step EXCEPT ![t] = "free"]
             \/ step[t] = "run" /\ step' = [step EXCEPT ![t] = "log"]
          /\ UNCHANGED <<time, now, memory>>
        BY <1>3 DEF SelectFails, CommandEnds
    <2>2. Serial'
        BY <2>1 DEF Serial, Typed
    <2>3. \A u \in Ticks : step'[u] \in {"run", "log"} => step[u] \in {"run", "log"}
        BY <2>1 DEF Typed
    <2>. QED BY <2>1, <2>2, <2>3 DEF RunsUpToLast, Reached, memory
<1>4. ASSUME NEW t \in Ticks, LogEnds(t) PROVE InTurn'
    <2>1. /\ LookAt(t, rest[t], now[t]) /\ rest[t] \in Seq(Jobs) /\ now[t] \in Int
          /\ step[t] = "log" /\ now' = now /\ time' = time
        BY <1>4 DEF LogEnds, Typed
    <2>2. /\ RunsUpToLast'
          /\ \A j \in Jobs :
                Period[j] = 0 /\ lastMinute'[j] # None => lastMinute'[j] <= MinuteOf(now[t])
          /\ step' \in {[step EXCEPT ![t] = "run"], [step EXCEPT ![t] = "free"]}
        BY <2>1, LookOnce
    <2>3. \A u \in Ticks : step'[u] \in {"run", "log"} => u = t
        BY <2>1, <2>2 DEF Serial, Typed
    <2>4. Serial'
        BY <2>1, <2>2, <2>3 DEF Serial, Typed
    <2>5. \A u \in Ticks : step'[u] \in {"run", "log"} => Reached(now[u])'
        BY <2>1, <2>2, <2>3 DEF Reached
    <2>6. Reached(time)'
        <3>1. /\ MinuteOf(now[t]) \in Int /\ MinuteOf(time) \in Int
              /\ MinuteOf(now[t]) <= MinuteOf(time)
            BY <2>1, MinuteIsInt DEF Serial, Typed
        <3>2. \A j \in Jobs : lastMinute'[j] \in Int \cup {None}
            BY DEF Typed
        <3>. QED BY <2>1, <2>2, <3>1, <3>2 DEF Reached
    <2>. QED BY <2>2, <2>4, <2>5, <2>6
<1>5. CASE Clock
    <2>1. /\ time' = time + 1 /\ UNCHANGED <<step, now, memory>>
          /\ time \in Int /\ MinuteOf(time) \in Int /\ MinuteOf(time + 1) \in Int
          /\ MinuteOf(time) <= MinuteOf(time + 1)
        BY <1>5, MinutesGoOn, MinuteIsInt DEF Clock, Typed
    <2>2. \A j \in Jobs : lastMinute[j] \in Int \cup {None}
        BY DEF Typed
    <2>3. Reached(time)'
        BY <2>1, <2>2 DEF Reached, memory
    <2>4. \A t \in Ticks : now[t] \in Int /\ MinuteOf(now[t]) \in Int
        BY MinuteIsInt DEF Typed
    <2>5. Serial'
        BY <2>1, <2>4 DEF Serial
    <2>. QED BY <2>1, <2>3, <2>5 DEF RunsUpToLast, Reached, memory
<1>6. CASE Stop \/ Stopped \/ ChangeJobs \/ UNCHANGED vars
    BY <1>6 DEF Stop, Stopped, ChangeJobs, vars, Serial, RunsUpToLast, Reached, memory
<1>7. CASE Restart
    BY <1>7 DEF Restart, Serial, RunsUpToLast, Reached
<1>. QED BY <1>1, <1>2, <1>3, <1>4, <1>5, <1>6, <1>7 DEF Next, Serve

LEMMA MonotoneNext == Monotone /\ [Next]_vars => Monotone'
<1> SUFFICES ASSUME Monotone, [Next]_vars PROVE Monotone'
    OBVIOUS
<1>1. Typed'
    BY TypedNext DEF Monotone
<1>2. /\ overlapped' \in BOOLEAN
      /\ ~overlapped' => ~overlapped \/ Restart
    BY DEF Monotone, Next, Serve, StartTick, Select, SelectFails, CommandEnds, LogEnds, Stop,
       Stopped, ChangeJobs, Clock, Restart, others, vars
<1>3. CASE Restart
    BY <1>1, <1>2, <1>3 DEF Restart, Monotone, InTurn, Serial, RunsUpToLast, Reached
<1>4. CASE ~Restart
    BY <1>1, <1>2, <1>4, InTurnNext DEF Monotone
<1>. QED BY <1>3, <1>4

(* CronService.isDue and tick: a cron job runs at most once per minute, as    *)
(* long as each tick ends before the next one starts.                        *)
THEOREM RunOncePerMinute == Spec => []OncePerMinuteInTurn
<1>1. Init => Monotone
    BY MonotoneInit
<1>2. Monotone /\ [Next]_vars => Monotone'
    BY MonotoneNext
<1>3. Monotone => OncePerMinuteInTurn
    BY DEF Monotone, InTurn, RunsUpToLast, OncePerMinuteInTurn, AtMostOncePerMinute
<1>. QED BY <1>1, <1>2, <1>3, PTL DEF Spec

----------------------------------------------------------------------------
(* While ticks do not overlap, the tick stop() knows of is the one that is   *)
(* in progress, and once stop() returned there is none.                      *)

Known ==
    \A t \in Ticks : step[t] # "free" => phase # "stopped" /\ inFlight = t
KnownInTurn == ~overlapped => Known

LEMMA LookGoesOn ==
    ASSUME NEW t, NEW list, NEW n, LookAt(t, list, n)
    PROVE  step' \in {[step EXCEPT ![t] = "run"], [step EXCEPT ![t] = "free"]}
BY DEF LookAt

LEMMA KnownNext == Typed /\ overlapped \in BOOLEAN /\ KnownInTurn /\ [Next]_vars => KnownInTurn'
<1> SUFFICES ASSUME Typed, overlapped \in BOOLEAN, KnownInTurn, [Next]_vars, ~overlapped'
             PROVE  Known'
    BY DEF KnownInTurn
<1>0. step \in [Ticks -> {"free", "select", "run", "log"}]
    BY DEF Typed
<1>1. CASE Restart
    BY <1>1 DEF Restart, Known
<1>2. ASSUME NEW t \in Ticks, StartTick(t) PROVE Known'
    <2>1. /\ \A u \in Ticks : step[u] = "free"
          /\ step' = [step EXCEPT ![t] = "select"] /\ inFlight' = t /\ phase' = "up"
        BY <1>2 DEF StartTick, InProgress
    <2>. QED BY <1>0, <2>1 DEF Known
<1>3. ASSUME NEW t \in Ticks, Serve(t) PROVE Known'
    <2>1. /\ step[t] # "free" /\ UNCHANGED <<phase, inFlight, overlapped>>
          /\ \E after \in {"free", "run", "log"} : step' = [step EXCEPT ![t] = after]
        BY <1>3, LookGoesOn DEF Serve, Select, SelectFails, CommandEnds, LogEnds, others
    <2>2. Known
        BY <2>1 DEF KnownInTurn
    <2>3. \A u \in Ticks : step'[u] # "free" => step[u] # "free"
        BY <1>0, <2>1
    <2>. QED BY <2>1, <2>2, <2>3 DEF Known
<1>4. CASE Stop \/ ChangeJobs \/ Clock \/ UNCHANGED vars
    BY <1>4 DEF Stop, ChangeJobs, Clock, vars, others, KnownInTurn, Known
<1>5. CASE Stopped
    <2>1. Known /\ step' = step /\ (inFlight # None => step[inFlight] = "free")
        BY <1>5 DEF Stopped, others, KnownInTurn
    <2>2. \A t \in Ticks : t # None
        BY NoneAssumption
    <2>3. \A t \in Ticks : step[t] = "free"
        BY <2>1, <2>2 DEF Known
    <2>. QED BY <2>1, <2>3 DEF Known
<1>. QED BY <1>1, <1>2, <1>3, <1>4, <1>5 DEF Next

(* CronService.stop: when it has returned no tick is in progress, as long as  *)
(* each tick ended before the next one started, for any jobs and schedule of *)
(* the ticks.                                                                *)
THEOREM StopWaitsForTheTick == Spec => []StopDrainsInTurn
<1>1. Init => Monotone /\ KnownInTurn
    BY MonotoneInit DEF Init, KnownInTurn, Known
<1>2. Monotone /\ KnownInTurn /\ [Next]_vars => Monotone' /\ KnownInTurn'
    BY MonotoneNext, KnownNext DEF Monotone
<1>3. KnownInTurn => StopDrainsInTurn
    BY DEF KnownInTurn, Known, StopDrainsInTurn, InProgress
<1>. QED BY <1>1, <1>2, <1>3, PTL DEF Spec

----------------------------------------------------------------------------
(* The times and minutes the scheduler works with stay within the bounds of  *)
(* the clock.                                                                *)

LEMMA MinuteInRange == ASSUME NEW n \in Times PROVE MinuteOf(n) \in Minutes
BY ClockAssumption DEF MinuteOf, Minutes, Times

LEMMA LookInRange ==
    ASSUME TypeOK, NEW t \in Ticks, NEW list \in Seq(Jobs), NEW n \in Times, Served(t),
           LookAt(t, list, n)
    PROVE  /\ queue' \in Seq(Ticks)
           /\ step' \in [Ticks -> {"free", "select", "run", "log"}]
           /\ rest' \in [Ticks -> Seq(Jobs)]
           /\ lastRun' \in [Jobs -> Times \cup {None}]
           /\ lastMinute' \in [Jobs -> Minutes \cup {None}]
<1>1. queue \in Seq(Ticks) /\ queue # <<>> /\ Tail(queue) \in Seq(Ticks)
    BY DEF TypeOK, Served
<1>2. queue' \in Seq(Ticks) /\ step' \in [Ticks -> {"free", "select", "run", "log"}]
    <2>1. queue' \in {Append(Tail(queue), t), Tail(queue)}
        BY DEF LookAt
    <2>2. Append(Tail(queue), t) \in Seq(Ticks)
        BY <1>1
    <2>3. step' \in [Ticks -> {"free", "select", "run", "log"}]
        BY LookGoesOn DEF TypeOK
    <2>. QED BY <1>1, <2>1, <2>2, <2>3
<1>3. ASSUME NEW i \in 1 .. Len(list), Start(list[i], n),
             rest' = [rest EXCEPT ![t] = SubSeq(list, i + 1, Len(list))]
      PROVE  /\ rest' \in [Ticks -> Seq(Jobs)]
             /\ lastRun' \in [Jobs -> Times \cup {None}]
             /\ lastMinute' \in [Jobs -> Minutes \cup {None}]
    <2>1. list[i] \in Jobs /\ SubSeq(list, i + 1, Len(list)) \in Seq(Jobs)
        BY <1>3
    <2>2. MinuteOf(n) \in Minutes
        BY MinuteInRange
    <2>. QED BY <1>3, <2>1, <2>2 DEF Start, TypeOK
<1>4. CASE rest' = [rest EXCEPT ![t] = <<>>] /\ UNCHANGED memory
    <2>1. rest' \in [Ticks -> Seq(Jobs)]
        BY <1>4 DEF TypeOK
    <2>. QED BY <1>2, <1>4, <2>1 DEF TypeOK, memory
<1>. QED BY <1>2, <1>3, <1>4 DEF LookAt

LEMMA TypeNext == Typed /\ Typed' /\ TypeOK /\ [Next]_vars => TypeOK'
<1> SUFFICES ASSUME Typed, Typed', TypeOK, [Next]_vars PROVE TypeOK'
    OBVIOUS
<1>0. /\ active' \in SUBSET Jobs /\ runs' \in [Jobs -> [Minutes -> Nat]]
      /\ owed' \in SUBSET (Jobs \X Minutes) /\ rest' \in [Ticks -> Seq(Jobs)]
      /\ step' \in [Ticks -> {"free", "select", "run", "log"}]
    BY DEF Typed
<1>1. ASSUME NEW t \in Ticks, StartTick(t) PROVE TypeOK'
    <2>1. overlapped' \in BOOLEAN
        BY <1>1 DEF StartTick, TypeOK
    <2>2. queue' \in Seq(Ticks) /\ inFlight' \in Ticks
        BY <1>1 DEF StartTick, TypeOK
    <2>. QED BY <1>0, <1>1, <2>1, <2>2 DEF StartTick, TypeOK, memory
<1>2. ASSUME NEW t \in Ticks, Select(t) PROVE TypeOK'
    <2>1. PICK list \in Snapshots(active) : LookAt(t, list, time)
        BY <1>2 DEF Select
    <2>2. active \in SUBSET Jobs /\ time \in Times
        BY DEF TypeOK
    <2>3. list \in Seq(Jobs)
        BY <2>2, SnapshotList
    <2>4. now' \in [Ticks -> Times]
        BY <1>2 DEF Select, TypeOK
    <2>5. Served(t)
        BY <1>2 DEF Select
    <2>6. /\ queue' \in Seq(Ticks)
          /\ lastRun' \in [Jobs -> Times \cup {None}]
          /\ lastMinute' \in [Jobs -> Minutes \cup {None}]
        BY <2>1, <2>2, <2>3, <2>5, LookInRange
    <2>. QED BY <1>0, <1>2, <2>4, <2>6 DEF Select, TypeOK
<1>3. ASSUME NEW t \in Ticks, SelectFails(t) \/ CommandEnds(t) PROVE TypeOK'
    <2>1. queue \in Seq(Ticks) /\ queue # <<>> /\ Tail(queue) \in Seq(Ticks)
        BY <1>3 DEF SelectFails, CommandEnds, Served, TypeOK
    <2>2. queue' \in Seq(Ticks)
        BY <1>3, <2>1 DEF SelectFails, CommandEnds
    <2>. QED BY <1>0, <1>3, <2>2 DEF SelectFails, CommandEnds, TypeOK, memory, others
<1>4. ASSUME NEW t \in Ticks, LogEnds(t) PROVE TypeOK'
    <2>1. /\ LookAt(t, rest[t], now[t]) /\ rest[t] \in Seq(Jobs) /\ now[t] \in Times /\ Served(t)
        BY <1>4 DEF LogEnds, TypeOK
    <2>2. /\ queue' \in Seq(Ticks)
          /\ lastRun' \in [Jobs -> Times \cup {None}]
          /\ lastMinute' \in [Jobs -> Minutes \cup {None}]
        BY <2>1, LookInRange
    <2>. QED BY <1>0, <1>4, <2>2 DEF LogEnds, TypeOK, others
<1>5. CASE Stop \/ Stopped \/ ChangeJobs
    BY <1>0, <1>5 DEF Stop, Stopped, ChangeJobs, TypeOK, memory, others
<1>6. CASE Clock
    <2>1. time' \in Times
        BY <1>6, ClockAssumption DEF Clock, TypeOK, Times
    <2>. QED BY <1>0, <1>6, <2>1 DEF Clock, TypeOK, memory, others
<1>7. CASE Restart
    <2>1. restarts' \in 0 .. MaxRestarts
        BY <1>7, BoundAssumption DEF Restart, TypeOK
    <2>2. /\ time' \in Times /\ now' \in [Ticks -> Times]
          /\ phase' = "up" /\ inFlight' = None /\ queue' = <<>> /\ overlapped' = FALSE
        BY <1>7 DEF Restart, TypeOK
    <2>3. /\ lastRun' \in [Jobs -> Times \cup {None}]
          /\ lastMinute' \in [Jobs -> Minutes \cup {None}]
        BY <1>7 DEF Restart
    <2>4. overlapped' \in BOOLEAN /\ phase' \in {"up", "stopping", "stopped"}
        BY <2>2, Zenon
    <2>5. queue' \in Seq(Ticks) /\ inFlight' \in Ticks \cup {None}
        BY <1>7 DEF Restart
    <2>. QED BY <1>0, <2>1, <2>2, <2>3, <2>4, <2>5, Zenon DEF TypeOK
<1>8. CASE UNCHANGED vars
    BY <1>8 DEF vars, TypeOK
<1>. QED BY <1>1, <1>2, <1>3, <1>4, <1>5, <1>6, <1>7, <1>8 DEF Next, Serve

(* The clock, the ticks and what is remembered of the jobs are of their types *)
(* in every state.                                                           *)
THEOREM SchedulerTyped == Spec => []TypeOK
<1>1. Init => Typed /\ TypeOK
    <2>1. Init => 0 \in Times
        BY ClockAssumption DEF Times
    <2>2. Init => 0 \in 0 .. MaxRestarts
        BY BoundAssumption
    <2>3. Init => /\ step \in [Ticks -> {"free", "select", "run", "log"}]
                  /\ rest \in [Ticks -> Seq(Jobs)] /\ runs \in [Jobs -> [Minutes -> Nat]]
                  /\ owed \in SUBSET (Jobs \X Minutes) /\ active \in SUBSET Jobs
        BY TypedInit DEF Typed
    <2>4. Init => overlapped \in BOOLEAN /\ phase \in {"up", "stopping", "stopped"}
        BY Zenon DEF Init
    <2>5. Init => queue \in Seq(Ticks) /\ inFlight \in Ticks \cup {None}
        BY DEF Init
    <2>6. Init => /\ lastRun \in [Jobs -> Times \cup {None}]
                  /\ lastMinute \in [Jobs -> Minutes \cup {None}]
        BY DEF Init
    <2>7. Init => time \in Times /\ now \in [Ticks -> Times] /\ restarts \in 0 .. MaxRestarts
        BY <2>1, <2>2 DEF Init
    <2>8. Init => TypeOK
        BY <2>3, <2>4, <2>5, <2>6, <2>7, Zenon DEF TypeOK
    <2>. QED BY <2>8, TypedInit
<1>2. Typed /\ TypeOK /\ [Next]_vars => Typed' /\ TypeOK'
    BY TypedNext, TypeNext
<1>. QED BY <1>1, <1>2, PTL DEF Spec

============================================================================
