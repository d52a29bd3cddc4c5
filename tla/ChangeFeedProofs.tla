-------------------------- MODULE ChangeFeedProofs --------------------------
(***************************************************************************)
(* Proofs about ChangeFeed, for any number of subscribers, changes, schema  *)
(* changes, faults and moves: the types; that the caches are current; that  *)
(* a record is sent only to those who could see the row; that no change is  *)
(* missed; and that none is overtaken.                                      *)
(***************************************************************************)
EXTENDS ChangeFeed, FiniteSetTheorems, SequenceTheorems, WellFoundedInduction, TLAPS

Early == {"columns", "keys", "policies", "columnsAgain", "keysAgain"}

(* Notifications come in commit order, and a dispatch starts with its own.   *)
Started(n) == task[n].pc # "idle"
PendingWaits ==
    \A i \in 1 .. Len(pending) :
        /\ pending[i] <= Len(log) /\ ~Started(pending[i])
        /\ \A n \in Changes : Started(n) => n < pending[i]
PendingInOrder == \A i, j \in 1 .. Len(pending) : i < j => pending[i] < pending[j]
StartedCommitted == \A n \in Changes : Started(n) => n <= Len(log)

(* Each dispatch has one query in the line, and the schema changes in it are *)
(* within the bound.                                                         *)
QueuedOnce ==
    \A i, j \in 1 .. Len(queue) : queue[i][1] = queue[j][1] /\ queue[i][1] # 0 => i = j
SchemaIn(line) == {i \in DOMAIN line : line[i][1] = 0}
RoomForDdl == Len(catalog) + Cardinality(SchemaIn(queue)) <= MaxDdl + 1

(* What a dispatch knows at each of its steps.                               *)
StepKnown(n) ==
    /\ task[n].pc \in {"keys", "keysAgain", "visible"} => task[n].ver \in 1 .. Version
    /\ task[n].pc \in {"columnsAgain", "keysAgain", "visible"} => task[n].rls = TRUE
    /\ task[n].pc = "visible" =>
         task[n].at \in Subs /\ task[n].as \in Users /\ CanLookUp(n, task[n].ver)

(* The row is what the last change left.                                     *)
VersionsKnown == \A k \in 1 .. Len(log) : log[k].ver <= Version
RowIsLast ==
    IF log = <<>> THEN row = None
    ELSE row = IF log[Len(log)].type = "DELETE" THEN None ELSE log[Len(log)].owner

Lined ==
    /\ PendingWaits /\ PendingInOrder /\ StartedCommitted
    /\ QueuedOnce /\ RoomForDdl
    /\ \A n \in Changes : StepKnown(n)
    /\ VersionsKnown /\ RowIsLast
TypeInv == TypeOK /\ Lined

(* The caches: what a read under way brings back is as new as the schema,    *)
(* unless a schema change raced with it.                                     *)
ReadsCurrent == ~raced => \A n \in Reading : task[n].ver = Version
CacheInv == ReadsCurrent /\ CachesCurrent

(* What a dispatch that heard of no fault takes for the policies of the      *)
(* table was in force at some moment since the commit.                       *)
InForce(n, b) == \E v \in log[n].ver .. Version : catalog[v].rls = b
PolicySeen(n) ==
    /\ rlsCache # None => InForce(n, rlsCache)
    /\ task[n].pc \in {"columnsAgain", "keysAgain", "visible"} => InForce(n, TRUE)
PolicyInv == \A n \in Running \ blind : PolicySeen(n)

(* Who has been visited.                                                     *)
Reached(n) == CASE task[n].pc = "done" -> NSubs + 1
                [] task[n].pc = "visible" -> task[n].at
                [] OTHER -> 0
Heard(n, s) == \E i \in DOMAIN got[s] : got[s][i].n = n
Watching(s, n) == s \notin moved /\ sub[s] # None /\ since[s] < n
Noticed(n) == Started(n) \/ n \in Range(pending)
Attached == (hooked /\ hookSince < MaxChanges => trigger) /\ \A s \in Subs : sub[s] # None => trigger
PostedOrPending == hooked => \A n \in 1 .. Len(log) : hookSince < n => n \in post \cup Range(pending)
WatchedNoticed == \A s \in Subs, n \in 1 .. Len(log) : Watching(s, n) => Noticed(n)
IdentityKept == \A n \in Changes : task[n].pc = "visible" /\ task[n].at \notin moved => sub[task[n].at] = task[n].as
VisitedHeard ==
    \A s \in Subs, n \in 1 .. Len(log) :
        Watching(s, n) /\ s < Reached(n) /\ n \notin blind /\ Certain(n, s) => Heard(n, s)
FeedInv == Attached /\ PostedOrPending /\ WatchedNoticed /\ IdentityKept /\ VisitedHeard

(* A dispatch that was not disturbed waits for a look-up, and whoever        *)
(* started after it is behind it.                                            *)
AheadIn(line, m, n) == \E i, j \in 1 .. Len(line) : i < j /\ line[i][1] = m /\ line[j][1] = n
Ahead(m, n) == AheadIn(queue, m, n)
Behind(m, n) ==
    /\ task[n].pc = "visible"
    /\ task[n].at < task[m].at \/ (task[n].at = task[m].at /\ Ahead(m, n))
InStep(m) ==
    /\ task[m].pc = "visible" /\ ~spoiled /\ Rls = TRUE
    /\ sub[task[m].at] \in Users
    /\ \A n \in Changes : m < n /\ Started(n) => Behind(m, n)
SentBehind == \A s \in Subs : \A i \in DOMAIN got[s] : s < Reached(got[s][i].n)
Undisturbed == \A m \in Running \ disturbed : InStep(m)
OrderInv == SentBehind /\ Undisturbed /\ NoOvertaking

----------------------------------------------------------------------------
(* The line of queries.                                                      *)

Tasks(line) == {line[i][1] : i \in DOMAIN line} \ {0}
OnceIn(line) == \A i, j \in 1 .. Len(line) : line[i][1] = line[j][1] /\ line[i][1] # 0 => i = j

(* The line as a dispatch finds it that comes from its head, or from outside.*)
LineOf(n, line) ==
    /\ line \in Seq(Query) /\ OnceIn(line)
    /\ Tasks(line) = Running \ {n}
    /\ Cardinality(SchemaIn(line)) = Cardinality(SchemaIn(queue))

LEMMA QueryKinds ==
    ASSUME NEW q \in Query
    PROVE  \/ q[1] = 0
           \/ q[1] \in Changes /\ q[1] # 0 /\ q = <<q[1], "task">>
  BY CountAssumption DEF Query, Changes

LEMMA SchemaFinite ==
    ASSUME NEW line \in Seq(Query)
    PROVE  IsFiniteSet(SchemaIn(line)) /\ Cardinality(SchemaIn(line)) \in Nat
  <1>1. IsFiniteSet(1 .. Len(line)) /\ SchemaIn(line) \subseteq 1 .. Len(line)
    BY FS_Interval DEF SchemaIn
  <1>2. QED
    BY <1>1, FS_Subset, FS_CardinalityType

LEMMA AppendTask ==
    ASSUME NEW line \in Seq(Query), NEW n \in Changes
    PROVE  LET longer == Append(line, <<n, "task">>) IN
           /\ longer \in Seq(Query)
           /\ Tasks(longer) = Tasks(line) \cup {n}
           /\ SchemaIn(longer) = SchemaIn(line)
           /\ OnceIn(line) /\ n \notin Tasks(line) => OnceIn(longer)
  <1> DEFINE longer == Append(line, <<n, "task">>)
  <1>1. <<n, "task">> \in Query /\ n # 0 /\ <<n, "task">>[1] = n
    BY CountAssumption DEF Query, Changes
  <1>2. /\ longer \in Seq(Query) /\ Len(longer) = Len(line) + 1 /\ DOMAIN longer = 1 .. Len(line) + 1
        /\ DOMAIN line = 1 .. Len(line) /\ Len(line) \in Nat
        /\ \A i \in 1 .. Len(line) : longer[i] = line[i]
        /\ longer[Len(line) + 1] = <<n, "task">>
    BY <1>1, AppendProperties
  <1> HIDE DEF longer
  <1>3. Tasks(longer) = Tasks(line) \cup {n}
    BY <1>1, <1>2 DEF Tasks
  <1>4. SchemaIn(longer) = SchemaIn(line)
    BY <1>1, <1>2 DEF SchemaIn
  <1>5. ASSUME OnceIn(line), n \notin Tasks(line) PROVE OnceIn(longer)
    <2>1. \A i \in 1 .. Len(line) : line[i][1] # n
      BY <1>1, <1>2, <1>5 DEF Tasks
    <2>2. ASSUME NEW i \in 1 .. Len(line) + 1, NEW j \in 1 .. Len(line) + 1,
                 longer[i][1] = longer[j][1], longer[i][1] # 0
          PROVE  i = j
      <3>1. i \in 1 .. Len(line) \/ i = Len(line) + 1
        BY <1>2
      <3>2. j \in 1 .. Len(line) \/ j = Len(line) + 1
        BY <1>2
      <3>3. QED
        BY <1>1, <1>2, <1>5, <2>1, <2>2, <3>1, <3>2 DEF OnceIn
    <2>3. QED
      BY <1>2, <2>2 DEF OnceIn
  <1>6. QED
    BY <1>2, <1>3, <1>4, <1>5 DEF longer

LEMMA AppendSchema ==
    ASSUME NEW line \in Seq(Query)
    PROVE  LET longer == Append(line, <<0, "schema">>) IN
           /\ longer \in Seq(Query)
           /\ Tasks(longer) = Tasks(line)
           /\ Cardinality(SchemaIn(longer)) = Cardinality(SchemaIn(line)) + 1
           /\ OnceIn(line) => OnceIn(longer)
  <1> DEFINE longer == Append(line, <<0, "schema">>)
  <1>1. <<0, "schema">> \in Query /\ <<0, "schema">>[1] = 0
    BY DEF Query
  <1>2. /\ longer \in Seq(Query) /\ Len(longer) = Len(line) + 1 /\ DOMAIN longer = 1 .. Len(line) + 1
        /\ DOMAIN line = 1 .. Len(line) /\ Len(line) \in Nat
        /\ \A i \in 1 .. Len(line) : longer[i] = line[i]
        /\ longer[Len(line) + 1] = <<0, "schema">>
    BY <1>1, AppendProperties
  <1> HIDE DEF longer
  <1>3. Tasks(longer) = Tasks(line)
    BY <1>1, <1>2 DEF Tasks
  <1>4. SchemaIn(longer) = SchemaIn(line) \cup {Len(line) + 1} /\ Len(line) + 1 \notin SchemaIn(line)
    BY <1>1, <1>2 DEF SchemaIn
  <1>5. Cardinality(SchemaIn(longer)) = Cardinality(SchemaIn(line)) + 1
    BY <1>4, SchemaFinite, FS_AddElement
  <1>6. OnceIn(line) => OnceIn(longer)
    BY <1>1, <1>2 DEF OnceIn
  <1>7. QED
    BY <1>2, <1>3, <1>5, <1>6 DEF longer

LEMMA TailLine ==
    ASSUME NEW line \in Seq(Query), line # <<>>, OnceIn(line)
    PROVE  /\ Tail(line) \in Seq(Query) /\ OnceIn(Tail(line))
           /\ Tasks(Tail(line)) = Tasks(line) \ {line[1][1]}
           /\ Cardinality(SchemaIn(Tail(line))) =
                Cardinality(SchemaIn(line)) - (IF line[1][1] = 0 THEN 1 ELSE 0)
  <1> DEFINE rest == Tail(line)
  <1>1. /\ rest \in Seq(Query) /\ Len(rest) = Len(line) - 1 /\ DOMAIN rest = 1 .. Len(line) - 1
        /\ DOMAIN line = 1 .. Len(line) /\ Len(line) \in Nat /\ Len(line) > 0
        /\ \A i \in 1 .. Len(line) - 1 : rest[i] = line[i + 1]
    BY HeadTailProperties
  <1> HIDE DEF rest
  <1>2. \A i \in 1 .. Len(line) : i = 1 \/ (i - 1 \in 1 .. Len(line) - 1 /\ rest[i - 1] = line[i])
    BY <1>1
  <1>3. OnceIn(rest)
    <2>1. ASSUME NEW i \in 1 .. Len(rest), NEW j \in 1 .. Len(rest),
                 rest[i][1] = rest[j][1], rest[i][1] # 0
          PROVE  i = j
      <3>1. i + 1 \in 1 .. Len(line) /\ j + 1 \in 1 .. Len(line)
        BY <1>1
      <3>2. i + 1 = j + 1
        BY <1>1, <2>1, <3>1 DEF OnceIn
      <3>3. QED
        BY <3>2
    <2>2. QED
      BY <2>1 DEF OnceIn
  <1>4. Tasks(rest) = Tasks(line) \ {line[1][1]}
    <2>1. ASSUME NEW n \in Tasks(rest) PROVE n \in Tasks(line) \ {line[1][1]}
      <3>1. PICK i \in 1 .. Len(line) - 1 : n = rest[i][1] /\ n # 0
        BY <1>1 DEF Tasks
      <3>2. i + 1 \in 1 .. Len(line) /\ i + 1 # 1 /\ n = line[i + 1][1]
        BY <1>1, <3>1
      <3>3. n # line[1][1]
        BY <1>1, <3>1, <3>2 DEF OnceIn
      <3>4. QED
        BY <1>1, <3>1, <3>2, <3>3 DEF Tasks
    <2>2. ASSUME NEW n \in Tasks(line), n # line[1][1] PROVE n \in Tasks(rest)
      <3>1. PICK i \in 1 .. Len(line) : n = line[i][1] /\ n # 0
        BY <1>1 DEF Tasks
      <3>2. i - 1 \in 1 .. Len(line) - 1 /\ rest[i - 1] = line[i]
        BY <1>2, <2>2, <3>1
      <3>3. QED
        BY <1>1, <3>1, <3>2 DEF Tasks
    <2>3. QED
      BY <2>1, <2>2
  <1>5. Cardinality(SchemaIn(rest)) = Cardinality(SchemaIn(line) \ {1})
    <2> DEFINE back == [i \in SchemaIn(rest) |-> i + 1]
    <2>1. back \in Injection(SchemaIn(rest), SchemaIn(line) \ {1})
      <3>1. \A i \in SchemaIn(rest) : i \in Nat /\ i + 1 \in SchemaIn(line) \ {1}
        BY <1>1 DEF SchemaIn
      <3>2. QED
        BY <3>1 DEF Injection, IsInjective
    <2>2. back \in Surjection(SchemaIn(rest), SchemaIn(line) \ {1})
      <3>1. ASSUME NEW i \in SchemaIn(line) \ {1} PROVE \E k \in SchemaIn(rest) : back[k] = i
        <4>1. i - 1 \in SchemaIn(rest) /\ (i - 1) + 1 = i
          BY <1>1, <1>2 DEF SchemaIn
        <4>2. QED
          BY <4>1
      <3>2. QED
        BY <2>1, <3>1 DEF Surjection, Injection
    <2>3. IsFiniteSet(SchemaIn(rest))
      BY <1>1, SchemaFinite
    <2>4. QED
      BY <2>1, <2>2, <2>3, FS_Surjection
  <1>6. 1 \in SchemaIn(line) <=> line[1][1] = 0
    BY <1>1 DEF SchemaIn
  <1>7. Cardinality(SchemaIn(rest)) = Cardinality(SchemaIn(line)) - (IF line[1][1] = 0 THEN 1 ELSE 0)
    <2>1. IsFiniteSet(SchemaIn(line)) /\ Cardinality(SchemaIn(line)) \in Nat
      BY SchemaFinite
    <2>2. Cardinality(SchemaIn(line) \ {1}) =
            IF 1 \in SchemaIn(line) THEN Cardinality(SchemaIn(line)) - 1 ELSE Cardinality(SchemaIn(line))
      BY <2>1, FS_RemoveElement
    <2>3. QED
      BY <1>5, <1>6, <2>1, <2>2
  <1>8. QED
    BY <1>1, <1>3, <1>4, <1>7 DEF rest

----------------------------------------------------------------------------
(* The walk of a dispatch along the subscribers.                             *)

LEMMA SmallestOf ==
    ASSUME NEW S \in SUBSET Nat, S # {}
    PROVE  \E m \in S : \A k \in S : m <= k
  <1> DEFINE less == OpToRel(<, Nat)
  <1>1. IsWellFoundedOn(less, Nat)
    BY NatLessThanWellFounded
  <1>2. \A k, m \in Nat : k < m => <<k, m>> \in less
    BY DEF OpToRel
  <1> HIDE DEF less
  <1>3. PICK m \in S : \A k \in S : ~(<<k, m>> \in less)
    BY <1>1, WFMin
  <1>4. ASSUME NEW k \in S PROVE m <= k
    <2>1. k \in Nat /\ m \in Nat /\ ~(<<k, m>> \in less)
      BY <1>3
    <2>2. ~(k < m)
      BY <1>2, <2>1
    <2>3. QED
      BY <2>1, <2>2
  <1>5. QED
    BY <1>4

(* The walk stops at the next subscriber that needs a query, if there is one.*)
LEMMA StopsAt ==
    ASSUME NEW n, NEW rls, NEW ver, NEW at \in 0 .. NSubs
    PROVE  /\ Stop(n, rls, ver, at) \in at + 1 .. NSubs + 1
           /\ Stop(n, rls, ver, at) <= NSubs => Stop(n, rls, ver, at) \in Subs /\ NeedsQuery(n, Stop(n, rls, ver, at), rls, ver)
           /\ \A s \in Subs : at < s /\ s < Stop(n, rls, ver, at) => ~NeedsQuery(n, s, rls, ver)
           /\ \A s \in Subs : at < s /\ NeedsQuery(n, s, rls, ver) => Stop(n, rls, ver, at) <= s
  <1> DEFINE asked == {s \in Subs : s > at /\ NeedsQuery(n, s, rls, ver)}
  <1>1. Stop(n, rls, ver, at) = IF asked = {} THEN NSubs + 1 ELSE CHOOSE s \in asked : \A t \in asked : s <= t
    BY DEF Stop
  <1>2. NSubs \in Nat /\ Subs = 1 .. NSubs /\ at \in Nat /\ at <= NSubs
    BY CountAssumption DEF Subs
  <1>3. CASE asked = {}
    BY <1>1, <1>2, <1>3
  <1>4. CASE asked # {}
    <2>1. asked \in SUBSET Nat
      BY <1>2
    <2>2. \E m \in asked : \A k \in asked : m <= k
      BY <1>4, <2>1, SmallestOf
    <2>3. Stop(n, rls, ver, at) \in asked /\ \A t \in asked : Stop(n, rls, ver, at) <= t
      BY <1>1, <1>4, <2>2
    <2>4. QED
      BY <1>2, <2>3
  <1>5. QED
    BY <1>3, <1>4

(* A dispatch that waits for a query other than a look-up.                   *)
At(n) == IF task[n].pc = "visible" THEN task[n].at ELSE 0
Known(n, rls) == n \notin blind' => InForce(n, rls)

Waits(n, line) ==
    \E pc \in Early, ver \in 0 .. MaxDdl + 1, rls \in BOOLEAN :
        /\ Suspend(n, pc, ver, rls, 0, line) /\ UNCHANGED got
        /\ task[n].pc # "visible"
        /\ pc \in {"keys", "keysAgain"} => ver = Version
        /\ pc \in {"columnsAgain", "keysAgain"} => rls = TRUE /\ Known(n, TRUE)

(* A dispatch that goes on along the subscribers.                            *)
SeenAt(n) ==
    IF task[n].pc = "visible" THEN {{t \in {task[n].at} : Visible(task[n].as)}} \cup {s \in {{}} : n \in blind'}
    ELSE {{}}
Walks(n, line) ==
    \E ver \in 0 .. MaxDdl + 1, rls \in BOOLEAN, seen \in SeenAt(n) :
        /\ Walk(n, ver, rls, At(n), seen, line)
        /\ task[n].pc = "visible" => rls = TRUE /\ ver = task[n].ver
        /\ rls => ver \in 1 .. Version
        /\ Known(n, rls)

TaskTyped(n) ==
    /\ task' \in [Changes -> Task]
    /\ \A m \in Changes \ {n} : task'[m] = task[m]
    /\ queue' \in Seq(Query) /\ OnceIn(queue')
    /\ Running' = Tasks(queue')
    /\ Cardinality(SchemaIn(queue')) = Cardinality(SchemaIn(queue))
    /\ task'[n].pc # "idle"

LEMMA SuspendTyped ==
    ASSUME TypeOK, NEW n \in Changes, NEW pc \in Steps, NEW ver \in 0 .. MaxDdl + 1,
           NEW rls \in BOOLEAN, NEW at \in 0 .. NSubs, NEW line, LineOf(n, line),
           Suspend(n, pc, ver, rls, at, line)
    PROVE  /\ TaskTyped(n)
           /\ task'[n] = [pc |-> pc, ver |-> ver, rls |-> rls, at |-> at, as |-> IF at = 0 THEN None ELSE sub[at]]
           /\ queue' = Append(line, <<n, "task">>)
  <1> DEFINE new == [pc |-> pc, ver |-> ver, rls |-> rls, at |-> at, as |-> IF at = 0 THEN None ELSE sub[at]]
  <1>1. task' = [task EXCEPT ![n] = new] /\ queue' = Append(line, <<n, "task">>)
    BY DEF Suspend
  <1>2. new \in Task /\ new.pc = pc
    <2>1. at # 0 => at \in Subs
      BY CountAssumption DEF Subs
    <2>2. (IF at = 0 THEN None ELSE sub[at]) \in Identities \cup {None}
      BY <2>1 DEF TypeOK
    <2>3. QED
      BY <2>2 DEF Task
  <1> HIDE DEF new
  <1>3. task \in [Changes -> Task]
    BY DEF TypeOK
  <1>4. task'[n] = new /\ \A m \in Changes \ {n} : task'[m] = task[m]
    BY <1>1, <1>3
  <1>5. Running' = Running \cup {n}
    BY <1>2, <1>4 DEF Running
  <1>6. /\ line \in Seq(Query) /\ OnceIn(line) /\ Tasks(line) = Running \ {n}
        /\ Cardinality(SchemaIn(line)) = Cardinality(SchemaIn(queue))
    BY DEF LineOf
  <1>7. /\ queue' \in Seq(Query) /\ Tasks(queue') = Tasks(line) \cup {n}
        /\ SchemaIn(queue') = SchemaIn(line) /\ OnceIn(queue')
    BY <1>1, <1>6, AppendTask
  <1>8. QED
    BY <1>1, <1>2, <1>3, <1>4, <1>5, <1>6, <1>7 DEF TaskTyped, new, Steps

LEMMA ServedSeen ==
    ASSUME NEW n, NEW rls, NEW ver, NEW at \in 0 .. NSubs, NEW s \in Served(n, rls, ver, at)
    PROVE  s \in Subs /\ s > at /\ s < Stop(n, rls, ver, at) /\ sub[s] # None /\ ~NeedsQuery(n, s, rls, ver)
  <1>1. s \in Subs /\ s > at /\ s < Stop(n, rls, ver, at) /\ sub[s] # None
    BY DEF Served
  <1>2. QED
    BY <1>1, StopsAt

LEMMA AtTyped ==
    ASSUME TypeInv, NEW n \in Changes
    PROVE  At(n) \in 0 .. NSubs
  BY CountAssumption DEF TypeInv, Lined, StepKnown, At, Subs

(* What a walk sends, and where it ends.                                     *)
Sends(n, rls, ver, seen) ==
    \A s \in Subs :
        \/ got'[s] = got[s] /\ s \notin Served(n, rls, ver, At(n)) \cup seen
        \/ \E as \in Identities :
             /\ got'[s] = Append(got[s], [n |-> n, as |-> as])
             /\ \/ s \in seen /\ task[n].pc = "visible" /\ s = task[n].at /\ as = task[n].as /\ Visible(as)
                \/ s \in Served(n, rls, ver, At(n)) /\ as = sub[s]

LEMMA WalkSends ==
    ASSUME TypeInv, NEW n \in Changes, NEW rls \in BOOLEAN, NEW ver \in 0 .. MaxDdl + 1, NEW seen \in SeenAt(n),
           Send(n, Served(n, rls, ver, At(n)), seen, task[n].as)
    PROVE  /\ got' \in [Subs -> Seq([n : Changes, as : Identities])]
           /\ Sends(n, rls, ver, seen)
  <1>1. seen \subseteq {At(n)} /\ (seen # {} => task[n].pc = "visible" /\ Visible(task[n].as) /\ task[n].at \in Subs /\ task[n].as \in Identities)
    BY DEF SeenAt, At, TypeInv, Lined, StepKnown, Identities
  <1>2. ASSUME NEW s \in Subs
        PROVE  \/ got'[s] = got[s] /\ s \notin Served(n, rls, ver, At(n)) \cup seen
               \/ \E as \in Identities :
                    /\ got'[s] = Append(got[s], [n |-> n, as |-> as])
                    /\ \/ s \in seen /\ task[n].pc = "visible" /\ s = task[n].at /\ as = task[n].as /\ Visible(as)
                       \/ s \in Served(n, rls, ver, At(n)) /\ as = sub[s]
    <2>1. got'[s] = IF s \in seen THEN Append(got[s], [n |-> n, as |-> task[n].as])
                    ELSE IF s \in Served(n, rls, ver, At(n)) THEN Append(got[s], [n |-> n, as |-> sub[s]])
                    ELSE got[s]
      BY DEF Send
    <2>2. CASE s \in seen
      BY <1>1, <2>1, <2>2 DEF At
    <2>3. CASE s \notin seen /\ s \in Served(n, rls, ver, At(n))
      <3>1. sub[s] \in Identities
        BY <2>3, AtTyped, ServedSeen DEF TypeInv, TypeOK
      <3>2. QED
        BY <2>1, <2>3, <3>1
    <2>4. CASE s \notin seen /\ s \notin Served(n, rls, ver, At(n))
      BY <2>1, <2>4
    <2>5. QED
      BY <2>2, <2>3, <2>4
  <1>3. ASSUME NEW s \in Subs PROVE got'[s] \in Seq([n : Changes, as : Identities])
    <2>1. got[s] \in Seq([n : Changes, as : Identities])
      BY DEF TypeInv, TypeOK
    <2>2. \A as \in Identities : [n |-> n, as |-> as] \in [n : Changes, as : Identities]
      OBVIOUS
    <2>3. \A as \in Identities : Append(got[s], [n |-> n, as |-> as]) \in Seq([n : Changes, as : Identities])
      BY <2>1, <2>2, AppendProperties
    <2>4. QED
      BY <1>2, <2>1, <2>3
  <1>4. got' = [s \in Subs |-> got'[s]]
    BY DEF Send
  <1>5. QED
    BY <1>2, <1>3, <1>4 DEF Sends

(* Where it leaves the dispatch.                                             *)
Ends(n) == task'[n].pc = "done" /\ task'[n].at = 0
Stops(n, rls, ver) ==
    LET at == Stop(n, rls, ver, At(n)) IN
    /\ at \in Subs /\ NeedsQuery(n, at, rls, ver)
    /\ task'[n].pc = "visible" /\ task'[n].at = at /\ task'[n].as = sub[at]
    /\ task'[n].rls = rls /\ task'[n].ver = ver

LEMMA WalkTyped ==
    ASSUME TypeInv, NEW n \in Changes, NEW ver \in 0 .. MaxDdl + 1, NEW rls \in BOOLEAN,
           NEW seen, NEW line, LineOf(n, line), Walk(n, ver, rls, At(n), seen, line)
    PROVE  /\ TaskTyped(n)
           /\ \/ Stop(n, rls, ver, At(n)) = NSubs + 1 /\ Ends(n) /\ queue' = line
              \/ Stop(n, rls, ver, At(n)) \in Subs /\ Stops(n, rls, ver) /\ queue' = Append(line, <<n, "task">>)
  <1> DEFINE at == Stop(n, rls, ver, At(n))
  <1>1. /\ at \in At(n) + 1 .. NSubs + 1 /\ At(n) \in 0 .. NSubs /\ NSubs \in Nat
        /\ at <= NSubs => at \in Subs /\ NeedsQuery(n, at, rls, ver)
    BY AtTyped, StopsAt, CountAssumption
  <1>2. CASE at > NSubs
    <2> DEFINE new == [pc |-> "done", ver |-> ver, rls |-> rls, at |-> 0, as |-> None]
    <2>1. task' = [task EXCEPT ![n] = new] /\ queue' = line /\ at = NSubs + 1
      BY <1>1, <1>2 DEF Walk
    <2>2. new \in Task /\ new.pc = "done" /\ new.at = 0
      BY <1>1 DEF Task
    <2> HIDE DEF new
    <2>3. task'[n] = new /\ \A m \in Changes \ {n} : task'[m] = task[m]
      BY <2>1 DEF TypeInv, TypeOK
    <2>4. Running' = Running \ {n}
      BY <2>2, <2>3 DEF Running, Steps
    <2>5. /\ line \in Seq(Query) /\ OnceIn(line) /\ Tasks(line) = Running \ {n}
          /\ Cardinality(SchemaIn(line)) = Cardinality(SchemaIn(queue))
      BY DEF LineOf
    <2>6. task' \in [Changes -> Task]
      BY <2>1, <2>2 DEF TypeInv, TypeOK
    <2>7. QED
      BY <2>1, <2>2, <2>3, <2>4, <2>5, <2>6 DEF TaskTyped, Ends
  <1>3. CASE at <= NSubs
    <2>1. Suspend(n, "visible", ver, rls, at, line) /\ "visible" \in Steps /\ at \in 0 .. NSubs /\ at # 0
      BY <1>1, <1>3 DEF Walk, Steps
    <2> HIDE DEF at
    <2>2. /\ TaskTyped(n)
          /\ task'[n] = [pc |-> "visible", ver |-> ver, rls |-> rls, at |-> at, as |-> IF at = 0 THEN None ELSE sub[at]]
          /\ queue' = Append(line, <<n, "task">>)
      BY <2>1, SuspendTyped DEF TypeInv
    <2>3. /\ task'[n].pc = "visible" /\ task'[n].at = at /\ task'[n].as = sub[at]
          /\ task'[n].rls = rls /\ task'[n].ver = ver
      BY <2>1, <2>2
    <2>4. QED
      BY <1>1, <1>3, <2>2, <2>3 DEF Stops, at
  <1>4. QED
    BY <1>1, <1>2, <1>3

----------------------------------------------------------------------------
(* The shapes of a dispatch's steps.                                         *)

Moves(n, line) == LineOf(n, line) /\ (Waits(n, line) \/ Walks(n, line))

LEMMA CatalogTyped ==
    ASSUME TypeInv
    PROVE  /\ Version \in 1 .. MaxDdl + 1 /\ Rls \in BOOLEAN /\ MaxDdl \in Nat
           /\ \A v \in 1 .. Version : catalog[v] \in Table
  <1>1. catalog \in Seq(Table) /\ Len(catalog) \in 1 .. MaxDdl + 1
    BY DEF TypeInv, TypeOK
  <1>2. QED
    <2>1. Version \in 1 .. MaxDdl + 1 /\ MaxDdl \in Nat /\ Version = Len(catalog)
      BY <1>1, CountAssumption DEF Version
    <2>2. \A v \in 1 .. Version : catalog[v] \in Table
      BY <1>1, <2>1, ElementOfSeq
    <2>3. catalog[Version] \in Table
      BY <2>1, <2>2
    <2>4. QED
      BY <2>1, <2>2, <2>3 DEF Rls, Table

LEMMA LogTyped ==
    ASSUME TypeInv, NEW n \in 1 .. Len(log)
    PROVE  log[n] \in Change /\ log[n].ver \in 1 .. Version
  <1>1. log[n] \in Change
    BY ElementOfSeq DEF TypeInv, TypeOK
  <1>2. log[n].ver <= Version /\ log[n].ver \in 1 .. MaxDdl + 1
    BY <1>1 DEF TypeInv, Lined, VersionsKnown, Change
  <1>3. QED
    BY <1>1, <1>2, CatalogTyped

(* The policies in force now were in force since any commit.                 *)
LEMMA NowInForce ==
    ASSUME TypeInv, NEW n \in 1 .. Len(log)
    PROVE  InForce(n, Rls)
  <1>1. Version \in log[n].ver .. Version /\ catalog[Version].rls = Rls
    BY LogTyped, CatalogTyped DEF Rls
  <1>2. QED
    BY <1>1 DEF InForce

LEMMA AfterPoliciesMoves ==
    ASSUME TypeInv, NEW n \in Changes, NEW ver \in 0 .. MaxDdl + 1, NEW rls \in BOOLEAN,
           NEW line, NEW cached, task[n].pc # "visible", Known(n, rls),
           rls /\ cached # None => cached \in 1 .. Version,
           AfterPolicies(n, ver, rls, line, cached)
    PROVE  Waits(n, line) \/ Walks(n, line)
  <1>1. CASE rls /\ cached = None
    <2>1. Suspend(n, "columnsAgain", ver, TRUE, 0, line) /\ UNCHANGED got /\ rls = TRUE
      BY <1>1 DEF AfterPolicies
    <2>2. QED
      BY <2>1 DEF Waits, Early
  <1>2. CASE ~(rls /\ cached = None)
    <2>1. PICK known : known = IF rls THEN cached ELSE ver
      OBVIOUS
    <2>2. Walk(n, known, rls, 0, {}, line)
      BY <1>2, <2>1 DEF AfterPolicies
    <2>3. At(n) = 0 /\ {} \in SeenAt(n)
      BY DEF At, SeenAt
    <2>4. known \in 0 .. MaxDdl + 1 /\ (rls => known \in 1 .. Version)
      BY <1>2, <2>1, CatalogTyped
    <2>5. QED
      BY <2>2, <2>3, <2>4 DEF Walks
  <1>3. QED
    BY <1>1, <1>2

LEMMA AfterSchemaMoves ==
    ASSUME TypeInv, NEW n \in Changes, NEW ver \in 0 .. MaxDdl + 1,
           NEW line, task[n].pc # "visible", rlsCache # None => Known(n, rlsCache), ver \in 1 .. Version,
           AfterSchema(n, ver, line)
    PROVE  Waits(n, line) \/ Walks(n, line)
  <1>1. CASE rlsCache = None
    <2>1. Suspend(n, "policies", ver, FALSE, 0, line) /\ UNCHANGED got
      BY <1>1 DEF AfterSchema
    <2>2. QED
      BY <2>1 DEF Waits, Early
  <1>2. CASE rlsCache # None
    <2>1. rlsCache \in BOOLEAN /\ Known(n, rlsCache)
      BY <1>2 DEF TypeInv, TypeOK
    <2>2. AfterPolicies(n, ver, rlsCache, line, ver)
      BY <1>2 DEF AfterSchema
    <2>3. QED
      BY <2>1, <2>2, AfterPoliciesMoves
  <1>3. QED
    BY <1>1, <1>2

(* A notification starts a dispatch.                                         *)
LEMMA NotifyMoves ==
    ASSUME TypeInv, CacheInv, PolicyInv, Notify
    PROVE  LET n == Head(pending) IN
           /\ n \in Changes /\ n \in 1 .. Len(log) /\ task[n].pc = "idle"
           /\ Moves(n, queue)
  <1> DEFINE n == Head(pending)
  <1>1. pending # <<>> /\ pending \in Seq(Changes) /\ 1 \in 1 .. Len(pending) /\ n = pending[1] /\ n \in Changes
    <2>1. pending # <<>> /\ pending \in Seq(Changes)
      BY DEF Notify, TypeInv, TypeOK
    <2>2. 1 \in 1 .. Len(pending)
      BY <2>1, EmptySeq
    <2>3. n = pending[1]
      BY <2>1
    <2>4. QED
      BY <2>1, <2>2, <2>3, ElementOfSeq
  <1>2. n <= Len(log) /\ task[n].pc = "idle"
    BY <1>1 DEF TypeInv, Lined, PendingWaits, Started
  <1>3. n \in 1 .. Len(log)
    BY <1>1, <1>2, CountAssumption DEF Changes, TypeInv, TypeOK
  <1>4. LineOf(n, queue)
    <2>1. n \notin Running
      BY <1>2 DEF Running, Steps
    <2>2. Running = Tasks(queue)
      BY DEF TypeInv, TypeOK, Tasks
    <2>3. QED
      BY <2>1, <2>2 DEF LineOf, TypeInv, TypeOK, Lined, QueuedOnce, OnceIn
  <1>5. rlsCache # None => Known(n, rlsCache)
    <2>1. SUFFICES ASSUME rlsCache # None, n \notin blind' PROVE InForce(n, rlsCache)
      BY DEF Known
    <2>2. ~spoiled
      BY <1>1, <2>1 DEF Notify
    <2>3. rlsCache = Rls
      BY <2>1, <2>2 DEF CacheInv, CachesCurrent
    <2>4. QED
      BY <1>3, <2>3, NowInForce
  <1>6. Waits(n, queue) \/ Walks(n, queue)
    <2>1. CASE schemaCache = None
      <3>1. Suspend(n, "columns", 0, FALSE, 0, queue) /\ UNCHANGED got
        BY <2>1 DEF Notify
      <3>2. 0 \in 0 .. MaxDdl + 1
        BY CountAssumption
      <3>3. QED
        BY <1>2, <3>1, <3>2 DEF Waits, Early
    <2>2. CASE schemaCache # None
      <3>1. AfterSchema(n, schemaCache, queue)
        BY <2>2 DEF Notify
      <3>2. schemaCache \in 0 .. MaxDdl + 1 /\ schemaCache \in 1 .. Version
        <4>1. schemaCache \in 1 .. Version
          BY <2>2 DEF TypeInv, TypeOK
        <4>2. Version \in 1 .. MaxDdl + 1 /\ MaxDdl \in Nat
          BY CatalogTyped
        <4>3. QED
          BY <4>1, <4>2
      <3>3. QED
        BY <1>1, <1>2, <1>5, <3>1, <3>2, AfterSchemaMoves
    <2>3. QED
      BY <2>1, <2>2
  <1>7. QED
    BY <1>1, <1>2, <1>3, <1>4, <1>6 DEF Moves

(* An answer moves the dispatch at the head of the line.                     *)
TaskAnswer ==
    /\ queue # <<>> /\ queue[1][1] # 0
    /\ \E n \in {queue[1][1]} : ReadColumns(n) \/ ReadKeys(n) \/ ReadPolicies(n) \/ LookUp(n)
    /\ UNCHANGED <<db, post, clients, disturbed, raced, spoiled>>

LEMMA AnswerMoves ==
    ASSUME TypeInv, CacheInv, PolicyInv, TaskAnswer
    PROVE  LET n == queue[1][1] IN
           /\ n \in Changes /\ n \in 1 .. Len(log) /\ task[n].pc \in Steps
           /\ queue[1] = <<n, "task">>
           /\ Moves(n, Tail(queue))
  <1> DEFINE n == queue[1][1]
             line == Tail(queue)
  <1>1. queue \in Seq(Query) /\ OnceIn(queue) /\ queue # <<>> /\ 1 \in 1 .. Len(queue)
    <2>1. queue \in Seq(Query) /\ queue # <<>> /\ OnceIn(queue)
      BY DEF TypeInv, TypeOK, Lined, QueuedOnce, OnceIn, TaskAnswer
    <2>2. QED
      BY <2>1, EmptySeq
  <1>2. n \in Changes /\ queue[1] = <<n, "task">> /\ n # 0
    <2>1. queue[1] \in Query
      BY <1>1, ElementOfSeq
    <2>2. QED
      BY <2>1, QueryKinds DEF TaskAnswer
  <1>3. Running = Tasks(queue) /\ n \in Running
    <2>1. Running = Tasks(queue)
      BY DEF TypeInv, TypeOK, Tasks
    <2>2. n \in Tasks(queue)
      BY <1>1, <1>2, LenProperties DEF Tasks
    <2>3. QED
      BY <2>1, <2>2
  <1>4. n \in 1 .. Len(log) /\ task[n].pc \in Steps
    <2>1. task[n].pc \in Steps
      BY <1>3 DEF Running
    <2>2. n <= Len(log)
      BY <1>2, <2>1 DEF TypeInv, Lined, StartedCommitted, Started, Steps
    <2>3. QED
      BY <1>2, <2>1, <2>2, CountAssumption DEF Changes, TypeInv, TypeOK
  <1>5. LineOf(n, line)
    <2>1. /\ line \in Seq(Query) /\ OnceIn(line) /\ Tasks(line) = Tasks(queue) \ {n}
          /\ Cardinality(SchemaIn(line)) = Cardinality(SchemaIn(queue)) - 0
      BY <1>1, <1>2, TailLine
    <2>2. Cardinality(SchemaIn(queue)) \in Nat
      BY <1>1, SchemaFinite
    <2>3. QED
      BY <1>3, <2>1, <2>2 DEF LineOf
  <1>6. task[n] \in Task /\ task[n].ver \in 0 .. MaxDdl + 1 /\ task[n].rls \in BOOLEAN /\ StepKnown(n)
    BY <1>2 DEF TypeInv, TypeOK, Task, Lined
  <1>7. blind \subseteq blind'
    BY DEF TaskAnswer, ReadColumns, ReadKeys, ReadPolicies, LookUp, Fault
  <1>8. n \notin blind' => PolicySeen(n)
    BY <1>3, <1>7 DEF PolicyInv
  <1> HIDE DEF n, line
  <1>9. Waits(n, line) \/ Walks(n, line)
    <2>1. CASE ReadColumns(n)
      <3> DEFINE pc == IF task[n].pc = "columns" THEN "keys" ELSE "keysAgain"
      <3>1. Suspend(n, pc, Version, task[n].rls, 0, line) /\ UNCHANGED got /\ pc \in {"keys", "keysAgain"}
        BY <2>1 DEF ReadColumns, line
      <3>2. task[n].pc # "visible" /\ (pc = "keysAgain" => task[n].pc = "columnsAgain")
        BY <2>1 DEF ReadColumns
      <3>3. pc = "keysAgain" => task[n].rls = TRUE /\ Known(n, TRUE)
        BY <1>6, <1>8, <3>2 DEF StepKnown, PolicySeen, Known
      <3>4. Version \in 0 .. MaxDdl + 1
        BY CatalogTyped
      <3> HIDE DEF pc
      <3>5. QED
        BY <1>6, <3>1, <3>2, <3>3, <3>4 DEF Waits, Early
    <2>2. CASE ReadKeys(n)
      <3>1. CASE task[n].pc = "keys"
        <4>1. AfterSchema(n, task[n].ver, line)
          BY <2>2, <3>1 DEF ReadKeys, line
        <4>2. rlsCache # None => Known(n, rlsCache)
          BY <1>8 DEF PolicySeen, Known
        <4>3. task[n].ver \in 1 .. Version
          BY <1>6, <3>1 DEF StepKnown
        <4>4. QED
          BY <1>2, <1>6, <3>1, <4>1, <4>2, <4>3, AfterSchemaMoves
      <3>2. CASE task[n].pc = "keysAgain"
        <4>1. Walk(n, task[n].ver, task[n].rls, 0, {}, line)
          BY <2>2, <3>2 DEF ReadKeys, line
        <4>2. At(n) = 0 /\ {} \in SeenAt(n)
          BY <3>2 DEF At, SeenAt
        <4>3. task[n].rls = TRUE /\ Known(n, TRUE) /\ task[n].ver \in 1 .. Version
          BY <1>6, <1>8, <3>2 DEF StepKnown, PolicySeen, Known
        <4>4. QED
          BY <1>6, <3>2, <4>1, <4>2, <4>3 DEF Walks
      <3>3. QED
        BY <2>2, <3>1, <3>2 DEF ReadKeys
    <2>3. CASE ReadPolicies(n)
      <3>1. task[n].pc = "policies"
        BY <2>3 DEF ReadPolicies
      <3>2. CASE AfterPolicies(n, task[n].ver, Rls, line, schemaCache)
        <4>1. Known(n, Rls) /\ Rls \in BOOLEAN
          BY <1>4, NowInForce, CatalogTyped DEF Known
        <4>2. schemaCache # None => schemaCache \in 1 .. Version
          BY DEF TypeInv, TypeOK
        <4>3. QED
          BY <1>2, <1>6, <3>1, <3>2, <4>1, <4>2, AfterPoliciesMoves
      <3>3. CASE Fault(n) /\ AfterPolicies(n, task[n].ver, FALSE, line, schemaCache)
        <4>1. Known(n, FALSE)
          BY <3>3 DEF Fault, Known
        <4>2. QED
          BY <1>2, <1>6, <3>1, <3>3, <4>1, AfterPoliciesMoves
      <3>4. QED
        BY <2>3, <3>2, <3>3 DEF ReadPolicies, line
    <2>4. CASE LookUp(n)
      <3>1. task[n].pc = "visible" /\ At(n) = task[n].at
        BY <2>4 DEF LookUp, At
      <3>2. task[n].rls = TRUE /\ Known(n, TRUE) /\ task[n].ver \in 1 .. Version
        BY <1>6, <1>8, <3>1 DEF StepKnown, PolicySeen, Known
      <3>3. \E seen \in SeenAt(n) : Walk(n, task[n].ver, task[n].rls, At(n), seen, line)
        <4>1. CASE Walk(n, task[n].ver, task[n].rls, task[n].at, {t \in {task[n].at} : Visible(task[n].as)}, line)
          BY <3>1, <4>1 DEF SeenAt
        <4>2. CASE Walk(n, task[n].ver, task[n].rls, task[n].at, {}, line) /\ Fault(n)
          <5>1. {} \in SeenAt(n)
            BY <3>1, <4>2 DEF SeenAt, Fault
          <5>2. QED
            BY <3>1, <4>2, <5>1
        <4>3. QED
          BY <2>4, <4>1, <4>2 DEF LookUp, line
      <3>4. QED
        BY <1>6, <3>1, <3>2, <3>3 DEF Walks
    <2>5. QED
      BY <2>1, <2>2, <2>3, <2>4 DEF TaskAnswer, n
  <1>10. QED
    BY <1>2, <1>4, <1>5, <1>9 DEF Moves, n, line

----------------------------------------------------------------------------
(* The types.                                                                *)

LEMMA MovesTyped ==
    ASSUME TypeInv, NEW n \in Changes, NEW line, Moves(n, line), UNCHANGED <<log, catalog>>
    PROVE  /\ TaskTyped(n)
           /\ got' \in [Subs -> Seq([n : Changes, as : Identities])]
           /\ \A m \in Changes : StepKnown(m)'
  <1>1. Version' = Version /\ Version \in 1 .. MaxDdl + 1
    BY CatalogTyped DEF Version
  <1>2. \A m \in Changes : StepKnown(m)
    BY DEF TypeInv, Lined
  <1>3. CASE Waits(n, line)
    <2>1. PICK pc \in Early, ver \in 0 .. MaxDdl + 1, rls \in BOOLEAN :
            /\ Suspend(n, pc, ver, rls, 0, line) /\ UNCHANGED got
            /\ pc \in {"keys", "keysAgain"} => ver = Version
            /\ pc \in {"columnsAgain", "keysAgain"} => rls = TRUE
      BY <1>3 DEF Waits
    <2>2. 0 \in 0 .. NSubs /\ pc \in Steps /\ pc # "visible"
      BY CountAssumption DEF Early, Steps
    <2>3. TaskTyped(n) /\ task'[n].pc = pc /\ task'[n].ver = ver /\ task'[n].rls = rls
      <3>1. LineOf(n, line) /\ TypeOK
        BY DEF Moves, TypeInv
      <3>2. TaskTyped(n) /\ task'[n] = [pc |-> pc, ver |-> ver, rls |-> rls, at |-> 0, as |-> IF 0 = 0 THEN None ELSE sub[0]]
        BY <2>1, <2>2, <3>1, SuspendTyped
      <3>3. QED
        BY <3>2
    <2>4. StepKnown(n)'
      BY <1>1, <2>1, <2>2, <2>3 DEF StepKnown
    <2>5. \A m \in Changes \ {n} : StepKnown(m)'
      BY <1>1, <1>2, <2>3 DEF StepKnown, TaskTyped, CanLookUp
    <2>6. QED
      BY <2>1, <2>3, <2>4, <2>5 DEF TypeInv, TypeOK
  <1>4. CASE Walks(n, line)
    <2>1. PICK ver \in 0 .. MaxDdl + 1, rls \in BOOLEAN, seen \in SeenAt(n) :
            Walk(n, ver, rls, At(n), seen, line) /\ (rls => ver \in 1 .. Version)
      BY <1>4 DEF Walks
    <2>2. /\ TaskTyped(n)
          /\ Ends(n) \/ Stops(n, rls, ver)
      BY <2>1, WalkTyped DEF Moves
    <2>3. got' \in [Subs -> Seq([n : Changes, as : Identities])]
      <3>1. Send(n, Served(n, rls, ver, At(n)), seen, task[n].as)
        BY <2>1 DEF Walk
      <3>2. QED
        BY <3>1, WalkSends
    <2>4. StepKnown(n)'
      <3>1. CASE Ends(n)
        BY <3>1 DEF Ends, StepKnown
      <3>2. CASE Stops(n, rls, ver)
        <4> DEFINE at == Stop(n, rls, ver, At(n))
        <4>1. at \in Subs /\ sub[at] # None /\ rls /\ sub[at] # Service /\ CanLookUp(n, ver)
          BY <3>2 DEF Stops, NeedsQuery, Bound
        <4>2. sub[at] \in Users
          BY <4>1 DEF TypeInv, TypeOK, Identities
        <4>3. /\ task'[n].pc = "visible" /\ task'[n].at = at /\ task'[n].as = sub[at]
              /\ task'[n].rls = rls /\ rls = TRUE /\ task'[n].ver = ver /\ ver \in 1 .. Version
          BY <2>1, <3>2, <4>1 DEF Stops
        <4> HIDE DEF at
        <4>4. CanLookUp(n, ver)'
          BY <4>1 DEF CanLookUp
        <4>5. QED
          BY <1>1, <4>1, <4>2, <4>3, <4>4 DEF StepKnown, CanLookUp
      <3>3. QED
        BY <2>2, <3>1, <3>2
    <2>5. \A m \in Changes \ {n} : StepKnown(m)'
      BY <1>1, <1>2, <2>2 DEF StepKnown, TaskTyped, CanLookUp
    <2>6. QED
      BY <2>2, <2>3, <2>4, <2>5
  <1>5. QED
    BY <1>3, <1>4 DEF Moves

BaseInv == TypeInv /\ CacheInv /\ PolicyInv

LEMMA TypeNotify ==
    ASSUME BaseInv, Notify
    PROVE  TypeInv'
  <1> DEFINE n == Head(pending)
  <1>1. /\ n \in Changes /\ n \in 1 .. Len(log) /\ task[n].pc = "idle" /\ Moves(n, queue)
    BY NotifyMoves DEF BaseInv
  <1>2. /\ TaskTyped(n) /\ got' \in [Subs -> Seq([n : Changes, as : Identities])]
        /\ \A m \in Changes : StepKnown(m)'
    BY <1>1, MovesTyped DEF BaseInv, Notify
  <1>3. /\ pending \in Seq(Changes) /\ pending # <<>> /\ pending' = Tail(pending) /\ n = pending[1]
        /\ pending' \in Seq(Changes) /\ Len(pending') = Len(pending) - 1 /\ Len(pending) \in Nat
        /\ \A i \in 1 .. Len(pending') : pending'[i] = pending[i + 1] /\ i + 1 \in 1 .. Len(pending)
        /\ 1 \in 1 .. Len(pending)
    <2>1. pending \in Seq(Changes) /\ pending # <<>> /\ pending' = Tail(pending)
      BY DEF BaseInv, TypeInv, TypeOK, Notify
    <2>2. Len(pending) \in Nat \ {0}
      BY <2>1, EmptySeq
    <2>3. n = pending[1]
      BY <2>1
    <2>4. /\ pending' \in Seq(Changes) /\ Len(pending') = Len(pending) - 1
          /\ \A i \in 1 .. Len(pending') : pending'[i] = pending[i + 1]
      BY <2>1, HeadTailProperties
    <2>5. QED
      BY <2>1, <2>2, <2>3, <2>4
  <1> HIDE DEF n
  <1>4. TypeOK'
    <2>1. /\ UNCHANGED <<row, log, trigger, catalog, schemaCache, rlsCache, sub, hooked, since, hookSince, moved, faults, raced, spoiled>>
          /\ post' \subseteq post \cup {n} /\ disturbed' \subseteq disturbed \cup {n} \cup Running
          /\ blind' \subseteq blind \cup {n}
      BY DEF Notify, caches, clients, n
    <2>2. post' \in SUBSET Changes /\ disturbed' \in SUBSET Changes /\ blind' \in SUBSET Changes
      BY <1>1, <2>1 DEF BaseInv, TypeInv, TypeOK, Running
    <2>3. task' \in [Changes -> Task] /\ queue' \in Seq(Query) /\ Running' = {queue'[i][1] : i \in DOMAIN queue'} \ {0}
      BY <1>2 DEF TaskTyped, Tasks
    <2>4. QED
      BY <1>2, <1>3, <2>1, <2>2, <2>3 DEF BaseInv, TypeInv, TypeOK, Version
  <1>5. \A m \in Changes : Started(m)' <=> Started(m) \/ m = n
    BY <1>1, <1>2 DEF TaskTyped, Started
  <1>6. UNCHANGED <<log, row, catalog>>
    BY DEF Notify
  <1>7. PendingWaits /\ PendingInOrder /\ StartedCommitted /\ VersionsKnown /\ RowIsLast /\ RoomForDdl
    BY DEF BaseInv, TypeInv, Lined
  <1>8. PendingWaits'
    <2>1. ASSUME NEW i \in 1 .. Len(pending')
          PROVE  /\ pending'[i] <= Len(log) /\ task'[pending'[i]].pc = "idle"
                 /\ \A m \in Changes : Started(m)' => m < pending'[i]
      <3>1. /\ i + 1 \in 1 .. Len(pending) /\ pending'[i] = pending[i + 1] /\ pending'[i] \in Changes
            /\ n < pending'[i]
        <4>1. i + 1 \in 1 .. Len(pending) /\ pending'[i] = pending[i + 1] /\ 1 < i + 1
          BY <1>3
        <4>2. pending[1] < pending[i + 1]
          BY <1>3, <1>7, <4>1 DEF PendingInOrder
        <4>3. QED
          BY <1>3, <4>1, <4>2, ElementOfSeq
      <3>2. pending[i + 1] <= Len(log) /\ ~Started(pending[i + 1]) /\ \A m \in Changes : Started(m) => m < pending[i + 1]
        BY <1>7, <3>1 DEF PendingWaits
      <3>3. n # pending'[i]
        BY <1>1, <3>1 DEF Changes
      <3>4. task'[pending'[i]].pc = "idle"
        BY <1>2, <3>1, <3>2, <3>3 DEF TaskTyped, Started
      <3>5. QED
        BY <1>5, <3>1, <3>2, <3>4
    <2>2. QED
      BY <1>6, <2>1 DEF PendingWaits, Started
  <1>9. PendingInOrder'
    <2>1. ASSUME NEW i \in 1 .. Len(pending'), NEW j \in 1 .. Len(pending'), i < j
          PROVE  pending'[i] < pending'[j]
      <3>1. i + 1 \in 1 .. Len(pending) /\ j + 1 \in 1 .. Len(pending) /\ i + 1 < j + 1
        BY <1>3, <2>1
      <3>2. QED
        BY <1>3, <1>7, <3>1 DEF PendingInOrder
    <2>2. QED
      BY <2>1 DEF PendingInOrder
  <1>10. StartedCommitted'
    BY <1>1, <1>5, <1>6, <1>7 DEF StartedCommitted
  <1>11. QueuedOnce' /\ RoomForDdl'
    BY <1>2, <1>6, <1>7 DEF TaskTyped, QueuedOnce, OnceIn, RoomForDdl
  <1>12. VersionsKnown' /\ RowIsLast'
    BY <1>6, <1>7 DEF VersionsKnown, RowIsLast, Version
  <1>13. QED
    BY <1>2, <1>4, <1>8, <1>9, <1>10, <1>11, <1>12 DEF TypeInv, Lined

LEMMA TypeAnswer ==
    ASSUME BaseInv, TaskAnswer
    PROVE  TypeInv'
  <1> DEFINE n == queue[1][1]
  <1>1. n \in Changes /\ n \in 1 .. Len(log) /\ task[n].pc \in Steps /\ Moves(n, Tail(queue))
    BY AnswerMoves DEF BaseInv
  <1>2. /\ TaskTyped(n) /\ got' \in [Subs -> Seq([n : Changes, as : Identities])]
        /\ \A m \in Changes : StepKnown(m)'
    BY <1>1, MovesTyped DEF TaskAnswer, db, BaseInv
  <1>3. UNCHANGED <<row, log, trigger, pending, catalog, sub, hooked, post, since, hookSince, moved, disturbed, raced, spoiled>>
    BY DEF TaskAnswer, db, clients
  <1>4. schemaCache' \in 1 .. Version \cup {None} /\ rlsCache' \in BOOLEAN \cup {None}
    <2>1. \/ schemaCache' = schemaCache
          \/ task[n].pc \in {"keys", "keysAgain"} /\ schemaCache' = task[n].ver
      BY DEF TaskAnswer, ReadColumns, ReadKeys, ReadPolicies, LookUp, caches
    <2>2. rlsCache' = rlsCache \/ rlsCache' = Rls
      BY DEF TaskAnswer, ReadColumns, ReadKeys, ReadPolicies, LookUp, caches
    <2>3. StepKnown(n)
      BY <1>1 DEF BaseInv, TypeInv, Lined
    <2>4. QED
      BY <2>1, <2>2, <2>3, CatalogTyped DEF BaseInv, TypeInv, TypeOK, StepKnown
  <1>5. blind' \in SUBSET Changes /\ faults' \in 0 .. MaxFaults
    <2>1. \/ blind' = blind /\ faults' = faults
          \/ blind' = blind \cup {n} /\ faults < MaxFaults /\ faults' = faults + 1
      BY DEF TaskAnswer, ReadColumns, ReadKeys, ReadPolicies, LookUp, Fault
    <2>2. QED
      BY <1>1, <2>1, CountAssumption DEF BaseInv, TypeInv, TypeOK
  <1> HIDE DEF n
  <1>6. TypeOK'
    <2>1. task' \in [Changes -> Task] /\ queue' \in Seq(Query) /\ Running' = {queue'[i][1] : i \in DOMAIN queue'} \ {0}
      BY <1>2 DEF TaskTyped, Tasks
    <2>2. QED
      BY <1>2, <1>3, <1>4, <1>5, <2>1 DEF BaseInv, TypeInv, TypeOK, Version
  <1>7. \A m \in Changes : Started(m)' <=> Started(m)
    BY <1>1, <1>2 DEF TaskTyped, Started, Steps
  <1>8. PendingWaits /\ PendingInOrder /\ StartedCommitted /\ VersionsKnown /\ RowIsLast /\ RoomForDdl
    BY DEF BaseInv, TypeInv, Lined
  <1>9. PendingWaits'
    <2>1. \A i \in 1 .. Len(pending) : pending[i] \in Changes
      BY ElementOfSeq DEF BaseInv, TypeInv, TypeOK
    <2>2. QED
      BY <1>3, <1>7, <1>8, <2>1 DEF PendingWaits
  <1>10. PendingInOrder' /\ StartedCommitted' /\ VersionsKnown' /\ RowIsLast'
    BY <1>3, <1>7, <1>8 DEF PendingInOrder, StartedCommitted, VersionsKnown, RowIsLast, Version
  <1>11. QueuedOnce' /\ RoomForDdl'
    BY <1>2, <1>3, <1>8 DEF TaskTyped, QueuedOnce, OnceIn, RoomForDdl
  <1>12. QED
    BY <1>2, <1>6, <1>9, <1>10, <1>11 DEF TypeInv, Lined

LEMMA TypeWrite ==
    ASSUME TypeInv, Write
    PROVE  TypeInv'
  <1>1. UNCHANGED <<trigger, catalog, schemaCache, rlsCache, queue, task, got, post, sub, hooked, since,
                    hookSince, moved, disturbed, blind, faults, raced, spoiled>>
    BY DEF Write, caches, clients
  <1>2. Len(log) < MaxChanges /\ log \in Seq(Change) /\ Len(log) \in Nat
    BY DEF Write, TypeInv, TypeOK
  <1>3. PICK owner \in Users, del \in BOOLEAN, record \in BOOLEAN :
          /\ del => row = owner
          /\ row' = IF del THEN None ELSE owner
          /\ log' = Append(log, [type |-> IF del THEN "DELETE" ELSE IF row = None THEN "INSERT" ELSE "UPDATE",
                                 owner |-> owner, record |-> record, ver |-> Version])
    BY DEF Write
  <1> DEFINE type == IF del THEN "DELETE" ELSE IF row = None THEN "INSERT" ELSE "UPDATE"
             new == [type |-> type, owner |-> owner, record |-> record, ver |-> Version]
  <1>4. new \in Change /\ new.owner = owner /\ new.ver = Version /\ new.type = type
    BY CatalogTyped DEF Change
  <1>5. new.type = "DELETE" <=> del
    BY <1>4
  <1>6. log' = Append(log, new)
    BY <1>3
  <1> HIDE DEF new, type
  <1>7. /\ log' \in Seq(Change) /\ Len(log') = Len(log) + 1 /\ log' # <<>>
        /\ \A k \in 1 .. Len(log) : log'[k] = log[k]
        /\ log'[Len(log')] = new
    BY <1>2, <1>4, <1>6, AppendProperties
  <1>8. RowIsLast'
    BY <1>3, <1>4, <1>5, <1>7 DEF RowIsLast
  <1>9. VersionsKnown'
    <2>1. ASSUME NEW k \in 1 .. Len(log') PROVE log'[k].ver <= Version
      <3>1. CASE k \in 1 .. Len(log)
        BY <1>7, <3>1 DEF TypeInv, Lined, VersionsKnown
      <3>2. CASE k = Len(log')
        BY <1>4, <1>7, <3>2, CatalogTyped
      <3>3. QED
        BY <1>2, <1>7, <3>1, <3>2
    <2>2. QED
      BY <1>1, <2>1 DEF VersionsKnown, Version
  <1>10. Len(log') \in Changes
    BY <1>2, <1>7, CountAssumption DEF Changes
  <1>11. pending \in Seq(Changes)
    BY DEF TypeInv, TypeOK
  <1>12. \/ pending' = pending
         \/ /\ Len(pending') = Len(pending) + 1 /\ pending' \in Seq(Changes) /\ Len(pending) \in Nat
            /\ \A i \in 1 .. Len(pending) : pending'[i] = pending[i]
            /\ pending'[Len(pending) + 1] = Len(log) + 1
    <2>1. CASE trigger
      <3>1. pending' = Append(pending, Len(log'))
        BY <2>1 DEF Write
      <3>2. QED
        BY <1>7, <1>10, <1>11, <3>1, AppendProperties
    <2>2. CASE ~trigger
      BY <2>2 DEF Write
    <2>3. QED
      BY <2>1, <2>2
  <1>13. TypeOK'
    <2>1. row' \in Users \cup {None}
      BY <1>3
    <2>2. log' \in Seq(Change) /\ Len(log') <= MaxChanges /\ pending' \in Seq(Changes)
      BY <1>2, <1>7, <1>11, <1>12, CountAssumption
    <2>3. Running' = Running
      BY <1>1 DEF Running
    <2>4. QED
      BY <1>1, <2>1, <2>2, <2>3 DEF TypeInv, TypeOK, Version
  <1>14. PendingWaits /\ PendingInOrder /\ StartedCommitted
    BY DEF TypeInv, Lined
  <1>15. PendingWaits'
    <2>1. ASSUME NEW i \in 1 .. Len(pending')
          PROVE  /\ pending'[i] <= Len(log') /\ task[pending'[i]].pc = "idle"
                 /\ \A n \in Changes : Started(n) => n < pending'[i]
      <3>1. CASE i \in 1 .. Len(pending) /\ pending'[i] = pending[i]
        <4>1. pending[i] \in Changes
          BY <1>11, <3>1, ElementOfSeq
        <4>2. pending[i] <= Len(log) /\ task[pending[i]].pc = "idle" /\ \A n \in Changes : Started(n) => n < pending[i]
          BY <1>14, <3>1 DEF PendingWaits, Started
        <4>3. QED
          BY <1>2, <1>7, <3>1, <4>1, <4>2 DEF Changes
      <3>2. CASE pending'[i] = Len(log) + 1
        <4>1. ~Started(Len(log) + 1)
          BY <1>2, <1>7, <1>10, <1>14 DEF StartedCommitted
        <4>2. \A n \in Changes : Started(n) => n < Len(log) + 1
          BY <1>2, <1>14 DEF StartedCommitted, Changes
        <4>3. QED
          BY <1>2, <1>7, <3>2, <4>1, <4>2 DEF Started
      <3>3. QED
        BY <1>12, <3>1, <3>2
    <2>2. QED
      BY <1>1, <2>1 DEF PendingWaits, Started
  <1>16. PendingInOrder'
    <2>1. \A i \in 1 .. Len(pending) : pending[i] \in Changes /\ pending[i] <= Len(log)
      BY <1>11, <1>14, ElementOfSeq DEF PendingWaits
    <2>2. QED
      BY <1>2, <1>12, <1>14, <2>1 DEF PendingInOrder, Changes
  <1>17. StartedCommitted'
    BY <1>1, <1>2, <1>7, <1>14 DEF StartedCommitted, Started, Changes
  <1>18. QueuedOnce' /\ RoomForDdl'
    BY <1>1 DEF TypeInv, Lined, QueuedOnce, RoomForDdl
  <1>19. ASSUME NEW n \in Changes PROVE StepKnown(n)'
    <2>1. task[n].pc = "visible" => n \in 1 .. Len(log)
      BY <1>2, <1>14 DEF StartedCommitted, Started, Changes
    <2>2. StepKnown(n)
      BY DEF TypeInv, Lined
    <2>3. task[n].pc = "visible" => (CanLookUp(n, task[n].ver) <=> CanLookUp(n, task[n].ver)')
      BY <1>1, <1>7, <2>1 DEF CanLookUp
    <2>4. QED
      BY <1>1, <1>7, <2>1, <2>2, <2>3 DEF StepKnown, Version
  <1>20. QED
    BY <1>8, <1>9, <1>13, <1>15, <1>16, <1>17, <1>18, <1>19 DEF TypeInv, Lined

LEMMA TypeDdl ==
    ASSUME TypeInv, queue # <<>>, queue[1][1] = 0, NEW kind \in {"ddl", "script"}, RunDdl(kind)
    PROVE  TypeInv'
  <1>1. UNCHANGED <<row, log, trigger, pending, task, got, post, sub, hooked, since, hookSince, moved, blind>>
    BY DEF RunDdl, clients
  <1>2. PICK b \in Table : catalog' = Append(catalog, b)
    BY DEF RunDdl
  <1>3. catalog \in Seq(Table) /\ Version \in 1 .. MaxDdl + 1 /\ MaxDdl \in Nat /\ Version = Len(catalog)
    BY CatalogTyped DEF TypeInv, TypeOK, Version
  <1>4. catalog' \in Seq(Table) /\ Version' = Version + 1
    BY <1>2, <1>3, AppendProperties DEF Version
  <1>5. /\ queue \in Seq(Query) /\ OnceIn(queue) /\ queue' = Tail(queue)
        /\ queue' \in Seq(Query) /\ OnceIn(queue') /\ Tasks(queue') = Tasks(queue) \ {0}
        /\ Cardinality(SchemaIn(queue')) = Cardinality(SchemaIn(queue)) - 1
    <2>1. queue \in Seq(Query) /\ OnceIn(queue) /\ queue' = Tail(queue)
      BY DEF TypeInv, TypeOK, Lined, QueuedOnce, OnceIn, RunDdl
    <2>2. QED
      BY <2>1, TailLine
  <1>6. Cardinality(SchemaIn(queue)) \in Nat /\ Cardinality(SchemaIn(queue')) \in Nat
    BY <1>5, SchemaFinite
  <1>7. RoomForDdl' /\ Len(catalog') \in 1 .. MaxDdl + 1
    <2>1. Len(catalog) + Cardinality(SchemaIn(queue)) <= MaxDdl + 1
      BY DEF TypeInv, Lined, RoomForDdl
    <2>2. QED
      BY <1>3, <1>4, <1>5, <1>6, <2>1 DEF RoomForDdl, Version
  <1>8. TypeOK'
    <2>1. schemaCache' \in 1 .. Version' \cup {None} /\ rlsCache' \in BOOLEAN \cup {None}
      <3>1. (schemaCache' = None /\ rlsCache' = None) \/ (schemaCache' = schemaCache /\ rlsCache' = rlsCache)
        BY DEF RunDdl, Invalidate, caches
      <3>2. schemaCache \in 1 .. Version \cup {None} /\ rlsCache \in BOOLEAN \cup {None}
        BY DEF TypeInv, TypeOK
      <3>3. CASE schemaCache' = None /\ rlsCache' = None
        BY <3>3
      <3>4. CASE schemaCache' = schemaCache /\ rlsCache' = rlsCache
        <4>1. 1 .. Version \subseteq 1 .. Version'
          BY <1>3, <1>4
        <4>2. QED
          BY <3>2, <3>4, <4>1
      <3>5. QED
        BY <3>1, <3>3, <3>4
    <2>2. faults' \in 0 .. MaxFaults
      <3>1. faults' = faults \/ (faults < MaxFaults /\ faults' = faults + 1)
        BY DEF RunDdl
      <3>2. QED
        BY <3>1, CountAssumption DEF TypeInv, TypeOK
    <2>3. spoiled' \in BOOLEAN /\ raced' \in BOOLEAN
      BY DEF RunDdl
    <2>4. disturbed' \in SUBSET Changes
      BY DEF RunDdl, Running, TypeInv, TypeOK
    <2>5. Running' = {queue'[i][1] : i \in DOMAIN queue'} \ {0}
      <3>1. Running = {queue[i][1] : i \in DOMAIN queue} \ {0}
        BY DEF TypeInv, TypeOK
      <3>2. Running' = Running
        BY <1>1 DEF Running
      <3>3. QED
        BY <1>5, <3>1, <3>2 DEF Tasks
    <2>6. QED
      BY <1>1, <1>4, <1>5, <1>7, <2>1, <2>2, <2>3, <2>4, <2>5 DEF TypeInv, TypeOK
  <1>9. PendingWaits' /\ PendingInOrder' /\ StartedCommitted' /\ RowIsLast'
    BY <1>1 DEF TypeInv, Lined, PendingWaits, PendingInOrder, StartedCommitted, RowIsLast, Started
  <1>10. VersionsKnown'
    <2>1. \A k \in 1 .. Len(log) : log[k].ver \in 1 .. Version
      BY LogTyped
    <2>2. QED
      BY <1>1, <1>3, <1>4, <2>1 DEF VersionsKnown
  <1>11. ASSUME NEW n \in Changes PROVE StepKnown(n)'
    <2>1. StepKnown(n)
      BY DEF TypeInv, Lined
    <2>2. \A v \in 1 .. Version : v \in 1 .. Version' /\ catalog'[v] = catalog[v]
      BY <1>2, <1>3, <1>4, AppendProperties
    <2>3. task[n].ver \in 1 .. Version => (CanLookUp(n, task[n].ver) <=> CanLookUp(n, task[n].ver)')
      BY <1>1, <2>2 DEF CanLookUp
    <2>4. QED
      BY <1>1, <2>1, <2>2, <2>3 DEF StepKnown
  <1>12. QED
    BY <1>5, <1>7, <1>8, <1>9, <1>10, <1>11 DEF TypeInv, Lined, QueuedOnce, OnceIn

LEMMA TypeRequest ==
    ASSUME TypeInv, RequestDdl
    PROVE  TypeInv'
  <1>1. UNCHANGED <<row, log, trigger, pending, catalog, schemaCache, rlsCache, task, got, post, sub, hooked, since,
                    hookSince, moved, disturbed, blind, faults, raced, spoiled>>
    BY DEF RequestDdl, db, caches, clients
  <1>2. queue \in Seq(Query) /\ OnceIn(queue) /\ queue' = Append(queue, <<0, "schema">>)
    BY DEF TypeInv, TypeOK, Lined, QueuedOnce, OnceIn, RequestDdl
  <1>3. /\ queue' \in Seq(Query) /\ OnceIn(queue') /\ Tasks(queue') = Tasks(queue)
        /\ Cardinality(SchemaIn(queue')) = Cardinality(SchemaIn(queue)) + 1
    BY <1>2, AppendSchema
  <1>4. RoomForDdl'
    <2>1. Version + Cardinality(SchemaIn(queue)) <= MaxDdl /\ Cardinality(SchemaIn(queue)) \in Nat
      BY <1>2, SchemaFinite DEF RequestDdl, SchemaIn
    <2>2. Version \in Nat /\ MaxDdl \in Nat /\ Version = Len(catalog)
      BY CatalogTyped DEF Version
    <2>3. QED
      BY <1>1, <1>3, <2>1, <2>2 DEF RoomForDdl
  <1>5. TypeOK'
    <2>1. Running' = {queue'[i][1] : i \in DOMAIN queue'} \ {0}
      BY <1>1, <1>3 DEF TypeInv, TypeOK, Running, Tasks
    <2>2. QED
      BY <1>1, <1>3, <2>1 DEF TypeInv, TypeOK, Version
  <1>6. QED
    BY <1>1, <1>3, <1>4, <1>5
       DEF TypeInv, Lined, PendingWaits, PendingInOrder, StartedCommitted, QueuedOnce, OnceIn, StepKnown, CanLookUp,
           VersionsKnown, RowIsLast, Started, Version

(* Joining, leaving and registering leave the line and the log alone.        *)
LEMMA TypeQuiet ==
    ASSUME TypeInv,
           AttachTrigger \/ Register \/ (\E s \in Subs : Join(s) \/ Move(s)) \/ UNCHANGED vars
    PROVE  TypeInv'
  <1>1. UNCHANGED <<row, log, pending, catalog, schemaCache, rlsCache, queue, task, got, post, blind, faults, raced, spoiled>>
    BY DEF AttachTrigger, Register, Join, Move, vars, db, caches, clients
  <1>2. Len(log) \in 0 .. MaxChanges /\ MaxChanges \in 0 .. MaxChanges
    BY CountAssumption DEF TypeInv, TypeOK
  <1>3. trigger' \in BOOLEAN /\ hooked' \in BOOLEAN
    BY DEF AttachTrigger, Register, Join, Move, vars, db, clients, TypeInv, TypeOK
  <1>4. sub' \in [Subs -> Identities \cup {None}] /\ since' \in [Subs -> 0 .. MaxChanges] /\ hookSince' \in 0 .. MaxChanges
    <2>1. sub \in [Subs -> Identities \cup {None}] /\ since \in [Subs -> 0 .. MaxChanges] /\ hookSince \in 0 .. MaxChanges
      BY DEF TypeInv, TypeOK
    <2>2. CASE AttachTrigger \/ UNCHANGED vars
      BY <2>1, <2>2 DEF AttachTrigger, vars, clients
    <2>3. CASE Register
      BY <1>2, <2>1, <2>3 DEF Register
    <2>4. ASSUME NEW s \in Subs, Join(s) PROVE <1>4
      BY <1>2, <2>1, <2>4 DEF Join
    <2>5. ASSUME NEW s \in Subs, Move(s) PROVE <1>4
      BY <2>1, <2>5 DEF Move
    <2>6. QED
      BY <2>2, <2>3, <2>4, <2>5
  <1>5. moved' \in SUBSET Subs /\ disturbed' \in SUBSET Changes
    BY DEF AttachTrigger, Register, Join, Move, vars, clients, TypeInv, TypeOK, Running
  <1>6. TypeOK'
    <2>1. /\ row' \in Users \cup {None} /\ log' \in Seq(Change) /\ Len(log') <= MaxChanges /\ pending' \in Seq(Changes)
          /\ catalog' \in Seq(Table) /\ Len(catalog') \in 1 .. MaxDdl + 1
          /\ schemaCache' \in 1 .. Version' \cup {None} /\ rlsCache' \in BOOLEAN \cup {None}
          /\ queue' \in Seq(Query) /\ task' \in [Changes -> Task]
          /\ got' \in [Subs -> Seq([n : Changes, as : Identities])] /\ post' \in SUBSET Changes
          /\ blind' \in SUBSET Changes /\ faults' \in 0 .. MaxFaults /\ raced' \in BOOLEAN /\ spoiled' \in BOOLEAN
      BY <1>1 DEF TypeInv, TypeOK, Version
    <2>2. Running' = {queue'[i][1] : i \in DOMAIN queue'} \ {0}
      BY <1>1 DEF TypeInv, TypeOK, Running
    <2>3. QED
      BY <1>3, <1>4, <1>5, <2>1, <2>2, Zenon DEF TypeOK
  <1>7. QED
    BY <1>1, <1>6 DEF TypeInv, Lined, PendingWaits, PendingInOrder, StartedCommitted, QueuedOnce, RoomForDdl, StepKnown, CanLookUp,
           VersionsKnown, RowIsLast, Started, Version, SchemaIn

(* The steps by kind.                                                        *)
LEMMA NextKinds ==
    ASSUME [Next]_vars
    PROVE  \/ Write \/ RequestDdl \/ Notify \/ TaskAnswer
           \/ queue # <<>> /\ queue[1][1] = 0 /\ \E kind \in {"ddl", "script"} : RunDdl(kind)
           \/ AttachTrigger \/ Register \/ (\E s \in Subs : Join(s) \/ Move(s)) \/ UNCHANGED vars
  BY DEF Next, Answer, TaskAnswer

LEMMA NextTyped ==
    ASSUME BaseInv, [Next]_vars
    PROVE  TypeInv'
  <1>1. TypeInv
    BY DEF BaseInv
  <1>2. QED
    BY <1>1, NextKinds, TypeWrite, TypeRequest, TypeNotify, TypeAnswer, TypeDdl, TypeQuiet

(* The log and the schema's history are only ever extended.                  *)
LEMMA HistoryGrows ==
    ASSUME TypeInv, [Next]_vars
    PROVE  /\ Len(log) \in Nat /\ Len(log') \in Nat /\ Len(log) <= Len(log')
           /\ \A n \in 1 .. Len(log) : n \in 1 .. Len(log') /\ log'[n] = log[n]
           /\ Version \in Nat /\ Version' \in Nat /\ Version <= Version'
           /\ \A v \in 1 .. Version : catalog'[v] = catalog[v]
  <1>1. log \in Seq(Change) /\ catalog \in Seq(Table) /\ Version = Len(catalog)
    BY DEF TypeInv, TypeOK, Version
  <1>2. UNCHANGED log \/ \E new \in Change : log' = Append(log, new)
    <2>1. ASSUME Write PROVE \E new \in Change : log' = Append(log, new)
      <3>1. Version \in 1 .. MaxDdl + 1
        BY CatalogTyped
      <3>2. QED
        BY <2>1, <3>1 DEF Write, Change
    <2>2. QED
      BY <2>1 DEF Next, RequestDdl, AttachTrigger, Register, Notify, Answer, RunDdl, Join, Move, db, vars
  <1>3. UNCHANGED catalog \/ \E b \in Table : catalog' = Append(catalog, b)
    BY DEF Next, Write, RequestDdl, AttachTrigger, Register, Notify, Answer, RunDdl, Join, Move, db, vars
  <1>4. /\ Len(log) \in Nat /\ Len(log') \in Nat /\ Len(log) <= Len(log')
        /\ \A n \in 1 .. Len(log) : n \in 1 .. Len(log') /\ log'[n] = log[n]
    BY <1>1, <1>2, AppendProperties
  <1>5. /\ Version \in Nat /\ Version' \in Nat /\ Version <= Version'
        /\ \A v \in 1 .. Version : catalog'[v] = catalog[v]
    BY <1>1, <1>3, AppendProperties DEF Version
  <1>6. QED
    BY <1>4, <1>5

LEMMA StaysInForce ==
    ASSUME TypeInv, [Next]_vars, NEW n \in 1 .. Len(log), NEW b, InForce(n, b)
    PROVE  \E v \in log'[n].ver .. Version' : catalog'[v].rls = b
  <1>1. PICK v \in log[n].ver .. Version : catalog[v].rls = b
    BY DEF InForce
  <1>2. log[n].ver \in 1 .. Version
    BY LogTyped
  <1>3. log'[n] = log[n] /\ v \in log'[n].ver .. Version' /\ catalog'[v].rls = b
    BY <1>1, <1>2, HistoryGrows
  <1>4. QED
    BY <1>3

----------------------------------------------------------------------------
(* The caches, and the policies a dispatch goes by.                          *)

LEMMA MovesRead ==
    ASSUME TypeInv, NEW n \in Changes, NEW line, Moves(n, line), UNCHANGED <<log, catalog>>
    PROVE  /\ task'[n].pc \in {"keys", "keysAgain"} => task'[n].ver = Version
           /\ task'[n].pc \in {"columnsAgain", "keysAgain", "visible"} => Known(n, TRUE)
  <1>1. CASE Waits(n, line)
    <2>1. PICK pc \in Early, ver \in 0 .. MaxDdl + 1, rls \in BOOLEAN :
            /\ Suspend(n, pc, ver, rls, 0, line) /\ UNCHANGED got
            /\ pc \in {"keys", "keysAgain"} => ver = Version
            /\ pc \in {"columnsAgain", "keysAgain"} => rls = TRUE /\ Known(n, TRUE)
      BY <1>1 DEF Waits
    <2>2. task'[n].pc = pc /\ task'[n].ver = ver
      BY <2>1 DEF Suspend, TypeInv, TypeOK
    <2>3. QED
      BY <2>1, <2>2 DEF Early
  <1>2. CASE Walks(n, line)
    <2>1. PICK ver \in 0 .. MaxDdl + 1, rls \in BOOLEAN, seen \in SeenAt(n) :
            Walk(n, ver, rls, At(n), seen, line) /\ Known(n, rls)
      BY <1>2 DEF Walks
    <2>2. Ends(n) \/ Stops(n, rls, ver)
      BY <2>1, WalkTyped DEF Moves
    <2>3. Stops(n, rls, ver) => rls = TRUE /\ task'[n].pc = "visible"
      BY DEF Stops, NeedsQuery, Bound
    <2>4. CASE Ends(n)
      BY <2>4 DEF Ends
    <2>5. CASE Stops(n, rls, ver)
      BY <2>1, <2>3, <2>5
    <2>6. QED
      BY <2>2, <2>4, <2>5
  <1>3. QED
    BY <1>1, <1>2 DEF Moves

LEMMA NextCache ==
    ASSUME BaseInv, [Next]_vars
    PROVE  CacheInv'
  <1>1. TypeInv /\ ReadsCurrent /\ CachesCurrent
    BY DEF BaseInv, CacheInv
  <1>2. CASE Notify
    <2> DEFINE n == Head(pending)
    <2>1. n \in Changes /\ task[n].pc = "idle" /\ Moves(n, queue) /\ UNCHANGED <<log, catalog, caches, raced, spoiled>>
      BY <1>2, NotifyMoves DEF BaseInv, Notify
    <2>2. TaskTyped(n) /\ (task'[n].pc \in {"keys", "keysAgain"} => task'[n].ver = Version)
      BY <1>1, <2>1, MovesTyped, MovesRead
    <2> HIDE DEF n
    <2>3. ReadsCurrent'
      BY <1>1, <2>1, <2>2 DEF ReadsCurrent, Reading, TaskTyped, Version
    <2>4. CachesCurrent'
      BY <1>1, <2>1 DEF CachesCurrent, caches, Rls, Version
    <2>5. QED
      BY <2>3, <2>4 DEF CacheInv
  <1>3. CASE TaskAnswer
    <2> DEFINE n == queue[1][1]
    <2>1. n \in Changes /\ Moves(n, Tail(queue)) /\ UNCHANGED <<log, catalog, raced, spoiled>>
      BY <1>3, AnswerMoves DEF BaseInv, TaskAnswer, db
    <2>2. TaskTyped(n) /\ (task'[n].pc \in {"keys", "keysAgain"} => task'[n].ver = Version)
      BY <1>1, <2>1, MovesTyped, MovesRead
    <2>3. \/ schemaCache' = schemaCache
          \/ task[n].pc \in {"keys", "keysAgain"} /\ schemaCache' = task[n].ver
      BY <1>3 DEF TaskAnswer, ReadColumns, ReadKeys, ReadPolicies, LookUp, caches
    <2>4. rlsCache' = rlsCache \/ rlsCache' = Rls
      BY <1>3 DEF TaskAnswer, ReadColumns, ReadKeys, ReadPolicies, LookUp, caches
    <2> HIDE DEF n
    <2>5. ReadsCurrent'
      BY <1>1, <2>1, <2>2 DEF ReadsCurrent, Reading, TaskTyped, Version
    <2>6. CachesCurrent'
      <3>1. Rls' = Rls /\ Version' = Version
        BY <2>1 DEF Rls, Version
      <3>2. ~spoiled => rlsCache' \in {None, Rls}
        BY <1>1, <2>4 DEF CachesCurrent
      <3>3. ~spoiled => raced \/ schemaCache' \in {None, Version}
        BY <1>1, <2>1, <2>3 DEF CachesCurrent, ReadsCurrent, Reading
      <3>4. QED
        BY <2>1, <3>1, <3>2, <3>3 DEF CachesCurrent
    <2>7. QED
      BY <2>5, <2>6 DEF CacheInv
  <1>4. ASSUME NEW kind \in {"ddl", "script"}, RunDdl(kind) PROVE CacheInv'
    <2>1. ~raced' => Reading' = {}
      BY <1>4 DEF RunDdl, Reading
    <2>2. ~spoiled' => schemaCache' = None /\ rlsCache' = None
      BY <1>4 DEF RunDdl, Invalidate
    <2>3. QED
      BY <2>1, <2>2 DEF CacheInv, ReadsCurrent, CachesCurrent
  <1>5. CASE Write \/ RequestDdl \/ AttachTrigger \/ Register \/ (\E s \in Subs : Join(s) \/ Move(s)) \/ UNCHANGED vars
    <2>1. UNCHANGED <<catalog, caches, task, raced, spoiled>>
      BY <1>5 DEF Write, RequestDdl, AttachTrigger, Register, Join, Move, vars, db, caches
    <2>2. QED
      BY <1>1, <2>1 DEF CacheInv, ReadsCurrent, CachesCurrent, Reading, Rls, Version, caches
  <1>6. QED
    BY <1>2, <1>3, <1>4, <1>5, NextKinds

LEMMA BlindGrows ==
    ASSUME [Next]_vars
    PROVE  blind \subseteq blind'
  BY DEF Next, Write, RequestDdl, AttachTrigger, Register, Notify, Answer, RunDdl, Join, Move, ReadColumns, ReadKeys,
         ReadPolicies, LookUp, Fault, vars

LEMMA NextPolicy ==
    ASSUME BaseInv, [Next]_vars
    PROVE  PolicyInv'
  <1>1. TypeInv /\ PolicyInv /\ TypeInv'
    BY NextTyped DEF BaseInv
  <1>2. \A n \in Running : n \in 1 .. Len(log)
    BY <1>1, HistoryGrows DEF TypeInv, Lined, StartedCommitted, Started, Running, Steps, Changes
  <1>3. ASSUME NEW n \in Running \ blind, task'[n] = task[n], rlsCache' \in {None, rlsCache, Rls}
        PROVE  PolicySeen(n)'
    <2>1. PolicySeen(n) /\ n \in 1 .. Len(log)
      BY <1>1, <1>2, <1>3 DEF PolicyInv
    <2>2. InForce(n, Rls)
      BY <1>1, <2>1, NowInForce
    <2>3. ASSUME rlsCache' # None PROVE InForce(n, rlsCache)'
      <3>1. InForce(n, rlsCache')
        BY <1>3, <2>1, <2>2, <2>3 DEF PolicySeen
      <3>2. QED
        BY <1>1, <2>1, <3>1, StaysInForce DEF InForce
    <2>4. ASSUME task'[n].pc \in {"columnsAgain", "keysAgain", "visible"} PROVE InForce(n, TRUE)'
      <3>1. PICK b : b = TRUE /\ InForce(n, b)
        BY <1>3, <2>1, <2>4 DEF PolicySeen
      <3>2. \E v \in log'[n].ver .. Version' : catalog'[v].rls = b
        BY <1>1, <2>1, <3>1, StaysInForce
      <3>3. QED
        BY <3>1, <3>2, Zenon DEF InForce
    <2>5. QED
      BY <2>3, <2>4 DEF PolicySeen
  <1>4. blind \subseteq blind'
    BY BlindGrows
  <1>5. CASE Notify
    <2>1. PICK n \in Changes :
            /\ n = Head(pending) /\ n \in 1 .. Len(log) /\ task[n].pc = "idle" /\ Moves(n, queue)
            /\ UNCHANGED <<log, catalog, rlsCache>>
      BY <1>5, NotifyMoves DEF BaseInv, Notify, caches
    <2>2. TaskTyped(n) /\ (task'[n].pc \in {"columnsAgain", "keysAgain", "visible"} => Known(n, TRUE))
      BY <1>1, <2>1, MovesTyped, MovesRead
    <2>3. n \notin blind' => rlsCache \in {None, Rls}
      BY <1>5, <2>1 DEF BaseInv, CacheInv, CachesCurrent, Notify
    <2>4. n \notin blind' => PolicySeen(n)'
      <3>1. InForce(n, Rls)
        BY <1>1, <2>1, NowInForce
      <3>2. \A b : InForce(n, b) => \E v \in log'[n].ver .. Version' : catalog'[v].rls = b
        BY <2>1 DEF InForce, Version
      <3>3. ASSUME n \notin blind', rlsCache' # None PROVE InForce(n, rlsCache)'
        <4>1. InForce(n, rlsCache')
          BY <2>1, <2>3, <3>1, <3>3
        <4>2. QED
          BY <3>2, <4>1 DEF InForce
      <3>4. ASSUME n \notin blind', task'[n].pc \in {"columnsAgain", "keysAgain", "visible"}
            PROVE  InForce(n, TRUE)'
        <4>1. InForce(n, TRUE)
          BY <2>2, <3>4 DEF Known
        <4>2. QED
          BY <3>2, <4>1 DEF InForce
      <3>5. QED
        BY <3>3, <3>4 DEF PolicySeen
    <2>5. \A m \in Running' \ blind' : m = n \/ (m \in Running \ blind /\ task'[m] = task[m])
      <3>1. \A m \in Changes \ {n} : task'[m] = task[m]
        BY <2>2 DEF TaskTyped
      <3>2. QED
        BY <1>4, <3>1 DEF Running
    <2>6. QED
      BY <1>3, <2>1, <2>4, <2>5 DEF PolicyInv
  <1>6. CASE TaskAnswer
    <2>1. PICK n \in Changes :
            /\ n \in 1 .. Len(log) /\ task[n].pc \in Steps /\ Moves(n, Tail(queue))
            /\ UNCHANGED <<log, catalog>>
      BY <1>6, AnswerMoves DEF BaseInv, TaskAnswer, db
    <2>2. TaskTyped(n) /\ (task'[n].pc \in {"columnsAgain", "keysAgain", "visible"} => Known(n, TRUE))
      BY <1>1, <2>1, MovesTyped, MovesRead
    <2>3. rlsCache' = rlsCache \/ rlsCache' = Rls
      BY <1>6 DEF TaskAnswer, ReadColumns, ReadKeys, ReadPolicies, LookUp, caches
    <2>4. n \notin blind' => PolicySeen(n)'
      <3>1. InForce(n, Rls)
        BY <1>1, <2>1, NowInForce
      <3>2. \A b : InForce(n, b) => \E v \in log'[n].ver .. Version' : catalog'[v].rls = b
        BY <2>1 DEF InForce, Version
      <3>3. n \notin blind' => PolicySeen(n)
        BY <1>1, <1>4, <2>1 DEF PolicyInv, Running
      <3>4. ASSUME n \notin blind', rlsCache' # None PROVE InForce(n, rlsCache)'
        <4>1. InForce(n, rlsCache')
          BY <2>3, <3>1, <3>3, <3>4 DEF PolicySeen
        <4>2. QED
          BY <3>2, <4>1 DEF InForce
      <3>5. ASSUME n \notin blind', task'[n].pc \in {"columnsAgain", "keysAgain", "visible"}
            PROVE  InForce(n, TRUE)'
        <4>1. InForce(n, TRUE)
          BY <2>2, <3>5 DEF Known
        <4>2. QED
          BY <3>2, <4>1 DEF InForce
      <3>6. QED
        BY <3>4, <3>5 DEF PolicySeen
    <2>5. \A m \in Running' \ blind' : m = n \/ (m \in Running \ blind /\ task'[m] = task[m])
      <3>1. \A m \in Changes \ {n} : task'[m] = task[m]
        BY <2>2 DEF TaskTyped
      <3>2. QED
        BY <1>4, <3>1 DEF Running
    <2>6. QED
      BY <1>3, <2>3, <2>4, <2>5 DEF PolicyInv
  <1>7. CASE Write \/ RequestDdl \/ AttachTrigger \/ Register \/ (\E s \in Subs : Join(s) \/ Move(s)) \/ UNCHANGED vars
             \/ \E kind \in {"ddl", "script"} : RunDdl(kind)
    <2>1. UNCHANGED task /\ rlsCache' \in {None, rlsCache}
      BY <1>7 DEF Write, RequestDdl, AttachTrigger, Register, Join, Move, RunDdl, Invalidate, vars, caches
    <2>2. \A m \in Running' \ blind' : m \in Running \ blind /\ task'[m] = task[m]
      BY <1>4, <2>1 DEF Running
    <2>3. QED
      BY <1>3, <2>1, <2>2 DEF PolicyInv
  <1>8. QED
    BY <1>5, <1>6, <1>7, NextKinds

LEMMA InitBase == Init => BaseInv
  <1> SUFFICES ASSUME Init PROVE BaseInv
    OBVIOUS
  <1>1. PICK b \in Table : catalog = <<b>>
    BY DEF Init
  <1>2. /\ row = None /\ log = <<>> /\ trigger = FALSE /\ pending = <<>> /\ queue = <<>>
        /\ schemaCache \in {None, 1} /\ rlsCache \in {None, b.rls}
        /\ task = [n \in Changes |-> [pc |-> "idle", ver |-> 0, rls |-> FALSE, at |-> 0, as |-> None]]
        /\ sub = [s \in Subs |-> None] /\ got = [s \in Subs |-> <<>>]
        /\ hooked = FALSE /\ post = {} /\ since = [s \in Subs |-> 0] /\ hookSince = 0
        /\ moved = {} /\ disturbed = {} /\ blind = {} /\ faults = 0 /\ raced = FALSE /\ spoiled = FALSE
    BY <1>1 DEF Init, Rls, Version
  <1>3. Version = 1 /\ Rls = b.rls /\ b.rls \in BOOLEAN /\ catalog \in Seq(Table) /\ Len(catalog) = 1
    BY <1>1 DEF Rls, Version, Table
  <1>4. MaxChanges \in Nat /\ MaxDdl \in Nat /\ MaxFaults \in Nat /\ NSubs \in Nat
    BY CountAssumption
  <1>5. Running = {} /\ \A n \in Changes : task[n].pc = "idle"
    BY <1>2 DEF Running, Steps
  <1>6. SchemaIn(queue) = {} /\ Cardinality(SchemaIn(queue)) = 0 /\ {queue[i][1] : i \in DOMAIN queue} = {}
    <2>1. DOMAIN queue = {}
      BY <1>2
    <2>2. QED
      BY <2>1, FS_EmptySet DEF SchemaIn
  <1>7. TypeOK
    <2>1. /\ row \in Users \cup {None} /\ log \in Seq(Change) /\ Len(log) <= MaxChanges /\ pending \in Seq(Changes)
          /\ queue \in Seq(Query) /\ schemaCache \in 1 .. Version \cup {None} /\ Len(catalog) \in 1 .. MaxDdl + 1
      BY <1>2, <1>3, <1>4
    <2>2. rlsCache \in BOOLEAN \cup {None}
      BY <1>2, <1>3
    <2>3. task \in [Changes -> Task]
      BY <1>2, <1>4 DEF Task
    <2>4. got \in [Subs -> Seq([n : Changes, as : Identities])] /\ sub \in [Subs -> Identities \cup {None}]
      BY <1>2
    <2>5. since \in [Subs -> 0 .. MaxChanges] /\ hookSince \in 0 .. MaxChanges /\ faults \in 0 .. MaxFaults
      BY <1>2, <1>4
    <2>6. trigger \in BOOLEAN /\ hooked \in BOOLEAN /\ raced \in BOOLEAN /\ spoiled \in BOOLEAN
      BY <1>2
    <2>7. post \in SUBSET Changes /\ moved \in SUBSET Subs /\ disturbed \in SUBSET Changes /\ blind \in SUBSET Changes
      BY <1>2
    <2>8. Running = {queue[i][1] : i \in DOMAIN queue} \ {0}
      BY <1>5, <1>6
    <2>9. QED
      BY <1>3, <2>1, <2>2, <2>3, <2>4, <2>5, <2>6, <2>7, <2>8, Zenon DEF TypeOK
  <1>8. Lined
    <2>1. PendingWaits /\ PendingInOrder /\ StartedCommitted
      BY <1>2, <1>5 DEF PendingWaits, PendingInOrder, StartedCommitted, Started
    <2>2. QueuedOnce /\ RoomForDdl
      BY <1>2, <1>3, <1>4, <1>6 DEF QueuedOnce, RoomForDdl
    <2>3. (\A n \in Changes : StepKnown(n)) /\ VersionsKnown /\ RowIsLast
      BY <1>2, <1>5 DEF StepKnown, VersionsKnown, RowIsLast
    <2>4. QED
      BY <2>1, <2>2, <2>3 DEF Lined
  <1>9. CacheInv
    BY <1>2, <1>3, <1>5 DEF CacheInv, ReadsCurrent, CachesCurrent, Reading
  <1>10. QED
    BY <1>5, <1>7, <1>8, <1>9 DEF BaseInv, TypeInv, PolicyInv

LEMMA NextBase == BaseInv /\ [Next]_vars => BaseInv'
  BY NextTyped, NextCache, NextPolicy DEF BaseInv

(* The types, with at most one query in the line for each dispatch, and no   *)
(* more schema changes than the bound.                                       *)
THEOREM FeedTyped == Spec => []TypeOK
  <1>1. BaseInv => TypeOK
    BY DEF BaseInv, TypeInv
  <1>2. QED
    BY InitBase, NextBase, <1>1, PTL DEF Spec

(* What the caches hold is the schema as it is, whatever reads and schema    *)
(* changes run beside each other: unless a script failed half way, or a      *)
(* schema change fell between the queries of a read.                         *)
THEOREM CachesAreCurrent == Spec => []CachesCurrent
  <1>1. BaseInv => CachesCurrent
    BY DEF BaseInv, CacheInv
  <1>2. QED
    BY InitBase, NextBase, <1>1, PTL DEF Spec

----------------------------------------------------------------------------
(* What is sent, and to whom.                                                *)

SentStarted == \A s \in Subs : \A i \in DOMAIN got[s] : Started(got[s][i].n)
SentInv == SentStarted /\ RecordWasVisible

Protected(n, as) ==
    /\ log[n].record /\ as # Service
    /\ \A v \in log[n].ver .. Version : catalog[v].rls
    /\ \A v \in 1 .. Version : catalog[v].key
Justified(n, as) ==
    Protected(n, as) /\ n \notin blind' => as \in {log[k].owner : k \in n .. Len(log)}

LEMMA LookUpJustified ==
    ASSUME TypeInv, NEW n \in 1 .. Len(log), NEW as, Visible(as)
    PROVE  Justified(n, as)
  <1> SUFFICES ASSUME Protected(n, as) PROVE as \in {log[k].owner : k \in n .. Len(log)}
    BY DEF Justified
  <1>1. catalog[Version].rls = TRUE
    <2>1. Version \in log[n].ver .. Version
      BY LogTyped, CatalogTyped
    <2>2. QED
      BY <2>1, CatalogTyped DEF Protected, Table
  <1>2. row = as /\ row # None
    BY <1>1 DEF Visible, Rls, Protected
  <1>3. log \in Seq(Change) /\ Len(log) \in Nat /\ Len(log) \in n .. Len(log)
    BY DEF TypeInv, TypeOK
  <1>4. row = log[Len(log)].owner
    BY <1>2 DEF TypeInv, Lined, RowIsLast
  <1>5. QED
    BY <1>2, <1>3, <1>4

LEMMA ServedJustified ==
    ASSUME TypeInv, NEW n \in 1 .. Len(log), NEW rls \in BOOLEAN, Known(n, rls),
           NEW ver, rls => ver \in 1 .. Version,
           NEW s \in Subs, sub[s] # None, ~NeedsQuery(n, s, rls, ver)
    PROVE  Justified(n, sub[s])
  <1> SUFFICES ASSUME Protected(n, sub[s]), n \notin blind' PROVE FALSE
    BY DEF Justified
  <1>1. rls = FALSE
    BY DEF NeedsQuery, Bound, CanLookUp, Protected
  <1>2. PICK v \in log[n].ver .. Version : catalog[v].rls = FALSE
    BY <1>1 DEF Known, InForce
  <1>3. QED
    BY <1>2 DEF Protected

LEMMA MovesSend ==
    ASSUME TypeInv, NEW n \in Changes, n \in 1 .. Len(log), NEW line, Moves(n, line), UNCHANGED <<log, catalog>>,
           NEW s \in Subs
    PROVE  \/ got'[s] = got[s]
           \/ \E as \in Identities : got'[s] = Append(got[s], [n |-> n, as |-> as]) /\ Justified(n, as)
  <1>1. CASE Waits(n, line)
    BY <1>1 DEF Waits
  <1>2. CASE Walks(n, line)
    <2>1. PICK ver \in 0 .. MaxDdl + 1, rls \in BOOLEAN, seen \in SeenAt(n) :
            Walk(n, ver, rls, At(n), seen, line) /\ Known(n, rls) /\ (rls => ver \in 1 .. Version)
      BY <1>2 DEF Walks
    <2>2. Send(n, Served(n, rls, ver, At(n)), seen, task[n].as)
      BY <2>1 DEF Walk
    <2>3. \/ got'[s] = got[s]
          \/ \E as \in Identities :
               /\ got'[s] = Append(got[s], [n |-> n, as |-> as])
               /\ Visible(as) \/ (s \in Served(n, rls, ver, At(n)) /\ as = sub[s])
      <3>1. Sends(n, rls, ver, seen)
        BY <2>2, WalkSends
      <3>2. QED
        BY <3>1 DEF Sends
    <2>4. ASSUME NEW as \in Identities, Visible(as) \/ (s \in Served(n, rls, ver, At(n)) /\ as = sub[s])
          PROVE  Justified(n, as)
      <3>1. CASE Visible(as)
        BY <3>1, LookUpJustified
      <3>2. CASE s \in Served(n, rls, ver, At(n)) /\ as = sub[s]
        <4>1. sub[s] # None /\ ~NeedsQuery(n, s, rls, ver)
          BY <3>2, AtTyped, ServedSeen
        <4>2. QED
          BY <2>1, <3>2, <4>1, ServedJustified
      <3>3. QED
        BY <2>4, <3>1, <3>2
    <2>5. QED
      BY <2>3, <2>4
  <1>3. QED
    BY <1>1, <1>2 DEF Moves

(* Whoever is sent something is sent it by one dispatch, that has started.   *)
LEMMA Deliveries ==
    ASSUME BaseInv, [Next]_vars, NEW s \in Subs
    PROVE  \/ got'[s] = got[s]
           \/ \E n \in Changes, as \in Identities :
                /\ got'[s] = Append(got[s], [n |-> n, as |-> as])
                /\ n \in 1 .. Len(log) /\ task'[n].pc # "idle" /\ UNCHANGED <<log, catalog>>
                /\ Justified(n, as)
  <1>1. TypeInv
    BY DEF BaseInv
  <1>2. CASE Notify
    <2>1. PICK n \in Changes : n \in 1 .. Len(log) /\ Moves(n, queue) /\ UNCHANGED <<log, catalog>>
      BY <1>2, NotifyMoves DEF BaseInv, Notify
    <2>2. task'[n].pc # "idle"
      BY <1>1, <2>1, MovesTyped DEF TaskTyped
    <2>3. QED
      BY <1>1, <2>1, <2>2, MovesSend
  <1>3. CASE TaskAnswer
    <2>1. PICK n \in Changes : n \in 1 .. Len(log) /\ Moves(n, Tail(queue)) /\ UNCHANGED <<log, catalog>>
      BY <1>3, AnswerMoves DEF BaseInv, TaskAnswer, db
    <2>2. task'[n].pc # "idle"
      BY <1>1, <2>1, MovesTyped DEF TaskTyped
    <2>3. QED
      BY <1>1, <2>1, <2>2, MovesSend
  <1>4. CASE Write \/ RequestDdl \/ AttachTrigger \/ Register \/ (\E t \in Subs : Join(t) \/ Move(t)) \/ UNCHANGED vars
             \/ \E kind \in {"ddl", "script"} : RunDdl(kind)
    BY <1>4 DEF Write, RequestDdl, AttachTrigger, Register, Join, Move, RunDdl, vars
  <1>5. QED
    BY <1>2, <1>3, <1>4, NextKinds

LEMMA GotTyped ==
    ASSUME TypeInv, NEW s \in Subs
    PROVE  /\ got[s] \in Seq([n : Changes, as : Identities])
           /\ \A i \in DOMAIN got[s] : got[s][i] \in [n : Changes, as : Identities]
  <1>1. got[s] \in Seq([n : Changes, as : Identities])
    BY DEF TypeInv, TypeOK
  <1>2. \A i \in 1 .. Len(got[s]) : got[s][i] \in [n : Changes, as : Identities]
    BY <1>1, ElementOfSeq
  <1>3. DOMAIN got[s] = 1 .. Len(got[s])
    BY <1>1
  <1>4. QED
    BY <1>1, <1>2, <1>3

LEMMA OldOrNew ==
    ASSUME NEW S, NEW list \in Seq(S), NEW e \in S
    PROVE  LET longer == Append(list, e) IN
           /\ DOMAIN longer = 1 .. Len(list) + 1 /\ DOMAIN list = 1 .. Len(list) /\ Len(list) \in Nat
           /\ longer[Len(list) + 1] = e
           /\ \A i \in DOMAIN list : i \in DOMAIN longer /\ longer[i] = list[i]
           /\ \A i \in DOMAIN longer : i = Len(list) + 1 \/ (i \in DOMAIN list /\ longer[i] = list[i])
  BY AppendProperties

LEMMA StaysStarted ==
    ASSUME BaseInv, [Next]_vars, NEW n \in Changes, Started(n)
    PROVE  task'[n].pc # "idle"
  <1>1. TypeInv
    BY DEF BaseInv
  <1>2. CASE Notify
    <2>1. PICK m \in Changes : Moves(m, queue) /\ UNCHANGED <<log, catalog>>
      BY <1>2, NotifyMoves DEF BaseInv, Notify
    <2>2. TaskTyped(m)
      BY <1>1, <2>1, MovesTyped
    <2>3. QED
      BY <2>2 DEF TaskTyped, Started
  <1>3. CASE TaskAnswer
    <2>1. PICK m \in Changes : Moves(m, Tail(queue)) /\ UNCHANGED <<log, catalog>>
      BY <1>3, AnswerMoves DEF BaseInv, TaskAnswer, db
    <2>2. TaskTyped(m)
      BY <1>1, <2>1, MovesTyped
    <2>3. QED
      BY <2>2 DEF TaskTyped, Started
  <1>4. CASE Write \/ RequestDdl \/ AttachTrigger \/ Register \/ (\E t \in Subs : Join(t) \/ Move(t)) \/ UNCHANGED vars
             \/ \E kind \in {"ddl", "script"} : RunDdl(kind)
    BY <1>4 DEF Write, RequestDdl, AttachTrigger, Register, Join, Move, RunDdl, vars, Started
  <1>5. QED
    BY <1>2, <1>3, <1>4, NextKinds

LEMMA NextSent ==
    ASSUME BaseInv, SentInv, [Next]_vars
    PROVE  SentInv'
  <1>1. TypeInv
    BY DEF BaseInv
  <1>2. ASSUME NEW s \in Subs, NEW i \in DOMAIN got'[s]
        PROVE  \/ i \in DOMAIN got[s] /\ got'[s][i] = got[s][i]
               \/ \E n \in Changes, as \in Identities :
                    /\ got'[s][i] = [n |-> n, as |-> as] /\ n \in 1 .. Len(log) /\ task'[n].pc # "idle"
                    /\ UNCHANGED <<log, catalog>> /\ Justified(n, as)
    <2>1. CASE got'[s] = got[s]
      BY <1>2, <2>1
    <2>2. ASSUME NEW n \in Changes, NEW as \in Identities, got'[s] = Append(got[s], [n |-> n, as |-> as])
          PROVE  got'[s][i] = [n |-> n, as |-> as] \/ (i \in DOMAIN got[s] /\ got'[s][i] = got[s][i])
      <3>1. got[s] \in Seq([n : Changes, as : Identities]) /\ [n |-> n, as |-> as] \in [n : Changes, as : Identities]
        BY <1>1, GotTyped
      <3>2. QED
        BY <1>2, <2>2, <3>1, OldOrNew
    <2>3. QED
      BY <2>1, <2>2, Deliveries
  <1>3. ASSUME NEW s \in Subs, NEW i \in DOMAIN got'[s] PROVE Started(got[s][i].n)'
    <2>1. CASE i \in DOMAIN got[s] /\ got'[s][i] = got[s][i]
      <3>1. PICK n \in Changes : n = got[s][i].n /\ Started(n)
        BY <1>1, <2>1, GotTyped DEF SentInv, SentStarted
      <3>2. task'[n].pc # "idle"
        BY <3>1, StaysStarted
      <3>3. QED
        BY <2>1, <3>1, <3>2 DEF Started
    <2>2. CASE ~(i \in DOMAIN got[s] /\ got'[s][i] = got[s][i])
      <3>1. PICK n \in Changes, as \in Identities : got'[s][i] = [n |-> n, as |-> as] /\ task'[n].pc # "idle"
        BY <1>2, <2>2, Zenon
      <3>2. QED
        BY <3>1 DEF Started
    <2>3. QED
      BY <2>1, <2>2
  <1>4. ASSUME NEW s \in Subs, NEW i \in DOMAIN got'[s], NEW n, NEW as, got'[s][i].n = n, got'[s][i].as = as,
               log'[n].record, as # Service, n \notin blind',
               \A v \in log'[n].ver .. Version' : catalog'[v].rls,
               \A v \in 1 .. Version' : catalog'[v].key
        PROVE  as \in {log'[k].owner : k \in n .. Len(log')}
    <2>1. CASE i \in DOMAIN got[s] /\ got'[s][i] = got[s][i]
      <3>1. n \in Changes /\ Started(n) /\ n \in 1 .. Len(log)
        <4>1. n \in Changes /\ Started(n)
          BY <1>1, <1>4, <2>1, GotTyped DEF SentInv, SentStarted
        <4>2. n <= Len(log) /\ Len(log) \in Nat
          BY <1>1, <4>1, HistoryGrows DEF TypeInv, Lined, StartedCommitted
        <4>3. QED
          BY <4>1, <4>2, CountAssumption DEF Changes
      <3>2. /\ log'[n] = log[n] /\ Version <= Version' /\ Version \in Nat /\ Version' \in Nat
            /\ \A v \in 1 .. Version : catalog'[v] = catalog[v]
        BY <1>1, <3>1, HistoryGrows
      <3>3. (\A v \in log[n].ver .. Version : catalog[v].rls) /\ (\A v \in 1 .. Version : catalog[v].key)
        <4>1. log[n].ver \in 1 .. Version
          BY <1>1, <3>1, LogTyped
        <4>2. QED
          BY <1>4, <3>2, <4>1
      <3>4. n \notin blind
        BY <1>4, BlindGrows
      <3>5. as \in {log[k].owner : k \in n .. Len(log)}
        BY <1>4, <2>1, <3>2, <3>3, <3>4 DEF SentInv, RecordWasVisible
      <3>6. PICK k \in n .. Len(log) : as = log[k].owner
        BY <3>5
      <3>7. k \in n .. Len(log') /\ log'[k] = log[k]
        BY <1>1, <3>1, HistoryGrows
      <3>8. QED
        BY <3>6, <3>7
    <2>2. CASE ~(i \in DOMAIN got[s] /\ got'[s][i] = got[s][i])
      <3>1. PICK m \in Changes, b \in Identities :
              got'[s][i] = [n |-> m, as |-> b] /\ UNCHANGED <<log, catalog>> /\ Justified(m, b)
        BY <1>2, <2>2, Zenon
      <3>2. m = n /\ b = as
        BY <1>4, <3>1
      <3>3. QED
        BY <1>4, <3>1, <3>2 DEF Justified, Protected, Version
    <2>3. QED
      BY <2>1, <2>2
  <1>5. SentStarted'
    BY <1>3 DEF SentStarted
  <1>6. RecordWasVisible'
    BY <1>4 DEF RecordWasVisible
  <1>7. QED
    BY <1>5, <1>6 DEF SentInv

(* Under a policy, and if the table has had a primary key all along, a       *)
(* record is sent to a subscriber only if at some moment since its commit    *)
(* the row was the subscriber's to see: however the caches are filled,       *)
(* invalidated or left behind, and however late the look-up is.              *)
THEOREM RecordsStayPrivate == Spec => []RecordWasVisible
  <1>1. Init => SentInv
    BY DEF Init, SentInv, SentStarted, RecordWasVisible
  <1>2. BaseInv /\ SentInv /\ [Next]_vars => SentInv'
    BY NextSent
  <1>3. SentInv => RecordWasVisible
    BY DEF SentInv
  <1>4. QED
    BY InitBase, NextBase, <1>1, <1>2, <1>3, PTL DEF Spec

----------------------------------------------------------------------------
(* Nobody is passed over.                                                    *)

LEMMA HeardGrows ==
    ASSUME TypeInv, NEW s \in Subs, NEW e \in [n : Changes, as : Identities], got'[s] = Append(got[s], e)
    PROVE  Heard(e.n, s)' /\ \A n : Heard(n, s) => \E i \in DOMAIN got'[s] : got'[s][i].n = n
  <1>1. got[s] \in Seq([n : Changes, as : Identities])
    BY GotTyped
  <1>2. /\ Len(got[s]) + 1 \in DOMAIN got'[s] /\ got'[s][Len(got[s]) + 1] = e
        /\ \A i \in DOMAIN got[s] : i \in DOMAIN got'[s] /\ got'[s][i] = got[s][i]
    BY <1>1, OldOrNew
  <1>3. QED
    BY <1>2 DEF Heard

LEMMA HeardStays ==
    ASSUME BaseInv, [Next]_vars, NEW s \in Subs, NEW n, Heard(n, s)
    PROVE  Heard(n, s)'
  <1>1. CASE got'[s] = got[s]
    BY <1>1 DEF Heard
  <1>2. ASSUME NEW m \in Changes, NEW as \in Identities, got'[s] = Append(got[s], [n |-> m, as |-> as])
        PROVE  Heard(n, s)'
    <2>1. [n |-> m, as |-> as] \in [n : Changes, as : Identities] /\ TypeInv
      BY DEF BaseInv
    <2>2. \E i \in DOMAIN got'[s] : got'[s][i].n = n
      BY <1>2, <2>1, HeardGrows
    <2>3. QED
      BY <2>2 DEF Heard
  <1>3. QED
    BY <1>1, <1>2, Deliveries

(* How far a step brings a dispatch.                                         *)
LEMMA WaitsReach ==
    ASSUME TypeInv, NEW n \in Changes, NEW line, Waits(n, line)
    PROVE  task'[n].pc \in Early /\ Reached(n)' = 0 /\ UNCHANGED got
  <1>1. PICK pc \in Early, ver \in 0 .. MaxDdl + 1, rls \in BOOLEAN : Suspend(n, pc, ver, rls, 0, line) /\ UNCHANGED got
    BY DEF Waits
  <1>2. task'[n].pc = pc
    BY <1>1 DEF Suspend, TypeInv, TypeOK
  <1>3. QED
    BY <1>1, <1>2 DEF Early, Reached

LEMMA WalkReach ==
    ASSUME TypeInv, NEW n \in Changes, NEW ver \in 0 .. MaxDdl + 1, NEW rls \in BOOLEAN,
           NEW seen, NEW line, LineOf(n, line), Walk(n, ver, rls, At(n), seen, line)
    PROVE  Reached(n)' = Stop(n, rls, ver, At(n))
  <1>1. CASE Stop(n, rls, ver, At(n)) = NSubs + 1 /\ Ends(n)
    BY <1>1 DEF Ends, Reached
  <1>2. CASE Stops(n, rls, ver)
    BY <1>2 DEF Stops, Reached
  <1>3. QED
    BY <1>1, <1>2, WalkTyped

(* A look-up that does not fail finds the row of whoever owned it throughout.*)
LEMMA CertainVisible ==
    ASSUME TypeInv, NEW n \in 1 .. Len(log), NEW s \in Subs, Certain(n, s), Known(n, TRUE), n \notin blind',
           sub[s] \in Users, NEW ver \in 1 .. Version, CanLookUp(n, ver)
    PROVE  Visible(sub[s])
  <1>1. sub[s] # Service /\ sub[s] # None
    BY IdentityAssumption
  <1>2. /\ ~(\A v \in log[n].ver .. Version : ~catalog[v].rls)
        /\ log[n].record /\ ~(\A v \in 1 .. Version : ~catalog[v].key)
    BY DEF Known, InForce, CanLookUp
  <1>3. \A k \in n .. Len(log) : log[k].owner = sub[s] /\ log[k].type # "DELETE"
    BY <1>1, <1>2 DEF Certain
  <1>4. log \in Seq(Change) /\ Len(log) \in n .. Len(log) /\ log # <<>>
    BY EmptySeq DEF TypeInv, TypeOK
  <1>5. row = sub[s]
    BY <1>3, <1>4 DEF TypeInv, Lined, RowIsLast
  <1>6. QED
    BY <1>1, <1>5 DEF Visible

(* Nobody whom a change is certain to reach is refused it.                   *)
LEMMA CertainNotRefused ==
    ASSUME NEW n \in 1 .. Len(log), NEW s \in Subs, Certain(n, s), NEW rls \in BOOLEAN, Known(n, rls), n \notin blind',
           NEW ver, rls => ver \in 1 .. Version
    PROVE  ~Refused(n, s, rls, ver)
  <1> SUFFICES ASSUME sub[s] = Anon, rls = TRUE, ~CanLookUp(n, ver) PROVE FALSE
    BY DEF Refused, Bound
  <1>1. Anon # Service
    BY IdentityAssumption
  <1>2. ~(\A v \in log[n].ver .. Version : ~catalog[v].rls)
    BY DEF Known, InForce
  <1>3. log[n].record /\ \A v \in 1 .. Version : catalog[v].key
    BY <1>1, <1>2 DEF Certain
  <1>4. QED
    BY <1>3 DEF CanLookUp

LEMMA MovesHeard ==
    ASSUME TypeInv, FeedInv, NEW n \in Changes, n \in 1 .. Len(log), task[n].pc # "done", NEW line, Moves(n, line),
           NEW s \in Subs, Watching(s, n), s < Reached(n)', n \notin blind', blind \subseteq blind', Certain(n, s)
    PROVE  \/ Heard(n, s)
           \/ \E as \in Identities : got'[s] = Append(got[s], [n |-> n, as |-> as])
  <1>1. CASE Waits(n, line)
    <2>1. s \in Nat /\ s > 0
      BY CountAssumption DEF Subs
    <2>2. Reached(n)' = 0
      BY <1>1, WaitsReach
    <2>3. QED
      BY <2>1, <2>2
  <1>2. CASE Walks(n, line)
    <2>1. PICK ver \in 0 .. MaxDdl + 1, rls \in BOOLEAN, seen \in SeenAt(n) :
            /\ Walk(n, ver, rls, At(n), seen, line) /\ Known(n, rls)
            /\ task[n].pc = "visible" => rls = TRUE
            /\ rls => ver \in 1 .. Version
      BY <1>2 DEF Walks
    <2>2. Reached(n)' = Stop(n, rls, ver, At(n))
      BY <2>1, WalkReach DEF Moves
    <2>3. At(n) \in 0 .. NSubs /\ s \in Nat /\ NSubs \in Nat
      BY AtTyped, CountAssumption DEF Subs
    <2>4. Send(n, Served(n, rls, ver, At(n)), seen, task[n].as)
      BY <2>1 DEF Walk
    <2>5. \/ got'[s] = got[s] /\ s \notin Served(n, rls, ver, At(n)) \cup seen
          \/ \E as \in Identities : got'[s] = Append(got[s], [n |-> n, as |-> as])
      <3>1. Sends(n, rls, ver, seen)
        BY <2>4, WalkSends
      <3>2. QED
        BY <3>1 DEF Sends
    <2>6. CASE s > At(n)
      <3>1. ~Refused(n, s, rls, ver)
        BY <2>1, CertainNotRefused
      <3>2. s \in Served(n, rls, ver, At(n))
        BY <2>2, <2>6, <3>1 DEF Served, Watching
      <3>3. QED
        BY <2>5, <3>2
    <2>7. CASE s = At(n)
      <3>1. task[n].pc = "visible" /\ s = task[n].at
        BY <2>7, CountAssumption DEF At, Subs
      <3>2. /\ sub[s] = task[n].as /\ task[n].as \in Users /\ rls = TRUE
            /\ task[n].ver \in 1 .. Version /\ CanLookUp(n, task[n].ver)
        BY <2>1, <3>1 DEF Watching, FeedInv, IdentityKept, TypeInv, Lined, StepKnown
      <3>3. Visible(task[n].as)
        BY <2>1, <3>2, CertainVisible
      <3>4. seen = {s}
        BY <3>1, <3>3 DEF SeenAt
      <3>5. QED
        BY <2>5, <3>4
    <2>8. CASE s < At(n)
      <3>1. s < Reached(n)
        BY <2>3, <2>8 DEF At, Reached, Subs
      <3>2. Heard(n, s)
        BY <3>1 DEF FeedInv, VisitedHeard
      <3>3. QED
        BY <2>5, <3>2
    <2>9. s < At(n) \/ s = At(n) \/ s > At(n)
      BY <2>3
    <2>10. QED
      BY <2>6, <2>7, <2>8, <2>9
  <1>3. QED
    BY <1>1, <1>2 DEF Moves


(* Whose visits are due, as log and schema grow.                             *)
LEMMA CertainBefore ==
    ASSUME TypeInv, [Next]_vars, NEW n \in 1 .. Len(log), NEW s \in Subs, sub'[s] = sub[s], Certain(n, s)'
    PROVE  Certain(n, s)
  <1>1. /\ log'[n] = log[n] /\ Len(log) \in Nat /\ Len(log') \in Nat /\ Len(log) <= Len(log')
        /\ \A k \in 1 .. Len(log) : log'[k] = log[k]
    BY HistoryGrows
  <1>2. /\ Version <= Version' /\ Version \in Nat /\ Version' \in Nat /\ log[n].ver \in 1 .. Version
        /\ \A v \in 1 .. Version : catalog'[v] = catalog[v]
    BY HistoryGrows, LogTyped
  <1>3. /\ (\A v \in log'[n].ver .. Version' : ~catalog'[v].rls) => \A v \in log[n].ver .. Version : ~catalog[v].rls
        /\ (\A v \in 1 .. Version' : ~catalog'[v].key) => \A v \in 1 .. Version : ~catalog[v].key
        /\ (\A v \in 1 .. Version' : catalog'[v].key) => \A v \in 1 .. Version : catalog[v].key
    BY <1>1, <1>2
  <1>4. (\A k \in n .. Len(log') : log'[k].owner = sub'[s] /\ log'[k].type # "DELETE")
           => \A k \in n .. Len(log) : log[k].owner = sub[s] /\ log[k].type # "DELETE"
    <2>1. \A k \in n .. Len(log) : k \in n .. Len(log') /\ k \in 1 .. Len(log)
      BY <1>1
    <2>2. QED
      BY <1>1, <2>1
  <1>5. QED
    BY <1>1, <1>3, <1>4 DEF Certain

(* The steps of a dispatch: the rest of the system stands still.             *)
LEMMA MovesFeed ==
    ASSUME BaseInv, FeedInv, [Next]_vars, NEW n \in Changes, n \in 1 .. Len(log), task[n].pc # "done",
           NEW line, Moves(n, line), UNCHANGED <<log, catalog, sub, since, moved>>
    PROVE  IdentityKept' /\ VisitedHeard'
  <1>1. TypeInv /\ TaskTyped(n)
    BY MovesTyped DEF BaseInv
  <1>2. ASSUME NEW m \in Changes, task'[m].pc = "visible", task'[m].at \notin moved'
        PROVE  sub'[task'[m].at] = task'[m].as
    <2>1. CASE m # n
      <3>1. task'[m] = task[m]
        BY <1>1, <2>1 DEF TaskTyped
      <3>2. QED
        BY <1>2, <3>1 DEF FeedInv, IdentityKept
    <2>2. CASE m = n /\ Waits(n, line)
      BY <1>1, <1>2, <2>2, WaitsReach DEF Early
    <2>3. CASE m = n /\ Walks(n, line)
      <3>1. PICK ver \in 0 .. MaxDdl + 1, rls \in BOOLEAN, seen \in SeenAt(n) : Walk(n, ver, rls, At(n), seen, line)
        BY <2>3 DEF Walks
      <3>2. Ends(n) \/ Stops(n, rls, ver)
        BY <1>1, <3>1, WalkTyped DEF Moves
      <3>3. QED
        BY <1>2, <2>3, <3>2 DEF Ends, Stops
    <2>4. QED
      BY <2>1, <2>2, <2>3 DEF Moves
  <1>3. ASSUME NEW s \in Subs, NEW m \in 1 .. Len(log'), Watching(s, m)', s < Reached(m)', m \notin blind', Certain(m, s)'
        PROVE  Heard(m, s)'
    <2>1. m \in 1 .. Len(log) /\ Watching(s, m) /\ Certain(m, s) /\ blind \subseteq blind'
      BY <1>1, <1>3, CertainBefore, BlindGrows DEF Watching
    <2>2. m \in Changes
      BY <1>1, <2>1, CountAssumption DEF Changes, TypeInv, TypeOK
    <2>3. CASE m = n
      <3>1. \/ Heard(n, s)
            \/ \E as \in Identities : got'[s] = Append(got[s], [n |-> n, as |-> as])
        BY <1>1, <1>3, <2>1, <2>3, MovesHeard
      <3>2. ASSUME NEW as \in Identities, got'[s] = Append(got[s], [n |-> n, as |-> as]) PROVE Heard(n, s)'
        <4>1. [n |-> n, as |-> as] \in [n : Changes, as : Identities]
          OBVIOUS
        <4>2. got[s] \in Seq([n : Changes, as : Identities])
          BY <1>1, GotTyped
        <4>3. Len(got[s]) + 1 \in DOMAIN got'[s] /\ got'[s][Len(got[s]) + 1] = [n |-> n, as |-> as]
          BY <3>2, <4>1, <4>2, OldOrNew
        <4>4. QED
          BY <4>3 DEF Heard
      <3>3. QED
        BY <2>3, <3>1, <3>2, HeardStays
    <2>4. CASE m # n
      <3>1. task'[m] = task[m]
        BY <1>1, <2>2, <2>4 DEF TaskTyped
      <3>2. s < Reached(m)
        BY <1>3, <3>1 DEF Reached
      <3>3. Heard(m, s)
        BY <1>3, <2>1, <3>2 DEF FeedInv, VisitedHeard
      <3>4. QED
        BY <3>3, HeardStays
    <2>5. QED
      BY <2>3, <2>4
  <1>4. QED
    BY <1>2, <1>3 DEF IdentityKept, VisitedHeard


(* The other steps: nobody watches who did not before.                       *)
LEMMA QuietFeed ==
    ASSUME BaseInv, FeedInv, [Next]_vars, UNCHANGED <<task, got>>,
           \A s \in Subs, n \in 1 .. Len(log) : Watching(s, n)' => Watching(s, n) /\ sub'[s] = sub[s]
    PROVE  VisitedHeard'
  <1>1. TypeInv /\ TypeInv'
    BY NextTyped DEF BaseInv
  <1> SUFFICES ASSUME NEW s \in Subs, NEW n \in 1 .. Len(log'), Watching(s, n)', s < Reached(n)',
                      n \notin blind', Certain(n, s)'
               PROVE  Heard(n, s)'
    BY DEF VisitedHeard
  <1>2. Reached(n)' = Reached(n) /\ n \in Changes /\ s \in Nat /\ s > 0 /\ Len(log) \in Nat
    <2>1. Reached(n)' = Reached(n)
      BY DEF Reached
    <2>2. Len(log') <= MaxChanges /\ Len(log) \in Nat /\ Len(log') \in Nat
      BY <1>1, HistoryGrows DEF TypeInv, TypeOK
    <2>3. n \in Changes /\ s \in Nat /\ s > 0
      BY <2>2, CountAssumption DEF Changes, Subs
    <2>4. QED
      BY <2>1, <2>2, <2>3
  <1>3. CASE n \in 1 .. Len(log)
    <2>1. Watching(s, n) /\ Certain(n, s) /\ n \notin blind
      BY <1>1, <1>3, CertainBefore, BlindGrows
    <2>2. Heard(n, s)
      BY <1>2, <1>3, <2>1 DEF FeedInv, VisitedHeard
    <2>3. QED
      BY <2>2, HeardStays
  <1>4. CASE n \notin 1 .. Len(log)
    <2>1. task[n].pc = "idle"
      BY <1>1, <1>2, <1>4 DEF TypeInv, Lined, StartedCommitted, Started, Changes
    <2>2. Reached(n) = 0
      BY <2>1 DEF Reached
    <2>3. QED
      BY <1>2, <2>2
  <1>5. QED
    BY <1>3, <1>4

LEMMA RangeOfTail ==
    ASSUME NEW S, NEW line \in Seq(S), line # <<>>
    PROVE  Range(line) = {Head(line)} \cup Range(Tail(line))
  <1> DEFINE rest == Tail(line)
  <1>1. /\ Head(line) = line[1] /\ Len(line) \in Nat /\ Len(line) > 0 /\ DOMAIN line = 1 .. Len(line)
        /\ DOMAIN rest = 1 .. Len(line) - 1 /\ \A i \in 1 .. Len(line) - 1 : rest[i] = line[i + 1]
    BY HeadTailProperties
  <1> HIDE DEF rest
  <1>2. \A i \in DOMAIN line : i = 1 \/ (i - 1 \in DOMAIN rest /\ rest[i - 1] = line[i])
    BY <1>1
  <1>3. \A i \in DOMAIN rest : i + 1 \in DOMAIN line /\ rest[i] = line[i + 1]
    BY <1>1
  <1>4. 1 \in DOMAIN line
    BY <1>1
  <1>5. Range(line) \subseteq {line[1]} \cup Range(rest)
    BY <1>2 DEF Range
  <1>6. {line[1]} \cup Range(rest) \subseteq Range(line)
    BY <1>3, <1>4 DEF Range
  <1>7. QED
    BY <1>1, <1>5, <1>6 DEF rest

LEMMA RangeOfAppend ==
    ASSUME NEW S, NEW line \in Seq(S), NEW e \in S
    PROVE  Range(Append(line, e)) = Range(line) \cup {e}
  <1> DEFINE longer == Append(line, e)
  <1>1. /\ DOMAIN longer = 1 .. Len(line) + 1 /\ DOMAIN line = 1 .. Len(line) /\ Len(line) + 1 \in DOMAIN longer
        /\ longer[Len(line) + 1] = e
        /\ \A i \in DOMAIN line : i \in DOMAIN longer /\ longer[i] = line[i]
        /\ \A i \in DOMAIN longer : i = Len(line) + 1 \/ (i \in DOMAIN line /\ longer[i] = line[i])
    BY OldOrNew
  <1> HIDE DEF longer
  <1>2. Range(longer) = Range(line) \cup {e}
    BY <1>1 DEF Range
  <1>3. QED
    BY <1>2 DEF longer

LEMMA FeedNotify ==
    ASSUME BaseInv, FeedInv, Notify
    PROVE  FeedInv'
  <1>1. PICK n \in Changes : n = Head(pending) /\ n \in 1 .. Len(log) /\ task[n].pc = "idle" /\ Moves(n, queue)
    BY NotifyMoves DEF BaseInv
  <1>2. UNCHANGED <<row, log, trigger, catalog, sub, hooked, since, hookSince, moved>>
    BY DEF Notify, clients
  <1>3. TypeInv /\ [Next]_vars
    BY DEF BaseInv, Next
  <1>4. TaskTyped(n)
    BY <1>1, <1>2, <1>3, MovesTyped
  <1>5. Range(pending) = {n} \cup Range(pending')
    <2>1. pending \in Seq(Changes) /\ pending # <<>> /\ pending' = Tail(pending)
      BY <1>3 DEF Notify, TypeInv, TypeOK
    <2>2. QED
      BY <1>1, <2>1, RangeOfTail
  <1>6. Attached'
    BY <1>2 DEF FeedInv, Attached
  <1>7. PostedOrPending'
    <2>1. hooked => post' = post \cup {n}
      BY <1>1 DEF Notify
    <2>2. QED
      BY <1>2, <1>5, <2>1 DEF FeedInv, PostedOrPending
  <1>8. WatchedNoticed'
    <2>1. ASSUME NEW s \in Subs, NEW m \in 1 .. Len(log), Watching(s, m)' PROVE Noticed(m)'
      <3>1. Watching(s, m)
        BY <1>2, <2>1 DEF Watching
      <3>2. m \in Changes
        BY <1>3, CountAssumption DEF Changes, TypeInv, TypeOK
      <3>3. Started(m) \/ m = n \/ m \in Range(pending')
        BY <1>5, <3>1 DEF FeedInv, WatchedNoticed, Noticed
      <3>4. CASE m = n
        BY <1>4, <3>4 DEF Noticed, Started, TaskTyped
      <3>5. CASE m # n /\ Started(m)
        BY <1>4, <3>2, <3>5 DEF Noticed, Started, TaskTyped
      <3>6. CASE m \in Range(pending')
        BY <3>6 DEF Noticed
      <3>7. QED
        BY <3>3, <3>4, <3>5, <3>6
    <2>2. QED
      BY <1>2, <2>1 DEF WatchedNoticed
  <1>9. IdentityKept' /\ VisitedHeard'
    BY <1>1, <1>2, <1>3, MovesFeed
  <1>10. QED
    BY <1>6, <1>7, <1>8, <1>9 DEF FeedInv

LEMMA FeedAnswer ==
    ASSUME BaseInv, FeedInv, TaskAnswer
    PROVE  FeedInv'
  <1>1. PICK n \in Changes : n \in 1 .. Len(log) /\ task[n].pc \in Steps /\ Moves(n, Tail(queue))
    BY AnswerMoves DEF BaseInv
  <1>2. UNCHANGED <<row, log, trigger, pending, catalog, post, sub, hooked, since, hookSince, moved>>
    BY DEF TaskAnswer, db, clients
  <1>3. TypeInv
    BY DEF BaseInv
  <1>4. [Next]_vars
    BY DEF TaskAnswer, Next, Answer
  <1>5. TaskTyped(n)
    BY <1>1, <1>2, <1>3, MovesTyped
  <1>6. \A m \in Changes : Started(m) => Started(m)'
    BY <1>5 DEF TaskTyped, Started
  <1>7. Attached' /\ PostedOrPending'
    BY <1>2 DEF FeedInv, Attached, PostedOrPending
  <1>8. WatchedNoticed'
    <2>1. \A m \in 1 .. Len(log) : m \in Changes
      BY <1>3, CountAssumption DEF Changes, TypeInv, TypeOK
    <2>2. QED
      BY <1>2, <1>6, <2>1 DEF FeedInv, WatchedNoticed, Watching, Noticed
  <1>9. task[n].pc # "done"
    BY <1>1 DEF Steps
  <1>10. IdentityKept' /\ VisitedHeard'
    BY <1>1, <1>2, <1>4, <1>9, MovesFeed
  <1>11. QED
    BY <1>7, <1>8, <1>10 DEF FeedInv


LEMMA FeedWrite ==
    ASSUME BaseInv, FeedInv, Write
    PROVE  FeedInv'
  <1>1. TypeInv /\ [Next]_vars /\ TypeInv'
    BY NextTyped DEF BaseInv, Next
  <1>2. UNCHANGED <<trigger, task, got, post, sub, hooked, since, hookSince, moved>>
    BY DEF Write, clients
  <1>3. Len(log) \in Nat /\ Len(log') = Len(log) + 1 /\ Len(log') \in Changes /\ hookSince \in Nat
    <2>1. Len(log') = Len(log) + 1 /\ log \in Seq(Change) /\ Len(log) < MaxChanges
      BY <1>1, AppendProperties DEF Write, TypeInv, TypeOK
    <2>2. QED
      BY <1>1, <2>1, CountAssumption DEF Changes, TypeInv, TypeOK
  <1>4. \A n \in 1 .. Len(log') : n \in 1 .. Len(log) \/ n = Len(log')
    BY <1>3
  <1>5. Range(pending) \subseteq Range(pending') /\ (trigger => Len(log') \in Range(pending'))
    <2>1. CASE trigger
      <3>1. pending \in Seq(Changes) /\ pending' = Append(pending, Len(log'))
        BY <1>1, <2>1 DEF Write, TypeInv, TypeOK
      <3>2. Range(pending') = Range(pending) \cup {Len(log')}
        BY <1>3, <3>1, RangeOfAppend
      <3>3. QED
        BY <3>2
    <2>2. CASE ~trigger
      BY <2>2 DEF Write
    <2>3. QED
      BY <2>1, <2>2
  <1>6. Attached'
    BY <1>2 DEF FeedInv, Attached
  <1>7. PostedOrPending'
    <2>1. ASSUME hooked, hookSince < Len(log') PROVE Len(log') \in Range(pending')
      <3>1. hookSince < MaxChanges
        BY <1>3, <2>1, CountAssumption DEF Changes
      <3>2. QED
        BY <1>5, <2>1, <3>1 DEF FeedInv, Attached
    <2>2. QED
      BY <1>2, <1>4, <1>5, <2>1 DEF FeedInv, PostedOrPending
  <1>8. WatchedNoticed'
    <2>1. ASSUME NEW s \in Subs, NEW n \in 1 .. Len(log'), Watching(s, n)' PROVE Noticed(n)'
      <3>1. Watching(s, n) /\ sub[s] # None
        BY <1>2, <2>1 DEF Watching
      <3>2. CASE n \in 1 .. Len(log)
        BY <1>2, <1>5, <3>1, <3>2 DEF FeedInv, WatchedNoticed, Noticed, Started
      <3>3. CASE n = Len(log')
        BY <1>5, <3>1, <3>3 DEF FeedInv, Attached, Noticed
      <3>4. QED
        BY <1>4, <3>2, <3>3
    <2>2. QED
      BY <2>1 DEF WatchedNoticed
  <1>9. IdentityKept'
    BY <1>2 DEF FeedInv, IdentityKept
  <1>10. VisitedHeard'
    BY <1>1, <1>2, QuietFeed DEF Watching
  <1>11. QED
    BY <1>6, <1>7, <1>8, <1>9, <1>10 DEF FeedInv

LEMMA FeedClients ==
    ASSUME BaseInv, FeedInv, [Next]_vars,
           AttachTrigger \/ Register \/ (\E s \in Subs : Join(s) \/ Move(s))
    PROVE  FeedInv'
  <1>1. TypeInv /\ UNCHANGED <<log, pending, catalog, task, got, post>>
    BY DEF BaseInv, AttachTrigger, Register, Join, Move, db
  <1>2. Len(log) \in Nat /\ Len(log) <= MaxChanges /\ MaxChanges \in Nat
    BY <1>1, CountAssumption DEF TypeInv, TypeOK
  <1>3. CASE AttachTrigger
    <2>1. UNCHANGED <<sub, hooked, since, hookSince, moved>> /\ trigger' = TRUE
      BY <1>3 DEF AttachTrigger, clients
    <2>2. Attached' /\ PostedOrPending' /\ WatchedNoticed' /\ IdentityKept'
      BY <1>1, <2>1 DEF FeedInv, Attached, PostedOrPending, WatchedNoticed, IdentityKept, Watching, Noticed, Started
    <2>3. VisitedHeard'
      BY <1>1, <2>1, QuietFeed DEF Watching
    <2>4. QED
      BY <2>2, <2>3 DEF FeedInv
  <1>4. CASE Register
    <2>1. UNCHANGED <<trigger, sub, since, moved>> /\ hookSince' = IF trigger THEN Len(log) ELSE MaxChanges
      BY <1>4 DEF Register, db
    <2>2. Attached' /\ PostedOrPending'
      BY <1>1, <1>2, <2>1 DEF FeedInv, Attached, PostedOrPending
    <2>3. WatchedNoticed' /\ IdentityKept'
      BY <1>1, <2>1 DEF FeedInv, WatchedNoticed, IdentityKept, Watching, Noticed, Started
    <2>4. VisitedHeard'
      BY <1>1, <2>1, QuietFeed DEF Watching
    <2>5. QED
      BY <2>2, <2>3, <2>4 DEF FeedInv
  <1>5. ASSUME NEW s \in Subs, Join(s) \/ Move(s) PROVE FeedInv'
    <2>1. /\ UNCHANGED <<trigger, hooked, hookSince>> /\ moved \subseteq moved'
          /\ \A t \in Subs \ {s} : sub'[t] = sub[t] /\ since'[t] = since[t]
      BY <1>1, <1>5 DEF Join, Move, db, TypeInv, TypeOK
    <2>2. \A n \in 1 .. Len(log) : ~Watching(s, n)'
      <3>1. CASE Join(s)
        <4>1. since'[s] = Len(log)
          BY <1>1, <3>1 DEF Join, TypeInv, TypeOK
        <4>2. QED
          BY <1>2, <4>1 DEF Watching
      <3>2. CASE Move(s)
        BY <3>2 DEF Move, Watching
      <3>3. QED
        BY <1>5, <3>1, <3>2
    <2>3. \A t \in Subs, n \in 1 .. Len(log) : Watching(t, n)' => Watching(t, n) /\ sub'[t] = sub[t]
      BY <2>1, <2>2 DEF Watching
    <2>4. trigger \/ sub' = sub
      <3>1. CASE Join(s)
        BY <3>1 DEF Join
      <3>2. CASE Move(s)
        BY <3>2 DEF Move, FeedInv, Attached
      <3>3. QED
        BY <1>5, <3>1, <3>2
    <2>5. Attached' /\ PostedOrPending'
      BY <1>1, <2>1, <2>4 DEF FeedInv, Attached, PostedOrPending
    <2>6. WatchedNoticed'
      BY <1>1, <2>3 DEF FeedInv, WatchedNoticed, Noticed, Started
    <2>7. IdentityKept'
      <3>1. ASSUME NEW n \in Changes, task[n].pc = "visible", task[n].at \notin moved' PROVE sub'[task[n].at] = task[n].as
        <4>1. task[n].at \in Subs /\ task[n].as \in Users
          BY <1>1, <3>1 DEF TypeInv, Lined, StepKnown
        <4>2. sub[task[n].at] = task[n].as
          BY <2>1, <3>1 DEF FeedInv, IdentityKept
        <4>3. task[n].at # s
          <5>1. CASE Join(s)
            BY <4>1, <4>2, <5>1, IdentityAssumption DEF Join
          <5>2. CASE Move(s)
            BY <3>1, <5>2 DEF Move
          <5>3. QED
            BY <1>5, <5>1, <5>2
        <4>4. QED
          BY <2>1, <4>1, <4>2, <4>3
      <3>2. QED
        BY <1>1, <3>1 DEF IdentityKept
    <2>8. VisitedHeard'
      BY <1>1, <2>3, QuietFeed
    <2>9. QED
      BY <2>5, <2>6, <2>7, <2>8 DEF FeedInv
  <1>6. QED
    BY <1>3, <1>4, <1>5

LEMMA NextFeed == BaseInv /\ FeedInv /\ [Next]_vars => FeedInv'
  <1> SUFFICES ASSUME BaseInv, FeedInv, [Next]_vars PROVE FeedInv'
    OBVIOUS
  <1>1. ASSUME RequestDdl \/ UNCHANGED vars \/ \E kind \in {"ddl", "script"} : RunDdl(kind) PROVE FeedInv'
    <2>1. UNCHANGED <<log, trigger, pending, task, got, post, sub, hooked, since, hookSince, moved>>
      BY <1>1 DEF RequestDdl, RunDdl, vars, db, clients
    <2>2. Attached' /\ PostedOrPending' /\ WatchedNoticed' /\ IdentityKept'
      BY <2>1 DEF FeedInv, Attached, PostedOrPending, WatchedNoticed, IdentityKept, Watching, Noticed, Started
    <2>3. VisitedHeard'
      BY <2>1, QuietFeed DEF Watching
    <2>4. QED
      BY <2>2, <2>3 DEF FeedInv
  <1>2. QED
    BY <1>1, NextKinds, FeedNotify, FeedAnswer, FeedWrite, FeedClients

LEMMA InitFeed == Init => FeedInv
  BY DEF Init, FeedInv, Attached, PostedOrPending, WatchedNoticed, IdentityKept, VisitedHeard, Watching

(* Every change committed after a join was answered reaches the subscriber   *)
(* that the policies let see it from the commit on, or that is signed in     *)
(* where the change cannot be looked up, and every change committed after    *)
(* the webhook was registered is posted: by the time the                     *)
(* change is neither waiting nor under way, no caches, look-ups, faults or   *)
(* other dispatches have lost it.                                            *)
THEOREM ChangesReachTheirSubscribers == Spec => []NoChangeMissed
  <1>1. BaseInv /\ FeedInv => NoChangeMissed
    <2> SUFFICES ASSUME BaseInv, FeedInv, NEW n \in DOMAIN log, Settled(n)
                 PROVE  /\ hooked /\ hookSince < n => n \in post
                        /\ \A s \in Subs \ moved :
                             sub[s] # None /\ since[s] < n /\ n \notin blind /\ Certain(n, s) => Heard(n, s)
      BY DEF NoChangeMissed, Heard
    <2>1. TypeInv /\ n \in 1 .. Len(log) /\ n \in Changes /\ n \notin Range(pending) /\ n \notin Running
      <3>1. TypeInv /\ log \in Seq(Change) /\ Len(log) <= MaxChanges
        BY DEF BaseInv, TypeInv, TypeOK
      <3>2. n \in 1 .. Len(log) /\ Len(log) \in Nat
        BY <3>1
      <3>3. n \in Changes
        BY <3>1, <3>2, CountAssumption DEF Changes
      <3>4. n \notin Range(pending) /\ n \notin Running
        BY DEF Settled
      <3>5. QED
        BY <3>1, <3>2, <3>3, <3>4
    <2>2. hooked /\ hookSince < n => n \in post
      BY <2>1 DEF FeedInv, PostedOrPending
    <2>3. ASSUME NEW s \in Subs \ moved, sub[s] # None, since[s] < n, n \notin blind, Certain(n, s) PROVE Heard(n, s)
      <3>1. Watching(s, n)
        BY <2>3 DEF Watching
      <3>2. Started(n)
        BY <2>1, <3>1 DEF FeedInv, WatchedNoticed, Noticed
      <3>3. task[n].pc = "done"
        BY <2>1, <3>2 DEF Started, Running, TypeInv, TypeOK, Task
      <3>4. s < Reached(n)
        BY <3>3, CountAssumption DEF Reached, Subs
      <3>5. QED
        BY <2>1, <2>3, <3>1, <3>4 DEF FeedInv, VisitedHeard
    <2>4. QED
      BY <2>2, <2>3
  <1>2. QED
    BY InitBase, NextBase, InitFeed, NextFeed, <1>1, PTL DEF Spec


----------------------------------------------------------------------------
(* Nobody is overtaken.                                                      *)

LEMMA AheadAppended ==
    ASSUME NEW line \in Seq(Query), NEW e \in Query, NEW m
    PROVE  /\ \A n : AheadIn(line, m, n) => AheadIn(Append(line, e), m, n)
           /\ m \in Tasks(line) => AheadIn(Append(line, e), m, e[1])
  <1> DEFINE longer == Append(line, e)
  <1>1. /\ Len(longer) = Len(line) + 1 /\ Len(line) \in Nat /\ DOMAIN line = 1 .. Len(line)
        /\ \A i \in 1 .. Len(line) : longer[i] = line[i]
        /\ longer[Len(line) + 1] = e
    BY AppendProperties
  <1> HIDE DEF longer
  <1>2. ASSUME NEW n, AheadIn(line, m, n) PROVE AheadIn(longer, m, n)
    <2>1. PICK i, j \in 1 .. Len(line) : i < j /\ line[i][1] = m /\ line[j][1] = n
      BY <1>2 DEF AheadIn
    <2>2. i \in 1 .. Len(longer) /\ j \in 1 .. Len(longer) /\ longer[i] = line[i] /\ longer[j] = line[j]
      BY <1>1
    <2>3. QED
      BY <2>1, <2>2 DEF AheadIn
  <1>3. ASSUME m \in Tasks(line) PROVE AheadIn(longer, m, e[1])
    <2>1. PICK i \in 1 .. Len(line) : line[i][1] = m
      BY <1>1, <1>3 DEF Tasks
    <2>2. i \in 1 .. Len(longer) /\ Len(line) + 1 \in 1 .. Len(longer) /\ i < Len(line) + 1 /\ longer[i][1] = m
      BY <1>1, <2>1
    <2>3. QED
      BY <1>1, <2>2 DEF AheadIn
  <1>4. QED
    BY <1>2, <1>3 DEF longer

LEMMA AheadAnswered ==
    ASSUME NEW line \in Seq(Query), line # <<>>, OnceIn(line), NEW m
    PROVE  /\ \A n : AheadIn(line, m, n) /\ m # line[1][1] => AheadIn(Tail(line), m, n)
           /\ line[1][1] # 0 => ~AheadIn(line, m, line[1][1])
  <1> DEFINE rest == Tail(line)
  <1>1. /\ Len(rest) = Len(line) - 1 /\ Len(line) \in Nat /\ Len(line) > 0
        /\ \A i \in 1 .. Len(line) - 1 : rest[i] = line[i + 1]
    BY HeadTailProperties
  <1> HIDE DEF rest
  <1>2. ASSUME NEW n, AheadIn(line, m, n), m # line[1][1] PROVE AheadIn(rest, m, n)
    <2>1. PICK i, j \in 1 .. Len(line) : i < j /\ line[i][1] = m /\ line[j][1] = n
      BY <1>2 DEF AheadIn
    <2>2. i # 1
      BY <1>2, <2>1
    <2>3. /\ i - 1 \in 1 .. Len(rest) /\ j - 1 \in 1 .. Len(rest) /\ i - 1 < j - 1
          /\ rest[i - 1] = line[i] /\ rest[j - 1] = line[j]
      BY <1>1, <2>1, <2>2
    <2>4. QED
      BY <2>1, <2>3 DEF AheadIn
  <1>3. ASSUME line[1][1] # 0, AheadIn(line, m, line[1][1]) PROVE FALSE
    <2>1. PICK i, j \in 1 .. Len(line) : i < j /\ line[j][1] = line[1][1]
      BY <1>3 DEF AheadIn
    <2>2. j = 1
      BY <1>1, <1>3, <2>1 DEF OnceIn
    <2>3. QED
      BY <1>1, <2>1, <2>2
  <1>4. QED
    BY <1>2, <1>3 DEF rest

(* What a dispatch sends lies between where it was and where it goes.        *)
LEMMA MovesBetween ==
    ASSUME TypeInv, NEW n \in Changes, task[n].pc # "done", NEW line, Moves(n, line)
    PROVE  /\ Reached(n) = At(n) /\ At(n) \in Nat /\ Reached(n)' \in Nat /\ At(n) <= Reached(n)'
           /\ \A s \in Subs :
                \/ got'[s] = got[s]
                \/ /\ At(n) <= s /\ s < Reached(n)'
                   /\ \E as \in Identities : got'[s] = Append(got[s], [n |-> n, as |-> as])
  <1>1. Reached(n) = At(n) /\ At(n) \in 0 .. NSubs /\ NSubs \in Nat
    BY AtTyped, CountAssumption DEF Reached, At
  <1>2. CASE Waits(n, line)
    <2>1. At(n) = 0
      BY <1>2 DEF Waits, At
    <2>2. QED
      BY <1>1, <1>2, <2>1, WaitsReach
  <1>3. CASE Walks(n, line)
    <2>1. PICK ver \in 0 .. MaxDdl + 1, rls \in BOOLEAN, seen \in SeenAt(n) : Walk(n, ver, rls, At(n), seen, line)
      BY <1>3 DEF Walks
    <2>2. Reached(n)' = Stop(n, rls, ver, At(n))
      BY <2>1, WalkReach DEF Moves
    <2>3. Stop(n, rls, ver, At(n)) \in At(n) + 1 .. NSubs + 1
      BY <1>1, StopsAt
    <2>4. PICK a \in Nat, r \in Nat : a = At(n) /\ r = Reached(n)' /\ a < r /\ r = Stop(n, rls, ver, At(n))
      <3>1. At(n) \in Nat /\ Stop(n, rls, ver, At(n)) \in Nat /\ At(n) < Stop(n, rls, ver, At(n))
        BY <1>1, <2>3
      <3>2. QED
        BY <2>2, <3>1
    <2>5. ASSUME NEW s \in Subs, got'[s] # got[s]
          PROVE  a <= s /\ s < r /\ \E as \in Identities : got'[s] = Append(got[s], [n |-> n, as |-> as])
      <3>1. Send(n, Served(n, rls, ver, At(n)), seen, task[n].as)
        BY <2>1 DEF Walk
      <3>2. PICK as \in Identities :
              /\ got'[s] = Append(got[s], [n |-> n, as |-> as])
              /\ (task[n].pc = "visible" /\ s = task[n].at) \/ s \in Served(n, rls, ver, At(n))
        <4>1. Sends(n, rls, ver, seen)
          BY <3>1, WalkSends
        <4>2. QED
          BY <2>5, <4>1 DEF Sends
      <3>3. s \in Nat
        BY CountAssumption DEF Subs
      <3>4. CASE task[n].pc = "visible" /\ s = task[n].at
        <4>1. s = a
          BY <2>4, <3>4 DEF At
        <4>2. a <= s /\ s < r
          <5>1. a < r
            BY <2>4
          <5>2. QED
            BY <3>3, <4>1, <5>1
        <4>3. QED
          BY <3>2, <4>2
      <3>5. CASE s \in Served(n, rls, ver, At(n))
        <4>1. s > At(n) /\ s < Stop(n, rls, ver, At(n))
          BY <1>1, <3>5, ServedSeen
        <4>2. s > a /\ s < r
          BY <2>4, <4>1
        <4>3. a <= s /\ s < r
          BY <3>3, <4>2
        <4>4. QED
          BY <3>2, <4>3
      <3>6. QED
        BY <3>2, <3>4, <3>5
    <2>6. Reached(n) = At(n) /\ At(n) \in Nat /\ Reached(n)' \in Nat /\ At(n) <= Reached(n)'
      BY <1>1, <2>4
    <2>7. QED
      BY <2>4, <2>5, <2>6
  <1>4. QED
    BY <1>2, <1>3 DEF Moves

(* A later dispatch stops where an earlier one waits, behind it.             *)
LEMMA StopsBehind ==
    ASSUME TypeInv, NEW n \in Changes, NEW m \in Changes, m # n, NEW line, LineOf(n, line),
           NEW ver \in 0 .. MaxDdl + 1, NEW seen, Walk(n, ver, TRUE, At(n), seen, line),
           m \in Running, task[m].pc = "visible", At(n) < task[m].at, sub[task[m].at] \in Users, CanLookUp(n, ver)
    PROVE  Behind(m, n)'
  <1>1. task[m].at \in Subs /\ NeedsQuery(n, task[m].at, TRUE, ver)
    BY IdentityAssumption DEF TypeInv, Lined, StepKnown, NeedsQuery, Bound
  <1>2. PICK stop : stop = Stop(n, TRUE, ver, At(n))
    OBVIOUS
  <1>3. PICK from \in 0 .. NSubs : from = At(n)
    BY AtTyped
  <1>4. PICK at \in Subs : at = task[m].at
    BY <1>1
  <1>5. stop \in from + 1 .. NSubs + 1 /\ stop <= at
    <2>1. /\ Stop(n, TRUE, ver, from) \in from + 1 .. NSubs + 1
          /\ \A s \in Subs : from < s /\ NeedsQuery(n, s, TRUE, ver) => Stop(n, TRUE, ver, from) <= s
      BY <1>3, StopsAt
    <2>2. from < at /\ NeedsQuery(n, at, TRUE, ver)
      BY <1>1, <1>3, <1>4
    <2>3. stop = Stop(n, TRUE, ver, from)
      BY <1>2, <1>3
    <2>4. QED
      BY <2>1, <2>2, <2>3
  <1>6. stop # NSubs + 1 /\ (stop < at \/ stop = at)
    BY <1>5, CountAssumption DEF Subs
  <1>7. TaskTyped(n) /\ Stops(n, TRUE, ver) /\ queue' = Append(line, <<n, "task">>)
    <2>1. Stop(n, TRUE, ver, At(n)) # NSubs + 1
      BY <1>2, <1>6
    <2>2. QED
      BY <2>1, WalkTyped
  <1>8. task'[m] = task[m] /\ task'[n].pc = "visible" /\ task'[n].at = stop
    BY <1>2, <1>7 DEF TaskTyped, Stops
  <1>9. Ahead(m, n)'
    <2>1. m \in Tasks(line) /\ line \in Seq(Query) /\ <<n, "task">> \in Query /\ <<n, "task">>[1] = n
      BY DEF LineOf, Query
    <2>2. AheadIn(Append(line, <<n, "task">>), m, n)
      BY <2>1, AheadAppended
    <2>3. QED
      BY <1>7, <2>2 DEF Ahead
  <1>10. task'[n].at < task'[m].at \/ task'[n].at = task'[m].at
    BY <1>4, <1>6, <1>8
  <1>11. QED
    BY <1>8, <1>9, <1>10 DEF Behind

(* An entry of whoever has not started, or has not come so far, is none.     *)
LEMMA NextSentBehind ==
    ASSUME TypeInv, SentBehind, NEW n \in Changes, task[n].pc # "done", NEW line, Moves(n, line),
           UNCHANGED <<log, catalog>>
    PROVE  SentBehind'
  <1>1. TaskTyped(n)
    BY MovesTyped
  <1>2. /\ Reached(n) = At(n) /\ At(n) \in Nat /\ Reached(n)' \in Nat /\ At(n) <= Reached(n)'
        /\ \A s \in Subs :
             \/ got'[s] = got[s]
             \/ s < Reached(n)' /\ \E as \in Identities : got'[s] = Append(got[s], [n |-> n, as |-> as])
    BY MovesBetween
  <1>3. ASSUME NEW s \in Subs, NEW i \in DOMAIN got[s], NEW k, k = got[s][i].n PROVE s < Reached(k)'
    <2>1. k \in Changes /\ s < Reached(k) /\ s \in Nat
      BY <1>3, GotTyped, CountAssumption DEF SentBehind, Subs
    <2>2. CASE k = n
      BY <1>2, <2>1, <2>2
    <2>3. CASE k # n
      <3>1. task'[k] = task[k]
        BY <1>1, <2>1, <2>3 DEF TaskTyped
      <3>2. QED
        BY <2>1, <3>1 DEF Reached
    <2>4. QED
      BY <2>2, <2>3
  <1>4. ASSUME NEW s \in Subs, NEW i \in DOMAIN got'[s], NEW k, k = got'[s][i].n PROVE s < Reached(k)'
    <2>1. CASE got'[s] = got[s]
      BY <1>3, <1>4, <2>1
    <2>2. ASSUME NEW as \in Identities, s < Reached(n)', got'[s] = Append(got[s], [n |-> n, as |-> as])
          PROVE  s < Reached(k)'
      <3>1. got[s] \in Seq([n : Changes, as : Identities]) /\ [n |-> n, as |-> as] \in [n : Changes, as : Identities]
        BY GotTyped
      <3>2. got'[s][i] = [n |-> n, as |-> as] \/ (i \in DOMAIN got[s] /\ got'[s][i] = got[s][i])
        BY <1>4, <2>2, <3>1, OldOrNew
      <3>3. CASE got'[s][i] = [n |-> n, as |-> as]
        BY <1>4, <2>2, <3>3
      <3>4. CASE i \in DOMAIN got[s] /\ got'[s][i] = got[s][i]
        BY <1>3, <1>4, <3>4
      <3>5. QED
        BY <3>2, <3>3, <3>4
    <2>3. QED
      BY <1>2, <2>1, <2>2
  <1>5. QED
    BY <1>4 DEF SentBehind


LEMMA ReachedTyped ==
    ASSUME TypeInv, NEW k \in Changes
    PROVE  Reached(k) \in Nat /\ (Reached(k) > 0 => Started(k))
  <1>1. CASE task[k].pc = "done"
    BY <1>1, CountAssumption DEF Reached, Started
  <1>2. CASE task[k].pc = "visible"
    <2>1. task[k].at \in Subs
      BY <1>2 DEF TypeInv, Lined, StepKnown
    <2>2. QED
      BY <1>2, <2>1, CountAssumption DEF Reached, Started, Subs
  <1>3. CASE task[k].pc # "done" /\ task[k].pc # "visible"
    BY <1>3 DEF Reached
  <1>4. QED
    BY <1>1, <1>2, <1>3

(* What is sent is sent by a dispatch that nobody later has passed.          *)
LEMMA NextNoOvertaking ==
    ASSUME TypeInv, SentBehind, NoOvertaking, NEW n \in Changes, task[n].pc # "done", NEW line, Moves(n, line),
           disturbed \subseteq disturbed',
           n \notin disturbed' => \A k \in Changes : n <= k /\ Started(k) => Reached(k) <= At(n)
    PROVE  NoOvertaking'
  <1>1. PICK a \in Nat : a = At(n) /\ \A s \in Subs :
          \/ got'[s] = got[s]
          \/ a <= s /\ \E as \in Identities : got'[s] = Append(got[s], [n |-> n, as |-> as])
    BY MovesBetween
  <1>2. ASSUME NEW s \in Subs, NEW i \in DOMAIN got[s], NEW k, k = got[s][i].n, n <= k, a <= s
        PROVE  n \in disturbed'
    <2>1. k \in Changes /\ s < Reached(k) /\ s \in Nat /\ s > 0
      BY <1>2, GotTyped, CountAssumption DEF SentBehind, Subs
    <2>2. PICK r \in Nat : r = Reached(k) /\ (r > 0 => Started(k))
      BY <2>1, ReachedTyped
    <2>3. Started(k) /\ s < r
      BY <2>1, <2>2
    <2>4. n \notin disturbed' => r <= a
      BY <1>1, <1>2, <2>1, <2>2, <2>3
    <2>5. ~(r <= a)
      BY <1>2, <2>1, <2>3
    <2>6. QED
      BY <2>4, <2>5
  <1>3. ASSUME NEW s \in Subs, NEW i \in DOMAIN got'[s], NEW j \in DOMAIN got'[s],
               i < j, got'[s][i].n >= got'[s][j].n
        PROVE  got'[s][j].n \in disturbed'
    <2>1. CASE got'[s] = got[s]
      BY <1>3, <2>1 DEF NoOvertaking
    <2>2. ASSUME NEW as \in Identities, a <= s, got'[s] = Append(got[s], [n |-> n, as |-> as])
          PROVE  got'[s][j].n \in disturbed'
      <3>1. got[s] \in Seq([n : Changes, as : Identities]) /\ [n |-> n, as |-> as] \in [n : Changes, as : Identities]
        BY GotTyped
      <3>2. /\ DOMAIN got'[s] = 1 .. Len(got[s]) + 1 /\ DOMAIN got[s] = 1 .. Len(got[s]) /\ Len(got[s]) \in Nat
            /\ got'[s][Len(got[s]) + 1] = [n |-> n, as |-> as]
            /\ \A k \in DOMAIN got[s] : got'[s][k] = got[s][k]
        BY <2>2, <3>1, OldOrNew
      <3>3. i \in DOMAIN got[s] /\ got'[s][i] = got[s][i]
        <4>1. i \in 1 .. Len(got[s])
          BY <1>3, <3>2
        <4>2. QED
          BY <3>2, <4>1
      <3>4. CASE j \in DOMAIN got[s]
        <4>1. got'[s][j] = got[s][j]
          BY <3>2, <3>4
        <4>2. QED
          BY <1>3, <3>3, <3>4, <4>1 DEF NoOvertaking
      <3>5. CASE j \notin DOMAIN got[s]
        <4>1. j = Len(got[s]) + 1
          BY <1>3, <3>2, <3>5
        <4>2. got'[s][j].n = n
          BY <3>2, <4>1
        <4>3. PICK k \in Changes : k = got[s][i].n
          BY <3>3, GotTyped
        <4>4. k >= n
          BY <1>3, <3>3, <4>2, <4>3
        <4>5. n <= k
          BY <4>4, CountAssumption DEF Changes
        <4>6. QED
          BY <1>2, <2>2, <3>3, <4>2, <4>3, <4>5
      <3>6. QED
        BY <3>4, <3>5
    <2>3. QED
      BY <1>1, <2>1, <2>2
  <1>4. QED
    BY <1>3 DEF NoOvertaking

(* A notification with warm caches walks at once; so does every look-up.     *)
LEMMA NotifyWarm ==
    ASSUME Notify, schemaCache # None, rlsCache # None
    PROVE  Walk(Head(pending), schemaCache, rlsCache, 0, {}, queue)
  BY DEF Notify, AfterSchema, AfterPolicies

LEMMA AnswerWalks ==
    ASSUME TypeInv, TaskAnswer, NEW n \in Changes, n = queue[1][1], task[n].pc = "visible"
    PROVE  \E seen : Walk(n, task[n].ver, TRUE, At(n), seen, Tail(queue))
  <1>1. LookUp(n)
    BY DEF TaskAnswer, ReadColumns, ReadKeys, ReadPolicies
  <1>2. task[n].rls = TRUE /\ At(n) = task[n].at
    BY DEF TypeInv, Lined, StepKnown, At
  <1>3. \E seen : Walk(n, task[n].ver, task[n].rls, task[n].at, seen, Tail(queue))
    BY <1>1 DEF LookUp
  <1>4. QED
    BY <1>2, <1>3

LEMMA StopsInStep ==
    ASSUME TypeInv, NEW n \in Changes, NEW ver \in 0 .. MaxDdl + 1, NEW rls \in BOOLEAN,
           NEW seen, NEW line, LineOf(n, line), Walk(n, ver, rls, At(n), seen, line), task'[n].pc \in Steps
    PROVE  /\ task'[n].pc = "visible" /\ rls = TRUE /\ sub[task'[n].at] \in Users
           /\ task'[n].at = Stop(n, rls, ver, At(n)) /\ task'[n].at \in Subs
           /\ At(n) < task'[n].at
  <1>1. Stops(n, rls, ver)
    BY WalkTyped DEF Ends, Steps
  <1>2. PICK at \in Subs : at = Stop(n, rls, ver, At(n)) /\ NeedsQuery(n, at, rls, ver) /\ task'[n].pc = "visible" /\ task'[n].at = at
    BY <1>1 DEF Stops
  <1>3. rls = TRUE /\ sub[at] \in Users
    BY <1>2 DEF NeedsQuery, Bound, TypeInv, TypeOK, Identities
  <1>4. At(n) < at
    <2>1. PICK from \in 0 .. NSubs : from = At(n)
      BY AtTyped
    <2>2. Stop(n, rls, ver, from) \in from + 1 .. NSubs + 1
      BY StopsAt
    <2>3. at \in from + 1 .. NSubs + 1
      BY <1>2, <2>1, <2>2
    <2>4. from < at
      BY <2>3, CountAssumption
    <2>5. QED
      BY <2>1, <2>4
  <1>5. QED
    BY <1>2, <1>3, <1>4


LEMMA MovesLine ==
    ASSUME TypeInv, NEW n \in Changes, NEW line, Moves(n, line)
    PROVE  queue' = line \/ queue' = Append(line, <<n, "task">>)
  <1>1. CASE Waits(n, line)
    BY <1>1 DEF Waits, Suspend
  <1>2. CASE Walks(n, line)
    BY <1>2, WalkTyped DEF Moves, Walks
  <1>3. QED
    BY <1>1, <1>2 DEF Moves

(* The others keep their places.                                             *)
LEMMA KeepsBehind ==
    ASSUME TypeInv, NEW n \in Changes, NEW line, Moves(n, line), UNCHANGED <<log, catalog>>,
           NEW m \in Changes, NEW k \in Changes, m # n, k # n, Behind(m, k),
           AheadIn(queue, m, k) => AheadIn(line, m, k)
    PROVE  Behind(m, k)'
  <1>1. task'[m] = task[m] /\ task'[k] = task[k]
    BY MovesTyped DEF TaskTyped
  <1>2. AheadIn(line, m, k) => AheadIn(queue', m, k)
    <2>1. line \in Seq(Query) /\ <<n, "task">> \in Query
      BY DEF Moves, LineOf, Query
    <2>2. AheadIn(line, m, k) => AheadIn(Append(line, <<n, "task">>), m, k)
      BY <2>1, AheadAppended
    <2>3. QED
      BY <2>2, MovesLine
  <1>3. Ahead(m, k) => Ahead(m, k)'
    BY <1>2 DEF Ahead
  <1>4. QED
    BY <1>1, <1>3 DEF Behind

LEMMA OrderNotify ==
    ASSUME BaseInv, OrderInv, Notify
    PROVE  OrderInv'
  <1>1. PICK n \in Changes : n = Head(pending) /\ n \in 1 .. Len(log) /\ task[n].pc = "idle" /\ Moves(n, queue)
    BY NotifyMoves DEF BaseInv
  <1>2. UNCHANGED <<log, catalog, sub, spoiled>> /\ Rls' = Rls
    BY DEF Notify, clients, Rls, Version
  <1>3. TypeInv /\ SentBehind /\ Undisturbed /\ NoOvertaking
    BY DEF BaseInv, OrderInv
  <1>4. TaskTyped(n) /\ \A k \in Changes \ {n} : task'[k] = task[k]
    BY <1>1, <1>2, <1>3, MovesTyped DEF TaskTyped
  <1>5. \A k \in Changes : Started(k) => k < n
    <2>1. pending \in Seq(Changes) /\ pending # <<>>
      BY <1>3 DEF TypeInv, TypeOK, Notify
    <2>2. 1 \in 1 .. Len(pending) /\ pending[1] = n
      BY <1>1, <2>1, EmptySeq
    <2>3. QED
      BY <1>3, <2>2 DEF TypeInv, Lined, PendingWaits
  <1>6. /\ disturbed \subseteq disturbed'
        /\ schemaCache = None \/ rlsCache = None \/ spoiled => n \in disturbed'
        /\ schemaCache = None \/ rlsCache = None \/ ~CanLookUp(n, schemaCache) => Running \subseteq disturbed'
    BY <1>1 DEF Notify
  <1>7. SentBehind'
    BY <1>1, <1>2, <1>3, NextSentBehind
  <1>8. NoOvertaking'
    <2>1. \A k \in Changes : n <= k /\ Started(k) => FALSE
      BY <1>5, CountAssumption DEF Changes
    <2>2. QED
      BY <1>1, <1>3, <1>6, <2>1, NextNoOvertaking
  <1>9. At(n) = 0 /\ LineOf(n, queue)
    BY <1>1 DEF At, Moves
  <1>10. ASSUME schemaCache # None, rlsCache # None, ~spoiled
         PROVE  /\ Walk(n, schemaCache, rlsCache, At(n), {}, queue)
                /\ schemaCache \in 0 .. MaxDdl + 1 /\ rlsCache \in BOOLEAN /\ rlsCache = Rls
    <2>1. Walk(n, schemaCache, rlsCache, At(n), {}, queue)
      BY <1>1, <1>9, <1>10, NotifyWarm
    <2>2. schemaCache \in 0 .. MaxDdl + 1
      <3>1. schemaCache \in 1 .. Version /\ Version \in 1 .. MaxDdl + 1
        BY <1>3, <1>10, CatalogTyped DEF TypeInv, TypeOK
      <3>2. QED
        BY <3>1, CountAssumption
    <2>3. rlsCache \in BOOLEAN /\ rlsCache = Rls
      <3>1. rlsCache = Rls
        BY <1>10 DEF BaseInv, CacheInv, CachesCurrent
      <3>2. QED
        BY <1>3, <3>1, CatalogTyped
    <2>4. QED
      BY <2>1, <2>2, <2>3
  <1>11. ASSUME n \in Running', n \notin disturbed' PROVE InStep(n)'
    <2>1. schemaCache # None /\ rlsCache # None /\ ~spoiled
      BY <1>6, <1>11
    <2>2. task'[n].pc \in Steps
      BY <1>11 DEF Running
    <2>3. task'[n].pc = "visible" /\ rlsCache = TRUE /\ sub[task'[n].at] \in Users
      BY <1>3, <1>9, <1>10, <2>1, <2>2, StopsInStep
    <2>4. Rls' = TRUE /\ ~spoiled' /\ sub'[task'[n].at] \in Users
      BY <1>2, <1>10, <2>1, <2>3
    <2>5. ASSUME NEW k \in Changes, n < k, task'[k].pc # "idle" PROVE FALSE
      <3>1. k # n
        BY <2>5, CountAssumption DEF Changes
      <3>2. Started(k)
        BY <1>4, <2>5, <3>1 DEF Started
      <3>3. k < n
        BY <1>5, <3>2
      <3>4. QED
        BY <2>5, <3>3, CountAssumption DEF Changes
    <2>6. QED
      BY <2>3, <2>4, <2>5 DEF InStep, Started
  <1>12. ASSUME NEW m \in Running', m \notin disturbed', m # n PROVE InStep(m)'
    <2>1. m \in Changes /\ task'[m] = task[m] /\ m \in Running \ disturbed
      BY <1>4, <1>6, <1>12 DEF Running
    <2>2. InStep(m) /\ task[m].pc = "visible" /\ ~spoiled /\ Rls = TRUE /\ sub[task[m].at] \in Users
      BY <1>3, <2>1 DEF Undisturbed, InStep
    <2>3. schemaCache # None /\ rlsCache # None /\ CanLookUp(n, schemaCache)
      BY <1>6, <1>12, <2>1
    <2>4. Walk(n, schemaCache, TRUE, At(n), {}, queue) /\ schemaCache \in 0 .. MaxDdl + 1
      BY <1>10, <2>2, <2>3
    <2>5. At(n) < task[m].at
      BY <1>3, <1>9, <2>1, <2>2, CountAssumption DEF TypeInv, Lined, StepKnown, Subs
    <2>6. Behind(m, n)'
      BY <1>3, <1>9, <1>12, <2>1, <2>2, <2>3, <2>4, <2>5, StopsBehind
    <2>7. ASSUME NEW k \in Changes, m < k, task'[k].pc # "idle", k # n PROVE Behind(m, k)'
      <3>1. Behind(m, k)
        BY <1>4, <2>2, <2>7 DEF InStep, Started
      <3>2. QED
        BY <1>1, <1>2, <1>3, <1>12, <2>1, <2>7, <3>1, KeepsBehind
    <2>8. task'[m].pc = "visible" /\ ~spoiled' /\ Rls' = TRUE /\ sub'[task'[m].at] \in Users
      BY <1>2, <2>1, <2>2
    <2>9. \A k \in Changes : m < k /\ Started(k)' => Behind(m, k)'
      BY <2>6, <2>7 DEF Started
    <2>10. QED
      BY <2>8, <2>9 DEF InStep
  <1>13. Undisturbed'
    <2>1. ASSUME NEW m \in (Running \ disturbed)' PROVE InStep(m)'
      <3>1. m \in Running' /\ m \notin disturbed'
        BY <2>1
      <3>2. QED
        BY <1>11, <1>12, <3>1
    <2>2. QED
      BY <2>1 DEF Undisturbed
  <1>14. QED
    BY <1>7, <1>8, <1>13 DEF OrderInv


LEMMA OrderAnswer ==
    ASSUME BaseInv, OrderInv, TaskAnswer
    PROVE  OrderInv'
  <1>1. PICK n \in Changes :
          n = queue[1][1] /\ n \in 1 .. Len(log) /\ task[n].pc \in Steps /\ Moves(n, Tail(queue))
    BY AnswerMoves DEF BaseInv
  <1>2. UNCHANGED <<log, catalog, sub, spoiled, disturbed>> /\ Rls' = Rls
    BY DEF TaskAnswer, db, clients, Rls, Version
  <1>3. TypeInv /\ SentBehind /\ Undisturbed /\ NoOvertaking /\ task[n].pc # "done"
    BY <1>1 DEF BaseInv, OrderInv, Steps
  <1>4. TaskTyped(n) /\ (\A k \in Changes \ {n} : task'[k] = task[k]) /\ n \in Running
    BY <1>1, <1>2, <1>3, MovesTyped DEF TaskTyped, Running
  <1>5. queue \in Seq(Query) /\ queue # <<>> /\ OnceIn(queue) /\ n # 0
    BY <1>1, <1>3, CountAssumption DEF TaskAnswer, TypeInv, TypeOK, Lined, QueuedOnce, OnceIn, Changes
  <1>6. /\ \A m : ~AheadIn(queue, m, n)
        /\ \A m, k : m # n /\ AheadIn(queue, m, k) => AheadIn(Tail(queue), m, k)
    BY <1>1, <1>5, AheadAnswered
  <1>7. SentBehind'
    BY <1>1, <1>2, <1>3, NextSentBehind
  <1>8. NoOvertaking'
    <2>1. ASSUME NEW k \in Changes, n <= k, Started(k), n \notin disturbed PROVE Reached(k) <= At(n)
      <3>1. InStep(n) /\ task[n].pc = "visible" /\ At(n) = task[n].at /\ task[n].at \in Subs
        BY <1>3, <1>4, <2>1 DEF Undisturbed, InStep, At, TypeInv, Lined, StepKnown
      <3>2. CASE k = n
        <4>1. Reached(k) = At(n)
          BY <3>1, <3>2 DEF Reached
        <4>2. QED
          BY <3>1, <4>1, CountAssumption DEF Subs
      <3>3. CASE k # n
        <4>1. n < k
          BY <2>1, <3>3, CountAssumption DEF Changes
        <4>2. Behind(n, k)
          BY <2>1, <3>1, <4>1 DEF InStep
        <4>3. task[k].pc = "visible" /\ task[k].at \in Subs /\ Reached(k) = task[k].at
          BY <1>3, <4>2 DEF Behind, TypeInv, Lined, StepKnown, Reached
        <4>4. task[k].at < task[n].at \/ task[k].at = task[n].at
          BY <4>2 DEF Behind
        <4>5. task[k].at <= task[n].at
          BY <3>1, <4>3, <4>4, CountAssumption DEF Subs
        <4>6. QED
          BY <3>1, <4>3, <4>5
      <3>4. QED
        BY <3>2, <3>3
    <2>2. QED
      BY <1>1, <1>2, <1>3, <2>1, NextNoOvertaking
  <1>9. task[n].pc = "visible" => /\ \E seen : Walk(n, task[n].ver, TRUE, At(n), seen, Tail(queue))
                                  /\ task[n].ver \in 0 .. MaxDdl + 1 /\ LineOf(n, Tail(queue))
                                  /\ At(n) = task[n].at /\ CanLookUp(n, task[n].ver)
    BY <1>1, <1>3, AnswerWalks DEF Moves, At, TypeInv, TypeOK, Task, Lined, StepKnown
  <1>10. ASSUME n \in Running', n \notin disturbed PROVE InStep(n)'
    <2>1. InStep(n) /\ task[n].pc = "visible" /\ ~spoiled /\ Rls = TRUE
      BY <1>3, <1>4, <1>10 DEF Undisturbed, InStep
    <2>2. PICK seen : Walk(n, task[n].ver, TRUE, At(n), seen, Tail(queue))
      BY <1>9, <2>1
    <2>3. /\ task'[n].pc = "visible" /\ sub[task'[n].at] \in Users
          /\ task'[n].at \in Subs /\ task[n].at < task'[n].at
      BY <1>3, <1>9, <1>10, <2>1, <2>2, StopsInStep DEF Running
    <2>4. task[n].at \in Subs
      BY <1>3, <2>1 DEF TypeInv, Lined, StepKnown
    <2>5. ASSUME NEW k \in Changes, n < k, task'[k].pc # "idle" PROVE Behind(n, k)'
      <3>1. k # n
        BY <2>5, CountAssumption DEF Changes
      <3>2. task'[k] = task[k]
        BY <1>4, <3>1
      <3>3. Behind(n, k)
        BY <2>1, <2>5, <3>2 DEF InStep, Started
      <3>4. task[k].pc = "visible" /\ task[k].at \in Subs
        BY <1>3, <3>3 DEF Behind, TypeInv, Lined, StepKnown
      <3>5. task[k].at < task[n].at \/ task[k].at = task[n].at
        BY <3>3 DEF Behind
      <3>6. task'[k].at < task'[n].at
        BY <2>3, <2>4, <3>2, <3>4, <3>5, CountAssumption DEF Subs
      <3>7. QED
        BY <3>2, <3>4, <3>6 DEF Behind
    <2>6. ~spoiled' /\ Rls' = TRUE /\ sub'[task'[n].at] \in Users
      BY <1>2, <2>1, <2>3
    <2>7. QED
      BY <2>3, <2>5, <2>6 DEF InStep, Started
  <1>11. ASSUME NEW m \in Running', m \notin disturbed, m # n PROVE InStep(m)'
    <2>1. m \in Changes /\ task'[m] = task[m] /\ m \in Running \ disturbed
      BY <1>4, <1>11 DEF Running
    <2>2. InStep(m) /\ task[m].pc = "visible" /\ ~spoiled /\ Rls = TRUE /\ sub[task[m].at] \in Users
      BY <1>3, <2>1 DEF Undisturbed, InStep
    <2>3. ASSUME m < n PROVE Behind(m, n)'
      <3>1. Behind(m, n)
        BY <1>4, <2>2, <2>3 DEF InStep, Started, Running, Steps
      <3>2. task[n].pc = "visible" /\ task[n].at < task[m].at
        BY <1>6, <3>1 DEF Behind, Ahead
      <3>3. PICK seen : Walk(n, task[n].ver, TRUE, At(n), seen, Tail(queue))
        BY <1>9, <3>2
      <3>4. At(n) < task[m].at
        BY <1>9, <3>2
      <3>5. QED
        BY <1>3, <1>9, <1>11, <2>1, <2>2, <3>2, <3>3, <3>4, StopsBehind
    <2>4. ASSUME NEW k \in Changes, m < k, task'[k].pc # "idle", k # n PROVE Behind(m, k)'
      <3>1. Behind(m, k)
        BY <1>4, <2>2, <2>4 DEF InStep, Started
      <3>2. AheadIn(queue, m, k) => AheadIn(Tail(queue), m, k)
        BY <1>6, <1>11
      <3>3. QED
        BY <1>1, <1>2, <1>3, <1>11, <2>1, <2>4, <3>1, <3>2, KeepsBehind
    <2>5. task'[m].pc = "visible" /\ ~spoiled' /\ Rls' = TRUE /\ sub'[task'[m].at] \in Users
      BY <1>2, <2>1, <2>2
    <2>6. \A k \in Changes : m < k /\ Started(k)' => Behind(m, k)'
      BY <2>3, <2>4 DEF Started
    <2>7. QED
      BY <2>5, <2>6 DEF InStep
  <1>12. Undisturbed'
    <2>1. ASSUME NEW m \in (Running \ disturbed)' PROVE InStep(m)'
      <3>1. m \in Running' /\ m \notin disturbed
        BY <1>2, <2>1
      <3>2. QED
        BY <1>10, <1>11, <3>1
    <2>2. QED
      BY <2>1 DEF Undisturbed
  <1>13. QED
    BY <1>7, <1>8, <1>12 DEF OrderInv

(* The other steps send nothing.                                             *)
LEMMA OrderQuiet ==
    ASSUME BaseInv, OrderInv, [Next]_vars, UNCHANGED <<task, got>>, disturbed \subseteq disturbed',
           Running \subseteq disturbed' \/
             /\ UNCHANGED <<catalog, spoiled>>
             /\ \A s \in Subs : sub[s] \in Users => sub'[s] = sub[s]
             /\ \A m, n : Ahead(m, n) => AheadIn(queue', m, n)
    PROVE  OrderInv'
  <1>1. SentBehind /\ Undisturbed /\ NoOvertaking /\ TypeInv
    BY DEF BaseInv, OrderInv
  <1>2. SentBehind'
    BY <1>1 DEF SentBehind, Reached
  <1>3. NoOvertaking'
    BY <1>1 DEF NoOvertaking
  <1>4. ASSUME NEW m \in Changes, m \in Running', m \notin disturbed' PROVE InStep(m)'
    <2>1. m \in Running \ disturbed
      BY <1>4 DEF Running
    <2>2. /\ UNCHANGED <<catalog, spoiled>>
          /\ \A s \in Subs : sub[s] \in Users => sub'[s] = sub[s]
          /\ \A n : Ahead(m, n) => AheadIn(queue', m, n)
      BY <1>4, <2>1
    <2>3. InStep(m)
      BY <1>1, <2>1 DEF Undisturbed
    <2>4. task[m].at \in Subs /\ sub[task[m].at] \in Users
      BY <1>1, <2>3, <2>1 DEF InStep, TypeInv, Lined, StepKnown
    <2>5. task'[m].pc = "visible" /\ ~spoiled' /\ Rls' = TRUE /\ sub'[task'[m].at] \in Users
      BY <2>2, <2>3, <2>4 DEF InStep, Rls, Version
    <2>6. \A n \in Changes : m < n /\ Started(n)' => Behind(m, n)'
      <3>1. \A n : Ahead(m, n) => Ahead(m, n)'
        BY <2>2 DEF Ahead
      <3>2. QED
        BY <2>3, <3>1 DEF InStep, Started, Behind
    <2>7. QED
      BY <2>5, <2>6 DEF InStep
  <1>5. Undisturbed'
    BY <1>4 DEF Undisturbed, Running
  <1>6. QED
    BY <1>2, <1>3, <1>5 DEF OrderInv

LEMMA NextOrder == BaseInv /\ OrderInv /\ [Next]_vars => OrderInv'
  <1> SUFFICES ASSUME BaseInv, OrderInv, [Next]_vars PROVE OrderInv'
    OBVIOUS
  <1>1. TypeInv
    BY DEF BaseInv
  <1>2. CASE Write \/ AttachTrigger \/ Register \/ UNCHANGED vars
    <2>1. UNCHANGED <<catalog, spoiled, sub, queue, task, got, disturbed>>
      BY <1>2 DEF Write, AttachTrigger, Register, vars, db, clients
    <2>2. \A m, n : Ahead(m, n) => AheadIn(queue', m, n)
      BY <2>1 DEF Ahead
    <2>3. QED
      BY <2>1, <2>2, OrderQuiet
  <1>3. CASE RequestDdl
    <2>1. UNCHANGED <<catalog, spoiled, sub, task, got, disturbed>> /\ queue' = Append(queue, <<0, "schema">>)
      BY <1>3 DEF RequestDdl, db, clients
    <2>2. queue \in Seq(Query) /\ <<0, "schema">> \in Query
      BY <1>1 DEF TypeInv, TypeOK, Query
    <2>3. \A m, n : Ahead(m, n) => AheadIn(queue', m, n)
      BY <2>1, <2>2, AheadAppended DEF Ahead
    <2>4. QED
      BY <2>1, <2>3, OrderQuiet
  <1>4. ASSUME NEW s \in Subs, Join(s) PROVE OrderInv'
    <2>1. UNCHANGED <<catalog, spoiled, queue, task, got, disturbed>> /\ sub[s] = None
      BY <1>4 DEF Join, db
    <2>2. \A t \in Subs : sub[t] \in Users => sub'[t] = sub[t]
      BY <1>1, <1>4, <2>1, IdentityAssumption DEF Join, TypeInv, TypeOK
    <2>3. \A m, n : Ahead(m, n) => AheadIn(queue', m, n)
      BY <2>1 DEF Ahead
    <2>4. QED
      BY <2>1, <2>2, <2>3, OrderQuiet
  <1>5. ASSUME (\E s \in Subs : Move(s)) \/ \E kind \in {"ddl", "script"} : RunDdl(kind) PROVE OrderInv'
    <2>1. UNCHANGED <<task, got>> /\ disturbed' = disturbed \cup Running
      BY <1>5 DEF Move, RunDdl
    <2>2. QED
      BY <2>1, OrderQuiet
  <1>6. QED
    BY <1>2, <1>3, <1>4, <1>5, NextKinds, OrderNotify, OrderAnswer

(* A subscriber hears of the changes of a table in the order they were       *)
(* committed: the dispatches that run beside each other stay in step, as     *)
(* each waits for its look-ups in the one line behind those before it; a     *)
(* change is overtaken only where one of them was disturbed.                 *)
THEOREM ChangesStayInOrder == Spec => []NoOvertaking
  <1>1. Init => OrderInv
    <2>1. ASSUME Init PROVE Running = {} /\ \A s \in Subs : got[s] = <<>>
      BY <2>1 DEF Init, Running, Steps
    <2>2. QED
      BY <2>1 DEF OrderInv, SentBehind, Undisturbed, NoOvertaking
  <1>2. OrderInv => NoOvertaking
    BY DEF OrderInv
  <1>3. QED
    BY InitBase, NextBase, <1>1, NextOrder, <1>2, PTL DEF Spec

============================================================================
