-------------------------- MODULE NetServiceProofs --------------------------
(***************************************************************************)
(* What the request sender guarantees for any queue, batch and schedule.     *)
(***************************************************************************)
EXTENDS NetService, FiniteSetTheorems, TLAPS

(* What every tick in progress has done for the row it is at.                *)
Records ==
    /\ asked \subseteq Ids /\ queued \subseteq asked
    /\ response \in [Ids -> 0 .. 2]
    /\ sends \in [Ids -> 0 .. 2]
    /\ batch \in [Ticks -> SUBSET Ids]
    /\ step \in [Ticks -> {"free", "select", "send", "insert", "delete"}]

Sent == \A t \in Ticks, q \in Ids :
    step[t] = "insert" /\ IsFirst(q, batch[t]) => sends[q] # 0

Recorded == \A t \in Ticks, q \in Ids :
    step[t] = "delete" /\ IsFirst(q, batch[t]) => response[q] # 0

Safe == Records /\ Sent /\ Recorded /\ NothingLost

LEMMA FirstIsOne ==
    ASSUME NEW S \in SUBSET Ids, NEW p \in Ids, NEW q \in Ids, IsFirst(p, S), IsFirst(q, S)
    PROVE  p = q
BY IdsAssumption DEF IsFirst

LEMMA SafeInit == Init => Safe
BY DEF Init, Safe, Records, Sent, Recorded, NothingLost

LEMMA ContinueKeeps ==
    ASSUME Records, Sent, Recorded, NEW t \in Ticks, NEW left \in SUBSET Ids,
           Continue(t, left), UNCHANGED <<response, sends>>
    PROVE  /\ batch' \in [Ticks -> SUBSET Ids]
           /\ step' \in [Ticks -> {"free", "select", "send", "insert", "delete"}]
           /\ Sent' /\ Recorded'
BY DEF Records, Sent, Recorded, Continue, IsFirst

LEMMA SafeNext == Safe /\ [Next]_vars => Safe'
<1> SUFFICES ASSUME Safe, [Next]_vars PROVE Safe'
    OBVIOUS
<1> USE DEF Safe
<1>1. CASE Enqueue
    BY <1>1 DEF Enqueue, Records, Sent, Recorded, NothingLost
<1>2. ASSUME NEW t \in Ticks, Tick(t) PROVE Safe'
    BY <1>2 DEF Tick, tables, Records, Sent, Recorded, NothingLost
<1>3. ASSUME NEW t \in Ticks, Select(t) PROVE Safe'
    <2>1. FirstOnes(queued) \in SUBSET Ids
        BY DEF FirstOnes, Records
    <2>2. Continue(t, FirstOnes(queued)) /\ UNCHANGED <<tables, sends>>
        BY <1>3 DEF Select
    <2>. QED BY <2>1, <2>2, ContinueKeeps DEF tables, Records, NothingLost
<1>4. ASSUME NEW t \in Ticks, Send(t) PROVE Safe'
    <2>1. PICK q \in batch[t] :
            /\ IsFirst(q, batch[t])
            /\ sends' = [sends EXCEPT ![q] = IF @ = 0 THEN 1 ELSE 2]
        BY <1>4 DEF Send
    <2>2. q \in Ids
        BY <2>1 DEF Records
    <2>3. sends' \in [Ids -> 0 .. 2] /\ sends'[q] # 0 /\ \A p \in Ids : sends[p] # 0 => sends'[p] # 0
        BY <2>1, <2>2 DEF Records
    <2>4. /\ step' = [step EXCEPT ![t] = "insert"]
          /\ UNCHANGED <<asked, queued, response, batch>>
        BY <1>4 DEF Send, Goto, tables
    <2>5. Records'
        BY <2>3, <2>4 DEF Records
    <2>6. Sent'
        <3> SUFFICES ASSUME NEW u \in Ticks, NEW p \in Ids,
                            step'[u] = "insert", IsFirst(p, batch[u])
                     PROVE  sends'[p] # 0
            BY <2>4 DEF Sent, IsFirst
        <3>1. CASE u = t
            BY <3>1, <2>1, <2>2, <2>3, FirstIsOne DEF Records
        <3>2. CASE u # t
            BY <3>2, <2>3, <2>4 DEF Sent, Records
        <3>. QED BY <3>1, <3>2
    <2>7. Recorded' /\ NothingLost'
        BY <2>4 DEF Recorded, NothingLost, Records, IsFirst
    <2>. QED BY <2>5, <2>6, <2>7
<1>5. ASSUME NEW t \in Ticks, Insert(t) PROVE Safe'
    <2>1. PICK q \in batch[t] :
            /\ IsFirst(q, batch[t])
            /\ response' = [response EXCEPT ![q] = IF @ = 0 THEN sends[q] ELSE @]
        BY <1>5 DEF Insert
    <2>2. q \in Ids /\ sends[q] # 0
        BY <1>5, <2>1 DEF Records, Sent, Insert
    <2>3. /\ response' \in [Ids -> 0 .. 2] /\ response'[q] # 0
          /\ \A p \in Ids : response[p] # 0 => response'[p] # 0
        BY <2>1, <2>2 DEF Records
    <2>4. /\ step' = [step EXCEPT ![t] = "delete"]
          /\ UNCHANGED <<asked, queued, sends, batch>>
        BY <1>5 DEF Insert, Goto
    <2>5. Records'
        BY <2>3, <2>4 DEF Records
    <2>6. Recorded'
        <3> SUFFICES ASSUME NEW u \in Ticks, NEW p \in Ids,
                            step'[u] = "delete", IsFirst(p, batch[u])
                     PROVE  response'[p] # 0
            BY <2>4 DEF Recorded, IsFirst
        <3>1. CASE u = t
            BY <3>1, <2>1, <2>2, <2>3, FirstIsOne DEF Records
        <3>2. CASE u # t
            BY <3>2, <2>3, <2>4 DEF Recorded, Records
        <3>. QED BY <3>1, <3>2
    <2>7. Sent'
        BY <2>4 DEF Sent, Records, IsFirst
    <2>8. NothingLost'
        BY <2>3, <2>4 DEF NothingLost, Records
    <2>. QED BY <2>5, <2>6, <2>7, <2>8
<1>6. ASSUME NEW t \in Ticks, Delete(t) PROVE Safe'
    <2>1. PICK q \in batch[t] :
            /\ IsFirst(q, batch[t])
            /\ queued' = queued \ {q}
            /\ Continue(t, batch[t] \ {q})
        BY <1>6 DEF Delete
    <2>2. q \in Ids /\ response[q] # 0
        BY <1>6, <2>1 DEF Records, Recorded, Delete
    <2>3. UNCHANGED <<asked, response, sends>>
        BY <1>6 DEF Delete
    <2>4. batch[t] \ {q} \in SUBSET Ids
        BY DEF Records
    <2>5. Records' /\ Sent' /\ Recorded'
        BY <2>1, <2>3, <2>4, ContinueKeeps DEF Records
    <2>6. NothingLost'
        BY <2>1, <2>2, <2>3 DEF NothingLost, Records
    <2>. QED BY <2>5, <2>6
<1>7. ASSUME NEW t \in Ticks, Refuse(t) \/ QueryFails(t) PROVE Safe'
    <2>1. UNCHANGED <<tables, sends>>
        BY <1>7 DEF Refuse, QueryFails
    <2>2. PICK left \in SUBSET Ids : Continue(t, left)
        BY <1>7 DEF Refuse, QueryFails, Records
    <2>. QED BY <2>1, <2>2, ContinueKeeps DEF tables, Records, NothingLost
<1>8. CASE Stop \/ Stopped
    BY <1>8 DEF Stop, Stopped, tables, Records, Sent, Recorded, NothingLost
<1>9. CASE Restart
    BY <1>9 DEF Restart, tables, Records, Sent, Recorded, NothingLost
<1>10. CASE UNCHANGED vars
    BY <1>10 DEF vars, Records, Sent, Recorded, NothingLost
<1>. QED
    BY <1>1, <1>2, <1>3, <1>4, <1>5, <1>6, <1>7, <1>8, <1>9, <1>10 DEF Next, Work

(* NetService.record: a request is never dequeued without its reply in       *)
(* net._http_response, for any number of ticks, failed queries and restarts. *)
THEOREM NoRequestIsLost == Spec => []NothingLost
<1>1. Init => Safe
    BY SafeInit
<1>2. Safe /\ [Next]_vars => Safe'
    BY SafeNext
<1>3. Safe => NothingLost
    BY DEF Safe
<1>. QED BY <1>1, <1>2, <1>3, PTL DEF Spec

----------------------------------------------------------------------------
(* One tick drains at a time, and until a fault a request that was sent is   *)
(* the one that tick is at, or is dequeued.                                  *)

OneDrain ==
    /\ \A t, u \in Ticks : step[t] # "free" /\ step[u] # "free" => t = u
    /\ \A t \in Ticks : step[t] # "free" => draining
    /\ \A t \in Ticks : step[t] \in {"free", "select"} => batch[t] = {}

Handled(q) == \E t \in Ticks : step[t] \in {"insert", "delete"} /\ IsFirst(q, batch[t])

SentOnce == faults = 0 =>
    /\ \A t \in Ticks : batch[t] \subseteq queued
    /\ \A q \in Ids \ Unrecordable :
        /\ sends[q] <= 1
        /\ sends[q] # 0 => q \in asked /\ (q \in queued => Handled(q))

Paced == Records /\ OneDrain /\ SentOnce /\ faults \in Nat

LEMMA PacedInit == Init => Paced
BY BoundsAssumption DEF Init, Paced, Records, OneDrain, SentOnce

LEMMA ContinuePaced ==
    ASSUME Records, OneDrain, NEW t \in Ticks, step[t] # "free",
           NEW left \in SUBSET Ids, Continue(t, left)
    PROVE  /\ OneDrain'
           /\ step' \in [Ticks -> {"free", "select", "send", "insert", "delete"}]
           /\ batch' \in [Ticks -> SUBSET Ids]
           /\ \A u \in Ticks : batch'[u] = IF u = t THEN left ELSE {}
BY DEF Records, OneDrain, Continue

LEMMA PacedNext == Paced /\ [Next]_vars => Paced'
<1> SUFFICES ASSUME Paced, [Next]_vars PROVE Paced'
    OBVIOUS
<1> USE DEF Paced
<1>1. CASE Enqueue
    BY <1>1 DEF Enqueue, Records, OneDrain, SentOnce, Handled, IsFirst
<1>2. ASSUME NEW t \in Ticks, Tick(t) PROVE Paced'
    <2>1. CASE draining
        BY <1>2, <2>1 DEF Tick, tables, Records, OneDrain, SentOnce, Handled
    <2>2. CASE ~draining
        <3>1. /\ step' = [step EXCEPT ![t] = "select"]
              /\ draining' = TRUE
              /\ step[t] = "free"
              /\ UNCHANGED <<tables, batch, sends, faults>>
            BY <1>2, <2>2 DEF Tick
        <3>2. Records' /\ OneDrain'
            BY <2>2, <3>1 DEF tables, Records, OneDrain
        <3>3. \A q \in Ids : Handled(q) => Handled(q)'
            BY <3>1 DEF Handled, Records, IsFirst
        <3>4. SentOnce'
            BY <3>1, <3>3 DEF tables, SentOnce
        <3>. QED BY <3>1, <3>2, <3>4
    <2>. QED BY <2>1, <2>2
<1>3. ASSUME NEW t \in Ticks, Select(t) PROVE Paced'
    <2>1. FirstOnes(queued) \in SUBSET Ids /\ FirstOnes(queued) \subseteq queued
        BY DEF FirstOnes, Records
    <2>2. /\ Continue(t, FirstOnes(queued)) /\ step[t] = "select"
          /\ UNCHANGED <<asked, queued, response, sends, faults>>
        BY <1>3 DEF Select, tables
    <2>3. \A q \in Ids : ~Handled(q)
        BY <2>2 DEF OneDrain, Handled
    <2>4. Records' /\ OneDrain' /\ \A u \in Ticks : batch'[u] \subseteq queued
        BY <2>1, <2>2, ContinuePaced DEF Records
    <2>5. SentOnce'
        BY <2>2, <2>3, <2>4 DEF SentOnce
    <2>. QED BY <2>2, <2>4, <2>5
<1>4. ASSUME NEW t \in Ticks, Send(t) PROVE Paced'
    <2>1. PICK q \in batch[t] :
            /\ IsFirst(q, batch[t])
            /\ sends' = [sends EXCEPT ![q] = IF @ = 0 THEN 1 ELSE 2]
        BY <1>4 DEF Send
    <2>2. q \in Ids
        BY <2>1 DEF Records
    <2>3. /\ step[t] = "send" /\ step' = [step EXCEPT ![t] = "insert"]
          /\ UNCHANGED <<asked, queued, response, batch, draining, faults>>
        BY <1>4 DEF Send, Goto, tables
    <2>4. sends' \in [Ids -> 0 .. 2]
        BY <2>1, <2>2 DEF Records
    <2>5. Records' /\ OneDrain'
        BY <2>3, <2>4 DEF Records, OneDrain
    <2>6. \A p \in Ids : ~Handled(p)
        BY <2>3 DEF OneDrain, Handled
    <2>7. Handled(q)'
        BY <2>1, <2>3 DEF Handled, Records, IsFirst
    <2>8. SentOnce'
        <3> SUFFICES ASSUME faults = 0 PROVE SentOnce'
            BY <2>3 DEF SentOnce
        <3>1. q \in queued /\ q \in asked
            BY <2>1 DEF SentOnce, Records
        <3>2. q \notin Unrecordable => sends[q] = 0
            BY <2>2, <2>6, <3>1 DEF SentOnce
        <3>3. \A p \in Ids \ {q} : sends'[p] = sends[p]
            BY <2>1 DEF Records
        <3>4. q \notin Unrecordable => sends'[q] = 1
            BY <2>1, <2>2, <3>2 DEF Records
        <3>. QED BY <2>3, <2>6, <2>7, <3>1, <3>3, <3>4 DEF SentOnce
    <2>. QED BY <2>3, <2>5, <2>8
<1>5. ASSUME NEW t \in Ticks, Insert(t) PROVE Paced'
    <2>1. PICK q \in batch[t] :
            response' = [response EXCEPT ![q] = IF @ = 0 THEN sends[q] ELSE @]
        BY <1>5 DEF Insert
    <2>2. response' \in [Ids -> 0 .. 2]
        BY <2>1 DEF Records
    <2>3. /\ step[t] = "insert" /\ step' = [step EXCEPT ![t] = "delete"]
          /\ UNCHANGED <<asked, queued, sends, batch, draining, faults>>
        BY <1>5 DEF Insert, Goto
    <2>4. Records' /\ OneDrain'
        BY <2>2, <2>3 DEF Records, OneDrain
    <2>5. \A p \in Ids : Handled(p) => Handled(p)'
        BY <2>3 DEF Handled, Records, IsFirst
    <2>6. SentOnce'
        BY <2>3, <2>5 DEF SentOnce
    <2>. QED BY <2>3, <2>4, <2>6
<1>6. ASSUME NEW t \in Ticks, Delete(t) PROVE Paced'
    <2>1. PICK q \in batch[t] :
            /\ IsFirst(q, batch[t])
            /\ queued' = queued \ {q}
            /\ Continue(t, batch[t] \ {q})
        BY <1>6 DEF Delete
    <2>2. q \in Ids /\ batch[t] \ {q} \in SUBSET Ids
        BY DEF Records
    <2>3. step[t] = "delete" /\ UNCHANGED <<asked, response, sends, faults>>
        BY <1>6 DEF Delete
    <2>4. /\ Records' /\ OneDrain'
          /\ \A u \in Ticks : batch'[u] = IF u = t THEN batch[t] \ {q} ELSE {}
        BY <2>1, <2>2, <2>3, ContinuePaced DEF Records
    <2>5. \A p \in Ids : Handled(p) => p = q
        BY <2>1, <2>2, <2>3, FirstIsOne DEF Handled, OneDrain, Records
    <2>6. SentOnce'
        BY <2>1, <2>3, <2>4, <2>5 DEF SentOnce
    <2>. QED BY <2>3, <2>4, <2>6
<1>7. ASSUME NEW t \in Ticks, Refuse(t) PROVE Paced'
    <2>1. PICK q \in batch[t] \cap Unrecordable :
            IsFirst(q, batch[t]) /\ Continue(t, batch[t] \ {q})
        BY <1>7 DEF Refuse
    <2>2. q \in Ids /\ batch[t] \ {q} \in SUBSET Ids
        BY DEF Records
    <2>3. step[t] = "insert" /\ UNCHANGED <<asked, queued, response, sends, faults>>
        BY <1>7 DEF Refuse, tables
    <2>4. /\ Records' /\ OneDrain'
          /\ \A u \in Ticks : batch'[u] = IF u = t THEN batch[t] \ {q} ELSE {}
        BY <2>1, <2>2, <2>3, ContinuePaced DEF Records
    <2>5. \A p \in Ids : Handled(p) => p = q
        BY <2>1, <2>2, <2>3, FirstIsOne DEF Handled, OneDrain, Records
    <2>6. SentOnce'
        BY <2>1, <2>3, <2>4, <2>5 DEF SentOnce
    <2>. QED BY <2>3, <2>4, <2>6
<1>8. ASSUME NEW t \in Ticks, QueryFails(t) PROVE Paced'
    <2>1. PICK left \in SUBSET Ids : Continue(t, left)
        BY <1>8 DEF QueryFails, Records
    <2>2. step[t] # "free" /\ faults' = faults + 1 /\ UNCHANGED <<tables, sends>>
        BY <1>8 DEF QueryFails, Fault
    <2>3. Records' /\ OneDrain'
        BY <2>1, <2>2, ContinuePaced DEF tables, Records
    <2>4. SentOnce' /\ faults' \in Nat
        BY <2>2 DEF SentOnce
    <2>. QED BY <2>3, <2>4
<1>9. CASE Stop \/ Stopped
    BY <1>9 DEF Stop, Stopped, tables, Records, OneDrain, SentOnce, Handled
<1>10. CASE Restart
    BY <1>10 DEF Restart, Fault, tables, Records, OneDrain, SentOnce
<1>11. CASE UNCHANGED vars
    BY <1>11 DEF vars, Records, OneDrain, SentOnce, Handled
<1>. QED
    BY <1>1, <1>2, <1>3, <1>4, <1>5, <1>6, <1>7, <1>8, <1>9, <1>10, <1>11 DEF Next, Work

(* NetService.tick: because of the draining flag no request is sent by two   *)
(* ticks; one goes out again only after a failed query or a restart.         *)
THEOREM NoRequestIsRepeated == Spec => []SentTwiceOnlyAfterFault
<1>1. Init => Paced
    BY PacedInit
<1>2. Paced /\ [Next]_vars => Paced'
    BY PacedNext
<1>3. Paced => SentTwiceOnlyAfterFault
    BY DEF Paced, Records, SentOnce, SentTwiceOnlyAfterFault
<1>. QED BY <1>1, <1>2, <1>3, PTL DEF Spec

----------------------------------------------------------------------------
(* A tick reads no more than Batch rows, however many are queued: a row is    *)
(* read if fewer than Batch come before it, and no two have as many before.  *)

LEMMA FirstOnesBounded ==
    ASSUME NEW S \in SUBSET Ids, IsFiniteSet(S)
    PROVE  IsFiniteSet(FirstOnes(S)) /\ Cardinality(FirstOnes(S)) <= Batch
<1> DEFINE Before(q) == {p \in S : p < q}
           rank == [q \in FirstOnes(S) |-> Cardinality(Before(q))]
<1>1. ASSUME NEW q PROVE IsFiniteSet(Before(q)) /\ Cardinality(Before(q)) \in Nat
    BY FS_Subset, FS_CardinalityType
<1>2. ASSUME NEW p \in FirstOnes(S), NEW q \in FirstOnes(S), p < q
      PROVE  Cardinality(Before(p)) < Cardinality(Before(q))
    <2>1. p \in S /\ p \in Int /\ q \in Int
        BY IdsAssumption DEF FirstOnes
    <2>2. Before(p) \cup {p} \in SUBSET Before(q)
        <3>1. \A x \in S : x \in Int
            BY IdsAssumption
        <3>2. \A x \in S : x < p => x < q
            BY <1>2, <2>1, <3>1
        <3>. QED BY <1>2, <2>1, <3>2
    <2>3. p \notin Before(p)
        BY <2>1
    <2>4. Cardinality(Before(p) \cup {p}) = Cardinality(Before(p)) + 1
        BY <1>1, <2>3, FS_AddElement
    <2>5. Cardinality(Before(p) \cup {p}) <= Cardinality(Before(q))
        BY <1>1, <2>2, FS_Subset
    <2>. HIDE DEF Before
    <2>. QED BY <1>1, <2>4, <2>5
<1>3. \A q \in FirstOnes(S) : Cardinality(Before(q)) \in 0 .. Batch - 1
    <2>1. \A q \in FirstOnes(S) : Cardinality(Before(q)) < Batch
        BY DEF FirstOnes
    <2>. HIDE DEF Before
    <2>. QED BY <1>1, <2>1, BoundsAssumption
<1>4. rank \in Injection(FirstOnes(S), 0 .. Batch - 1)
    <2>1. FirstOnes(S) \subseteq Int
        BY IdsAssumption DEF FirstOnes
    <2>2. rank \in [FirstOnes(S) -> 0 .. Batch - 1]
        BY <1>3
    <2>3. ASSUME NEW p \in FirstOnes(S), NEW q \in FirstOnes(S), rank[p] = rank[q]
          PROVE  p = q
        <3>1. Cardinality(Before(p)) = Cardinality(Before(q))
            BY <2>3
        <3>2. ~(p < q) /\ ~(q < p)
            <4>. HIDE DEF Before
            <4>. QED BY <1>1, <1>2, <3>1
        <3>. QED BY <2>1, <3>2
    <2>. QED BY <2>2, <2>3 DEF Injection, IsInjective
<1>5. IsFiniteSet(0 .. Batch - 1) /\ Cardinality(0 .. Batch - 1) = Batch
    BY BoundsAssumption, FS_Interval
<1>. HIDE DEF rank
<1>. QED BY <1>4, <1>5, FS_Injection

Bounded == TypeOK /\ IsFiniteSet(asked) /\ \A t \in Ticks : IsFiniteSet(batch[t])

Readable(S) == S \in SUBSET Ids /\ IsFiniteSet(S) /\ Cardinality(S) <= Batch

LEMMA EmptyReadable == Readable({})
BY FS_EmptySet, BoundsAssumption DEF Readable

LEMMA FewerReadable == ASSUME NEW S, NEW T \in SUBSET S, Readable(S) PROVE Readable(T)
<1>1. /\ IsFiniteSet(T) /\ Cardinality(T) <= Cardinality(S)
      /\ Cardinality(S) \in Nat /\ Cardinality(T) \in Nat
    BY FS_Subset, FS_CardinalityType DEF Readable
<1>. QED BY <1>1, BoundsAssumption DEF Readable

LEMMA ContinueBounded ==
    ASSUME Bounded, NEW t \in Ticks, NEW left, Readable(left), Continue(t, left),
           UNCHANGED <<asked, response, inFlight, phase, sends>>,
           queued' \subseteq queued, faults' \in 0 .. MaxFaults
    PROVE  Bounded'
<1>1. /\ batch' = [batch EXCEPT ![t] = left]
      /\ step' = [step EXCEPT ![t] = IF left = {} THEN "free" ELSE "send"]
      /\ draining' = (left # {})
    BY DEF Continue
<1>2. draining' \in BOOLEAN
    BY <1>1
<1>3. batch' \in [Ticks -> {S \in SUBSET Ids : Cardinality(S) <= Batch}]
    BY <1>1 DEF Bounded, TypeOK, Readable
<1>4. \A u \in Ticks : IsFiniteSet(batch'[u])
    BY <1>1 DEF Bounded, TypeOK, Readable
<1>5. step' \in [Ticks -> {"free", "select", "send", "insert", "delete"}]
    BY <1>1 DEF Bounded, TypeOK
<1>. QED BY <1>2, <1>3, <1>4, <1>5 DEF Bounded, TypeOK

LEMMA BoundedNext == Bounded /\ [Next]_vars => Bounded'
<1> SUFFICES ASSUME Bounded, [Next]_vars PROVE Bounded'
    OBVIOUS
<1>0. /\ TypeOK /\ \A t \in Ticks : Readable(batch[t])
      /\ \A f \in 0 .. MaxFaults : f < MaxFaults => f + 1 \in 0 .. MaxFaults
    BY BoundsAssumption DEF Bounded, TypeOK, Readable
<1>1. CASE Enqueue
    <2>1. IsFiniteSet(asked')
        BY <1>1, FS_AddElement DEF Enqueue, Bounded
    <2>2. asked' \subseteq Ids /\ queued' \subseteq asked'
        BY <1>0, <1>1 DEF Enqueue, TypeOK
    <2>. QED BY <1>1, <2>1, <2>2 DEF Enqueue, Bounded, TypeOK
<1>2. ASSUME NEW t \in Ticks, Tick(t) PROVE Bounded'
    <2>1. draining' \in BOOLEAN
        BY <1>0, <1>2 DEF Tick, TypeOK
    <2>2. /\ step' \in [Ticks -> {"free", "select", "send", "insert", "delete"}]
          /\ inFlight' \in Ticks \cup {"settled", None}
        BY <1>0, <1>2 DEF Tick, TypeOK
    <2>. QED BY <1>2, <2>1, <2>2 DEF Tick, tables, Bounded, TypeOK
<1>3. ASSUME NEW t \in Ticks, Select(t) PROVE Bounded'
    <2>1. queued \in SUBSET Ids /\ IsFiniteSet(queued)
        BY FS_Subset DEF Bounded, TypeOK
    <2>2. FirstOnes(queued) \in SUBSET Ids
        BY <2>1 DEF FirstOnes
    <2>3. Readable(FirstOnes(queued))
        BY <2>1, <2>2, FirstOnesBounded DEF Readable
    <2>. QED BY <1>0, <1>3, <2>3, ContinueBounded DEF Select, tables, TypeOK
<1>4. ASSUME NEW t \in Ticks, Send(t) \/ Insert(t) PROVE Bounded'
    <2>1. /\ UNCHANGED <<asked, queued, draining, inFlight, phase, batch, faults>>
          /\ step' \in {[step EXCEPT ![t] = "insert"], [step EXCEPT ![t] = "delete"]}
        BY <1>4 DEF Send, Insert, Goto, tables
    <2>2. response' \in [Ids -> 0 .. 2] /\ sends' \in [Ids -> 0 .. 2]
        BY <1>0, <1>4 DEF Send, Insert, tables, TypeOK
    <2>3. step' \in [Ticks -> {"free", "select", "send", "insert", "delete"}]
        BY <1>0, <2>1 DEF TypeOK
    <2>. QED BY <2>1, <2>2, <2>3 DEF Bounded, TypeOK
<1>5. ASSUME NEW t \in Ticks, Delete(t) PROVE Bounded'
    <2>1. PICK q \in batch[t] : queued' = queued \ {q} /\ Continue(t, batch[t] \ {q})
        BY <1>5 DEF Delete
    <2>2. Readable(batch[t] \ {q})
        BY <1>0, FewerReadable
    <2>3. /\ UNCHANGED <<asked, response, inFlight, phase, sends>>
          /\ faults' \in 0 .. MaxFaults /\ queued' \subseteq queued
        BY <1>0, <1>5, <2>1 DEF Delete, TypeOK
    <2>. QED BY <2>1, <2>2, <2>3, ContinueBounded
<1>6. ASSUME NEW t \in Ticks, Refuse(t) \/ QueryFails(t) PROVE Bounded'
    <2>1. PICK left : Continue(t, left) /\ (left = {} \/ left \subseteq batch[t])
        BY <1>6 DEF Refuse, QueryFails
    <2>2. Readable(left)
        BY <1>0, <2>1, EmptyReadable, FewerReadable
    <2>3. UNCHANGED <<asked, queued, response, inFlight, phase, sends>> /\ faults' \in 0 .. MaxFaults
        BY <1>0, <1>6 DEF Refuse, QueryFails, Fault, tables, TypeOK
    <2>. QED BY <2>1, <2>2, <2>3, ContinueBounded
<1>7. CASE Stop \/ Stopped
    <2>1. phase' \in {"up", "stopping", "stopped"} /\ inFlight' \in Ticks \cup {"settled", None}
        BY <1>0, <1>7 DEF Stop, Stopped, TypeOK
    <2>. QED BY <1>7, <2>1 DEF Stop, Stopped, tables, Bounded, TypeOK
<1>8. CASE Restart
    <2>1. UNCHANGED <<tables, sends>> /\ draining' \in BOOLEAN /\ phase' = "up" /\ inFlight' = None
        BY <1>8 DEF Restart
    <2>2. faults' \in 0 .. MaxFaults
        BY <1>0, <1>8 DEF Restart, Fault, TypeOK
    <2>3. /\ batch' = [t \in Ticks |-> {}] /\ IsFiniteSet({})
          /\ step' = [t \in Ticks |-> "free"]
        BY <1>8, EmptyReadable DEF Restart, Readable
    <2>4. batch' \in [Ticks -> {S \in SUBSET Ids : Cardinality(S) <= Batch}]
        BY <2>3, EmptyReadable DEF Readable
    <2>. QED BY <2>1, <2>2, <2>3, <2>4 DEF tables, Bounded, TypeOK
<1>9. CASE UNCHANGED vars
    BY <1>9 DEF vars, Bounded, TypeOK
<1>. QED
    BY <1>1, <1>2, <1>3, <1>4, <1>5, <1>6, <1>7, <1>8, <1>9 DEF Next, Work

(* NetService.tick: the queue, the responses and the ticks are of their types *)
(* in every state, and no tick holds more rows than a batch, for any batch   *)
(* size and any number of requests.                                          *)
THEOREM BatchesAreBounded == Spec => []TypeOK
<1>1. Init => Bounded
    <2>1. IsFiniteSet({}) /\ {} \in {S \in SUBSET Ids : Cardinality(S) <= Batch}
        BY EmptyReadable DEF Readable
    <2>2. Init => draining \in BOOLEAN
        BY Zenon DEF Init
    <2>. QED BY <2>1, <2>2, BoundsAssumption DEF Init, Bounded, TypeOK
<1>2. Bounded /\ [Next]_vars => Bounded'
    BY BoundedNext
<1>3. Bounded => TypeOK
    BY DEF Bounded
<1>. QED BY <1>1, <1>2, <1>3, PTL DEF Spec

=============================================================================
