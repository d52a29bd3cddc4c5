--------------------------- MODULE StorageProofs ---------------------------
(***************************************************************************)
(* Proofs about Storage: the types, for every instance; while a quota is set,*)
(* that writes are serialized; where nothing but uploads writes, that no row *)
(* is left without its bytes and no write outgrows the quota it was checked  *)
(* against; and where nothing overwrites or removes, that what was answered  *)
(* stays stored and that the two stores behave as one.                       *)
(***************************************************************************)
EXTENDS Storage, FiniteSetTheorems, TLAPS

(* A request in progress has a job, and once it has a body or the bytes of a *)
(* source it keeps them.                                                     *)
BodySteps == Steps \ {"removeRows", "erase", "readSource"}
JobsTyped ==
    /\ \A r \in Reqs : pc[r] \in Steps => job[r] \in Job
    /\ \A r \in Reqs : pc[r] \in BodySteps => mem[r].buf \in Content
TypeInv == TypeOK /\ JobsTyped

LEMMA GotoTyped ==
    ASSUME TypeInv, NEW r \in Reqs, NEW step \in Steps, NEW locals \in Local,
           job'[r] \in Job, \A q \in Reqs \ {r} : job'[q] = job[q],
           step \in BodySteps => locals.buf \in Content,
           Goto(r, step, locals)
    PROVE  /\ pc' \in [Reqs -> {"idle"} \cup Steps \cup Outcomes]
           /\ mem' \in [Reqs -> Local]
           /\ chain' \in Seq(Reqs)
           /\ JobsTyped'
  BY DEF TypeInv, TypeOK, JobsTyped, Goto

LEMMA FreshTyped == Fresh \in Local
  BY DEF Fresh, Local

LEMMA FinishTyped ==
    ASSUME TypeInv, NEW r \in Reqs, NEW outcome \in Outcomes, UNCHANGED job,
           Finish(r, outcome)
    PROVE  /\ pc' \in [Reqs -> {"idle"} \cup Steps \cup Outcomes]
           /\ mem' \in [Reqs -> Local]
           /\ chain' \in Seq(Reqs)
           /\ JobsTyped'
  <1>1. outcome \notin Steps
    BY DEF Outcomes, Steps
  <1>2. chain' \in Seq(Reqs)
    BY DEF Finish, Running, TypeInv, TypeOK
  <1>3. QED
    BY <1>1, <1>2, FreshTyped DEF TypeInv, TypeOK, JobsTyped, Finish, BodySteps

LEMMA SizeOfTyped ==
    ASSUME NEW row \in Row \cup {None}
    PROVE  SizeOf(row) \in Nat
  BY IdsAssumption DEF SizeOf, Row, Content

LEMMA InitTyped == Init => TypeInv
  <1> SUFFICES ASSUME Init PROVE TypeInv
    OBVIOUS
  <1>1. rows \in [Keys -> Row \cup {None}] /\ bytes \in [Keys -> Content \cup {None}]
    <2>1. PICK stock \in SUBSET Keys, size \in [Keys -> Sizes] :
            /\ rows = [k \in Keys |-> IF k \in stock
                         THEN [id |-> k, meta |-> [by |-> k, size |-> size[k]]] ELSE None]
            /\ bytes = [k \in Keys |-> IF k \in stock THEN [by |-> k, size |-> size[k]] ELSE None]
      BY DEF Init
    <2>2. \A k \in Keys : [by |-> k, size |-> size[k]] \in Content
      BY SizesAssumption DEF Content, Ids
    <2>3. QED
      BY <2>1, <2>2 DEF Row, Ids
  <1>2. \A r \in Reqs : pc[r] = "idle"
    BY DEF Init
  <1>3. "idle" \notin Steps
    BY DEF Steps
  <1>4. QED
    BY <1>1, <1>2, <1>3, QuotaAssumption, FreshTyped
       DEF Init, TypeInv, TypeOK, JobsTyped, BodySteps

LEMMA BeginTyped ==
    ASSUME TypeInv, NEW r \in Reqs, Begin(r)
    PROVE  TypeInv'
  <1>1. PICK j \in Job, size \in Sizes :
          /\ job' = [job EXCEPT ![r] = j]
          /\ \E step \in FirstSteps(j.op) :
              Goto(r, step, IF j.op \in {"upload", "upsert"}
                              THEN [Fresh EXCEPT !.buf = [by |-> r, size |-> size]] ELSE Fresh)
    BY DEF Begin
  <1>2. j.op \in Ops /\ j.op \in {"upload", "upsert", "remove", "move", "copy"}
    BY OpsAssumption DEF Job
  <1> DEFINE locals == IF j.op \in {"upload", "upsert"}
                         THEN [Fresh EXCEPT !.buf = [by |-> r, size |-> size]] ELSE Fresh
  <1> PICK step \in FirstSteps(j.op) : Goto(r, step, locals)
    BY <1>1
  <1>3. step \in Steps /\ (step \in BodySteps => j.op \in {"upload", "upsert"})
    BY <1>2 DEF FirstSteps, Steps, BodySteps
  <1>4. [by |-> r, size |-> size] \in Content
    BY SizesAssumption DEF Content, Ids
  <1>5. locals \in Local /\ (step \in BodySteps => locals.buf \in Content)
    BY <1>3, <1>4, FreshTyped DEF Local, Fresh
  <1>6. job' \in [Reqs -> Job \cup {None}] /\ job'[r] \in Job /\ \A q \in Reqs \ {r} : job'[q] = job[q]
    BY <1>1 DEF TypeInv, TypeOK
  <1>7. UNCHANGED <<stores, settings>>
    BY DEF Begin
  <1> HIDE DEF locals
  <1>8. Goto(r, step, locals)
    OBVIOUS
  <1>9. QED
    BY <1>3, <1>5, <1>6, <1>7, <1>8, GotoTyped DEF TypeInv, TypeOK, stores, settings

(* One step of a request in progress keeps the types; a case per handler     *)
(* step.                                                                     *)
LEMMA AdvanceTyped ==
    ASSUME TypeInv, NEW r \in Reqs, Advance(r)
    PROVE  TypeInv'
  <1>1. pc[r] \in Steps => job[r] \in Job /\ Target(r) \in Keys /\ job[r].src \in Keys
    BY DEF TypeInv, JobsTyped, Target, Job
  <1>2. pc[r] \in BodySteps => mem[r].buf \in Content /\ Adding(r) \in Nat
    BY DEF TypeInv, JobsTyped, Adding, Content
  <1>3. mem[r] \in Local /\ \A k \in Keys : rows[k] \in Row \cup {None}
    BY DEF TypeInv, TypeOK
  <1> USE DEF stores, settings
  <1>4. CASE Enter(r)
    <2>1. CASE quota = None
      <3> DEFINE locals == [mem[r] EXCEPT !.limit = None]
      <3>1. locals \in Local /\ locals.buf = mem[r].buf
        BY <1>3 DEF Local
      <3> HIDE DEF locals
      <3>2. Goto(r, "insert", locals) /\ UNCHANGED <<stores, settings, job>>
        BY <1>4, <2>1 DEF Enter, locals
      <3>3. "insert" \in Steps /\ pc[r] \in Steps /\ pc[r] \in BodySteps
        BY <1>4 DEF Enter, Steps, BodySteps
      <3>4. mem[r].buf \in Content /\ job'[r] \in Job /\ \A q \in Reqs \ {r} : job'[q] = job[q]
        BY <1>1, <1>2, <3>2, <3>3
      <3>5. QED
        BY <3>1, <3>2, <3>3, <3>4, GotoTyped DEF TypeInv, TypeOK
    <2>2. CASE quota # None
      <3>a. chain' = Append(chain, r) /\ pc' = [pc EXCEPT ![r] = "queued"] /\ UNCHANGED mem
        BY <1>4, <2>2, Zenon DEF Enter
      <3>b. chain \in Seq(Reqs)
        BY DEF TypeInv, TypeOK
      <3>1. chain' \in Seq(Reqs) /\ pc' = [pc EXCEPT ![r] = "queued"]
        BY <3>a, <3>b
      <3>2. pc' \in [Reqs -> {"idle"} \cup Steps \cup Outcomes] /\ UNCHANGED mem
        BY <3>a, <3>1 DEF TypeInv, TypeOK, Steps
      <3>3. JobsTyped'
        BY <1>1, <1>2, <1>4, <3>1, <3>2 DEF Enter, TypeInv, TypeOK, JobsTyped, Steps, BodySteps
      <3>4. QED
        BY <1>4, <3>1, <3>2, <3>3 DEF Enter, TypeInv, TypeOK
    <2>3. QED
      BY <2>1, <2>2
  <1>5. CASE StartCheck(r)
    <2> DEFINE locals == [mem[r] EXCEPT !.limit = quota, !.replaced = 0]
    <2>1. locals \in Local /\ locals.buf \in Content
      BY <1>2, <1>3, <1>5 DEF StartCheck, TypeInv, TypeOK, Local, Steps, BodySteps
    <2>2. \E step \in {"insert", "enter", "replaced", "used"} : Goto(r, step, locals)
      BY <1>5 DEF StartCheck, Admitted
    <2> HIDE DEF locals
    <2>3. QED
      BY <1>1, <1>5, <2>1, <2>2, GotoTyped DEF StartCheck, TypeInv, TypeOK, Steps
  <1>6. CASE ReadReplaced(r)
    <2> DEFINE locals == [mem[r] EXCEPT !.replaced = SizeOf(rows[Target(r)])]
    <2>1. locals \in Local /\ locals.buf \in Content
      BY <1>1, <1>2, <1>3, <1>6, SizeOfTyped DEF ReadReplaced, Local, Steps, BodySteps
    <2>2. \E step \in {"insert", "enter", "used"} : Goto(r, step, locals)
      BY <1>6 DEF ReadReplaced, Admitted
    <2> HIDE DEF locals
    <2>3. QED
      BY <1>1, <1>6, <2>1, <2>2, GotoTyped DEF ReadReplaced, TypeInv, TypeOK, Steps
  <1>7. CASE ReadUsed(r)
    <2>1. CASE Finish(r, "failed")
      BY <1>7, <2>1, FinishTyped DEF ReadUsed, TypeInv, TypeOK, Outcomes
    <2>2. CASE ~Finish(r, "failed")
      <3>1. \E step \in {"insert", "enter"} : Goto(r, step, mem[r])
        BY <1>7, <2>2 DEF ReadUsed, Admitted
      <3>2. QED
        BY <1>1, <1>2, <1>3, <1>7, <3>1, GotoTyped DEF ReadUsed, TypeInv, TypeOK, Steps, BodySteps
    <2>3. QED
      BY <2>1, <2>2
  <1>8. CASE InsertRow(r)
    <2>1. Inserted(r) \in Row
      BY <1>1, <1>2, <1>3, <1>8, IdsAssumption DEF InsertRow, Inserted, Row, Ids, Steps, BodySteps
    <2>2. rows' \in [Keys -> Row \cup {None}]
      BY <1>8, <2>1 DEF InsertRow, TypeInv, TypeOK
    <2> DEFINE locals == [Fresh EXCEPT !.buf = mem[r].buf, !.id = Inserted(r).id]
    <2>3. locals \in Local /\ locals.buf \in Content
      BY <1>2, <1>8, <2>1, FreshTyped DEF InsertRow, Local, Fresh, Row, Steps, BodySteps
    <2>4. Goto(r, "put", locals)
      BY <1>8 DEF InsertRow
    <2> HIDE DEF locals
    <2>5. QED
      BY <1>1, <1>8, <2>2, <2>3, <2>4, GotoTyped DEF InsertRow, TypeInv, TypeOK, Steps
  <1>9. CASE InsertRefused(r)
    BY <1>9, FinishTyped DEF InsertRefused, TypeInv, TypeOK, Outcomes
  <1>10. CASE PutBytes(r)
    BY <1>2, <1>10, FinishTyped DEF PutBytes, TypeInv, TypeOK, Outcomes, Steps, BodySteps
  <1> Torn \in Content
    BY DEF Torn, Content
  <1>11. CASE PutFails(r)
    BY <1>1, <1>2, <1>3, <1>11, GotoTyped
       DEF PutFails, DriverFails, TypeInv, TypeOK, Steps, BodySteps
  <1>12. CASE UndoRow(r)
    <2>1. rows' \in [Keys -> Row \cup {None}]
      BY <1>3, <1>12 DEF UndoRow
    <2>2. QED
      BY <1>12, <2>1, FinishTyped DEF UndoRow, TypeInv, TypeOK, Outcomes
  <1>13. CASE RemoveRows(r)
    <2>1. PICK gone \in SUBSET {k \in {job[r].src, job[r].dst} : rows[k] # None} :
            /\ rows' = [k \in Keys |-> IF k \in gone THEN None ELSE rows[k]]
            /\ IF gone = {} THEN Finish(r, "failed") ELSE Goto(r, "erase", [Fresh EXCEPT !.left = gone])
      BY <1>13 DEF RemoveRows
    <2>2. rows' \in [Keys -> Row \cup {None}]
      BY <1>3, <2>1
    <2>3. gone \subseteq Keys
      BY <1>1, <1>13 DEF RemoveRows, Steps, Target
    <2>4. [Fresh EXCEPT !.left = gone] \in Local
      BY <2>3, FreshTyped DEF Local, Fresh
    <2>5. CASE gone = {}
      BY <1>13, <2>1, <2>2, <2>5, FinishTyped DEF RemoveRows, TypeInv, TypeOK, Outcomes
    <2>6. CASE gone # {}
      BY <1>1, <1>13, <2>1, <2>2, <2>4, <2>6, GotoTyped
         DEF RemoveRows, TypeInv, TypeOK, Steps, BodySteps
    <2>7. QED
      BY <2>5, <2>6
  <1>14. CASE EraseBytes(r)
    <2>1. PICK k \in mem[r].left :
            /\ bytes' = [bytes EXCEPT ![k] = None]
            /\ IF mem[r].left = {k} THEN Finish(r, "ok")
               ELSE Goto(r, "erase", [mem[r] EXCEPT !.left = @ \ {k}])
      BY <1>14 DEF EraseBytes
    <2>2. [mem[r] EXCEPT !.left = @ \ {k}] \in Local
      BY <1>3 DEF Local
    <2>3. bytes' \in [Keys -> Content \cup {None}]
      BY <2>1 DEF TypeInv, TypeOK
    <2>4. CASE mem[r].left = {k}
      BY <1>14, <2>1, <2>3, <2>4, FinishTyped DEF EraseBytes, TypeInv, TypeOK, Outcomes
    <2>5. CASE mem[r].left # {k}
      BY <1>1, <1>14, <2>1, <2>2, <2>3, <2>5, GotoTyped
         DEF EraseBytes, TypeInv, TypeOK, Steps, BodySteps
    <2>6. QED
      BY <2>4, <2>5
  <1>15. CASE ReadSource(r)
    <2>1. CASE bytes[job[r].src] = None
      BY <1>15, <2>1, FinishTyped DEF ReadSource, TypeInv, TypeOK, Outcomes
    <2>2. CASE bytes[job[r].src] # None
      <3> DEFINE locals == [Fresh EXCEPT !.buf = bytes[job[r].src]]
      <3>1. bytes[job[r].src] \in Content
        BY <1>1, <1>15, <2>2 DEF ReadSource, TypeInv, TypeOK, Steps
      <3>2. locals \in Local /\ locals.buf \in Content
        BY <3>1, FreshTyped DEF Local, Fresh
      <3>3. \E step \in {"putDst", "enter"} : Goto(r, step, locals)
        BY <1>15, <2>2 DEF ReadSource
      <3> HIDE DEF locals
      <3>4. QED
        BY <1>1, <1>15, <3>2, <3>3, GotoTyped DEF ReadSource, TypeInv, TypeOK, Steps
    <2>3. QED
      BY <2>1, <2>2
  <1>16. CASE PutDst(r)
    <2>1. bytes' \in [Keys -> Content \cup {None}]
      BY <1>2, <1>16 DEF PutDst, DriverFails, TypeInv, TypeOK, Steps, BodySteps
    <2>2. CASE Finish(r, "failed")
      BY <1>16, <2>1, <2>2, FinishTyped DEF PutDst, TypeInv, TypeOK, Outcomes
    <2>3. CASE Goto(r, "rename", mem[r])
      BY <1>1, <1>2, <1>3, <1>16, <2>1, <2>3, GotoTyped
         DEF PutDst, TypeInv, TypeOK, Steps, BodySteps
    <2>4. QED
      BY <1>16, <2>2, <2>3 DEF PutDst
  <1>17. CASE RenameRow(r)
    <2>1. rows' \in [Keys -> Row \cup {None}]
      BY <1>1, <1>3, <1>17 DEF RenameRow, TypeInv, TypeOK, Steps, Target
    <2>2. QED
      BY <1>1, <1>2, <1>3, <1>17, <2>1, GotoTyped
         DEF RenameRow, TypeInv, TypeOK, Steps, BodySteps
  <1>18. CASE RenameRefused(r)
    BY <1>1, <1>2, <1>3, <1>18, GotoTyped DEF RenameRefused, TypeInv, TypeOK, Steps, BodySteps
  <1>19. CASE DropDst(r)
    BY <1>19, FinishTyped DEF DropDst, TypeInv, TypeOK, Outcomes
  <1>20. CASE DropSrc(r)
    BY <1>20, FinishTyped DEF DropSrc, TypeInv, TypeOK, Outcomes
  <1>21. QED
    BY <1>4, <1>5, <1>6, <1>7, <1>8, <1>9, <1>10, <1>11, <1>12, <1>13, <1>14, <1>15, <1>16,
       <1>17, <1>18, <1>19, <1>20 DEF Advance

LEMMA NextTyped == TypeInv /\ [Next]_vars => TypeInv'
  <1> SUFFICES ASSUME TypeInv, [Next]_vars PROVE TypeInv'
    OBVIOUS
  <1>1. ASSUME NEW r \in Reqs, Begin(r) PROVE TypeInv'
    BY <1>1, BeginTyped
  <1>2. ASSUME NEW r \in Reqs, Advance(r) PROVE TypeInv'
    BY <1>2, AdvanceTyped
  <1>3. CASE SaveQuota
    BY <1>3, QuotaAssumption DEF SaveQuota, stores, TypeInv, TypeOK, JobsTyped
  <1>4. CASE ApplyQuota
    BY <1>4 DEF ApplyQuota, stores, TypeInv, TypeOK, JobsTyped
  <1>5. CASE Restart
    BY <1>5 DEF Restart, stores, TypeInv, TypeOK, JobsTyped, Outcomes, Steps, BodySteps
  <1>6. CASE UNCHANGED vars
    BY <1>6 DEF vars, TypeInv, TypeOK, JobsTyped
  <1>7. QED
    BY <1>1, <1>2, <1>3, <1>4, <1>5, <1>6 DEF Next

(* Rows, bytes, the chain and the locals of every request stay well typed,   *)
(* whatever the requests are and however they interleave, fail or crash: in  *)
(* particular a row only ever names a known writer and a known length.       *)
THEOREM StorageTypeOK == Spec => []TypeOK
  <1>1. TypeInv => TypeOK
    BY DEF TypeInv
  <1>2. QED
    BY InitTyped, NextTyped, <1>1, PTL DEF Spec

----------------------------------------------------------------------------
(* The sum of the sizes and how one statement changes it.                    *)

Tables == [Keys -> Row \cup {None}]

LEMMA UnitsSize ==
    ASSUME NEW k, NEW n \in Nat
    PROVE  IsFiniteSet(Units(k, n)) /\ Cardinality(Units(k, n)) = n
  <1>1. IsFiniteSet(1 .. n) /\ Cardinality(1 .. n) = n
    BY FS_Interval
  <1>2. IsFiniteSet({k}) /\ Cardinality({k}) = 1
    BY FS_Singleton
  <1>3. QED
    BY <1>1, <1>2, FS_Product DEF Units

LEMMA StoredFinite ==
    ASSUME NEW table \in Tables
    PROVE  IsFiniteSet(Stored(table)) /\ Cardinality(Stored(table)) \in Nat
  <1> DEFINE Part(k) == Units(k, SizeOf(table[k]))
             Parts == {Part(k) : k \in Keys}
             f == [k \in Keys |-> Part(k)]
  <1>1. f \in Surjection(Keys, Parts)
    BY DEF Surjection
  <1>2. IsFiniteSet(Parts)
    BY <1>1, KeysAssumption, FS_Surjection
  <1>3. \A k \in Keys : IsFiniteSet(Part(k))
    BY UnitsSize, SizeOfTyped DEF Tables
  <1>4. IsFiniteSet(UNION Parts)
    BY <1>2, <1>3, FS_UNION
  <1>5. QED
    BY <1>4, FS_CardinalityType DEF Stored

(* Changing the row at one location moves the sum by the difference.         *)
LEMMA StoredUpdate ==
    ASSUME NEW table \in Tables, NEW k \in Keys, NEW row \in Row \cup {None}
    PROVE  Cardinality(Stored([table EXCEPT ![k] = row]))
             = Cardinality(Stored(table)) - SizeOf(table[k]) + SizeOf(row)
  <1> DEFINE after == [table EXCEPT ![k] = row]
             old == Units(k, SizeOf(table[k]))
             new == Units(k, SizeOf(row))
             rest == Stored(table) \ old
  <1>1. SizeOf(table[k]) \in Nat /\ SizeOf(row) \in Nat /\ after \in Tables
    BY SizeOfTyped DEF Tables
  <1>2. IsFiniteSet(Stored(table)) /\ Cardinality(Stored(table)) \in Nat
    BY StoredFinite
  <1>3. old \subseteq Stored(table)
    BY DEF Stored
  <1>4. Stored(after) = rest \cup new /\ rest \cap new = {}
    <2>1. \A u : u \in Stored(table) <=>
                 \E q \in Keys : u \in Units(q, SizeOf(table[q]))
      BY DEF Stored
    <2>2. \A u : u \in Stored(after) <=>
                 \E q \in Keys : u \in Units(q, SizeOf(after[q]))
      BY DEF Stored
    <2>3. \A q \in Keys : after[q] = IF q = k THEN row ELSE table[q]
      BY DEF Tables
    <2>4. \A u, n, q : u \in Units(q, n) => u[1] = q
      BY DEF Units
    <2>5. \A q \in Keys \ {k} : Units(q, SizeOf(after[q])) = Units(q, SizeOf(table[q]))
      BY <2>3
    <2>6. Units(k, SizeOf(after[k])) = new
      BY <2>3
    <2> HIDE DEF after
    <2>7. QED
      BY <2>1, <2>2, <2>4, <2>5, <2>6
  <1>5. IsFiniteSet(new) /\ Cardinality(new) = SizeOf(row)
    BY <1>1, UnitsSize
  <1>6. IsFiniteSet(old) /\ Cardinality(old) = SizeOf(table[k])
    BY <1>1, UnitsSize
  <1> HIDE DEF old, new
  <1>7. IsFiniteSet(rest) /\ Cardinality(rest) = Cardinality(Stored(table)) - SizeOf(table[k])
    <2>1. Stored(table) \cap old = old
      BY <1>3
    <2>2. /\ IsFiniteSet(Stored(table) \ old)
          /\ Cardinality(Stored(table) \ old)
               = Cardinality(Stored(table)) - Cardinality(Stored(table) \cap old)
      BY <1>2, FS_Difference, Zenon
    <2>3. QED
      BY <1>6, <2>1, <2>2
  <1> HIDE DEF rest, after
  <1>8. Cardinality(rest \cup new) = Cardinality(rest) + Cardinality(new) - Cardinality({})
    BY <1>4, <1>5, <1>7, FS_Union
  <1>9. Cardinality({}) = 0
    BY FS_EmptySet
  <1>10. Cardinality(Stored(after)) = Cardinality(Stored(table)) - SizeOf(table[k]) + SizeOf(row)
    BY <1>1, <1>2, <1>4, <1>5, <1>7, <1>8, <1>9
  <1>11. QED
    BY <1>10 DEF after

(* Rows only disappear: the sum does not grow.                               *)
LEMMA StoredShrinks ==
    ASSUME NEW table \in Tables, NEW after \in Tables,
           \A k \in Keys : after[k] = None \/ after[k] = table[k]
    PROVE  Cardinality(Stored(after)) <= Cardinality(Stored(table))
  <1>1. \A k \in Keys : Units(k, SizeOf(after[k])) \subseteq Units(k, SizeOf(table[k]))
    BY SizeOfTyped DEF Units, SizeOf, Tables
  <1>2. Stored(after) \subseteq Stored(table)
    BY <1>1 DEF Stored
  <1>3. QED
    BY <1>2, StoredFinite, FS_Subset

----------------------------------------------------------------------------
(* The chain: only its first write runs, the others wait.                    *)

Limited == None \notin QuotaChoices
QuotaSet == quota # None /\ saved # None
ChainSteps == {"queued", "replaced", "used", "insert", "put", "undo"}

ChainDistinct == \A i, j \in 1 .. Len(chain) : chain[i] = chain[j] => i = j
ChainBusy == \A i \in 1 .. Len(chain) : pc[chain[i]] \in ChainSteps
ChainWaits == \A i \in 1 .. Len(chain) : i # 1 => pc[chain[i]] = "queued"
PersistingRuns == \A r \in Reqs : Persisting(r) => Running(r)
ChainInv == QuotaSet /\ ChainDistinct /\ ChainBusy /\ ChainWaits /\ PersistingRuns

(* A request past the queue is the running one, or not in the chain at all.  *)
LEMMA OutOrRunning ==
    ASSUME TypeInv, ChainInv, NEW r \in Reqs, pc[r] # "queued"
    PROVE  InChain(r) => Running(r)
  BY DEF TypeInv, TypeOK, ChainInv, ChainWaits, InChain, Running

LEMMA FinishChain ==
    ASSUME TypeInv, ChainInv, NEW r \in Reqs, NEW outcome \in Outcomes,
           InChain(r) => Running(r), Finish(r, outcome), UNCHANGED settings
    PROVE  ChainInv'
  <1>1. \A q \in Reqs : pc'[q] = IF q = r THEN outcome ELSE pc[q]
    BY DEF Finish, TypeInv, TypeOK
  <1>2. QuotaSet'
    BY DEF ChainInv, QuotaSet, settings
  <1>3. outcome \notin ChainSteps /\ "queued" \in ChainSteps
    BY DEF Outcomes, ChainSteps
  <1>4. chain \in Seq(Reqs) /\ Len(chain) \in Nat /\ \A i \in 1 .. Len(chain) : chain[i] \in Reqs
    BY DEF TypeInv, TypeOK
  <1>5. CASE Running(r)
    <2>1. /\ Len(chain') = Len(chain) - 1
          /\ \A i \in 1 .. Len(chain') : chain'[i] = chain[i + 1] /\ i + 1 \in 1 .. Len(chain) /\ i + 1 # 1
      BY <1>4, <1>5 DEF Finish, Running
    <2>2. \A i \in 1 .. Len(chain') : chain'[i] \in Reqs \ {r}
      BY <1>4, <1>5, <2>1 DEF ChainInv, ChainDistinct, Running
    <2>3. ChainDistinct'
      BY <2>1 DEF ChainInv, ChainDistinct
    <2>4. \A i \in 1 .. Len(chain') : pc'[chain'[i]] = "queued"
      BY <1>1, <2>1, <2>2 DEF ChainInv, ChainWaits
    <2>5. \A q \in Reqs : ~Persisting(q)'
      BY <1>1, <1>5 DEF Outcomes, Persisting, ChainInv, PersistingRuns, Running
    <2>6. QED
      BY <1>2, <1>3, <2>3, <2>4, <2>5 DEF ChainInv, ChainBusy, ChainWaits, PersistingRuns
  <1>6. CASE ~Running(r)
    <2>1. UNCHANGED chain /\ \A i \in 1 .. Len(chain) : chain[i] # r
      BY <1>6 DEF Finish, InChain
    <2>2. ChainDistinct' /\ ChainBusy' /\ ChainWaits'
      BY <1>1, <1>4, <2>1 DEF ChainInv, ChainDistinct, ChainBusy, ChainWaits
    <2>3. PersistingRuns'
      BY <1>1, <2>1 DEF Outcomes, Persisting, ChainInv, PersistingRuns, Running
    <2>4. QED
      BY <1>2, <2>2, <2>3 DEF ChainInv
  <1>7. QED
    BY <1>5, <1>6

LEMMA GotoChain ==
    ASSUME TypeInv, ChainInv, NEW r \in Reqs, NEW step \in Steps \ {"queued"}, NEW locals,
           InChain(r) => Running(r) /\ step \in ChainSteps,
           step \in {"insert", "put", "undo"} => Running(r),
           Goto(r, step, locals), UNCHANGED settings
    PROVE  ChainInv'
  <1>1. UNCHANGED chain /\ \A q \in Reqs : pc'[q] = IF q = r THEN step ELSE pc[q]
    BY DEF Goto, TypeInv, TypeOK
  <1>2. QuotaSet' /\ ChainDistinct'
    BY <1>1 DEF ChainInv, ChainDistinct, QuotaSet, settings
  <1>3. chain \in Seq(Reqs) /\ \A i \in 1 .. Len(chain) : chain[i] \in Reqs
    BY DEF TypeInv, TypeOK
  <1>4. \A i \in 1 .. Len(chain) : chain[i] = r => i = 1 /\ step \in ChainSteps
    BY <1>3 DEF InChain, Running, ChainInv, ChainDistinct
  <1>5. ChainBusy' /\ ChainWaits'
    BY <1>1, <1>3, <1>4 DEF ChainInv, ChainBusy, ChainWaits
  <1>6. PersistingRuns'
    BY <1>1 DEF ChainInv, PersistingRuns, Persisting, Running
  <1>7. QED
    BY <1>2, <1>5, <1>6 DEF ChainInv

LEMMA AdvanceChain ==
    ASSUME TypeInv, ChainInv, NEW r \in Reqs, Advance(r)
    PROVE  ChainInv'
  <1> USE DEF stores, settings
  <1>1. \A q \in Reqs : pc[q] \notin ChainSteps => ~InChain(q)
    BY DEF ChainInv, ChainBusy, InChain
  <1>2. pc[r] # "queued" => (InChain(r) => Running(r))
    BY OutOrRunning
  <1>3. Running(r) => InChain(r)
    BY DEF Running, InChain, TypeInv, TypeOK
  <1>4. Persisting(r) => Running(r)
    BY DEF ChainInv, PersistingRuns
  <1>5. quota # None
    BY DEF ChainInv, QuotaSet
  <1>6. CASE Enter(r)
    <2>1. chain' = Append(chain, r) /\ pc' = [pc EXCEPT ![r] = "queued"] /\ UNCHANGED settings
      BY <1>5, <1>6 DEF Enter
    <2>2. chain \in Seq(Reqs) /\ Len(chain) \in Nat /\ \A i \in 1 .. Len(chain) : chain[i] \in Reqs \ {r}
      BY <1>1, <1>6 DEF Enter, ChainSteps, InChain, TypeInv, TypeOK
    <2>3. /\ Len(chain') = Len(chain) + 1
          /\ chain'[Len(chain) + 1] = r
          /\ \A i \in 1 .. Len(chain) : chain'[i] = chain[i]
      BY <2>1, <2>2
    <2>4. \A q \in Reqs : pc'[q] = IF q = r THEN "queued" ELSE pc[q]
      BY <2>1 DEF TypeInv, TypeOK
    <2>5. ChainDistinct'
      BY <2>2, <2>3 DEF ChainInv, ChainDistinct
    <2>6. ChainBusy' /\ ChainWaits'
      BY <2>2, <2>3, <2>4 DEF ChainInv, ChainBusy, ChainWaits, ChainSteps
    <2>7. PersistingRuns'
      BY <2>2, <2>3, <2>4 DEF ChainInv, PersistingRuns, Persisting, Running
    <2>8. QED
      BY <2>1, <2>5, <2>6, <2>7 DEF ChainInv, QuotaSet
  <1>7. CASE StartCheck(r)
    <2>1. InChain(r) => Running(r)
      BY <1>1, <1>7 DEF StartCheck, ChainSteps
    <2>2. \E locals : \E step \in {"replaced", "used", IF InChain(r) THEN "insert" ELSE "enter"} :
            Goto(r, step, locals)
      BY <1>5, <1>7 DEF StartCheck, Admitted
    <2>3. QED
      BY <1>7, <2>1, <2>2, GotoChain DEF StartCheck, Steps, ChainSteps
  <1>8. CASE ReadReplaced(r)
    <2>1. InChain(r) => Running(r)
      BY <1>2, <1>8 DEF ReadReplaced
    <2>2. \E locals : \/ Goto(r, IF InChain(r) THEN "insert" ELSE "enter", locals)
                     \/ Goto(r, "used", locals)
      BY <1>8 DEF ReadReplaced, Admitted
    <2>3. QED
      BY <1>8, <2>1, <2>2, GotoChain DEF ReadReplaced, Steps, ChainSteps
  <1>9. CASE ReadUsed(r)
    <2>1. InChain(r) => Running(r)
      BY <1>2, <1>9 DEF ReadUsed
    <2>2. CASE Finish(r, "failed")
      BY <1>9, <2>1, <2>2, FinishChain DEF ReadUsed, Outcomes
    <2>3. CASE Goto(r, IF InChain(r) THEN "insert" ELSE "enter", mem[r])
      BY <1>9, <2>1, <2>3, GotoChain DEF ReadUsed, Steps, ChainSteps
    <2>4. QED
      BY <1>9, <2>2, <2>3 DEF ReadUsed, Admitted
  <1>10. CASE InsertRow(r)
    BY <1>3, <1>4, <1>10, GotoChain DEF InsertRow, Persisting, Steps, ChainSteps
  <1>11. CASE InsertRefused(r)
    BY <1>4, <1>11, FinishChain DEF InsertRefused, Persisting, Outcomes
  <1>12. CASE PutBytes(r)
    BY <1>4, <1>12, FinishChain DEF PutBytes, Persisting, Outcomes
  <1>13. CASE PutFails(r)
    BY <1>3, <1>4, <1>13, GotoChain DEF PutFails, Persisting, Steps, ChainSteps
  <1>14. CASE UndoRow(r)
    BY <1>4, <1>14, FinishChain DEF UndoRow, Persisting, Outcomes
  <1>15. CASE RemoveRows(r) \/ EraseBytes(r)
    <2>1. ~InChain(r) /\ UNCHANGED settings
      BY <1>1, <1>15 DEF RemoveRows, EraseBytes, ChainSteps
    <2>2. (\E outcome \in Outcomes : Finish(r, outcome)) \/ (\E locals : Goto(r, "erase", locals))
      BY <1>15 DEF RemoveRows, EraseBytes, Outcomes
    <2>3. QED
      BY <2>1, <2>2, FinishChain, GotoChain DEF Steps
  <1>16. CASE ReadSource(r)
    <2>1. ~InChain(r) /\ UNCHANGED settings
      BY <1>1, <1>16 DEF ReadSource, ChainSteps
    <2>2. Finish(r, "failed") \/ \E step \in {"putDst", "enter"} : \E locals : Goto(r, step, locals)
      BY <1>16 DEF ReadSource
    <2>3. QED
      BY <2>1, <2>2, FinishChain, GotoChain DEF Steps, Outcomes
  <1>17. CASE PutDst(r) \/ RenameRow(r) \/ RenameRefused(r) \/ DropDst(r) \/ DropSrc(r)
    <2>1. ~InChain(r) /\ UNCHANGED settings
      BY <1>1, <1>17 DEF PutDst, RenameRow, RenameRefused, DropDst, DropSrc, ChainSteps
    <2>2. \/ \E outcome \in Outcomes : Finish(r, outcome)
          \/ \E step \in {"rename", "dropDst", "dropSrc"} : Goto(r, step, mem[r])
      BY <1>17 DEF PutDst, RenameRow, RenameRefused, DropDst, DropSrc, Outcomes
    <2>3. QED
      BY <2>1, <2>2, FinishChain, GotoChain DEF Steps
  <1>18. QED
    BY <1>6, <1>7, <1>8, <1>9, <1>10, <1>11, <1>12, <1>13, <1>14, <1>15, <1>16, <1>17
       DEF Advance

LEMMA BeginChain ==
    ASSUME TypeInv, ChainInv, NEW r \in Reqs, Begin(r)
    PROVE  ChainInv'
  <1>1. PICK j \in Job : \E step \in FirstSteps(j.op) : \E locals : Goto(r, step, locals)
    BY DEF Begin
  <1>2. j.op \in {"upload", "upsert", "remove", "move", "copy"}
    BY OpsAssumption DEF Job
  <1>3. PICK step \in {"precheck", "enter", "removeRows", "readSource"} : \E locals : Goto(r, step, locals)
    BY <1>1, <1>2 DEF FirstSteps
  <1>4. ~InChain(r)
    BY DEF Begin, ChainInv, ChainBusy, ChainSteps, InChain
  <1>5. QED
    BY <1>3, <1>4, GotoChain DEF Begin, Steps

LEMMA NextChain ==
    ASSUME Limited
    PROVE  TypeInv /\ ChainInv /\ [Next]_vars => ChainInv'
  <1> SUFFICES ASSUME TypeInv, ChainInv, [Next]_vars PROVE ChainInv'
    OBVIOUS
  <1> USE DEF ChainInv, QuotaSet, ChainDistinct, ChainBusy, ChainWaits, PersistingRuns,
              Persisting, Running, stores
  <1>1. ASSUME NEW r \in Reqs, Begin(r) PROVE ChainInv'
    BY <1>1, BeginChain
  <1>2. ASSUME NEW r \in Reqs, Advance(r) PROVE ChainInv'
    BY <1>2, AdvanceChain
  <1>3. CASE SaveQuota
    BY <1>3 DEF SaveQuota, Limited
  <1>4. CASE ApplyQuota
    BY <1>4 DEF ApplyQuota
  <1>5. CASE Restart
    <2>1. chain' = <<>> /\ quota' = saved /\ saved' = saved
      BY <1>5 DEF Restart
    <2>2. \A r \in Reqs : pc'[r] \notin Steps
      BY <1>5 DEF Restart, Steps
    <2>3. QED
      BY <2>1, <2>2 DEF Steps
  <1>6. CASE UNCHANGED vars
    BY <1>6 DEF vars
  <1>7. QED
    BY <1>1, <1>2, <1>3, <1>4, <1>5, <1>6 DEF Next

LEMMA InitChain ==
    ASSUME Limited
    PROVE  Init => ChainInv
  BY DEF Init, Limited, ChainInv, QuotaSet, ChainDistinct, ChainBusy, ChainWaits, PersistingRuns,
         Persisting

(* While a quota is set, at most one write is between its check and its      *)
(* answer: with every kind of request, any number of them, driver failures,  *)
(* changes of the quota and restarts.                                        *)
THEOREM WritesAreSerialized ==
    ASSUME Limited
    PROVE  Spec => []OneWriteAtATime
  <1>1. TypeInv /\ ChainInv => OneWriteAtATime
    BY DEF ChainInv, PersistingRuns, Running, OneWriteAtATime
  <1>2. QED
    BY InitTyped, NextTyped, InitChain, NextChain, <1>1, PTL DEF Spec

----------------------------------------------------------------------------
(* Uploads only: rows and bytes agree.                                       *)

WritesOnly == Ops \subseteq {"upload", "upsert"}
NoCrash == "crash" \notin Faults
WriteSteps == {"precheck", "enter", "queued", "replaced", "used", "insert", "put", "undo"}

OnlyWrites == \A r \in Reqs : pc[r] \in Steps => pc[r] \in WriteSteps
RowWritten ==
    \A r \in Reqs : pc[r] \in {"put", "undo"} =>
        /\ rows[Target(r)] # None /\ rows[Target(r)].id = mem[r].id
        /\ pc[r] = "put" => rows[Target(r)].meta = mem[r].buf
MatchInv == OnlyWrites /\ RowWritten /\ RowsMatchBytes

(* A step that changes neither store and leaves no write half done.          *)
LEMMA QuietMatch ==
    ASSUME TypeInv, MatchInv, NEW r \in Reqs, NEW after \in WriteSteps \cup Outcomes,
           after \notin {"put", "undo"}, pc[r] \notin {"put", "undo"},
           pc' = [pc EXCEPT ![r] = after], UNCHANGED stores,
           \A q \in Reqs \ {r} : job'[q] = job[q] /\ mem'[q] = mem[q]
    PROVE  MatchInv'
  <1>1. \A q \in Reqs : pc'[q] = IF q = r THEN after ELSE pc[q]
    BY DEF TypeInv, TypeOK
  <1>2. OnlyWrites'
    BY <1>1 DEF MatchInv, OnlyWrites, Outcomes, Steps
  <1>3. RowWritten'
    BY <1>1 DEF MatchInv, RowWritten, Target, stores
  <1>4. \A k \in Keys : Settling(k)' <=> Settling(k)
    BY <1>1 DEF Settling, Target
  <1>5. RowsMatchBytes'
    BY <1>4 DEF MatchInv, RowsMatchBytes, stores
  <1>6. QED
    BY <1>2, <1>3, <1>5 DEF MatchInv

LEMMA AdvanceMatch ==
    ASSUME TypeInv, ChainInv, MatchInv, WritesOnly, NEW r \in Reqs, Advance(r)
    PROVE  MatchInv'
  <1>1. \A q \in Reqs : pc[q] \in {"put", "undo"} => Running(q)
    BY DEF ChainInv, PersistingRuns, Persisting
  <1>2. Persisting(r) => \A q \in Reqs \ {r} : pc[q] \notin {"put", "undo"}
    BY <1>1 DEF ChainInv, PersistingRuns, Running
  <1>3. pc[r] \in Steps => pc[r] \in WriteSteps /\ job[r] \in Job /\ job[r].op \in Ops /\ Target(r) \in Keys
    BY DEF MatchInv, OnlyWrites, TypeInv, JobsTyped, Job, Target
  <1>4. CASE Enter(r) \/ StartCheck(r) \/ ReadReplaced(r) \/ ReadUsed(r) \/ InsertRefused(r)
    <2>1. \E after \in {"insert", "queued", "enter", "replaced", "used", "failed"} :
            pc' = [pc EXCEPT ![r] = after]
      BY <1>4 DEF Enter, StartCheck, ReadReplaced, ReadUsed, InsertRefused, Admitted, Goto, Finish
    <2>2. mem' = [mem EXCEPT ![r] = mem'[r]] /\ UNCHANGED job /\ UNCHANGED stores
      BY <1>4 DEF Enter, StartCheck, ReadReplaced, ReadUsed, InsertRefused, Admitted, Goto, Finish,
                  TypeInv, TypeOK
    <2>3. pc[r] \notin {"put", "undo"}
      BY <1>4 DEF Enter, StartCheck, ReadReplaced, ReadUsed, InsertRefused
    <2>4. \A q \in Reqs \ {r} : job'[q] = job[q] /\ mem'[q] = mem[q]
      BY <2>2 DEF TypeInv, TypeOK
    <2>5. QED
      BY <2>1, <2>2, <2>3, <2>4, QuietMatch DEF WriteSteps, Outcomes
  <1>5. CASE InsertRow(r)
    <2>1. /\ pc[r] = "insert" /\ job[r].op # "copy"
          /\ rows' = [rows EXCEPT ![Target(r)] = Inserted(r)]
          /\ Goto(r, "put", [Fresh EXCEPT !.buf = mem[r].buf, !.id = Inserted(r).id])
          /\ UNCHANGED <<bytes, job>>
      BY <1>3, <1>5 DEF InsertRow, WritesOnly, Steps
    <2>2. Inserted(r).meta = mem[r].buf /\ Inserted(r) # None
      <3>1. Inserted(r).meta = mem[r].buf
        BY <2>1 DEF Inserted
      <3>2. Inserted(r) \in Row
        BY <1>3, <2>1 DEF Inserted, Row, TypeInv, TypeOK, JobsTyped, BodySteps, Steps, Ids
      <3>3. QED
        BY <3>1, <3>2, NoneAssumption
    <2>3. /\ \A k \in Keys : rows'[k] = IF k = Target(r) THEN Inserted(r) ELSE rows[k]
          /\ \A q \in Reqs : pc'[q] = IF q = r THEN "put" ELSE pc[q]
          /\ \A q \in Reqs : Target(q)' = Target(q)
          /\ mem'[r].buf = mem[r].buf /\ mem'[r].id = Inserted(r).id
      BY <2>1 DEF Goto, TypeInv, TypeOK, Target, Fresh
    <2>4. \A q \in Reqs \ {r} : pc[q] \notin {"put", "undo"}
      BY <1>2, <2>1 DEF Persisting
    <2>5. OnlyWrites'
      BY <2>3 DEF MatchInv, OnlyWrites, WriteSteps
    <2>6. RowWritten'
      BY <1>3, <2>1, <2>2, <2>3, <2>4 DEF RowWritten, Steps
    <2>7. RowsMatchBytes'
      <3>1. SUFFICES ASSUME NEW k \in Keys, rows'[k] # None, ~Settling(k)'
                     PROVE  bytes'[k] = rows'[k].meta
        BY DEF RowsMatchBytes
      <3>2. k # Target(r)
        BY <2>3, <3>1 DEF Settling
      <3>3. ~Settling(k)
        BY <2>1, <2>4 DEF Settling
      <3>4. QED
        BY <2>1, <2>3, <3>1, <3>2, <3>3 DEF MatchInv, RowsMatchBytes
    <2>8. QED
      BY <2>5, <2>6, <2>7 DEF MatchInv
  <1>6. CASE PutBytes(r)
    <2>1. /\ pc[r] = "put" /\ bytes' = [bytes EXCEPT ![Target(r)] = mem[r].buf]
          /\ Finish(r, "ok") /\ UNCHANGED <<rows, job>>
      BY <1>6 DEF PutBytes
    <2>2. /\ \A k \in Keys : bytes'[k] = IF k = Target(r) THEN mem[r].buf ELSE bytes[k]
          /\ \A q \in Reqs : pc'[q] = IF q = r THEN "ok" ELSE pc[q]
          /\ \A q \in Reqs : Target(q)' = Target(q)
      BY <2>1 DEF Finish, TypeInv, TypeOK, Target
    <2>3. \A q \in Reqs \ {r} : pc[q] \notin {"put", "undo"}
      BY <1>2, <2>1 DEF Persisting
    <2>4. OnlyWrites'
      BY <2>2 DEF MatchInv, OnlyWrites, Steps
    <2>5. RowWritten'
      BY <2>2, <2>3 DEF RowWritten
    <2>6. rows[Target(r)] # None => rows[Target(r)].meta = mem[r].buf
      BY <2>1 DEF MatchInv, RowWritten
    <2>7. RowsMatchBytes'
      <3>1. \A k \in Keys \ {Target(r)} : ~Settling(k)
        BY <2>3 DEF Settling
      <3>2. QED
        BY <2>1, <2>2, <2>6, <3>1 DEF MatchInv, RowsMatchBytes
    <2>8. QED
      BY <2>4, <2>5, <2>7 DEF MatchInv
  <1>7. CASE PutFails(r)
    <2>1. /\ pc[r] = "put" /\ DriverFails(Target(r))
          /\ Goto(r, "undo", mem[r]) /\ UNCHANGED <<rows, job>>
      BY <1>7 DEF PutFails
    <2>2. /\ \A k \in Keys \ {Target(r)} : bytes'[k] = bytes[k]
          /\ \A q \in Reqs : pc'[q] = IF q = r THEN "undo" ELSE pc[q]
          /\ \A q \in Reqs : Target(q)' = Target(q) /\ mem'[q] = mem[q]
      BY <2>1 DEF DriverFails, Goto, TypeInv, TypeOK, Target
    <2>3. OnlyWrites'
      BY <2>2 DEF MatchInv, OnlyWrites, WriteSteps
    <2>4. RowWritten'
      BY <2>1, <2>2 DEF MatchInv, RowWritten
    <2>5. \A k \in Keys : Settling(k)' <=> Settling(k)
      BY <2>1, <2>2 DEF Settling
    <2>6. Settling(Target(r))
      BY <2>1 DEF Settling
    <2>7. RowsMatchBytes'
      BY <2>1, <2>2, <2>5, <2>6 DEF MatchInv, RowsMatchBytes
    <2>8. QED
      BY <2>3, <2>4, <2>7 DEF MatchInv
  <1>8. CASE UndoRow(r)
    <2>1. /\ pc[r] = "undo" /\ Finish(r, "failed") /\ UNCHANGED <<bytes, job>>
          /\ rows' = [k \in Keys |-> IF rows[k] # None /\ rows[k].id = mem[r].id THEN None ELSE rows[k]]
      BY <1>8 DEF UndoRow
    <2>2. /\ \A k \in Keys : rows'[k] = None \/ rows'[k] = rows[k]
          /\ \A q \in Reqs : pc'[q] = IF q = r THEN "failed" ELSE pc[q]
          /\ \A q \in Reqs : Target(q)' = Target(q)
      BY <2>1 DEF Finish, TypeInv, TypeOK, Target
    <2>3. \A q \in Reqs \ {r} : pc[q] \notin {"put", "undo"}
      BY <1>2, <2>1 DEF Persisting
    <2>4. OnlyWrites'
      BY <2>2 DEF MatchInv, OnlyWrites, Steps
    <2>5. RowWritten'
      BY <2>2, <2>3 DEF RowWritten
    <2>6. rows'[Target(r)] = None
      BY <1>3, <2>1 DEF MatchInv, RowWritten, Steps
    <2>7. RowsMatchBytes'
      <3>1. \A k \in Keys \ {Target(r)} : ~Settling(k)
        BY <2>3 DEF Settling
      <3>2. QED
        BY <2>1, <2>2, <2>6, <3>1 DEF MatchInv, RowsMatchBytes
    <2>8. QED
      BY <2>4, <2>5, <2>7 DEF MatchInv
  <1>9. ~(\/ RemoveRows(r) \/ EraseBytes(r) \/ ReadSource(r) \/ PutDst(r) \/ RenameRow(r)
          \/ RenameRefused(r) \/ DropDst(r) \/ DropSrc(r))
    BY <1>3 DEF RemoveRows, EraseBytes, ReadSource, PutDst, RenameRow, RenameRefused, DropDst,
                DropSrc, Steps, WriteSteps
  <1>10. QED
    BY <1>4, <1>5, <1>6, <1>7, <1>8, <1>9 DEF Advance

LEMMA NextMatch ==
    ASSUME WritesOnly, NoCrash
    PROVE  TypeInv /\ ChainInv /\ MatchInv /\ [Next]_vars => MatchInv'
  <1> SUFFICES ASSUME TypeInv, ChainInv, MatchInv, [Next]_vars PROVE MatchInv'
    OBVIOUS
  <1>1. ASSUME NEW r \in Reqs, Begin(r) PROVE MatchInv'
    <2>1. PICK j \in Job : /\ job' = [job EXCEPT ![r] = j]
                           /\ \E step \in FirstSteps(j.op) : \E locals : Goto(r, step, locals)
      BY <1>1 DEF Begin
    <2>2. j.op \in {"upload", "upsert"}
      BY DEF Job, WritesOnly
    <2>3. PICK step \in {"precheck", "enter"} : \E locals : Goto(r, step, locals)
      BY <2>1, <2>2 DEF FirstSteps
    <2>4. \A q \in Reqs \ {r} : job'[q] = job[q] /\ mem'[q] = mem[q]
      BY <2>1, <2>3 DEF Goto, TypeInv, TypeOK
    <2>5. QED
      BY <1>1, <2>3, <2>4, QuietMatch DEF Begin, Goto, WriteSteps
  <1>2. ASSUME NEW r \in Reqs, Advance(r) PROVE MatchInv'
    BY <1>2, AdvanceMatch
  <1>3. CASE SaveQuota \/ ApplyQuota \/ UNCHANGED vars
    BY <1>3 DEF SaveQuota, ApplyQuota, vars, stores, MatchInv, OnlyWrites, RowWritten,
                RowsMatchBytes, Settling, Target
  <1>4. ~Restart
    BY DEF Restart, NoCrash
  <1>5. QED
    BY <1>1, <1>2, <1>3, <1>4 DEF Next

LEMMA InitMatch == Init => MatchInv
  <1> SUFFICES ASSUME Init PROVE MatchInv
    OBVIOUS
  <1>1. OnlyWrites /\ RowWritten
    BY DEF Init, OnlyWrites, RowWritten, Steps
  <1>2. \A k \in Keys : rows[k] # None => bytes[k] = rows[k].meta
    BY DEF Init
  <1>3. QED
    BY <1>1, <1>2 DEF MatchInv, RowsMatchBytes

(* Where only uploads write, under a quota and without a crash, every row    *)
(* that no write is working on describes exactly the bytes that are stored,  *)
(* although concurrent uploads replace one another and their driver calls    *)
(* fail.  The invariant adds that the write in progress is the only one.     *)
THEOREM RowsMatchTheirBytes ==
    ASSUME Limited, WritesOnly, NoCrash
    PROVE  Spec => []RowsMatchBytes
  <1>1. MatchInv => RowsMatchBytes
    BY DEF MatchInv
  <1>2. QED
    BY InitTyped, NextTyped, InitChain, NextChain, InitMatch, NextMatch, <1>1, PTL DEF Spec

----------------------------------------------------------------------------
(* The quota.  A removal or a move between the check and the insert of an    *)
(* upsert, and a copy whose source changed since it was read, do break the   *)
(* promise; these instances have none.                                       *)

QuotaSafeOps == "copy" \notin Ops /\ ("upsert" \notin Ops \/ WritesOnly)

RemovalSteps == {"removeRows", "erase"}
MoveSteps == {"readSource", "putDst", "rename", "dropDst", "dropSrc"}
StepsByOp ==
    \A r \in Reqs :
        /\ pc[r] \in WriteSteps => job[r].op \in {"upload", "upsert"}
        /\ pc[r] \in RemovalSteps => job[r].op = "remove"
        /\ pc[r] \in MoveSteps => job[r].op = "move"

(* What the running write's check has established by now.                    *)
Freed(r) == IF job[r].op = "upsert" THEN SizeOf(rows[Target(r)]) ELSE 0
Fitting(r) == Adding(r) <= Freed(r) \/ UsedBytes - Freed(r) + Adding(r) <= mem[r].limit
CheckedSoFar(r) ==
    /\ pc[r] \in {"replaced", "used", "insert"} => mem[r].limit \in Nat
    /\ pc[r] = "used" /\ Running(r) => mem[r].replaced = Freed(r)
    /\ pc[r] = "replaced" => job[r].op = "upsert"
    /\ pc[r] = "insert" => Fitting(r)
Checked == \A r \in Reqs : CheckedSoFar(r)
GrowthInv == StepsByOp /\ Checked

LEMMA UsedTyped == TypeInv => UsedBytes \in Nat
  BY StoredFinite DEF TypeInv, TypeOK, UsedBytes, Tables

(* Whoever starts to run in this step was queued.                            *)
LEMMA NextRunner ==
    ASSUME TypeInv, ChainInv, NEW r \in Reqs, Advance(r), NEW q \in Reqs \ {r},
           pc[q] # "queued", Running(q)'
    PROVE  Running(q)
  <1> USE DEF Running
  <1>1. \/ UNCHANGED chain
        \/ chain' = Append(chain, r)
        \/ Running(r) /\ chain' = Tail(chain)
    BY DEF Advance, Enter, StartCheck, ReadReplaced, ReadUsed, InsertRow, InsertRefused, PutBytes,
           PutFails, UndoRow, RemoveRows, EraseBytes, ReadSource, PutDst, RenameRow, RenameRefused,
           DropDst, DropSrc, Goto, Finish, Admitted
  <1>2. chain \in Seq(Reqs)
    BY DEF TypeInv, TypeOK
  <1>3. CASE chain' = Append(chain, r)
    BY <1>2, <1>3
  <1>4. CASE Running(r) /\ chain' = Tail(chain)
    <2>1. chain'[1] = chain[2] /\ 2 \in 1 .. Len(chain)
      BY <1>2, <1>4
    <2>2. pc[chain[2]] = "queued"
      BY <2>1 DEF ChainInv, ChainWaits
    <2>3. QED
      BY <2>1, <2>2
  <1>5. QED
    BY <1>1, <1>3, <1>4

(* The other requests keep what their checks established when a step leaves  *)
(* the rows alone.                                                           *)
LEMMA QuietOthers ==
    ASSUME TypeInv, ChainInv, GrowthInv, NEW r \in Reqs, Advance(r), UNCHANGED <<rows, job>>,
           NEW q \in Reqs \ {r}, pc'[q] = pc[q] /\ mem'[q] = mem[q]
    PROVE  CheckedSoFar(q)'
  <1>1. UsedBytes' = UsedBytes
    BY DEF UsedBytes
  <1>2. /\ Freed(q)' = Freed(q) /\ Adding(q)' = Adding(q)
        /\ Fitting(q)' <=> Fitting(q)
    BY <1>1 DEF Freed, Fitting, Adding, Target
  <1>3. pc[q] = "used" /\ Running(q)' => Running(q)
    BY NextRunner
  <1>4. QED
    BY <1>2, <1>3 DEF GrowthInv, Checked, CheckedSoFar

LEMMA AdvanceByOp ==
    ASSUME TypeInv, StepsByOp, NEW r \in Reqs, Advance(r)
    PROVE  StepsByOp'
  <1> USE DEF StepsByOp, WriteSteps, RemovalSteps, MoveSteps
  <1>1. UNCHANGED job
    BY DEF Advance, Enter, StartCheck, ReadReplaced, ReadUsed, InsertRow, InsertRefused, PutBytes,
           PutFails, UndoRow, RemoveRows, EraseBytes, ReadSource, PutDst, RenameRow, RenameRefused,
           DropDst, DropSrc
  <1>2. \E after \in Outcomes \cup (IF pc[r] \in WriteSteps THEN WriteSteps
                                     ELSE IF pc[r] \in RemovalSteps THEN RemovalSteps ELSE MoveSteps) :
            pc' = [pc EXCEPT ![r] = after]
    <2> USE DEF Goto, Finish, Admitted, Outcomes
    <2>1. CASE Enter(r) \/ StartCheck(r) \/ ReadReplaced(r) \/ ReadUsed(r)
      BY <2>1 DEF Enter, StartCheck, ReadReplaced, ReadUsed
    <2>2. CASE InsertRow(r) \/ InsertRefused(r) \/ PutBytes(r) \/ PutFails(r) \/ UndoRow(r)
      BY <2>2 DEF InsertRow, InsertRefused, PutBytes, PutFails, UndoRow
    <2>3. CASE RemoveRows(r) \/ EraseBytes(r)
      BY <2>3 DEF RemoveRows, EraseBytes
    <2>4. CASE ReadSource(r)
      BY <2>4 DEF ReadSource
    <2>5. CASE PutDst(r) \/ RenameRow(r) \/ RenameRefused(r) \/ DropDst(r) \/ DropSrc(r)
      BY <2>5 DEF PutDst, RenameRow, RenameRefused, DropDst, DropSrc
    <2>6. QED
      BY <2>1, <2>2, <2>3, <2>4, <2>5 DEF Advance
  <1>3. pc[r] \in WriteSteps \cup RemovalSteps \cup MoveSteps
    BY DEF Advance, Enter, StartCheck, ReadReplaced, ReadUsed, InsertRow, InsertRefused, PutBytes,
           PutFails, UndoRow, RemoveRows, EraseBytes, ReadSource, PutDst, RenameRow, RenameRefused,
           DropDst, DropSrc
  <1>4. QED
    BY <1>1, <1>2, <1>3 DEF TypeInv, TypeOK, Outcomes

(* How the sum moves in the three statements that change rows.               *)
LEMMA UndoShrinks ==
    ASSUME TypeInv, NEW r \in Reqs, UndoRow(r) \/ RemoveRows(r), TypeInv'
    PROVE  UsedBytes' <= UsedBytes
  <1>1. \A k \in Keys : rows'[k] = None \/ rows'[k] = rows[k]
    BY DEF UndoRow, RemoveRows
  <1>2. QED
    BY <1>1, StoredShrinks DEF TypeInv, TypeOK, Tables, UsedBytes

LEMMA RenameKeeps ==
    ASSUME TypeInv, NEW r \in Reqs, RenameRow(r)
    PROVE  UsedBytes' = UsedBytes
  <1> DEFINE src == job[r].src
             dst == job[r].dst
             between == [rows EXCEPT ![src] = None]
  <1>1. src \in Keys /\ dst \in Keys /\ rows \in Tables
    BY DEF RenameRow, TypeInv, TypeOK, JobsTyped, Job, Steps, Tables
  <1>2. rows' = [between EXCEPT ![dst] = rows[src]] /\ between \in Tables
    BY <1>1 DEF RenameRow, Tables
  <1>3. between[dst] = None /\ rows[src] \in Row
    BY <1>1 DEF RenameRow, Tables
  <1>4. SizeOf(None) = 0 /\ SizeOf(rows[src]) \in Nat /\ Cardinality(Stored(rows)) \in Nat
    BY <1>1, <1>3, SizeOfTyped, StoredFinite DEF SizeOf
  <1>5. Cardinality(Stored(between)) = Cardinality(Stored(rows)) - SizeOf(rows[src]) + SizeOf(None)
    BY <1>1, StoredUpdate
  <1> HIDE DEF between
  <1>6. Cardinality(Stored(rows'))
          = Cardinality(Stored(between)) - SizeOf(between[dst]) + SizeOf(rows[src])
    BY <1>1, <1>2, <1>3, StoredUpdate
  <1>7. QED
    BY <1>3, <1>4, <1>5, <1>6 DEF UsedBytes

LEMMA InsertGrowth ==
    ASSUME TypeInv, StepsByOp, NEW r \in Reqs, InsertRow(r)
    PROVE  UsedBytes' = UsedBytes - Freed(r) + Adding(r)
  <1>1. pc[r] = "insert" /\ job[r].op \in {"upload", "upsert"} /\ Target(r) \in Keys
    BY DEF InsertRow, StepsByOp, WriteSteps, TypeInv, JobsTyped, Job, Target, Steps
  <1>2. rows' = [rows EXCEPT ![Target(r)] = Inserted(r)] /\ (job[r].op = "upload" => rows[Target(r)] = None)
    BY DEF InsertRow
  <1>3. Inserted(r) \in Row /\ Inserted(r).meta = mem[r].buf
    BY <1>1 DEF Inserted, Row, TypeInv, TypeOK, JobsTyped, BodySteps, Steps, Ids
  <1>4. SizeOf(Inserted(r)) = Adding(r)
    BY <1>3, NoneAssumption DEF SizeOf, Adding
  <1>5. Freed(r) = SizeOf(rows[Target(r)])
    BY <1>1, <1>2 DEF Freed, SizeOf
  <1>6. rows \in Tables
    BY DEF TypeInv, TypeOK, Tables
  <1>7. QED
    BY <1>1, <1>2, <1>3, <1>4, <1>5, <1>6, StoredUpdate DEF UsedBytes

LEMMA AdvanceChecked ==
    ASSUME QuotaSafeOps, TypeInv, TypeInv', ChainInv, GrowthInv,
           NEW r \in Reqs, Advance(r)
    PROVE  Checked'
  <1>1. quota \in Nat /\ UsedBytes \in Nat /\ UsedBytes' \in Nat
    <2>1. quota \in Nat /\ rows \in Tables /\ rows' \in Tables
      BY DEF ChainInv, QuotaSet, TypeInv, TypeOK, Tables
    <2>2. QED
      BY <2>1, StoredFinite DEF UsedBytes
  <1>2. /\ UNCHANGED job
        /\ \A q \in Reqs \ {r} : pc'[q] = pc[q] /\ mem'[q] = mem[q]
    <2>1. UNCHANGED job
      BY DEF Advance, Enter, StartCheck, ReadReplaced, ReadUsed, InsertRow, InsertRefused, PutBytes,
             PutFails, UndoRow, RemoveRows, EraseBytes, ReadSource, PutDst, RenameRow, RenameRefused,
             DropDst, DropSrc
    <2>2. /\ \E step : pc' = [pc EXCEPT ![r] = step]
          /\ mem' = mem \/ \E locals : mem' = [mem EXCEPT ![r] = locals]
      BY DEF Advance, Enter, StartCheck, ReadReplaced, ReadUsed, InsertRow, InsertRefused, PutBytes,
             PutFails, UndoRow, RemoveRows, EraseBytes, ReadSource, PutDst, RenameRow, RenameRefused,
             DropDst, DropSrc, Goto, Finish, Admitted
    <2>3. QED
      BY <2>1, <2>2 DEF TypeInv, TypeOK
  <1>3. UNCHANGED rows => \A q \in Reqs \ {r} : CheckedSoFar(q)'
    BY <1>2, QuietOthers
  <1>4. pc'[r] \notin {"replaced", "used", "insert"} => CheckedSoFar(r)'
    BY DEF CheckedSoFar
  <1>5. CheckedSoFar(r)
    BY DEF GrowthInv, Checked
  <1>6. CASE StartCheck(r)
    <2> DEFINE done == job[r].op # "upsert" /\ Adding(r) = 0
    <2>1. /\ UNCHANGED rows
          /\ pc'[r] = IF done THEN IF InChain(r) THEN "insert" ELSE "enter"
                      ELSE IF job[r].op = "upsert" THEN "replaced" ELSE "used"
          /\ mem'[r] = [mem[r] EXCEPT !.limit = quota, !.replaced = 0]
      <3>1. quota # None
        BY DEF ChainInv, QuotaSet
      <3> DEFINE locals == [mem[r] EXCEPT !.limit = quota, !.replaced = 0]
                 step == IF done THEN IF InChain(r) THEN "insert" ELSE "enter"
                         ELSE IF job[r].op = "upsert" THEN "replaced" ELSE "used"
      <3>2. UNCHANGED rows /\ Goto(r, step, locals)
        BY <1>6, <3>1 DEF StartCheck, stores, Admitted
      <3>3. QED
        BY <3>2 DEF Goto, TypeInv, TypeOK
    <2>2. mem'[r].limit = quota /\ mem'[r].replaced = 0 /\ mem'[r].buf = mem[r].buf
      <3>1. mem[r] \in Local
        BY DEF TypeInv, TypeOK
      <3>2. QED
        BY <2>1, <3>1 DEF Local
    <2>3. (job[r].op # "upsert" => Freed(r)' = 0) /\ Adding(r)' = Adding(r)
      BY <1>2, <2>2 DEF Freed, Adding
    <2>4. done => Fitting(r)'
      BY <2>3 DEF Fitting
    <2>5. CheckedSoFar(r)'
      BY <1>1, <1>2, <2>1, <2>2, <2>3, <2>4 DEF CheckedSoFar
    <2>6. QED
      BY <1>3, <2>1, <2>5 DEF Checked
  <1>7. CASE ReadReplaced(r)
    <2>1. UNCHANGED rows /\ pc[r] = "replaced" /\ job[r].op = "upsert"
      BY <1>5, <1>7 DEF ReadReplaced, stores, CheckedSoFar
    <2>2. /\ pc'[r] = "used" \/ (pc'[r] = "insert" /\ Adding(r) <= SizeOf(rows[Target(r)])) \/ pc'[r] = "enter"
          /\ mem'[r] = [mem[r] EXCEPT !.replaced = SizeOf(rows[Target(r)])]
      BY <1>7 DEF ReadReplaced, Goto, Admitted, TypeInv, TypeOK
    <2>3. mem[r] \in Local
      BY DEF TypeInv, TypeOK
    <2>4. /\ mem'[r].limit = mem[r].limit /\ mem'[r].buf = mem[r].buf
          /\ mem'[r].replaced = SizeOf(rows[Target(r)])
      BY <2>2, <2>3 DEF Local
    <2>5. Freed(r)' = SizeOf(rows[Target(r)]) /\ Adding(r)' = Adding(r)
      BY <1>2, <2>1, <2>4 DEF Freed, Target, SizeOf, Adding
    <2>6. CheckedSoFar(r)'
      BY <1>5, <2>1, <2>2, <2>4, <2>5 DEF CheckedSoFar, Fitting
    <2>7. QED
      BY <1>3, <2>1, <2>6 DEF Checked
  <1>8. CASE ReadUsed(r)
    <2>1. UNCHANGED rows /\ pc[r] = "used"
      BY <1>8 DEF ReadUsed, stores
    <2>2. CASE Fits(r) /\ InChain(r)
      <3>1. pc'[r] = "insert" /\ mem'[r] = mem[r]
        BY <1>8, <2>2 DEF ReadUsed, Admitted, Goto, TypeInv, TypeOK
      <3>2. mem[r].replaced = Freed(r) /\ mem[r].limit \in Nat
        BY <1>5, <2>1, <2>2, OutOrRunning DEF CheckedSoFar
      <3>3. Fitting(r)
        BY <2>2, <3>2 DEF Fits, Fitting
      <3>4. Fitting(r)' <=> Fitting(r)
        BY <1>2, <2>1, <3>1 DEF Fitting, Freed, Adding, Target, UsedBytes
      <3>5. CheckedSoFar(r)'
        BY <3>1, <3>2, <3>3, <3>4 DEF CheckedSoFar
      <3>6. QED
        BY <1>3, <2>1, <3>5 DEF Checked
    <2>3. CASE ~(Fits(r) /\ InChain(r))
      <3>1. pc'[r] \in {"enter", "failed"}
        BY <1>8, <2>3 DEF ReadUsed, Admitted, Goto, Finish, TypeInv, TypeOK
      <3>2. QED
        BY <1>3, <1>4, <2>1, <3>1 DEF Checked
    <2>4. QED
      BY <2>2, <2>3
  <1>9. CASE InsertRow(r) \/ UndoRow(r)
    <2>1. Persisting(r) /\ pc'[r] \in {"put", "failed"}
      BY <1>9 DEF Persisting, InsertRow, UndoRow, Goto, Finish, TypeInv, TypeOK
    <2>2. ASSUME NEW q \in Reqs \ {r}
          PROVE  /\ pc[q] # "insert"
                 /\ pc[q] = "used" => ~Running(q)'
      <3>1. Running(r)
        BY <2>1 DEF ChainInv, PersistingRuns
      <3>2. ~Running(q)
        BY <3>1 DEF Running
      <3>3. QED
        BY <3>2, NextRunner DEF ChainInv, PersistingRuns, Persisting
    <2>3. \A q \in Reqs \ {r} : CheckedSoFar(q)'
      BY <1>2, <2>2 DEF GrowthInv, Checked, CheckedSoFar
    <2>4. QED
      BY <1>4, <2>1, <2>3 DEF Checked
  <1>10. CASE RemoveRows(r) \/ RenameRow(r)
    <2>1. /\ job[r].op \in {"remove", "move"}
          /\ pc[r] \in Steps
          /\ pc'[r] \in {"erase", "failed", "dropSrc"}
      BY <1>10 DEF RemoveRows, RenameRow, GrowthInv, StepsByOp, RemovalSteps, MoveSteps, Steps,
                   Goto, Finish, TypeInv, TypeOK
    <2>2. "upsert" \notin Ops
      BY <2>1 DEF QuotaSafeOps, WritesOnly, TypeInv, JobsTyped, Job
    <2>3. UsedBytes' <= UsedBytes
      <3>1. CASE RemoveRows(r)
        BY <3>1, UndoShrinks
      <3>2. CASE RenameRow(r)
        BY <1>1, <3>2, RenameKeeps
      <3>3. QED
        BY <1>10, <3>1, <3>2
    <2>4. ASSUME NEW q \in Reqs \ {r}
          PROVE  CheckedSoFar(q)'
      <3>1. pc[q] \in {"replaced", "used", "insert"} => job[q].op # "upsert" /\ mem[q].buf \in Content
        BY <2>2 DEF TypeInv, JobsTyped, Job, Steps, BodySteps
      <3>2. CheckedSoFar(q) /\ Adding(q)' = Adding(q)
        BY <1>2 DEF GrowthInv, Checked, Adding
      <3>3. pc[q] \in {"used", "insert"} => Freed(q) = 0 /\ Freed(q)' = 0
        BY <1>2, <3>1 DEF Freed
      <3>4. pc[q] = "insert" => Fitting(q)'
        <4>1. SUFFICES ASSUME pc[q] = "insert" PROVE Fitting(q)'
          OBVIOUS
        <4>2. Adding(q) \in Nat /\ mem[q].limit \in Nat /\ mem'[q] = mem[q]
          BY <1>2, <3>1, <3>2, <4>1 DEF Adding, Content, CheckedSoFar
        <4>3. Adding(q) <= 0 \/ UsedBytes - 0 + Adding(q) <= mem[q].limit
          BY <3>2, <3>3, <4>1 DEF CheckedSoFar, Fitting
        <4>4. QED
          BY <1>1, <2>3, <3>2, <3>3, <4>1, <4>2, <4>3 DEF Fitting
      <3>5. pc[q] = "used" /\ Running(q)' => Running(q)
        BY NextRunner
      <3>6. QED
        BY <1>2, <3>2, <3>3, <3>4, <3>5 DEF CheckedSoFar
    <2>5. QED
      BY <1>4, <2>1, <2>4 DEF Checked
  <1>11. CASE Enter(r) \/ InsertRefused(r) \/ PutBytes(r) \/ PutFails(r) \/ EraseBytes(r)
              \/ ReadSource(r) \/ PutDst(r) \/ RenameRefused(r) \/ DropDst(r) \/ DropSrc(r)
    <2>1. UNCHANGED rows
      BY <1>11 DEF Enter, InsertRefused, PutBytes, PutFails, EraseBytes, ReadSource, PutDst,
                   RenameRefused, DropDst, DropSrc, stores
    <2>2. pc'[r] \in {"queued", "failed", "ok", "undo", "erase", "putDst", "enter", "rename", "dropDst"}
      BY <1>11 DEF Enter, InsertRefused, PutBytes, PutFails, EraseBytes, ReadSource, PutDst,
                   RenameRefused, DropDst, DropSrc, Goto, Finish, TypeInv, TypeOK,
                   ChainInv, QuotaSet
    <2>3. QED
      BY <1>3, <1>4, <2>1, <2>2 DEF Checked
  <1>12. QED
    BY <1>6, <1>7, <1>8, <1>9, <1>10, <1>11 DEF Advance

LEMMA NextGrowth ==
    ASSUME Limited, QuotaSafeOps
    PROVE  TypeInv /\ ChainInv /\ GrowthInv /\ [Next]_vars => GrowthInv'
  <1> SUFFICES ASSUME TypeInv, ChainInv, GrowthInv, [Next]_vars PROVE GrowthInv'
    OBVIOUS
  <1>1. TypeInv'
    BY NextTyped
  <1>2. ASSUME NEW r \in Reqs, Begin(r) PROVE GrowthInv'
    <2>1. PICK j \in Job : /\ job' = [job EXCEPT ![r] = j]
                           /\ \E step \in FirstSteps(j.op) : \E locals : Goto(r, step, locals)
      BY <1>2 DEF Begin
    <2>2. j.op \in {"upload", "upsert", "remove", "move"}
      BY OpsAssumption DEF Job, QuotaSafeOps
    <2>3. PICK step \in FirstSteps(j.op) : \E locals : Goto(r, step, locals)
      BY <2>1
    <2>4. /\ UNCHANGED <<rows, chain>>
          /\ \A q \in Reqs : pc'[q] = IF q = r THEN step ELSE pc[q]
          /\ \A q \in Reqs : job'[q] = IF q = r THEN j ELSE job[q]
          /\ \A q \in Reqs \ {r} : mem'[q] = mem[q]
      BY <1>2, <2>1, <2>3 DEF Begin, Goto, TypeInv, TypeOK, stores
    <2>5. step \in {"precheck", "enter", "removeRows", "readSource"}
      BY <2>2, <2>3 DEF FirstSteps
    <2>6. StepsByOp'
      <3>1. /\ step \in {"precheck", "enter"} => j.op \in {"upload", "upsert"}
            /\ step = "removeRows" => j.op = "remove"
            /\ step = "readSource" => j.op = "move"
        BY <2>2, <2>3 DEF FirstSteps
      <3>2. QED
        BY <2>4, <2>5, <3>1 DEF GrowthInv, StepsByOp, WriteSteps, RemovalSteps, MoveSteps
    <2>7. \A q \in Reqs \ {r} : /\ Freed(q)' = Freed(q) /\ Running(q)' = Running(q)
                                /\ Fitting(q)' <=> Fitting(q)
      BY <2>4 DEF Freed, Running, Fitting, Adding, Target, UsedBytes
    <2>8. Checked'
      BY <2>4, <2>5, <2>7 DEF GrowthInv, Checked, CheckedSoFar
    <2>9. QED
      BY <2>6, <2>8 DEF GrowthInv
  <1>3. ASSUME NEW r \in Reqs, Advance(r) PROVE GrowthInv'
    BY <1>1, <1>3, AdvanceByOp, AdvanceChecked DEF GrowthInv
  <1>4. CASE SaveQuota \/ ApplyQuota \/ UNCHANGED vars
    BY <1>4 DEF SaveQuota, ApplyQuota, vars, stores, GrowthInv, StepsByOp, Checked, CheckedSoFar,
                Freed, Fitting, Adding, Target, Running, UsedBytes
  <1>5. CASE Restart
    <2>1. \A r \in Reqs : pc'[r] \notin Steps
      BY <1>5 DEF Restart, Steps
    <2>2. QED
      BY <2>1 DEF GrowthInv, StepsByOp, Checked, CheckedSoFar, WriteSteps, RemovalSteps, MoveSteps, Steps
  <1>6. QED
    BY <1>2, <1>3, <1>4, <1>5 DEF Next

LEMMA InitGrowth == Init => GrowthInv
  BY DEF Init, GrowthInv, StepsByOp, Checked, CheckedSoFar, WriteSteps, RemovalSteps, MoveSteps

WithinLimit ==
    \E r \in Reqs : /\ pc[r] = "insert" /\ pc'[r] = "put"
                    /\ mem[r].limit = None \/ UsedBytes' <= mem[r].limit
Grows == UsedBytes' > UsedBytes

(* Only an insert enlarges the sum, and never beyond its checked limit.      *)
LEMMA StepGrowth ==
    ASSUME Limited, QuotaSafeOps, TypeInv, ChainInv, GrowthInv, [Next]_vars, Grows
    PROVE  WithinLimit
  <1> USE DEF Grows, WithinLimit
  <1>1. TypeInv'
    BY NextTyped
  <1>2. UsedBytes \in Nat /\ UsedBytes' \in Nat
    <2>1. rows \in Tables /\ rows' \in Tables
      BY <1>1 DEF TypeInv, TypeOK, Tables
    <2>2. QED
      BY <2>1, StoredFinite DEF UsedBytes
  <1>3. ~UNCHANGED rows
    BY <1>2 DEF UsedBytes
  <1>4. PICK r \in Reqs : InsertRow(r) \/ UndoRow(r) \/ RemoveRows(r) \/ RenameRow(r)
    BY <1>3 DEF Next, vars, stores, Begin, SaveQuota, ApplyQuota, Restart, Advance, Enter, StartCheck,
                ReadReplaced, ReadUsed, InsertRefused, PutBytes, PutFails, EraseBytes, ReadSource,
                PutDst, RenameRefused, DropDst, DropSrc
  <1>5. ~(UndoRow(r) \/ RemoveRows(r)) /\ ~RenameRow(r)
    BY <1>1, <1>2, UndoShrinks, RenameKeeps
  <1>6. InsertRow(r)
    BY <1>4, <1>5
  <1>7. pc[r] = "insert" /\ pc'[r] = "put"
    BY <1>6 DEF InsertRow, Goto, TypeInv, TypeOK
  <1>8. UsedBytes' = UsedBytes - Freed(r) + Adding(r)
    BY <1>6, InsertGrowth DEF GrowthInv
  <1>9. Fitting(r) /\ mem[r].limit \in Nat
    BY <1>7 DEF GrowthInv, Checked, CheckedSoFar
  <1>10. Freed(r) \in Nat /\ Adding(r) \in Nat
    <2>1. mem[r].buf \in Content /\ Target(r) \in Keys
      BY <1>7 DEF TypeInv, JobsTyped, BodySteps, Steps, Job, Target
    <2>2. QED
      BY <2>1, SizeOfTyped DEF Freed, Adding, Content, TypeInv, TypeOK
  <1>11. UsedBytes' <= mem[r].limit
    BY <1>2, <1>8, <1>9, <1>10 DEF Fitting
  <1>12. QED
    BY <1>7, <1>11

(* Where the quota is always set and neither a removal nor a move competes   *)
(* with an upsert, and without copies: a write that enlarges the stored      *)
(* total ends within the quota it was checked against, for any number of     *)
(* concurrent requests, changes of the quota, failures and restarts.         *)
THEOREM GrowthIsBounded ==
    ASSUME Limited, QuotaSafeOps
    PROVE  Spec => GrowthWithinCheckedQuota
  <1>1. TypeInv /\ ChainInv /\ GrowthInv /\ [Next]_vars => [Grows => WithinLimit]_vars
    BY StepGrowth
  <1>2. QED
    BY InitTyped, NextTyped, InitChain, NextChain, InitGrowth, NextGrowth, <1>1, PTL
       DEF Spec, GrowthWithinCheckedQuota, Grows, WithinLimit

----------------------------------------------------------------------------
(* Uploads and copies only: whoever inserts a row is its only writer.        *)

NothingOverwrites == Ops \subseteq {"upload", "copy"}

CheckSteps == {"precheck", "used", "enter", "queued", "insert"}
SoleSteps == CheckSteps \cup {"readSource", "put", "undo"}

OwnRow(r) == rows[Target(r)] # None /\ rows[Target(r)].id = r
OwnBytes(r) == bytes[Target(r)] # None /\ (job[r].op = "upload" => bytes[Target(r)].by = r)

(* What a request has done so far, and what it will write.                   *)
StepIsSole(r) ==
    /\ pc[r] \in Steps => pc[r] \in SoleSteps
    /\ pc[r] = "readSource" => job[r].op = "copy"
    /\ pc[r] \in BodySteps /\ job[r].op = "upload" => mem[r].buf \in [by : {r}, size : Sizes]
RowIsOwned(r) == pc[r] \in {"put", "undo"} => OwnRow(r) /\ mem[r].id = r
AnswerIsKept(r) == pc[r] = "ok" => job[r] \in Job /\ OwnRow(r) /\ OwnBytes(r)
Sole(r) == StepIsSole(r) /\ RowIsOwned(r) /\ AnswerIsKept(r)
SoleInv == \A r \in Reqs : Sole(r)

LEMMA JobIsSole ==
    ASSUME NothingOverwrites, NEW j \in Job
    PROVE  j.op \in {"upload", "copy"} /\ j.src \in Keys /\ j.dst \in Keys
  BY DEF NothingOverwrites, Job

(* A step that leaves both stores alone and ends up between the same calls:  *)
(* a check, a refusal or a driver that fails.                                *)
Aside(r) ==
    /\ UNCHANGED <<rows, bytes, job>>
    /\ \A q \in Reqs \ {r} : pc'[q] = pc[q] /\ mem'[q] = mem[q]
    /\ \/ pc'[r] = "failed"
       \/ /\ pc[r] \in CheckSteps /\ pc'[r] \in CheckSteps /\ mem'[r].buf = mem[r].buf
       \/ /\ pc[r] = "put" /\ pc'[r] = "undo" /\ mem'[r] = mem[r]
       \/ /\ pc[r] = "readSource" /\ pc'[r] = "enter" /\ job[r].op = "copy"
          /\ mem'[r].buf = bytes[job[r].src] /\ bytes[job[r].src] # None

(* What the other steps of such a request do.                                *)
Inserts(r) ==
    /\ pc[r] = "insert" /\ pc'[r] = "put" /\ rows[Target(r)] = None
    /\ \E new \in Row : new.id = r /\ rows' = [rows EXCEPT ![Target(r)] = new]
    /\ mem'[r].buf = mem[r].buf /\ mem'[r].id = r
    /\ UNCHANGED <<bytes, job>> /\ \A q \in Reqs \ {r} : pc'[q] = pc[q] /\ mem'[q] = mem[q]
Puts(r) ==
    /\ pc[r] = "put" /\ pc'[r] = "ok"
    /\ bytes' = [bytes EXCEPT ![Target(r)] = mem[r].buf]
    /\ UNCHANGED <<rows, job>> /\ \A q \in Reqs \ {r} : pc'[q] = pc[q] /\ mem'[q] = mem[q]
Tears(r) ==
    /\ "torn" \in Faults
    /\ pc[r] = "put" /\ pc'[r] = "undo" /\ mem'[r] = mem[r]
    /\ bytes' = [bytes EXCEPT ![Target(r)] = Torn]
    /\ UNCHANGED <<rows, job>> /\ \A q \in Reqs \ {r} : pc'[q] = pc[q] /\ mem'[q] = mem[q]
Undoes(r) ==
    /\ pc[r] = "undo" /\ pc'[r] = "failed"
    /\ rows' = [k \in Keys |-> IF rows[k] # None /\ rows[k].id = mem[r].id THEN None ELSE rows[k]]
    /\ UNCHANGED <<bytes, job>> /\ \A q \in Reqs \ {r} : pc'[q] = pc[q] /\ mem'[q] = mem[q]

(* The locals of a request other than the one that steps stay.               *)
LEMMA GotoAlone ==
    ASSUME TypeInv, NEW r \in Reqs, NEW step, NEW locals, Goto(r, step, locals)
    PROVE  /\ pc'[r] = step /\ mem'[r] = locals
           /\ \A q \in Reqs \ {r} : pc'[q] = pc[q] /\ mem'[q] = mem[q]
  BY DEF Goto, TypeInv, TypeOK

LEMMA FinishAlone ==
    ASSUME TypeInv, NEW r \in Reqs, NEW outcome, Finish(r, outcome)
    PROVE  /\ pc'[r] = outcome
           /\ \A q \in Reqs \ {r} : pc'[q] = pc[q] /\ mem'[q] = mem[q]
  BY DEF Finish, TypeInv, TypeOK

LEMMA AdvanceIsSole ==
    ASSUME NothingOverwrites, TypeInv, SoleInv, NEW r \in Reqs, Advance(r)
    PROVE  Aside(r) \/ Inserts(r) \/ Puts(r) \/ Tears(r) \/ Undoes(r)
  <1> USE DEF stores
  <1>1. pc[r] \in Steps
    BY DEF Advance, Enter, StartCheck, ReadReplaced, ReadUsed, InsertRow, InsertRefused, PutBytes,
           PutFails, UndoRow, RemoveRows, EraseBytes, ReadSource, PutDst, RenameRow, RenameRefused,
           DropDst, DropSrc, Steps
  <1>2. /\ pc[r] \in SoleSteps /\ (pc[r] = "readSource" => job[r].op = "copy")
        /\ pc[r] \in {"put", "undo"} => mem[r].id = r
    BY <1>1 DEF SoleInv, Sole, StepIsSole, RowIsOwned
  <1>3. job[r].op \in {"upload", "copy"} /\ Target(r) \in Keys /\ mem[r] \in Local
    BY <1>1, JobIsSole DEF TypeInv, TypeOK, JobsTyped, Target
  <1>4. CASE Enter(r)
    <2>1. CASE quota = None
      <3> DEFINE locals == [mem[r] EXCEPT !.limit = None]
      <3>1. Goto(r, "insert", locals) /\ UNCHANGED <<stores, job>>
        BY <1>4, <2>1 DEF Enter
      <3>2. locals.buf = mem[r].buf
        BY <1>3 DEF Local
      <3>3. pc[r] = "enter"
        BY <1>4 DEF Enter
      <3> HIDE DEF locals
      <3>4. QED
        BY <3>1, <3>2, <3>3, GotoAlone DEF Aside, CheckSteps
    <2>2. CASE quota # None
      <3>1. pc[r] = "enter" /\ pc' = [pc EXCEPT ![r] = "queued"] /\ UNCHANGED <<stores, job, mem>>
        BY <1>4, <2>2 DEF Enter
      <3>2. QED
        BY <3>1 DEF Aside, CheckSteps, TypeInv, TypeOK
    <2>3. QED
      BY <2>1, <2>2
  <1>5. CASE StartCheck(r)
    <2> DEFINE locals == [mem[r] EXCEPT !.limit = quota, !.replaced = 0]
    <2>1. locals.buf = mem[r].buf
      BY <1>3 DEF Local
    <2>2. \E step \in {"insert", "enter", "used"} : Goto(r, step, locals)
      BY <1>3, <1>5 DEF StartCheck, Admitted
    <2> HIDE DEF locals
    <2>3. QED
      BY <1>5, <2>1, <2>2, GotoAlone DEF StartCheck, Aside, CheckSteps
  <1>6. CASE ReadUsed(r)
    <2>1. \/ Finish(r, "failed")
          \/ \E step \in {"insert", "enter"} : Goto(r, step, mem[r])
      BY <1>6 DEF ReadUsed, Admitted
    <2>2. QED
      BY <1>6, <2>1, GotoAlone, FinishAlone DEF ReadUsed, Aside, CheckSteps
  <1>7. CASE InsertRow(r)
    <2>1. rows[Target(r)] = None /\ pc[r] = "insert"
      BY <1>3, <1>7 DEF InsertRow
    <2>2. Inserted(r).id = r
      BY <1>3, <2>1 DEF Inserted
    <2>3. Inserted(r) \in Row
      <3>1. job[r].op = "copy" => rows[job[r].src] \in Row
        BY <1>1, <1>7 DEF InsertRow, TypeInv, TypeOK, JobsTyped, Job
      <3>2. mem[r].buf \in Content
        BY <2>1 DEF TypeInv, JobsTyped, BodySteps, Steps
      <3>3. QED
        BY <2>1, <3>1, <3>2 DEF Inserted, Row, Ids
    <2> DEFINE locals == [Fresh EXCEPT !.buf = mem[r].buf, !.id = Inserted(r).id]
    <2>4. locals.buf = mem[r].buf /\ locals.id = r
      BY <2>2 DEF Fresh
    <2>5. Goto(r, "put", locals) /\ rows' = [rows EXCEPT ![Target(r)] = Inserted(r)] /\ UNCHANGED <<bytes, job>>
      BY <1>7 DEF InsertRow
    <2> HIDE DEF locals
    <2>6. /\ pc'[r] = "put" /\ mem'[r] = locals
          /\ \A q \in Reqs \ {r} : pc'[q] = pc[q] /\ mem'[q] = mem[q]
      BY <2>5, GotoAlone
    <2>7. \E new \in Row : new.id = r /\ rows' = [rows EXCEPT ![Target(r)] = new]
      BY <2>2, <2>3, <2>5
    <2>8. Inserts(r)
      BY <2>1, <2>4, <2>5, <2>6, <2>7 DEF Inserts
    <2>9. QED
      BY <2>8
  <1>8. CASE InsertRefused(r)
    BY <1>8, FinishAlone DEF InsertRefused, Aside
  <1>9. CASE PutBytes(r)
    BY <1>9, FinishAlone DEF PutBytes, Puts
  <1>10. CASE PutFails(r)
    <2>1. Goto(r, "undo", mem[r]) /\ DriverFails(Target(r)) /\ UNCHANGED <<rows, job>> /\ pc[r] = "put"
      BY <1>10 DEF PutFails
    <2>2. QED
      BY <2>1, GotoAlone DEF DriverFails, Aside, Tears
  <1>11. CASE UndoRow(r)
    BY <1>11, FinishAlone DEF UndoRow, Undoes
  <1>12. CASE ReadSource(r)
    <2>1. CASE bytes[job[r].src] = None
      BY <1>12, <2>1, FinishAlone DEF ReadSource, Aside
    <2>2. CASE bytes[job[r].src] # None
      <3> DEFINE locals == [Fresh EXCEPT !.buf = bytes[job[r].src]]
      <3>1. locals.buf = bytes[job[r].src]
        BY DEF Fresh
      <3>2. pc[r] = "readSource" /\ job[r].op = "copy" /\ Goto(r, "enter", locals) /\ UNCHANGED <<stores, job>>
        BY <1>2, <1>12, <2>2 DEF ReadSource
      <3> HIDE DEF locals
      <3>3. QED
        BY <2>2, <3>1, <3>2, GotoAlone DEF Aside
    <2>3. QED
      BY <2>1, <2>2
  <1>13. ~(ReadReplaced(r) \/ RemoveRows(r) \/ EraseBytes(r) \/ PutDst(r) \/ RenameRow(r)
             \/ RenameRefused(r) \/ DropDst(r) \/ DropSrc(r))
    BY <1>2 DEF SoleSteps, CheckSteps, ReadReplaced, RemoveRows, EraseBytes, PutDst, RenameRow,
                RenameRefused, DropDst, DropSrc
  <1>14. QED
    BY <1>4, <1>5, <1>6, <1>7, <1>8, <1>9, <1>10, <1>11, <1>12, <1>13 DEF Advance

(* A row that is there keeps every other request from writing at its place.  *)
LEMMA AdvanceSole ==
    ASSUME NothingOverwrites, TypeInv, SoleInv, NEW r \in Reqs, Advance(r)
    PROVE  SoleInv'
  <1>1. UNCHANGED job /\ \A q \in Reqs \ {r} : pc'[q] = pc[q] /\ mem'[q] = mem[q]
    BY AdvanceIsSole DEF Aside, Inserts, Puts, Tears, Undoes
  <1>2. /\ pc[r] \in BodySteps => mem[r].buf \in Content
        /\ \A q \in Reqs : pc[q] \in Steps => job[q] \in Job /\ Target(q) \in Keys
        /\ \A q \in Reqs : job[q] \in Job => Target(q) \in Keys
        /\ rows \in [Keys -> Row \cup {None}] /\ bytes \in [Keys -> Content \cup {None}]
    BY DEF TypeInv, TypeOK, JobsTyped, Target, Job
  <1>3. \A q \in Reqs : Target(q)' = Target(q)
    BY <1>1 DEF Target
  <1>4. None \notin Row \cup Content
    BY NoneAssumption
  <1>5. CASE Aside(r)
    <2>1. /\ pc'[r] \in {"put", "undo"} => pc[r] = "put" /\ mem'[r] = mem[r]
          /\ pc'[r] # "ok"
      BY <1>5 DEF Aside, CheckSteps
    <2>2. StepIsSole(r)'
      <3>1. pc'[r] \in SoleSteps \cup {"failed"} /\ pc'[r] # "readSource"
        BY <1>5 DEF Aside, SoleSteps, CheckSteps
      <3>2. ASSUME pc'[r] \in BodySteps, job[r].op = "upload"
            PROVE  mem'[r].buf \in [by : {r}, size : Sizes]
        <4>1. pc[r] \in BodySteps /\ mem'[r].buf = mem[r].buf
          BY <1>5, <3>2 DEF Aside, CheckSteps, BodySteps, Steps
        <4>2. QED
          BY <3>2, <4>1 DEF SoleInv, Sole, StepIsSole
      <3>3. "failed" \notin Steps
        BY DEF Steps
      <3>4. QED
        BY <1>1, <3>1, <3>2, <3>3 DEF StepIsSole
    <2>3. ASSUME NEW q \in Reqs PROVE Sole(q)'
      BY <1>1, <1>3, <1>5, <2>1, <2>2
         DEF Aside, SoleInv, Sole, StepIsSole, RowIsOwned, AnswerIsKept, OwnRow, OwnBytes
    <2>4. QED
      BY <2>3 DEF SoleInv
  <1>6. CASE Inserts(r)
    <2>1. Target(r) \in Keys
      BY <1>2, <1>6 DEF Inserts, Steps
    <2>2. /\ \A k \in Keys : rows[k] # None => rows'[k] = rows[k]
          /\ rows'[Target(r)] # None /\ rows'[Target(r)].id = r
      BY <1>2, <1>4, <1>6, <2>1 DEF Inserts
    <2>3. Sole(r)'
      <3>1. job[r].op = "upload" => mem'[r].buf \in [by : {r}, size : Sizes]
        BY <1>6 DEF Inserts, SoleInv, Sole, StepIsSole, BodySteps, Steps
      <3>2. QED
        BY <1>1, <1>3, <1>6, <2>2, <3>1
           DEF Inserts, Sole, StepIsSole, RowIsOwned, AnswerIsKept, OwnRow, SoleSteps
    <2>4. ASSUME NEW q \in Reqs \ {r} PROVE Sole(q)'
      <3>1. Sole(q) /\ (pc[q] \in {"put", "undo", "ok"} => Target(q) \in Keys /\ rows'[Target(q)] = rows[Target(q)])
        BY <1>2, <2>2 DEF SoleInv, Sole, RowIsOwned, AnswerIsKept, OwnRow, Steps
      <3>2. UNCHANGED bytes
        BY <1>6 DEF Inserts
      <3>3. QED
        BY <1>1, <1>3, <3>1, <3>2
           DEF Sole, StepIsSole, RowIsOwned, AnswerIsKept, OwnRow, OwnBytes
    <2>5. QED
      BY <2>3, <2>4 DEF SoleInv
  <1>7. CASE Puts(r) \/ Tears(r)
    <2>1. pc[r] = "put" /\ UNCHANGED rows /\ Target(r) \in Keys /\ OwnRow(r)
      BY <1>2, <1>7 DEF Puts, Tears, SoleInv, Sole, RowIsOwned, Steps
    <2>2. \A k \in Keys : k # Target(r) => bytes'[k] = bytes[k]
      BY <1>2, <1>7 DEF Puts, Tears
    <2>3. Sole(r)'
      <3>1. CASE Puts(r)
        <4>1. bytes'[Target(r)] = mem[r].buf /\ mem[r].buf \in Content
          BY <1>2, <2>1, <3>1 DEF Puts, BodySteps, Steps
        <4>2. job[r].op = "upload" => mem[r].buf \in [by : {r}, size : Sizes]
          BY <2>1 DEF SoleInv, Sole, StepIsSole, BodySteps, Steps
        <4>3. "ok" \notin Steps
          BY DEF Steps
        <4>4. job[r] \in Job
          BY <1>2, <2>1 DEF Steps
        <4>5. QED
          BY <1>1, <1>3, <1>4, <2>1, <3>1, <4>1, <4>2, <4>3, <4>4
             DEF Puts, Sole, StepIsSole, RowIsOwned, AnswerIsKept, OwnRow, OwnBytes, BodySteps
      <3>2. CASE Tears(r)
        <4>1. job[r].op = "upload" => mem[r].buf \in [by : {r}, size : Sizes]
          BY <2>1 DEF SoleInv, Sole, StepIsSole, BodySteps, Steps
        <4>2. mem[r].id = r
          BY <2>1 DEF SoleInv, Sole, RowIsOwned
        <4>3. QED
          BY <1>1, <1>3, <2>1, <3>2, <4>1, <4>2
             DEF Tears, Sole, StepIsSole, RowIsOwned, AnswerIsKept, OwnRow, SoleSteps
      <3>3. QED
        BY <1>7, <3>1, <3>2
    <2>4. ASSUME NEW q \in Reqs \ {r} PROVE Sole(q)'
      <3>1. Sole(q)
        BY DEF SoleInv
      <3>2. pc[q] = "ok" => Target(q) \in Keys /\ Target(q) # Target(r)
        BY <1>2, <2>1, <3>1 DEF Sole, AnswerIsKept, OwnRow
      <3>3. pc[q] = "ok" => bytes'[Target(q)] = bytes[Target(q)]
        BY <2>2, <3>2
      <3>4. QED
        BY <1>1, <1>3, <2>1, <3>1, <3>3
           DEF Sole, StepIsSole, RowIsOwned, AnswerIsKept, OwnRow, OwnBytes
    <2>5. QED
      BY <2>3, <2>4 DEF SoleInv
  <1>8. CASE Undoes(r)
    <2>1. pc[r] = "undo" /\ mem[r].id = r /\ pc'[r] = "failed" /\ UNCHANGED bytes
      BY <1>8 DEF Undoes, SoleInv, Sole, RowIsOwned
    <2>2. \A k \in Keys : rows[k] # None /\ rows[k].id # r => rows'[k] = rows[k]
      BY <1>8, <2>1 DEF Undoes
    <2>3. Sole(r)'
      BY <2>1 DEF Sole, StepIsSole, RowIsOwned, AnswerIsKept, Steps, BodySteps
    <2>4. ASSUME NEW q \in Reqs \ {r} PROVE Sole(q)'
      <3>1. Sole(q) /\ (pc[q] \in {"put", "undo", "ok"} => Target(q) \in Keys /\ rows'[Target(q)] = rows[Target(q)])
        BY <1>2, <2>2 DEF SoleInv, Sole, RowIsOwned, AnswerIsKept, OwnRow, Steps
      <3>2. QED
        BY <1>1, <1>3, <2>1, <3>1
           DEF Sole, StepIsSole, RowIsOwned, AnswerIsKept, OwnRow, OwnBytes
    <2>5. QED
      BY <2>3, <2>4 DEF SoleInv
  <1>9. QED
    BY AdvanceIsSole, <1>5, <1>6, <1>7, <1>8

LEMMA NextSole ==
    ASSUME NothingOverwrites
    PROVE  TypeInv /\ SoleInv /\ [Next]_vars => SoleInv'
  <1> SUFFICES ASSUME TypeInv, SoleInv, [Next]_vars PROVE SoleInv'
    OBVIOUS
  <1>1. ASSUME NEW r \in Reqs, Begin(r) PROVE SoleInv'
    <2>0. PICK j \in Job, size \in Sizes :
            /\ job' = [job EXCEPT ![r] = j]
            /\ \E step \in FirstSteps(j.op) :
                 Goto(r, step, IF j.op \in {"upload", "upsert"}
                                 THEN [Fresh EXCEPT !.buf = [by |-> r, size |-> size]] ELSE Fresh)
      BY <1>1 DEF Begin
    <2>1. PICK step \in FirstSteps(j.op) :
            Goto(r, step, IF j.op \in {"upload", "upsert"}
                            THEN [Fresh EXCEPT !.buf = [by |-> r, size |-> size]] ELSE Fresh)
      BY <2>0
    <2>2. /\ \/ step \in {"precheck", "enter"} /\ j.op = "upload"
             \/ step = "readSource" /\ j.op = "copy"
          /\ job'[r] = j
      BY <2>0, <2>1, JobIsSole DEF FirstSteps, TypeInv, TypeOK
    <2>3. /\ pc'[r] = step /\ (j.op = "upload" => mem'[r].buf = [by |-> r, size |-> size])
          /\ \A q \in Reqs \ {r} : pc'[q] = pc[q] /\ mem'[q] = mem[q] /\ job'[q] = job[q]
      BY <2>0, <2>1, GotoAlone DEF Fresh, TypeInv, TypeOK
    <2>4. UNCHANGED <<rows, bytes>>
      BY <1>1 DEF Begin, stores
    <2>5. Sole(r)'
      BY <2>2, <2>3 DEF Sole, StepIsSole, RowIsOwned, AnswerIsKept, SoleSteps, CheckSteps, BodySteps
    <2>6. ASSUME NEW q \in Reqs \ {r} PROVE Sole(q)'
      BY <2>3, <2>4 DEF SoleInv, Sole, StepIsSole, RowIsOwned, AnswerIsKept, OwnRow, OwnBytes, Target
    <2>7. QED
      BY <2>5, <2>6 DEF SoleInv
  <1>2. ASSUME NEW r \in Reqs, Advance(r) PROVE SoleInv'
    BY <1>2, AdvanceSole
  <1>3. CASE SaveQuota \/ ApplyQuota \/ UNCHANGED vars
    BY <1>3 DEF SaveQuota, ApplyQuota, vars, stores, SoleInv, Sole, StepIsSole, RowIsOwned,
                AnswerIsKept, OwnRow, OwnBytes, Target
  <1>4. CASE Restart
    <2>1. \A r \in Reqs : pc'[r] \notin Steps /\ (pc'[r] = "ok" => pc[r] = "ok")
      BY <1>4 DEF Restart, Steps
    <2>2. UNCHANGED <<rows, bytes, job>>
      BY <1>4 DEF Restart, stores
    <2>3. QED
      BY <2>1, <2>2 DEF SoleInv, Sole, StepIsSole, RowIsOwned, AnswerIsKept, OwnRow, OwnBytes, Target,
                        BodySteps, Steps
  <1>5. QED
    BY <1>1, <1>2, <1>3, <1>4 DEF Next

LEMMA InitSole == Init => SoleInv
  BY DEF Init, SoleInv, Sole, StepIsSole, RowIsOwned, AnswerIsKept, Steps, BodySteps

(* Where requests only upload without overwriting and copy, an upload or a   *)
(* copy that was answered keeps its row and its bytes, for any number of     *)
(* requests, torn or failed writes beside it, changes of the quota and       *)
(* restarts.                                                                 *)
THEOREM AnsweredWritesAreKept ==
    ASSUME NothingOverwrites
    PROVE  Spec => []AnsweredWriteKept
  <1>1. SoleInv => AnsweredWriteKept
    BY DEF SoleInv, Sole, AnswerIsKept, OwnRow, OwnBytes, AnsweredWriteKept
  <1>2. QED
    BY InitTyped, NextTyped, InitSole, NextSole, <1>1, PTL DEF Spec

----------------------------------------------------------------------------
(* The refinement of ObjectStore: where puts are whole or do nothing, the    *)
(* bytes alone are the store the clients see, and a request takes effect     *)
(* with its put.                                                             *)

PutsAreWhole == "torn" \notin Faults

NoStray == \A k \in Keys : rows[k] = None => bytes[k] = None
RowsInPlace == \A k \in Keys : rows[k] # None /\ rows[k].id \in Reqs =>
    job[rows[k].id] \in Job /\ Target(rows[k].id) = k
JobKept(r) == IF pc[r] = "idle" THEN job[r] = None ELSE job[r] \in Job
PutToCome(r) == pc[r] \in {"put", "undo"} => bytes[Target(r)] = None
SourceKept(r) == pc[r] \in BodySteps /\ job[r].op = "copy" =>
    bytes[job[r].src] # None /\ mem[r].buf = bytes[job[r].src]
PlainInv == NoStray /\ RowsInPlace /\ \A r \in Reqs : JobKept(r) /\ PutToCome(r) /\ SourceKept(r)

LEMMA InitPlain == Init => PlainInv
  <1> SUFFICES ASSUME Init PROVE PlainInv
    OBVIOUS
  <1>1. \A r \in Reqs : pc[r] = "idle" /\ job[r] = None
    BY DEF Init
  <1>2. PICK stock \in SUBSET Keys, size \in [Keys -> Sizes] :
          /\ rows = [k \in Keys |-> IF k \in stock
                       THEN [id |-> k, meta |-> [by |-> k, size |-> size[k]]] ELSE None]
          /\ bytes = [k \in Keys |-> IF k \in stock THEN [by |-> k, size |-> size[k]] ELSE None]
    BY DEF Init
  <1>3. \A k \in stock : [id |-> k, meta |-> [by |-> k, size |-> size[k]]] \in Row
    BY <1>2, SizesAssumption DEF Row, Content, Ids
  <1>4. NoStray
    BY <1>2, <1>3, NoneAssumption DEF NoStray
  <1>5. \A k \in Keys : rows[k] # None => rows[k].id = k
    BY <1>2
  <1>6. RowsInPlace
    BY <1>5, IdsAssumption DEF RowsInPlace
  <1>7. QED
    BY <1>1, <1>4, <1>6 DEF PlainInv, JobKept, PutToCome, SourceKept, Steps, BodySteps

LEMMA AdvancePlain ==
    ASSUME NothingOverwrites, PutsAreWhole, TypeInv, SoleInv, PlainInv, NEW r \in Reqs, Advance(r)
    PROVE  PlainInv'
  <1>1. /\ UNCHANGED job
        /\ \A q \in Reqs \ {r} : pc'[q] = pc[q] /\ mem'[q] = mem[q]
        /\ \A q \in Reqs : Target(q)' = Target(q)
    BY AdvanceIsSole DEF Aside, Inserts, Puts, Tears, Undoes, Target
  <1>2. /\ pc[r] \in BodySteps => mem[r].buf \in Content
        /\ \A q \in Reqs : pc[q] \in Steps => job[q] \in Job
        /\ \A q \in Reqs : job[q] \in Job => Target(q) \in Keys /\ job[q].src \in Keys
        /\ rows \in [Keys -> Row \cup {None}] /\ bytes \in [Keys -> Content \cup {None}]
    BY DEF TypeInv, TypeOK, JobsTyped, Target, Job
  <1>3. None \notin Row \cup Content
    BY NoneAssumption
  <1>4. NoStray /\ RowsInPlace /\ \A q \in Reqs : JobKept(q) /\ PutToCome(q) /\ SourceKept(q)
    BY DEF PlainInv
  <1>5. pc[r] \in Steps /\ pc[r] # "idle" /\ pc'[r] # "idle" /\ "failed" \notin Steps /\ "ok" \notin Steps
    BY AdvanceIsSole DEF Aside, Inserts, Puts, Tears, Undoes, CheckSteps, Advance, Enter, StartCheck,
           ReadReplaced, ReadUsed, InsertRow, InsertRefused, PutBytes, PutFails, UndoRow, RemoveRows,
           EraseBytes, ReadSource, PutDst, RenameRow, RenameRefused, DropDst, DropSrc, Steps
  <1>6. \A q \in Reqs : JobKept(q)'
    BY <1>1, <1>4, <1>5 DEF JobKept
  <1>7. CASE Aside(r)
    <2>1. UNCHANGED <<rows, bytes>> /\ (pc'[r] \in {"put", "undo"} => pc[r] = "put")
      BY <1>7 DEF Aside, CheckSteps
    <2>2. NoStray' /\ RowsInPlace' /\ \A q \in Reqs : PutToCome(q)'
      BY <1>1, <1>4, <2>1 DEF NoStray, RowsInPlace, PutToCome
    <2>3. SourceKept(r)'
      BY <1>1, <1>4, <1>5, <1>7 DEF SourceKept, Aside, CheckSteps, BodySteps, Steps
    <2>4. \A q \in Reqs \ {r} : SourceKept(q)'
      BY <1>1, <1>4, <2>1 DEF SourceKept
    <2>5. QED
      BY <1>6, <2>2, <2>3, <2>4 DEF PlainInv
  <1>8. CASE Inserts(r)
    <2>1. /\ pc[r] = "insert" /\ pc'[r] = "put" /\ rows[Target(r)] = None
          /\ mem'[r].buf = mem[r].buf /\ UNCHANGED bytes
      BY <1>8 DEF Inserts
    <2>2. Target(r) \in Keys
      BY <1>2, <1>5
    <2>3. PICK new \in Row : new.id = r /\ rows' = [rows EXCEPT ![Target(r)] = new]
      BY <1>8 DEF Inserts
    <2>4. \A k \in Keys : rows'[k] = IF k = Target(r) THEN new ELSE rows[k]
      BY <1>2, <2>3
    <2>5. NoStray'
      BY <1>3, <1>4, <2>1, <2>3, <2>4 DEF NoStray
    <2>6. RowsInPlace'
      BY <1>1, <1>2, <1>4, <1>5, <2>3, <2>4 DEF RowsInPlace
    <2>7. bytes[Target(r)] = None
      BY <1>4, <2>1, <2>2 DEF NoStray
    <2>8. \A q \in Reqs : PutToCome(q)'
      BY <1>1, <1>4, <2>1, <2>7 DEF PutToCome
    <2>9. \A q \in Reqs : SourceKept(q)'
      BY <1>1, <1>4, <2>1 DEF SourceKept, BodySteps, Steps
    <2>10. QED
      BY <1>6, <2>5, <2>6, <2>8, <2>9 DEF PlainInv
  <1>9. CASE Puts(r)
    <2>1. /\ pc[r] = "put" /\ pc'[r] = "ok" /\ UNCHANGED rows
          /\ bytes' = [bytes EXCEPT ![Target(r)] = mem[r].buf]
      BY <1>9 DEF Puts
    <2>2. Target(r) \in Keys /\ OwnRow(r) /\ bytes[Target(r)] = None
      BY <1>2, <1>4, <1>5, <2>1 DEF SoleInv, Sole, RowIsOwned, PutToCome
    <2>3. \A k \in Keys \ {Target(r)} : bytes'[k] = bytes[k]
      BY <1>2, <2>1
    <2>4. NoStray' /\ RowsInPlace'
      BY <1>1, <1>4, <2>1, <2>2, <2>3 DEF NoStray, RowsInPlace, OwnRow
    <2>5. ASSUME NEW q \in Reqs PROVE PutToCome(q)' /\ SourceKept(q)'
      <3>1. CASE q = r
        BY <1>5, <2>1, <3>1 DEF PutToCome, SourceKept, BodySteps
      <3>2. CASE q # r
        <4>1. pc'[q] = pc[q] /\ mem'[q] = mem[q] /\ (pc[q] \in Steps => Target(q) \in Keys /\ job[q].src \in Keys)
          BY <1>1, <1>2, <3>2
        <4>2. pc[q] \in {"put", "undo"} => Target(q) # Target(r)
          BY <2>2, <3>2 DEF SoleInv, Sole, RowIsOwned, OwnRow
        <4>3. PutToCome(q)'
          BY <1>1, <1>4, <2>3, <4>1, <4>2 DEF PutToCome, Steps
        <4>4. SourceKept(q)'
          BY <1>1, <1>4, <2>2, <2>3, <4>1 DEF SourceKept, BodySteps
        <4>5. QED
          BY <4>3, <4>4
      <3>3. QED
        BY <3>1, <3>2
    <2>6. QED
      BY <1>6, <2>4, <2>5 DEF PlainInv
  <1>10. CASE Undoes(r)
    <2>1. /\ pc[r] = "undo" /\ pc'[r] = "failed" /\ mem[r].id = r /\ UNCHANGED bytes
          /\ rows' = [k \in Keys |-> IF rows[k] # None /\ rows[k].id = r THEN None ELSE rows[k]]
      BY <1>10 DEF Undoes, SoleInv, Sole, RowIsOwned
    <2>2. \A k \in Keys : rows[k] # None /\ rows[k].id = r => bytes[k] = None
      BY <1>4, <2>1 DEF RowsInPlace, PutToCome
    <2>3. NoStray'
      BY <1>4, <2>1, <2>2 DEF NoStray
    <2>4. RowsInPlace'
      BY <1>1, <1>4, <2>1 DEF RowsInPlace
    <2>5. \A q \in Reqs : PutToCome(q)' /\ SourceKept(q)'
      BY <1>1, <1>4, <1>5, <2>1 DEF PutToCome, SourceKept, BodySteps
    <2>6. QED
      BY <1>6, <2>3, <2>4, <2>5 DEF PlainInv
  <1>11. QED
    BY AdvanceIsSole, <1>7, <1>8, <1>9, <1>10 DEF Tears, PutsAreWhole

(* An arriving request only names its job.                                   *)
LEMMA BeginPlain ==
    ASSUME NothingOverwrites, TypeInv, PlainInv, NEW r \in Reqs, Begin(r)
    PROVE  /\ PlainInv' /\ UNCHANGED <<rows, bytes>>
           /\ job[r] = None /\ \E j \in Job : job' = [job EXCEPT ![r] = j]
           /\ pc[r] = "idle" /\ pc'[r] \in {"precheck", "enter", "readSource"}
           /\ \A q \in Reqs \ {r} : pc'[q] = pc[q]
  <1>1. PICK j \in Job, size \in Sizes :
          /\ job' = [job EXCEPT ![r] = j]
          /\ \E step \in FirstSteps(j.op) :
               Goto(r, step, IF j.op \in {"upload", "upsert"}
                               THEN [Fresh EXCEPT !.buf = [by |-> r, size |-> size]] ELSE Fresh)
    BY DEF Begin
  <1>2. PICK step \in FirstSteps(j.op) : \E locals : Goto(r, step, locals)
    BY <1>1
  <1>3. \/ step \in {"precheck", "enter"} /\ j.op = "upload"
        \/ step = "readSource" /\ j.op = "copy"
    BY <1>2, JobIsSole DEF FirstSteps
  <1>4. /\ pc'[r] = step /\ job'[r] = j /\ pc[r] = "idle"
        /\ \A q \in Reqs \ {r} : pc'[q] = pc[q] /\ mem'[q] = mem[q] /\ job'[q] = job[q]
    BY <1>1, <1>2, GotoAlone DEF Begin, TypeInv, TypeOK
  <1>5. UNCHANGED <<rows, bytes>>
    BY DEF Begin, stores
  <1>6. job[r] = None
    BY <1>4 DEF PlainInv, JobKept
  <1>7. None \notin Job
    BY JobAssumption
  <1>8. NoStray' /\ RowsInPlace'
    <2>1. ASSUME NEW k \in Keys, rows[k] # None, rows[k].id \in Reqs
          PROVE  job'[rows'[k].id] \in Job /\ (Target(rows[k].id))' = k
      <3>1. job[rows[k].id] \in Job /\ job[rows[k].id].dst = k
        BY <2>1 DEF PlainInv, RowsInPlace, Target
      <3>2. rows[k].id # r
        BY <1>6, <1>7, <3>1
      <3>3. job'[rows[k].id] = job[rows[k].id]
        BY <1>4, <2>1, <3>2
      <3>4. QED
        BY <1>5, <3>1, <3>3 DEF Target
    <2>2. QED
      BY <1>5, <2>1 DEF PlainInv, NoStray, RowsInPlace
  <1>9. ASSUME NEW q \in Reqs PROVE JobKept(q)' /\ PutToCome(q)' /\ SourceKept(q)'
    <2>1. CASE q = r
      BY <1>3, <1>4, <2>1 DEF JobKept, PutToCome, SourceKept, BodySteps
    <2>2. CASE q # r
      BY <1>4, <1>5, <2>2 DEF PlainInv, JobKept, PutToCome, SourceKept, Target
    <2>3. QED
      BY <2>1, <2>2
  <1>10. QED
    BY <1>1, <1>3, <1>4, <1>5, <1>6, <1>8, <1>9 DEF PlainInv

LEMMA NextPlain ==
    ASSUME NothingOverwrites, PutsAreWhole
    PROVE  TypeInv /\ SoleInv /\ PlainInv /\ [Next]_vars => PlainInv'
  <1> SUFFICES ASSUME TypeInv, SoleInv, PlainInv, [Next]_vars PROVE PlainInv'
    OBVIOUS
  <1>1. ASSUME NEW r \in Reqs, Begin(r) PROVE PlainInv'
    BY <1>1, BeginPlain
  <1>2. ASSUME NEW r \in Reqs, Advance(r) PROVE PlainInv'
    BY <1>2, AdvancePlain
  <1>3. CASE SaveQuota \/ ApplyQuota \/ UNCHANGED vars
    BY <1>3 DEF SaveQuota, ApplyQuota, vars, stores, PlainInv, NoStray, RowsInPlace, JobKept,
                PutToCome, SourceKept, Target
  <1>4. CASE Restart
    <2>1. /\ UNCHANGED <<rows, bytes, job>>
          /\ \A r \in Reqs : pc'[r] \notin Steps /\ (pc'[r] = "idle" <=> pc[r] = "idle")
      BY <1>4 DEF Restart, stores, Steps
    <2>2. NoStray' /\ RowsInPlace'
      BY <2>1 DEF PlainInv, NoStray, RowsInPlace, Target
    <2>3. \A r \in Reqs : JobKept(r)' /\ PutToCome(r)' /\ SourceKept(r)'
      BY <2>1 DEF PlainInv, JobKept, PutToCome, SourceKept, Steps, BodySteps
    <2>4. QED
      BY <2>2, <2>3 DEF PlainInv
  <1>5. QED
    BY <1>1, <1>2, <1>3, <1>4 DEF Next

(* The refinement mapping: every object seen is the one in the bytes, and a  *)
(* request in progress has no answer yet.                                    *)
LEMMA SeenAreBytes ==
    ASSUME TypeInv, PlainInv
    PROVE  Visible = bytes
  <1>1. \A k \in Keys : (IF rows[k] = None THEN None ELSE bytes[k]) = bytes[k]
    BY DEF PlainInv, NoStray
  <1>2. QED
    BY <1>1 DEF Visible, TypeInv, TypeOK

AnswerOf(step) == IF step \in {"ok", "erase"} THEN "ok" ELSE IF step = "failed" THEN "failed" ELSE "none"

LEMMA AnswersGiven == Answer = [r \in Reqs |-> AnswerOf(pc[r])]
  BY DEF Answer, AnswerOf

(* Only the answer of the request that steps can change.                     *)
LEMMA AnswerMoves ==
    ASSUME NEW r \in Reqs, \A q \in Reqs \ {r} : pc'[q] = pc[q]
    PROVE  Answer' = [Answer EXCEPT ![r] = AnswerOf(pc'[r])]
  <1>1. Answer' = [q \in Reqs |-> AnswerOf(pc'[q])]
    BY DEF Answer, AnswerOf
  <1>2. QED
    BY <1>1, AnswersGiven

LEMMA AnswerStays ==
    ASSUME NEW r \in Reqs, \A q \in Reqs \ {r} : pc'[q] = pc[q], AnswerOf(pc'[r]) = AnswerOf(pc[r])
    PROVE  Answer' = Answer
  BY AnswerMoves, AnswersGiven

LEMMA InitStore == Init => Store!StoreInit
  <1> SUFFICES ASSUME Init PROVE Store!StoreInit
    OBVIOUS
  <1>1. PICK stock \in SUBSET Keys, size \in [Keys -> Sizes] :
          /\ rows = [k \in Keys |-> IF k \in stock
                       THEN [id |-> k, meta |-> [by |-> k, size |-> size[k]]] ELSE None]
          /\ bytes = [k \in Keys |-> IF k \in stock THEN [by |-> k, size |-> size[k]] ELSE None]
    BY DEF Init
  <1>2. \A k \in Keys : Visible[k] \in [by : Keys, size : Sizes] \cup {None}
    BY <1>1 DEF Visible
  <1>3. Visible \in [Keys -> [by : Keys, size : Sizes] \cup {None}]
    BY <1>2 DEF Visible
  <1>4. Answer = [r \in Reqs |-> "none"]
    BY DEF Init, Answer
  <1>5. QED
    BY <1>3, <1>4 DEF Init, Store!StoreInit

(* A request is answered "failed" without an effect.                         *)
LEMMA RefusalServes ==
    ASSUME TypeInv, PlainInv, PlainInv', TypeInv', NEW r \in Reqs, UNCHANGED <<bytes, job>>,
           \A q \in Reqs \ {r} : pc'[q] = pc[q],
           pc[r] \in SoleSteps, pc'[r] = "failed"
    PROVE  Store!Serve(r)
  <1>1. Visible' = Visible
    <2>1. Visible' = bytes'
      BY SeenAreBytes DEF Visible, TypeInv, TypeOK, PlainInv, NoStray
    <2>2. QED
      BY <2>1, SeenAreBytes
  <1>2. Answer[r] = "none" /\ Answer' = [Answer EXCEPT ![r] = "failed"]
    BY AnswersGiven, AnswerMoves DEF AnswerOf, SoleSteps, CheckSteps
  <1>3. job[r] # None
    BY JobAssumption DEF PlainInv, JobKept, SoleSteps, CheckSteps
  <1>4. QED
    BY <1>1, <1>2, <1>3 DEF Store!Serve

(* The put of an upload or a copy is the moment it takes effect.             *)
LEMMA PutServes ==
    ASSUME NothingOverwrites, TypeInv, SoleInv, PlainInv, PlainInv', TypeInv', NEW r \in Reqs, Puts(r)
    PROVE  Store!Serve(r)
  <1>1. Visible = bytes /\ Visible' = bytes'
    BY SeenAreBytes DEF Visible, TypeInv, TypeOK, PlainInv, NoStray
  <1>2. /\ pc[r] = "put" /\ pc'[r] = "ok" /\ UNCHANGED job
        /\ \A q \in Reqs \ {r} : pc'[q] = pc[q]
        /\ bytes' = [bytes EXCEPT ![Target(r)] = mem[r].buf]
    BY DEF Puts
  <1>3. Answer[r] = "none" /\ Answer' = [Answer EXCEPT ![r] = "ok"]
    BY <1>2, AnswersGiven, AnswerMoves DEF AnswerOf
  <1>4. job[r] \in Job /\ job[r] # None /\ job[r].op \in {"upload", "copy"}
    BY <1>2, JobAssumption, JobIsSole DEF PlainInv, JobKept
  <1>5. bytes[job[r].dst] = None /\ Target(r) = job[r].dst
    BY <1>2 DEF PlainInv, PutToCome, Target
  <1>6. CASE job[r].op = "upload"
    <2>1. mem[r].buf \in [by : {r}, size : Sizes]
      BY <1>2, <1>6 DEF SoleInv, Sole, StepIsSole, BodySteps, Steps
    <2>2. PICK size \in Sizes : mem[r].buf = [by |-> r, size |-> size]
      BY <2>1
    <2>3. Store!Effect(r)
      BY <1>1, <1>2, <1>5, <1>6, <2>2 DEF Store!Effect, Store!Stored
    <2>4. QED
      BY <1>2, <1>3, <1>4, <2>3 DEF Store!Serve
  <1>7. CASE job[r].op = "copy"
    <2>1. bytes[job[r].src] # None /\ mem[r].buf = bytes[job[r].src]
      BY <1>2, <1>7 DEF PlainInv, SourceKept, BodySteps, Steps
    <2>2. Store!Effect(r)
      BY <1>1, <1>2, <1>5, <1>7, <2>1 DEF Store!Effect, Store!Stored
    <2>3. QED
      BY <1>2, <1>3, <1>4, <2>2 DEF Store!Serve
  <1>8. QED
    BY <1>4, <1>6, <1>7

LEMMA StepStore ==
    ASSUME NothingOverwrites, PutsAreWhole, TypeInv, SoleInv, PlainInv, TypeInv', PlainInv', [Next]_vars
    PROVE  Store!StoreNext \/ UNCHANGED <<Visible, job, Answer>>
  <1>1. Visible = bytes /\ Visible' = bytes'
    BY SeenAreBytes DEF Visible, TypeInv, TypeOK, PlainInv, NoStray
  <1>2. ASSUME NEW r \in Reqs, Begin(r) PROVE Store!Call(r)
    <2>1. /\ UNCHANGED bytes /\ job[r] = None /\ \E j \in Job : job' = [job EXCEPT ![r] = j]
          /\ pc[r] = "idle" /\ pc'[r] \in {"precheck", "enter", "readSource"}
          /\ \A q \in Reqs \ {r} : pc'[q] = pc[q]
      BY <1>2, BeginPlain
    <2>2. Answer' = Answer
      BY <2>1, AnswerStays DEF AnswerOf
    <2>3. QED
      BY <1>1, <2>1, <2>2 DEF Store!Call, Job
  <1>3. ASSUME NEW r \in Reqs, Advance(r) PROVE Store!Serve(r) \/ UNCHANGED <<Visible, job, Answer>>
    <2>1. CASE Aside(r)
      <3>1. UNCHANGED <<bytes, job>> /\ \A q \in Reqs \ {r} : pc'[q] = pc[q]
        BY <2>1 DEF Aside
      <3>2. CASE pc'[r] = "failed"
        <4>1. pc[r] \in SoleSteps
          BY <1>3 DEF SoleInv, Sole, StepIsSole, Advance, Enter, StartCheck, ReadReplaced, ReadUsed,
                 InsertRow, InsertRefused, PutBytes, PutFails, UndoRow, RemoveRows, EraseBytes,
                 ReadSource, PutDst, RenameRow, RenameRefused, DropDst, DropSrc, Steps
        <4>2. QED
          BY <3>1, <3>2, <4>1, RefusalServes
      <3>3. CASE pc'[r] # "failed"
        <4>1. AnswerOf(pc[r]) = "none" /\ AnswerOf(pc'[r]) = "none"
          BY <2>1, <3>3 DEF Aside, AnswerOf, CheckSteps
        <4>2. QED
          BY <1>1, <3>1, <4>1, AnswerStays
      <3>4. QED
        BY <3>2, <3>3
    <2>2. CASE Inserts(r)
      <3>1. UNCHANGED <<bytes, job>> /\ AnswerOf(pc'[r]) = AnswerOf(pc[r])
            /\ \A q \in Reqs \ {r} : pc'[q] = pc[q]
        BY <2>2 DEF Inserts, AnswerOf
      <3>2. QED
        BY <1>1, <3>1, AnswerStays
    <2>3. CASE Puts(r)
      BY <2>3, PutServes
    <2>4. CASE Undoes(r)
      BY <2>4, RefusalServes DEF Undoes, SoleSteps
    <2>5. QED
      BY <1>3, <2>1, <2>2, <2>3, <2>4, AdvanceIsSole DEF Tears, PutsAreWhole
  <1>4. CASE SaveQuota \/ ApplyQuota \/ UNCHANGED vars
    <2>1. UNCHANGED <<rows, bytes, job, pc>>
      BY <1>4 DEF SaveQuota, ApplyQuota, vars, stores
    <2>2. QED
      BY <2>1 DEF Visible, Answer
  <1>5. CASE Restart
    <2>1. UNCHANGED <<bytes, job>>
      BY <1>5 DEF Restart, stores
    <2>2. \A r \in Reqs : AnswerOf(pc'[r]) = AnswerOf(pc[r])
      <3>1. ASSUME NEW r \in Reqs PROVE pc'[r] = (IF pc[r] \in Steps THEN "lost" ELSE pc[r])
        BY <1>5 DEF Restart
      <3>2. ASSUME NEW r \in Reqs, pc[r] \in Steps PROVE pc[r] \in SoleSteps
        BY <3>2 DEF SoleInv, Sole, StepIsSole
      <3>3. QED
        BY <3>1, <3>2 DEF AnswerOf, SoleSteps, CheckSteps
    <2>3. Answer' = [r \in Reqs |-> AnswerOf(pc'[r])]
      BY DEF Answer, AnswerOf
    <2>4. QED
      BY <1>1, <2>1, <2>2, <2>3, AnswersGiven
  <1>6. QED
    BY <1>2, <1>3, <1>4, <1>5 DEF Next, Store!StoreNext

(* Where requests only upload without overwriting and copy, and a put that   *)
(* fails leaves no bytes behind, rows and bytes together behave as one store *)
(* in which every request takes effect at once, with its put, or not at all: *)
(* for any number of requests, changes of the quota and restarts.            *)
THEOREM TwoStoresAreOne ==
    ASSUME NothingOverwrites, PutsAreWhole
    PROVE  Spec => BehavesAsOneStore
  <1>1. TypeInv /\ SoleInv /\ PlainInv /\ [Next]_vars => [Store!StoreNext]_(Store!storeVars)
    BY NextTyped, NextPlain, StepStore DEF Store!storeVars
  <1>2. QED
    BY InitTyped, NextTyped, InitSole, NextSole, InitPlain, NextPlain, InitStore, <1>1, PTL
       DEF Spec, BehavesAsOneStore, Store!StoreSpec

============================================================================
