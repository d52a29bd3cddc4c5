-------------------------- MODULE TusUploadProofs --------------------------
(***************************************************************************)
(* Proofs about TusUpload: for any number of uploads and of requests, with   *)
(* repeated and delayed PATCHes, an offset covers only received bytes and    *)
(* what is stored is whole.                                                  *)
(***************************************************************************)
EXTENDS TusUpload, TLAPS

Known(r) == of[r] \in Uploads /\ upload[of[r]] # None
Prefix(r) == pc[r] \in {"first", "body"} => Known(r) /\ 1 .. at[r] \subseteq upload[of[r]].data
Complete(r) == pc[r] \in {"finalize", "put", "undo"} => Known(r) /\ upload[of[r]].data = Positions
LiveKnown == \A u \in live : upload[u] # None
FirstAtZero == \A r \in Reqs : pc[r] \in {"idle", "first"} => at[r] = 0
UploadInv == /\ TypeOK /\ OffsetReceived /\ LiveKnown /\ FirstAtZero
             /\ \A r \in Reqs : Prefix(r) /\ Complete(r)

LEMMA InitUpload == Init => UploadInv
  BY LengthAssumption
     DEF Init, UploadInv, TypeOK, OffsetReceived, LiveKnown, FirstAtZero, Prefix, Complete

(* A step of one request that leaves every buffer alone.                     *)
LEMMA QuietStep ==
    ASSUME UploadInv, NEW r \in Reqs, NEW after \in Outcomes \cup Steps, Goto(r, after),
           live' \subseteq live, UNCHANGED <<upload, of, at>>,
           after = "first" => FALSE,
           after = "body" => FALSE,
           after \in {"finalize", "put", "undo"} => pc[r] \in {"finalize", "put", "undo"},
           row' \in [id : Reqs, by : Uploads] \cup {None},
           inserted' \in [Reqs -> Reqs \cup {None}],
           file' \in [by : Uploads, data : SUBSET Positions] \cup {None}
    PROVE  UploadInv'
  <1>1. \A q \in Reqs : pc'[q] = IF q = r THEN after ELSE pc[q]
    BY DEF Goto, UploadInv, TypeOK
  <1>3. TypeOK'
    BY DEF UploadInv, TypeOK, Goto
  <1>4. \A q \in Reqs : Prefix(q)' /\ Complete(q)'
    BY <1>1 DEF UploadInv, Prefix, Complete, Known
  <1>5. FirstAtZero'
    BY <1>1 DEF UploadInv, FirstAtZero, Outcomes, Steps
  <1>6. OffsetReceived' /\ LiveKnown'
    BY DEF UploadInv, OffsetReceived, LiveKnown
  <1>7. QED
    BY <1>3, <1>4, <1>5, <1>6 DEF UploadInv

LEMMA CreateUpload ==
    ASSUME UploadInv, NEW r \in Reqs, Create(r)
    PROVE  UploadInv'
  <1>1. PICK u \in Uploads, upsert \in Upserts, step \in {"created", "first"} :
          /\ upload[u] = None
          /\ upload' = [upload EXCEPT ![u] = [upsert |-> upsert, offset |-> 0, data |-> {}]]
          /\ live' = live \cup {u}
          /\ of' = [of EXCEPT ![r] = u]
          /\ Goto(r, step)
    BY DEF Create
  <1> DEFINE new == [upsert |-> upsert, offset |-> 0, data |-> {}]
  <1>2. new \in TusUploadRecord /\ 1 .. 0 = {}
    BY LengthAssumption DEF TusUploadRecord
  <1>3. /\ \A v \in Uploads : upload'[v] = IF v = u THEN new ELSE upload[v]
        /\ \A q \in Reqs : of'[q] = IF q = r THEN u ELSE of[q]
        /\ \A q \in Reqs : pc'[q] = IF q = r THEN step ELSE pc[q]
        /\ UNCHANGED <<row, file, at, inserted>>
    BY <1>1 DEF Create, Goto, UploadInv, TypeOK
  <1>4. TypeOK'
    BY <1>1, <1>2, <1>3 DEF UploadInv, TypeOK, Goto, Outcomes, Steps
  <1>5. OffsetReceived' /\ LiveKnown'
    BY <1>1, <1>2, <1>3, RecordAssumption DEF UploadInv, OffsetReceived, LiveKnown, TypeOK
  <1>6. at[r] = 0 /\ FirstAtZero'
    BY <1>3 DEF UploadInv, FirstAtZero, Create
  <1>7. ASSUME NEW q \in Reqs PROVE Prefix(q)' /\ Complete(q)'
    <2>1. CASE q = r
      BY <1>1, <1>2, <1>3, <1>6, <2>1, RecordAssumption DEF Prefix, Complete, Known
    <2>2. CASE q # r
      <3>1. pc'[q] = pc[q] /\ of'[q] = of[q] /\ at'[q] = at[q] /\ Prefix(q) /\ Complete(q)
        BY <1>3, <2>2 DEF UploadInv
      <3>2. Known(q) => upload'[of[q]] = upload[of[q]]
        BY <1>1, <1>3 DEF Known
      <3>3. QED
        BY <3>1, <3>2 DEF Prefix, Complete, Known
    <2>3. QED
      BY <2>1, <2>2
  <1>8. QED
    BY <1>4, <1>5, <1>6, <1>7 DEF UploadInv

LEMMA PatchUpload ==
    ASSUME UploadInv, NEW r \in Reqs, Patch(r)
    PROVE  UploadInv'
  <1>1. PICK u \in live :
          /\ of' = [of EXCEPT ![r] = u]
          /\ at' = [at EXCEPT ![r] = upload[u].offset]
    BY DEF Patch
  <1>2. u \in Uploads /\ upload[u] # None /\ upload[u] \in TusUploadRecord
    BY DEF UploadInv, TypeOK, LiveKnown
  <1>3. /\ upload[u].offset \in 0 .. Length
        /\ \A q \in Reqs : of'[q] = IF q = r THEN u ELSE of[q]
        /\ \A q \in Reqs : at'[q] = IF q = r THEN upload[u].offset ELSE at[q]
        /\ \A q \in Reqs : pc'[q] = IF q = r THEN "body" ELSE pc[q]
        /\ UNCHANGED <<live, upload, row, file, inserted>>
    BY <1>1, <1>2 DEF Patch, Goto, UploadInv, TypeOK, TusUploadRecord
  <1>4. TypeOK'
    BY <1>1, <1>2, <1>3 DEF Patch, UploadInv, TypeOK, Goto, Outcomes, Steps
  <1>5. OffsetReceived' /\ LiveKnown' /\ FirstAtZero'
    BY <1>3 DEF UploadInv, OffsetReceived, LiveKnown, FirstAtZero
  <1>6. \A q \in Reqs : Prefix(q)' /\ Complete(q)'
    BY <1>2, <1>3 DEF UploadInv, Prefix, Complete, Known, OffsetReceived
  <1>7. QED
    BY <1>4, <1>5, <1>6 DEF UploadInv

LEMMA ReceiveUpload ==
    ASSUME UploadInv, NEW r \in Reqs, Receive(r)
    PROVE  UploadInv'
  <1> DEFINE u == of[r]
             old == upload[u]
             last == at[r]
  <1>1. PICK n \in 0 .. Length - last :
          /\ Append(r, n)
          /\ Goto(r, IF upload'[u].offset < Length THEN "patched" ELSE "finalize")
    BY DEF Receive
  <1> DEFINE new == [old EXCEPT !.data = old.data \cup (last + 1 .. last + n), !.offset = last + n]
             after == IF last + n < Length THEN "patched" ELSE "finalize"
  <1>2. /\ u \in Uploads /\ old \in TusUploadRecord /\ last \in 0 .. Length /\ n \in Nat
        /\ last + n \in 0 .. Length /\ 1 .. last \subseteq old.data
    BY LengthAssumption DEF Receive, UploadInv, Prefix, Known, TypeOK
  <1>3. /\ new \in TusUploadRecord
        /\ new.data = old.data \cup (last + 1 .. last + n)
        /\ new.offset = last + n
    <2>1. last + 1 .. last + n \subseteq Positions
      BY <1>2, LengthAssumption DEF Positions
    <2>2. old.data \cup (last + 1 .. last + n) \in SUBSET Positions
      BY <1>2, <2>1 DEF TusUploadRecord
    <2>3. QED
      BY <1>2, <2>2 DEF TusUploadRecord
  <1>4. 1 .. last + n \subseteq new.data /\ old.data \subseteq new.data
    BY <1>2, <1>3
  <1>5. upload' = [upload EXCEPT ![u] = new]
    BY <1>1 DEF Append
  <1> HIDE DEF new
  <1>6. /\ \A v \in Uploads : upload'[v] = IF v = u THEN new ELSE upload[v]
        /\ \A q \in Reqs : pc'[q] = IF q = r THEN after ELSE pc[q]
        /\ UNCHANGED <<live, row, file, of, at, inserted>>
    BY <1>1, <1>2, <1>3, <1>5 DEF Receive, Goto, UploadInv, TypeOK
  <1>7. TypeOK'
    BY <1>1, <1>2, <1>3, <1>5, <1>6 DEF UploadInv, TypeOK, Goto, Outcomes, Steps
  <1>8. OffsetReceived' /\ FirstAtZero' /\ LiveKnown'
    BY <1>3, <1>4, <1>6, RecordAssumption
       DEF UploadInv, OffsetReceived, FirstAtZero, LiveKnown, TypeOK
  <1>9. after = "finalize" => new.data = Positions
    BY <1>2, <1>3, <1>4, LengthAssumption DEF TusUploadRecord, Positions
  <1>10. ASSUME NEW q \in Reqs PROVE Prefix(q)' /\ Complete(q)'
    <2>1. CASE q = r
      BY <1>2, <1>3, <1>6, <1>9, <2>1, RecordAssumption DEF Prefix, Complete, Known
    <2>2. CASE q # r
      <3>1. pc'[q] = pc[q] /\ of'[q] = of[q] /\ at'[q] = at[q] /\ Prefix(q) /\ Complete(q)
        BY <1>6, <2>2 DEF UploadInv
      <3>2. Prefix(q)'
        BY <1>3, <1>4, <1>6, <3>1, RecordAssumption DEF Prefix, Known
      <3>3. new.data \subseteq Positions
        BY <1>3 DEF TusUploadRecord
      <3>4. Complete(q)'
        BY <1>3, <1>4, <1>6, <3>1, <3>3, RecordAssumption DEF Complete, Known
      <3>5. QED
        BY <3>2, <3>4
    <2>3. QED
      BY <2>1, <2>2
  <1>11. QED
    BY <1>7, <1>8, <1>10 DEF UploadInv

(* What a put that is cut short leaves is a file of the upload.              *)
LEMMA TornTyped ==
    ASSUME UploadInv, NEW r \in Reqs, pc[r] = "put"
    PROVE  Torn(r) \subseteq [by : Uploads, data : SUBSET Positions]
  <1>1. of[r] \in Uploads
    BY DEF UploadInv, Complete, Known
  <1>2. ASSUME NEW n \in 0 .. Length PROVE 1 .. n \in SUBSET Positions
    BY LengthAssumption DEF Positions
  <1>3. QED
    BY <1>1, <1>2 DEF Torn

LEMMA AdvanceUpload ==
    ASSUME UploadInv, NEW r \in Reqs, Advance(r)
    PROVE  UploadInv'
  <1>1. CASE Receive(r)
    BY <1>1, ReceiveUpload
  <1>2. /\ row \in [id : Reqs, by : Uploads] \cup {None}
        /\ inserted \in [Reqs -> Reqs \cup {None}]
        /\ file \in [by : Uploads, data : SUBSET Positions] \cup {None}
    BY DEF UploadInv, TypeOK
  <1>3. CASE ReceiveNothing(r) \/ ReceiveTooMuch(r) \/ BodyLost(r)
    BY <1>2, <1>3, QuietStep DEF ReceiveNothing, ReceiveTooMuch, BodyLost, Forget, Outcomes
  <1>4. CASE FinalizeRefused(r) \/ InsertFails(r)
    BY <1>2, <1>4, QuietStep DEF FinalizeRefused, InsertFails, Forget, Outcomes
  <1>5. CASE Insert(r)
    <2>1. of[r] \in Uploads /\ UNCHANGED <<live, upload, file, of, at>> /\ Goto(r, "put") /\ pc[r] = "finalize"
      BY <1>5 DEF Insert, UploadInv, Complete, Known
    <2>2. row' \in [id : Reqs, by : Uploads] /\ inserted' \in [Reqs -> Reqs \cup {None}]
      BY <1>2, <1>5, <2>1 DEF Insert
    <2>3. QED
      BY <1>2, <2>1, <2>2, QuietStep DEF Steps
  <1>6. CASE Put(r)
    <2>1. of[r] \in Uploads /\ upload[of[r]].data = Positions
      BY <1>6 DEF Put, UploadInv, Complete, Known
    <2>2. file' \in [by : Uploads, data : SUBSET Positions] \cup {None}
      BY <1>6, <2>1 DEF Put
    <2>3. QED
      BY <1>2, <1>6, <2>2, QuietStep DEF Put, Forget, Outcomes
  <1>7. CASE PutFails(r)
    <2>1. file' \in [by : Uploads, data : SUBSET Positions] \cup {None}
      BY <1>2, <1>7, TornTyped DEF PutFails
    <2>2. QED
      BY <1>2, <1>7, <2>1, QuietStep DEF PutFails, Steps
  <1>8. CASE Undo(r)
    <2>1. row' \in [id : Reqs, by : Uploads] \cup {None}
      BY <1>2, <1>8 DEF Undo
    <2>2. QED
      BY <1>2, <1>8, <2>1, QuietStep DEF Undo, Forget, Outcomes
  <1>9. QED
    BY <1>1, <1>3, <1>4, <1>5, <1>6, <1>7, <1>8 DEF Advance

LEMMA MismatchUpload ==
    ASSUME UploadInv, NEW r \in Reqs, Mismatch(r)
    PROVE  UploadInv'
  <1>1. /\ row \in [id : Reqs, by : Uploads] \cup {None}
        /\ inserted \in [Reqs -> Reqs \cup {None}]
        /\ file \in [by : Uploads, data : SUBSET Positions] \cup {None}
    BY DEF UploadInv, TypeOK
  <1>2. QED
    BY <1>1, QuietStep DEF Mismatch, Outcomes

LEMMA RestartUpload ==
    ASSUME UploadInv, Restart
    PROVE  UploadInv'
  <1>1. \A r \in Reqs : pc'[r] = IF pc[r] \in Steps THEN "lost" ELSE pc[r]
    BY DEF Restart
  <1>2. /\ \A r \in Reqs : pc'[r] \notin {"first", "body", "finalize", "put", "undo"}
        /\ \A r \in Reqs : pc'[r] = "idle" => pc[r] = "idle"
        /\ pc' \in [Reqs -> {"idle"} \cup Steps \cup Outcomes]
    BY <1>1 DEF Restart, Steps, Outcomes, UploadInv, TypeOK
  <1>3. file' \in [by : Uploads, data : SUBSET Positions] \cup {None}
    <2>1. UNION {Torn(r) : r \in {q \in Reqs : pc[q] = "put"}} \subseteq [by : Uploads, data : SUBSET Positions]
      BY TornTyped
    <2>2. file \in [by : Uploads, data : SUBSET Positions] \cup {None}
      BY DEF UploadInv, TypeOK
    <2>3. QED
      BY <2>1, <2>2 DEF Restart
  <1>4. TypeOK'
    BY <1>2, <1>3 DEF Restart, UploadInv, TypeOK
  <1>5. OffsetReceived' /\ LiveKnown' /\ FirstAtZero'
    BY <1>2 DEF Restart, UploadInv, OffsetReceived, LiveKnown, FirstAtZero
  <1>6. QED
    BY <1>2, <1>4, <1>5 DEF UploadInv, Prefix, Complete

LEMMA NextUpload == UploadInv /\ [Next]_vars => UploadInv'
  <1> SUFFICES ASSUME UploadInv, [Next]_vars PROVE UploadInv'
    OBVIOUS
  <1> USE DEF UploadInv, TypeOK, OffsetReceived, LiveKnown, FirstAtZero, Prefix, Complete, Known
  <1>1. ASSUME NEW r \in Reqs, Create(r) \/ Patch(r) \/ Mismatch(r) \/ Advance(r) PROVE UploadInv'
    BY <1>1, CreateUpload, PatchUpload, MismatchUpload, AdvanceUpload
  <1>2. CASE Terminate
    BY <1>2 DEF Terminate
  <1>3. CASE Restart
    BY <1>3, RestartUpload
  <1>4. CASE UNCHANGED vars
    BY <1>4 DEF vars
  <1>5. QED
    BY <1>1, <1>2, <1>3, <1>4 DEF Next

(* What a resumable upload is answered as stored with is its whole file, for  *)
(* any number of uploads of one object, of concurrent, repeated or delayed   *)
(* requests and of puts that were cut short before.                          *)
THEOREM StoredUploadsAreWhole == Spec => StoredWhole
  <1>1. ASSUME UploadInv, [Next]_vars, NEW r \in Reqs, pc[r] # "stored", pc'[r] = "stored"
        PROVE  file' = Whole(of[r])
    <2>1. PICK q \in Reqs : Put(q) /\ pc' = [pc EXCEPT ![q] = "stored"]
      <3>1. CASE Restart
        BY <1>1, <3>1 DEF Restart, UploadInv, TypeOK
      <3>2. ASSUME NEW q \in Reqs, NEW after, Goto(q, after), after # "stored" PROVE FALSE
        BY <1>1, <3>2 DEF Goto, UploadInv, TypeOK
      <3>3. ASSUME NEW q \in Reqs, Create(q) \/ Patch(q) \/ Mismatch(q) PROVE FALSE
        BY <3>2, <3>3 DEF Create, Patch, Mismatch
      <3>4. ASSUME NEW q \in Reqs, Advance(q), ~Put(q) PROVE FALSE
        BY <3>2, <3>4 DEF Advance, Receive, ReceiveNothing, ReceiveTooMuch, BodyLost, Forget,
                          FinalizeRefused, InsertFails, Insert, PutFails, Undo
      <3>5. CASE Terminate \/ UNCHANGED vars
        BY <1>1, <3>5 DEF Terminate, vars
      <3>6. QED
        BY <1>1, <3>1, <3>3, <3>4, <3>5 DEF Next, Put, Forget, Goto
    <2>2. r = q
      BY <1>1, <2>1 DEF UploadInv, TypeOK
    <2>3. QED
      BY <1>1, <2>1, <2>2 DEF Put, Whole, UploadInv, Complete
  <1>2. UploadInv /\ [Next]_vars =>
          [\A r \in Reqs : pc[r] # "stored" /\ pc'[r] = "stored" => file' = Whole(of[r])]_vars
    BY <1>1
  <1>3. QED
    BY InitUpload, NextUpload, <1>2, PTL DEF Spec, StoredWhole

(* A client that resumes at the offset HEAD reports leaves no hole.          *)
THEOREM OffsetsAreReceived == Spec => []OffsetReceived
  <1>1. UploadInv => OffsetReceived
    BY DEF UploadInv
  <1>2. QED
    BY InitUpload, NextUpload, <1>1, PTL DEF Spec

(* The uploads and the requests, the object and the buffers are of their     *)
(* types in every state.                                                     *)
THEOREM UploadsTyped == Spec => []TypeOK
  <1>1. UploadInv => TypeOK
    BY DEF UploadInv
  <1>2. QED
    BY InitUpload, NextUpload, <1>1, PTL DEF Spec

----------------------------------------------------------------------------
(* Where nothing overwrites, the row is there exactly for the one request     *)
(* that inserted it: its row is not yet followed by its bytes, or both are   *)
(* the object's.                                                             *)
Writing(r) == pc[r] \in {"put", "undo"} => row # None /\ row.id = r /\ inserted[r] = r
Kept(r) == pc[r] = "stored" => row # None /\ row.id = r /\ file = Whole(of[r])
Owned == \A r \in Reqs : Writing(r) /\ Kept(r)
OwnedInv == NoOverwrites => Owned

(* An upload keeps the x-upsert it was created with.                         *)
LEMMA UpsertKept ==
    ASSUME UploadInv, [Next]_vars, NoOverwrites'
    PROVE  NoOverwrites
  <1> SUFFICES ASSUME NEW u \in Uploads, upload[u] # None
               PROVE  ~upload[u].upsert
    BY DEF NoOverwrites
  <1>1. upload[u] \in TusUploadRecord
    BY DEF UploadInv, TypeOK
  <1>2. upload'[u] # None /\ upload'[u].upsert = upload[u].upsert
    <2>1. ASSUME NEW r \in Reqs, Create(r) PROVE upload'[u] = upload[u]
      BY <2>1 DEF Create, UploadInv, TypeOK
    <2>2. ASSUME NEW r \in Reqs, Receive(r)
          PROVE  upload'[u] # None /\ upload'[u].upsert = upload[u].upsert
      <3> DEFINE old == upload[u]
      <3>1. PICK n \in 0 .. Length - at[r] : Append(r, n)
        BY <2>2 DEF Receive
      <3> DEFINE grown == [old EXCEPT !.data = @ \cup (at[r] + 1 .. at[r] + n), !.offset = at[r] + n]
      <3>2. upload'[u] = IF u = of[r] THEN grown ELSE old
        BY <3>1 DEF Append, UploadInv, TypeOK
      <3>3. /\ DOMAIN old = {"upsert", "offset", "data"}
            /\ old.data \in SUBSET Positions /\ old.upsert \in Upserts
        BY <1>1 DEF TusUploadRecord
      <3>4. at[r] \in 0 .. Length /\ n \in 0 .. Length - at[r]
        BY DEF UploadInv, TypeOK
      <3>5. /\ old.data \cup (at[r] + 1 .. at[r] + n) \in SUBSET Positions
            /\ at[r] + n \in 0 .. Length
        BY <3>3, <3>4, LengthAssumption DEF Positions
      <3>6. grown.upsert = old.upsert /\ grown \in TusUploadRecord
        BY <1>1, <3>5 DEF TusUploadRecord
      <3>7. QED
        BY <1>1, <3>2, <3>6, RecordAssumption
    <2>3. ASSUME NEW r \in Reqs, Patch(r) \/ Mismatch(r) \/ (Advance(r) /\ ~Receive(r)) PROVE upload' = upload
      BY <2>3 DEF Patch, Mismatch, Advance, ReceiveNothing, ReceiveTooMuch, BodyLost, FinalizeRefused,
                  InsertFails, Insert, Put, PutFails, Undo
    <2>4. CASE Terminate \/ Restart \/ UNCHANGED vars
      BY <2>4 DEF Terminate, Restart, vars
    <2>5. QED
      BY <2>1, <2>2, <2>3, <2>4 DEF Next
  <1>3. QED
    BY <1>2 DEF NoOverwrites

(* A step of one request that leaves the object alone and does not start to  *)
(* write it.                                                                 *)
LEMMA OwnedAside ==
    ASSUME UploadInv, Owned, NEW r \in Reqs, NEW after, pc' = [pc EXCEPT ![r] = after],
           after \notin {"put", "undo", "stored"},
           UNCHANGED <<row, file, inserted>>,
           \A q \in Reqs : q # r => of'[q] = of[q]
    PROVE  Owned'
  <1>1. \A q \in Reqs : pc'[q] = IF q = r THEN after ELSE pc[q]
    BY DEF UploadInv, TypeOK
  <1>2. ASSUME NEW q \in Reqs PROVE Writing(q)' /\ Kept(q)'
    BY <1>1 DEF Owned, Writing, Kept
  <1>3. QED
    BY <1>2 DEF Owned

LEMMA OwnedInsert ==
    ASSUME UploadInv, NoOverwrites, Owned, NEW r \in Reqs, Insert(r)
    PROVE  Owned'
  <1>1. row = None
    BY DEF Insert, UploadInv, Complete, Known, NoOverwrites
  <1>2. row' = [id |-> r, by |-> of[r]] /\ of[r] \in Uploads
    BY <1>1 DEF Insert, UploadInv, Complete, Known
  <1>3. row' # None
    BY <1>2, ObjectAssumption
  <1>4. \A q \in Reqs : pc'[q] = IF q = r THEN "put" ELSE pc[q]
    BY DEF Insert, Goto, UploadInv, TypeOK
  <1>5. inserted'[r] = r
    BY <1>2 DEF Insert, UploadInv, TypeOK
  <1>6. ASSUME NEW q \in Reqs PROVE Writing(q)' /\ Kept(q)'
    BY <1>1, <1>2, <1>3, <1>4, <1>5 DEF Owned, Writing, Kept
  <1>7. QED
    BY <1>6 DEF Owned

LEMMA NextOwned == UploadInv /\ OwnedInv /\ [Next]_vars => OwnedInv'
  <1> SUFFICES ASSUME UploadInv, OwnedInv, [Next]_vars, NoOverwrites' PROVE Owned'
    BY DEF OwnedInv
  <1>1. NoOverwrites /\ Owned
    BY UpsertKept DEF OwnedInv
  <1>2. pc \in [Reqs -> {"idle"} \cup Steps \cup Outcomes] /\ of \in [Reqs -> Uploads \cup {None}]
    BY DEF UploadInv, TypeOK
  <1>3. ASSUME NEW r \in Reqs, Create(r) \/ Patch(r) PROVE Owned'
    <2>1. PICK u \in Uploads, after \in {"created", "first", "body", "mismatch"} :
            /\ of' = [of EXCEPT ![r] = u] /\ Goto(r, after) /\ UNCHANGED <<row, file, inserted>>
      BY <1>3 DEF Create, Patch, UploadInv, TypeOK
    <2>2. \A q \in Reqs : q # r => of'[q] = of[q]
      BY <1>2, <2>1
    <2>3. QED
      BY <1>1, <2>1, <2>2, OwnedAside DEF Goto
  <1>4. ASSUME NEW r \in Reqs, Advance(r) \/ Mismatch(r) PROVE Owned'
    <2>1. CASE Receive(r) \/ ReceiveNothing(r) \/ ReceiveTooMuch(r) \/ BodyLost(r)
                 \/ FinalizeRefused(r) \/ InsertFails(r) \/ Mismatch(r)
      <3>1. \E after \in {"patched", "finalize", "created", "refused", "lost", "failed", "mismatch"} :
              Goto(r, after) /\ UNCHANGED <<row, file, inserted, of>>
        BY <2>1 DEF Receive, ReceiveNothing, ReceiveTooMuch, BodyLost, FinalizeRefused,
                    InsertFails, Mismatch, Forget
      <3>2. QED
        BY <1>1, <3>1, OwnedAside DEF Goto
    <2>2. CASE Insert(r)
      BY <1>1, <2>2, OwnedInsert
    <2>3. CASE Put(r)
      <3>1. /\ \A q \in Reqs : pc'[q] = IF q = r THEN "stored" ELSE pc[q]
            /\ file' = [by |-> of[r], data |-> upload[of[r]].data] /\ UNCHANGED <<row, of, inserted>>
        BY <1>2, <2>3 DEF Put, Forget, Goto
      <3>2. file' = Whole(of[r])
        BY <2>3, <3>1 DEF Put, UploadInv, Complete, Whole
      <3>3. ASSUME NEW q \in Reqs PROVE Writing(q)' /\ Kept(q)'
        BY <1>1, <2>3, <3>1, <3>2 DEF Owned, Writing, Kept, Put
      <3>4. QED
        BY <3>3 DEF Owned
    <2>4. CASE Undo(r)
      <3>1. /\ \A q \in Reqs : pc'[q] = IF q = r THEN "failed" ELSE pc[q]
            /\ UNCHANGED <<of, inserted>>
        BY <1>2, <2>4 DEF Undo, Forget, Goto
      <3>2. ASSUME NEW q \in Reqs PROVE pc'[q] \notin {"put", "undo", "stored"}
        BY <1>1, <2>4, <3>1 DEF Owned, Writing, Kept, Undo
      <3>3. QED
        BY <3>2 DEF Owned, Writing, Kept
    <2>5. CASE PutFails(r)
      <3>1. /\ \A q \in Reqs : pc'[q] = IF q = r THEN "undo" ELSE pc[q]
            /\ UNCHANGED <<row, of, inserted>>
        BY <1>2, <2>5 DEF PutFails, Goto
      <3>2. ASSUME NEW q \in Reqs PROVE pc'[q] # "stored" /\ (pc'[q] \in {"put", "undo"} => q = r)
        BY <1>1, <2>5, <3>1 DEF Owned, Writing, Kept, PutFails
      <3>3. QED
        BY <1>1, <2>5, <3>1, <3>2 DEF Owned, Writing, Kept, PutFails
    <2>6. QED
      BY <1>4, <2>1, <2>2, <2>3, <2>4, <2>5 DEF Advance
  <1>5. CASE Terminate \/ UNCHANGED vars
    BY <1>1, <1>5 DEF Terminate, vars, Owned, Writing, Kept
  <1>6. CASE Restart
    <2>1. \A r \in Reqs : pc'[r] = IF pc[r] \in Steps THEN "lost" ELSE pc[r]
      BY <1>6 DEF Restart
    <2>2. \A r \in Reqs : pc'[r] \notin {"put", "undo"} /\ (pc'[r] = "stored" => pc[r] = "stored")
      BY <2>1 DEF Steps
    <2>3. ASSUME NEW r \in Reqs, pc[r] = "stored" PROVE file' = file
      BY <1>1, <1>6, <2>3 DEF Restart, Owned, Writing, Kept
    <2>4. QED
      BY <1>1, <1>6, <2>2, <2>3 DEF Restart, Owned, Writing, Kept
  <1>7. QED
    BY <1>3, <1>4, <1>5, <1>6 DEF Next

(* Where no upload overwrites, an object that was answered as stored keeps    *)
(* its row and bytes, for any number of uploads that complete, fail or are   *)
(* rolled back beside it and across any number of restarts.                  *)
THEOREM StoredUploadsAreKept == Spec => []StoredKept
  <1>1. Init => OwnedInv
    BY DEF Init, OwnedInv, Owned, Writing, Kept
  <1>2. OwnedInv => StoredKept
    BY DEF OwnedInv, Owned, Kept, StoredKept
  <1>3. QED
    BY InitUpload, NextUpload, NextOwned, <1>1, <1>2, PTL DEF Spec

============================================================================
