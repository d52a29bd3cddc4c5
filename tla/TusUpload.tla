----------------------------- MODULE TusUpload -----------------------------
(***************************************************************************)
(* Resumable uploads (TUS) of one object.  An upload is a buffer in memory   *)
(* that POST creates, PATCH requests fill and the last PATCH stores as an     *)
(* object.  Requests of one client overlap: it resends a PATCH whose answer  *)
(* it never saw while the first one's body is still on its way.              *)
(***************************************************************************)
EXTENDS Integers, FiniteSets

CONSTANTS
    Reqs,       \* requests; each is issued at most once
    Uploads,    \* upload ids; each POST makes a new one
    Length,     \* the declared Upload-Length
    Upserts,    \* values of x-upsert the clients send
    Faults,     \* which of "put" and "crash" may happen
    None

ASSUME LengthAssumption == Length \in Nat
ASSUME FlagsAssumption == Upserts \subseteq BOOLEAN
ASSUME FaultsAssumption == Faults \subseteq {"put", "crash"}
ASSUME NoneAssumption == None \notin Reqs \cup Uploads

VARIABLES
    live,       \* ids in the tusUploads map
    upload,     \* the TusUpload of each id, None before its POST
    row,        \* the row of the object all these uploads write, or None
    file,       \* its bytes in the driver, or None
    pc,         \* the next step of each request, or its outcome
    of,         \* the upload each request is about
    at,         \* the offset each request was checked at
    inserted    \* the id of the row each request wrote

vars == <<live, upload, row, file, pc, of, at, inserted>>

Positions == 1 .. Length
TusUploadRecord == [upsert : Upserts, offset : 0 .. Length, data : SUBSET Positions]
ASSUME RecordAssumption == None \notin TusUploadRecord
ASSUME ObjectAssumption == None \notin [id : Reqs, by : Uploads] \cup [by : Uploads, data : SUBSET Positions]

Outcomes == {"created", "patched", "mismatch", "stored", "refused", "failed", "lost"}
Steps == {"first", "body", "finalize", "put", "undo"}

TypeOK ==
    /\ live \subseteq Uploads
    /\ upload \in [Uploads -> TusUploadRecord \cup {None}]
    /\ row \in [id : Reqs, by : Uploads] \cup {None}
    /\ file \in [by : Uploads, data : SUBSET Positions] \cup {None}
    /\ pc \in [Reqs -> {"idle"} \cup Steps \cup Outcomes]
    /\ of \in [Reqs -> Uploads \cup {None}]
    /\ at \in [Reqs -> 0 .. Length]
    /\ inserted \in [Reqs -> Reqs \cup {None}]

----------------------------------------------------------------------------

Init ==
    /\ live = {}
    /\ upload = [u \in Uploads |-> None]
    /\ row = None
    /\ file = None
    /\ pc = [r \in Reqs |-> "idle"]
    /\ of = [r \in Reqs |-> None]
    /\ at = [r \in Reqs |-> 0]
    /\ inserted = [r \in Reqs |-> None]

Goto(r, step) == pc' = [pc EXCEPT ![r] = step]

(* The request ends the upload: its id is no longer known.                   *)
Forget(r, outcome) ==
    /\ live' = live \ {of[r]}
    /\ Goto(r, outcome)

(* POST: a buffer of the declared length; a first chunk may ride along.      *)
Create(r) ==
    /\ pc[r] = "idle"
    /\ \E u \in Uploads, upsert \in Upserts, step \in {"created", "first"} :
        /\ upload[u] = None
        /\ upload' = [upload EXCEPT ![u] = [upsert |-> upsert, offset |-> 0, data |-> {}]]
        /\ live' = live \cup {u}
        /\ of' = [of EXCEPT ![r] = u]
        /\ Goto(r, step)
    /\ UNCHANGED <<row, file, at, inserted>>

(* Mutant: PATCH takes the offset the client claims. *)
PatchAnywhere(r) ==
    /\ pc[r] = "idle"
    /\ \E u \in live, offset \in 0 .. Length :
        /\ of' = [of EXCEPT ![r] = u]
        /\ at' = [at EXCEPT ![r] = offset]
    /\ Goto(r, "body")
    /\ UNCHANGED <<live, upload, row, file, inserted>>

(* PATCH: the offset is compared before the body is received.                *)
Patch(r) ==
    /\ pc[r] = "idle"
    /\ \E u \in live :
        /\ of' = [of EXCEPT ![r] = u]
        /\ at' = [at EXCEPT ![r] = upload[u].offset]
    /\ Goto(r, "body")
    /\ UNCHANGED <<live, upload, row, file, inserted>>

(* A PATCH that claims any other offset.                                     *)
Mismatch(r) ==
    /\ pc[r] = "idle" /\ live # {}
    /\ Goto(r, "mismatch")
    /\ UNCHANGED <<live, upload, row, file, of, at, inserted>>

(* Mutant: the chunk moves the offset on from wherever it is by now. *)
AppendAtEnd(r, n) ==
    upload' = [upload EXCEPT ![of[r]].data = @ \cup (at[r] + 1 .. at[r] + n),
                             ![of[r]].offset = @ + n]

(* The chunk goes where the offset was when it was compared.                 *)
Append(r, n) ==
    upload' = [upload EXCEPT ![of[r]].data = @ \cup (at[r] + 1 .. at[r] + n),
                             ![of[r]].offset = at[r] + n]

(* appendTus with a chunk that leaves bytes to come, or completes the upload.*)
Receive(r) ==
    /\ pc[r] \in {"first", "body"}
    /\ \E n \in 0 .. Length - at[r] :
        /\ pc[r] = "first" => n > 0
        /\ Append(r, n)
        /\ Goto(r, IF upload'[of[r]].offset < Length THEN "patched" ELSE "finalize")
    /\ UNCHANGED <<live, row, file, of, at, inserted>>

(* creation-with-upload with an empty chunk appends nothing.                 *)
ReceiveNothing(r) ==
    /\ pc[r] = "first"
    /\ Goto(r, "created")
    /\ UNCHANGED <<live, upload, row, file, of, at, inserted>>

(* A chunk that exceeds the declared length.                                 *)
ReceiveTooMuch(r) ==
    /\ pc[r] \in {"first", "body"}
    /\ Forget(r, "refused")
    /\ UNCHANGED <<upload, row, file, of, at, inserted>>

(* The connection breaks before the body is complete: arrayBuffer() rejects. *)
BodyLost(r) ==
    /\ pc[r] \in {"first", "body"}
    /\ Goto(r, "lost")
    /\ UNCHANGED <<live, upload, row, file, of, at, inserted>>

----------------------------------------------------------------------------
(* Finalization: checkQuota and persistObject.  A quota can be set or cleared *)
(* at any moment and serializes only the writes that started under it, so    *)
(* finalizations may interleave in every way and be refused at any time.     *)

FinalizeRefused(r) ==
    /\ pc[r] = "finalize"
    /\ Forget(r, "refused")
    /\ UNCHANGED <<upload, row, file, of, at, inserted>>

(* A duplicate key, or row-level security.                                   *)
InsertFails(r) ==
    /\ pc[r] = "finalize"
    /\ Forget(r, "failed")
    /\ UNCHANGED <<upload, row, file, of, at, inserted>>

(* Mutant: every insert overwrites. *)
InsertOver(r) ==
    /\ pc[r] = "finalize"
    /\ row' = [id |-> IF row = None THEN r ELSE row.id, by |-> of[r]]
    /\ inserted' = [inserted EXCEPT ![r] = row'.id]
    /\ Goto(r, "put")
    /\ UNCHANGED <<live, upload, file, of, at>>

Insert(r) ==
    /\ pc[r] = "finalize"
    /\ row # None => upload[of[r]].upsert
    /\ row' = [id |-> IF row = None THEN r ELSE row.id, by |-> of[r]]
    /\ inserted' = [inserted EXCEPT ![r] = row'.id]
    /\ Goto(r, "put")
    /\ UNCHANGED <<live, upload, file, of, at>>

Put(r) ==
    /\ pc[r] = "put"
    /\ file' = [by |-> of[r], data |-> upload[of[r]].data]
    /\ Forget(r, "stored")
    /\ UNCHANGED <<upload, row, of, at, inserted>>

(* The driver writes in place: a write that is cut short leaves a prefix.    *)
Torn(r) == {[by |-> of[r], data |-> 1 .. n] : n \in 0 .. Length}

PutFails(r) ==
    /\ "put" \in Faults
    /\ pc[r] = "put"
    /\ file' \in {file} \cup Torn(r)
    /\ Goto(r, "undo")
    /\ UNCHANGED <<live, upload, row, of, at, inserted>>

(* The rollback deletes the row it wrote, by id.                             *)
Undo(r) ==
    /\ pc[r] = "undo"
    /\ row' = IF row # None /\ row.id = inserted[r] THEN None ELSE row
    /\ Forget(r, "failed")
    /\ UNCHANGED <<upload, file, of, at, inserted>>

----------------------------------------------------------------------------

(* DELETE: the id is forgotten; requests under way keep the buffer.          *)
Terminate ==
    /\ \E u \in live : live' = live \ {u}
    /\ UNCHANGED <<upload, row, file, pc, of, at, inserted>>

(* Uploads live in memory only; a put under way may have written a prefix.   *)
Restart ==
    /\ "crash" \in Faults
    /\ live' = {}
    /\ file' \in {file} \cup UNION {Torn(r) : r \in {q \in Reqs : pc[q] = "put"}}
    /\ pc' = [r \in Reqs |-> IF pc[r] \in Steps THEN "lost" ELSE pc[r]]
    /\ UNCHANGED <<upload, row, of, at, inserted>>

Advance(r) ==
    \/ Receive(r) \/ ReceiveNothing(r) \/ ReceiveTooMuch(r) \/ BodyLost(r)
    \/ FinalizeRefused(r) \/ InsertFails(r) \/ Insert(r) \/ Put(r) \/ PutFails(r) \/ Undo(r)

Next ==
    \/ \E r \in Reqs : Create(r) \/ Patch(r) \/ Mismatch(r) \/ Advance(r)
    \/ Terminate
    \/ Restart

Spec == Init /\ [][Next]_vars

----------------------------------------------------------------------------
(* Properties.                                                               *)

(* The offset a HEAD reports covers only bytes that were received, so a      *)
(* client that resumes there leaves no hole, whatever delayed or repeated    *)
(* PATCH arrives in between.                                                 *)
OffsetReceived ==
    \A u \in Uploads : upload[u] # None => 1 .. upload[u].offset \subseteq upload[u].data

(* What an upload is answered as stored with is its whole file, never a       *)
(* buffer with a hole, whatever repeated PATCHes touched the buffer between   *)
(* the offset that completed it and the put, and whatever torn file the put  *)
(* replaces.                                                                 *)
Whole(u) == [by |-> u, data |-> Positions]
StoredWhole ==
    [][\A r \in Reqs : pc[r] # "stored" /\ pc'[r] = "stored" => file' = Whole(of[r])]_vars

(* Where no upload overwrites, the one that was answered as stored stays the  *)
(* object's row and its bytes stay whole, whatever other uploads and repeated *)
(* PATCHes complete, fail half way through a put or are rolled back beside it.*)
NoOverwrites == \A u \in Uploads : upload[u] # None => ~upload[u].upsert
StoredKept ==
    NoOverwrites => \A r \in Reqs : pc[r] = "stored" =>
        row # None /\ row.id = r /\ file = Whole(of[r])

============================================================================
