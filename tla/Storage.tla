------------------------------ MODULE Storage ------------------------------
(***************************************************************************)
(* The object handlers of the storage service.  An object lives in two      *)
(* stores that no transaction spans: its row in storage.objects (read and    *)
(* written by single SQL statements) and its bytes in the StorageDriver.     *)
(* A request is a sequence of steps, one per awaited query or driver call,   *)
(* and the steps of concurrent requests interleave.                          *)
(***************************************************************************)
EXTENDS Integers, Sequences, FiniteSets

CONSTANTS
    Reqs,           \* requests; each is issued at most once
    Keys,           \* object locations (a bucket and a name)
    Sizes,          \* body sizes a client may send
    Ops,            \* the kinds of request issued in this instance
    QuotaChoices,   \* values the quota may be set to, None meaning unlimited
    Faults,         \* which of "put", "torn" and "crash" may happen
    MaxInFlight,    \* bound on the requests in progress at a time
    None            \* no row, no bytes, no quota, no value

ASSUME KeysAssumption == IsFiniteSet(Keys)
ASSUME SizesAssumption == Sizes \subseteq Nat
ASSUME OpsAssumption == Ops \subseteq {"upload", "upsert", "remove", "move", "copy"}
ASSUME QuotaAssumption == QuotaChoices \subseteq Nat \cup {None} /\ QuotaChoices # {}
ASSUME FaultsAssumption == Faults \subseteq {"put", "torn", "crash"}
ASSUME BoundAssumption == MaxInFlight \in Nat
ASSUME IdsAssumption == Reqs \cap Keys = {} /\ None \notin Nat \cup Reqs \cup Keys

VARIABLES
    rows,       \* storage.objects: the row at each location, or None
    bytes,      \* the driver's bytes at each location, or None
    quota,      \* this.quotaBytes
    saved,      \* the quota in storage.config
    chain,      \* this.quotaChain: the writes waiting for it, the running one first
    pc,         \* the next step of each request, or its outcome
    job,        \* what each request asks for
    mem         \* the local variables of each request's handler

vars == <<rows, bytes, quota, saved, chain, pc, job, mem>>
stores == <<rows, bytes>>
settings == <<quota, saved>>

Ids == Reqs \cup Keys

(* Content is who wrote it and how long it is; a put that fails half way     *)
(* leaves a file that is nobody's.                                           *)
Content == [by : Ids \cup {None}, size : Nat]
Torn == [by |-> None, size |-> 0]
Row == [id : Ids, meta : Content]
ASSUME NoneAssumption == None \notin Row \cup Content

Outcomes == {"ok", "failed", "lost"}
Steps == {"precheck", "replaced", "used", "enter", "queued", "insert", "put", "undo",
          "removeRows", "erase", "readSource", "putDst", "rename", "dropDst", "dropSrc"}

Job == [op : Ops, src : Keys, dst : Keys]
ASSUME JobAssumption == None \notin Job
Local == [limit : Nat \cup {None}, replaced : Nat, buf : Content \cup {None},
          id : Ids \cup {None}, left : SUBSET Keys]
Fresh == [limit |-> None, replaced |-> 0, buf |-> None, id |-> None, left |-> {}]

TypeOK ==
    /\ rows \in [Keys -> Row \cup {None}]
    /\ bytes \in [Keys -> Content \cup {None}]
    /\ quota \in Nat \cup {None}
    /\ saved \in Nat \cup {None}
    /\ chain \in Seq(Reqs)
    /\ pc \in [Reqs -> {"idle"} \cup Steps \cup Outcomes]
    /\ job \in [Reqs -> Job \cup {None}]
    /\ mem \in [Reqs -> Local]

----------------------------------------------------------------------------

SizeOf(row) == IF row = None THEN 0 ELSE row.meta.size

(* usedBytes(): the sizes of all rows, added up byte by byte.                *)
Units(k, n) == {k} \X (1 .. n)
Stored(table) == UNION {Units(k, SizeOf(table[k])) : k \in Keys}
UsedBytes == Cardinality(Stored(rows))

Target(r) == job[r].dst
Adding(r) == mem[r].buf.size
InFlight == {r \in Reqs : pc[r] \in Steps}
InChain(r) == \E i \in 1 .. Len(chain) : chain[i] = r
(* Mutant: the writes of the chain do not wait for one another. *)
RunningAtOnce(r) == InChain(r)

Running(r) == chain # <<>> /\ chain[1] = r

(* The handler goes on to its next awaited step with these locals.           *)
Goto(r, step, locals) ==
    /\ pc' = [pc EXCEPT ![r] = step]
    /\ mem' = [mem EXCEPT ![r] = locals]
    /\ UNCHANGED chain

(* Mutant: a rejected write leaves the chain as it is. *)
FinishStuck(r, outcome) ==
    /\ pc' = [pc EXCEPT ![r] = outcome]
    /\ mem' = [mem EXCEPT ![r] = Fresh]
    /\ chain' = IF Running(r) /\ outcome = "ok" THEN Tail(chain) ELSE chain

(* A handler returns or throws; the chained promise settles either way and   *)
(* the next write in the chain starts.                                       *)
Finish(r, outcome) ==
    /\ pc' = [pc EXCEPT ![r] = outcome]
    /\ mem' = [mem EXCEPT ![r] = Fresh]
    /\ chain' = IF Running(r) THEN Tail(chain) ELSE chain

(* checkQuota lets the write through: the early check goes on to receive the *)
(* body, the one inside the chain goes on to persist it.                     *)
Admitted(r, locals) == Goto(r, IF InChain(r) THEN "insert" ELSE "enter", locals)

----------------------------------------------------------------------------
(* Objects stored before the run have both their parts.                      *)

Init ==
    /\ \E stock \in SUBSET Keys, size \in [Keys -> Sizes] :
        LET content(k) == [by |-> k, size |-> size[k]] IN
        /\ rows = [k \in Keys |-> IF k \in stock THEN [id |-> k, meta |-> content(k)] ELSE None]
        /\ bytes = [k \in Keys |-> IF k \in stock THEN content(k) ELSE None]
    /\ quota \in QuotaChoices
    /\ saved = quota
    /\ chain = <<>>
    /\ pc = [r \in Reqs |-> "idle"]
    /\ job = [r \in Reqs |-> None]
    /\ mem = [r \in Reqs |-> Fresh]

(* A request arrives.  An upload that declares its length is checked before  *)
(* the body is received; move and copy read the source bytes first.  A       *)
(* removal names the locations src and dst, the same one for a single key.   *)
FirstSteps(op) ==
    CASE op \in {"upload", "upsert"} -> {"precheck", "enter"}
      [] op = "remove" -> {"removeRows"}
      [] op \in {"move", "copy"} -> {"readSource"}

Begin(r) ==
    /\ pc[r] = "idle"
    /\ Cardinality(InFlight) < MaxInFlight
    /\ \E j \in Job, size \in Sizes :
        /\ j.op \in {"upload", "upsert"} => j.src = j.dst
        /\ job' = [job EXCEPT ![r] = j]
        /\ \E step \in FirstSteps(j.op) :
            Goto(r, step, IF j.op \in {"upload", "upsert"}
                            THEN [Fresh EXCEPT !.buf = [by |-> r, size |-> size]] ELSE Fresh)
    /\ UNCHANGED <<stores, settings>>

----------------------------------------------------------------------------
(* Quota: checkQuota and serializeQuota.                                     *)

(* serializeQuota: without a quota the write runs at once, and checkQuota,   *)
(* which reads the same quota in the same turn, lets it through.             *)
Enter(r) ==
    /\ pc[r] = "enter"
    /\ IF quota = None
         THEN Goto(r, "insert", [mem[r] EXCEPT !.limit = None])
         ELSE /\ pc' = [pc EXCEPT ![r] = "queued"]
              /\ chain' = Append(chain, r)
              /\ UNCHANGED mem
    /\ UNCHANGED <<stores, settings, job>>

(* checkQuota takes the quota in force when it starts; without one, or with  *)
(* nothing to add, it asks no further.                                       *)
StartCheck(r) ==
    /\ pc[r] = "precheck" \/ (pc[r] = "queued" /\ Running(r))
    /\ LET locals == [mem[r] EXCEPT !.limit = quota, !.replaced = 0] IN
        IF quota = None \/ (job[r].op # "upsert" /\ Adding(r) = 0) THEN Admitted(r, locals)
        ELSE Goto(r, IF job[r].op = "upsert" THEN "replaced" ELSE "used", locals)
    /\ UNCHANGED <<stores, settings, job>>

(* Mutant: the freed size is kept as the growth it leaves. *)
ReadReplacedAsGrowth(r) ==
    /\ pc[r] = "replaced"
    /\ Goto(r, "used", [mem[r] EXCEPT !.replaced = SizeOf(rows[Target(r)]) - Adding(r)])
    /\ UNCHANGED <<stores, settings, job>>

(* The size an upsert frees; a write no larger than that is always allowed.  *)
ReadReplaced(r) ==
    /\ pc[r] = "replaced"
    /\ LET locals == [mem[r] EXCEPT !.replaced = SizeOf(rows[Target(r)])] IN
        IF Adding(r) <= locals.replaced THEN Admitted(r, locals) ELSE Goto(r, "used", locals)
    /\ UNCHANGED <<stores, settings, job>>

(* Mutant: the size being added is left out of the check. *)
FitsAlready(r) == UsedBytes - mem[r].replaced <= mem[r].limit

Fits(r) == UsedBytes - mem[r].replaced + Adding(r) <= mem[r].limit

ReadUsed(r) ==
    /\ pc[r] = "used"
    /\ IF Fits(r) THEN Admitted(r, mem[r]) ELSE Finish(r, "failed")
    /\ UNCHANGED <<stores, settings, job>>

(* setQuota persists the value, then puts it in force.                       *)
SaveQuota ==
    /\ saved = quota
    /\ saved' \in QuotaChoices
    /\ UNCHANGED <<stores, quota, chain, pc, job, mem>>

ApplyQuota ==
    /\ quota' = saved
    /\ UNCHANGED <<stores, saved, chain, pc, job, mem>>

----------------------------------------------------------------------------
(* persistObject, and the same two steps of a copy.                          *)

Inserted(r) ==
    IF job[r].op = "copy" THEN [id |-> r, meta |-> rows[job[r].src].meta]
    ELSE [id |-> IF rows[Target(r)] = None THEN r ELSE rows[Target(r)].id, meta |-> mem[r].buf]

(* Mutant: no unique constraint on (bucket_id, name). *)
InsertRowAnyway(r) ==
    /\ pc[r] = "insert"
    /\ job[r].op = "copy" => rows[job[r].src] # None
    /\ rows' = [rows EXCEPT ![Target(r)] = Inserted(r)]
    /\ Goto(r, "put", [Fresh EXCEPT !.buf = mem[r].buf, !.id = Inserted(r).id])
    /\ UNCHANGED <<bytes, settings, job>>

(* The insert: only an upsert may meet an existing row, whose id it keeps,   *)
(* and a copy takes its metadata from the row the source has by now.  The    *)
(* locals of checkQuota are gone.                                            *)
InsertRow(r) ==
    /\ pc[r] = "insert"
    /\ rows[Target(r)] # None => job[r].op = "upsert"
    /\ job[r].op = "copy" => rows[job[r].src] # None
    /\ rows' = [rows EXCEPT ![Target(r)] = Inserted(r)]
    /\ Goto(r, "put", [Fresh EXCEPT !.buf = mem[r].buf, !.id = Inserted(r).id])
    /\ UNCHANGED <<bytes, settings, job>>

(* A duplicate key, a copy whose source is gone, or row-level security.      *)
InsertRefused(r) ==
    /\ pc[r] = "insert"
    /\ Finish(r, "failed")
    /\ UNCHANGED <<stores, settings, job>>

PutBytes(r) ==
    /\ pc[r] = "put"
    /\ bytes' = [bytes EXCEPT ![Target(r)] = mem[r].buf]
    /\ Finish(r, "ok")
    /\ UNCHANGED <<rows, settings, job>>

(* The driver fails, before it touched the file or half way through it.      *)
DriverFails(k) ==
    \/ "put" \in Faults /\ UNCHANGED bytes
    \/ "torn" \in Faults /\ bytes' = [bytes EXCEPT ![k] = Torn]

PutFails(r) ==
    /\ pc[r] = "put"
    /\ DriverFails(Target(r))
    /\ Goto(r, "undo", mem[r])
    /\ UNCHANGED <<rows, settings, job>>

(* delete from storage.objects where id = ..., wherever the row is by now.   *)
UndoRow(r) ==
    /\ pc[r] = "undo"
    /\ rows' = [k \in Keys |-> IF rows[k] # None /\ rows[k].id = mem[r].id THEN None ELSE rows[k]]
    /\ Finish(r, "failed")
    /\ UNCHANGED <<bytes, settings, job>>

----------------------------------------------------------------------------
(* removeOne, removeObjects and emptyBucket: the rows in one statement, then *)
(* the bytes of the deleted rows one after the other.                        *)

RemoveRows(r) ==
    /\ pc[r] = "removeRows"
    /\ \E gone \in SUBSET {k \in {job[r].src, job[r].dst} : rows[k] # None} :
        /\ rows' = [k \in Keys |-> IF k \in gone THEN None ELSE rows[k]]
        /\ IF gone = {} THEN Finish(r, "failed") ELSE Goto(r, "erase", [Fresh EXCEPT !.left = gone])
    /\ UNCHANGED <<bytes, settings, job>>

EraseBytes(r) ==
    /\ pc[r] = "erase"
    /\ \E k \in mem[r].left :
        /\ bytes' = [bytes EXCEPT ![k] = None]
        /\ IF mem[r].left = {k} THEN Finish(r, "ok")
           ELSE Goto(r, "erase", [mem[r] EXCEPT !.left = @ \ {k}])
    /\ UNCHANGED <<rows, settings, job>>

----------------------------------------------------------------------------
(* moveOrCopy.                                                               *)

ReadSource(r) ==
    /\ pc[r] = "readSource"
    /\ IF bytes[job[r].src] = None THEN Finish(r, "failed")
       ELSE Goto(r, IF job[r].op = "move" THEN "putDst" ELSE "enter",
                    [Fresh EXCEPT !.buf = bytes[job[r].src]])
    /\ UNCHANGED <<stores, settings, job>>

(* A move writes the destination's bytes before it renames the row.          *)
PutDst(r) ==
    /\ pc[r] = "putDst"
    /\ \/ /\ bytes' = [bytes EXCEPT ![Target(r)] = mem[r].buf]
          /\ Goto(r, "rename", mem[r])
       \/ /\ DriverFails(Target(r))
          /\ Finish(r, "failed")
    /\ UNCHANGED <<rows, settings, job>>

(* The update: a row at the destination is a duplicate key, unless the row   *)
(* is moved onto itself.                                                     *)
RenameRow(r) ==
    /\ pc[r] = "rename"
    /\ LET src == job[r].src
           dst == job[r].dst
       IN /\ rows[src] # None
          /\ rows[dst] = None \/ src = dst
          /\ rows' = [rows EXCEPT ![src] = None, ![dst] = rows[src]]
    /\ Goto(r, "dropSrc", mem[r])
    /\ UNCHANGED <<bytes, settings, job>>

(* No row to move, a duplicate key, or row-level security.                   *)
RenameRefused(r) ==
    /\ pc[r] = "rename"
    /\ Goto(r, "dropDst", mem[r])
    /\ UNCHANGED <<stores, settings, job>>

DropDst(r) ==
    /\ pc[r] = "dropDst"
    /\ bytes' = [bytes EXCEPT ![Target(r)] = None]
    /\ Finish(r, "failed")
    /\ UNCHANGED <<rows, settings, job>>

DropSrc(r) ==
    /\ pc[r] = "dropSrc"
    /\ bytes' = [bytes EXCEPT ![job[r].src] = None]
    /\ Finish(r, "ok")
    /\ UNCHANGED <<rows, settings, job>>

----------------------------------------------------------------------------
(* The process dies and starts again: loadQuota reads the persisted quota,   *)
(* rows and bytes are what they were.                                        *)
Restart ==
    /\ "crash" \in Faults
    /\ InFlight # {}
    /\ pc' = [r \in Reqs |-> IF pc[r] \in Steps THEN "lost" ELSE pc[r]]
    /\ chain' = <<>>
    /\ quota' = saved
    /\ UNCHANGED <<stores, saved, job, mem>>

Advance(r) ==
    \/ Enter(r) \/ StartCheck(r) \/ ReadReplaced(r) \/ ReadUsed(r)
    \/ InsertRow(r) \/ InsertRefused(r) \/ PutBytes(r) \/ PutFails(r) \/ UndoRow(r)
    \/ RemoveRows(r) \/ EraseBytes(r)
    \/ ReadSource(r) \/ PutDst(r) \/ RenameRow(r) \/ RenameRefused(r) \/ DropDst(r) \/ DropSrc(r)

Next ==
    \/ \E r \in Reqs : Begin(r) \/ Advance(r)
    \/ SaveQuota
    \/ ApplyQuota
    \/ Restart

Spec == Init /\ [][Next]_vars

(* Every query and every driver call of a request settles.                   *)
FairSpec == Spec /\ \A r \in Reqs : WF_vars(Advance(r))

----------------------------------------------------------------------------
(* Properties.                                                               *)

(* A write that enlarges the stored total ends within the quota its own      *)
(* check was made against, however the checks and inserts of other writes    *)
(* interleave with it.                                                       *)
GrowthWithinCheckedQuota ==
    [][UsedBytes' > UsedBytes =>
        \E r \in Reqs : /\ pc[r] = "insert" /\ pc'[r] = "put"
                        /\ mem[r].limit = None \/ UsedBytes' <= mem[r].limit]_vars

(* An object whose row no write is working on has the bytes its row          *)
(* describes: a download never finds the row and misses the bytes.           *)
Settling(k) == \E r \in Reqs : pc[r] \in {"put", "undo"} /\ Target(r) = k
RowsMatchBytes ==
    \A k \in Keys : rows[k] # None /\ ~Settling(k) => bytes[k] = rows[k].meta

(* Where nothing overwrites or removes objects, an upload or a copy that was *)
(* answered stays stored, row and bytes, whatever other writes fail beside   *)
(* it and however their rollbacks interleave with it.                        *)
AnsweredWriteKept ==
    \A r \in Reqs : pc[r] = "ok" =>
        /\ rows[Target(r)] # None /\ rows[Target(r)].id = r
        /\ bytes[Target(r)] # None
        /\ job[r].op = "upload" => bytes[Target(r)].by = r

(* While a quota is set, at most one write is between its check and its      *)
(* answer, whatever failed or crashed before it.                             *)
Persisting(r) == pc[r] \in {"insert", "put", "undo"}
OneWriteAtATime == \A r, q \in Reqs : Persisting(r) /\ Persisting(q) => r = q

(* Every request is answered: a failed write never blocks the chain.         *)
EveryRequestAnswered == \A r \in Reqs : pc[r] \in Steps ~> pc[r] \in Outcomes

(* What a client sees of the two stores is one store in which every request  *)
(* takes effect at once: an object is there when it has a row and bytes.     *)
Visible == [k \in Keys |-> IF rows[k] = None THEN None ELSE bytes[k]]
Answer == [r \in Reqs |-> CASE pc[r] \in {"ok", "erase"} -> "ok"
                            [] pc[r] = "failed" -> "failed"
                            [] OTHER -> "none"]
Store == INSTANCE ObjectStore WITH object <- Visible, call <- job, answer <- Answer
BehavesAsOneStore == Store!StoreSpec

============================================================================
