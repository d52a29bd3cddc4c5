------------------------------ MODULE Migrations ------------------------------
(***************************************************************************)
(* Migrations, the seed file, and the snapshot that says whether a database  *)
(* still holds only what those files put into it.  A server runs them when it *)
(* starts and again for each migrate call, calls may overlap, and another     *)
(* process can ask for the state of the database at any time.  A fingerprint  *)
(* is many queries: tables are read one after the other, the shape last.      *)
(* The subset engine, which takes no snapshots, is left out.                  *)
(***************************************************************************)
EXTENDS Integers, Sequences

CONSTANTS
    Runs,           \* starts, migrate calls and checks, each made at most once
    NFiles,         \* migration files, numbered in the order of their versions
    NTables,        \* tables that hold rows of the app
    MaxFaults,      \* queries and migrations that fail
    None            \* no snapshot, no failed migration

ASSUME FilesAssumption == NFiles \in Nat \ {0}
ASSUME TablesAssumption == NTables \in Nat \ {0}
ASSUME FaultsAssumption == MaxFaults \in Nat

VARIABLES
    ledger,         \* schema_migrations, in the order of the commits
    rows,           \* what each table of the app holds
    snap,           \* seed_snapshot: state and fingerprint
    failure,        \* Database.migrationFailure
    server,         \* what the process does
    run,            \* the progress of each run
    faults,         \* how many so far
    during,         \* history: the tables users have written to while each run was under way
    folded,         \* history: those of the runs that took a snapshot
    plain           \* history: nobody but undisturbed, successful runs, one at a time, has written

vars == <<ledger, rows, snap, failure, server, run, faults, during, folded, plain>>
history == <<during, folded, plain>>

Files == 1 .. NFiles
Tables == 1 .. NTables
Content == {"seed", "user"}
Goals == {"empty", "baseline", "check", "record"}
Steps == {"init", "count", "row", "scan", "record", "diverge", "seen", "apply",
          "pending", "seedSeen", "seed", "finish"}
Prints == [tables : [Tables -> SUBSET Content], shape : SUBSET Files]
Reads == {s \in Seq(SUBSET Content) : Len(s) <= NTables}
Run == [pc : {"idle", "done"} \cup Steps, op : {"start", "migrate", "check"}, upTo : Files, seed : BOOLEAN,
        at : 1 .. NFiles + 1, read : Reads,
        goal : Goals, base : Prints \cup {None}, wasPristine : BOOLEAN, applied : BOOLEAN]
NotBegun == [pc |-> "idle", op |-> "check", upTo |-> 1, seed |-> FALSE, at |-> 1, read |-> <<>>,
             goal |-> "check", base |-> None, wasPristine |-> FALSE, applied |-> FALSE]

Recorded == {ledger[n] : n \in DOMAIN ledger}
Seeded == \E t \in Tables : "seed" \in rows[t]
Contents == [tables |-> rows, shape |-> Recorded]
UnderWay(p) == run[p].pc \in Steps
Opening(p) == run[p].goal \in {"empty", "baseline"} /\ run[p].pc # "row"
Quiet == \A p \in Runs : ~UnderWay(p)

TypeOK ==
    /\ ledger \in Seq(Files)
    /\ rows \in [Tables -> SUBSET Content]
    /\ snap \in [state : {"unknown", "diverged"}, print : {None}] \cup [state : {"pristine"}, print : Prints]
    /\ failure \in Files \cup {None}
    /\ server \in {"down", "starting", "serving"}
    /\ run \in [Runs -> Run]
    /\ faults \in 0 .. MaxFaults
    /\ during \in [Runs -> SUBSET Tables] /\ folded \in SUBSET Tables
    /\ plain \in BOOLEAN

Init ==
    /\ ledger = <<>>
    /\ rows = [t \in Tables |-> {}]
    /\ snap = [state |-> "unknown", print |-> None]
    /\ failure = None
    /\ server = "down"
    /\ run = [p \in Runs |-> NotBegun]
    /\ faults = 0
    /\ during = [p \in Runs |-> {}] /\ folded = {} /\ plain = TRUE

Ended == [NotBegun EXCEPT !.pc = "done"]
Update(p, progress) == run' = [run EXCEPT ![p] = progress]
Goto(p, step) == Update(p, IF step = "done" THEN Ended ELSE [run[p] EXCEPT !.pc = step])
Scan(p, goal) == Update(p, [run[p] EXCEPT !.pc = "scan", !.goal = goal, !.read = <<>>])

(* A start or a migrate call ends; a start that ends well serves.            *)
Done(p) ==
    /\ Goto(p, "done")
    /\ server' = IF run[p].op = "start" THEN "serving" ELSE server

(* It throws: the caller of a migrate call is told; a start that fails closes *)
(* the database again.                                                       *)
Throw(p) ==
    /\ Goto(p, "done")
    /\ IF run[p].op = "start"
       THEN server' = "down" /\ failure' = None
       ELSE UNCHANGED <<server, failure>>

(* ------------------------------- The callers ---------------------------- *)

Begin(p) ==
    /\ run[p].pc = "idle"
    /\ \E k \in Files, withSeed \in BOOLEAN :
          \/ /\ server = "down" /\ server' = "starting"
             /\ Update(p, [NotBegun EXCEPT !.pc = "init", !.goal = "empty",
                                           !.op = "start", !.upTo = k, !.seed = withSeed])
          \/ /\ server = "serving"
             /\ Update(p, [NotBegun EXCEPT !.pc = "row", !.op = "migrate", !.upTo = k, !.seed = withSeed])
             /\ UNCHANGED server
    /\ plain' = (plain /\ Quiet)
    /\ UNCHANGED <<ledger, rows, snap, failure, faults, during, folded>>

(* `db pristine`, in a process of its own with a connection of its own.       *)
Ask(p) ==
    /\ run[p].pc = "idle"
    /\ Update(p, [NotBegun EXCEPT !.pc = "row"])
    /\ plain' = (plain /\ Quiet)
    /\ UNCHANGED <<ledger, rows, snap, failure, server, faults, during, folded>>

UserWrite ==
    /\ server = "serving"
    /\ \E t \in Tables :
          /\ "user" \notin rows[t]
          /\ rows' = [rows EXCEPT ![t] = @ \cup {"user"}]
          /\ during' = [p \in Runs |-> IF UnderWay(p) /\ run[p].op # "check" THEN during[p] \cup {t} ELSE during[p]]
    /\ plain' = FALSE
    /\ UNCHANGED <<ledger, snap, failure, server, run, faults, folded>>

Crash ==
    /\ server # "down"
    /\ server' = "down" /\ failure' = None
    /\ run' = [p \in Runs |-> IF UnderWay(p) /\ run[p].op # "check" THEN Ended ELSE run[p]]
    /\ plain' = (plain /\ Quiet)
    /\ UNCHANGED <<ledger, rows, snap, faults, during, folded>>

(* ------------------------------- The snapshot --------------------------- *)

(* A database without a snapshot gets one when it is first opened: a baseline *)
(* if it is empty.                                                           *)
InitSnapshot(p) ==
    /\ \/ /\ run[p].pc = "init"
          /\ Goto(p, IF snap.state = "unknown" THEN "count" ELSE "row")
       \/ /\ run[p].pc = "count"
          /\ IF ledger = <<>> /\ ~Seeded THEN Scan(p, "empty") ELSE Goto(p, "diverge")
    /\ UNCHANGED <<ledger, rows, snap, failure, server, faults, history>>

ReadTable(p) ==
    /\ run[p].pc = "scan" /\ Len(run[p].read) < NTables
    /\ Update(p, [run[p] EXCEPT !.read = Append(@, rows[Len(@) + 1])])
    /\ UNCHANGED <<ledger, rows, snap, failure, server, faults, history>>

Whole(p) == [tables |-> run[p].read, shape |-> Recorded]

(* The check has its answer: a run goes on with it, a question is answered.   *)
Verdict(p, pristine) ==
    Update(p, IF run[p].op = "check" THEN Ended
              ELSE [run[p] EXCEPT !.pc = "seen", !.wasPristine = pristine,
                                  !.goal = "check", !.read = <<>>, !.base = None])

CheckRow(p) ==
    /\ run[p].pc = "row"
    /\ IF snap.state = "pristine"
       THEN Update(p, [run[p] EXCEPT !.pc = "scan", !.goal = "check", !.read = <<>>, !.base = snap.print])
       ELSE Verdict(p, FALSE)
    /\ UNCHANGED <<ledger, rows, snap, failure, server, faults, history>>

(* The last query of a fingerprint, and what it is compared with.            *)
ReadShape(p) ==
    /\ run[p].pc = "scan" /\ Len(run[p].read) = NTables
    /\ CASE run[p].goal = "empty" ->
              IF \A t \in Tables : run[p].read[t] = {} THEN Scan(p, "baseline") ELSE Goto(p, "diverge")
         [] run[p].goal = "check" ->
              IF Whole(p) = run[p].base THEN Verdict(p, TRUE) ELSE Goto(p, "diverge")
         [] OTHER -> Update(p, [run[p] EXCEPT !.pc = "record", !.base = Whole(p)])
    /\ UNCHANGED <<ledger, rows, snap, failure, server, faults, history>>

(* The first baseline is taken while the database is opened, a later one is   *)
(* the last thing a run does.                                                *)
Record(p) ==
    /\ run[p].pc = "record"
    /\ snap' = [state |-> "pristine", print |-> run[p].base]
    /\ folded' = folded \cup during[p]
    /\ IF Opening(p) THEN Goto(p, "row") /\ UNCHANGED server ELSE Done(p)
    /\ UNCHANGED <<ledger, rows, failure, faults, during, plain>>

Diverge(p) ==
    /\ run[p].pc = "diverge"
    /\ snap' = [state |-> "diverged", print |-> None]
    /\ IF Opening(p) THEN Goto(p, "row") ELSE Verdict(p, FALSE)
    /\ UNCHANGED <<ledger, rows, failure, server, faults, history>>

(* ------------------------------- The migrations ------------------------- *)

(* Mutant: goes one file too far.                                            *)
LookUpPastEnd(p) ==
    /\ run[p].pc = "seen"
    /\ IF run[p].at > run[p].upTo + 1
       THEN /\ failure' = None
            /\ Goto(p, "seedSeen")
       ELSE /\ IF run[p].at \in Recorded THEN Update(p, [run[p] EXCEPT !.at = @ + 1]) ELSE Goto(p, "apply")
            /\ UNCHANGED failure
    /\ UNCHANGED <<ledger, rows, snap, server, faults, history>>

(* The next file that is not in the ledger; after the last one the failure of *)
(* an earlier run is forgotten.                                              *)
LookUp(p) ==
    /\ run[p].pc = "seen"
    /\ IF run[p].at > run[p].upTo
       THEN /\ failure' = None
            /\ Goto(p, "seedSeen")
       ELSE /\ IF run[p].at \in Recorded THEN Update(p, [run[p] EXCEPT !.at = @ + 1]) ELSE Goto(p, "apply")
            /\ UNCHANGED failure
    /\ UNCHANGED <<ledger, rows, snap, server, faults, history>>

(* Mutant: the version is not a key of the ledger.                           *)
ApplyTwice(p) ==
    /\ run[p].pc = "apply"
    /\ ledger' = Append(ledger, run[p].at)
    /\ Update(p, [run[p] EXCEPT !.pc = "seen", !.at = @ + 1, !.applied = TRUE])
    /\ UNCHANGED <<rows, snap, failure, server, faults, history>>

(* One transaction runs the file and records its version, which is unique.   *)
Apply(p) ==
    /\ run[p].pc = "apply"
    /\ IF run[p].at \in Recorded
       THEN Goto(p, "pending") /\ UNCHANGED ledger
       ELSE /\ ledger' = Append(ledger, run[p].at)
            /\ Update(p, [run[p] EXCEPT !.pc = "seen", !.at = @ + 1, !.applied = TRUE])
    /\ UNCHANGED <<rows, snap, failure, server, faults, history>>

(* A migration failed, and those that wait for it have been counted: a start  *)
(* goes on without them, a call throws.                                      *)
Report(p) ==
    /\ run[p].pc = "pending"
    /\ failure' = run[p].at
    /\ Goto(p, IF run[p].op = "start" THEN "seedSeen" ELSE "done")
    /\ plain' = (plain /\ run[p].op = "start")
    /\ UNCHANGED <<ledger, rows, snap, server, faults, during, folded>>

SeedSeen(p) ==
    /\ run[p].pc = "seedSeen"
    /\ Goto(p, IF run[p].seed /\ ~Seeded THEN "seed" ELSE "finish")
    /\ UNCHANGED <<ledger, rows, snap, failure, server, faults, history>>

(* Mutant: takes a snapshot whatever the database held before.               *)
FinishSnapped(p) ==
    /\ run[p].pc = "finish"
    /\ IF run[p].applied
       THEN Scan(p, "record") /\ UNCHANGED server
       ELSE Done(p)
    /\ UNCHANGED <<ledger, rows, snap, failure, faults, history>>

(* The seed and its hash, in one transaction.  One beside it that also found  *)
(* no hash repeats it, or fails on the rows.                                 *)
Seed(p) ==
    /\ run[p].pc = "seed"
    /\ rows' = [t \in Tables |-> rows[t] \cup {"seed"}]
    /\ \E repeated \in BOOLEAN :
          Update(p, [run[p] EXCEPT !.pc = "finish", !.applied = @ \/ ~Seeded \/ repeated])
    /\ UNCHANGED <<ledger, snap, failure, server, faults, history>>

Finish(p) ==
    /\ run[p].pc = "finish"
    /\ IF run[p].applied /\ run[p].wasPristine
       THEN Scan(p, "record") /\ UNCHANGED server
       ELSE Done(p)
    /\ UNCHANGED <<ledger, rows, snap, failure, faults, history>>

(* A query fails, or a migration or the seed does.  Opening the database and  *)
(* taking a snapshot only warn, a check that fails counts as not pristine,    *)
(* and a failed seed is left for the next run.                               *)
Fault(p) ==
    /\ UnderWay(p) /\ faults < MaxFaults
    /\ faults' = faults + 1
    /\ \/ /\ Opening(p)
          /\ Goto(p, "row") /\ plain' = FALSE /\ UNCHANGED <<server, failure>>
       \/ /\ run[p].pc = "row" \/ (run[p].goal = "check" /\ run[p].pc \in {"scan", "diverge"})
          /\ Verdict(p, FALSE) /\ plain' = FALSE /\ UNCHANGED <<server, failure>>
       \/ /\ run[p].pc \in {"seen", "pending", "seedSeen"} \/ (run[p].pc = "finish" /\ run[p].applied)
          /\ Throw(p) /\ plain' = FALSE
       \/ /\ run[p].pc = "apply"
          /\ Goto(p, "pending") /\ UNCHANGED <<server, failure, plain>>
       \/ /\ run[p].pc = "seed"
          /\ Goto(p, "finish") /\ UNCHANGED <<server, failure, plain>>
       \/ /\ run[p].goal = "record" /\ run[p].pc \in {"scan", "record"}
          /\ Done(p) /\ plain' = FALSE /\ UNCHANGED failure
    /\ UNCHANGED <<ledger, rows, snap, during, folded>>

Next ==
    \/ UserWrite \/ Crash
    \/ \E p \in Runs :
          \/ Begin(p) \/ Ask(p)
          \/ InitSnapshot(p) \/ ReadTable(p) \/ CheckRow(p) \/ ReadShape(p) \/ Record(p) \/ Diverge(p)
          \/ LookUp(p) \/ Apply(p) \/ Report(p) \/ SeedSeen(p) \/ Seed(p) \/ Finish(p)
          \/ Fault(p)

Spec == Init /\ [][Next]_vars

(* ------------------------------- Properties ----------------------------- *)

(* Runs overlap, fail and are cut short, yet every migration is committed     *)
(* once, and none before an earlier one that failed: the ledger lists the     *)
(* files in the order of their versions.                                     *)
AppliedOnceInOrder == \A n \in DOMAIN ledger : ledger[n] = n

(* A baseline never holds what users wrote while no run was under way that    *)
(* took one: a host may drop a database that matches its baseline, and loses  *)
(* at most what was written beside a run.                                    *)
BaselineUntouched ==
    snap.state = "pristine" => \A t \in Tables : "user" \in snap.print.tables[t] => t \in folded

(* A database that only starts and migrate calls have written to, one after   *)
(* the other, matches its baseline when they are done: also when a file       *)
(* failed in a start, or the seed did.                                       *)
FilesAlonePristine ==
    plain /\ Quiet /\ server = "serving" => snap = [state |-> "pristine", print |-> Contents]

(* What `db pristine` says can be acted upon.                                *)
BaselineHonest == BaselineUntouched /\ FilesAlonePristine

==============================================================================
