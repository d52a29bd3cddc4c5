--------------------------- MODULE MigrationsProofs ---------------------------
(***************************************************************************)
(* What holds of migrations and of the snapshot for any number of files,     *)
(* tables, overlapping runs and faults.                                      *)
(***************************************************************************)
EXTENDS Migrations, SequenceTheorems, TLAPS

(* ---------------------------- What a step writes ------------------------ *)

Others(p) == \A q \in Runs \ {p} : run'[q] = run[q]

LEMMA NothingRead == <<>> \in Reads /\ <<>> \in Seq(SUBSET Content) /\ Len(<<>>) = 0
BY EmptySeq, TablesAssumption DEF Reads

LEMMA NotBegunTyped == NotBegun \in Run /\ Ended \in Run
<1>1. NotBegun \in Run
    BY NothingRead, FilesAssumption DEF NotBegun, Run, Files, Goals
<1>. QED BY <1>1 DEF Ended, Run

LEMMA RunFields ==
    ASSUME NEW r \in Run
    PROVE  /\ r.pc \in {"idle", "done"} \cup Steps /\ r.op \in {"start", "migrate", "check"}
           /\ r.upTo \in Files /\ r.seed \in BOOLEAN /\ r.at \in 1 .. NFiles + 1
           /\ r.read \in Seq(SUBSET Content) /\ Len(r.read) <= NTables
           /\ r.goal \in Goals /\ r.base \in Prints \cup {None}
           /\ r.wasPristine \in BOOLEAN /\ r.applied \in BOOLEAN
BY DEF Run, Reads

LEMMA UpdateRun ==
    ASSUME TypeOK, NEW p \in Runs, NEW s \in Run, Update(p, s)
    PROVE  run' \in [Runs -> Run] /\ run'[p] = s /\ Others(p)
BY DEF TypeOK, Update, Others

LEMMA UpdateAny ==
    ASSUME TypeOK, NEW p \in Runs, NEW s, Update(p, s)
    PROVE  run'[p] = s /\ Others(p)
BY DEF TypeOK, Update, Others

(* The progress of a run after each kind of step.                            *)
LEMMA StepTyped ==
    ASSUME NEW r \in Run, NEW step \in Steps
    PROVE  [r EXCEPT !.pc = step] \in Run
BY DEF Run

LEMMA ScanTyped ==
    ASSUME NEW r \in Run, NEW goal \in Goals
    PROVE  [r EXCEPT !.pc = "scan", !.goal = goal, !.read = <<>>] \in Run
BY NothingRead DEF Run, Steps

LEMMA VerdictTyped ==
    ASSUME NEW r \in Run, NEW pristine \in BOOLEAN
    PROVE  [r EXCEPT !.pc = "seen", !.wasPristine = pristine,
                     !.goal = "check", !.read = <<>>, !.base = None] \in Run
BY NothingRead DEF Run, Steps, Goals

LEMMA GotoRun ==
    ASSUME TypeOK, NEW p \in Runs, NEW step \in Steps \cup {"done"}, Goto(p, step)
    PROVE  /\ run' \in [Runs -> Run] /\ Others(p)
           /\ step = "done" => run'[p] = Ended
           /\ step # "done" => run'[p] = [run[p] EXCEPT !.pc = step]
<1>1. run[p] \in Run
    BY DEF TypeOK
<1>2. CASE step = "done"
    BY <1>2, NotBegunTyped, UpdateRun DEF Goto
<1>3. CASE step # "done"
    <2>1. [run[p] EXCEPT !.pc = step] \in Run
        BY <1>1, <1>3, StepTyped
    <2>. QED BY <1>3, <2>1, UpdateRun DEF Goto
<1>. QED BY <1>2, <1>3

LEMMA ScanRun ==
    ASSUME TypeOK, NEW p \in Runs, NEW goal \in Goals, Scan(p, goal)
    PROVE  /\ run' \in [Runs -> Run] /\ Others(p)
           /\ run'[p] = [run[p] EXCEPT !.pc = "scan", !.goal = goal, !.read = <<>>]
<1>1. [run[p] EXCEPT !.pc = "scan", !.goal = goal, !.read = <<>>] \in Run
    BY ScanTyped DEF TypeOK
<1>. QED BY <1>1, UpdateRun DEF Scan

LEMMA VerdictRun ==
    ASSUME TypeOK, NEW p \in Runs, NEW pristine \in BOOLEAN, Verdict(p, pristine)
    PROVE  /\ run' \in [Runs -> Run] /\ Others(p)
           /\ run[p].op = "check" => run'[p] = Ended
           /\ run[p].op # "check" =>
                run'[p] = [run[p] EXCEPT !.pc = "seen", !.wasPristine = pristine,
                                         !.goal = "check", !.read = <<>>, !.base = None]
<1>1. [run[p] EXCEPT !.pc = "seen", !.wasPristine = pristine,
                     !.goal = "check", !.read = <<>>, !.base = None] \in Run
    BY VerdictTyped DEF TypeOK
<1>2. CASE run[p].op = "check"
    BY <1>2, NotBegunTyped, UpdateRun DEF Verdict
<1>3. CASE run[p].op # "check"
    BY <1>1, <1>3, UpdateRun DEF Verdict
<1>. QED BY <1>2, <1>3

LEMMA ReadRun ==
    ASSUME TypeOK, NEW p \in Runs, ReadTable(p)
    PROVE  /\ run' \in [Runs -> Run] /\ Others(p)
           /\ Len(run[p].read) + 1 \in Tables
           /\ run'[p] = [run[p] EXCEPT !.read = Append(@, rows[Len(@) + 1])]
<1> DEFINE r == run[p]
<1>1. r \in Run /\ Len(r.read) < NTables
    BY DEF TypeOK, ReadTable
<1>2. r.read \in Seq(SUBSET Content) /\ Len(r.read) \in Nat
    BY <1>1, RunFields, LenProperties
<1>3. Len(r.read) + 1 \in Tables
    BY <1>1, <1>2, TablesAssumption DEF Tables
<1>4. rows[Len(r.read) + 1] \in SUBSET Content
    BY <1>3 DEF TypeOK
<1>5. Append(r.read, rows[Len(r.read) + 1]) \in Reads
    BY <1>1, <1>2, <1>4, AppendProperties, TablesAssumption DEF Reads
<1>6. [r EXCEPT !.read = Append(@, rows[Len(@) + 1])] \in Run
    BY <1>1, <1>5 DEF Run
<1>. QED BY <1>3, <1>6, UpdateRun DEF ReadTable

LEMMA WholeTyped ==
    ASSUME TypeOK, NEW p \in Runs, Len(run[p].read) = NTables
    PROVE  Whole(p) \in Prints
<1>1. run[p].read \in [Tables -> SUBSET Content]
    BY RunFields, LenProperties DEF TypeOK, Tables
<1>2. Recorded \in SUBSET Files
    BY ElementOfSeq, LenProperties DEF TypeOK, Recorded
<1>. QED BY <1>1, <1>2 DEF Whole, Prints

(* ------------------------------- The type ------------------------------- *)

(* What each step of a run knows about it.                                   *)
Fits(r) ==
    /\ r.pc \in {"apply", "pending"} => r.at <= r.upTo
    /\ r.pc = "record" => r.base \in Prints
    /\ r.op = "check" => r.pc \in {"idle", "done", "row", "scan", "diverge"} /\ r.goal = "check"
    /\ r.goal = "record" => r.wasPristine /\ r.pc \in {"scan", "record"}
    /\ r.pc \in {"init", "count"} => r.goal = "empty"
    /\ r.pc \in {"seen", "apply", "pending", "seedSeen", "seed", "finish"} => r.goal = "check"
    /\ r.pc = "record" => r.goal # "check"

AllFit == \A p \in Runs : Fits(run[p])

LEMMA TypeInit == Init => TypeOK /\ AllFit
<1> SUFFICES ASSUME Init PROVE TypeOK /\ AllFit
    OBVIOUS
<1>1. <<>> \in Seq(Files)
    BY EmptySeq
<1>2. AllFit
    BY DEF Init, AllFit, Fits, NotBegun
<1>. QED BY <1>1, <1>2, NotBegunTyped, FaultsAssumption DEF Init, TypeOK, Content

LEMMA FitsEnded == Fits(Ended)
BY DEF Fits, Ended, NotBegun

(* The run of p goes on, and nothing but the run, the failure and the server  *)
(* may change.                                                               *)
LEMMA RunTyped ==
    ASSUME TypeOK, AllFit, NEW p \in Runs, run' \in [Runs -> Run], Others(p), Fits(run'[p]),
           UNCHANGED <<ledger, rows, snap, during, folded>>,
           failure' \in Files \cup {None}, server' \in {"down", "starting", "serving"},
           faults' \in 0 .. MaxFaults, plain' \in BOOLEAN
    PROVE  TypeOK' /\ AllFit'
BY DEF TypeOK, AllFit, Others

LEMMA DoneTyped ==
    ASSUME TypeOK, NEW p \in Runs, Done(p)
    PROVE  /\ run' \in [Runs -> Run] /\ Others(p) /\ run'[p] = Ended /\ Fits(run'[p])
           /\ server' \in {"down", "starting", "serving"}
BY GotoRun, FitsEnded DEF Done, TypeOK

LEMMA ThrowTyped ==
    ASSUME TypeOK, NEW p \in Runs, Throw(p)
    PROVE  /\ run' \in [Runs -> Run] /\ Others(p) /\ run'[p] = Ended /\ Fits(run'[p])
           /\ server' \in {"down", "starting", "serving"} /\ failure' \in Files \cup {None}
BY GotoRun, FitsEnded DEF Throw, TypeOK

LEMMA GotoFits ==
    ASSUME TypeOK, AllFit, NEW p \in Runs, NEW step \in Steps, Goto(p, step),
           Fits([run[p] EXCEPT !.pc = step])
    PROVE  run' \in [Runs -> Run] /\ Others(p) /\ run'[p] = [run[p] EXCEPT !.pc = step] /\ Fits(run'[p])
BY GotoRun DEF Steps

LEMMA ScanFits ==
    ASSUME TypeOK, AllFit, NEW p \in Runs, NEW goal \in Goals, Scan(p, goal),
           run[p].op # "check", goal = "record" => run[p].wasPristine
    PROVE  run' \in [Runs -> Run] /\ Others(p) /\ Fits(run'[p])
<1> DEFINE r == run[p]
           s == [r EXCEPT !.pc = "scan", !.goal = goal, !.read = <<>>]
<1>1. r \in Run /\ run'[p] = s
    BY ScanRun DEF TypeOK
<1>2. s.pc = "scan" /\ s.goal = goal /\ s.op = r.op /\ s.wasPristine = r.wasPristine
    BY <1>1 DEF Run
<1>. HIDE DEF s
<1>3. Fits(s)
    BY <1>2 DEF Fits
<1>. QED BY <1>1, <1>3, ScanRun

LEMMA VerdictFits ==
    ASSUME TypeOK, AllFit, NEW p \in Runs, NEW pristine \in BOOLEAN, Verdict(p, pristine)
    PROVE  run' \in [Runs -> Run] /\ Others(p) /\ Fits(run'[p])
<1>1. CASE run[p].op = "check"
    BY <1>1, VerdictRun, FitsEnded
<1>2. CASE run[p].op # "check"
    <2> DEFINE r == run[p]
               s == [r EXCEPT !.pc = "seen", !.wasPristine = pristine,
                              !.goal = "check", !.read = <<>>, !.base = None]
    <2>1. r \in Run /\ run'[p] = s
        BY <1>2, VerdictRun DEF TypeOK
    <2>2. s.pc = "seen" /\ s.goal = "check" /\ s.op = r.op
        BY <2>1 DEF Run
    <2>. HIDE DEF s
    <2>3. Fits(s)
        BY <1>2, <2>2 DEF Fits
    <2>. QED BY <2>1, <2>3, VerdictRun
<1>. QED BY <1>1, <1>2

LEMMA BeginTyped ==
    ASSUME TypeOK, AllFit, NEW p \in Runs, Begin(p)
    PROVE  /\ run' \in [Runs -> Run] /\ Others(p) /\ Fits(run'[p])
           /\ server' \in {"down", "starting", "serving"}
<1>1. PICK k \in Files, withSeed \in BOOLEAN :
          \/ /\ server' = "starting"
             /\ Update(p, [NotBegun EXCEPT !.pc = "init", !.goal = "empty",
                                           !.op = "start", !.upTo = k, !.seed = withSeed])
          \/ /\ Update(p, [NotBegun EXCEPT !.pc = "row", !.op = "migrate", !.upTo = k, !.seed = withSeed])
             /\ UNCHANGED server
    BY DEF Begin
<1> DEFINE starting == [NotBegun EXCEPT !.pc = "init", !.goal = "empty",
                                        !.op = "start", !.upTo = k, !.seed = withSeed]
           calling == [NotBegun EXCEPT !.pc = "row", !.op = "migrate", !.upTo = k, !.seed = withSeed]
<1>2. starting \in Run /\ calling \in Run
    BY NotBegunTyped DEF Run, Steps, Goals
<1>3. Fits(starting) /\ Fits(calling)
    BY NotBegunTyped DEF Fits, Run, NotBegun
<1>. HIDE DEF starting, calling
<1>. QED BY <1>1, <1>2, <1>3, UpdateRun DEF TypeOK, starting, calling

LEMMA AskTyped ==
    ASSUME TypeOK, AllFit, NEW p \in Runs, Ask(p)
    PROVE  run' \in [Runs -> Run] /\ Others(p) /\ Fits(run'[p])
<1> DEFINE asking == [NotBegun EXCEPT !.pc = "row"]
<1>1. asking \in Run /\ Fits(asking)
    BY NotBegunTyped DEF Run, Steps, Fits, NotBegun
<1>. QED BY <1>1, UpdateRun DEF Ask

(* A run goes on to another step and nothing else of it changes.             *)
LEMMA StepFits ==
    ASSUME TypeOK, AllFit, NEW p \in Runs, NEW step \in Steps, Goto(p, step),
           step \in {"apply", "pending"} => run[p].at <= run[p].upTo,
           step # "record", run[p].goal # "record", run[p].op = "check" => step \in {"row", "scan", "diverge"},
           step \in {"init", "count"} => run[p].goal = "empty",
           step \in {"seen", "apply", "pending", "seedSeen", "seed", "finish"} => run[p].goal = "check"
    PROVE  run' \in [Runs -> Run] /\ Others(p) /\ Fits(run'[p])
<1> DEFINE r == run[p]
           s == [r EXCEPT !.pc = step]
<1>1. r \in Run /\ run'[p] = s
    BY GotoRun DEF TypeOK, Steps
<1>2. s.pc = step /\ s.at = r.at /\ s.upTo = r.upTo /\ s.op = r.op /\ s.goal = r.goal
    BY <1>1 DEF Run
<1>. HIDE DEF s
<1>3. Fits(s)
    BY <1>2 DEF Fits, AllFit
<1>. QED BY <1>1, <1>3, GotoRun

LEMMA SnapshotTyped ==
    ASSUME TypeOK, AllFit, NEW p \in Runs,
           InitSnapshot(p) \/ ReadTable(p) \/ CheckRow(p) \/ ReadShape(p)
    PROVE  run' \in [Runs -> Run] /\ Others(p) /\ Fits(run'[p])
<1> DEFINE r == run[p]
<1>0. r \in Run /\ Fits(r)
    BY DEF TypeOK, AllFit
<1>1. CASE InitSnapshot(p)
    <2>1. r.goal = "empty" /\ r.op # "check"
        BY <1>0, <1>1 DEF InitSnapshot, Fits
    <2>2. CASE Scan(p, "empty")
        BY <2>1, <2>2, ScanFits DEF Goals
    <2>3. CASE \E step \in {"count", "row", "diverge"} : Goto(p, step)
        BY <2>1, <2>3, StepFits DEF Steps
    <2>. QED BY <1>1, <2>2, <2>3 DEF InitSnapshot
<1>2. CASE ReadTable(p)
    <2> DEFINE s == [r EXCEPT !.read = Append(@, rows[Len(@) + 1])]
    <2>1. run'[p] = s
        BY <1>2, ReadRun
    <2>2. s.pc = r.pc /\ s.op = r.op /\ s.goal = r.goal /\ s.wasPristine = r.wasPristine
        BY <1>0 DEF Run
    <2>3. r.pc = "scan"
        BY <1>2 DEF ReadTable
    <2>. HIDE DEF s
    <2>4. Fits(s)
        BY <1>0, <2>2, <2>3 DEF Fits
    <2>. QED BY <1>2, <2>1, <2>4, ReadRun
<1>3. CASE CheckRow(p)
    <2>1. CASE Verdict(p, FALSE)
        BY <2>1, VerdictFits
    <2>2. CASE /\ snap.state = "pristine"
               /\ Update(p, [r EXCEPT !.pc = "scan", !.goal = "check", !.read = <<>>, !.base = snap.print])
        <3> DEFINE s == [r EXCEPT !.pc = "scan", !.goal = "check", !.read = <<>>, !.base = snap.print]
        <3>1. snap.print \in Prints
            BY <2>2 DEF TypeOK
        <3>2. s \in Run /\ s.pc = "scan" /\ s.goal = "check" /\ s.op = r.op
            BY <1>0, <3>1, NothingRead DEF Run, Steps, Goals
        <3>. HIDE DEF s
        <3>3. Fits(s)
            BY <3>2 DEF Fits
        <3>4. Update(p, s)
            BY <2>2 DEF s
        <3>. QED BY <3>2, <3>3, <3>4, UpdateRun
    <2>. QED BY <1>3, <2>1, <2>2 DEF CheckRow
<1>4. CASE ReadShape(p)
    <2>1. CASE r.goal = "empty" /\ Scan(p, "baseline")
        BY <1>0, <2>1, ScanFits DEF Goals, Fits
    <2>2. CASE r.goal \in {"empty", "check"} /\ Goto(p, "diverge")
        BY <2>2, StepFits DEF Steps
    <2>3. CASE Verdict(p, TRUE)
        BY <2>3, VerdictFits
    <2>4. CASE /\ r.goal \notin {"empty", "check"} /\ r.pc = "scan" /\ Len(r.read) = NTables
               /\ Update(p, [r EXCEPT !.pc = "record", !.base = Whole(p)])
        <3> DEFINE s == [r EXCEPT !.pc = "record", !.base = Whole(p)]
        <3>1. Whole(p) \in Prints
            BY <2>4, WholeTyped
        <3>2. s \in Run /\ s.pc = "record" /\ s.base = Whole(p) /\ s.op = r.op /\ s.goal = r.goal
                /\ s.wasPristine = r.wasPristine
            BY <1>0, <3>1 DEF Run, Steps
        <3>. HIDE DEF s
        <3>3. Fits(s)
            BY <1>0, <2>4, <3>1, <3>2 DEF Fits
        <3>4. Update(p, s)
            BY <2>4 DEF s
        <3>. QED BY <3>2, <3>3, <3>4, UpdateRun
    <2>. QED BY <1>4, <2>1, <2>2, <2>3, <2>4 DEF ReadShape
<1>. QED BY <1>1, <1>2, <1>3, <1>4

LEMMA MigrationTyped ==
    ASSUME TypeOK, AllFit, NEW p \in Runs,
           LookUp(p) \/ Report(p) \/ SeedSeen(p) \/ Finish(p)
    PROVE  /\ run' \in [Runs -> Run] /\ Others(p) /\ Fits(run'[p])
           /\ failure' \in Files \cup {None} /\ server' \in {"down", "starting", "serving"}
<1> DEFINE r == run[p]
<1>0. r \in Run /\ Fits(r) /\ r.at \in 1 .. NFiles + 1 /\ r.upTo \in Files
    BY RunFields DEF TypeOK, AllFit
<1>1. CASE LookUp(p)
    <2>1. r.pc = "seen" /\ r.goal = "check" /\ r.op # "check" /\ UNCHANGED server
        BY <1>0, <1>1 DEF LookUp, Fits
    <2>2. CASE failure' = None /\ Goto(p, "seedSeen")
        BY <2>1, <2>2, StepFits DEF Steps, TypeOK
    <2>3. CASE r.at <= r.upTo /\ Goto(p, "apply") /\ UNCHANGED failure
        BY <2>1, <2>3, StepFits DEF Steps, TypeOK
    <2>4. CASE r.at <= r.upTo /\ Update(p, [r EXCEPT !.at = @ + 1]) /\ UNCHANGED failure
        <3> DEFINE s == [r EXCEPT !.at = @ + 1]
        <3>1. r.at + 1 \in 1 .. NFiles + 1
            BY <1>0, <2>4, FilesAssumption DEF Files
        <3>2. s \in Run /\ s.pc = r.pc /\ s.op = r.op /\ s.goal = r.goal
            BY <1>0, <3>1 DEF Run
        <3>. HIDE DEF s
        <3>3. Fits(s)
            BY <2>1, <3>2 DEF Fits
        <3>4. Update(p, s)
            BY <2>4 DEF s
        <3>. QED BY <2>1, <2>4, <3>2, <3>3, <3>4, UpdateRun DEF TypeOK
    <2>5. r.at > r.upTo \/ r.at <= r.upTo
        BY <1>0, FilesAssumption DEF Files
    <2>. QED BY <1>1, <2>2, <2>3, <2>4, <2>5 DEF LookUp
<1>2. CASE Report(p)
    <2>1. r.pc = "pending" /\ r.goal = "check" /\ r.op # "check" /\ r.at \in Files
        BY <1>0, <1>2, FilesAssumption DEF Report, Fits, Files
    <2>2. CASE Goto(p, "done")
        BY <1>2, <2>1, <2>2, GotoRun, FitsEnded DEF Report, TypeOK
    <2>3. CASE Goto(p, "seedSeen")
        BY <1>2, <2>1, <2>3, StepFits DEF Report, Steps, TypeOK
    <2>. QED BY <1>2, <2>2, <2>3 DEF Report
<1>3. CASE SeedSeen(p)
    <2>1. r.pc = "seedSeen" /\ r.goal = "check" /\ r.op # "check"
        BY <1>0, <1>3 DEF SeedSeen, Fits
    <2>. QED BY <1>3, <2>1, StepFits DEF SeedSeen, Steps, TypeOK
<1>4. CASE Finish(p)
    <2>1. r.pc = "finish" /\ r.goal = "check" /\ r.op # "check"
        BY <1>0, <1>4 DEF Finish, Fits
    <2>2. CASE r.wasPristine /\ Scan(p, "record") /\ UNCHANGED server
        BY <1>4, <2>1, <2>2, ScanFits DEF Finish, Goals, TypeOK
    <2>3. CASE Done(p)
        BY <1>4, <2>3, DoneTyped DEF Finish, TypeOK
    <2>. QED BY <1>4, <2>2, <2>3 DEF Finish
<1>. QED BY <1>1, <1>2, <1>3, <1>4

LEMMA RecordTyped ==
    ASSUME TypeOK, AllFit, NEW p \in Runs, Record(p)
    PROVE  TypeOK' /\ AllFit'
<1> DEFINE r == run[p]
<1>0. r \in Run /\ Fits(r) /\ r.pc = "record" /\ r.base \in Prints
    BY DEF TypeOK, AllFit, Record, Fits
<1>1. run' \in [Runs -> Run] /\ Others(p) /\ Fits(run'[p]) /\ server' \in {"down", "starting", "serving"}
    <2>1. CASE Opening(p) /\ Goto(p, "row") /\ UNCHANGED server
        BY <1>0, <2>1, StepFits DEF Opening, Steps, TypeOK, Fits
    <2>2. CASE Done(p)
        BY <2>2, DoneTyped
    <2>. QED BY <2>1, <2>2 DEF Record
<1>2. folded' \in SUBSET Tables
    BY DEF Record, TypeOK
<1>. QED BY <1>0, <1>1, <1>2 DEF Record, TypeOK, AllFit, Others

LEMMA DivergeTyped ==
    ASSUME TypeOK, AllFit, NEW p \in Runs, Diverge(p)
    PROVE  TypeOK' /\ AllFit'
<1> DEFINE r == run[p]
<1>0. r \in Run /\ Fits(r) /\ r.pc = "diverge"
    BY DEF TypeOK, AllFit, Diverge
<1>1. run' \in [Runs -> Run] /\ Others(p) /\ Fits(run'[p])
    <2>1. CASE Opening(p) /\ Goto(p, "row")
        BY <1>0, <2>1, StepFits DEF Opening, Steps, Fits
    <2>2. CASE Verdict(p, FALSE)
        BY <2>2, VerdictFits
    <2>. QED BY <2>1, <2>2 DEF Diverge
<1>. QED BY <1>1 DEF Diverge, history, TypeOK, AllFit, Others

LEMMA ApplyTyped ==
    ASSUME TypeOK, AllFit, NEW p \in Runs, Apply(p)
    PROVE  TypeOK' /\ AllFit'
<1> DEFINE r == run[p]
<1>0. r \in Run /\ Fits(r) /\ r.pc = "apply" /\ r.at \in Files /\ r.goal = "check" /\ r.op # "check" /\ r.at <= r.upTo
    <2>1. r \in Run /\ Fits(r) /\ r.pc = "apply" /\ r.at \in 1 .. NFiles + 1 /\ r.upTo \in Files
        BY RunFields DEF TypeOK, AllFit, Apply
    <2>. QED BY <2>1, FilesAssumption DEF Fits, Files
<1>1. CASE Goto(p, "pending") /\ UNCHANGED ledger
    BY <1>0, <1>1, StepFits DEF Apply, history, Steps, TypeOK, AllFit, Others
<1>2. CASE /\ ledger' = Append(ledger, r.at)
           /\ Update(p, [r EXCEPT !.pc = "seen", !.at = @ + 1, !.applied = TRUE])
    <2> DEFINE s == [r EXCEPT !.pc = "seen", !.at = @ + 1, !.applied = TRUE]
    <2>1. r.at + 1 \in 1 .. NFiles + 1
        BY <1>0, FilesAssumption DEF Files
    <2>2. s \in Run /\ s.pc = "seen" /\ s.op = r.op /\ s.goal = r.goal
        BY <1>0, <2>1 DEF Run, Steps
    <2>. HIDE DEF s
    <2>3. Fits(s)
        BY <1>0, <2>2 DEF Fits
    <2>4. Update(p, s)
        BY <1>2 DEF s
    <2>5. run' \in [Runs -> Run] /\ Others(p) /\ Fits(run'[p])
        BY <2>2, <2>3, <2>4, UpdateRun
    <2>6. ledger' \in Seq(Files)
        BY <1>0, <1>2, AppendProperties DEF TypeOK
    <2>. QED BY <2>5, <2>6 DEF Apply, history, TypeOK, AllFit, Others
<1>. QED BY <1>1, <1>2 DEF Apply

LEMMA SeedTyped ==
    ASSUME TypeOK, AllFit, NEW p \in Runs, Seed(p)
    PROVE  TypeOK' /\ AllFit'
<1> DEFINE r == run[p]
<1>0. r \in Run /\ Fits(r) /\ r.pc = "seed" /\ r.goal = "check" /\ r.op # "check" /\ r.applied \in BOOLEAN
    BY RunFields DEF TypeOK, AllFit, Seed, Fits
<1>1. PICK repeated \in BOOLEAN :
         Update(p, [r EXCEPT !.pc = "finish", !.applied = @ \/ ~Seeded \/ repeated])
    BY DEF Seed
<1> DEFINE done == r.applied \/ ~Seeded \/ repeated
           s == [r EXCEPT !.pc = "finish", !.applied = done]
<1>2. done \in BOOLEAN
    OBVIOUS
<1>3. Update(p, s)
    BY <1>0, <1>1 DEF Run
<1>. HIDE DEF done
<1>4. s \in Run /\ s.pc = "finish" /\ s.op = r.op /\ s.goal = r.goal
    BY <1>0, <1>2 DEF Run, Steps
<1>. HIDE DEF s
<1>5. Fits(s)
    BY <1>0, <1>4 DEF Fits
<1>6. run' \in [Runs -> Run] /\ Others(p) /\ Fits(run'[p])
    BY <1>3, <1>4, <1>5, UpdateRun
<1>7. rows' \in [Tables -> SUBSET Content]
    BY DEF Seed, TypeOK, Content
<1>. QED BY <1>6, <1>7 DEF Seed, history, TypeOK, AllFit, Others

LEMMA FaultTyped ==
    ASSUME TypeOK, AllFit, NEW p \in Runs, Fault(p)
    PROVE  TypeOK' /\ AllFit'
<1> DEFINE r == run[p]
<1>0. r \in Run /\ Fits(r) /\ r.pc \in Steps /\ faults' \in 0 .. MaxFaults /\ plain' \in BOOLEAN
        /\ UNCHANGED <<ledger, rows, snap, during, folded>>
    <2>1. r \in Run /\ Fits(r)
        BY DEF TypeOK, AllFit
    <2>2. faults' \in 0 .. MaxFaults
        BY FaultsAssumption DEF TypeOK, Fault
    <2>3. plain' \in {plain, FALSE}
        BY Zenon DEF Fault
    <2>. QED BY <2>1, <2>2, <2>3 DEF Fault, UnderWay, TypeOK
<1>1. CASE Opening(p) /\ Goto(p, "row") /\ UNCHANGED <<server, failure>>
    BY <1>0, <1>1, StepFits, RunTyped DEF Opening, Steps, TypeOK, Fits
<1>2. CASE Verdict(p, FALSE) /\ UNCHANGED <<server, failure>>
    BY <1>0, <1>2, VerdictFits, RunTyped DEF TypeOK
<1>3. CASE Throw(p)
    BY <1>0, <1>3, ThrowTyped, RunTyped
<1>4. CASE r.pc = "apply" /\ Goto(p, "pending") /\ UNCHANGED <<server, failure>>
    BY <1>0, <1>4, StepFits, RunTyped DEF Steps, TypeOK, Fits
<1>5. CASE r.pc = "seed" /\ Goto(p, "finish") /\ UNCHANGED <<server, failure>>
    BY <1>0, <1>5, StepFits, RunTyped DEF Steps, TypeOK, Fits
<1>6. CASE Done(p) /\ UNCHANGED failure
    BY <1>0, <1>6, DoneTyped, RunTyped DEF TypeOK
<1>. QED BY <1>1, <1>2, <1>3, <1>4, <1>5, <1>6 DEF Fault

LEMMA UserTyped ==
    ASSUME TypeOK, AllFit, UserWrite
    PROVE  TypeOK' /\ AllFit'
<1>1. rows' \in [Tables -> SUBSET Content] /\ during' \in [Runs -> SUBSET Tables]
    BY DEF UserWrite, TypeOK, Content
<1>. QED BY <1>1 DEF UserWrite, TypeOK, AllFit

LEMMA CrashTyped ==
    ASSUME TypeOK, AllFit, Crash
    PROVE  TypeOK' /\ AllFit'
<1>1. run' \in [Runs -> Run] /\ \A p \in Runs : run'[p] \in {run[p], Ended}
    BY NotBegunTyped DEF Crash, TypeOK
<1>2. AllFit'
    BY <1>1, FitsEnded DEF AllFit
<1>. QED BY <1>1, <1>2 DEF Crash, TypeOK

LEMMA TypeNext == TypeOK /\ AllFit /\ [Next]_vars => TypeOK' /\ AllFit'
<1> SUFFICES ASSUME TypeOK, AllFit, [Next]_vars PROVE TypeOK' /\ AllFit'
    OBVIOUS
<1> USE FaultsAssumption
<1>1. CASE UserWrite
    BY <1>1, UserTyped
<1>2. CASE Crash
    BY <1>2, CrashTyped
<1>3. ASSUME NEW p \in Runs, Begin(p) PROVE TypeOK' /\ AllFit'
    BY <1>3, BeginTyped, RunTyped DEF Begin, TypeOK
<1>4. ASSUME NEW p \in Runs, Ask(p) PROVE TypeOK' /\ AllFit'
    BY <1>4, AskTyped, RunTyped DEF Ask, TypeOK
<1>5. ASSUME NEW p \in Runs, InitSnapshot(p) \/ ReadTable(p) \/ CheckRow(p) \/ ReadShape(p) PROVE TypeOK' /\ AllFit'
    BY <1>5, SnapshotTyped, RunTyped DEF InitSnapshot, ReadTable, CheckRow, ReadShape, history, TypeOK
<1>6. ASSUME NEW p \in Runs, LookUp(p) \/ Report(p) \/ SeedSeen(p) \/ Finish(p) PROVE TypeOK' /\ AllFit'
    BY <1>6, MigrationTyped, RunTyped DEF LookUp, Report, SeedSeen, Finish, history, TypeOK
<1>7. ASSUME NEW p \in Runs, Record(p) PROVE TypeOK' /\ AllFit'
    BY <1>7, RecordTyped
<1>8. ASSUME NEW p \in Runs, Diverge(p) PROVE TypeOK' /\ AllFit'
    BY <1>8, DivergeTyped
<1>9. ASSUME NEW p \in Runs, Apply(p) PROVE TypeOK' /\ AllFit'
    BY <1>9, ApplyTyped
<1>10. ASSUME NEW p \in Runs, Seed(p) PROVE TypeOK' /\ AllFit'
    BY <1>10, SeedTyped
<1>11. ASSUME NEW p \in Runs, Fault(p) PROVE TypeOK' /\ AllFit'
    BY <1>11, FaultTyped
<1>12. CASE UNCHANGED vars
    BY <1>12 DEF vars, TypeOK, AllFit
<1>. QED BY <1>1, <1>2, <1>3, <1>4, <1>5, <1>6, <1>7, <1>8, <1>9, <1>10, <1>11, <1>12 DEF Next

(* The ledger, the snapshot and the progress of every run keep their form.   *)
THEOREM MigrationsTypeOK == Spec => []TypeOK
BY TypeInit, TypeNext, PTL DEF Spec

(* ------------------------------- The ledger ----------------------------- *)

(* Every run looks at a file only when all earlier ones are in the ledger.   *)
OrderInv == AppliedOnceInOrder /\ \A p \in Runs : run[p].at <= Len(ledger) + 1

LEMMA OrderInit == Init => OrderInv
BY EmptySeq DEF Init, OrderInv, AppliedOnceInOrder, NotBegun

LEMMA OrderKept ==
    ASSUME TypeOK, OrderInv, UNCHANGED ledger,
           \A q \in Runs : run'[q].at \in {run[q].at, 1}
    PROVE  OrderInv'
<1>1. Len(ledger) \in Nat
    BY LenProperties DEF TypeOK
<1>. QED BY <1>1 DEF OrderInv, AppliedOnceInOrder

LEMMA EndedAt == Ended.at = 1 /\ NotBegun.at = 1
BY DEF Ended, NotBegun

LEMMA GotoAt ==
    ASSUME TypeOK, NEW p \in Runs, NEW step \in Steps \cup {"done"}, Goto(p, step)
    PROVE  \A q \in Runs : run'[q].at \in {run[q].at, 1}
<1>1. run[p] \in Run
    BY DEF TypeOK
<1>2. CASE step = "done"
    BY <1>2, GotoRun, EndedAt DEF Others
<1>3. CASE step # "done"
    <2>1. [run[p] EXCEPT !.pc = step].at = run[p].at
        BY <1>1 DEF Run
    <2>. QED BY <1>3, <2>1, GotoRun DEF Others
<1>. QED BY <1>2, <1>3

LEMMA ScanAt ==
    ASSUME TypeOK, NEW p \in Runs, NEW goal \in Goals, Scan(p, goal)
    PROVE  \A q \in Runs : run'[q].at \in {run[q].at, 1}
<1>1. [run[p] EXCEPT !.pc = "scan", !.goal = goal, !.read = <<>>].at = run[p].at
    BY DEF TypeOK, Run
<1>. QED BY <1>1, ScanRun DEF Others

LEMMA VerdictAt ==
    ASSUME TypeOK, NEW p \in Runs, NEW pristine \in BOOLEAN, Verdict(p, pristine)
    PROVE  \A q \in Runs : run'[q].at \in {run[q].at, 1}
<1>1. [run[p] EXCEPT !.pc = "seen", !.wasPristine = pristine,
                     !.goal = "check", !.read = <<>>, !.base = None].at = run[p].at
    BY DEF TypeOK, Run
<1>. QED BY <1>1, VerdictRun, EndedAt DEF Others

LEMMA SnapshotAt ==
    ASSUME TypeOK, NEW p \in Runs,
           InitSnapshot(p) \/ ReadTable(p) \/ CheckRow(p) \/ ReadShape(p)
    PROVE  \A q \in Runs : run'[q].at \in {run[q].at, 1}
<1> DEFINE r == run[p]
<1>0. r \in Run
    BY DEF TypeOK
<1>1. CASE InitSnapshot(p)
    <2>1. Scan(p, "empty") \/ \E step \in Steps : Goto(p, step)
        BY <1>1 DEF InitSnapshot, Steps
    <2>. QED BY <2>1, ScanAt, GotoAt DEF Goals
<1>2. CASE ReadTable(p)
    <2>1. [r EXCEPT !.read = Append(@, rows[Len(@) + 1])].at = r.at
        BY <1>0 DEF Run
    <2>. QED BY <1>2, <2>1, ReadRun DEF Others
<1>3. CASE CheckRow(p)
    <2>1. CASE Verdict(p, FALSE)
        BY <2>1, VerdictAt
    <2>2. CASE Update(p, [r EXCEPT !.pc = "scan", !.goal = "check", !.read = <<>>, !.base = snap.print])
        <3>1. [r EXCEPT !.pc = "scan", !.goal = "check", !.read = <<>>, !.base = snap.print].at = r.at
            BY <1>0 DEF Run
        <3>. QED BY <2>2, <3>1 DEF Update, TypeOK
    <2>. QED BY <1>3, <2>1, <2>2 DEF CheckRow
<1>4. CASE ReadShape(p)
    <2>1. CASE Scan(p, "baseline")
        BY <2>1, ScanAt DEF Goals
    <2>2. CASE Goto(p, "diverge")
        BY <2>2, GotoAt DEF Steps
    <2>3. CASE Verdict(p, TRUE)
        BY <2>3, VerdictAt
    <2>4. CASE Update(p, [r EXCEPT !.pc = "record", !.base = Whole(p)])
        <3>1. [r EXCEPT !.pc = "record", !.base = Whole(p)].at = r.at
            BY <1>0 DEF Run
        <3>. QED BY <2>4, <3>1 DEF Update, TypeOK
    <2>. QED BY <1>4, <2>1, <2>2, <2>3, <2>4 DEF ReadShape
<1>. QED BY <1>1, <1>2, <1>3, <1>4

LEMMA BeginAt ==
    ASSUME TypeOK, NEW p \in Runs, Begin(p) \/ Ask(p)
    PROVE  \A q \in Runs : run'[q].at \in {run[q].at, 1}
<1>1. CASE Begin(p)
    <2>1. PICK k \in Files, withSeed \in BOOLEAN :
              \/ Update(p, [NotBegun EXCEPT !.pc = "init", !.goal = "empty",
                                            !.op = "start", !.upTo = k, !.seed = withSeed])
              \/ Update(p, [NotBegun EXCEPT !.pc = "row", !.op = "migrate", !.upTo = k, !.seed = withSeed])
        BY <1>1 DEF Begin
    <2>2. /\ [NotBegun EXCEPT !.pc = "init", !.goal = "empty",
                              !.op = "start", !.upTo = k, !.seed = withSeed].at = 1
          /\ [NotBegun EXCEPT !.pc = "row", !.op = "migrate", !.upTo = k, !.seed = withSeed].at = 1
        BY NotBegunTyped, EndedAt DEF Run
    <2>. QED BY <2>1, <2>2 DEF Update, TypeOK
<1>2. CASE Ask(p)
    <2>1. [NotBegun EXCEPT !.pc = "row"].at = 1
        BY NotBegunTyped, EndedAt DEF Run
    <2>. QED BY <1>2, <2>1 DEF Ask, Update, TypeOK
<1>. QED BY <1>1, <1>2

LEMMA OrderLookUp ==
    ASSUME TypeOK, AllFit, OrderInv, NEW p \in Runs, LookUp(p)
    PROVE  OrderInv'
<1> DEFINE r == run[p]
<1>0. r \in Run /\ r.at \in Nat /\ Len(ledger) \in Nat /\ UNCHANGED ledger
    BY RunFields, LenProperties, FilesAssumption DEF TypeOK, LookUp
<1>1. CASE \E step \in Steps : Goto(p, step)
    BY <1>0, <1>1, GotoAt, OrderKept
<1>2. CASE r.at \in Recorded /\ Update(p, [r EXCEPT !.at = @ + 1])
    <2>1. r.at <= Len(ledger)
        BY <1>0, <1>2, LenProperties DEF Recorded, OrderInv, AppliedOnceInOrder, TypeOK
    <2>2. [r EXCEPT !.at = @ + 1].at = r.at + 1
        BY <1>0 DEF Run
    <2>3. run'[p].at = r.at + 1 /\ Others(p)
        BY <1>2, <2>2 DEF Update, TypeOK, Others
    <2>. QED BY <1>0, <2>1, <2>3 DEF OrderInv, AppliedOnceInOrder, Others
<1>. QED BY <1>1, <1>2 DEF LookUp, Steps

LEMMA OrderApply ==
    ASSUME TypeOK, AllFit, OrderInv, NEW p \in Runs, Apply(p)
    PROVE  OrderInv'
<1> DEFINE r == run[p]
<1>0. /\ r \in Run /\ r.at \in 1 .. NFiles + 1 /\ r.upTo \in Files /\ r.at <= r.upTo
      /\ Len(ledger) \in Nat /\ ledger \in [1 .. Len(ledger) -> Files] /\ ledger \in Seq(Files)
    BY RunFields, LenProperties DEF TypeOK, AllFit, Fits, Apply
<1>1. CASE Goto(p, "pending") /\ UNCHANGED ledger
    BY <1>1, GotoAt, OrderKept DEF Steps
<1>2. CASE /\ r.at \notin Recorded /\ ledger' = Append(ledger, r.at)
           /\ Update(p, [r EXCEPT !.pc = "seen", !.at = @ + 1, !.applied = TRUE])
    <2>1. r.at \in Files
        BY <1>0, FilesAssumption DEF Files
    <2>2. r.at = Len(ledger) + 1
        <3>1. \A n \in 1 .. Len(ledger) : n \in Recorded
            BY <1>0 DEF Recorded, OrderInv, AppliedOnceInOrder
        <3>2. r.at <= Len(ledger) + 1
            BY DEF OrderInv
        <3>. QED BY <1>0, <1>2, <3>1, <3>2
    <2>3. /\ Len(ledger') = Len(ledger) + 1 /\ ledger'[Len(ledger) + 1] = r.at
          /\ \A n \in 1 .. Len(ledger) : ledger'[n] = ledger[n]
          /\ DOMAIN ledger' = 1 .. Len(ledger) + 1
        BY <1>0, <1>2, <2>1, AppendProperties, LenProperties
    <2>4. AppliedOnceInOrder'
        BY <1>0, <2>2, <2>3 DEF OrderInv, AppliedOnceInOrder
    <2>5. [r EXCEPT !.pc = "seen", !.at = @ + 1, !.applied = TRUE].at = r.at + 1
        BY <1>0 DEF Run
    <2>6. run'[p].at = r.at + 1 /\ Others(p)
        BY <1>2, <2>5 DEF Update, TypeOK, Others
    <2>7. \A q \in Runs : run[q].at \in Nat
        BY RunFields, FilesAssumption DEF TypeOK
    <2>. QED BY <1>0, <2>2, <2>3, <2>4, <2>6, <2>7 DEF OrderInv, Others
<1>. QED BY <1>1, <1>2 DEF Apply

LEMMA OrderNext == TypeOK /\ AllFit /\ OrderInv /\ [Next]_vars => OrderInv'
<1> SUFFICES ASSUME TypeOK, AllFit, OrderInv, [Next]_vars PROVE OrderInv'
    OBVIOUS
<1>1. CASE UserWrite \/ UNCHANGED vars
    BY <1>1, OrderKept DEF UserWrite, vars
<1>2. CASE Crash
    BY <1>2, OrderKept, EndedAt DEF Crash
<1>3. ASSUME NEW p \in Runs, Begin(p) \/ Ask(p) PROVE OrderInv'
    BY <1>3, BeginAt, OrderKept DEF Begin, Ask
<1>4. ASSUME NEW p \in Runs, InitSnapshot(p) \/ ReadTable(p) \/ CheckRow(p) \/ ReadShape(p) PROVE OrderInv'
    BY <1>4, SnapshotAt, OrderKept DEF InitSnapshot, ReadTable, CheckRow, ReadShape
<1>5. ASSUME NEW p \in Runs, LookUp(p) PROVE OrderInv'
    BY <1>5, OrderLookUp
<1>6. ASSUME NEW p \in Runs, Apply(p) PROVE OrderInv'
    BY <1>6, OrderApply
<1>7. ASSUME NEW p \in Runs, UNCHANGED ledger,
             \/ \E goal \in Goals : Scan(p, goal)
             \/ \E step \in Steps \cup {"done"} : Goto(p, step)
             \/ Verdict(p, FALSE)
      PROVE  OrderInv'
    BY <1>7, ScanAt, GotoAt, VerdictAt, OrderKept
<1>8. ASSUME NEW p \in Runs, Record(p) \/ Diverge(p) \/ Report(p) \/ SeedSeen(p) \/ Finish(p) \/ Fault(p)
      PROVE  OrderInv'
    <2>1. UNCHANGED ledger
        BY <1>8 DEF Record, Diverge, Report, SeedSeen, Finish, Fault
    <2>2. \/ \E goal \in Goals : Scan(p, goal)
          \/ \E step \in Steps \cup {"done"} : Goto(p, step)
          \/ Verdict(p, FALSE)
        BY <1>8 DEF Record, Diverge, Report, SeedSeen, Finish, Fault, Done, Throw, Steps, Goals
    <2>. QED BY <1>7, <2>1, <2>2
<1>9. ASSUME NEW p \in Runs, Seed(p) PROVE OrderInv'
    <2>1. PICK repeated \in BOOLEAN :
             Update(p, [run[p] EXCEPT !.pc = "finish", !.applied = @ \/ ~Seeded \/ repeated])
        BY <1>9 DEF Seed
    <2>2. [run[p] EXCEPT !.pc = "finish", !.applied = @ \/ ~Seeded \/ repeated].at = run[p].at
        BY DEF TypeOK, Run
    <2>3. \A q \in Runs : run'[q].at \in {run[q].at, 1}
        BY <2>1, <2>2 DEF Update, TypeOK
    <2>. QED BY <1>9, <2>3, OrderKept DEF Seed
<1>. QED BY <1>1, <1>2, <1>3, <1>4, <1>5, <1>6, <1>8, <1>9 DEF Next

(* Every migration is committed once, and none before an earlier one.        *)
THEOREM MigrationsInOrder == Spec => []AppliedOnceInOrder
<1>1. OrderInv => AppliedOnceInOrder
    BY DEF OrderInv
<1>. QED BY <1>1, TypeInit, TypeNext, OrderInit, OrderNext, PTL DEF Spec

(* ------------------------------- The baseline --------------------------- *)

(* What a run has read, field by field, after each kind of step.             *)
LEMMA GotoFields ==
    ASSUME TypeOK, NEW p \in Runs, NEW step \in Steps, Goto(p, step)
    PROVE  /\ Others(p) /\ run'[p].pc = step /\ run'[p].op = run[p].op /\ run'[p].goal = run[p].goal
           /\ run'[p].read = run[p].read /\ run'[p].base = run[p].base /\ run'[p].seed = run[p].seed
           /\ run'[p].wasPristine = run[p].wasPristine /\ run'[p].applied = run[p].applied
<1> DEFINE s == [run[p] EXCEPT !.pc = step]
<1>1. run'[p] = s /\ Others(p) /\ run[p] \in Run
    BY GotoRun DEF Steps, TypeOK
<1>. QED BY <1>1 DEF Run

LEMMA ScanFields ==
    ASSUME TypeOK, NEW p \in Runs, NEW goal \in Goals, Scan(p, goal)
    PROVE  /\ Others(p) /\ run'[p].pc = "scan" /\ run'[p].op = run[p].op /\ run'[p].goal = goal
           /\ Len(run'[p].read) = 0 /\ run'[p].base = run[p].base
           /\ run'[p].wasPristine = run[p].wasPristine /\ run'[p].applied = run[p].applied
<1>1. /\ run'[p] = [run[p] EXCEPT !.pc = "scan", !.goal = goal, !.read = <<>>]
      /\ Others(p) /\ run[p] \in Run
    BY ScanRun DEF TypeOK
<1>. QED BY <1>1, NothingRead DEF Run

LEMMA VerdictFields ==
    ASSUME TypeOK, NEW p \in Runs, NEW pristine \in BOOLEAN, Verdict(p, pristine)
    PROVE  /\ Others(p)
           /\ run[p].op = "check" => run'[p].pc = "done" /\ run'[p].op = "check"
           /\ run[p].op # "check" =>
                /\ run'[p].pc = "seen" /\ run'[p].op = run[p].op /\ run'[p].goal = "check"
                /\ run'[p].wasPristine = pristine /\ run'[p].applied = run[p].applied
<1>1. CASE run[p].op = "check"
    BY <1>1, VerdictRun DEF Ended, NotBegun
<1>2. CASE run[p].op # "check"
    <2> DEFINE s == [run[p] EXCEPT !.pc = "seen", !.wasPristine = pristine,
                                   !.goal = "check", !.read = <<>>, !.base = None]
    <2>1. run'[p] = s /\ Others(p) /\ run[p] \in Run
        BY <1>2, VerdictRun DEF TypeOK
    <2>. QED BY <1>2, <2>1 DEF Run
<1>. QED BY <1>1, <1>2

LEMMA DoneFields ==
    ASSUME TypeOK, NEW p \in Runs, Goto(p, "done")
    PROVE  Others(p) /\ run'[p].pc = "done" /\ run'[p].op = "check"
BY GotoRun DEF Ended, NotBegun

LEMMA ReadFields ==
    ASSUME TypeOK, NEW p \in Runs, ReadTable(p)
    PROVE  /\ Others(p) /\ run'[p].pc = "scan" /\ run'[p].op = run[p].op /\ run'[p].goal = run[p].goal
           /\ run'[p].base = run[p].base
           /\ run'[p].wasPristine = run[p].wasPristine /\ run'[p].applied = run[p].applied
           /\ Len(run[p].read) + 1 \in Tables /\ Len(run'[p].read) = Len(run[p].read) + 1
           /\ run'[p].read[Len(run[p].read) + 1] = rows[Len(run[p].read) + 1]
           /\ \A n \in 1 .. Len(run[p].read) : run'[p].read[n] = run[p].read[n]
<1> DEFINE r == run[p]
           row == rows[Len(r.read) + 1]
           s == [r EXCEPT !.read = Append(@, rows[Len(@) + 1])]
<1>1. run'[p] = s /\ Others(p) /\ r \in Run /\ Len(r.read) + 1 \in Tables /\ r.pc = "scan"
    BY ReadRun DEF TypeOK, ReadTable
<1>2. r.read \in Seq(SUBSET Content) /\ row \in SUBSET Content
    BY <1>1, RunFields DEF TypeOK
<1>3. /\ s.pc = r.pc /\ s.op = r.op /\ s.goal = r.goal /\ s.base = r.base
      /\ s.wasPristine = r.wasPristine /\ s.applied = r.applied /\ s.read = Append(r.read, row)
    BY <1>1 DEF Run
<1>. HIDE DEF s, row
<1>4. /\ Len(Append(r.read, row)) = Len(r.read) + 1 /\ Append(r.read, row)[Len(r.read) + 1] = row
      /\ \A n \in 1 .. Len(r.read) : Append(r.read, row)[n] = r.read[n]
    BY <1>2, AppendProperties
<1>. QED BY <1>1, <1>3, <1>4 DEF row

LEMMA CheckFields ==
    ASSUME TypeOK, NEW p \in Runs, CheckRow(p)
    PROVE  \/ Verdict(p, FALSE) /\ snap.state # "pristine"
           \/ /\ Others(p) /\ run'[p].pc = "scan" /\ run'[p].op = run[p].op /\ run'[p].goal = "check"
              /\ Len(run'[p].read) = 0 /\ run'[p].base = snap.print /\ snap.state = "pristine"
              /\ run'[p].wasPristine = run[p].wasPristine /\ run'[p].applied = run[p].applied
<1> DEFINE r == run[p]
<1>1. CASE Update(p, [r EXCEPT !.pc = "scan", !.goal = "check", !.read = <<>>, !.base = snap.print])
             /\ snap.state = "pristine"
    <2> DEFINE s == [r EXCEPT !.pc = "scan", !.goal = "check", !.read = <<>>, !.base = snap.print]
    <2>1. run'[p] = s /\ Others(p) /\ r \in Run
        BY <1>1 DEF Update, TypeOK, Others
    <2>. QED BY <1>1, <2>1, NothingRead DEF Run
<1>. QED BY <1>1 DEF CheckRow

LEMMA ShapeFields ==
    ASSUME TypeOK, NEW p \in Runs, Update(p, [run[p] EXCEPT !.pc = "record", !.base = Whole(p)])
    PROVE  /\ Others(p) /\ run'[p].pc = "record" /\ run'[p].op = run[p].op /\ run'[p].goal = run[p].goal
           /\ run'[p].base = Whole(p)
           /\ run'[p].wasPristine = run[p].wasPristine /\ run'[p].applied = run[p].applied
<1> DEFINE s == [run[p] EXCEPT !.pc = "record", !.base = Whole(p)]
<1>1. run'[p] = s /\ Others(p) /\ run[p] \in Run
    BY DEF Update, TypeOK, Others
<1>. QED BY <1>1 DEF Run

LEMMA BeginFields ==
    ASSUME TypeOK, NEW p \in Runs, Begin(p)
    PROVE  /\ Others(p) /\ ~run'[p].wasPristine
           /\ \/ /\ server = "down" /\ server' = "starting"
                 /\ run'[p].op = "start" /\ run'[p].pc = "init" /\ run'[p].goal = "empty"
              \/ /\ server = "serving" /\ UNCHANGED server
                 /\ run'[p].op = "migrate" /\ run'[p].pc = "row" /\ run'[p].goal = "check"
<1>1. PICK k \in Files, withSeed \in BOOLEAN :
          \/ /\ server = "down" /\ server' = "starting"
             /\ Update(p, [NotBegun EXCEPT !.pc = "init", !.goal = "empty",
                                           !.op = "start", !.upTo = k, !.seed = withSeed])
          \/ /\ server = "serving"
             /\ Update(p, [NotBegun EXCEPT !.pc = "row", !.op = "migrate", !.upTo = k, !.seed = withSeed])
             /\ UNCHANGED server
    BY DEF Begin
<1> DEFINE starting == [NotBegun EXCEPT !.pc = "init", !.goal = "empty",
                                        !.op = "start", !.upTo = k, !.seed = withSeed]
           calling == [NotBegun EXCEPT !.pc = "row", !.op = "migrate", !.upTo = k, !.seed = withSeed]
<1>2. NotBegun \in Run /\ ~NotBegun.wasPristine /\ NotBegun.goal = "check"
    BY NotBegunTyped DEF NotBegun
<1>3. /\ ~starting.wasPristine /\ starting.pc = "init" /\ starting.goal = "empty" /\ starting.op = "start"
      /\ ~calling.wasPristine /\ calling.pc = "row" /\ calling.goal = "check" /\ calling.op = "migrate"
    BY <1>2 DEF Run
<1>4. \/ server = "down" /\ server' = "starting" /\ Update(p, starting)
      \/ server = "serving" /\ UNCHANGED server /\ Update(p, calling)
    BY <1>1
<1>. HIDE DEF starting, calling
<1>. QED BY <1>3, <1>4, UpdateAny

LEMMA AskFields ==
    ASSUME TypeOK, NEW p \in Runs, Ask(p)
    PROVE  /\ Others(p) /\ ~run'[p].wasPristine
           /\ run'[p].op = "check" /\ run'[p].pc = "row" /\ run'[p].goal = "check"
<1> DEFINE asking == [NotBegun EXCEPT !.pc = "row"]
<1>1. NotBegun \in Run /\ ~NotBegun.wasPristine /\ NotBegun.goal = "check" /\ NotBegun.op = "check"
    BY NotBegunTyped DEF NotBegun
<1>2. ~asking.wasPristine /\ asking.pc = "row" /\ asking.goal = "check" /\ asking.op = "check"
    BY <1>1 DEF Run
<1>3. Update(p, asking)
    BY DEF Ask
<1>. HIDE DEF asking
<1>. QED BY <1>2, <1>3, UpdateAny

(* A run knows of every row of a user that was not written beside it or        *)
(* beside an earlier baseline.                                               *)
UsersRows(p) == \A t \in Tables : "user" \in rows[t] => t \in folded \cup during[p]
Sound(p) ==
    LET r == run[p] IN
    /\ r.goal = "baseline" \/ r.wasPristine => UsersRows(p)
    /\ r.pc = "scan" /\ r.goal \in {"empty", "check"} =>
          \A n \in 1 .. Len(r.read) : "user" \in rows[n] => "user" \in r.read[n] \/ n \in during[p]
    /\ r.pc = "scan" /\ r.goal = "check" => \A t \in Tables : "user" \in r.base.tables[t] => t \in folded
    /\ r.pc = "scan" /\ r.goal \in {"baseline", "record"} =>
          \A n \in 1 .. Len(r.read) : "user" \in r.read[n] => "user" \in rows[n]
    /\ r.pc = "record" => \A t \in Tables : "user" \in r.base.tables[t] => t \in folded \cup during[p]

BaselineInv ==
    BaselineUntouched /\ \A p \in Runs : UnderWay(p) /\ run[p].op # "check" => Sound(p)

LEMMA BaselineInit == Init => BaselineInv
BY DEF Init, BaselineInv, BaselineUntouched, UnderWay, NotBegun, Steps

(* One run goes on; the tables and the snapshot stay.                        *)
LEMMA BaselineStep ==
    ASSUME TypeOK, BaselineInv, NEW p \in Runs, Others(p),
           UNCHANGED <<rows, snap, during, folded>>,
           UnderWay(p)' /\ run'[p].op # "check" => Sound(p)'
    PROVE  BaselineInv'
<1>1. BaselineUntouched'
    BY DEF BaselineInv, BaselineUntouched
<1>2. ASSUME NEW q \in Runs, q # p, UnderWay(q)', run'[q].op # "check" PROVE Sound(q)'
    <2>1. run'[q] = run[q]
        BY <1>2 DEF Others
    <2>. QED BY <1>2, <2>1 DEF BaselineInv, UnderWay, Sound, UsersRows
<1>. QED BY <1>1, <1>2 DEF BaselineInv

LEMMA BaselineGoto ==
    ASSUME TypeOK, BaselineInv, NEW p \in Runs, UnderWay(p), NEW step \in (Steps \ {"scan", "record"}) \cup {"done"},
           Goto(p, step), UNCHANGED <<rows, snap, during, folded>>
    PROVE  BaselineInv'
<1>1. CASE step = "done"
    BY <1>1, DoneFields, BaselineStep DEF UnderWay, Steps
<1>2. CASE step # "done"
    <2>1. Others(p)
        BY <1>2, GotoFields
    <2>2. UnderWay(p)' /\ run'[p].op # "check" => Sound(p)'
        BY <1>2, GotoFields DEF BaselineInv, Sound, UsersRows
    <2>. QED BY <2>1, <2>2, BaselineStep
<1>. QED BY <1>1, <1>2

LEMMA BaselineScan ==
    ASSUME TypeOK, BaselineInv, NEW p \in Runs, UnderWay(p), NEW goal \in Goals \ {"check"}, Scan(p, goal),
           run[p].op # "check", goal = "baseline" => UsersRows(p),
           UNCHANGED <<rows, snap, during, folded>>
    PROVE  BaselineInv'
<1>1. Others(p)
    BY ScanFields
<1>2. Sound(p)'
    BY ScanFields DEF BaselineInv, Sound, UsersRows
<1>. QED BY <1>1, <1>2, BaselineStep

LEMMA BaselineVerdict ==
    ASSUME TypeOK, BaselineInv, NEW p \in Runs, UnderWay(p), NEW pristine \in BOOLEAN, Verdict(p, pristine),
           run[p].op # "check" /\ pristine => UsersRows(p),
           UNCHANGED <<rows, snap, during, folded>>
    PROVE  BaselineInv'
<1>1. Others(p)
    BY VerdictFields
<1>2. UnderWay(p)' /\ run'[p].op # "check" => Sound(p)'
    BY VerdictFields DEF Sound, UsersRows, UnderWay, Steps
<1>. QED BY <1>1, <1>2, BaselineStep

LEMMA BaselineSnapshot ==
    ASSUME TypeOK, AllFit, BaselineInv, NEW p \in Runs,
           InitSnapshot(p) \/ ReadTable(p) \/ CheckRow(p) \/ ReadShape(p)
    PROVE  BaselineInv'
<1> DEFINE r == run[p]
<1>0. /\ r \in Run /\ Fits(r) /\ UnderWay(p) /\ UNCHANGED <<rows, snap, during, folded>>
      /\ r.read \in [1 .. Len(r.read) -> SUBSET Content] /\ Len(r.read) \in Nat
    BY RunFields, LenProperties
       DEF TypeOK, AllFit, InitSnapshot, ReadTable, CheckRow, ReadShape, history, UnderWay, Steps
<1>1. CASE InitSnapshot(p)
    <2>1. r.op # "check"
        BY <1>0, <1>1 DEF InitSnapshot, Fits
    <2>2. Scan(p, "empty") \/ \E step \in {"count", "row", "diverge"} : Goto(p, step)
        BY <1>1 DEF InitSnapshot
    <2>. QED BY <1>0, <2>1, <2>2, BaselineScan, BaselineGoto DEF Goals, Steps
<1>2. CASE ReadTable(p)
    <2>1. Others(p)
        BY <1>2, ReadFields
    <2>2. \A n \in 1 .. Len(run'[p].read) :
             \/ run'[p].read[n] = rows[n]
             \/ n \in 1 .. Len(r.read) /\ run'[p].read[n] = r.read[n]
        BY <1>0, <1>2, ReadFields
    <2>3. r.op # "check" => Sound(p)
        BY <1>0 DEF BaselineInv
    <2>4. r.pc = "scan"
        BY <1>2 DEF ReadTable
    <2>5. r.op # "check" => Sound(p)'
        BY <1>0, <1>2, <2>2, <2>3, <2>4, ReadFields DEF Sound, UsersRows
    <2>. QED BY <1>0, <1>2, <2>1, <2>5, ReadFields, BaselineStep
<1>3. CASE CheckRow(p)
    <2>1. CASE Verdict(p, FALSE)
        BY <1>0, <2>1, BaselineVerdict
    <2>2. CASE /\ Others(p) /\ run'[p].pc = "scan" /\ run'[p].op = run[p].op /\ run'[p].goal = "check"
               /\ Len(run'[p].read) = 0 /\ run'[p].base = snap.print /\ snap.state = "pristine"
               /\ run'[p].wasPristine = run[p].wasPristine
        <3>1. r.op # "check" => Sound(p)'
            BY <1>0, <2>2 DEF BaselineInv, BaselineUntouched, Sound, UsersRows
        <3>. QED BY <1>0, <2>2, <3>1, BaselineStep
    <2>. QED BY <1>3, <2>1, <2>2, CheckFields
<1>4. CASE ReadShape(p)
    <2>0. r.pc = "scan" /\ Len(r.read) = NTables /\ \A n \in Tables : n \in 1 .. Len(r.read)
        BY <1>4 DEF ReadShape, Tables
    <2>1. CASE r.goal = "empty" /\ (\A t \in Tables : r.read[t] = {}) /\ Scan(p, "baseline")
        <3>1. r.op # "check"
            BY <1>0, <2>1 DEF Fits
        <3>2. UsersRows(p)
            BY <1>0, <2>0, <2>1, <3>1 DEF BaselineInv, Sound, UsersRows
        <3>. QED BY <1>0, <2>1, <3>1, <3>2, BaselineScan DEF Goals
    <2>2. CASE Goto(p, "diverge")
        BY <1>0, <2>2, BaselineGoto DEF Steps
    <2>3. CASE r.goal = "check" /\ Whole(p) = r.base /\ Verdict(p, TRUE)
        <3>1. r.op # "check" => UsersRows(p)
            <4>1. r.base.tables = r.read
                BY <2>3 DEF Whole
            <4>. QED BY <1>0, <2>0, <2>3, <4>1 DEF BaselineInv, Sound, UsersRows
        <3>. QED BY <1>0, <2>3, <3>1, BaselineVerdict
    <2>4. CASE /\ r.goal \notin {"empty", "check"}
               /\ Update(p, [r EXCEPT !.pc = "record", !.base = Whole(p)])
        <3>1. r.goal \in {"baseline", "record"} /\ r.op # "check" /\ (r.goal = "record" => r.wasPristine)
            BY <1>0, <2>4, RunFields DEF Fits, Goals
        <3>2. UsersRows(p) /\ \A t \in Tables : "user" \in r.read[t] => "user" \in rows[t]
            BY <1>0, <2>0, <3>1 DEF BaselineInv, Sound
        <3>3. /\ Others(p) /\ run'[p].pc = "record" /\ run'[p].base = Whole(p) /\ run'[p].goal = r.goal
            BY <2>4, ShapeFields
        <3>4. \A t \in Tables : "user" \in run'[p].base.tables[t] => t \in folded \cup during[p]
            BY <3>2, <3>3 DEF Whole, UsersRows
        <3>5. Sound(p)'
            BY <1>0, <3>2, <3>3, <3>4 DEF Sound, UsersRows
        <3>. QED BY <1>0, <3>3, <3>5, BaselineStep
    <2>. QED BY <1>4, <2>1, <2>2, <2>3, <2>4 DEF ReadShape
<1>. QED BY <1>1, <1>2, <1>3, <1>4

LEMMA BaselineRecord ==
    ASSUME TypeOK, AllFit, BaselineInv, NEW p \in Runs, Record(p)
    PROVE  BaselineInv'
<1> DEFINE r == run[p]
<1>0. /\ r \in Run /\ Fits(r) /\ r.pc = "record" /\ UnderWay(p) /\ r.op # "check"
      /\ snap' = [state |-> "pristine", print |-> r.base] /\ folded' = folded \cup during[p]
      /\ UNCHANGED <<rows, during>>
    BY DEF TypeOK, AllFit, Record, UnderWay, Steps, Fits
<1>1. BaselineUntouched'
    BY <1>0 DEF BaselineInv, Sound, BaselineUntouched
<1>2. ASSUME NEW q \in Runs, UnderWay(q), run[q].op # "check", run'[q] = run[q] PROVE Sound(q)'
    BY <1>0, <1>2 DEF BaselineInv, Sound, UsersRows
<1>3. UnderWay(p)' /\ run'[p].op # "check" => Sound(p)'
    <2>1. CASE Opening(p) /\ Goto(p, "row")
        BY <1>0, <2>1, GotoFields DEF Steps, BaselineInv, Sound, UsersRows
    <2>2. CASE Done(p)
        BY <2>2, DoneFields DEF Done
    <2>. QED BY <2>1, <2>2 DEF Record
<1>4. Others(p)
    BY GotoFields, DoneFields DEF Record, Done, Steps
<1>. QED BY <1>1, <1>2, <1>3, <1>4 DEF BaselineInv, Others, UnderWay

LEMMA BaselineDiverge ==
    ASSUME TypeOK, AllFit, BaselineInv, NEW p \in Runs, Diverge(p)
    PROVE  BaselineInv'
<1>0. /\ run[p].pc = "diverge" /\ UnderWay(p) /\ snap' = [state |-> "diverged", print |-> None]
      /\ UNCHANGED <<rows, during, folded>>
    BY DEF Diverge, history, UnderWay, Steps
<1>1. BaselineUntouched'
    BY <1>0 DEF BaselineUntouched
<1>2. Others(p) /\ (UnderWay(p)' /\ run'[p].op # "check" => Sound(p)')
    <2>1. CASE Goto(p, "row")
        BY <1>0, <2>1, GotoFields DEF Steps, BaselineInv, Sound, UsersRows
    <2>2. CASE Verdict(p, FALSE)
        BY <1>0, <2>2, VerdictFields DEF UnderWay, Steps, Sound
    <2>. QED BY <2>1, <2>2 DEF Diverge
<1>3. ASSUME NEW q \in Runs, q # p, UnderWay(q)', run'[q].op # "check" PROVE Sound(q)'
    BY <1>0, <1>2, <1>3 DEF Others, BaselineInv, UnderWay, Sound, UsersRows
<1>. QED BY <1>1, <1>2, <1>3 DEF BaselineInv

LEMMA BaselineMigrate ==
    ASSUME TypeOK, AllFit, BaselineInv, NEW p \in Runs,
           LookUp(p) \/ Apply(p) \/ Report(p) \/ SeedSeen(p) \/ Finish(p) \/ Fault(p)
    PROVE  BaselineInv'
<1> DEFINE r == run[p]
<1>0. r \in Run /\ Fits(r) /\ UnderWay(p) /\ UNCHANGED <<rows, snap, during, folded>>
    BY DEF TypeOK, AllFit, LookUp, Apply, Report, SeedSeen, Finish, Fault, history, UnderWay, Steps
<1>1. CASE \E step \in (Steps \ {"scan", "record"}) \cup {"done"} : Goto(p, step)
    BY <1>0, <1>1, BaselineGoto
<1>2. CASE Verdict(p, FALSE)
    BY <1>0, <1>2, BaselineVerdict
<1>3. CASE r.pc = "finish" /\ Scan(p, "record")
    BY <1>0, <1>3, BaselineScan DEF Goals, Fits
<1>4. CASE r.pc \in {"seen", "apply"} /\ Update(p, [r EXCEPT !.at = @ + 1])
    <2> DEFINE s == [r EXCEPT !.at = @ + 1]
    <2>1. run'[p] = s /\ Others(p)
        BY <1>4 DEF Update, TypeOK, Others
    <2>2. s.pc = r.pc /\ s.op = r.op /\ s.goal = r.goal /\ s.wasPristine = r.wasPristine
        BY <1>0 DEF Run
    <2>. HIDE DEF s
    <2>3. r.op # "check" => Sound(p)'
        BY <1>0, <1>4, <2>1, <2>2 DEF BaselineInv, Sound, UsersRows
    <2>. QED BY <1>0, <2>1, <2>2, <2>3, BaselineStep
<1>5. CASE Update(p, [r EXCEPT !.pc = "seen", !.at = @ + 1, !.applied = TRUE])
    <2> DEFINE s == [r EXCEPT !.pc = "seen", !.at = @ + 1, !.applied = TRUE]
    <2>1. run'[p] = s /\ Others(p)
        BY <1>5 DEF Update, TypeOK, Others
    <2>2. s.pc = "seen" /\ s.op = r.op /\ s.goal = r.goal /\ s.wasPristine = r.wasPristine
        BY <1>0 DEF Run
    <2>. HIDE DEF s
    <2>3. r.op # "check" => Sound(p)'
        BY <1>0, <2>1, <2>2 DEF BaselineInv, Sound, UsersRows
    <2>. QED BY <1>0, <2>1, <2>2, <2>3, BaselineStep
<1>6. CASE LookUp(p)
    BY <1>1, <1>4, <1>6 DEF LookUp, Steps
<1>7. CASE Apply(p)
    BY <1>1, <1>5, <1>7 DEF Apply, Steps
<1>8. CASE Report(p) \/ SeedSeen(p)
    BY <1>1, <1>8 DEF Report, SeedSeen, Steps
<1>9. CASE Finish(p)
    BY <1>1, <1>3, <1>9 DEF Finish, Done
<1>10. CASE Fault(p)
    BY <1>1, <1>2, <1>10 DEF Fault, Done, Throw, Steps
<1>. QED BY <1>6, <1>7, <1>8, <1>9, <1>10

LEMMA BaselineSeed ==
    ASSUME TypeOK, AllFit, BaselineInv, NEW p \in Runs, Seed(p)
    PROVE  BaselineInv'
<1> DEFINE r == run[p]
<1>0. r \in Run /\ r.pc = "seed" /\ UnderWay(p) /\ UNCHANGED <<snap, during, folded>>
    BY DEF TypeOK, Seed, history, UnderWay, Steps
<1>1. \A t \in Tables : "user" \in rows'[t] <=> "user" \in rows[t]
    BY DEF Seed, TypeOK
<1>2. PICK repeated \in BOOLEAN :
         Update(p, [r EXCEPT !.pc = "finish", !.applied = @ \/ ~Seeded \/ repeated])
    BY DEF Seed
<1> DEFINE s == [r EXCEPT !.pc = "finish", !.applied = @ \/ ~Seeded \/ repeated]
<1>3. run'[p] = s /\ Others(p)
    BY <1>2 DEF Update, TypeOK, Others
<1>4. s.pc = "finish" /\ s.op = r.op /\ s.goal = r.goal /\ s.wasPristine = r.wasPristine
    BY <1>0 DEF Run
<1>. HIDE DEF s
<1>5. r.op # "check" => Sound(p)'
    BY <1>0, <1>1, <1>3, <1>4 DEF BaselineInv, Sound, UsersRows
<1>6. \A q \in Runs : Len(run[q].read) <= NTables
    BY RunFields DEF TypeOK
<1>7. ASSUME NEW q \in Runs, q # p, UnderWay(q)', run'[q].op # "check" PROVE Sound(q)'
    <2>1. run'[q] = run[q] /\ Sound(q)
        BY <1>3, <1>7 DEF Others, BaselineInv, UnderWay
    <2>2. Len(run[q].read) \in Nat /\ \A n \in 1 .. Len(run[q].read) : n \in Tables
        BY <1>6, RunFields, LenProperties, TablesAssumption DEF Tables, TypeOK
    <2>. QED BY <1>0, <1>1, <2>1, <2>2 DEF Sound, UsersRows
<1>8. BaselineUntouched'
    BY <1>0 DEF BaselineInv, BaselineUntouched
<1>. QED BY <1>0, <1>3, <1>4, <1>5, <1>7, <1>8 DEF BaselineInv

LEMMA BaselineUser ==
    ASSUME TypeOK, AllFit, BaselineInv, UserWrite
    PROVE  BaselineInv'
<1>1. PICK t \in Tables :
         /\ rows' = [rows EXCEPT ![t] = @ \cup {"user"}]
         /\ during' = [p \in Runs |-> IF UnderWay(p) /\ run[p].op # "check" THEN during[p] \cup {t} ELSE during[p]]
    BY DEF UserWrite
<1>2. UNCHANGED <<snap, run, folded>>
    BY DEF UserWrite
<1>3. /\ \A u \in Tables : "user" \in rows[u] => "user" \in rows'[u]
      /\ \A u \in Tables : "user" \in rows'[u] => "user" \in rows[u] \/ u = t
    BY <1>1 DEF TypeOK
<1>4. ASSUME NEW p \in Runs, UnderWay(p), run[p].op # "check" PROVE Sound(p)'
    <2>1. during'[p] = during[p] \cup {t} /\ Sound(p)
        BY <1>1, <1>4 DEF BaselineInv
    <2>2. Len(run[p].read) \in Nat /\ \A n \in 1 .. Len(run[p].read) : n \in Tables
        BY RunFields, LenProperties, TablesAssumption DEF Tables, TypeOK
    <2>. QED BY <1>2, <1>3, <2>1, <2>2 DEF Sound, UsersRows
<1>5. BaselineUntouched'
    BY <1>2 DEF BaselineInv, BaselineUntouched
<1>. QED BY <1>2, <1>4, <1>5 DEF BaselineInv, UnderWay

LEMMA BaselineBegin ==
    ASSUME TypeOK, AllFit, BaselineInv, NEW p \in Runs, Begin(p) \/ Ask(p)
    PROVE  BaselineInv'
<1>1. UNCHANGED <<rows, snap, during, folded>>
    BY DEF Begin, Ask
<1>2. Others(p) /\ ~run'[p].wasPristine /\ run'[p].pc \in {"init", "row"} /\ run'[p].goal \in {"empty", "check"}
    BY BeginFields, AskFields
<1>3. Sound(p)'
    BY <1>2 DEF Sound
<1>. QED BY <1>1, <1>2, <1>3, BaselineStep

LEMMA BaselineNext == TypeOK /\ AllFit /\ BaselineInv /\ [Next]_vars => BaselineInv'
<1> SUFFICES ASSUME TypeOK, AllFit, BaselineInv, [Next]_vars PROVE BaselineInv'
    OBVIOUS
<1>1. CASE UserWrite
    BY <1>1, BaselineUser
<1>2. CASE Crash
    <2>1. /\ UNCHANGED <<rows, snap, during, folded>> /\ Ended.op = "check"
          /\ \A p \in Runs : run'[p] \in {run[p], Ended}
        BY <1>2 DEF Crash, TypeOK, Ended, NotBegun
    <2>. QED BY <2>1 DEF BaselineInv, BaselineUntouched, Sound, UsersRows, UnderWay
<1>3. ASSUME NEW p \in Runs, Begin(p) \/ Ask(p) PROVE BaselineInv'
    BY <1>3, BaselineBegin
<1>4. ASSUME NEW p \in Runs, InitSnapshot(p) \/ ReadTable(p) \/ CheckRow(p) \/ ReadShape(p) PROVE BaselineInv'
    BY <1>4, BaselineSnapshot
<1>5. ASSUME NEW p \in Runs, Record(p) PROVE BaselineInv'
    BY <1>5, BaselineRecord
<1>6. ASSUME NEW p \in Runs, Diverge(p) PROVE BaselineInv'
    BY <1>6, BaselineDiverge
<1>7. ASSUME NEW p \in Runs, LookUp(p) \/ Apply(p) \/ Report(p) \/ SeedSeen(p) \/ Finish(p) \/ Fault(p) PROVE BaselineInv'
    BY <1>7, BaselineMigrate
<1>8. ASSUME NEW p \in Runs, Seed(p) PROVE BaselineInv'
    BY <1>8, BaselineSeed
<1>9. CASE UNCHANGED vars
    BY <1>9 DEF vars, BaselineInv, BaselineUntouched, Sound, UsersRows, UnderWay
<1>. QED BY <1>1, <1>2, <1>3, <1>4, <1>5, <1>6, <1>7, <1>8, <1>9 DEF Next

(* While only starts and migrate calls write, one after the other, a run that  *)
(* is under way works on a database that is empty or matches its baseline,   *)
(* but for what the run itself has applied.                                  *)
Fresh == ledger = <<>> /\ (\A t \in Tables : rows[t] = {}) /\ snap.state = "unknown"
Good == snap = [state |-> "pristine", print |-> Contents]
AtRest == (Fresh /\ server = "down") \/ (Good /\ server # "starting")
AsRead(p) == \A n \in 1 .. Len(run[p].read) : run[p].read[n] = rows[n]
Working == {"seen", "apply", "pending", "seedSeen", "seed", "finish"}
Straight(p) ==
    LET r == run[p] IN
    /\ r.op = "check" => r.pc \in {"row", "scan"} /\ server # "starting"
    /\ r.op = "start" => server = "starting"
    /\ r.op = "migrate" => server = "serving"
    /\ r.pc # "diverge"
    /\ r.pc = "init" => Fresh \/ Good
    /\ r.pc = "count" => Fresh
    /\ r.pc = "row" => Good \/ (r.op = "check" /\ Fresh /\ server = "down")
    /\ r.pc = "scan" => /\ AsRead(p)
                        /\ r.goal \in {"empty", "baseline"} => Fresh
                        /\ r.goal = "check" => Good /\ r.base = Contents
    /\ r.pc = "record" => r.base = Contents
    /\ r.pc \in Working => r.wasPristine /\ (r.applied \/ Good)
    /\ r.pc = "seed" => ~Seeded

PlainInv ==
    plain => /\ \A p, q \in Runs : UnderWay(p) /\ UnderWay(q) => p = q
             /\ Quiet => AtRest
             /\ \A p \in Runs : UnderWay(p) => Straight(p)

LEMMA PlainInit == Init => PlainInv
<1> SUFFICES ASSUME Init PROVE PlainInv
    OBVIOUS
<1>1. Quiet
    BY DEF Init, Quiet, UnderWay, NotBegun, Steps
<1>2. Fresh /\ server = "down"
    BY DEF Init, Fresh
<1>. QED BY <1>1, <1>2 DEF PlainInv, Quiet, AtRest

(* The one run that is under way goes on, or ends.                           *)
LEMMA PlainStep ==
    ASSUME TypeOK, PlainInv, NEW p \in Runs, UnderWay(p), Others(p), plain' => plain,
           plain' /\ UnderWay(p)' => Straight(p)',
           plain' /\ ~UnderWay(p)' => AtRest'
    PROVE  PlainInv'
<1> SUFFICES ASSUME plain' PROVE PlainInv'
    BY DEF PlainInv
<1>1. \A q \in Runs : UnderWay(q)' => q = p
    BY DEF PlainInv, Others, UnderWay
<1>2. Quiet' => ~UnderWay(p)'
    BY DEF Quiet
<1>. QED BY <1>1, <1>2 DEF PlainInv

LEMMA ContentsRead ==
    ASSUME TypeOK, NEW p \in Runs, AsRead(p), Len(run[p].read) = NTables
    PROVE  Whole(p) = Contents
<1>1. run[p].read \in [Tables -> SUBSET Content]
    BY RunFields, LenProperties DEF TypeOK, Tables
<1>2. rows \in [Tables -> SUBSET Content] /\ \A t \in Tables : run[p].read[t] = rows[t]
    BY DEF TypeOK, AsRead, Tables
<1>3. run[p].read = rows
    BY <1>1, <1>2
<1>. QED BY <1>3 DEF Whole, Contents

LEMMA PlainSnapshot ==
    ASSUME TypeOK, AllFit, PlainInv, NEW p \in Runs,
           InitSnapshot(p) \/ ReadTable(p) \/ CheckRow(p) \/ ReadShape(p)
    PROVE  PlainInv'
<1> DEFINE r == run[p]
<1>0. /\ r \in Run /\ Fits(r) /\ UnderWay(p) /\ UNCHANGED <<ledger, rows, snap, server, plain>>
      /\ (plain => Straight(p))
      /\ Len(r.read) \in Nat
    BY RunFields, LenProperties
       DEF TypeOK, AllFit, InitSnapshot, ReadTable, CheckRow, ReadShape, history, UnderWay, Steps, PlainInv
<1>1. (Fresh' <=> Fresh) /\ (Good' <=> Good) /\ Contents' = Contents
    BY <1>0 DEF Fresh, Good, Contents, Recorded
<1>2. CASE InitSnapshot(p)
    <2>1. Fits(r) /\ r.op # "check"
        BY <1>0, <1>2 DEF InitSnapshot, Fits
    <2>2. CASE r.pc = "init"
        <3>1. Goto(p, IF snap.state = "unknown" THEN "count" ELSE "row")
            BY <1>2, <2>2 DEF InitSnapshot
        <3>2. plain => (snap.state = "unknown" /\ Fresh) \/ (snap.state # "unknown" /\ Good)
            BY <1>0, <2>2 DEF Straight, Fresh, Good
        <3>3. run'[p].pc \in {"count", "row"} /\ (run'[p].pc = "count" <=> snap.state = "unknown")
                /\ run'[p].op = r.op /\ Others(p)
            BY <3>1, GotoFields DEF Steps
        <3>4. plain => Straight(p)'
            BY <1>0, <1>1, <2>1, <3>2, <3>3 DEF Straight, Working
        <3>. QED BY <1>0, <3>3, <3>4, PlainStep DEF UnderWay, Steps
    <2>3. CASE r.pc = "count"
        <3>1. plain => Fresh /\ ledger = <<>> /\ ~Seeded
            BY <1>0, <2>3 DEF Straight, Fresh, Seeded
        <3>2. CASE plain
            <4>1. Scan(p, "empty")
                BY <1>2, <2>3, <3>1, <3>2 DEF InitSnapshot
            <4>2. run'[p].pc = "scan" /\ run'[p].goal = "empty" /\ Len(run'[p].read) = 0 /\ run'[p].op = r.op /\ Others(p)
                BY <4>1, ScanFields DEF Goals
            <4>3. Straight(p)'
                BY <1>0, <1>1, <2>1, <3>1, <3>2, <4>2 DEF Straight, Working, AsRead
            <4>. QED BY <1>0, <4>2, <4>3, PlainStep DEF UnderWay, Steps
        <3>3. CASE ~plain
            BY <1>0, <3>3 DEF PlainInv
        <3>. QED BY <3>2, <3>3
    <2>. QED BY <1>2, <2>2, <2>3 DEF InitSnapshot
<1>3. CASE ReadTable(p)
    <2>1. \A n \in 1 .. Len(run'[p].read) :
             \/ run'[p].read[n] = rows[n]
             \/ n \in 1 .. Len(r.read) /\ run'[p].read[n] = r.read[n]
        BY <1>0, <1>3, ReadFields
    <2>2. r.pc = "scan"
        BY <1>3 DEF ReadTable
    <2>3. plain => Straight(p)'
        BY <1>0, <1>1, <1>3, <2>1, <2>2, ReadFields DEF Straight, AsRead, Working
    <2>. QED BY <1>0, <1>3, <2>3, ReadFields, PlainStep DEF UnderWay, Steps
<1>4. CASE CheckRow(p)
    <2>0. r.pc = "row"
        BY <1>4 DEF CheckRow
    <2>1. CASE Verdict(p, FALSE) /\ snap.state # "pristine"
        <3>1. plain => r.op = "check" /\ Fresh /\ server = "down"
            BY <1>0, <2>0, <2>1 DEF Straight, Good
        <3>2. plain => ~UnderWay(p)' /\ AtRest'
            BY <1>0, <1>1, <2>1, <3>1, VerdictFields DEF UnderWay, Steps, AtRest
        <3>. QED BY <1>0, <2>1, <3>2, VerdictFields, PlainStep
    <2>2. CASE /\ Others(p) /\ run'[p].pc = "scan" /\ run'[p].op = r.op /\ run'[p].goal = "check"
               /\ Len(run'[p].read) = 0 /\ run'[p].base = snap.print /\ snap.state = "pristine"
        <3>1. plain => Good /\ snap.print = Contents
            BY <1>0, <2>0, <2>2 DEF Straight, Good, Fresh
        <3>2. plain => Straight(p)'
            BY <1>0, <1>1, <2>2, <3>1 DEF Straight, AsRead, Working
        <3>. QED BY <1>0, <2>2, <3>2, PlainStep DEF UnderWay, Steps
    <2>. QED BY <1>4, <2>1, <2>2, CheckFields
<1>5. CASE ReadShape(p)
    <2>0. r.pc = "scan" /\ Len(r.read) = NTables
        BY <1>5 DEF ReadShape
    <2>1. plain => AsRead(p) /\ Whole(p) = Contents
        BY <1>0, <2>0, ContentsRead DEF Straight
    <2>2. CASE r.goal = "empty" /\ plain
        <3>1. \A t \in Tables : r.read[t] = {}
            BY <1>0, <2>0, <2>1, <2>2 DEF Straight, Fresh, AsRead, Tables
        <3>2. Scan(p, "baseline")
            BY <1>5, <2>2, <3>1 DEF ReadShape
        <3>3. run'[p].pc = "scan" /\ run'[p].goal = "baseline" /\ Len(run'[p].read) = 0 /\ run'[p].op = r.op /\ Others(p)
            BY <3>2, ScanFields DEF Goals
        <3>4. r.op # "check"
            BY <1>0, <2>2 DEF Fits
        <3>5. Straight(p)'
            BY <1>0, <1>1, <2>0, <2>2, <3>3, <3>4 DEF Straight, AsRead, Working
        <3>. QED BY <1>0, <3>3, <3>5, PlainStep DEF UnderWay, Steps
    <2>3. CASE r.goal = "check" /\ plain
        <3>1. Good /\ Whole(p) = r.base
            BY <1>0, <2>0, <2>1, <2>3 DEF Straight
        <3>2. Verdict(p, TRUE)
            BY <1>5, <2>3, <3>1 DEF ReadShape
        <3>3. CASE r.op = "check"
            <4>1. ~UnderWay(p)' /\ AtRest'
                BY <1>0, <1>1, <2>3, <3>1, <3>2, <3>3, VerdictFields DEF UnderWay, Steps, AtRest, Straight
            <4>. QED BY <1>0, <3>2, <4>1, VerdictFields, PlainStep
        <3>4. CASE r.op # "check"
            <4>1. run'[p].pc = "seen" /\ run'[p].op = r.op /\ run'[p].wasPristine = TRUE /\ Others(p)
                BY <3>2, <3>4, VerdictFields
            <4>2. Straight(p)'
                BY <1>0, <1>1, <2>3, <3>1, <3>4, <4>1 DEF Straight, Working
            <4>. QED BY <1>0, <4>1, <4>2, PlainStep DEF UnderWay, Steps
        <3>. QED BY <3>3, <3>4
    <2>4. CASE r.goal \notin {"empty", "check"} /\ plain
        <3>1. Update(p, [r EXCEPT !.pc = "record", !.base = Whole(p)])
            BY <1>5, <2>4 DEF ReadShape
        <3>2. Others(p) /\ run'[p].pc = "record" /\ run'[p].base = Whole(p) /\ run'[p].op = r.op
            BY <3>1, ShapeFields
        <3>3. r.op # "check"
            BY <1>0, <2>4 DEF Fits
        <3>4. Straight(p)'
            BY <1>0, <1>1, <2>1, <2>4, <3>2, <3>3 DEF Straight, Working
        <3>. QED BY <1>0, <3>2, <3>4, PlainStep DEF UnderWay, Steps
    <2>5. CASE ~plain
        BY <1>0, <2>5 DEF PlainInv
    <2>. QED BY <2>2, <2>3, <2>4, <2>5
<1>. QED BY <1>2, <1>3, <1>4, <1>5

LEMMA PlainRecord ==
    ASSUME TypeOK, AllFit, PlainInv, NEW p \in Runs, Record(p)
    PROVE  PlainInv'
<1> DEFINE r == run[p]
<1>0. /\ r \in Run /\ Fits(r) /\ UnderWay(p) /\ UNCHANGED <<ledger, rows, plain>>
      /\ r.pc = "record" /\ r.op # "check" /\ r.op \in {"start", "migrate"}
      /\ (plain => Straight(p)) /\ snap' = [state |-> "pristine", print |-> r.base]
    BY RunFields DEF TypeOK, AllFit, Fits, Record, UnderWay, Steps, PlainInv
<1>1. plain => Good'
    BY <1>0 DEF Good, Straight, Contents, Recorded
<1>2. CASE Goto(p, "row") /\ UNCHANGED server
    <2>1. run'[p].pc = "row" /\ run'[p].op = r.op /\ Others(p)
        BY <1>2, GotoFields DEF Steps
    <2>2. plain => Straight(p)'
        BY <1>0, <1>1, <1>2, <2>1 DEF Straight, Working
    <2>. QED BY <1>0, <2>1, <2>2, PlainStep DEF UnderWay, Steps
<1>3. CASE Done(p)
    <2>1. run'[p].pc = "done" /\ Others(p)
        BY <1>3, DoneFields DEF Done
    <2>2. plain => server' = "serving"
        BY <1>0, <1>3 DEF Done, Straight
    <2>3. plain => AtRest'
        BY <1>1, <2>2 DEF AtRest
    <2>. QED BY <1>0, <2>1, <2>3, PlainStep DEF UnderWay, Steps
<1>. QED BY <1>2, <1>3 DEF Record

LEMMA PlainDiverge ==
    ASSUME TypeOK, AllFit, PlainInv, NEW p \in Runs, Diverge(p)
    PROVE  PlainInv'
<1>1. ~plain
    BY DEF Diverge, PlainInv, Straight, UnderWay, Steps
<1>. QED BY <1>1 DEF Diverge, history, PlainInv

(* A step of the run between its check and its end.                          *)
LEMMA PlainWork ==
    ASSUME TypeOK, PlainInv, NEW p \in Runs, run[p].pc \in Working, Others(p),
           UNCHANGED <<ledger, rows, snap, server>>, plain' => plain,
           run[p].op # "check", run'[p].pc \in Working, run'[p].op = run[p].op,
           run'[p].wasPristine = run[p].wasPristine, run'[p].applied = run[p].applied,
           run'[p].pc = "seed" => ~Seeded
    PROVE  PlainInv'
<1>1. UnderWay(p) /\ UnderWay(p)'
    BY DEF UnderWay, Working, Steps
<1>2. (Good' <=> Good) /\ (Seeded' <=> Seeded)
    BY DEF Good, Contents, Recorded, Seeded
<1>3. plain => Straight(p)
    BY <1>1 DEF PlainInv
<1>4. plain => Straight(p)'
    BY <1>2, <1>3 DEF Straight, Working
<1>. QED BY <1>1, <1>4, PlainStep

LEMMA PlainMigrate ==
    ASSUME TypeOK, AllFit, PlainInv, NEW p \in Runs,
           LookUp(p) \/ Report(p) \/ SeedSeen(p)
    PROVE  PlainInv'
<1> DEFINE r == run[p]
<1>0. r \in Run /\ Fits(r) /\ r.pc \in Working /\ UnderWay(p) /\ UNCHANGED <<ledger, rows, snap, server>>
    BY DEF TypeOK, AllFit, LookUp, Report, SeedSeen, history, Working, UnderWay, Steps
<1>1. r.op # "check" /\ (plain' => plain)
    <2>1. r.op # "check"
        BY <1>0 DEF Fits, Working
    <2>2. CASE LookUp(p) \/ SeedSeen(p)
        <3>1. UNCHANGED plain
            BY <2>2 DEF LookUp, SeedSeen, history
        <3>. QED BY <2>1, <3>1
    <2>3. CASE Report(p)
        <3>1. plain' = (plain /\ r.op = "start")
            BY <2>3 DEF Report
        <3>2. plain' => plain
            BY <3>1, Zenon
        <3>. QED BY <2>1, <3>2
    <2>. QED BY <2>2, <2>3
<1>2. ASSUME NEW step \in Working, Goto(p, step), step = "seed" => ~Seeded PROVE PlainInv'
    <2>1. step \in Steps
        BY DEF Working, Steps
    <2>. QED BY <1>0, <1>1, <1>2, <2>1, GotoFields, PlainWork
<1>3. CASE LookUp(p)
    <2>1. CASE Goto(p, "seedSeen") \/ Goto(p, "apply")
        BY <1>2, <2>1 DEF Working
    <2>2. CASE Update(p, [r EXCEPT !.at = @ + 1])
        <3> DEFINE s == [r EXCEPT !.at = @ + 1]
        <3>1. /\ s.pc = r.pc /\ s.op = r.op /\ s.wasPristine = r.wasPristine /\ s.applied = r.applied
              /\ r.pc = "seen"
            BY <1>0, <1>3 DEF Run, LookUp
        <3>2. Update(p, s)
            BY <2>2
        <3>. HIDE DEF s
        <3>3. run'[p] = s /\ Others(p)
            BY <3>2, UpdateAny
        <3>. QED BY <1>0, <1>1, <3>1, <3>3, PlainWork
    <2>. QED BY <1>3, <2>1, <2>2 DEF LookUp
<1>4. CASE Report(p)
    <2>1. CASE r.op = "start"
        BY <1>2, <1>4, <2>1 DEF Report, Working
    <2>2. CASE r.op # "start"
        BY <1>4, <2>2 DEF Report, PlainInv
    <2>. QED BY <2>1, <2>2
<1>5. CASE SeedSeen(p)
    BY <1>2, <1>5 DEF SeedSeen, Working
<1>. QED BY <1>3, <1>4, <1>5

(* The run changes the database, and says so.                                *)
LEMMA PlainChange ==
    ASSUME TypeOK, PlainInv, NEW p \in Runs, run[p].pc \in Working, Others(p),
           UNCHANGED <<server, plain>>,
           run[p].op # "check", run'[p].pc \in Working \ {"seed"}, run'[p].op = run[p].op,
           run'[p].wasPristine = run[p].wasPristine, plain => run'[p].applied
    PROVE  PlainInv'
<1>1. UnderWay(p) /\ UnderWay(p)'
    BY DEF UnderWay, Working, Steps
<1>2. plain => Straight(p)
    BY <1>1 DEF PlainInv
<1>3. plain => Straight(p)'
    BY <1>2 DEF Straight, Working
<1>. QED BY <1>1, <1>3, PlainStep

LEMMA PlainApply ==
    ASSUME TypeOK, AllFit, PlainInv, NEW p \in Runs, Apply(p)
    PROVE  PlainInv'
<1> DEFINE r == run[p]
<1>0. r \in Run /\ Fits(r) /\ r.pc = "apply" /\ r.pc \in Working /\ r.op # "check" /\ UNCHANGED <<rows, snap, server, plain>>
    BY DEF TypeOK, AllFit, Apply, history, Working, Fits
<1>1. CASE Goto(p, "pending") /\ UNCHANGED ledger
    BY <1>0, <1>1, GotoFields, PlainWork DEF Steps, Working
<1>2. CASE Update(p, [r EXCEPT !.pc = "seen", !.at = @ + 1, !.applied = TRUE])
    <2> DEFINE s == [r EXCEPT !.pc = "seen", !.at = @ + 1, !.applied = TRUE]
    <2>1. s.pc = "seen" /\ s.op = r.op /\ s.wasPristine = r.wasPristine /\ s.applied = TRUE
        BY <1>0 DEF Run
    <2>2. Update(p, s)
        BY <1>2
    <2>. HIDE DEF s
    <2>3. run'[p] = s /\ Others(p)
        BY <2>2, UpdateAny
    <2>. QED BY <1>0, <2>1, <2>3, PlainChange DEF Working
<1>. QED BY <1>1, <1>2 DEF Apply

LEMMA PlainSeed ==
    ASSUME TypeOK, AllFit, PlainInv, NEW p \in Runs, Seed(p)
    PROVE  PlainInv'
<1> DEFINE r == run[p]
<1>0. /\ r \in Run /\ Fits(r) /\ r.pc = "seed" /\ r.pc \in Working /\ UnderWay(p) /\ r.op # "check"
      /\ UNCHANGED <<ledger, snap, server, plain>>
    BY DEF TypeOK, AllFit, Seed, history, Working, Fits, UnderWay, Steps
<1>1. PICK repeated \in BOOLEAN :
         Update(p, [r EXCEPT !.pc = "finish", !.applied = @ \/ ~Seeded \/ repeated])
    BY DEF Seed
<1> DEFINE s == [r EXCEPT !.pc = "finish", !.applied = @ \/ ~Seeded \/ repeated]
<1>2. /\ s.pc = "finish" /\ s.op = r.op /\ s.wasPristine = r.wasPristine
      /\ ~Seeded => s.applied
    BY <1>0 DEF Run
<1>3. Update(p, s)
    BY <1>1
<1>. HIDE DEF s
<1>4. run'[p] = s /\ Others(p)
    BY <1>3, UpdateAny
<1>5. plain => ~Seeded
    BY <1>0 DEF PlainInv, Straight
<1>. QED BY <1>0, <1>2, <1>4, <1>5, PlainChange DEF Working

LEMMA PlainFinish ==
    ASSUME TypeOK, AllFit, PlainInv, NEW p \in Runs, Finish(p)
    PROVE  PlainInv'
<1> DEFINE r == run[p]
<1>0. /\ r \in Run /\ Fits(r) /\ r.pc = "finish" /\ UnderWay(p) /\ r.op \in {"start", "migrate"}
      /\ UNCHANGED <<ledger, rows, snap, plain>>
      /\ (plain => Straight(p) /\ r.wasPristine)
    BY RunFields DEF TypeOK, AllFit, Finish, history, UnderWay, Steps, Fits, PlainInv, Straight, Working
<1>1. (Good' <=> Good)
    BY <1>0 DEF Good, Contents, Recorded
<1>2. CASE Scan(p, "record") /\ UNCHANGED server
    <2>1. run'[p].pc = "scan" /\ run'[p].goal = "record" /\ Len(run'[p].read) = 0 /\ run'[p].op = r.op /\ Others(p)
        BY <1>2, ScanFields DEF Goals
    <2>2. plain => Straight(p)'
        BY <1>0, <1>2, <2>1 DEF Straight, AsRead, Working
    <2>. QED BY <1>0, <2>1, <2>2, PlainStep DEF UnderWay, Steps
<1>3. CASE Done(p) /\ ~(r.applied /\ r.wasPristine)
    <2>1. run'[p].pc = "done" /\ Others(p)
        BY <1>3, DoneFields DEF Done
    <2>2. plain => Good' /\ server' = "serving"
        BY <1>0, <1>1, <1>3 DEF Done, Straight, Working
    <2>3. plain => AtRest'
        BY <2>2 DEF AtRest
    <2>. QED BY <1>0, <2>1, <2>3, PlainStep DEF UnderWay, Steps
<1>. QED BY <1>2, <1>3 DEF Finish

LEMMA PlainFault ==
    ASSUME TypeOK, AllFit, PlainInv, NEW p \in Runs, Fault(p)
    PROVE  PlainInv'
<1> DEFINE r == run[p]
<1>0. r \in Run /\ Fits(r) /\ UnderWay(p) /\ UNCHANGED <<ledger, rows, snap>>
    BY DEF TypeOK, AllFit, Fault
<1>1. CASE ~plain'
    BY <1>1 DEF PlainInv
<1>2. CASE plain'
    <2>1. /\ \/ r.pc = "apply" /\ Goto(p, "pending")
             \/ r.pc = "seed" /\ Goto(p, "finish")
          /\ UNCHANGED <<server, plain>>
        BY <1>2, Zenon DEF Fault
    <2>. QED BY <1>0, <2>1, GotoFields, PlainWork DEF Steps, Working, Fits
<1>. QED BY <1>1, <1>2

LEMMA PlainBegin ==
    ASSUME TypeOK, AllFit, PlainInv, NEW p \in Runs, Begin(p) \/ Ask(p)
    PROVE  PlainInv'
<1>0. UNCHANGED <<ledger, rows, snap>> /\ (plain' => plain /\ Quiet)
    BY DEF Begin, Ask
<1> SUFFICES ASSUME plain' PROVE PlainInv'
    BY DEF PlainInv
<1>1. plain /\ Quiet /\ AtRest
    BY <1>0 DEF PlainInv
<1>2. (Fresh' <=> Fresh) /\ (Good' <=> Good)
    BY <1>0 DEF Fresh, Good, Contents, Recorded
<1>3. Others(p)
    BY BeginFields, AskFields
<1>4. UnderWay(p)' /\ \A q \in Runs : UnderWay(q)' => q = p
    BY <1>1, <1>3, BeginFields, AskFields DEF Quiet, Others, UnderWay, Steps
<1>5. Straight(p)'
    <2>1. CASE Begin(p)
        BY <1>1, <1>2, <2>1, BeginFields DEF Straight, AtRest, Working
    <2>2. CASE Ask(p)
        <3>1. UNCHANGED server
            BY <2>2 DEF Ask
        <3>. QED BY <1>1, <1>2, <2>2, <3>1, AskFields DEF Straight, AtRest, Working
    <2>. QED BY <2>1, <2>2
<1>6. ~Quiet'
    BY <1>4 DEF Quiet
<1>. QED BY <1>4, <1>5, <1>6 DEF PlainInv

LEMMA PlainCrash ==
    ASSUME TypeOK, PlainInv, Crash
    PROVE  PlainInv'
<1> SUFFICES ASSUME plain' PROVE PlainInv'
    BY DEF PlainInv
<1>1. plain /\ Quiet /\ AtRest /\ server' = "down" /\ UNCHANGED <<ledger, rows, snap>>
    BY DEF Crash, PlainInv
<1>2. \A q \in Runs : run'[q] = run[q]
    BY <1>1 DEF Crash, Quiet, TypeOK
<1>3. (Fresh' <=> Fresh) /\ (Good' <=> Good)
    BY <1>1 DEF Fresh, Good, Contents, Recorded
<1>. QED BY <1>1, <1>2, <1>3 DEF PlainInv, Quiet, UnderWay, AtRest

LEMMA PlainNext == TypeOK /\ AllFit /\ PlainInv /\ [Next]_vars => PlainInv'
<1> SUFFICES ASSUME TypeOK, AllFit, PlainInv, [Next]_vars PROVE PlainInv'
    OBVIOUS
<1>1. CASE UserWrite
    BY <1>1 DEF UserWrite, PlainInv
<1>2. CASE Crash
    BY <1>2, PlainCrash
<1>3. ASSUME NEW p \in Runs, Begin(p) \/ Ask(p) PROVE PlainInv'
    BY <1>3, PlainBegin
<1>4. ASSUME NEW p \in Runs, InitSnapshot(p) \/ ReadTable(p) \/ CheckRow(p) \/ ReadShape(p) PROVE PlainInv'
    BY <1>4, PlainSnapshot
<1>5. ASSUME NEW p \in Runs, Record(p) \/ Diverge(p) PROVE PlainInv'
    BY <1>5, PlainRecord, PlainDiverge
<1>6. ASSUME NEW p \in Runs, LookUp(p) \/ Report(p) \/ SeedSeen(p) PROVE PlainInv'
    BY <1>6, PlainMigrate
<1>7. ASSUME NEW p \in Runs, Apply(p) \/ Seed(p) \/ Finish(p) \/ Fault(p) PROVE PlainInv'
    BY <1>7, PlainApply, PlainSeed, PlainFinish, PlainFault
<1>8. CASE UNCHANGED vars
    <2>1. (Fresh' <=> Fresh) /\ (Good' <=> Good) /\ Contents' = Contents /\ (Seeded' <=> Seeded)
        BY <1>8 DEF vars, Fresh, Good, Contents, Recorded, Seeded
    <2>. QED BY <1>8, <2>1 DEF vars, PlainInv, Quiet, UnderWay, AtRest, Straight, AsRead
<1>. QED BY <1>1, <1>2, <1>3, <1>4, <1>5, <1>6, <1>7, <1>8 DEF Next

(* A baseline never holds what users wrote while no run was under way, and a  *)
(* database that only the files have written to matches its baseline.        *)
THEOREM BaselinesAreHonest == Spec => []BaselineHonest
<1>1. BaselineInv /\ PlainInv => BaselineHonest
    BY DEF BaselineInv, PlainInv, BaselineHonest, FilesAlonePristine, AtRest, Good
<1>. QED BY <1>1, TypeInit, TypeNext, BaselineInit, BaselineNext, PlainInit, PlainNext, PTL DEF Spec

=============================================================================
