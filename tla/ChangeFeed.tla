----------------------------- MODULE ChangeFeed -----------------------------
(***************************************************************************)
(* From a committed change of a row to the realtime subscribers and webhooks  *)
(* that hear of it.  The trigger notifies in commit order; each notification  *)
(* starts a dispatch that runs beside the others.  A dispatch reads the       *)
(* schema (cached), the tables with row level security (cached) and, for      *)
(* every subscriber that is bound by a policy, the row as that subscriber.    *)
(* Queries wait in line for the one connection and are answered in turn; the  *)
(* code behind an answer runs, up to its next query, before the next answer.  *)
(* A dispatch whose caches are warm and that needs no query runs at once.     *)
(***************************************************************************)
EXTENDS Integers, Sequences, FiniteSets, SequencesExt

CONSTANTS
    Users,          \* the identities that policies tell apart: a row is shown to its owner
    Anon,           \* the one of them that has not signed in
    Service,        \* the identity policies do not bind
    NSubs,          \* number of subscribers; they are visited in this order
    MaxChanges,     \* bound on the changes of the row
    MaxDdl,         \* bound on the schema changes
    Hook,           \* is there a webhook for the table
    MaxFaults,      \* bound on failing queries and scripts
    MaxMoves,       \* bound on the subscribers that leave or change identity
    None            \* no row, nothing cached

ASSUME CountAssumption == NSubs \in Nat /\ MaxChanges \in Nat /\ MaxDdl \in Nat /\ MaxMoves \in Nat /\ MaxFaults \in Nat
ASSUME IdentityAssumption == Anon \in Users /\ Service \notin Users /\ None \notin Users \cup {Service}

Subs == 1 .. NSubs
Changes == 1 .. MaxChanges
Identities == Users \cup {Service}

VARIABLES
    row,            \* the owner of the watched row, or None
    log,            \* every committed change, with the catalog version of its time
    trigger,        \* is the notify trigger attached to the table
    pending,        \* notifications not yet delivered
    catalog,        \* the table in each version of the schema
    schemaCache,    \* the version getSchemaInfo holds, or None
    rlsCache,       \* what getRlsTables holds, or None
    queue,          \* the queries that wait for the connection
    task,           \* the dispatch of each change
    sub,            \* the identity of each subscriber's channel, or None
    got,            \* what each subscriber was sent
    hooked,         \* is the webhook registered and listening
    post,           \* the changes it was posted
    since,          \* history: changes already committed when a join was answered
    hookSince,      \* history: the same for the registration of the webhook
    moved,          \* history: subscribers that left or changed identity
    disturbed,      \* history: dispatches slowed down, or others shortened, meanwhile
    blind,          \* history: dispatches with a failing query, or a spoiled cache
    faults,         \* how many queries and scripts have failed
    raced,          \* history: a schema read was under way at the last schema change
    spoiled         \* history: the last script that changed the schema failed later on

db == <<row, log, trigger, pending, catalog>>
caches == <<schemaCache, rlsCache>>
clients == <<sub, hooked, since, hookSince, moved>>
vars == <<db, caches, queue, task, got, post, clients, disturbed, blind, faults, raced, spoiled>>

(* A notification carries the new record, if there is one and the payload is *)
(* not too large for it.                                                     *)
Change == [type : {"INSERT", "UPDATE", "DELETE"}, owner : Users, record : BOOLEAN, ver : 1 .. MaxDdl + 1]
Table == [rls : BOOLEAN, key : BOOLEAN]
Steps == {"columns", "keys", "policies", "columnsAgain", "keysAgain", "visible"}
Task == [pc : {"idle", "done"} \cup Steps, ver : 0 .. MaxDdl + 1, rls : BOOLEAN, at : 0 .. NSubs,
         as : Identities \cup {None}]
Query == (Changes \X {"task"}) \cup {<<0, "schema">>}

Running == {n \in Changes : task[n].pc \in Steps}
Reading == {n \in Changes : task[n].pc \in {"keys", "keysAgain"}}
Version == Len(catalog)
Rls == catalog[Version].rls

TypeOK ==
    /\ row \in Users \cup {None}
    /\ log \in Seq(Change) /\ Len(log) <= MaxChanges
    /\ trigger \in BOOLEAN
    /\ pending \in Seq(Changes)
    /\ catalog \in Seq(Table) /\ Len(catalog) \in 1 .. MaxDdl + 1
    /\ schemaCache \in 1 .. Version \cup {None}
    /\ rlsCache \in BOOLEAN \cup {None}
    /\ queue \in Seq(Query)
    /\ Running = {queue[i][1] : i \in DOMAIN queue} \ {0}
    /\ task \in [Changes -> Task]
    /\ sub \in [Subs -> Identities \cup {None}]
    /\ got \in [Subs -> Seq([n : Changes, as : Identities])]
    /\ hooked \in BOOLEAN
    /\ post \in SUBSET Changes
    /\ since \in [Subs -> 0 .. MaxChanges] /\ hookSince \in 0 .. MaxChanges
    /\ moved \in SUBSET Subs /\ disturbed \in SUBSET Changes /\ blind \in SUBSET Changes
    /\ faults \in 0 .. MaxFaults /\ raced \in BOOLEAN /\ spoiled \in BOOLEAN

Init ==
    /\ row = None /\ log = <<>> /\ trigger = FALSE /\ pending = <<>>
    /\ catalog \in {<<table>> : table \in Table}
    /\ schemaCache \in {None, 1} /\ rlsCache \in {None, Rls}
    /\ queue = <<>>
    /\ task = [n \in Changes |-> [pc |-> "idle", ver |-> 0, rls |-> FALSE, at |-> 0, as |-> None]]
    /\ sub = [s \in Subs |-> None]
    /\ got = [s \in Subs |-> <<>>]
    /\ hooked = FALSE /\ post = {}
    /\ since = [s \in Subs |-> 0] /\ hookSince = 0
    /\ moved = {} /\ disturbed = {} /\ blind = {} /\ faults = 0 /\ raced = FALSE /\ spoiled = FALSE

----------------------------------------------------------------------------
(* The database: changes of the row, and of the schema.                      *)

Write ==
    /\ Len(log) < MaxChanges
    /\ \E owner \in Users, del, record \in BOOLEAN :
        /\ del => row = owner /\ ~record
        /\ row' = IF del THEN None ELSE owner
        /\ log' = Append(log, [type |-> IF del THEN "DELETE" ELSE IF row = None THEN "INSERT" ELSE "UPDATE",
                               owner |-> owner, record |-> record, ver |-> Version])
    /\ pending' = IF trigger THEN Append(pending, Len(log')) ELSE pending
    /\ UNCHANGED <<trigger, catalog, caches, queue, task, got, post, clients, disturbed, blind, faults, raced, spoiled>>

(* The SQL editor sends a schema change; a script may fail after it.         *)
RequestDdl ==
    /\ Version + Cardinality({i \in DOMAIN queue : queue[i][1] = 0}) <= MaxDdl
    /\ queue' = Append(queue, <<0, "schema">>)
    /\ UNCHANGED <<db, caches, task, got, post, clients, disturbed, blind, faults, raced, spoiled>>

(* Mutant: the tables with row level security stay cached.                   *)
InvalidateTables == schemaCache' = None /\ UNCHANGED rlsCache

Invalidate == schemaCache' = None /\ rlsCache' = None

RunDdl(kind) ==
    /\ \E table \in Table : catalog' = Append(catalog, table)
    /\ IF kind = "ddl" THEN Invalidate ELSE UNCHANGED caches
    /\ kind = "script" => faults < MaxFaults
    /\ faults' = IF kind = "script" THEN faults + 1 ELSE faults
    /\ spoiled' = (kind = "script")
    /\ raced' = (Reading # {})
    /\ disturbed' = disturbed \cup Running
    /\ queue' = Tail(queue)
    /\ UNCHANGED <<row, log, trigger, pending, task, got, post, clients, blind>>

----------------------------------------------------------------------------
(* Subscribers and the webhook.                                              *)

(* ensureCdcTrigger, for a join or for the registration of the webhook.      *)
AttachTrigger ==
    /\ ~trigger
    /\ trigger' = TRUE
    /\ UNCHANGED <<row, log, pending, catalog, caches, queue, task, got, post, clients, disturbed, blind, faults, raced, spoiled>>

(* Mutant: the channel is opened beside the attaching of its trigger.        *)
JoinAtOnce(s) ==
    /\ sub[s] = None /\ s \notin moved
    /\ \E i \in Identities : sub' = [sub EXCEPT ![s] = i]
    /\ since' = [since EXCEPT ![s] = Len(log)]
    /\ UNCHANGED <<db, caches, queue, task, got, post, hooked, hookSince, moved, disturbed, blind, faults, raced, spoiled>>

(* A join goes on only when its trigger is attached.                         *)
Join(s) ==
    /\ sub[s] = None /\ s \notin moved
    /\ trigger
    /\ \E i \in Identities : sub' = [sub EXCEPT ![s] = i]
    /\ since' = [since EXCEPT ![s] = Len(log)]
    /\ UNCHANGED <<db, caches, queue, task, got, post, hooked, hookSince, moved, disturbed, blind, faults, raced, spoiled>>

(* A channel is left, or acts under a new identity.                          *)
Move(s) ==
    /\ sub[s] # None /\ s \notin moved /\ Cardinality(moved) < MaxMoves
    /\ \E i \in (Identities \cup {None}) \ {sub[s]} : sub' = [sub EXCEPT ![s] = i]
    /\ moved' = moved \cup {s}
    /\ disturbed' = disturbed \cup Running
    /\ UNCHANGED <<db, caches, queue, task, got, post, hooked, since, hookSince, blind, faults, raced, spoiled>>

(* A trigger that cannot be attached is not reported: the webhook is on and  *)
(* hears what the trigger of others sends.                                   *)
Register ==
    /\ Hook /\ ~hooked
    /\ hooked' = TRUE
    /\ hookSince' = IF trigger THEN Len(log) ELSE MaxChanges
    /\ UNCHANGED <<db, caches, queue, task, got, post, sub, since, moved, disturbed, blind, faults, raced, spoiled>>

----------------------------------------------------------------------------
(* dispatchCdc.                                                              *)

(* canSee: if a policy binds the subscriber, the row is looked up by the     *)
(* primary key in the record.  Without a key or a record (a DELETE, too      *)
(* large a payload) it cannot be: the change goes to all who are signed in.  *)
CanLookUp(n, ver) == log[n].record /\ catalog[ver].key
Bound(s, rls) == rls /\ sub[s] # Service
NeedsQuery(n, s, rls, ver) == sub[s] # None /\ Bound(s, rls) /\ CanLookUp(n, ver)
Refused(n, s, rls, ver) == sub[s] = Anon /\ Bound(s, rls) /\ ~CanLookUp(n, ver)

(* The walk goes on behind subscriber at, up to the next that needs a query. *)
Stop(n, rls, ver, at) ==
    LET asked == {s \in Subs : s > at /\ NeedsQuery(n, s, rls, ver)}
    IN IF asked = {} THEN NSubs + 1 ELSE CHOOSE s \in asked : \A t \in asked : s <= t

(* Mutant: whoever has a connection is served.                               *)
ServedUnjoined(n, rls, ver, at) == {s \in Subs : s > at /\ s < Stop(n, rls, ver, at)}

Served(n, rls, ver, at) == {s \in Subs : s > at /\ s < Stop(n, rls, ver, at) /\ sub[s] # None /\ ~Refused(n, s, rls, ver)}

(* The identity is the one each was checked under.                           *)
Send(n, receivers, seen, as) ==
    got' = [s \in Subs |->
              IF s \in seen THEN Append(got[s], [n |-> n, as |-> as])
              ELSE IF s \in receivers THEN Append(got[s], [n |-> n, as |-> sub[s]])
              ELSE got[s]]

(* Mutant: the latest query is the next to run.                              *)
SuspendAhead(n, pc, ver, rls, at, line) ==
    /\ task' = [task EXCEPT ![n] = [pc |-> pc, ver |-> ver, rls |-> rls, at |-> at,
                                    as |-> IF at = 0 THEN None ELSE sub[at]]]
    /\ queue' = << <<n, "task">> >> \o line

Suspend(n, pc, ver, rls, at, line) ==
    /\ task' = [task EXCEPT ![n] = [pc |-> pc, ver |-> ver, rls |-> rls, at |-> at,
                                    as |-> IF at = 0 THEN None ELSE sub[at]]]
    /\ queue' = Append(line, <<n, "task">>)

(* at is the subscriber whose answer has come, served if it may see the row. *)
Walk(n, ver, rls, at, seen, line) ==
    /\ Send(n, Served(n, rls, ver, at), seen, task[n].as)
    /\ IF Stop(n, rls, ver, at) > NSubs
         THEN /\ task' = [task EXCEPT ![n] = [pc |-> "done", ver |-> ver, rls |-> rls, at |-> 0, as |-> None]]
              /\ queue' = line
         ELSE Suspend(n, "visible", ver, rls, Stop(n, rls, ver, at), line)

(* The schema is read once more for the primary key of a protected table.    *)
AfterPolicies(n, ver, rls, line, cached) ==
    IF rls /\ cached = None
      THEN Suspend(n, "columnsAgain", ver, rls, 0, line) /\ UNCHANGED got
      ELSE Walk(n, IF rls THEN cached ELSE ver, rls, 0, {}, line)

AfterSchema(n, ver, line) ==
    IF rlsCache = None
      THEN Suspend(n, "policies", ver, FALSE, 0, line) /\ UNCHANGED got
      ELSE AfterPolicies(n, ver, rlsCache, line, ver)

(* A notification reaches both listeners.                                    *)
Notify ==
    LET n == Head(pending) IN
    /\ pending # <<>>
    /\ pending' = Tail(pending)
    /\ post' = IF hooked THEN post \cup {n} ELSE post
    /\ IF schemaCache = None
         THEN Suspend(n, "columns", 0, FALSE, 0, queue) /\ UNCHANGED got
         ELSE AfterSchema(n, schemaCache, queue)
    /\ LET cold == schemaCache = None \/ rlsCache = None IN
        disturbed' = disturbed \cup (IF cold \/ spoiled THEN {n} ELSE {})
                               \cup (IF cold \/ ~CanLookUp(n, schemaCache) THEN Running ELSE {})
    /\ blind' = IF spoiled THEN blind \cup {n} ELSE blind
    /\ UNCHANGED <<row, log, trigger, catalog, caches, clients, faults, raced, spoiled>>

(* The first of the four queries of getSchemaInfo, and the last.             *)
ReadColumns(n) ==
    /\ task[n].pc \in {"columns", "columnsAgain"}
    /\ Suspend(n, IF task[n].pc = "columns" THEN "keys" ELSE "keysAgain", Version, task[n].rls, 0, Tail(queue))
    /\ UNCHANGED <<caches, got, blind, faults>>

ReadKeys(n) ==
    /\ task[n].pc \in {"keys", "keysAgain"}
    /\ schemaCache' = task[n].ver
    /\ UNCHANGED <<rlsCache, blind, faults>>
    /\ IF task[n].pc = "keys" THEN AfterSchema(n, task[n].ver, Tail(queue))
                              ELSE Walk(n, task[n].ver, task[n].rls, 0, {}, Tail(queue))

Fault(n) ==
    /\ faults < MaxFaults
    /\ faults' = faults + 1
    /\ blind' = blind \cup {n}

(* getRlsTables.  A failing query counts as a schema without policies.       *)
ReadPolicies(n) ==
    /\ task[n].pc = "policies"
    /\ UNCHANGED schemaCache
    /\ \/ rlsCache' = Rls /\ UNCHANGED <<blind, faults>> /\ AfterPolicies(n, task[n].ver, Rls, Tail(queue), schemaCache)
       \/ UNCHANGED rlsCache /\ Fault(n) /\ AfterPolicies(n, task[n].ver, FALSE, Tail(queue), schemaCache)

(* Mutant: the row is looked up past the policies.                           *)
VisibleToAll(as) == row # None

(* The row, as it is by now, is looked up as the subscriber; an error hides  *)
(* it.                                                                       *)
Visible(as) == row # None /\ (~Rls \/ as = Service \/ row = as)

LookUp(n) ==
    LET s == task[n].at IN
    /\ task[n].pc = "visible"
    /\ \/ /\ Walk(n, task[n].ver, task[n].rls, s, {t \in {s} : Visible(task[n].as)}, Tail(queue))
          /\ UNCHANGED <<blind, faults>>
       \/ /\ Walk(n, task[n].ver, task[n].rls, s, {}, Tail(queue))
          /\ Fault(n)
    /\ UNCHANGED caches

Answer ==
    /\ queue # <<>>
    /\ \/ queue[1][1] = 0 /\ \E kind \in {"ddl", "script"} : RunDdl(kind)
       \/ /\ queue[1][1] # 0
          /\ LET n == queue[1][1] IN ReadColumns(n) \/ ReadKeys(n) \/ ReadPolicies(n) \/ LookUp(n)
          /\ UNCHANGED <<db, post, clients, disturbed, raced, spoiled>>

Next ==
    \/ Write \/ RequestDdl \/ AttachTrigger \/ Register \/ Notify \/ Answer
    \/ \E s \in Subs : Join(s) \/ Move(s)

Spec == Init /\ [][Next]_vars

----------------------------------------------------------------------------
(* What subscribers, webhooks and the REST layer rely on.                    *)

(* A subscriber hears of the changes of a table in the order they were       *)
(* committed: dispatches that run beside each other stay in step, because    *)
(* each waits for its answers in the one line.  A change is overtaken only   *)
(* if meanwhile the later dispatch was spared queries the earlier one makes  *)
(* (a change that cannot be looked up, for want of a record or of a primary  *)
(* key; a channel left or under a new identity; a schema change), one of     *)
(* them had to fill a cache, or it began with a cache that a failing script  *)
(* had left behind.                                                          *)
NoOvertaking ==
    \A s \in Subs : \A i, j \in DOMAIN got[s] :
        i < j /\ got[s][i].n >= got[s][j].n => got[s][j].n \in disturbed

(* Under a policy, and if the table has had a primary key all along, a       *)
(* record is sent to a subscriber only if at some moment since its commit    *)
(* the row was the subscriber's to see: the look-up is made late and sees    *)
(* the row of later changes, never one of nobody's.                          *)
RecordWasVisible ==
    \A s \in Subs : \A i \in DOMAIN got[s] :
        LET n == got[s][i].n  as == got[s][i].as IN
        /\ log[n].record /\ as # Service /\ n \notin blind
        /\ \A v \in log[n].ver .. Version : catalog[v].rls
        /\ \A v \in 1 .. Version : catalog[v].key
        => as \in {log[k].owner : k \in n .. Len(log)}

(* Every change committed after a join was answered reaches the subscriber,  *)
(* if no query failed, it kept its channel and identity, and the policies    *)
(* let it see the row from the commit on, or it is signed in and the change  *)
(* cannot be looked up; one that is not signed in must be able to rely on    *)
(* the record and the key.  And every change committed after the webhook was *)
(* registered is posted.                                                     *)
Certain(n, s) ==
    \/ sub[s] = Service
    \/ \A v \in log[n].ver .. Version : ~catalog[v].rls
    \/ sub[s] # Anon /\ ~log[n].record
    \/ sub[s] # Anon /\ \A v \in 1 .. Version : ~catalog[v].key
    \/ /\ sub[s] = Anon => log[n].record /\ \A v \in 1 .. Version : catalog[v].key
       /\ \A k \in n .. Len(log) : log[k].owner = sub[s] /\ log[k].type # "DELETE"
Settled(n) == n \notin Range(pending) \cup Running
NoChangeMissed ==
    \A n \in DOMAIN log : Settled(n) =>
        /\ hooked /\ hookSince < n => n \in post
        /\ \A s \in Subs \ moved :
             sub[s] # None /\ since[s] < n /\ n \notin blind /\ Certain(n, s)
               => \E i \in DOMAIN got[s] : got[s][i].n = n

(* What the caches hold is the schema as it is.  The one query behind the    *)
(* policies is answered before the change that outdates it; of the four      *)
(* behind the tables some may be answered after it, and then, as after a     *)
(* script that fails half way, the old schema stays until the next change.   *)
CachesCurrent ==
    ~spoiled => /\ rlsCache \in {None, Rls}
                /\ raced \/ schemaCache \in {None, Version}

============================================================================
