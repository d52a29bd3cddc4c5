-------------------------- MODULE RealtimeChannels --------------------------
(***************************************************************************)
(* The channels of one realtime topic and its presence map.  Joining and a    *)
(* new access token suspend the handler (the token is verified, a private     *)
(* channel is authorized, triggers are attached); leaving, presence and the   *)
(* closing of a socket do not.  A client keeps a copy of the presence map     *)
(* from the snapshot of its join and the diffs that follow.                   *)
(***************************************************************************)
EXTENDS Integers, FiniteSets

CONSTANTS
    Conns,          \* sockets; each is opened and closed at most once
    Msgs,           \* phx_join and access_token messages, each sent at most once
    Keys,           \* presence keys
    Tokens,         \* access tokens
    Readers,        \* tokens a SELECT policy lets read the private topic
    MaxRefs,        \* bound on phxRefCounter: how often clients track
    None            \* no channel, no entry, no value

ASSUME PolicyAssumption == Readers \subseteq Tokens
ASSUME RefAssumption == MaxRefs \in Nat

VARIABLES
    sock,           \* "new", "open" (in the set of connections) or "closed"
    channel,        \* conn.channels: the channel of each connection, or None
    presence,       \* key -> the one entry of its metas, or None
    refs,           \* phxRefCounter
    pc, job,        \* the next step of each message, and what it asks for
    mirror,         \* the presence map each client has put together
    tracked,        \* history: the reference of each connection's last track, or 0
    named,          \* history: the connections each key was joined under
    rekeyed,        \* history: connections joined again under another key
    latest,         \* history: the last message each connection has sent
    overlap         \* history: connections whose last message was sent beside another

vars == <<sock, channel, presence, refs, pc, job, mirror, tracked, named, rekeyed, latest, overlap>>
history == <<tracked, named, rekeyed, latest, overlap>>

Channel == [key : Keys, ctx : Tokens]
Meta == [by : Conns, ref : 1 .. MaxRefs]
Job == [op : {"join"}, conn : Conns, key : Keys, token : Tokens, private : BOOLEAN]
         \cup [op : {"token"}, conn : Conns, token : Tokens]
ASSUME NoneAssumption == None \notin Job \cup Channel
Steps == {"verify", "authorize", "bind"}
Empty == [k \in Keys |-> None]

InFlight(c) == {m \in Msgs : pc[m] \in Steps /\ job[m].conn = c}
Members == {c \in Conns : sock[c] = "open" /\ channel[c] # None}

TypeOK ==
    /\ sock \in [Conns -> {"new", "open", "closed"}]
    /\ channel \in [Conns -> Channel \cup {None}]
    /\ presence \in [Keys -> Meta \cup {None}]
    /\ refs \in 0 .. MaxRefs
    /\ pc \in [Msgs -> {"idle", "ok", "refused", "failed"} \cup Steps]
    /\ job \in [Msgs -> Job \cup {None}]
    /\ mirror \in [Conns -> [Keys -> Meta \cup {None}]]
    /\ \A k \in Keys : presence[k] # None => presence[k].ref <= refs
    /\ \A m \in Msgs : pc[m] # "idle" => job[m] # None /\ sock[job[m].conn] # "new"
    /\ \A m \in Msgs : pc[m] \in {"authorize", "bind"} => job[m].op = "join"
    /\ tracked \in [Conns -> 0 .. MaxRefs]
    /\ named \in [Keys -> SUBSET Conns]
    /\ rekeyed \in SUBSET Conns
    /\ latest \in [Conns -> Msgs \cup {None}]
    /\ overlap \in SUBSET Conns

----------------------------------------------------------------------------

Init ==
    /\ sock = [c \in Conns |-> "new"]
    /\ channel = [c \in Conns |-> None]
    /\ presence = Empty
    /\ refs = 0
    /\ pc = [m \in Msgs |-> "idle"]
    /\ job = [m \in Msgs |-> None]
    /\ mirror = [c \in Conns |-> Empty]
    /\ tracked = [c \in Conns |-> 0]
    /\ named = [k \in Keys |-> {}]
    /\ rekeyed = {}
    /\ latest = [c \in Conns |-> None]
    /\ overlap = {}

Connect(c) ==
    /\ sock[c] = "new"
    /\ sock' = [sock EXCEPT ![c] = "open"]
    /\ UNCHANGED <<channel, presence, refs, pc, job, mirror, history>>

(* A message arrives: its handler runs to the verification of its token.     *)
Receive(m) ==
    /\ pc[m] = "idle"
    /\ \E j \in Job :
        /\ sock[j.conn] = "open"
        /\ job' = [job EXCEPT ![m] = j]
        /\ latest' = [latest EXCEPT ![j.conn] = m]
        /\ overlap' = IF InFlight(j.conn) # {} THEN overlap \cup {j.conn} ELSE overlap \ {j.conn}
    /\ pc' = [pc EXCEPT ![m] = "verify"]
    /\ UNCHANGED <<sock, channel, presence, refs, mirror, tracked, named, rekeyed>>

Goto(m, step) == pc' = [pc EXCEPT ![m] = step]

(* Every channel of the topic hears of an entry that came or went.           *)
Tell(members, key, meta) ==
    mirror' = [c \in Conns |-> IF c \in members THEN [mirror[c] EXCEPT ![key] = meta]
                                                ELSE mirror[c]]

----------------------------------------------------------------------------
(* handleJoin, and access_token.                                             *)

VerifyJoin(m) ==
    /\ pc[m] = "verify" /\ job[m].op = "join"
    /\ Goto(m, IF job[m].private THEN "authorize" ELSE "bind")
    /\ UNCHANGED <<sock, channel, presence, refs, job, mirror, history>>

(* authorizePrivate: probe rows in a transaction that is rolled back; any    *)
(* error in it denies.                                                       *)
Authorize(m) ==
    /\ pc[m] = "authorize"
    /\ \/ job[m].token \in Readers /\ Goto(m, "bind")
       \/ Goto(m, "refused")
    /\ UNCHANGED <<sock, channel, presence, refs, job, mirror, history>>

BindFails(m) ==
    /\ pc[m] = "bind"
    /\ Goto(m, "failed")
    /\ UNCHANGED <<sock, channel, presence, refs, job, mirror, history>>

(* Mutant: a channel that opens is sent no snapshot.                         *)
OpenChannelUnseen(c, j) ==
    /\ channel' = [channel EXCEPT ![c] = [key |-> j.key, ctx |-> j.token]]
    /\ UNCHANGED mirror

(* The triggers are attached: the channel takes its place, whatever has       *)
(* become of the socket and of an earlier channel, and the snapshot is sent.  *)
OpenChannel(c, j) ==
    /\ channel' = [channel EXCEPT ![c] = [key |-> j.key, ctx |-> j.token]]
    /\ mirror' = [mirror EXCEPT ![c] = IF sock[c] = "open" THEN presence ELSE @]

Join(m) ==
    LET j == job[m]  c == j.conn
        renamed == channel[c] # None /\ channel[c].key # j.key
    IN /\ pc[m] = "bind"
       /\ OpenChannel(c, j)
       /\ Goto(m, "ok")
       /\ named' = [named EXCEPT ![j.key] = @ \cup {c}]
       /\ rekeyed' = IF renamed THEN rekeyed \cup {c} ELSE rekeyed
       /\ tracked' = IF renamed THEN [tracked EXCEPT ![c] = 0] ELSE tracked
       /\ UNCHANGED <<sock, presence, refs, job, latest, overlap>>

(* Mutant: the new token is verified and dropped.                            *)
SetContextNever(c, token) == UNCHANGED channel

(* The channel is looked up when the new token has been verified.            *)
SetContext(c, token) ==
    channel' = IF channel[c] = None THEN channel ELSE [channel EXCEPT ![c] = [key |-> @.key, ctx |-> token]]

AccessToken(m) ==
    LET c == job[m].conn IN
    /\ pc[m] = "verify" /\ job[m].op = "token"
    /\ SetContext(c, job[m].token)
    /\ Goto(m, "ok")
    /\ UNCHANGED <<sock, presence, refs, job, mirror, history>>

----------------------------------------------------------------------------
(* Presence, leaving and closing: each runs without a suspension.            *)

(* Mutant: the counter stands still.                                         *)
NextRefStuck == refs

NextRef == refs + 1

Track(c) ==
    LET meta == [by |-> c, ref |-> NextRef] IN
    /\ c \in Members /\ refs < MaxRefs
    /\ refs' = NextRef
    /\ presence' = [presence EXCEPT ![channel[c].key] = meta]
    /\ Tell(Members, channel[c].key, meta)
    /\ tracked' = [tracked EXCEPT ![c] = NextRef]
    /\ UNCHANGED <<sock, channel, pc, job, named, rekeyed, latest, overlap>>

Untrack(c) ==
    /\ c \in Members
    /\ presence' = [presence EXCEPT ![channel[c].key] = None]
    /\ Tell(Members, channel[c].key, None)
    /\ tracked' = [tracked EXCEPT ![c] = 0]
    /\ UNCHANGED <<sock, channel, refs, pc, job, named, rekeyed, latest, overlap>>

(* Mutant: the channel goes, the entry of its key stays.                     *)
LeaveChannelOnly(c) ==
    /\ channel' = [channel EXCEPT ![c] = None]
    /\ UNCHANGED <<presence, mirror>>

(* The channel goes, then its key's entry, of which the others are told.     *)
LeaveChannel(c) ==
    IF channel[c] = None
      THEN UNCHANGED <<channel, presence, mirror>>
      ELSE /\ channel' = [channel EXCEPT ![c] = None]
           /\ presence' = [presence EXCEPT ![channel[c].key] = None]
           /\ Tell(Members \ {c}, channel[c].key, None)

Leave(c) ==
    /\ sock[c] = "open"
    /\ LeaveChannel(c)
    /\ tracked' = [tracked EXCEPT ![c] = 0]
    /\ UNCHANGED <<sock, refs, pc, job, named, rekeyed, latest, overlap>>

(* onClose.  The messages of the connection that are in flight go on.        *)
Close(c) ==
    /\ sock[c] = "open"
    /\ sock' = [sock EXCEPT ![c] = "closed"]
    /\ LeaveChannel(c)
    /\ tracked' = [tracked EXCEPT ![c] = 0]
    /\ UNCHANGED <<refs, pc, job, named, rekeyed, latest, overlap>>

----------------------------------------------------------------------------

Handle(m) ==
    VerifyJoin(m) \/ Authorize(m) \/ BindFails(m) \/ Join(m) \/ AccessToken(m)

Next ==
    \/ \E m \in Msgs : Receive(m) \/ Handle(m)
    \/ \E c \in Conns : Connect(c) \/ Track(c) \/ Untrack(c) \/ Leave(c) \/ Close(c)

Spec == Init /\ [][Next]_vars

----------------------------------------------------------------------------
(* What clients rely on.                                                     *)

(* The snapshot of a join and the diffs after it add up: what a joined       *)
(* client shows as present is what the server holds, although joins suspend  *)
(* and other clients come, track, leave and drop meanwhile.                  *)
PresenceMirrored ==
    \A c \in Members : mirror[c] = presence

(* Whoever is shown as present has a channel on an open socket, under that   *)
(* key.  A client that joins again under another key is the exception:       *)
(* nothing removes the entry of its first key.                               *)
NoGhosts ==
    \A k \in Keys :
        presence[k] # None =>
            \/ presence[k].by \in rekeyed
            \/ presence[k].by \in Members /\ channel[presence[k].by].key = k

(* A client that tracked itself under a key nobody else joined with stays    *)
(* present, with what it tracked last, until it untracks, leaves, drops or   *)
(* changes its key; joining again does not lose it.                          *)
PresentUntilLeft ==
    \A c \in Members :
        tracked[c] # 0 /\ named[channel[c].key] = {c}
            => presence[channel[c].key] = [by |-> c, ref |-> tracked[c]]

(* The presence map says who is there, no more and no less, although a join  *)
(* may end after its socket closed, after its channel was left or after      *)
(* another join of the same socket.                                          *)
PresenceTruthful == NoGhosts /\ PresentUntilLeft

(* The identity a channel acts under is that of the last token its client     *)
(* sent, once the server has taken it, whatever was sent, refused, left and   *)
(* joined again before.  Only while the message that carries it overlaps with *)
(* an earlier one of the same socket may they end in either order.            *)
NewestTokenInForce ==
    \A c \in Members \ overlap :
        latest[c] # None /\ pc[latest[c]] = "ok" => channel[c].ctx = job[latest[c]].token

============================================================================
