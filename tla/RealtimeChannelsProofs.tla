----------------------- MODULE RealtimeChannelsProofs -----------------------
(***************************************************************************)
(* What the clients of a realtime topic can rely on, however many sockets,   *)
(* keys and messages there are.                                              *)
(***************************************************************************)
EXTENDS RealtimeChannels, TLAPS

LEMMA TypeInit == Init => TypeOK
BY RefAssumption DEF Init, TypeOK, Empty, Steps

(* What every message's step leaves of the type.                             *)
LEMMA GotoTyped ==
    ASSUME TypeOK, NEW m \in Msgs, pc[m] # "idle",
           NEW step \in {"ok", "refused", "failed"} \cup Steps,
           step \in {"authorize", "bind"} => job[m].op = "join",
           Goto(m, step), UNCHANGED <<sock, job>>
    PROVE  /\ pc' \in [Msgs -> {"idle", "ok", "refused", "failed"} \cup Steps]
           /\ \A n \in Msgs : pc'[n] # "idle" => job'[n] # None /\ sock'[job'[n].conn] # "new"
           /\ \A n \in Msgs : pc'[n] \in {"authorize", "bind"} => job'[n].op = "join"
BY DEF TypeOK, Goto

LEMMA JobTyped ==
    ASSUME TypeOK, NEW m \in Msgs, pc[m] # "idle"
    PROVE  /\ job[m] \in Job /\ job[m].conn \in Conns /\ job[m].token \in Tokens
           /\ job[m].op = "join" => job[m].key \in Keys
BY DEF TypeOK, Job

LEMMA TellTyped ==
    ASSUME TypeOK, NEW members, NEW key \in Keys, NEW meta \in Meta \cup {None}, Tell(members, key, meta)
    PROVE  mirror' \in [Conns -> [Keys -> Meta \cup {None}]]
BY DEF TypeOK, Tell

LEMMA MemberTyped ==
    ASSUME TypeOK, NEW c \in Conns, channel[c] # None
    PROVE  channel[c] \in Channel /\ channel[c].key \in Keys /\ channel[c].ctx \in Tokens
BY DEF TypeOK, Channel

LEMMA LeaveTyped ==
    ASSUME TypeOK, NEW c \in Conns, LeaveChannel(c), UNCHANGED refs
    PROVE  /\ channel' \in [Conns -> Channel \cup {None}]
           /\ presence' \in [Keys -> Meta \cup {None}]
           /\ mirror' \in [Conns -> [Keys -> Meta \cup {None}]]
           /\ \A k \in Keys : presence'[k] # None => presence'[k].ref <= refs'
<1>1. CASE channel[c] = None
    BY <1>1 DEF LeaveChannel, TypeOK
<1>2. CASE channel[c] # None
    <2>1. channel[c].key \in Keys
        BY <1>2, MemberTyped
    <2>2. mirror' \in [Conns -> [Keys -> Meta \cup {None}]]
        BY <1>2, <2>1, TellTyped DEF LeaveChannel
    <2>. QED BY <1>2, <2>1, <2>2 DEF LeaveChannel, TypeOK
<1>. QED BY <1>1, <1>2

LEMMA TypeNext == TypeOK /\ [Next]_vars => TypeOK'
<1> SUFFICES ASSUME TypeOK, [Next]_vars PROVE TypeOK'
    OBVIOUS
<1>1. ASSUME NEW c \in Conns, Connect(c) PROVE TypeOK'
    BY <1>1 DEF Connect, history, TypeOK, Job
<1>2. ASSUME NEW m \in Msgs, Receive(m) PROVE TypeOK'
    <2>1. PICK j \in Job : /\ sock[j.conn] = "open" /\ job' = [job EXCEPT ![m] = j]
                           /\ latest' = [latest EXCEPT ![j.conn] = m]
                           /\ overlap' = IF InFlight(j.conn) # {} THEN overlap \cup {j.conn}
                                                                 ELSE overlap \ {j.conn}
        BY <1>2 DEF Receive
    <2>2. j.conn \in Conns /\ j # None
        BY NoneAssumption DEF Job
    <2>3. job' \in [Msgs -> Job \cup {None}] /\ latest' \in [Conns -> Msgs \cup {None}] /\ overlap' \in SUBSET Conns
        BY <2>1, <2>2 DEF TypeOK
    <2>4. pc' = [pc EXCEPT ![m] = "verify"]
        BY <1>2 DEF Receive
    <2>5. pc' \in [Msgs -> {"idle", "ok", "refused", "failed"} \cup Steps]
        BY <2>4 DEF TypeOK, Steps
    <2>6. \A n \in Msgs : pc'[n] # "idle" => job'[n] # None /\ sock[job'[n].conn] # "new"
        BY <2>1, <2>2, <2>4 DEF TypeOK
    <2>7. \A n \in Msgs : pc'[n] \in {"authorize", "bind"} => job'[n].op = "join"
        BY <2>1, <2>4 DEF TypeOK
    <2>. QED BY <1>2, <2>3, <2>5, <2>6, <2>7 DEF Receive, TypeOK
<1>3. ASSUME NEW m \in Msgs, VerifyJoin(m) PROVE TypeOK'
    <2>1. PICK step \in {"authorize", "bind"} : Goto(m, step)
        BY <1>3 DEF VerifyJoin
    <2>2. pc[m] # "idle" /\ job[m].op = "join"
        BY <1>3 DEF VerifyJoin
    <2>. QED BY <1>3, <2>1, <2>2, GotoTyped DEF VerifyJoin, history, TypeOK, Steps
<1>4. ASSUME NEW m \in Msgs, Authorize(m) PROVE TypeOK'
    <2>1. PICK step \in {"refused", "bind"} : Goto(m, step)
        BY <1>4 DEF Authorize
    <2>2. pc[m] # "idle" /\ job[m].op = "join"
        BY <1>4 DEF Authorize, TypeOK
    <2>. QED BY <1>4, <2>1, <2>2, GotoTyped DEF Authorize, history, TypeOK, Steps
<1>5. ASSUME NEW m \in Msgs, BindFails(m) PROVE TypeOK'
    <2>1. pc[m] # "idle"
        BY <1>5 DEF BindFails
    <2>. QED BY <1>5, <2>1, GotoTyped DEF BindFails, history, TypeOK, Steps
<1>6. ASSUME NEW m \in Msgs, Join(m) PROVE TypeOK'
    <2>1. pc[m] # "idle" /\ job[m].op = "join"
        BY <1>6 DEF Join, TypeOK
    <2>2. job[m].conn \in Conns /\ job[m].token \in Tokens /\ job[m].key \in Keys
        BY <2>1, JobTyped
    <2>3. Goto(m, "ok") /\ UNCHANGED <<sock, job>>
        BY <1>6 DEF Join
    <2>4. channel' \in [Conns -> Channel \cup {None}]
        BY <1>6, <2>2 DEF Join, OpenChannel, TypeOK, Channel
    <2>5. mirror' \in [Conns -> [Keys -> Meta \cup {None}]]
        BY <1>6, <2>2 DEF Join, OpenChannel, TypeOK
    <2>6. named' \in [Keys -> SUBSET Conns] /\ rekeyed' \in SUBSET Conns /\ tracked' \in [Conns -> 0 .. MaxRefs]
        BY <1>6, <2>2, RefAssumption DEF Join, TypeOK
    <2>. QED BY <1>6, <2>1, <2>3, <2>4, <2>5, <2>6, GotoTyped DEF Join, TypeOK
<1>7. ASSUME NEW m \in Msgs, AccessToken(m) PROVE TypeOK'
    <2>1. pc[m] # "idle"
        BY <1>7 DEF AccessToken
    <2>2. job[m].conn \in Conns /\ job[m].token \in Tokens
        BY <2>1, JobTyped
    <2>3. Goto(m, "ok") /\ UNCHANGED <<sock, job>>
        BY <1>7 DEF AccessToken
    <2>4. channel' \in [Conns -> Channel \cup {None}]
        BY <1>7, <2>2, MemberTyped DEF AccessToken, SetContext, TypeOK, Channel
    <2>. QED BY <1>7, <2>1, <2>3, <2>4, GotoTyped DEF AccessToken, history, TypeOK
<1>8. ASSUME NEW c \in Conns, Track(c) PROVE TypeOK'
    <2>1. channel[c].key \in Keys
        BY <1>8, MemberTyped DEF Track, Members
    <2>2. refs \in Nat /\ refs + 1 \in 1 .. MaxRefs
        BY <1>8, RefAssumption DEF Track, TypeOK
    <2>3. [by |-> c, ref |-> refs + 1] \in Meta
        BY <2>2 DEF Meta
    <2>4. mirror' \in [Conns -> [Keys -> Meta \cup {None}]]
        BY <1>8, <2>1, <2>3, TellTyped DEF Track, NextRef
    <2>5. presence' = [presence EXCEPT ![channel[c].key] = [by |-> c, ref |-> refs + 1]] /\ refs' = refs + 1
        BY <1>8 DEF Track, NextRef
    <2>6. presence' \in [Keys -> Meta \cup {None}]
        BY <2>1, <2>3, <2>5 DEF TypeOK
    <2>7. \A k \in Keys : presence'[k] # None => presence'[k].ref <= refs'
        <3> TAKE k \in Keys
        <3>1. CASE k = channel[c].key
            BY <2>1, <2>2, <2>5, <3>1 DEF TypeOK
        <3>2. CASE k # channel[c].key
            <4>1. presence'[k] = presence[k] /\ (presence[k] # None => presence[k].ref \in Int)
                BY <2>1, <2>5, <3>2 DEF TypeOK, Meta
            <4>. QED BY <2>2, <2>5, <4>1 DEF TypeOK
        <3>. QED BY <3>1, <3>2
    <2>8. refs' \in 0 .. MaxRefs /\ tracked' \in [Conns -> 0 .. MaxRefs]
        BY <1>8, <2>2 DEF Track, NextRef, TypeOK
    <2>. QED BY <1>8, <2>4, <2>6, <2>7, <2>8 DEF Track, TypeOK
<1>9. ASSUME NEW c \in Conns, Untrack(c) PROVE TypeOK'
    <2>1. channel[c].key \in Keys
        BY <1>9, MemberTyped DEF Untrack, Members
    <2>2. mirror' \in [Conns -> [Keys -> Meta \cup {None}]]
        BY <1>9, <2>1, TellTyped DEF Untrack
    <2>3. presence' \in [Keys -> Meta \cup {None}] /\ \A k \in Keys : presence'[k] # None => presence'[k] = presence[k]
        BY <1>9, <2>1 DEF Untrack, TypeOK
    <2>4. tracked' \in [Conns -> 0 .. MaxRefs]
        BY <1>9, RefAssumption DEF Untrack, TypeOK
    <2>. QED BY <1>9, <2>2, <2>3, <2>4 DEF Untrack, TypeOK
<1>10. ASSUME NEW c \in Conns, Leave(c) PROVE TypeOK'
    <2>1. tracked' \in [Conns -> 0 .. MaxRefs]
        BY <1>10, RefAssumption DEF Leave, TypeOK
    <2>. QED BY <1>10, <2>1, LeaveTyped DEF Leave, TypeOK
<1>11. ASSUME NEW c \in Conns, Close(c) PROVE TypeOK'
    <2>1. tracked' \in [Conns -> 0 .. MaxRefs] /\ sock' \in [Conns -> {"new", "open", "closed"}]
        BY <1>11, RefAssumption DEF Close, TypeOK
    <2>2. \A n \in Msgs : pc[n] # "idle" => job[n] # None /\ sock'[job[n].conn] # "new"
        BY <1>11 DEF Close, TypeOK
    <2>. QED BY <1>11, <2>1, <2>2, LeaveTyped DEF Close, TypeOK
<1>12. CASE UNCHANGED vars
    BY <1>12 DEF vars, TypeOK
<1>. QED BY <1>1, <1>2, <1>3, <1>4, <1>5, <1>6, <1>7, <1>8, <1>9, <1>10, <1>11, <1>12 DEF Next, Handle

(* Sockets, channels, presence entries and copies of them keep their form.   *)
THEOREM RealtimeTypeOK == Spec => []TypeOK
BY TypeInit, TypeNext, PTL DEF Spec

(* ------------------------------- Presence ------------------------------- *)

(* A socket that is not open yet has no channel, a channel's connection was   *)
(* joined under its key, and only members have tracked themselves.           *)
Joined ==
    /\ \A c \in Conns : sock[c] = "new" => channel[c] = None
    /\ \A c \in Conns : channel[c] # None => c \in named[channel[c].key]
    /\ \A c \in Conns : tracked[c] # 0 => c \in Members

PresenceInv == Joined /\ PresenceMirrored /\ NoGhosts /\ PresentUntilLeft

LEMMA PresenceInit == Init => PresenceInv
BY DEF Init, PresenceInv, Joined, PresenceMirrored, NoGhosts, PresentUntilLeft, Members, Empty

(* A step that touches neither channels nor presence.                        *)
LEMMA PresenceUntouched ==
    ASSUME PresenceInv, UNCHANGED <<sock, channel, presence, mirror, tracked, named, rekeyed>>
    PROVE  PresenceInv'
BY DEF PresenceInv, Joined, PresenceMirrored, NoGhosts, PresentUntilLeft, Members

LEMMA ConnectPresence ==
    ASSUME TypeOK, PresenceInv, NEW c \in Conns, Connect(c)
    PROVE  PresenceInv'
<1>1. Members' = Members
    BY DEF Connect, Members, TypeOK, PresenceInv, Joined
<1>2. UNCHANGED <<channel, presence, mirror, tracked, named, rekeyed>>
    BY DEF Connect, history
<1>3. \A d \in Conns : sock'[d] = "new" => sock[d] = "new"
    BY DEF Connect, TypeOK
<1>. QED BY <1>1, <1>2, <1>3 DEF PresenceInv, Joined, PresenceMirrored, NoGhosts, PresentUntilLeft

LEMMA TokenPresence ==
    ASSUME TypeOK, PresenceInv, NEW m \in Msgs, AccessToken(m)
    PROVE  PresenceInv'
<1>1. job[m].conn \in Conns /\ job[m].token \in Tokens
    BY JobTyped DEF AccessToken
<1>2. \A c \in Conns : /\ (channel'[c] # None) <=> (channel[c] # None)
                       /\ channel[c] # None => channel'[c].key = channel[c].key
    <2>1. CASE channel[job[m].conn] = None
        BY <2>1 DEF AccessToken, SetContext
    <2>2. CASE channel[job[m].conn] # None
        <3> DEFINE new == [key |-> channel[job[m].conn].key, ctx |-> job[m].token]
        <3>1. channel[job[m].conn] \in Channel
            BY <1>1, <2>2, MemberTyped
        <3>2. new \in Channel /\ new # None /\ new.key = channel[job[m].conn].key
            BY <1>1, <3>1, NoneAssumption DEF Channel
        <3>3. channel' = [channel EXCEPT ![job[m].conn] = new]
            BY <2>2, <3>1 DEF AccessToken, SetContext, Channel
        <3>. HIDE DEF new
        <3>. QED BY <1>1, <2>2, <3>2, <3>3 DEF TypeOK
    <2>. QED BY <2>1, <2>2
<1>3. UNCHANGED <<sock, presence, mirror, tracked, named, rekeyed>>
    BY DEF AccessToken, history
<1>4. Members' = Members
    BY <1>2, <1>3 DEF Members
<1>. QED BY <1>2, <1>3, <1>4 DEF PresenceInv, Joined, PresenceMirrored, NoGhosts, PresentUntilLeft, Members

LEMMA JoinPresence ==
    ASSUME TypeOK, PresenceInv, NEW m \in Msgs, Join(m)
    PROVE  PresenceInv'
<1> DEFINE c == job[m].conn
           new == [key |-> job[m].key, ctx |-> job[m].token]
           renamed == channel[c] # None /\ channel[c].key # job[m].key
<1>1. c \in Conns /\ job[m].key \in Keys /\ new \in Channel /\ new # None /\ new.key = job[m].key
    <2>1. pc[m] # "idle" /\ job[m].op = "join"
        BY DEF Join, TypeOK
    <2>. QED BY <2>1, JobTyped, NoneAssumption DEF Channel
<1>2. /\ channel' = [channel EXCEPT ![c] = new]
      /\ mirror' = [mirror EXCEPT ![c] = IF sock[c] = "open" THEN presence ELSE @]
      /\ named' = [named EXCEPT ![new.key] = @ \cup {c}]
      /\ rekeyed' = IF renamed THEN rekeyed \cup {c} ELSE rekeyed
      /\ tracked' = IF renamed THEN [tracked EXCEPT ![c] = 0] ELSE tracked
      /\ UNCHANGED <<sock, presence>>
    BY <1>1 DEF Join, OpenChannel
<1>. HIDE DEF c, new
<1>3. channel'[c] = new /\ \A d \in Conns \ {c} : channel'[d] = channel[d]
    BY <1>1, <1>2 DEF TypeOK
<1>4. Members' = Members \cup {d \in {c} : sock[c] = "open"}
    BY <1>1, <1>2, <1>3 DEF Members
<1>5. Joined'
    <2>1. sock[c] # "new"
        BY DEF Join, TypeOK, c
    <2>2. named'[new.key] = named[new.key] \cup {c} /\ \A k \in Keys : named[k] \subseteq named'[k]
        BY <1>1, <1>2 DEF TypeOK
    <2>3. \A d \in Conns : channel[d] # None => channel[d].key \in Keys
        BY MemberTyped
    <2>4. \A d \in Conns : tracked'[d] # 0 => tracked[d] # 0
        BY <1>1, <1>2 DEF TypeOK
    <2>. QED BY <1>1, <1>2, <1>3, <1>4, <2>1, <2>2, <2>3, <2>4 DEF PresenceInv, Joined
<1>6. PresenceMirrored'
    BY <1>1, <1>2, <1>4 DEF PresenceInv, PresenceMirrored, TypeOK, Members
<1>7. NoGhosts'
    <2> SUFFICES ASSUME NEW k \in Keys, presence[k] # None, presence[k].by \notin rekeyed'
                 PROVE  presence[k].by \in Members' /\ channel'[presence[k].by].key = k
        BY <1>2 DEF NoGhosts
    <2>1. presence[k].by \in Members /\ channel[presence[k].by].key = k
        BY <1>2 DEF PresenceInv, NoGhosts
    <2>. QED BY <1>1, <1>2, <1>3, <1>4, <2>1 DEF Members
<1>8. PresentUntilLeft'
    <2> SUFFICES ASSUME NEW d \in Members', tracked'[d] # 0, named'[channel'[d].key] = {d}
                 PROVE  presence[channel'[d].key] = [by |-> d, ref |-> tracked'[d]]
        BY <1>2 DEF PresentUntilLeft
    <2>1. tracked'[d] = tracked[d] /\ tracked[d] # 0 /\ d \in Members
        BY <1>1, <1>2, <1>4 DEF PresenceInv, Joined, TypeOK, Members
    <2>2. channel'[d].key = channel[d].key
        BY <1>1, <1>2, <1>3, <2>1 DEF Members, TypeOK
    <2>3. channel[d].key \in Keys /\ d \in named[channel[d].key]
        BY <2>1, MemberTyped DEF PresenceInv, Joined, Members
    <2>4. named[channel[d].key] \subseteq named'[channel[d].key]
        BY <1>1, <1>2, <2>3 DEF TypeOK
    <2>5. named[channel[d].key] = {d}
        BY <2>2, <2>3, <2>4
    <2>. QED BY <2>1, <2>2, <2>5 DEF PresenceInv, PresentUntilLeft
<1>. QED BY <1>5, <1>6, <1>7, <1>8 DEF PresenceInv

LEMMA TrackPresence ==
    ASSUME TypeOK, PresenceInv, NEW c \in Conns, Track(c)
    PROVE  PresenceInv'
<1> DEFINE key == channel[c].key
           meta == [by |-> c, ref |-> refs + 1]
<1>1. /\ c \in Members /\ channel[c] # None /\ key \in Keys /\ refs + 1 # 0
      /\ meta.by = c
    BY MemberTyped, RefAssumption DEF Track, Members, TypeOK
<1>2. /\ presence' = [presence EXCEPT ![key] = meta]
      /\ Tell(Members, key, meta)
      /\ tracked' = [tracked EXCEPT ![c] = refs + 1]
      /\ UNCHANGED <<sock, channel, named, rekeyed>>
    BY DEF Track, NextRef
<1>3. Members' = Members
    BY <1>2 DEF Members
<1>4. Joined'
    BY <1>1, <1>2, <1>3 DEF PresenceInv, Joined, TypeOK
<1> DEFINE entry == meta
<1>. HIDE DEF key, entry
<1>5. presence'[key] = entry /\ \A k \in Keys \ {key} : presence'[k] = presence[k]
    BY <1>1, <1>2 DEF TypeOK, entry
<1>6. PresenceMirrored'
    BY <1>1, <1>2, <1>3 DEF PresenceInv, PresenceMirrored, Tell, TypeOK, Members
<1>7. NoGhosts'
    <2> SUFFICES ASSUME NEW k \in Keys, presence'[k] # None, presence'[k].by \notin rekeyed'
                 PROVE  presence'[k].by \in Members' /\ channel'[presence'[k].by].key = k
        BY DEF NoGhosts
    <2>1. CASE k = key
        BY <1>1, <1>2, <1>3, <1>5, <2>1 DEF key, entry
    <2>2. CASE k # key
        BY <1>2, <1>3, <1>5, <2>2 DEF PresenceInv, NoGhosts
    <2>. QED BY <2>1, <2>2
<1>8. PresentUntilLeft'
    <2> SUFFICES ASSUME NEW d \in Members, tracked'[d] # 0, named[channel[d].key] = {d}
                 PROVE  presence'[channel[d].key] = [by |-> d, ref |-> tracked'[d]]
        BY <1>2, <1>3 DEF PresentUntilLeft
    <2>1. CASE d = c
        BY <1>1, <1>2, <1>5, <2>1 DEF TypeOK, Members, key, entry
    <2>2. CASE d # c
        <3>1. channel[d].key # key
            BY <1>1, <2>2 DEF PresenceInv, Joined, key
        <3>2. channel[d].key \in Keys
            BY MemberTyped DEF Members
        <3>3. tracked'[d] = tracked[d]
            BY <1>2, <2>2 DEF TypeOK, Members
        <3>. QED BY <1>5, <3>1, <3>2, <3>3 DEF PresenceInv, PresentUntilLeft
    <2>. QED BY <2>1, <2>2
<1>. QED BY <1>4, <1>6, <1>7, <1>8 DEF PresenceInv

LEMMA MirrorTold ==
    ASSUME TypeOK, PresenceMirrored, NEW key \in Keys, NEW meta, NEW told \in SUBSET Members,
           presence' = [presence EXCEPT ![key] = meta], Tell(told, key, meta)
    PROVE  \A c \in told : mirror'[c] = presence'
BY DEF PresenceMirrored, Tell, Members

(* The entry of a key goes with the last word of one of its members, who has  *)
(* its channel still or not.                                                 *)
LEMMA EntryGone ==
    ASSUME TypeOK, PresenceInv, NEW c \in Members, UNCHANGED <<named, rekeyed>>,
           presence' = [presence EXCEPT ![channel[c].key] = None],
           tracked' = [tracked EXCEPT ![c] = 0],
           \/ Tell(Members, channel[c].key, None) /\ UNCHANGED <<sock, channel>>
           \/ /\ Tell(Members \ {c}, channel[c].key, None)
              /\ channel' = [channel EXCEPT ![c] = None]
              /\ sock' \in {sock, [sock EXCEPT ![c] = "closed"]}
    PROVE  PresenceInv'
<1>1. c \in Conns /\ channel[c] # None /\ channel[c].key \in Keys
    BY MemberTyped DEF Members
<1>2. /\ Members' = Members \/ Members' = Members \ {c}
      /\ \A d \in Conns : channel'[d] # None => channel'[d] = channel[d]
      /\ \A d \in Members' : channel'[d] = channel[d]
    BY <1>1 DEF Members, TypeOK
<1>3. \A d \in Conns : d # c => tracked'[d] = tracked[d]
    BY DEF TypeOK
<1>4. tracked'[c] = 0 /\ \A d \in Members \ {c} : d \in Members'
    BY <1>1 DEF TypeOK, Members
<1>5. Joined'
    <2>1. \A d \in Conns : sock'[d] = "new" => sock[d] = "new"
        BY <1>1 DEF TypeOK
    <2>2. \A d \in Conns : sock[d] = "new" => channel'[d] = None
        BY <1>2 DEF PresenceInv, Joined
    <2>3. \A d \in Conns : channel'[d] # None => d \in named'[channel'[d].key]
        BY <1>2 DEF PresenceInv, Joined
    <2>4. \A d \in Conns : tracked'[d] # 0 => d \in Members'
        BY <1>3, <1>4 DEF PresenceInv, Joined
    <2>. QED BY <2>1, <2>2, <2>3, <2>4 DEF Joined
<1>6. PresenceMirrored'
    <2>1. CASE Tell(Members, channel[c].key, None) /\ UNCHANGED <<sock, channel>>
        <3>1. \A d \in Members : mirror'[d] = presence'
            BY <1>1, <2>1, MirrorTold DEF PresenceInv
        <3>. QED BY <2>1, <3>1 DEF PresenceMirrored, Members
    <2>2. CASE /\ Tell(Members \ {c}, channel[c].key, None)
               /\ channel' = [channel EXCEPT ![c] = None]
               /\ sock' \in {sock, [sock EXCEPT ![c] = "closed"]}
        <3>1. Members \ {c} \in SUBSET Members
            OBVIOUS
        <3>2. \A d \in Members \ {c} : mirror'[d] = presence'
            BY <1>1, <2>2, <3>1, MirrorTold DEF PresenceInv
        <3>3. Members' \subseteq Members \ {c}
            BY <1>1, <2>2 DEF Members, TypeOK
        <3>. QED BY <3>2, <3>3 DEF PresenceMirrored
    <2>. QED BY <2>1, <2>2
<1>7. NoGhosts'
    <2> SUFFICES ASSUME NEW k \in Keys, presence'[k] # None, presence'[k].by \notin rekeyed
                 PROVE  presence'[k].by \in Members' /\ channel'[presence'[k].by].key = k
        BY DEF NoGhosts
    <2>1. k # channel[c].key /\ presence'[k] = presence[k]
        BY <1>1 DEF TypeOK
    <2>2. presence[k].by \in Members /\ channel[presence[k].by].key = k
        BY <2>1 DEF PresenceInv, NoGhosts
    <2>. QED BY <1>2, <1>4, <2>1, <2>2
<1>8. PresentUntilLeft'
    <2> SUFFICES ASSUME NEW d \in Members', tracked'[d] # 0, named[channel'[d].key] = {d}
                 PROVE  presence'[channel'[d].key] = [by |-> d, ref |-> tracked'[d]]
        BY DEF PresentUntilLeft
    <2>1. d \in Members /\ d # c /\ channel'[d] = channel[d]
        BY <1>2, <1>4
    <2>2. channel[d].key # channel[c].key /\ channel[d].key \in Keys
        BY <1>1, <2>1, MemberTyped DEF PresenceInv, Joined, Members
    <2>3. presence'[channel[d].key] = presence[channel[d].key]
        BY <1>1, <2>2 DEF TypeOK
    <2>. QED BY <1>3, <2>1, <2>3 DEF PresenceInv, PresentUntilLeft, Members
<1>. QED BY <1>5, <1>6, <1>7, <1>8 DEF PresenceInv

LEMMA LeavePresence ==
    ASSUME TypeOK, PresenceInv, NEW c \in Conns, sock[c] = "open", LeaveChannel(c),
           sock' \in {sock, [sock EXCEPT ![c] = "closed"]},
           tracked' = [tracked EXCEPT ![c] = 0], UNCHANGED <<named, rekeyed>>
    PROVE  PresenceInv'
<1>1. CASE channel[c] = None
    <2>1. UNCHANGED <<channel, presence, mirror>>
        BY <1>1 DEF LeaveChannel
    <2>2. Members' = Members
        BY <1>1, <2>1 DEF Members, TypeOK
    <2>3. \A d \in Conns : tracked'[d] = tracked[d]
        BY <1>1 DEF TypeOK, PresenceInv, Joined, Members
    <2>4. \A d \in Conns : sock'[d] = "new" => sock[d] = "new"
        BY DEF TypeOK
    <2>. QED BY <2>1, <2>2, <2>3, <2>4
             DEF PresenceInv, Joined, PresenceMirrored, NoGhosts, PresentUntilLeft, Members
<1>2. CASE channel[c] # None
    BY <1>2, EntryGone DEF LeaveChannel, Members
<1>. QED BY <1>1, <1>2

LEMMA PresenceNext == TypeOK /\ PresenceInv /\ [Next]_vars => PresenceInv'
<1> SUFFICES ASSUME TypeOK, PresenceInv, [Next]_vars PROVE PresenceInv'
    OBVIOUS
<1>1. ASSUME NEW c \in Conns, Connect(c) PROVE PresenceInv'
    BY <1>1, ConnectPresence
<1>2. ASSUME NEW m \in Msgs, Receive(m) \/ VerifyJoin(m) \/ Authorize(m) \/ BindFails(m) PROVE PresenceInv'
    BY <1>2, PresenceUntouched DEF Receive, VerifyJoin, Authorize, BindFails, history
<1>3. ASSUME NEW m \in Msgs, Join(m) PROVE PresenceInv'
    BY <1>3, JoinPresence
<1>4. ASSUME NEW m \in Msgs, AccessToken(m) PROVE PresenceInv'
    BY <1>4, TokenPresence
<1>5. ASSUME NEW c \in Conns, Track(c) PROVE PresenceInv'
    BY <1>5, TrackPresence
<1>6. ASSUME NEW c \in Conns, Untrack(c) PROVE PresenceInv'
    BY <1>6, EntryGone DEF Untrack
<1>7. ASSUME NEW c \in Conns, Leave(c) PROVE PresenceInv'
    BY <1>7, LeavePresence DEF Leave
<1>8. ASSUME NEW c \in Conns, Close(c) PROVE PresenceInv'
    BY <1>8, LeavePresence DEF Close
<1>9. CASE UNCHANGED vars
    BY <1>9, PresenceUntouched DEF vars
<1>. QED BY <1>1, <1>2, <1>3, <1>4, <1>5, <1>6, <1>7, <1>8, <1>9 DEF Next, Handle

(* The snapshot of a join and the diffs after it add up to the server's map,  *)
(* for every joined client and after any history.                            *)
THEOREM ClientsMirrorPresence == Spec => []PresenceMirrored
<1>1. PresenceInv => PresenceMirrored
    BY DEF PresenceInv
<1>. QED BY <1>1, TypeInit, TypeNext, PresenceInit, PresenceNext, PTL DEF Spec

(* Whoever is shown is there, and whoever tracked is shown.                  *)
THEOREM PresenceIsTruthful == Spec => []PresenceTruthful
<1>1. PresenceInv => PresenceTruthful
    BY DEF PresenceInv, PresenceTruthful
<1>. QED BY <1>1, TypeInit, TypeNext, PresenceInit, PresenceNext, PTL DEF Spec

(* -------------------------------- Tokens -------------------------------- *)

(* The last message of a connection is its only one in flight, unless it      *)
(* overlapped; once taken, it has set the identity of the channel.           *)
TokenInv ==
    /\ \A c \in Conns : latest[c] # None => pc[latest[c]] # "idle" /\ job[latest[c]].conn = c
    /\ \A c \in Conns \ overlap : InFlight(c) \subseteq {latest[c]}
    /\ \A c \in Conns \ overlap :
          channel[c] # None /\ latest[c] # None /\ pc[latest[c]] = "ok"
              => channel[c].ctx = job[latest[c]].token

LEMMA TokenInit == Init => TokenInv
BY DEF Init, TokenInv, InFlight, Steps

(* The channels' tokens stay while no message ends.                          *)
LEMMA TokenUntouched ==
    ASSUME TokenInv, UNCHANGED <<pc, job, latest, overlap>>,
           \A c \in Conns : channel'[c] # None => channel'[c] = channel[c]
    PROVE  TokenInv'
BY DEF TokenInv, InFlight

(* A message goes on, or is refused.                                         *)
LEMMA TokenStep ==
    ASSUME TypeOK, TokenInv, NEW m \in Msgs, pc[m] \in Steps, NEW step \in Steps \cup {"refused", "failed"},
           Goto(m, step), UNCHANGED <<channel, job, latest, overlap>>
    PROVE  TokenInv'
<1>1. /\ pc'[m] = step /\ step # "idle" /\ step # "ok"
      /\ \A n \in Msgs \ {m} : pc'[n] = pc[n]
    BY DEF Goto, TypeOK, Steps
<1>2. \A c \in Conns : InFlight(c)' \subseteq InFlight(c)
    BY <1>1 DEF InFlight
<1>3. \A c \in Conns : latest[c] # None => latest[c] \in Msgs
    BY DEF TypeOK
<1>. QED BY <1>1, <1>2, <1>3 DEF TokenInv

(* A message ends well, with its token in force.                             *)
LEMMA TokenTaken ==
    ASSUME TypeOK, TokenInv, NEW m \in Msgs, pc[m] \in Steps, Goto(m, "ok"), UNCHANGED <<job, latest, overlap>>,
           \A c \in Conns : c # job[m].conn /\ channel'[c] # None => channel'[c] = channel[c],
           channel'[job[m].conn] # None => channel'[job[m].conn].ctx = job[m].token
    PROVE  TokenInv'
<1>1. /\ pc'[m] = "ok" /\ m \in InFlight(job[m].conn)
      /\ \A n \in Msgs \ {m} : pc'[n] = pc[n]
    BY DEF Goto, TypeOK, InFlight
<1>2. \A c \in Conns : InFlight(c)' \subseteq InFlight(c)
    BY <1>1 DEF InFlight, Steps
<1>3. \A c \in Conns : latest[c] # None => latest[c] \in Msgs
    BY DEF TypeOK
<1>4. \A c \in Conns : latest[c] # None => pc'[latest[c]] # "idle" /\ job[latest[c]].conn = c
    BY <1>1, <1>3 DEF TokenInv
<1>5. ASSUME NEW c \in Conns \ overlap, channel'[c] # None, latest[c] # None, pc'[latest[c]] = "ok"
      PROVE  channel'[c].ctx = job[latest[c]].token
    <2>1. CASE c = job[m].conn
        <3>1. latest[c] = m
            BY <1>1, <2>1 DEF TokenInv
        <3>. QED BY <1>5, <2>1, <3>1
    <2>2. CASE c # job[m].conn
        <3>1. latest[c] # m
            BY <1>5, <2>2 DEF TokenInv
        <3>. QED BY <1>1, <1>3, <1>5, <2>2, <3>1 DEF TokenInv
    <2>. QED BY <2>1, <2>2
<1>. QED BY <1>2, <1>4, <1>5 DEF TokenInv

LEMMA TokenReceive ==
    ASSUME TypeOK, TokenInv, NEW m \in Msgs, Receive(m)
    PROVE  TokenInv'
<1>1. PICK j \in Job : /\ job' = [job EXCEPT ![m] = j]
                       /\ latest' = [latest EXCEPT ![j.conn] = m]
                       /\ overlap' = IF InFlight(j.conn) # {} THEN overlap \cup {j.conn}
                                                             ELSE overlap \ {j.conn}
    BY DEF Receive
<1>2. /\ pc[m] = "idle" /\ pc'[m] = "verify" /\ job'[m] = j /\ UNCHANGED channel
      /\ \A n \in Msgs \ {m} : pc'[n] = pc[n] /\ job'[n] = job[n]
    BY <1>1 DEF Receive, TypeOK
<1>3. j.conn \in Conns /\ latest'[j.conn] = m /\ \A c \in Conns \ {j.conn} : latest'[c] = latest[c]
    BY <1>1 DEF TypeOK, Job
<1>4. \A c \in Conns : latest[c] # None => latest[c] \in Msgs \ {m}
    BY <1>2 DEF TypeOK, TokenInv
<1>5. \A c \in Conns : InFlight(c)' \subseteq InFlight(c) \cup {n \in {m} : c = j.conn}
    BY <1>2 DEF InFlight
<1>6. \A c \in Conns \ overlap' : IF c = j.conn THEN InFlight(c) = {} ELSE c \notin overlap
    BY <1>1
<1>7. \A c \in Conns : latest'[c] # None => pc'[latest'[c]] # "idle" /\ job'[latest'[c]].conn = c
    BY <1>2, <1>3, <1>4 DEF TokenInv
<1>8. \A c \in Conns \ overlap' : InFlight(c)' \subseteq {latest'[c]}
    BY <1>3, <1>5, <1>6 DEF TokenInv
<1>9. ASSUME NEW c \in Conns \ overlap', channel'[c] # None, latest'[c] # None, pc'[latest'[c]] = "ok"
      PROVE  channel'[c].ctx = job'[latest'[c]].token
    <2>1. c # j.conn
        BY <1>2, <1>3, <1>9
    <2>. QED BY <1>2, <1>3, <1>4, <1>6, <1>9, <2>1 DEF TokenInv
<1>. QED BY <1>7, <1>8, <1>9 DEF TokenInv

LEMMA TokenNext == TypeOK /\ TokenInv /\ [Next]_vars => TokenInv'
<1> SUFFICES ASSUME TypeOK, TokenInv, [Next]_vars PROVE TokenInv'
    OBVIOUS
<1>1. ASSUME NEW m \in Msgs, Receive(m) PROVE TokenInv'
    BY <1>1, TokenReceive
<1>2. ASSUME NEW m \in Msgs, VerifyJoin(m) \/ Authorize(m) \/ BindFails(m) PROVE TokenInv'
    <2>1. pc[m] \in Steps /\ \E step \in Steps \cup {"refused", "failed"} : Goto(m, step)
        BY <1>2 DEF VerifyJoin, Authorize, BindFails, Steps
    <2>. QED BY <1>2, <2>1, TokenStep DEF VerifyJoin, Authorize, BindFails, history
<1>3. ASSUME NEW m \in Msgs, Join(m) PROVE TokenInv'
    <2>1. pc[m] # "idle" /\ pc[m] \in Steps
        BY <1>3 DEF Join, Steps
    <2>2. job[m].conn \in Conns
        BY <2>1, JobTyped
    <2>3. channel' = [channel EXCEPT ![job[m].conn] = [key |-> job[m].key, ctx |-> job[m].token]]
        BY <1>3 DEF Join, OpenChannel
    <2>4. /\ channel'[job[m].conn].ctx = job[m].token
          /\ \A c \in Conns \ {job[m].conn} : channel'[c] = channel[c]
        BY <2>2, <2>3 DEF TypeOK
    <2>. QED BY <1>3, <2>1, <2>4, TokenTaken DEF Join
<1>4. ASSUME NEW m \in Msgs, AccessToken(m) PROVE TokenInv'
    <2>1. pc[m] # "idle" /\ pc[m] \in Steps
        BY <1>4 DEF AccessToken, Steps
    <2>2. job[m].conn \in Conns
        BY <2>1, JobTyped
    <2>3. /\ channel'[job[m].conn] # None => channel'[job[m].conn].ctx = job[m].token
          /\ \A c \in Conns \ {job[m].conn} : channel'[c] = channel[c]
        BY <1>4, <2>2 DEF AccessToken, SetContext, TypeOK
    <2>. QED BY <1>4, <2>1, <2>3, TokenTaken DEF AccessToken, history
<1>5. ASSUME NEW c \in Conns, Connect(c) \/ Track(c) \/ Untrack(c) PROVE TokenInv'
    BY <1>5, TokenUntouched DEF Connect, Track, Untrack, history
<1>6. ASSUME NEW c \in Conns, Leave(c) \/ Close(c) PROVE TokenInv'
    <2>1. \A d \in Conns : channel'[d] # None => channel'[d] = channel[d]
        BY <1>6 DEF Leave, Close, LeaveChannel, TypeOK
    <2>. QED BY <1>6, <2>1, TokenUntouched DEF Leave, Close
<1>7. CASE UNCHANGED vars
    BY <1>7, TokenUntouched DEF vars
<1>. QED BY <1>1, <1>2, <1>3, <1>4, <1>5, <1>6, <1>7 DEF Next, Handle

(* A channel acts under the last token its client sent and the server took.  *)
THEOREM NewestTokenWins == Spec => []NewestTokenInForce
<1>1. TokenInv => NewestTokenInForce
    BY DEF TokenInv, NewestTokenInForce, Members
<1>. QED BY <1>1, TypeInit, TypeNext, TokenInit, TokenNext, PTL DEF Spec

=============================================================================
