---------------------------- MODULE AuthSessions ----------------------------
(***************************************************************************)
(* Sign-in, token refresh, logout and the removal of a user, on the tables   *)
(* auth.users, auth.sessions and auth.refresh_tokens.  A handler is a        *)
(* sequence of awaited queries; no transaction joins them, so the queries of *)
(* concurrent requests interleave.  The session a sign-in makes, and the     *)
(* refresh token a request makes, carry the identity of that request.        *)
(***************************************************************************)
EXTENDS Integers, FiniteSets

CONSTANTS
    Reqs,           \* requests; each is issued at most once
    Users,          \* accounts
    JwtExpiry,      \* lifetime of an access token
    Timebox,        \* lifetime of a session, None meaning unlimited
    MaxTime,        \* bound on the clock
    None            \* no row, no deadline, no value

ASSUME ExpiryAssumption == JwtExpiry \in Nat \ {0}
ASSUME TimeboxAssumption == Timebox \in (Nat \ {0}) \cup {None}
ASSUME TimeAssumption == MaxTime \in Nat
ASSUME NoneAssumption == None \notin Nat \cup Reqs \cup Users

VARIABLES
    now,            \* the clock, in seconds
    users,          \* auth.users
    sessions,       \* auth.sessions: the row of each session, or None
    tokens,         \* auth.refresh_tokens: the row of each token, or None
    pc,             \* the next step of each request, or its outcome
    job,            \* what each request asks for
    mem,            \* the locals of each handler; the access token it returned
    ended,          \* history: sessions whose row was deleted
    raced,          \* history: sessions that a refresh or sign-in and a logout met on
    forked,         \* history: sessions of which one token was refreshed twice at a time
    cut             \* history: sessions being opened or refreshed when the process died

vars == <<now, users, sessions, tokens, pc, job, mem, ended, raced, forked, cut>>
tables == <<users, sessions, tokens>>
history == <<ended, raced, forked, cut>>

Times == 0 .. MaxTime
Session == [user : Users, notAfter : Nat \cup {None}]
RefreshToken == [user : Users, session : Reqs, revoked : BOOLEAN]

Scopes == {"local", "others", "global"}
Job == [op : {"signin"}, user : Users] \cup [op : {"refresh"}, of : Reqs]
         \cup [op : {"logout"}, of : Reqs, scope : Scopes] \cup [op : {"erase"}, user : Users]
ASSUME RowAssumption == None \notin Session \cup RefreshToken \cup Job

Local == [user : Users \cup {None}, session : Reqs \cup {None},
          notAfter : Nat \cup {None}, exp : Nat]
Locals(u, s, deadline, exp) == [user |-> u, session |-> s, notAfter |-> deadline, exp |-> exp]
Identity(u, s) == Locals(u, s, None, 0)
Fresh == Identity(None, None)

Steps == {"lookup", "check", "revoke", "user", "session", "token",
          "bearer", "who", "delete", "revokeAll", "erase"}
Outcomes == {"ok", "refused", "failed", "lost"}

InFlight == {r \in Reqs : pc[r] \in Steps}

(* Requests that will open or write to session s: the refreshes past their   *)
(* liveness check and the sign-ins that make it.                             *)
Opening(s) == {r \in Reqs : pc[r] \in {"revoke", "user", "session", "token"}
                              /\ mem[r].session = s}

(* Who can go on with session s: a token that can be refreshed, or a handler *)
(* that has used one up and will issue the next.                             *)
Usable(t) == tokens[t] # None /\ ~tokens[t].revoked
Holders(s) == {t \in Reqs : Usable(t) /\ tokens[t].session = s}
                \cup {r \in Reqs : pc[r] \in {"user", "session", "token"} /\ mem[r].session = s}

SessionTypeOK ==
    /\ now \in Times
    /\ users \in SUBSET Users
    /\ sessions \in [Reqs -> Session \cup {None}]
    /\ tokens \in [Reqs -> RefreshToken \cup {None}]
    /\ pc \in [Reqs -> {"idle"} \cup Steps \cup Outcomes]
    /\ job \in [Reqs -> Job \cup {None}]
    /\ mem \in [Reqs -> Local]
    /\ \A r \in Reqs : pc[r] # "idle" => job[r] # None
    /\ \A s \in Reqs : sessions[s] # None => sessions[s].user \in users
    /\ \A t \in Reqs : tokens[t] # None => tokens[t].user \in users
    /\ ended \in SUBSET Reqs
    /\ raced \in SUBSET Reqs
    /\ forked \in SUBSET Reqs
    /\ cut \in SUBSET Reqs

----------------------------------------------------------------------------

Init ==
    /\ now = 0
    /\ users = Users
    /\ sessions = [r \in Reqs |-> None]
    /\ tokens = [r \in Reqs |-> None]
    /\ pc = [r \in Reqs |-> "idle"]
    /\ job = [r \in Reqs |-> None]
    /\ mem = [r \in Reqs |-> Fresh]
    /\ ended = {} /\ raced = {} /\ forked = {} /\ cut = {}

(* The handler goes on to its next query with these locals, or ends.         *)
Goto(r, step, locals) ==
    /\ pc' = [pc EXCEPT ![r] = step]
    /\ mem' = [mem EXCEPT ![r] = locals]

(* The request ends without having issued anything.                          *)
Finish(r, outcome) == Goto(r, outcome, Fresh)

(* What a client may present: the tokens of the answered requests.           *)
Issued == {r \in Reqs : pc[r] = "ok" /\ job[r].op \in {"signin", "refresh"}}

FirstStep(op) ==
    CASE op = "signin" -> "user" [] op = "refresh" -> "lookup"
      [] op = "logout" -> "bearer" [] op = "erase" -> "erase"

Begin(r) ==
    /\ pc[r] = "idle"
    /\ \E j \in Job :
        /\ j.op \in {"refresh", "logout"} => j.of \in Issued
        /\ job' = [job EXCEPT ![r] = j]
        /\ Goto(r, FirstStep(j.op), IF j.op = "signin" THEN Identity(j.user, r) ELSE Fresh)
    /\ UNCHANGED <<now, tables, history>>

----------------------------------------------------------------------------
(* sessionFor: the end of every sign-in and refresh.                         *)

Lifetime == IF Timebox # None /\ Timebox < JwtExpiry THEN Timebox ELSE JwtExpiry
Deadline == IF Timebox = None THEN None ELSE now + Timebox

(* The user's row.  Without one a sign-in is refused; a refresh, which has   *)
(* revoked its token by then, throws.                                        *)
ReadUser(r) ==
    /\ pc[r] = "user"
    /\ IF mem[r].user \in users
         THEN Goto(r, "session", Locals(mem[r].user, mem[r].session, Deadline, now + Lifetime))
         ELSE Finish(r, IF job[r].op = "signin" THEN "refused" ELSE "failed")
    /\ UNCHANGED <<now, tables, job, history>>

(* What a logout deletes and then revokes: without a current session it is   *)
(* a global one.                                                             *)
InScope(r, user, s) ==
    LET scope == IF mem[r].session = None THEN "global" ELSE job[r].scope IN
    CASE scope = "local"  -> s = mem[r].session
      [] scope = "others" -> user = mem[r].user /\ s # mem[r].session
      [] scope = "global" -> user = mem[r].user

(* The session's row is inserted, or refreshed if it is there: the deadline  *)
(* it was made with stays.  A foreign key refuses the row of a removed user. *)
OpenSession(r) ==
    LET s == mem[r].session IN
    /\ pc[r] = "session"
    /\ mem[r].user \in users
    /\ sessions' = [sessions EXCEPT ![s] = IF @ # None THEN @ ELSE
                       [user |-> mem[r].user, notAfter |-> mem[r].notAfter]]
    /\ raced' = IF \E l \in Reqs : pc[l] = "revokeAll" /\ InScope(l, mem[r].user, s)
                  THEN raced \cup {s} ELSE raced
    /\ Goto(r, "token", mem[r])
    /\ UNCHANGED <<now, users, tokens, job, ended, forked, cut>>

IssueToken(r) ==
    /\ pc[r] = "token"
    /\ mem[r].user \in users
    /\ tokens' = [tokens EXCEPT ![r] =
                    [user |-> mem[r].user, session |-> mem[r].session, revoked |-> FALSE]]
    /\ Goto(r, "ok", mem[r])
    /\ UNCHANGED <<now, users, sessions, job, history>>

InsertRefused(r) ==
    /\ pc[r] \in {"session", "token"}
    /\ mem[r].user \notin users
    /\ Finish(r, "failed")
    /\ UNCHANGED <<now, tables, job, history>>

----------------------------------------------------------------------------
(* token: grant_type=refresh_token.                                          *)

(* The presented token, joined with its user.                                *)
Lookup(r) ==
    LET t == job[r].of
        s == tokens[t].session IN
    /\ pc[r] = "lookup"
    /\ Usable(t)
    /\ forked' = IF \E q \in Reqs : pc[q] \in {"check", "revoke"} /\ job[q].of = t
                   THEN forked \cup {s} ELSE forked
    /\ Goto(r, "check", Identity(tokens[t].user, s))
    /\ UNCHANGED <<now, tables, job, ended, raced, cut>>

NotFound(r) ==
    /\ pc[r] = "lookup"
    /\ ~Usable(job[r].of)
    /\ Finish(r, "refused")
    /\ UNCHANGED <<now, tables, job, history>>

(* Mutant: the session of the token is not looked up. *)
CheckToken(r) ==
    /\ pc[r] = "check"
    /\ Goto(r, "revoke", mem[r])
    /\ UNCHANGED <<now, tables, job, history>>

(* If the session is gone, the token must not bring it back.                 *)
CheckSession(r) ==
    /\ pc[r] = "check"
    /\ IF sessions[mem[r].session] # None
         THEN Goto(r, "revoke", mem[r])
         ELSE Finish(r, "refused")
    /\ UNCHANGED <<now, tables, job, history>>

(* Mutant: the presented token stays usable. *)
KeepToken(r) ==
    /\ pc[r] = "revoke"
    /\ Goto(r, "user", mem[r])
    /\ UNCHANGED <<now, tables, job, history>>

(* The presented token is used up; a row removed meanwhile stays removed.    *)
RevokeToken(r) ==
    LET t == job[r].of IN
    /\ pc[r] = "revoke"
    /\ tokens' = [tokens EXCEPT ![t] = IF @ = None THEN None ELSE [@ EXCEPT !.revoked = TRUE]]
    /\ Goto(r, "user", mem[r])
    /\ UNCHANGED <<now, users, sessions, job, history>>

----------------------------------------------------------------------------
(* logout and eraseUser.                                                     *)

(* userFromBearer: the access token must not have expired, nor its session   *)
(* have ended.  Any other token is answered the same way, with nothing done. *)
CheckBearer(r) ==
    LET token == mem[job[r].of] IN
    /\ pc[r] = "bearer"
    /\ IF /\ now <= token.exp
          /\ sessions[token.session] # None
          /\ sessions[token.session].notAfter # None => sessions[token.session].notAfter > now
         THEN Goto(r, "who", Identity(token.user, None))
         ELSE Finish(r, "refused")
    /\ UNCHANGED <<now, tables, job, history>>

(* The user's row, then sessionIdFromBearer, which verifies the token again. *)
ReadBearer(r) ==
    LET token == mem[job[r].of] IN
    /\ pc[r] = "who"
    /\ IF mem[r].user \in users
         THEN Goto(r, "delete",
                   Identity(mem[r].user, IF now <= token.exp THEN token.session ELSE None))
         ELSE Finish(r, "refused")
    /\ UNCHANGED <<now, tables, job, history>>

(* Mutant: every logout ends all the sessions of the user. *)
DeletedWithUser(r) == {s \in Reqs : sessions[s] # None /\ sessions[s].user = mem[r].user}

Deleted(r) == {s \in Reqs : sessions[s] # None /\ InScope(r, sessions[s].user, s)}

DeleteSessions(r) ==
    /\ pc[r] = "delete"
    /\ sessions' = [s \in Reqs |-> IF s \in Deleted(r) THEN None ELSE sessions[s]]
    /\ ended' = ended \cup Deleted(r)
    /\ raced' = raced \cup {s \in Deleted(r) : Opening(s) # {}}
    /\ Goto(r, "revokeAll", mem[r])
    /\ UNCHANGED <<now, users, tokens, job, forked, cut>>

(* Mutant: the tokens of all the user's sessions are revoked. *)
RevokedWithUser(r) == {t \in Reqs : tokens[t] # None /\ tokens[t].user = mem[r].user}

Revoked(r) == {t \in Reqs : tokens[t] # None /\ InScope(r, tokens[t].user, tokens[t].session)}

RevokeTokens(r) ==
    /\ pc[r] = "revokeAll"
    /\ tokens' = [t \in Reqs |-> IF t \in Revoked(r)
                                   THEN [tokens[t] EXCEPT !.revoked = TRUE] ELSE tokens[t]]
    /\ Finish(r, "ok")
    /\ UNCHANGED <<now, users, sessions, job, history>>

(* Mutant: only the tokens that are still good are removed with the user. *)
UsableTokens(u) == {t \in Reqs : Usable(t) /\ tokens[t].user = u}

OwnTokens(u) == {t \in Reqs : tokens[t] # None /\ tokens[t].user = u}

(* The user's row goes, and its foreign keys take sessions and tokens along. *)
EraseUser(r) ==
    LET u == job[r].user
        gone == {s \in Reqs : sessions[s] # None /\ sessions[s].user = u} IN
    /\ pc[r] = "erase"
    /\ users' = users \ {u}
    /\ sessions' = [s \in Reqs |-> IF s \in gone THEN None ELSE sessions[s]]
    /\ tokens' = [t \in Reqs |-> IF t \in OwnTokens(u) THEN None ELSE tokens[t]]
    /\ ended' = ended \cup gone
    /\ Finish(r, IF u \in users THEN "ok" ELSE "refused")
    /\ UNCHANGED <<now, job, raced, forked, cut>>

----------------------------------------------------------------------------

(* The process dies; the database keeps what was committed.                  *)
Crash ==
    /\ InFlight # {}
    /\ pc' = [r \in Reqs |-> IF r \in InFlight THEN "lost" ELSE pc[r]]
    /\ mem' = [r \in Reqs |-> IF r \in InFlight THEN Fresh ELSE mem[r]]
    /\ cut' = cut \cup {s \in Reqs : Opening(s) # {}}
    /\ UNCHANGED <<now, tables, job, ended, raced, forked>>

TimePasses ==
    /\ now < MaxTime
    /\ now' = now + 1
    /\ UNCHANGED <<tables, pc, job, mem, history>>

Step(r) ==
    \/ Begin(r) \/ ReadUser(r) \/ OpenSession(r) \/ IssueToken(r) \/ InsertRefused(r)
    \/ Lookup(r) \/ NotFound(r) \/ CheckSession(r) \/ RevokeToken(r)
    \/ CheckBearer(r) \/ ReadBearer(r) \/ DeleteSessions(r) \/ RevokeTokens(r) \/ EraseUser(r)

Next == Crash \/ TimePasses \/ \E r \in Reqs : Step(r)

Spec == Init /\ [][Next]_vars

----------------------------------------------------------------------------
(* Properties.                                                               *)

(* A session that a logout or the removal of its user ended does not come    *)
(* back, although the insert at the end of a refresh would revive its row    *)
(* (sessionFor, on conflict): only a refresh that was past its look at the   *)
(* session when the logout deleted it can do that.                           *)
StaysEnded == \A s \in ended \ raced : sessions[s] = None

(* A client is not logged out by accident: a session that lives always has   *)
(* a token that can be refreshed, or a handler that will issue one.  Not so  *)
(* if a logout met the handler that opened the session half way, or the      *)
(* process died between revoking a token and issuing the next.               *)
SessionRefreshable ==
    \A s \in Reqs \ (raced \cup cut) : sessions[s] # None => Holders(s) # {}

(* Refresh tokens are used once: a session never has two that can be         *)
(* refreshed, unless one was presented again before it was revoked.          *)
OneUsableToken == \A s \in Reqs \ forked : \A a, b \in Holders(s) : a = b

(* What a logout ends is what its scope says: its own session, or another    *)
(* one of the same user, never one of somebody else's; and a local one ends  *)
(* others only if its access token expired while it was being handled, which *)
(* makes it a global one (sessionIdFromBearer returns null the second time). *)
EndsWhatItSays ==
    [][\A r \in Reqs, s \in Reqs :
        pc[r] = "delete" /\ pc'[r] = "revokeAll" /\ sessions[s] # None /\ sessions'[s] = None =>
            /\ sessions[s].user = mem[job[r].of].user
            /\ job[r].scope = "local" /\ now <= mem[job[r].of].exp => s = mem[job[r].of].session
            /\ job[r].scope = "others" /\ now <= mem[job[r].of].exp => s # mem[job[r].of].session
      ]_vars

============================================================================
