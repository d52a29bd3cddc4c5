----------------------------- MODULE AuthProofs -----------------------------
(***************************************************************************)
(* Proofs about AuthSessions, for any requests, accounts and lifetimes, and  *)
(* about OneTimeTokens, for any requests, addresses and number of attempts.  *)
(***************************************************************************)
EXTENDS AuthSessions, OneTimeTokens, FiniteSetTheorems, TLAPS

(***************************************************************************)
(* Sessions and refresh tokens.                                              *)
(***************************************************************************)

(* Session s is the one that the sign-in of user u makes.                    *)
Owns(u, s) ==
    /\ s \in Reqs /\ pc[s] # "idle"
    /\ job[s].op = "signin" /\ job[s].user = u /\ u \in Users

(* The handlers and answers that carry an identity.                          *)
Bound == {r \in Reqs : pc[r] \in {"check", "revoke", "user", "session", "token"}}
            \cup Issued

JobsFit ==
    \A r \in Reqs :
        /\ pc[r] \in {"user", "session", "token"} => job[r].op \in {"signin", "refresh"}
        /\ pc[r] \in {"lookup", "check", "revoke"} => job[r].op = "refresh"
        /\ pc[r] \in {"bearer", "who", "delete", "revokeAll"} => job[r].op = "logout"
        /\ pc[r] = "erase" => job[r].op = "erase"
        /\ pc[r] # "idle" /\ job[r].op \in {"refresh", "logout"} => job[r].of \in Issued

Owned ==
    /\ \A r \in Bound : Owns(mem[r].user, mem[r].session)
    /\ \A s \in Reqs : sessions[s] # None => Owns(sessions[s].user, s)
    /\ \A t \in Reqs : tokens[t] # None => Owns(tokens[t].user, tokens[t].session)

Structure == SessionTypeOK /\ JobsFit /\ Owned

TablesOK ==
    /\ users \in SUBSET Users
    /\ sessions \in [Reqs -> Session \cup {None}]
    /\ tokens \in [Reqs -> RefreshToken \cup {None}]
    /\ \A s \in Reqs : sessions[s] # None => sessions[s].user \in users
    /\ \A t \in Reqs : tokens[t] # None => tokens[t].user \in users

TablesOwned ==
    /\ \A s \in Reqs : sessions[s] # None => Owns(sessions[s].user, s)
    /\ \A t \in Reqs : tokens[t] # None => Owns(tokens[t].user, tokens[t].session)

HistoryOK ==
    /\ ended \in SUBSET Reqs /\ raced \in SUBSET Reqs
    /\ forked \in SUBSET Reqs /\ cut \in SUBSET Reqs

LEMMA JobCases ==
    ASSUME NEW j \in Job
    PROVE  /\ j.op \in {"signin", "refresh", "logout", "erase"}
           /\ j.op \in {"signin", "erase"} => j.user \in Users
           /\ j.op \in {"refresh", "logout"} => j.of \in Reqs
           /\ j.op = "logout" => j.scope \in Scopes
           /\ j # None
           /\ FirstStep(j.op) \in {"user", "lookup", "bearer", "erase"}
           /\ FirstStep(j.op) = "user" <=> j.op = "signin"
           /\ FirstStep(j.op) = "lookup" <=> j.op = "refresh"
           /\ FirstStep(j.op) = "bearer" <=> j.op = "logout"
           /\ FirstStep(j.op) = "erase" <=> j.op = "erase"
  <1>1. j.op \in {"signin", "refresh", "logout", "erase"} BY DEF Job
  <1>2. /\ j.op \in {"signin", "erase"} => j.user \in Users
        /\ j.op \in {"refresh", "logout"} => j.of \in Reqs
        /\ j.op = "logout" => j.scope \in Scopes
    BY DEF Job
  <1>3. j # None BY RowAssumption
  <1>4. QED BY <1>1, <1>2, <1>3 DEF FirstStep
LEMMA InitStructure == Init => Structure
  BY TimeAssumption DEF Init, Structure, SessionTypeOK, JobsFit, Owned, Bound, Issued, Fresh, Identity,
     Locals, Local, Times, Steps, Outcomes

LEMMA IdentityOK ==
    ASSUME NEW u \in Users \cup {None}, NEW q \in Reqs \cup {None}
    PROVE  /\ Identity(u, q) \in Local
           /\ Identity(u, q).user = u /\ Identity(u, q).session = q
  BY DEF Identity, Locals, Local

LEMMA FreshOK == Fresh \in Local /\ Fresh.user = None /\ Fresh.session = None
  BY IdentityOK DEF Fresh

(* One handler goes from one query to its next, or ends; the tables keep     *)
(* their own part.                                                           *)
LEMMA GoOnStructure ==
    ASSUME Structure, NEW r \in Reqs, pc[r] \in Steps,
           NEW step \in Steps \cup Outcomes, NEW locals \in Local, Goto(r, step, locals),
           now' = now, job' = job, TablesOK', HistoryOK',
           step \in {"user", "session", "token"} => job[r].op \in {"signin", "refresh"},
           step \in {"lookup", "check", "revoke"} => job[r].op = "refresh",
           step \in {"bearer", "who", "delete", "revokeAll"} => job[r].op = "logout",
           step # "erase",
           \/ step \in {"check", "revoke", "user", "session", "token"}
           \/ step = "ok" /\ job[r].op \in {"signin", "refresh"}
           => Owns(locals.user, locals.session),
           (\A u, q : Owns(u, q) => Owns(u, q)') => TablesOwned'
    PROVE  Structure'
  <1> USE DEF Structure, Goto
  <1>1. SessionTypeOK'
    <2>1. pc[r] # "idle" /\ step # "idle" BY DEF Steps, Outcomes
    <2>2. \A q \in Reqs : pc'[q] # "idle" => job[q] # None BY <2>1 DEF SessionTypeOK
    <2>3. QED BY <2>2 DEF SessionTypeOK, TablesOK, HistoryOK
  <1>2. pc'[r] = step /\ mem'[r] = locals /\ \A q \in Reqs : q # r => pc'[q] = pc[q] /\ mem'[q] = mem[q]
    BY DEF SessionTypeOK
  <1>3. Issued \subseteq Issued'
    BY <1>2 DEF Issued, Steps
  <1>4. JobsFit'
    BY <1>2, <1>3 DEF JobsFit, Steps
  <1>5. \A u, q : Owns(u, q) => Owns(u, q)'
    BY <1>2 DEF Owns, Steps, Outcomes
  <1>6. \A q \in Bound' : q # r => q \in Bound
    BY <1>2 DEF Bound, Issued
  <1>7. r \in Bound' => Owns(locals.user, locals.session)
    BY <1>2 DEF Bound, Issued
  <1>8. \A q \in Bound' : Owns(mem[q].user, mem[q].session)'
    <2> SUFFICES ASSUME NEW q \in Bound' PROVE Owns(mem[q].user, mem[q].session)'
      OBVIOUS
    <2>1. q \in Reqs BY DEF Bound, Issued
    <2>2. CASE q = r BY <2>2, <1>2, <1>5, <1>7
    <2>3. CASE q # r BY <2>1, <2>3, <1>2, <1>5, <1>6 DEF Owned
    <2>4. QED BY <2>2, <2>3
  <1>9. Owned' BY <1>5, <1>8 DEF Owned, TablesOwned
  <1>10. QED BY <1>1, <1>4, <1>9

LEMMA BeginStructure ==
    ASSUME Structure, NEW r \in Reqs, Begin(r)
    PROVE  Structure'
  <1> USE DEF Structure
  <1>1. PICK j \in Job :
            /\ j.op \in {"refresh", "logout"} => j.of \in Issued
            /\ job' = [job EXCEPT ![r] = j]
            /\ pc' = [pc EXCEPT ![r] = FirstStep(j.op)]
            /\ mem' = [mem EXCEPT ![r] = IF j.op = "signin" THEN Identity(j.user, r) ELSE Fresh]
    BY DEF Begin, Goto
  <1>2. pc[r] = "idle" /\ UNCHANGED <<now, users, sessions, tokens, ended, raced, forked, cut>>
    BY DEF Begin, tables, history
  <1>3. SessionTypeOK'
    BY <1>1, <1>2, IdentityOK, FreshOK, JobCases DEF SessionTypeOK, Steps
  <1>4. Issued' = Issued
    BY <1>1, <1>2, JobCases DEF Issued, SessionTypeOK
  <1>5. JobsFit'
    BY <1>1, <1>2, <1>4, JobCases DEF JobsFit, SessionTypeOK
  <1>6. \A u, q : Owns(u, q) => Owns(u, q)'
    BY <1>1, <1>2, JobCases DEF Owns, SessionTypeOK
  <1>7. \A q \in Bound' \ {r} : q \in Bound /\ mem'[q] = mem[q]
    BY <1>1, <1>2, <1>4 DEF Bound, SessionTypeOK
  <1>8. r \in Bound' => Owns(mem[r].user, mem[r].session)'
    BY <1>1, <1>2, <1>4, JobCases, IdentityOK DEF Bound, Issued, Owns, SessionTypeOK
  <1>9. Owned'
    BY <1>2, <1>6, <1>7, <1>8 DEF Owned
  <1>10. QED BY <1>3, <1>5, <1>9

LEMMA TablesStay ==
    ASSUME Structure, UNCHANGED tables
    PROVE  TablesOK' /\ ((\A u, q : Owns(u, q) => Owns(u, q)') => TablesOwned')
  BY DEF Structure, SessionTypeOK, Owned, TablesOK, TablesOwned, tables

LEMMA ReadUserStructure ==
    ASSUME Structure, NEW r \in Reqs, ReadUser(r)
    PROVE  Structure'
  <1> DEFINE present == mem[r].user \in users
             step == IF present THEN "session" ELSE IF job[r].op = "signin" THEN "refused" ELSE "failed"
             locals == IF present THEN Locals(mem[r].user, mem[r].session, Deadline, now + Lifetime)
                                ELSE Fresh
  <1>1. pc[r] = "user" /\ Goto(r, step, locals)
    BY DEF ReadUser, Finish
  <1>2. /\ now' = now /\ job' = job /\ HistoryOK'
        /\ TablesOK' /\ ((\A u, q : Owns(u, q) => Owns(u, q)') => TablesOwned')
    BY TablesStay DEF ReadUser, history, HistoryOK, Structure, SessionTypeOK
  <1>3. Deadline \in Nat \cup {None} /\ now + Lifetime \in Nat
    BY TimeboxAssumption, ExpiryAssumption, TimeAssumption
       DEF Deadline, Lifetime, Structure, SessionTypeOK, Times
  <1>4. mem[r] \in Local /\ Owns(mem[r].user, mem[r].session) /\ job[r].op \in {"signin", "refresh"}
    BY <1>1 DEF Structure, SessionTypeOK, Owned, Bound, JobsFit
  <1>5. /\ locals \in Local /\ step \in {"session", "refused", "failed"}
        /\ present => locals.user = mem[r].user /\ locals.session = mem[r].session
    <2>1. mem[r].user \in Users \cup {None} /\ mem[r].session \in Reqs \cup {None}
      BY <1>4 DEF Local
    <2>2. CASE present
      <3> DEFINE end == Deadline
                 exp == now + Lifetime
                 next == Locals(mem[r].user, mem[r].session, end, exp)
      <3>1. locals = next /\ step = "session" BY <2>2
      <3>2. end \in Nat \cup {None} /\ exp \in Nat BY <1>3
      <3> HIDE DEF end, exp
      <3>3. next \in Local /\ next.user = mem[r].user /\ next.session = mem[r].session
        BY <2>1, <3>2 DEF Locals, Local
      <3>4. QED BY <3>1, <3>3
    <2>3. CASE ~present BY <2>3, FreshOK
    <2>4. QED BY <2>2, <2>3
  <1>6. step = "session" => present OBVIOUS
  <1> HIDE DEF present, step, locals
  <1>7. QED
    BY <1>1, <1>2, <1>4, <1>5, <1>6, GoOnStructure DEF Steps, Outcomes

(* A handler whose request ends without a token, the tables as they were.    *)
LEMMA FinishStructure ==
    ASSUME Structure, NEW r \in Reqs, pc[r] \in Steps,
           NEW outcome \in {"refused", "failed"}, Finish(r, outcome),
           UNCHANGED <<now, tables, job, history>>
    PROVE  Structure'
  <1>1. HistoryOK' BY DEF Structure, SessionTypeOK, HistoryOK, history
  <1>2. QED
    BY <1>1, FreshOK, TablesStay, GoOnStructure DEF Finish, Steps, Outcomes

LEMMA OpenSessionStructure ==
    ASSUME Structure, NEW r \in Reqs, OpenSession(r)
    PROVE  Structure'
  <1> DEFINE s == mem[r].session
             row == [user |-> mem[r].user, notAfter |-> mem[r].notAfter]
  <1>1. /\ pc[r] = "session" /\ mem[r].user \in users /\ Goto(r, "token", mem[r])
        /\ now' = now /\ job' = job /\ users' = users /\ tokens' = tokens
        /\ sessions' = [sessions EXCEPT ![s] = IF sessions[s] # None THEN sessions[s] ELSE row]
        /\ UNCHANGED <<ended, forked, cut>> /\ raced' \in {raced, raced \cup {s}}
    BY DEF OpenSession
  <1>2. mem[r] \in Local /\ Owns(mem[r].user, s) /\ job[r].op \in {"signin", "refresh"}
    BY <1>1 DEF Structure, SessionTypeOK, Owned, Bound, JobsFit
  <1>3. s \in Reqs /\ mem[r].user \in Users BY <1>2 DEF Owns
  <1>4. row \in Session /\ row.user = mem[r].user /\ row # None
    <2>1. row \in Session BY <1>2, <1>3 DEF Local, Session
    <2>2. row # None BY <2>1, RowAssumption
    <2>3. QED BY <2>1, <2>2
  <1> HIDE DEF row
  <1>5. \A q \in Reqs :
          \/ sessions'[q] = sessions[q]
          \/ q = s /\ sessions'[q] # None /\ sessions'[q].user = mem[r].user
    <2>1. \A q \in Reqs : q # s => sessions'[q] = sessions[q] BY <1>1 DEF Structure, SessionTypeOK
    <2>2. sessions'[s] = IF sessions[s] # None THEN sessions[s] ELSE row
      BY <1>1, <1>3 DEF Structure, SessionTypeOK
    <2> HIDE DEF s
    <2>3. QED BY <2>1, <2>2, <1>4
  <1>6. TablesOK'
    BY <1>1, <1>3, <1>4, <1>5 DEF Structure, SessionTypeOK, TablesOK
  <1>7. HistoryOK' BY <1>1, <1>3 DEF HistoryOK, Structure, SessionTypeOK
  <1>8. (\A u, q : Owns(u, q) => Owns(u, q)') => TablesOwned'
    BY <1>1, <1>2, <1>5 DEF Structure, Owned, TablesOwned
  <1>9. QED
    BY <1>1, <1>2, <1>6, <1>7, <1>8, GoOnStructure DEF Steps, Outcomes

LEMMA IssueTokenStructure ==
    ASSUME Structure, NEW r \in Reqs, IssueToken(r)
    PROVE  Structure'
  <1> DEFINE row == [user |-> mem[r].user, session |-> mem[r].session, revoked |-> FALSE]
  <1>1. /\ pc[r] = "token" /\ mem[r].user \in users /\ Goto(r, "ok", mem[r])
        /\ now' = now /\ job' = job /\ users' = users /\ sessions' = sessions
        /\ tokens' = [tokens EXCEPT ![r] = row] /\ UNCHANGED history
    BY DEF IssueToken
  <1>2. mem[r] \in Local /\ Owns(mem[r].user, mem[r].session) /\ job[r].op \in {"signin", "refresh"}
    BY <1>1 DEF Structure, SessionTypeOK, Owned, Bound, JobsFit
  <1>3. /\ row \in RefreshToken /\ row # None
        /\ row.user = mem[r].user /\ row.session = mem[r].session
    <2>1. row \in RefreshToken BY <1>2 DEF Owns, RefreshToken
    <2>2. row # None BY <2>1, RowAssumption
    <2>3. QED BY <2>1, <2>2
  <1> HIDE DEF row
  <1>4. \A q \in Reqs : tokens'[q] = IF q = r THEN row ELSE tokens[q]
    BY <1>1 DEF Structure, SessionTypeOK
  <1>5. TablesOK'
    BY <1>1, <1>3, <1>4 DEF Structure, SessionTypeOK, TablesOK
  <1>6. HistoryOK' BY <1>1 DEF HistoryOK, Structure, SessionTypeOK, history
  <1>7. (\A u, q : Owns(u, q) => Owns(u, q)') => TablesOwned'
    BY <1>1, <1>2, <1>3, <1>4 DEF Structure, Owned, TablesOwned
  <1>8. QED
    BY <1>1, <1>2, <1>5, <1>6, <1>7, GoOnStructure DEF Steps, Outcomes

LEMMA LookupStructure ==
    ASSUME Structure, NEW r \in Reqs, Lookup(r)
    PROVE  Structure'
  <1> DEFINE t == job[r].of
             locals == Identity(tokens[t].user, tokens[t].session)
  <1>1. /\ pc[r] = "lookup" /\ tokens[t] # None /\ Goto(r, "check", locals)
        /\ UNCHANGED <<now, tables, job, ended, raced, cut>>
        /\ forked' \in {forked, forked \cup {tokens[t].session}}
    BY DEF Lookup, Usable
  <1>2. t \in Reqs /\ job[r].op = "refresh"
    BY <1>1 DEF Structure, JobsFit, Issued
  <1>3. Owns(tokens[t].user, tokens[t].session)
    BY <1>1, <1>2 DEF Structure, Owned
  <1>4. locals \in Local /\ Owns(locals.user, locals.session)
    BY <1>3, IdentityOK DEF Owns
  <1>5. HistoryOK' BY <1>1, <1>3 DEF HistoryOK, Structure, SessionTypeOK, Owns
  <1> HIDE DEF locals
  <1>6. QED
    BY <1>1, <1>2, <1>4, <1>5, TablesStay, GoOnStructure DEF Steps, Outcomes

LEMMA CheckSessionStructure ==
    ASSUME Structure, NEW r \in Reqs, CheckSession(r)
    PROVE  Structure'
  <1>1. pc[r] = "check" /\ UNCHANGED <<now, tables, job, history>>
    BY DEF CheckSession
  <1>2. mem[r] \in Local /\ Owns(mem[r].user, mem[r].session) /\ job[r].op = "refresh"
    BY <1>1 DEF Structure, SessionTypeOK, Owned, Bound, JobsFit
  <1>3. HistoryOK' BY <1>1 DEF HistoryOK, Structure, SessionTypeOK, history
  <1>4. CASE Goto(r, "revoke", mem[r])
    BY <1>1, <1>2, <1>3, <1>4, TablesStay, GoOnStructure DEF Steps, Outcomes
  <1>5. CASE Finish(r, "refused")
    BY <1>1, <1>5, FinishStructure DEF Steps
  <1>6. QED BY <1>4, <1>5 DEF CheckSession

LEMMA RevokeTokenStructure ==
    ASSUME Structure, NEW r \in Reqs, RevokeToken(r)
    PROVE  Structure'
  <1> DEFINE t == job[r].of
  <1>1. /\ pc[r] = "revoke" /\ Goto(r, "user", mem[r])
        /\ tokens' = [tokens EXCEPT ![t] = IF tokens[t] = None THEN None
                                              ELSE [tokens[t] EXCEPT !.revoked = TRUE]]
        /\ now' = now /\ job' = job /\ users' = users /\ sessions' = sessions /\ UNCHANGED history
    BY DEF RevokeToken
  <1>2. mem[r] \in Local /\ Owns(mem[r].user, mem[r].session) /\ job[r].op = "refresh"
    BY <1>1 DEF Structure, SessionTypeOK, Owned, Bound, JobsFit
  <1>3. t \in Reqs BY <1>1 DEF Structure, JobsFit, Issued
  <1>4. \A q \in Reqs :
            \/ tokens'[q] = tokens[q]
            \/ tokens[q] # None /\ tokens'[q] = [tokens[q] EXCEPT !.revoked = TRUE]
    <2>1. \A q \in Reqs : q # t => tokens'[q] = tokens[q] BY <1>1 DEF Structure, SessionTypeOK
    <2>2. tokens[t] = None => tokens'[t] = None BY <1>1, <1>3 DEF Structure, SessionTypeOK
    <2>3. tokens[t] # None => tokens'[t] = [tokens[t] EXCEPT !.revoked = TRUE]
      BY <1>1, <1>3 DEF Structure, SessionTypeOK
    <2> HIDE DEF t
    <2>4. QED BY <2>1, <2>2, <2>3
  <1>5. \A q \in Reqs : tokens[q] # None =>
            LET row == [tokens[q] EXCEPT !.revoked = TRUE] IN
            /\ row \in RefreshToken /\ row.user = tokens[q].user /\ row.session = tokens[q].session
    BY DEF Structure, SessionTypeOK, RefreshToken
  <1>6. /\ tokens' \in [Reqs -> RefreshToken \cup {None}]
        /\ \A q \in Reqs : tokens'[q] # None => /\ tokens[q] # None
                                               /\ tokens'[q].user = tokens[q].user
                                               /\ tokens'[q].session = tokens[q].session
    BY <1>1, <1>4, <1>5 DEF Structure, SessionTypeOK
  <1>7. TablesOK' BY <1>1, <1>6 DEF Structure, SessionTypeOK, TablesOK
  <1>8. HistoryOK' BY <1>1 DEF HistoryOK, Structure, SessionTypeOK, history
  <1>9. (\A u, q : Owns(u, q) => Owns(u, q)') => TablesOwned'
    BY <1>1, <1>6 DEF Structure, Owned, TablesOwned
  <1>10. QED
    BY <1>1, <1>2, <1>7, <1>8, <1>9, GoOnStructure DEF Steps, Outcomes

LEMMA CheckBearerStructure ==
    ASSUME Structure, NEW r \in Reqs, CheckBearer(r)
    PROVE  Structure'
  <1> DEFINE user == mem[job[r].of].user
  <1>1. pc[r] = "bearer" /\ UNCHANGED <<now, tables, job, history>>
    BY DEF CheckBearer
  <1>2. job[r].op = "logout" /\ job[r].of \in Issued BY <1>1 DEF Structure, JobsFit
  <1>3. user \in Users BY <1>2 DEF Structure, Owned, Bound, Owns
  <1>4. HistoryOK' BY <1>1 DEF HistoryOK, Structure, SessionTypeOK, history
  <1>5. CASE Goto(r, "who", Identity(user, None))
    <2>1. Identity(user, None) \in Local BY <1>3, IdentityOK
    <2>2. QED
      BY <1>1, <1>2, <1>4, <1>5, <2>1, TablesStay, GoOnStructure DEF Steps, Outcomes
  <1>6. CASE Finish(r, "refused")
    BY <1>1, <1>6, FinishStructure DEF Steps
  <1>7. QED BY <1>5, <1>6 DEF CheckBearer

LEMMA ReadBearerStructure ==
    ASSUME Structure, NEW r \in Reqs, ReadBearer(r)
    PROVE  Structure'
  <1> DEFINE token == mem[job[r].of]
             locals == Identity(mem[r].user, IF now <= token.exp THEN token.session ELSE None)
  <1>1. pc[r] = "who" /\ UNCHANGED <<now, tables, job, history>>
    BY DEF ReadBearer
  <1>2. job[r].op = "logout" /\ job[r].of \in Issued BY <1>1 DEF Structure, JobsFit
  <1>3. token.session \in Reqs BY <1>2 DEF Structure, Owned, Bound, Owns
  <1>4. mem[r].user \in Users \cup {None} BY DEF Structure, SessionTypeOK, Local
  <1>5. HistoryOK' BY <1>1 DEF HistoryOK, Structure, SessionTypeOK, history
  <1>6. CASE Goto(r, "delete", locals)
    <2>1. locals \in Local BY <1>3, <1>4, IdentityOK
    <2> HIDE DEF locals
    <2>2. QED
      BY <1>1, <1>2, <1>5, <1>6, <2>1, TablesStay, GoOnStructure DEF Steps, Outcomes
  <1>7. CASE Finish(r, "refused")
    BY <1>1, <1>7, FinishStructure DEF Steps
  <1>8. QED BY <1>6, <1>7 DEF ReadBearer

LEMMA DeleteSessionsStructure ==
    ASSUME Structure, NEW r \in Reqs, DeleteSessions(r)
    PROVE  Structure'
  <1>1. /\ pc[r] = "delete" /\ Goto(r, "revokeAll", mem[r])
        /\ sessions' = [q \in Reqs |-> IF q \in Deleted(r) THEN None ELSE sessions[q]]
        /\ UNCHANGED <<now, users, tokens, job, forked, cut>>
        /\ ended' = ended \cup Deleted(r)
        /\ raced' = raced \cup {q \in Deleted(r) : Opening(q) # {}}
    BY DEF DeleteSessions
  <1>2. job[r].op = "logout" /\ mem[r] \in Local
    BY <1>1 DEF Structure, JobsFit, SessionTypeOK
  <1>3. TablesOK' BY <1>1 DEF Structure, SessionTypeOK, TablesOK
  <1>4. HistoryOK' BY <1>1 DEF Deleted, HistoryOK, Structure, SessionTypeOK
  <1>5. (\A u, q : Owns(u, q) => Owns(u, q)') => TablesOwned'
    BY <1>1 DEF Structure, Owned, TablesOwned
  <1>6. QED
    BY <1>1, <1>2, <1>3, <1>4, <1>5, GoOnStructure DEF Steps, Outcomes

LEMMA RevokeTokensStructure ==
    ASSUME Structure, NEW r \in Reqs, RevokeTokens(r)
    PROVE  Structure'
  <1>1. /\ pc[r] = "revokeAll" /\ Goto(r, "ok", Fresh)
        /\ tokens' = [q \in Reqs |-> IF q \in Revoked(r)
                                       THEN [tokens[q] EXCEPT !.revoked = TRUE] ELSE tokens[q]]
        /\ now' = now /\ users' = users /\ sessions' = sessions /\ job' = job /\ UNCHANGED history
    BY DEF RevokeTokens, Finish
  <1>2. job[r].op = "logout" BY <1>1 DEF Structure, JobsFit
  <1>3. \A q \in Reqs : tokens[q] # None =>
            LET row == [tokens[q] EXCEPT !.revoked = TRUE] IN
            /\ row \in RefreshToken /\ row.user = tokens[q].user /\ row.session = tokens[q].session
    BY DEF Structure, SessionTypeOK, RefreshToken
  <1>4. /\ tokens' \in [Reqs -> RefreshToken \cup {None}]
        /\ \A q \in Reqs : tokens'[q] # None => /\ tokens[q] # None
                                               /\ tokens'[q].user = tokens[q].user
                                               /\ tokens'[q].session = tokens[q].session
    BY <1>1, <1>3 DEF Structure, SessionTypeOK, Revoked
  <1>5. TablesOK' BY <1>1, <1>4 DEF Structure, SessionTypeOK, TablesOK
  <1>6. HistoryOK' BY <1>1 DEF HistoryOK, Structure, SessionTypeOK, history
  <1>7. (\A u, q : Owns(u, q) => Owns(u, q)') => TablesOwned'
    BY <1>1, <1>4 DEF Structure, Owned, TablesOwned
  <1>8. QED
    BY <1>1, <1>2, <1>5, <1>6, <1>7, FreshOK, GoOnStructure DEF Steps, Outcomes

LEMMA EraseUserStructure ==
    ASSUME Structure, NEW r \in Reqs, EraseUser(r)
    PROVE  Structure'
  <1> DEFINE u == job[r].user
             gone == {q \in Reqs : sessions[q] # None /\ sessions[q].user = u}
             outcome == IF u \in users THEN "ok" ELSE "refused"
  <1>1. /\ pc[r] = "erase" /\ Goto(r, outcome, Fresh)
        /\ users' = users \ {u}
        /\ sessions' = [q \in Reqs |-> IF q \in gone THEN None ELSE sessions[q]]
        /\ tokens' = [q \in Reqs |-> IF q \in OwnTokens(u) THEN None ELSE tokens[q]]
        /\ ended' = ended \cup gone
        /\ UNCHANGED <<now, job, raced, forked, cut>>
    BY DEF EraseUser, Finish
  <1>2. job[r].op = "erase" /\ outcome \in {"ok", "refused"}
    BY <1>1 DEF Structure, JobsFit
  <1>3. TablesOK'
    BY <1>1 DEF Structure, SessionTypeOK, TablesOK, OwnTokens
  <1>4. HistoryOK' BY <1>1 DEF HistoryOK, Structure, SessionTypeOK
  <1>5. (\A v, q : Owns(v, q) => Owns(v, q)') => TablesOwned'
    BY <1>1 DEF Structure, Owned, TablesOwned
  <1> HIDE DEF outcome
  <1>6. QED
    BY <1>1, <1>2, <1>3, <1>4, <1>5, FreshOK, GoOnStructure DEF Steps, Outcomes

LEMMA CrashStructure ==
    ASSUME Structure, Crash
    PROVE  Structure'
  <1>1. /\ pc' = [r \in Reqs |-> IF r \in InFlight THEN "lost" ELSE pc[r]]
        /\ mem' = [r \in Reqs |-> IF r \in InFlight THEN Fresh ELSE mem[r]]
        /\ cut' = cut \cup {s \in Reqs : Opening(s) # {}}
        /\ UNCHANGED <<now, users, sessions, tokens, job, ended, raced, forked>>
    BY DEF Crash, tables
  <1>2. SessionTypeOK'
    BY <1>1, FreshOK DEF Structure, SessionTypeOK, InFlight, Steps, Outcomes
  <1>3. Issued' = Issued
    BY <1>1 DEF Issued, InFlight, Steps, Structure, SessionTypeOK
  <1>4. JobsFit'
    BY <1>1, <1>3 DEF Structure, JobsFit, InFlight, Steps
  <1>5. \A u, s : Owns(u, s) => Owns(u, s)'
    BY <1>1 DEF Owns, InFlight, Steps
  <1>6. \A q \in Bound' : q \in Bound /\ mem'[q] = mem[q]
    BY <1>1, <1>3 DEF Bound, Issued, InFlight, Steps
  <1>7. Owned'
    BY <1>1, <1>5, <1>6 DEF Structure, Owned
  <1>8. QED BY <1>2, <1>4, <1>7 DEF Structure

LEMMA StepStructure ==
    ASSUME Structure, [Next]_vars
    PROVE  Structure'
  <1>1. CASE Crash BY <1>1, CrashStructure
  <1>2. CASE TimePasses
    <2>1. now' \in Times /\ UNCHANGED <<users, sessions, tokens, pc, job, mem, ended, raced, forked, cut>>
      BY <1>2, TimeAssumption DEF TimePasses, Structure, SessionTypeOK, Times, tables, history
    <2>2. QED BY <2>1 DEF Structure, SessionTypeOK, JobsFit, Owned, Bound, Issued, Owns
  <1>3. CASE UNCHANGED vars
    BY <1>3 DEF vars, Structure, SessionTypeOK, JobsFit, Owned, Bound, Issued, Owns
  <1>4. ASSUME NEW r \in Reqs, Step(r) PROVE Structure'
    <2>1. CASE Begin(r) BY <2>1, BeginStructure
    <2>2. CASE ReadUser(r) BY <2>2, ReadUserStructure
    <2>3. CASE OpenSession(r) BY <2>3, OpenSessionStructure
    <2>4. CASE IssueToken(r) BY <2>4, IssueTokenStructure
    <2>5. CASE InsertRefused(r) BY <2>5, FinishStructure DEF InsertRefused, Steps
    <2>6. CASE Lookup(r) BY <2>6, LookupStructure
    <2>7. CASE NotFound(r) BY <2>7, FinishStructure DEF NotFound, Steps
    <2>8. CASE CheckSession(r) BY <2>8, CheckSessionStructure
    <2>9. CASE RevokeToken(r) BY <2>9, RevokeTokenStructure
    <2>10. CASE CheckBearer(r) BY <2>10, CheckBearerStructure
    <2>11. CASE ReadBearer(r) BY <2>11, ReadBearerStructure
    <2>12. CASE DeleteSessions(r) BY <2>12, DeleteSessionsStructure
    <2>13. CASE RevokeTokens(r) BY <2>13, RevokeTokensStructure
    <2>14. CASE EraseUser(r) BY <2>14, EraseUserStructure
    <2>15. QED
      BY <1>4, <2>1, <2>2, <2>3, <2>4, <2>5, <2>6, <2>7, <2>8, <2>9, <2>10, <2>11, <2>12,
         <2>13, <2>14 DEF Step
  <1>5. QED BY <1>1, <1>2, <1>3, <1>4 DEF Next

(* Every state is well typed; in particular no session and no refresh token  *)
(* outlives its user's row, and each belongs to one sign-in of that user.    *)
THEOREM AuthTypeOK == Spec => []SessionTypeOK
  <1>1. Init => Structure BY InitStructure
  <1>2. Structure /\ [Next]_vars => Structure' BY StepStructure
  <1>3. Structure => SessionTypeOK BY DEF Structure
  <1>4. QED BY <1>1, <1>2, <1>3, PTL DEF Spec

----------------------------------------------------------------------------
(* Ended sessions stay ended.  What makes it inductive: no handler that could *)
(* write the session's row is left, but for those of a removed user.          *)

Gone(s) ==
    /\ pc[s] # "idle" /\ sessions[s] = None
    /\ \A r \in Opening(s) : mem[r].user \notin users

EndedInv == \A s \in ended \ raced : Gone(s)

LEMMA GoOnEnded ==
    ASSUME Structure, EndedInv, NEW r \in Reqs, pc[r] \in Steps,
           NEW step \in Steps \cup Outcomes, NEW locals, Goto(r, step, locals),
           users' \subseteq users, ended' = ended, raced \subseteq raced',
           \A s \in ended \ raced :
               /\ sessions'[s] = None
               /\ step \in {"revoke", "user", "session", "token"} /\ locals.session = s
                    => locals.user \notin users
    PROVE  EndedInv'
  <1> SUFFICES ASSUME NEW s \in ended' \ raced' PROVE Gone(s)'
    BY DEF EndedInv
  <1>1. /\ s \in ended \ raced /\ s \in Reqs /\ Gone(s)
        /\ step \in {"revoke", "user", "session", "token"} /\ locals.session = s
             => locals.user \notin users
    BY DEF EndedInv, Structure, SessionTypeOK
  <1>2. pc' = [pc EXCEPT ![r] = step] /\ mem' = [mem EXCEPT ![r] = locals]
    BY DEF Goto
  <1>3. pc'[s] # "idle"
    BY <1>1, <1>2 DEF Gone, Steps, Outcomes, Structure, SessionTypeOK
  <1>4. ASSUME NEW q \in Opening(s)' PROVE mem'[q].user \notin users'
    BY <1>1, <1>2, <1>4 DEF Gone, Opening, Structure, SessionTypeOK
  <1>5. QED BY <1>1, <1>3, <1>4 DEF Gone

LEMMA FinishEnded ==
    ASSUME Structure, EndedInv, NEW r \in Reqs, pc[r] \in Steps,
           NEW outcome \in Outcomes, Finish(r, outcome),
           UNCHANGED <<users, sessions, ended, raced>>
    PROVE  EndedInv'
  BY GoOnEnded DEF Finish, EndedInv, Gone, Steps, Outcomes

LEMMA OpeningOwns ==
    ASSUME Structure, NEW s \in Reqs, NEW r \in Opening(s)
    PROVE  r \in Reqs /\ mem[r].session = s /\ Owns(mem[r].user, s)
  BY DEF Structure, Owned, Bound, Opening

LEMMA StepEnded ==
    ASSUME Structure, EndedInv, NEW r \in Reqs, Step(r)
    PROVE  EndedInv'
  <1>1. CASE Begin(r)
    <2>1. PICK j \in Job :
              /\ pc' = [pc EXCEPT ![r] = FirstStep(j.op)]
              /\ mem' = [mem EXCEPT ![r] = IF j.op = "signin" THEN Identity(j.user, r) ELSE Fresh]
      BY <1>1 DEF Begin, Goto
    <2>2. pc[r] = "idle" /\ UNCHANGED <<users, sessions, ended, raced>>
      BY <1>1 DEF Begin, tables, history
    <2> SUFFICES ASSUME NEW s \in ended \ raced PROVE Gone(s)'
      BY <2>2 DEF EndedInv
    <2>3. s \in Reqs /\ Gone(s) /\ s # r
      BY <2>2 DEF EndedInv, Gone, Structure, SessionTypeOK
    <2>4. r \notin Opening(s)'
      BY <2>1, <2>3, JobCases, IdentityOK DEF Opening, Structure, SessionTypeOK
    <2>5. \A q \in Opening(s)' : q \in Opening(s) /\ mem'[q] = mem[q]
      BY <2>1, <2>4 DEF Opening, Structure, SessionTypeOK
    <2>6. QED BY <2>1, <2>2, <2>3, <2>5 DEF Gone, Structure, SessionTypeOK
  <1>2. CASE ReadUser(r)
    <2>1. /\ pc[r] = "user" /\ UNCHANGED <<users, sessions, ended, raced>>
      BY <1>2 DEF ReadUser, tables, history
    <2>2. CASE mem[r].user \notin users
      <3>1. PICK outcome \in Outcomes : Finish(r, outcome)
        BY <1>2, <2>2 DEF ReadUser, Outcomes
      <3>2. QED BY <2>1, <3>1, FinishEnded DEF Steps
    <2>3. CASE mem[r].user \in users
      <3> DEFINE locals == Locals(mem[r].user, mem[r].session, Deadline, now + Lifetime)
      <3>1. Goto(r, "session", locals) BY <1>2, <2>3 DEF ReadUser
      <3>2. locals.session = mem[r].session BY DEF Locals
      <3>3. \A s \in ended \ raced : mem[r].session # s
        BY <2>1, <2>3 DEF EndedInv, Gone, Opening
      <3> HIDE DEF locals
      <3>4. QED
        BY <2>1, <3>1, <3>2, <3>3, GoOnEnded DEF EndedInv, Gone, Steps
    <2>4. QED BY <2>2, <2>3
  <1>3. CASE OpenSession(r)
    <2> DEFINE o == mem[r].session
    <2>1. /\ pc[r] = "session" /\ mem[r].user \in users /\ Goto(r, "token", mem[r])
          /\ users' = users /\ ended' = ended /\ raced \subseteq raced'
      BY <1>3 DEF OpenSession
    <2>2. \A s \in ended \ raced : o # s
      BY <2>1 DEF EndedInv, Gone, Opening
    <2>3. \A s \in Reqs : s # o => sessions'[s] = sessions[s]
      BY <1>3 DEF OpenSession, Structure, SessionTypeOK
    <2>4. \A s \in ended \ raced : sessions'[s] = None
      BY <2>2, <2>3 DEF EndedInv, Gone, Structure, SessionTypeOK
    <2>5. QED
      BY <2>1, <2>2, <2>4, GoOnEnded DEF Steps
  <1>4. CASE IssueToken(r)
    BY <1>4, GoOnEnded DEF IssueToken, EndedInv, Gone, Steps, Outcomes, history
  <1>5. CASE InsertRefused(r)
    BY <1>5, FinishEnded DEF InsertRefused, Steps, Outcomes, tables, history
  <1>6. CASE Lookup(r)
    BY <1>6, GoOnEnded DEF Lookup, EndedInv, Gone, Steps, Outcomes, tables
  <1>7. CASE NotFound(r)
    BY <1>7, FinishEnded DEF NotFound, Steps, Outcomes, tables, history
  <1>8. CASE CheckSession(r)
    <2>1. pc[r] = "check" /\ UNCHANGED <<users, sessions, ended, raced>>
      BY <1>8 DEF CheckSession, tables, history
    <2>2. CASE sessions[mem[r].session] # None
      BY <1>8, <2>1, <2>2, GoOnEnded DEF CheckSession, EndedInv, Gone, Steps
    <2>3. CASE sessions[mem[r].session] = None
      BY <1>8, <2>1, <2>3, FinishEnded DEF CheckSession, Steps, Outcomes
    <2>4. QED BY <2>2, <2>3
  <1>9. CASE RevokeToken(r)
    <2>1. /\ pc[r] = "revoke" /\ Goto(r, "user", mem[r])
          /\ UNCHANGED <<users, sessions, ended, raced>>
      BY <1>9 DEF RevokeToken, history
    <2>2. \A s \in ended \ raced : mem[r].session = s => mem[r].user \notin users
      BY <2>1 DEF EndedInv, Gone, Opening
    <2>3. QED
      BY <2>1, <2>2, GoOnEnded DEF EndedInv, Gone, Steps
  <1>10. CASE CheckBearer(r)
    BY <1>10, GoOnEnded, FinishEnded DEF CheckBearer, EndedInv, Gone, Steps, Outcomes, tables, history
  <1>11. CASE ReadBearer(r)
    BY <1>11, GoOnEnded, FinishEnded DEF ReadBearer, EndedInv, Gone, Steps, Outcomes, tables, history
  <1>12. CASE DeleteSessions(r)
    <2>1. /\ pc[r] = "delete" /\ Goto(r, "revokeAll", mem[r])
          /\ sessions' = [q \in Reqs |-> IF q \in Deleted(r) THEN None ELSE sessions[q]]
          /\ users' = users /\ ended' = ended \cup Deleted(r)
          /\ raced' = raced \cup {q \in Deleted(r) : Opening(q) # {}}
      BY <1>12 DEF DeleteSessions
    <2>2. ASSUME NEW s \in Reqs
          PROVE  (\A q \in Opening(s)' : q \in Opening(s) /\ mem'[q] = mem[q])
                   /\ (pc[s] # "idle" => pc'[s] # "idle")
      BY <2>1 DEF Goto, Opening, Structure, SessionTypeOK
    <2> SUFFICES ASSUME NEW s \in ended' \ raced' PROVE Gone(s)'
      BY DEF EndedInv
    <2>3. CASE s \in ended
      <3>1. s \in Reqs /\ Gone(s) BY <2>1, <2>3 DEF EndedInv, Structure, SessionTypeOK
      <3>2. QED BY <2>1, <2>2, <3>1 DEF Gone
    <2>4. CASE s \in Deleted(r)
      <3>1. s \in Reqs /\ pc[s] # "idle"
        BY <2>4 DEF Deleted, Structure, Owned, Owns
      <3>2. Opening(s) = {} BY <2>1, <2>4
      <3>3. QED BY <2>1, <2>2, <2>4, <3>1, <3>2 DEF Gone
    <2>5. QED BY <2>1, <2>3, <2>4
  <1>13. CASE RevokeTokens(r)
    BY <1>13, FinishEnded DEF RevokeTokens, Steps, Outcomes, history
  <1>14. CASE EraseUser(r)
    <2> DEFINE u == job[r].user
               gone == {q \in Reqs : sessions[q] # None /\ sessions[q].user = u}
    <2>1. /\ pc[r] = "erase" /\ users' = users \ {u}
          /\ sessions' = [q \in Reqs |-> IF q \in gone THEN None ELSE sessions[q]]
          /\ ended' = ended \cup gone /\ raced' = raced
          /\ \E outcome \in Outcomes : Goto(r, outcome, Fresh)
      BY <1>14 DEF EraseUser, Finish, Outcomes
    <2>2. ASSUME NEW s \in Reqs
          PROVE  (\A q \in Opening(s)' : q \in Opening(s) /\ mem'[q] = mem[q])
                   /\ (pc[s] # "idle" => pc'[s] # "idle")
      BY <2>1 DEF Goto, Opening, Structure, SessionTypeOK, Outcomes
    <2> SUFFICES ASSUME NEW s \in ended' \ raced' PROVE Gone(s)'
      BY DEF EndedInv
    <2>3. CASE s \in ended
      <3>1. s \in Reqs /\ Gone(s) BY <2>1, <2>3 DEF EndedInv, Structure, SessionTypeOK
      <3>2. QED BY <2>1, <2>2, <3>1 DEF Gone
    <2>4. CASE s \in gone
      <3>1. s \in Reqs /\ pc[s] # "idle" /\ job[s].user = u
        BY <2>4 DEF Structure, Owned, Owns
      <3>2. \A q \in Opening(s) : mem[q].user = u
        BY <3>1, OpeningOwns DEF Owns
      <3>3. QED BY <2>1, <2>2, <2>4, <3>1, <3>2 DEF Gone
    <2>5. QED BY <2>1, <2>3, <2>4
  <1>15. QED
    BY <1>1, <1>2, <1>3, <1>4, <1>5, <1>6, <1>7, <1>8, <1>9, <1>10, <1>11, <1>12, <1>13,
       <1>14 DEF Step

LEMMA NextEnded ==
    ASSUME Structure, EndedInv, [Next]_vars
    PROVE  EndedInv'
  <1>1. CASE Crash
    <2>1. /\ pc' = [r \in Reqs |-> IF r \in InFlight THEN "lost" ELSE pc[r]]
          /\ UNCHANGED <<users, sessions, ended, raced>>
      BY <1>1 DEF Crash, tables
    <2>2. ASSUME NEW s \in Reqs
          PROVE  Opening(s)' = {} /\ (pc[s] # "idle" => pc'[s] # "idle")
      BY <2>1 DEF Opening, InFlight, Steps
    <2>3. QED BY <2>1, <2>2 DEF EndedInv, Gone, Structure, SessionTypeOK
  <1>2. CASE TimePasses
    BY <1>2 DEF TimePasses, EndedInv, Gone, Opening, tables, history
  <1>3. CASE UNCHANGED vars
    BY <1>3 DEF vars, EndedInv, Gone, Opening
  <1>4. QED BY <1>1, <1>2, <1>3, StepEnded DEF Next

(* A session that was ended is not brought back, whatever the interleaving,  *)
(* unless a refresh was past its check when the logout deleted the session.  *)
THEOREM EndedSessionsStayEnded == Spec => []StaysEnded
  <1>1. Init => Structure /\ EndedInv
    BY InitStructure DEF Init, EndedInv
  <1>2. Structure /\ EndedInv /\ [Next]_vars => (Structure /\ EndedInv)'
    BY StepStructure, NextEnded
  <1>3. EndedInv => StaysEnded
    BY DEF EndedInv, Gone, StaysEnded
  <1>4. QED BY <1>1, <1>2, <1>3, PTL DEF Spec

----------------------------------------------------------------------------
(* Refresh tokens are used once.  What makes it inductive: a refresh that has *)
(* looked its token up is the only one of its session, and holds the only    *)
(* token of it.                                                              *)

Checking(s) == {r \in Reqs : pc[r] \in {"check", "revoke"} /\ mem[r].session = s}

Single(s) ==
    /\ \A a, b \in Holders(s) : a = b
    /\ \A r \in Checking(s) : Holders(s) \subseteq {job[r].of}
    /\ \A r, q \in Checking(s) : r = q

SingleInv == \A s \in Reqs \ forked : Single(s)

LEMMA ShrinkSingle ==
    ASSUME SingleInv, forked \subseteq forked',
           \A s \in Reqs : /\ Holders(s)' \subseteq Holders(s)
                          /\ \A q \in Checking(s)' : q \in Checking(s) /\ job'[q] = job[q]
    PROVE  SingleInv'
  <1> SUFFICES ASSUME NEW s \in Reqs \ forked' PROVE Single(s)'
    BY DEF SingleInv
  <1>1. Single(s) BY DEF SingleInv
  <1>2. QED BY <1>1 DEF Single

(* A handler that goes on with the session it had, or ends.                  *)
LEMMA GoOnSingle ==
    ASSUME Structure, SingleInv, NEW r \in Reqs, NEW step \in Steps \cup Outcomes,
           NEW locals, Goto(r, step, locals), job' = job, forked \subseteq forked',
           \A t \in Reqs : Usable(t)' => Usable(t) /\ tokens'[t].session = tokens[t].session,
           step \in {"user", "session", "token"} =>
               pc[r] \in {"user", "session", "token"} /\ locals.session = mem[r].session,
           step \in {"check", "revoke"} =>
               pc[r] \in {"check", "revoke"} /\ locals.session = mem[r].session
    PROVE  SingleInv'
  <1>1. pc'[r] = step /\ mem'[r] = locals /\ \A q \in Reqs : q # r => pc'[q] = pc[q] /\ mem'[q] = mem[q]
    BY DEF Goto, Structure, SessionTypeOK
  <1>2. ASSUME NEW s \in Reqs, NEW q \in Holders(s)' PROVE q \in Holders(s)
    <2>1. q \in Reqs BY DEF Holders
    <2>2. CASE Usable(q)' /\ tokens'[q].session = s BY <2>1, <2>2 DEF Holders
    <2>3. CASE pc'[q] \in {"user", "session", "token"} /\ mem'[q].session = s
      BY <2>1, <2>3, <1>1 DEF Holders
    <2>4. QED BY <1>2, <2>2, <2>3 DEF Holders
  <1>3. ASSUME NEW s \in Reqs, NEW q \in Checking(s)' PROVE q \in Checking(s)
    BY <1>1, <1>3 DEF Checking
  <1>4. QED BY <1>2, <1>3, ShrinkSingle

LEMMA TokensUnchanged ==
    ASSUME tokens' = tokens
    PROVE  \A t \in Reqs : /\ Usable(t)' = Usable(t)
                          /\ tokens'[t].session = tokens[t].session
  BY DEF Usable

LEMMA FinishSingle ==
    ASSUME Structure, SingleInv, NEW r \in Reqs, NEW outcome \in Outcomes, Finish(r, outcome),
           job' = job, forked' = forked, tokens' = tokens
    PROVE  SingleInv'
  BY GoOnSingle, TokensUnchanged DEF Finish, Steps, Outcomes

(* Nobody holds or checks a token of a session whose sign-in has not begun.  *)
LEMMA IdleUnheld ==
    ASSUME Structure, NEW r \in Reqs, pc[r] = "idle"
    PROVE  Holders(r) = {} /\ Checking(r) = {}
  BY DEF Structure, Owned, Owns, Bound, Holders, Checking, Usable

LEMMA StepSingle ==
    ASSUME Structure, SingleInv, NEW r \in Reqs, Step(r)
    PROVE  SingleInv'
  <1>1. CASE Begin(r)
    <2>1. PICK j \in Job :
              /\ pc' = [pc EXCEPT ![r] = FirstStep(j.op)]
              /\ mem' = [mem EXCEPT ![r] = IF j.op = "signin" THEN Identity(j.user, r) ELSE Fresh]
              /\ job' = [job EXCEPT ![r] = j]
      BY <1>1 DEF Begin, Goto
    <2>2. pc[r] = "idle" /\ tokens' = tokens /\ forked' = forked
      BY <1>1 DEF Begin, tables, history
    <2>3. /\ pc'[r] = FirstStep(j.op)
          /\ pc'[r] = "user" => mem'[r].session = r
          /\ \A q \in Reqs : q # r => pc'[q] = pc[q] /\ mem'[q] = mem[q] /\ job'[q] = job[q]
      BY <2>1, JobCases, IdentityOK DEF Structure, SessionTypeOK
    <2> SUFFICES ASSUME NEW s \in Reqs \ forked PROVE Single(s)'
      BY <2>2 DEF SingleInv
    <2>4. \A q \in Checking(s)' : q # r /\ q \in Checking(s) /\ job'[q] = job[q]
      BY <2>3, JobCases DEF Checking
    <2>5. \A q \in Holders(s)' : q \in Holders(s) \/ (q = r /\ s = r)
      BY <2>2, <2>3, JobCases DEF Holders, Usable
    <2>6. CASE s = r
      <3>1. Holders(s) = {} /\ Checking(s) = {} BY <2>2, <2>6, IdleUnheld
      <3>2. QED BY <3>1, <2>4, <2>5 DEF Single
    <2>7. CASE s # r
      BY <2>4, <2>5, <2>7 DEF SingleInv, Single
    <2>8. QED BY <2>6, <2>7
  <1>2. CASE ReadUser(r)
    <2>1. /\ pc[r] = "user" /\ tokens' = tokens /\ forked' = forked /\ job' = job
      BY <1>2 DEF ReadUser, tables, history
    <2>2. CASE mem[r].user \notin users
      <3>1. PICK outcome \in Outcomes : Finish(r, outcome)
        BY <1>2, <2>2 DEF ReadUser, Outcomes
      <3>2. QED BY <2>1, <3>1, FinishSingle
    <2>3. CASE mem[r].user \in users
      <3> DEFINE locals == Locals(mem[r].user, mem[r].session, Deadline, now + Lifetime)
      <3>1. Goto(r, "session", locals) BY <1>2, <2>3 DEF ReadUser
      <3>2. locals.session = mem[r].session BY DEF Locals
      <3> HIDE DEF locals
      <3>3. QED
        BY <2>1, <3>1, <3>2, GoOnSingle, TokensUnchanged DEF Steps
    <2>4. QED BY <2>2, <2>3
  <1>3. CASE OpenSession(r)
    <2>1. /\ pc[r] = "session" /\ Goto(r, "token", mem[r])
          /\ tokens' = tokens /\ forked' = forked /\ job' = job
      BY <1>3 DEF OpenSession
    <2>2. QED BY <2>1, GoOnSingle, TokensUnchanged DEF Steps
  <1>4. CASE IssueToken(r)
    <2>1. /\ pc[r] = "token" /\ Goto(r, "ok", mem[r]) /\ forked' = forked /\ job' = job
          /\ tokens' = [tokens EXCEPT ![r] =
                [user |-> mem[r].user, session |-> mem[r].session, revoked |-> FALSE]]
      BY <1>4 DEF IssueToken, history
    <2>2. /\ tokens'[r].session = mem[r].session
          /\ \A q \in Reqs : q # r => tokens'[q] = tokens[q] /\ pc'[q] = pc[q] /\ mem'[q] = mem[q]
          /\ pc'[r] = "ok"
      BY <2>1 DEF Goto, Structure, SessionTypeOK
    <2>3. ASSUME NEW s \in Reqs, NEW q \in Holders(s)' PROVE q \in Holders(s)
      BY <2>1, <2>2, <2>3 DEF Holders, Usable
    <2>4. \A s \in Reqs : Checking(s)' \subseteq Checking(s)
      BY <2>2 DEF Checking
    <2>5. QED BY <2>1, <2>3, <2>4, ShrinkSingle
  <1>5. CASE InsertRefused(r)
    BY <1>5, FinishSingle DEF InsertRefused, Outcomes, tables, history
  <1>6. CASE Lookup(r)
    <2> DEFINE t == job[r].of
               o == tokens[t].session
    <2>1. /\ pc[r] = "lookup" /\ Usable(t) /\ Goto(r, "check", Identity(tokens[t].user, o))
          /\ tokens' = tokens /\ job' = job /\ forked \subseteq forked'
          /\ (\E q \in Reqs : pc[q] \in {"check", "revoke"} /\ job[q].of = t) => o \in forked'
      BY <1>6 DEF Lookup, tables
    <2>2. t \in Reqs BY <2>1 DEF Structure, JobsFit, Issued
    <2>3. Owns(tokens[t].user, o) BY <2>1, <2>2 DEF Usable, Structure, Owned
    <2>4. /\ pc'[r] = "check" /\ mem'[r].session = o
          /\ \A q \in Reqs : q # r => pc'[q] = pc[q] /\ mem'[q] = mem[q]
      BY <2>1, <2>3, IdentityOK DEF Goto, Owns, Structure, SessionTypeOK
    <2>5. t \in Holders(o) BY <2>1, <2>2 DEF Holders
    <2> SUFFICES ASSUME NEW s \in Reqs \ forked' PROVE Single(s)'
      BY DEF SingleInv
    <2>6. Single(s) BY <2>1 DEF SingleInv
    <2>7. Holders(s)' \subseteq Holders(s)
      BY <2>1, <2>4 DEF Holders, Usable
    <2> HIDE DEF t, o
    <2>8. CASE s # o
      <3>1. Checking(s)' \subseteq Checking(s) BY <2>4, <2>8 DEF Checking
      <3>2. QED BY <2>1, <2>6, <2>7, <3>1 DEF Single
    <2>9. CASE s = o
      <3>1. Holders(s) = {t} BY <2>5, <2>6, <2>9 DEF Single
      <3>2. Checking(s) = {}
        <4>1. \A q \in Checking(s) : job[q].of = t BY <2>6, <3>1 DEF Single
        <4>2. QED BY <4>1, <2>1, <2>9 DEF Checking
      <3>3. Checking(s)' \subseteq {r} BY <2>4, <3>2 DEF Checking
      <3>4. job'[r].of = t BY <2>1 DEF t
      <3>5. QED BY <2>7, <3>1, <3>3, <3>4 DEF Single
    <2>10. QED BY <2>8, <2>9
  <1>7. CASE NotFound(r)
    BY <1>7, FinishSingle DEF NotFound, Outcomes, tables, history
  <1>8. CASE CheckSession(r)
    <2>1. pc[r] = "check" /\ tokens' = tokens /\ forked' = forked /\ job' = job
      BY <1>8 DEF CheckSession, tables, history
    <2>2. CASE Goto(r, "revoke", mem[r])
      BY <2>1, <2>2, GoOnSingle, TokensUnchanged DEF Steps
    <2>3. CASE Finish(r, "refused")
      BY <2>1, <2>3, FinishSingle DEF Outcomes
    <2>4. QED BY <1>8, <2>2, <2>3 DEF CheckSession
  <1>9. CASE RevokeToken(r)
    <2> DEFINE t == job[r].of
               o == mem[r].session
    <2>1. /\ pc[r] = "revoke" /\ Goto(r, "user", mem[r]) /\ job' = job /\ forked' = forked
          /\ tokens' = [tokens EXCEPT ![t] = IF tokens[t] = None THEN None
                                                ELSE [tokens[t] EXCEPT !.revoked = TRUE]]
      BY <1>9 DEF RevokeToken, history
    <2>2. t \in Reqs BY <2>1 DEF Structure, JobsFit, Issued
    <2>3. \A q \in Reqs : q = t => ~Usable(q)'
      <3>1. tokens[t] # None => tokens'[t].revoked
        BY <2>1, <2>2 DEF Structure, SessionTypeOK, RefreshToken
      <3>2. tokens[t] = None => tokens'[t] = None
        BY <2>1, <2>2 DEF Structure, SessionTypeOK
      <3>3. QED BY <3>1, <3>2 DEF Usable
    <2>4. /\ \A q \in Reqs : q # t => tokens'[q] = tokens[q]
          /\ \A q \in Reqs : q # r => pc'[q] = pc[q] /\ mem'[q] = mem[q]
          /\ pc'[r] = "user" /\ mem'[r] = mem[r]
      BY <2>1 DEF Goto, Structure, SessionTypeOK
    <2>5. ASSUME NEW s \in Reqs, NEW q \in Holders(s)'
          PROVE  \/ q \in Holders(s) /\ (q # t \/ pc[q] \in {"user", "session", "token"})
                 \/ q = r /\ s = o
      <3>1. q \in Reqs BY DEF Holders
      <3>2. CASE Usable(q)' /\ tokens'[q].session = s
        BY <3>1, <3>2, <2>3, <2>4 DEF Holders, Usable
      <3>3. CASE pc'[q] \in {"user", "session", "token"} /\ mem'[q].session = s
        BY <3>1, <3>3, <2>4 DEF Holders
      <3>4. QED BY <2>5, <3>2, <3>3 DEF Holders
    <2>6. \A s \in Reqs : Checking(s)' = Checking(s) \ {r}
      BY <2>4 DEF Checking
    <2>7. pc[t] = "ok" BY <2>1 DEF Structure, JobsFit, Issued
    <2> SUFFICES ASSUME NEW s \in Reqs \ forked PROVE Single(s)'
      BY <2>1 DEF SingleInv
    <2>8. Single(s) BY DEF SingleInv
    <2>9. CASE s # o
      <3>1. Holders(s)' \subseteq Holders(s) BY <2>5, <2>9
      <3>2. QED BY <2>1, <2>6, <2>8, <3>1 DEF Single
    <2>10. CASE s = o
      <3>1. r \in Checking(s) BY <2>1, <2>10 DEF Checking
      <3>2. Holders(s) \subseteq {t} /\ Checking(s) = {r} BY <2>8, <3>1 DEF Single
      <3>3. Holders(s)' \subseteq {r}
        BY <2>5, <2>7, <3>2
      <3>4. Checking(s)' = {} BY <2>6, <3>2
      <3>5. QED BY <3>3, <3>4 DEF Single
    <2>11. QED BY <2>9, <2>10
  <1>10. CASE CheckBearer(r)
    BY <1>10, GoOnSingle, FinishSingle, TokensUnchanged
       DEF CheckBearer, Steps, Outcomes, tables, history
  <1>11. CASE ReadBearer(r)
    BY <1>11, GoOnSingle, FinishSingle, TokensUnchanged
       DEF ReadBearer, Steps, Outcomes, tables, history
  <1>12. CASE DeleteSessions(r)
    BY <1>12, GoOnSingle, TokensUnchanged DEF DeleteSessions, Steps
  <1>13. CASE RevokeTokens(r)
    <2>1. \A t \in Reqs : tokens'[t] = IF t \in Revoked(r)
                                           THEN [tokens[t] EXCEPT !.revoked = TRUE] ELSE tokens[t]
      BY <1>13 DEF RevokeTokens
    <2>2. \A t \in Revoked(r) : tokens[t] \in RefreshToken
      BY DEF Revoked, Structure, SessionTypeOK
    <2>3. \A t \in Reqs : Usable(t)' => tokens'[t] = tokens[t]
      BY <2>1, <2>2 DEF Usable, RefreshToken
    <2>4. \A t \in Reqs : Usable(t)' => Usable(t) /\ tokens'[t].session = tokens[t].session
      BY <2>3 DEF Usable
    <2>5. QED
      BY <1>13, <2>4, GoOnSingle DEF RevokeTokens, Finish, Steps, Outcomes, history
  <1>14. CASE EraseUser(r)
    <2>1. \A t \in Reqs : Usable(t)' => tokens'[t] = tokens[t]
      BY <1>14 DEF EraseUser, Usable
    <2>2. \A t \in Reqs : Usable(t)' => Usable(t) /\ tokens'[t].session = tokens[t].session
      BY <2>1 DEF Usable
    <2>3. QED
      BY <1>14, <2>2, GoOnSingle DEF EraseUser, Finish, Steps, Outcomes
  <1>15. QED
    BY <1>1, <1>2, <1>3, <1>4, <1>5, <1>6, <1>7, <1>8, <1>9, <1>10, <1>11, <1>12, <1>13,
       <1>14 DEF Step

LEMMA NextSingle ==
    ASSUME Structure, SingleInv, [Next]_vars
    PROVE  SingleInv'
  <1>1. CASE Crash
    <2>1. /\ pc' = [r \in Reqs |-> IF r \in InFlight THEN "lost" ELSE pc[r]]
          /\ mem' = [r \in Reqs |-> IF r \in InFlight THEN Fresh ELSE mem[r]]
          /\ UNCHANGED <<tokens, job, forked>>
      BY <1>1 DEF Crash, tables
    <2>2. \A s \in Reqs : Holders(s)' \subseteq Holders(s) /\ Checking(s)' \subseteq Checking(s)
      BY <2>1 DEF Holders, Checking, Usable, InFlight, Steps
    <2>3. QED BY <2>1, <2>2, ShrinkSingle
  <1>2. CASE TimePasses
    BY <1>2 DEF TimePasses, SingleInv, Single, Holders, Checking, Usable, tables, history
  <1>3. CASE UNCHANGED vars
    BY <1>3 DEF vars, SingleInv, Single, Holders, Checking, Usable
  <1>4. QED BY <1>1, <1>2, <1>3, StepSingle DEF Next

(* Whatever the interleaving, a session has one usable token at a time unless *)
(* one of its tokens was presented twice before it was revoked.              *)
THEOREM TokensAreUsedOnce == Spec => []OneUsableToken
  <1>1. Init => Structure /\ SingleInv
    BY InitStructure DEF Init, SingleInv, Single, Holders, Checking, Usable
  <1>2. Structure /\ SingleInv /\ [Next]_vars => (Structure /\ SingleInv)'
    BY StepStructure, NextSingle
  <1>3. SingleInv => OneUsableToken
    BY DEF SingleInv, Single, OneUsableToken
  <1>4. QED BY <1>1, <1>2, <1>3, PTL DEF Spec

----------------------------------------------------------------------------
(* A live session can be refreshed.  What makes it inductive: a token is      *)
(* issued by its request's last query and keeps its session; and a logout on *)
(* its way to revoke tokens leaves no live session in its scope, but for     *)
(* those opened since, which it has raced with.                              *)

TokenLasts(t) == tokens[t] # None => pc[t] = "ok"
TokenKnown(r) ==
    pc[r] \in {"check", "revoke"} /\ tokens[job[r].of] # None
        => tokens[job[r].of].session = mem[r].session
TokenInv == \A r \in Reqs : TokenLasts(r) /\ TokenKnown(r)

(* What a request's step may do to tokens and to its own locals.             *)
TokenFrame(r) ==
    /\ pc[r] # "ok"
    /\ \A t \in Reqs : tokens'[t] # None =>
            \/ tokens[t] # None /\ tokens'[t].session = tokens[t].session
            \/ t = r /\ pc[r] = "token" /\ pc'[r] = "ok"
    /\ \A q \in Reqs : q # r => pc'[q] = pc[q] /\ mem'[q] = mem[q] /\ job'[q] = job[q]
    /\ pc'[r] \in {"check", "revoke"} =>
            /\ job'[r] = job[r]
            /\ \/ pc[r] = "check" /\ mem'[r].session = mem[r].session
               \/ pc[r] = "lookup" /\ mem'[r].session = tokens[job[r].of].session
                    /\ tokens[job[r].of] # None

LEMMA StepFrame ==
    ASSUME Structure, NEW r \in Reqs, Step(r)
    PROVE  TokenFrame(r)
  <1> USE DEF TokenFrame, Goto, Finish, tables, history
  <1>1. CASE Begin(r) BY <1>1, JobCases DEF Begin, Structure, SessionTypeOK
  <1>2. CASE ReadUser(r) BY <1>2 DEF ReadUser, Structure, SessionTypeOK
  <1>3. CASE OpenSession(r) BY <1>3 DEF OpenSession, Structure, SessionTypeOK
  <1>4. CASE IssueToken(r) BY <1>4 DEF IssueToken, Structure, SessionTypeOK
  <1>5. CASE InsertRefused(r) BY <1>5 DEF InsertRefused, Structure, SessionTypeOK
  <1>6. CASE Lookup(r)
    <2>1. job[r].of \in Reqs BY <1>6 DEF Lookup, Structure, JobsFit, Issued
    <2>2. Owns(tokens[job[r].of].user, tokens[job[r].of].session)
      BY <1>6, <2>1 DEF Lookup, Usable, Structure, Owned
    <2>3. Identity(tokens[job[r].of].user, tokens[job[r].of].session).session
             = tokens[job[r].of].session
      BY <2>2, IdentityOK DEF Owns
    <2>4. QED BY <1>6, <2>3 DEF Lookup, Usable, Structure, SessionTypeOK
  <1>7. CASE NotFound(r) BY <1>7 DEF NotFound, Structure, SessionTypeOK
  <1>8. CASE CheckSession(r) BY <1>8 DEF CheckSession, Structure, SessionTypeOK
  <1>9. CASE RevokeToken(r)
    <2>1. \A t \in Reqs : tokens'[t] # None =>
              tokens[t] # None /\ tokens'[t].session = tokens[t].session
      BY <1>9 DEF RevokeToken, Structure, SessionTypeOK, RefreshToken
    <2>2. QED BY <1>9, <2>1 DEF RevokeToken, Structure, SessionTypeOK
  <1>10. CASE CheckBearer(r) BY <1>10 DEF CheckBearer, Structure, SessionTypeOK
  <1>11. CASE ReadBearer(r) BY <1>11 DEF ReadBearer, Structure, SessionTypeOK
  <1>12. CASE DeleteSessions(r) BY <1>12 DEF DeleteSessions, Structure, SessionTypeOK
  <1>13. CASE RevokeTokens(r)
    <2>1. \A t \in Reqs : tokens'[t] # None =>
              tokens[t] # None /\ tokens'[t].session = tokens[t].session
      BY <1>13 DEF RevokeTokens, Revoked, Structure, SessionTypeOK, RefreshToken
    <2>2. QED BY <1>13, <2>1 DEF RevokeTokens, Structure, SessionTypeOK
  <1>14. CASE EraseUser(r) BY <1>14 DEF EraseUser, Structure, SessionTypeOK
  <1>15. QED
    BY <1>1, <1>2, <1>3, <1>4, <1>5, <1>6, <1>7, <1>8, <1>9, <1>10, <1>11, <1>12, <1>13,
       <1>14 DEF Step

LEMMA StepTokens ==
    ASSUME Structure, TokenInv, [Next]_vars
    PROVE  TokenInv'
  <1>1. CASE Crash
    <2>1. /\ pc' = [r \in Reqs |-> IF r \in InFlight THEN "lost" ELSE pc[r]]
          /\ UNCHANGED <<tokens, job>>
      BY <1>1 DEF Crash, tables
    <2>2. \A r \in Reqs : pc'[r] \notin {"check", "revoke"} /\ (pc[r] = "ok" => pc'[r] = "ok")
      BY <2>1 DEF InFlight, Steps
    <2>3. QED BY <2>1, <2>2 DEF TokenInv, TokenLasts, TokenKnown
  <1>2. CASE TimePasses
    BY <1>2 DEF TimePasses, TokenInv, TokenLasts, TokenKnown, tables, history
  <1>3. CASE UNCHANGED vars
    BY <1>3 DEF vars, TokenInv, TokenLasts, TokenKnown
  <1>4. ASSUME NEW r \in Reqs, Step(r) PROVE TokenInv'
    <2>1. TokenFrame(r) BY <1>4, StepFrame
    <2> SUFFICES ASSUME NEW q \in Reqs PROVE TokenLasts(q)' /\ TokenKnown(q)'
      BY DEF TokenInv
    <2>2. TokenLasts(q)'
      BY <2>1 DEF TokenFrame, TokenInv, TokenLasts
    <2>3. ASSUME pc'[q] \in {"check", "revoke"}, tokens'[job'[q].of] # None
          PROVE  tokens'[job'[q].of].session = mem'[q].session
      <3>1. /\ job'[q] = job[q] /\ pc[q] \in {"lookup", "check", "revoke"}
        BY <2>1, <2>3 DEF TokenFrame
      <3>2. job[q].of \in Reqs /\ pc[job[q].of] = "ok"
        BY <3>1 DEF Structure, JobsFit, Issued
      <3>3. tokens[job[q].of] # None /\ tokens'[job[q].of].session = tokens[job[q].of].session
        BY <2>1, <2>3, <3>1, <3>2 DEF TokenFrame
      <3>4. tokens[job[q].of].session = mem'[q].session
        BY <2>1, <2>3, <3>1, <3>3 DEF TokenFrame, TokenInv, TokenKnown
      <3>5. QED BY <3>1, <3>3, <3>4
    <2>4. QED BY <2>2, <2>3 DEF TokenKnown
  <1>5. QED BY <1>1, <1>2, <1>3, <1>4 DEF Next

LiveHeld(s) == s \notin raced \cup cut /\ sessions[s] # None => Holders(s) # {}
ScopeEmptied(l, s) ==
    pc[l] = "revokeAll" /\ sessions[s] # None /\ InScope(l, sessions[s].user, s) => s \in raced
LiveInv ==
    /\ \A s \in Reqs : LiveHeld(s)
    /\ \A l, s \in Reqs : ScopeEmptied(l, s)

(* The steps that open no session and do not start to revoke.                *)
LEMMA KeepLive ==
    ASSUME Structure, LiveInv, NEW r \in Reqs, pc'[r] # "revokeAll",
           \A q \in Reqs : q # r => pc'[q] = pc[q] /\ mem'[q] = mem[q] /\ job'[q] = job[q],
           raced' = raced, cut' = cut,
           \A s \in Reqs : sessions'[s] # None =>
               /\ sessions'[s] = sessions[s]
               /\ Holders(s) # {} => Holders(s)' # {} \/ s \in raced
    PROVE  LiveInv'
  <1>1. ASSUME NEW s \in Reqs PROVE LiveHeld(s)'
    BY DEF LiveInv, LiveHeld
  <1>2. ASSUME NEW l \in Reqs, NEW s \in Reqs PROVE ScopeEmptied(l, s)'
    <2>1. CASE l = r BY <2>1 DEF ScopeEmptied
    <2>2. CASE l # r
      <3>1. \A u : InScope(l, u, s)' = InScope(l, u, s) BY <2>2 DEF InScope
      <3>2. ScopeEmptied(l, s) BY DEF LiveInv
      <3>3. QED BY <2>2, <3>1, <3>2 DEF ScopeEmptied
    <2>3. QED BY <2>1, <2>2
  <1>3. QED BY <1>1, <1>2 DEF LiveInv

(* A handler that holds a session and goes on holding it, or holds none.     *)
LEMMA GoOnLive ==
    ASSUME Structure, LiveInv, NEW r \in Reqs, NEW step, NEW locals, Goto(r, step, locals),
           step # "revokeAll", job' = job, tokens' = tokens, raced' = raced, cut' = cut,
           sessions' = sessions,
           \/ pc[r] \notin {"user", "session", "token"}
           \/ step \in {"user", "session", "token"} /\ locals.session = mem[r].session
           \/ mem[r].user \notin users
    PROVE  LiveInv'
  <1>1. pc'[r] = step /\ mem'[r] = locals /\ \A q \in Reqs : q # r => pc'[q] = pc[q] /\ mem'[q] = mem[q]
    BY DEF Goto, Structure, SessionTypeOK
  <1>2. ASSUME NEW s \in Reqs, sessions[s] # None PROVE Holders(s) \subseteq Holders(s)'
    <2>1. CASE pc[r] \notin {"user", "session", "token"}
      BY <1>1, <2>1 DEF Holders, Usable
    <2>2. CASE step \in {"user", "session", "token"} /\ locals.session = mem[r].session
      BY <1>1, <2>2 DEF Holders, Usable
    <2>3. CASE pc[r] \in {"user", "session", "token"} /\ mem[r].user \notin users
      <3>1. Owns(mem[r].user, mem[r].session) BY <2>3 DEF Structure, Owned, Bound
      <3>2. Owns(sessions[s].user, s) /\ sessions[s].user \in users
        BY <1>2 DEF Structure, Owned, SessionTypeOK
      <3>3. mem[r].session # s BY <2>3, <3>1, <3>2 DEF Owns
      <3>4. QED BY <1>1, <3>3 DEF Holders, Usable
    <2>4. QED BY <2>1, <2>2, <2>3
  <1>3. QED BY <1>1, <1>2, KeepLive

LEMMA FinishLive ==
    ASSUME Structure, LiveInv, NEW r \in Reqs, NEW outcome \in Outcomes, Finish(r, outcome),
           UNCHANGED <<tables, job, history>>,
           pc[r] \notin {"user", "session", "token"} \/ mem[r].user \notin users
    PROVE  LiveInv'
  BY GoOnLive DEF Finish, Outcomes, tables, history

LEMMA StepLive ==
    ASSUME Structure, TokenInv, LiveInv, NEW r \in Reqs, Step(r)
    PROVE  LiveInv'
  <1>1. CASE Begin(r)
    <2>1. PICK j \in Job : pc' = [pc EXCEPT ![r] = FirstStep(j.op)]
      BY <1>1 DEF Begin, Goto
    <2>2. pc[r] = "idle" /\ UNCHANGED <<tokens, sessions, raced, cut>>
      BY <1>1 DEF Begin, tables, history
    <2>3. pc'[r] # "revokeAll" BY <2>1, JobCases DEF Structure, SessionTypeOK
    <2>4. TokenFrame(r) BY <1>1, StepFrame DEF Step
    <2>5. \A s \in Reqs : Holders(s) \subseteq Holders(s)'
      BY <2>2, <2>4 DEF TokenFrame, Holders, Usable
    <2>6. QED BY <2>2, <2>3, <2>4, <2>5, KeepLive DEF TokenFrame
  <1>2. CASE ReadUser(r)
    <2>1. /\ pc[r] = "user" /\ UNCHANGED <<tables, job, history>>
      BY <1>2 DEF ReadUser
    <2>2. CASE mem[r].user \notin users
      <3>1. PICK outcome \in Outcomes : Finish(r, outcome)
        BY <1>2, <2>2 DEF ReadUser, Outcomes
      <3>2. QED BY <2>1, <2>2, <3>1, FinishLive
    <2>3. CASE mem[r].user \in users
      <3> DEFINE locals == Locals(mem[r].user, mem[r].session, Deadline, now + Lifetime)
      <3>1. Goto(r, "session", locals) BY <1>2, <2>3 DEF ReadUser
      <3>2. locals.session = mem[r].session BY DEF Locals
      <3> HIDE DEF locals
      <3>3. QED BY <2>1, <3>1, <3>2, GoOnLive DEF tables, history
    <2>4. QED BY <2>2, <2>3
  <1>3. CASE OpenSession(r)
    <2> DEFINE o == mem[r].session
    <2>1. /\ pc[r] = "session" /\ Goto(r, "token", mem[r])
          /\ tokens' = tokens /\ job' = job /\ cut' = cut
          /\ raced' = IF \E l \in Reqs : pc[l] = "revokeAll" /\ InScope(l, mem[r].user, o)
                        THEN raced \cup {o} ELSE raced
      BY <1>3 DEF OpenSession
    <2>2. Owns(mem[r].user, o) BY <2>1 DEF Structure, Owned, Bound
    <2>3. /\ pc'[r] = "token" /\ mem' = mem
          /\ \A q \in Reqs : q # r => pc'[q] = pc[q]
      BY <2>1 DEF Goto, Structure, SessionTypeOK
    <2>4. \A s \in Reqs : s # o => sessions'[s] = sessions[s]
      BY <1>3 DEF OpenSession, Structure, SessionTypeOK
    <2>5. \A s \in Reqs : s = o /\ sessions'[s] # None => sessions'[s].user = mem[r].user
      <3>1. Structure' BY <1>3, OpenSessionStructure
      <3>2. \A s \in Reqs : sessions'[s] # None => job'[s].user = sessions'[s].user
        BY <3>1 DEF Structure, Owned, Owns
      <3>3. QED BY <2>1, <2>2, <3>2 DEF Owns
    <2> HIDE DEF o
    <2>6. \A s \in Reqs : Holders(s)' = Holders(s)
      BY <2>1, <2>3 DEF Holders, Usable
    <2>7. \A s \in Reqs : s = o => r \in Holders(s)
      BY <2>1 DEF Holders, o
    <2>8. ASSUME NEW s \in Reqs PROVE LiveHeld(s)'
      BY <2>1, <2>4, <2>6, <2>7 DEF LiveInv, LiveHeld
    <2>9. ASSUME NEW l \in Reqs, NEW s \in Reqs PROVE ScopeEmptied(l, s)'
      <3>1. \A u : InScope(l, u, s)' = InScope(l, u, s) BY <2>1, <2>3 DEF InScope
      <3>2. pc'[l] = "revokeAll" => pc[l] = "revokeAll" BY <2>3
      <3>3. CASE s = o
        BY <2>1, <2>5, <3>1, <3>2, <3>3 DEF ScopeEmptied
      <3>4. CASE s # o
        BY <2>1, <2>4, <3>1, <3>2, <3>4 DEF ScopeEmptied, LiveInv
      <3>5. QED BY <3>3, <3>4
    <2>10. QED BY <2>8, <2>9 DEF LiveInv
  <1>4. CASE IssueToken(r)
    <2>1. /\ pc[r] = "token" /\ Goto(r, "ok", mem[r])
          /\ UNCHANGED <<sessions, raced, cut, job>>
          /\ tokens' = [tokens EXCEPT ![r] =
                [user |-> mem[r].user, session |-> mem[r].session, revoked |-> FALSE]]
      BY <1>4 DEF IssueToken, history
    <2>2. tokens[r] = None BY <2>1 DEF TokenInv, TokenLasts
    <2>3. TokenFrame(r) /\ pc'[r] = "ok" /\ mem'[r] = mem[r]
      BY <1>4, <2>1, StepFrame DEF Step, Goto, Structure, SessionTypeOK
    <2>4. \A q \in Reqs : q # r => tokens'[q] = tokens[q]
      BY <2>1 DEF Structure, SessionTypeOK
    <2>5. Usable(r)' /\ tokens'[r].session = mem[r].session
      <3>1. tokens'[r] = [user |-> mem[r].user, session |-> mem[r].session, revoked |-> FALSE]
        BY <2>1 DEF Structure, SessionTypeOK
      <3>2. mem[r].user \in Users /\ mem[r].session \in Reqs
        BY <2>1 DEF Structure, Owned, Bound, Owns
      <3>3. tokens'[r] \in RefreshToken BY <3>1, <3>2 DEF RefreshToken
      <3>4. tokens'[r] # None BY <3>3, RowAssumption
      <3>5. QED BY <3>1, <3>4 DEF Usable
    <2>6. \A s \in Reqs : Holders(s) \subseteq Holders(s)'
      BY <2>2, <2>3, <2>4, <2>5 DEF TokenFrame, Holders, Usable
    <2>7. QED BY <2>1, <2>3, <2>6, KeepLive DEF TokenFrame
  <1>5. CASE InsertRefused(r)
    BY <1>5, FinishLive DEF InsertRefused, Outcomes
  <1>6. CASE Lookup(r)
    BY <1>6, GoOnLive DEF Lookup, tables
  <1>7. CASE NotFound(r)
    BY <1>7, FinishLive DEF NotFound, Outcomes
  <1>8. CASE CheckSession(r)
    BY <1>8, GoOnLive, FinishLive DEF CheckSession, Outcomes, tables, history
  <1>9. CASE RevokeToken(r)
    <2> DEFINE t == job[r].of
    <2>1. /\ pc[r] = "revoke" /\ Goto(r, "user", mem[r])
          /\ UNCHANGED <<sessions, raced, cut, job>>
          /\ tokens' = [tokens EXCEPT ![t] = IF tokens[t] = None THEN None
                                                ELSE [tokens[t] EXCEPT !.revoked = TRUE]]
      BY <1>9 DEF RevokeToken, history
    <2>2. t \in Reqs BY <2>1 DEF Structure, JobsFit, Issued
    <2>3. TokenFrame(r) /\ pc'[r] = "user" /\ mem'[r] = mem[r]
      BY <1>9, <2>1, StepFrame DEF Step, Goto, Structure, SessionTypeOK
    <2>4. tokens[t] # None => tokens[t].session = mem[r].session
      BY <2>1 DEF TokenInv, TokenKnown
    <2>5. \A q \in Reqs : q # t => tokens'[q] = tokens[q]
      BY <2>1 DEF Structure, SessionTypeOK
    <2> HIDE DEF t
    <2>6. ASSUME NEW s \in Reqs, Holders(s) # {} PROVE Holders(s)' # {}
      <3>1. CASE mem[r].session = s
        BY <2>3, <3>1 DEF Holders
      <3>2. CASE mem[r].session # s
        BY <2>1, <2>3, <2>4, <2>5, <2>6, <3>2 DEF TokenFrame, Holders, Usable
      <3>3. QED BY <3>1, <3>2
    <2>7. QED BY <2>1, <2>3, <2>6, KeepLive DEF TokenFrame
  <1>10. CASE CheckBearer(r)
    BY <1>10, GoOnLive, FinishLive DEF CheckBearer, Outcomes, tables, history
  <1>11. CASE ReadBearer(r)
    BY <1>11, GoOnLive, FinishLive DEF ReadBearer, Outcomes, tables, history
  <1>12. CASE DeleteSessions(r)
    <2>1. /\ pc[r] = "delete" /\ Goto(r, "revokeAll", mem[r])
          /\ sessions' = [q \in Reqs |-> IF q \in Deleted(r) THEN None ELSE sessions[q]]
          /\ tokens' = tokens /\ job' = job /\ cut' = cut /\ raced \subseteq raced'
      BY <1>12 DEF DeleteSessions
    <2>2. /\ mem' = mem /\ \A q \in Reqs : q # r => pc'[q] = pc[q]
      BY <2>1 DEF Goto, Structure, SessionTypeOK
    <2>3. pc'[r] = "revokeAll" BY <2>1 DEF Goto, Structure, SessionTypeOK
    <2>4. \A s \in Reqs : Holders(s)' = Holders(s)
      BY <2>1, <2>2, <2>3 DEF Holders, Usable
    <2>5. ASSUME NEW s \in Reqs PROVE LiveHeld(s)'
      BY <2>1, <2>4 DEF LiveInv, LiveHeld
    <2>6. ASSUME NEW l \in Reqs, NEW s \in Reqs PROVE ScopeEmptied(l, s)'
      <3>1. \A u : InScope(l, u, s)' = InScope(l, u, s) BY <2>1, <2>2 DEF InScope
      <3>2. sessions'[s] # None => sessions'[s] = sessions[s] /\ s \notin Deleted(r) BY <2>1
      <3>3. CASE l = r
        BY <3>1, <3>2, <3>3 DEF ScopeEmptied, Deleted
      <3>4. CASE l # r
        BY <2>1, <2>2, <3>1, <3>2, <3>4 DEF ScopeEmptied, LiveInv
      <3>5. QED BY <3>3, <3>4
    <2>7. QED BY <2>5, <2>6 DEF LiveInv
  <1>13. CASE RevokeTokens(r)
    <2>1. /\ pc[r] = "revokeAll" /\ Goto(r, "ok", Fresh)
          /\ UNCHANGED <<sessions, raced, cut, job>>
          /\ \A t \in Reqs : t \notin Revoked(r) => tokens'[t] = tokens[t]
      BY <1>13 DEF RevokeTokens, Finish, history
    <2>2. TokenFrame(r) /\ pc'[r] = "ok"
      BY <1>13, <2>1, StepFrame DEF Step, Goto, Structure, SessionTypeOK
    <2>3. ASSUME NEW s \in Reqs, sessions[s] # None, s \notin raced
          PROVE  Holders(s) \subseteq Holders(s)'
      <3>1. ASSUME NEW t \in Reqs, tokens[t] # None, tokens[t].session = s PROVE t \notin Revoked(r)
        <4>1. tokens[t].user = sessions[s].user
          BY <2>3, <3>1 DEF Structure, Owned, Owns
        <4>2. ~InScope(r, sessions[s].user, s)
          BY <2>1, <2>3 DEF LiveInv, ScopeEmptied
        <4>3. QED BY <3>1, <4>1, <4>2 DEF Revoked
      <3>2. QED BY <2>1, <2>2, <3>1 DEF TokenFrame, Holders, Usable
    <2>4. QED BY <2>1, <2>2, <2>3, KeepLive DEF TokenFrame
  <1>14. CASE EraseUser(r)
    <2> DEFINE u == job[r].user
    <2>1. /\ pc[r] = "erase" /\ UNCHANGED <<raced, cut, job>>
          /\ \A s \in Reqs : sessions'[s] # None => sessions'[s] = sessions[s] /\ sessions[s].user # u
          /\ \A t \in Reqs : t \notin OwnTokens(u) => tokens'[t] = tokens[t]
      BY <1>14 DEF EraseUser
    <2>2. TokenFrame(r) /\ pc'[r] \in {"ok", "refused"}
      BY <1>14, StepFrame DEF Step, EraseUser, Finish, Goto, Structure, SessionTypeOK
    <2>3. ASSUME NEW s \in Reqs, sessions'[s] # None PROVE Holders(s) \subseteq Holders(s)'
      <3>1. ASSUME NEW t \in Reqs, tokens[t] # None, tokens[t].session = s PROVE t \notin OwnTokens(u)
        BY <2>1, <2>3, <3>1 DEF OwnTokens, Structure, Owned, Owns
      <3>2. QED BY <2>1, <2>2, <3>1 DEF TokenFrame, Holders, Usable
    <2>4. QED BY <2>1, <2>2, <2>3, KeepLive DEF TokenFrame
  <1>15. QED
    BY <1>1, <1>2, <1>3, <1>4, <1>5, <1>6, <1>7, <1>8, <1>9, <1>10, <1>11, <1>12, <1>13,
       <1>14 DEF Step

LEMMA NextLive ==
    ASSUME Structure, TokenInv, LiveInv, [Next]_vars
    PROVE  LiveInv'
  <1>1. CASE Crash
    <2>1. /\ pc' = [r \in Reqs |-> IF r \in InFlight THEN "lost" ELSE pc[r]]
          /\ cut' = cut \cup {s \in Reqs : Opening(s) # {}}
          /\ UNCHANGED <<sessions, tokens, raced>>
      BY <1>1 DEF Crash, tables
    <2>2. ASSUME NEW s \in Reqs, Opening(s) = {} PROVE Holders(s) \subseteq Holders(s)'
      BY <2>1, <2>2 DEF Holders, Opening, Usable
    <2>3. \A r \in Reqs : pc'[r] # "revokeAll" BY <2>1 DEF InFlight, Steps
    <2>4. QED BY <2>1, <2>2, <2>3 DEF LiveInv, LiveHeld, ScopeEmptied
  <1>2. CASE TimePasses
    BY <1>2 DEF TimePasses, LiveInv, LiveHeld, ScopeEmptied, InScope, Holders, Usable, tables, history
  <1>3. CASE UNCHANGED vars
    BY <1>3 DEF vars, LiveInv, LiveHeld, ScopeEmptied, InScope, Holders, Usable
  <1>4. QED BY <1>1, <1>2, <1>3, StepLive DEF Next

(* A client is not logged out by accident: whatever the interleaving, a live *)
(* session has a usable token, or a handler that will issue one, unless a    *)
(* logout or a crash met the handler that was at work on it.                 *)
THEOREM LiveSessionsRefreshable == Spec => []SessionRefreshable
  <1>1. Init => Structure /\ TokenInv /\ LiveInv
    BY InitStructure DEF Init, TokenInv, TokenLasts, TokenKnown, LiveInv, LiveHeld, ScopeEmptied
  <1>2. Structure /\ TokenInv /\ LiveInv /\ [Next]_vars => (Structure /\ TokenInv /\ LiveInv)'
    BY StepStructure, StepTokens, NextLive
  <1>3. LiveInv => SessionRefreshable
    BY DEF LiveInv, LiveHeld, SessionRefreshable
  <1>4. QED BY <1>1, <1>2, <1>3, PTL DEF Spec

----------------------------------------------------------------------------
(* A logout keeps to its scope.  What makes it inductive: what its handler    *)
(* carries is the identity of the bearer, whose answer never changes.        *)

Bears(r) ==
    LET token == mem[job[r].of] IN
    /\ pc[r] \in {"who", "delete"} => mem[r].user = token.user
    /\ pc[r] = "delete" => \/ mem[r].session = token.session
                           \/ mem[r].session = None /\ now > token.exp
BearerInv == \A r \in Reqs : Bears(r)

LEMMA KeepBearer ==
    ASSUME Structure, BearerInv, NEW r \in Reqs, TokenFrame(r), now' = now,
           pc'[r] \notin {"who", "delete"}
    PROVE  BearerInv'
  <1> SUFFICES ASSUME NEW q \in Reqs, pc'[q] \in {"who", "delete"} PROVE Bears(q)'
    BY DEF BearerInv, Bears
  <1>1. q # r /\ pc'[q] = pc[q] /\ mem'[q] = mem[q] /\ job'[q] = job[q] BY DEF TokenFrame
  <1>2. job[q].of \in Reqs /\ pc[job[q].of] = "ok" BY <1>1 DEF Structure, JobsFit, Issued
  <1>3. mem'[job[q].of] = mem[job[q].of] BY <1>2 DEF TokenFrame
  <1>4. QED BY <1>1, <1>3 DEF BearerInv, Bears

LEMMA StepBearer ==
    ASSUME Structure, BearerInv, NEW r \in Reqs, Step(r)
    PROVE  BearerInv'
  <1>1. TokenFrame(r) BY StepFrame
  <1>2. now' = now
    BY DEF Step, Begin, ReadUser, OpenSession, IssueToken, InsertRefused, Lookup, NotFound,
           CheckSession, RevokeToken, CheckBearer, ReadBearer, DeleteSessions, RevokeTokens,
           EraseUser
  <1>3. CASE pc'[r] \notin {"who", "delete"} BY <1>1, <1>2, <1>3, KeepBearer
  <1>4. CASE pc'[r] \in {"who", "delete"}
    <2>1. CheckBearer(r) \/ ReadBearer(r)
      BY <1>4, JobCases
         DEF Step, Begin, ReadUser, OpenSession, IssueToken, InsertRefused, Lookup, NotFound,
             CheckSession, RevokeToken, DeleteSessions, RevokeTokens, EraseUser, Goto, Finish,
             Structure, SessionTypeOK
    <2>2. job' = job /\ pc[r] \in {"bearer", "who"} BY <2>1 DEF CheckBearer, ReadBearer
    <2>3. job[r].of \in Reqs /\ pc[job[r].of] = "ok" /\ job[r].of \in Bound
      BY <2>2 DEF Structure, JobsFit, Issued, Bound
    <2> DEFINE token == mem[job[r].of]
    <2>4. token.user \in Users /\ token.session \in Reqs /\ token.exp \in Nat
      BY <2>3 DEF Structure, SessionTypeOK, Owned, Owns, Local
    <2>5. job[r].of # r /\ mem'[job[r].of] = token BY <1>1, <2>2, <2>3 DEF TokenFrame
    <2>6. Bears(r)'
      <3>1. CASE CheckBearer(r)
        <4>1. mem'[r] = Identity(token.user, None) /\ pc'[r] = "who"
          BY <3>1, <1>4 DEF CheckBearer, Goto, Finish, Structure, SessionTypeOK
        <4>2. mem'[r].user = token.user BY <4>1, <2>4, IdentityOK
        <4>3. QED BY <4>1, <4>2, <2>2, <2>5 DEF Bears
      <3>2. CASE ReadBearer(r)
        <4> DEFINE current == IF now <= token.exp THEN token.session ELSE None
        <4>1. mem'[r] = Identity(mem[r].user, current) /\ pc'[r] = "delete"
          BY <3>2, <1>4 DEF ReadBearer, Goto, Finish, Structure, SessionTypeOK
        <4>2. mem[r].user = token.user
          BY <3>2 DEF ReadBearer, BearerInv, Bears
        <4>3. current \in Reqs \cup {None} BY <2>4
        <4>4. current = token.session \/ (current = None /\ now > token.exp)
          BY <2>4 DEF Structure, SessionTypeOK, Times
        <4> HIDE DEF current
        <4>5. mem'[r].user = token.user /\ mem'[r].session = current
          BY <4>1, <4>2, <4>3, <2>4, IdentityOK
        <4>6. QED BY <1>2, <4>4, <4>5, <2>2, <2>5 DEF Bears
      <3>3. QED BY <2>1, <3>1, <3>2
    <2>7. ASSUME NEW q \in Reqs, q # r PROVE Bears(q)'
      <3>1. pc'[q] = pc[q] /\ mem'[q] = mem[q] /\ job'[q] = job[q] BY <1>1, <2>7 DEF TokenFrame
      <3>2. CASE pc[q] \in {"who", "delete"}
        <4>1. job[q].of \in Reqs /\ pc[job[q].of] = "ok" BY <3>2 DEF Structure, JobsFit, Issued
        <4>2. mem'[job[q].of] = mem[job[q].of] BY <1>1, <4>1 DEF TokenFrame
        <4>3. QED BY <1>2, <3>1, <4>2 DEF BearerInv, Bears
      <3>3. QED BY <3>1, <3>2 DEF Bears
    <2>8. QED BY <2>6, <2>7 DEF BearerInv
  <1>5. QED BY <1>3, <1>4

LEMMA NextBearer ==
    ASSUME Structure, BearerInv, [Next]_vars
    PROVE  BearerInv'
  <1>1. CASE Crash
    <2>1. \A r \in Reqs : pc'[r] \notin {"who", "delete"}
      BY <1>1 DEF Crash, InFlight, Steps
    <2>2. QED BY <2>1 DEF BearerInv, Bears
  <1>2. CASE TimePasses
    <2>1. now' = now + 1 /\ UNCHANGED <<pc, job, mem>> BY <1>2 DEF TimePasses
    <2> SUFFICES ASSUME NEW r \in Reqs PROVE Bears(r)'
      BY DEF BearerInv
    <2>2. CASE pc[r] \in {"who", "delete"}
      <3>1. job[r].of \in Reqs BY <2>2 DEF Structure, JobsFit, Issued
      <3>2. mem[job[r].of].exp \in Nat /\ now \in Nat
        BY <3>1, TimeAssumption DEF Structure, SessionTypeOK, Local, Times
      <3>3. QED BY <2>1, <3>2 DEF BearerInv, Bears
    <2>3. QED BY <2>1, <2>2 DEF Bears
  <1>3. CASE UNCHANGED vars
    BY <1>3 DEF vars, BearerInv, Bears
  <1>4. QED BY <1>1, <1>2, <1>3, StepBearer DEF Next

EndsInScope(r, s) ==
    pc[r] = "delete" /\ pc'[r] = "revokeAll" /\ sessions[s] # None /\ sessions'[s] = None =>
        /\ sessions[s].user = mem[job[r].of].user
        /\ job[r].scope = "local" /\ now <= mem[job[r].of].exp => s = mem[job[r].of].session
        /\ job[r].scope = "others" /\ now <= mem[job[r].of].exp => s # mem[job[r].of].session

LEMMA DeletionInScope ==
    ASSUME Structure, BearerInv, [Next]_vars, NEW r \in Reqs, NEW s \in Reqs
    PROVE  EndsInScope(r, s)
  <1> DEFINE token == mem[job[r].of]
  <1> SUFFICES ASSUME pc[r] = "delete", pc'[r] = "revokeAll", sessions[s] # None, sessions'[s] = None
               PROVE  /\ sessions[s].user = token.user
                      /\ job[r].scope = "local" /\ now <= token.exp => s = token.session
                      /\ job[r].scope = "others" /\ now <= token.exp => s # token.session
    BY DEF EndsInScope
  <1>1. DeleteSessions(r)
    <2>1. PICK q \in Reqs : Step(q)
      BY DEF Next, Crash, TimePasses, InFlight, Steps, vars
    <2>2. q = r BY <2>1, StepFrame DEF TokenFrame
    <2>3. QED
      BY <2>1, <2>2 DEF Step, Begin, ReadUser, OpenSession, IssueToken, InsertRefused, Lookup,
         NotFound, CheckSession, RevokeToken, CheckBearer, ReadBearer, RevokeTokens, EraseUser
  <1>2. InScope(r, sessions[s].user, s)
    BY <1>1 DEF DeleteSessions, Deleted
  <1>3. /\ job[r].op = "logout" /\ job[r] \in Job
        /\ job[r].of \in Reqs /\ job[r].of \in Bound
    BY DEF Structure, SessionTypeOK, JobsFit, Issued, Bound
  <1>4. job[r].scope \in Scopes BY <1>3, JobCases
  <1>5. Owns(token.user, token.session) /\ Owns(sessions[s].user, s) /\ token.exp \in Nat
    BY <1>3 DEF Structure, Owned, SessionTypeOK, Local
  <1>6. /\ mem[r].user = token.user
        /\ mem[r].session = token.session \/ (mem[r].session = None /\ now > token.exp)
    BY DEF BearerInv, Bears
  <1>7. token.session \in Reqs /\ token.session # None /\ now \in Nat
    BY <1>5, NoneAssumption, TimeAssumption DEF Owns, Structure, SessionTypeOK, Times
  <1>8. CASE mem[r].session = None
    <2>1. sessions[s].user = token.user BY <1>2, <1>6, <1>8 DEF InScope
    <2>2. ~(now <= token.exp) BY <1>5, <1>6, <1>7, <1>8
    <2>3. QED BY <2>1, <2>2
  <1>9. CASE mem[r].session = token.session
    <2>1. CASE job[r].scope = "local"
      <3>1. s = token.session BY <1>2, <1>7, <1>9, <2>1 DEF InScope
      <3>2. QED BY <1>5, <2>1, <3>1 DEF Owns
    <2>2. CASE job[r].scope = "others"
      BY <1>2, <1>6, <1>7, <1>9, <2>2 DEF InScope
    <2>3. CASE job[r].scope = "global"
      BY <1>2, <1>6, <1>7, <1>9, <2>3 DEF InScope
    <2>4. QED BY <1>4, <2>1, <2>2, <2>3 DEF Scopes
  <1>10. QED BY <1>6, <1>8, <1>9

(* For any users, scopes and timing, a logout ends sessions of its own user  *)
(* only, and a local or others one keeps to its scope while its access token *)
(* is good.                                                                  *)
THEOREM LogoutsKeepToTheirScope == Spec => EndsWhatItSays
  <1>1. Init => Structure /\ BearerInv
    BY InitStructure DEF Init, BearerInv, Bears
  <1>2. Structure /\ BearerInv /\ [Next]_vars => (Structure /\ BearerInv)'
    BY StepStructure, NextBearer
  <1>3. Structure /\ BearerInv /\ [Next]_vars => \A r \in Reqs, s \in Reqs : EndsInScope(r, s)
    BY DeletionInScope
  <1>4. QED BY <1>1, <1>2, <1>3, PTL DEF Spec, EndsWhatItSays, EndsInScope

-----------------------------------------------------------------------------
(***************************************************************************)
(* One-time tokens.                                                          *)
(***************************************************************************)

(* What each step of a handler knows about its request.                      *)
OtpAsk == [op : {"otp"}, addr : Addrs]
ChangeAsk == [op : {"change"}, addr : Addrs]
GuessAsk == [op : {"guess"}, addr : Addrs]
VerifyAsk == [op : {"verify"}, token : known \cap (Calls \X LoginParts)]
ConfirmAsk == [op : {"confirm"}, token : known \cap (Calls \X ChangeParts)]
AskFits(r) ==
    /\ pos[r] \in MintSteps => ask[r] \in OtpAsk
    /\ pos[r] \in ChangeSteps => ask[r] \in ChangeAsk /\ addr[r] \in Addrs
    /\ pos[r] \in RedeemSteps => ask[r] \in GuessAsk \cup VerifyAsk
    /\ pos[r] \in {"spend", "count", "burn"} => addr[r] \in Addrs
    /\ pos[r] \in ConfirmSteps => ask[r] \in ConfirmAsk
AsksFit == \A r \in Calls : AskFits(r)

(* A token is minted by the request it is named by, after it has come so far.*)
Minted == {"mail", "ok", "failed"}
MintedNew == {"insertCurrent", "park", "mailChange", "ok", "failed"}
MintedCurrent == {"park", "mailChange", "ok", "failed"}
RowMinted(row) ==
    /\ row.part \in LoginParts =>
          pos[row.mint] \in Minted /\ ask[row.mint] = [op |-> "otp", addr |-> row.addr]
    /\ row.part = "new" => pos[row.mint] \in MintedNew
    /\ row.part = "current" => pos[row.mint] \in MintedCurrent
    /\ row.part \in ChangeParts => row.attempts = 0
RowsMinted == \A row \in rows : RowMinted(row)
KnownMinted == \A t \in known : t[2] \in LoginParts => ask[t[1]] \in OtpAsk /\ pos[t[1]] # "idle"

Refused == {r \in Calls : pos[r] = "refused"}
WrongsCounted == \A m \in Calls : wrongs[m] <= Cardinality(Refused)

TokensInv == TokenTypeOK /\ AsksFit /\ RowsMinted /\ KnownMinted /\ WrongsCounted

(* Refused attempts on a token and those about to be refused are covered by  *)
(* the attempts its row counts.                                              *)
Burning(m) == {r \in Calls : pos[r] = "burn" /\ m \in against[r]}
LoginRows == {row \in rows : row.part \in LoginParts}
AttemptsCover == \A row \in LoginRows :
    row.attempts = MaxAttempts \/ wrongs[row.mint] + Cardinality(Burning(row.mint)) <= row.attempts
AgainstFits == \A r, m \in Calls : m \in against[r] =>
    /\ pos[r] \in {"count", "burn"}
    /\ pos[m] \in Minted /\ ask[m] = [op |-> "otp", addr |-> addr[r]]
WrongsMinted == \A m \in Calls : wrongs[m] > 0 => pos[m] \in Minted
(* Who asked for a code after another had been answered has replaced it; the *)
(* link that was mailed with it stays.                                       *)
Replacing == {"insert", "mail", "ok", "failed"}
SettledFits == \A r, m \in Calls : m \in settled[r] =>
    /\ ask[r] \in OtpAsk /\ ask[r] = ask[m] /\ pos[m] \in Answers /\ pos[r] # "idle"
    /\ pos[r] \in Replacing => \A row \in LoginRows : row.part = "code" => row.mint # m
RedeemInv == AttemptsCover /\ AgainstFits /\ WrongsMinted /\ SettledFits

(* The sides of a change: each is in the table or was taken, unless swept.   *)
Held(m, part) == <<m, part>> \in taken \/ \E row \in rows : TokenOf(row) = <<m, part>>
HeldSides(m) == m \notin swept => Held(m, "new") /\ (Secure => Held(m, "current"))
Underway(m) ==
    /\ pos[m] = "insertCurrent" => m \in swept \/ Held(m, "new")
    /\ pos[m] \in {"park", "mailChange"} => HeldSides(m)
    /\ pos[m] = "mailChange" => parked = ask[m].addr
Changing == Busy(ChangeSteps)
Confirming == Busy(ConfirmSteps)
Consent ==
    /\ \A p, q \in Changing : p = q
    /\ Changing # {} => Confirming = {}
    /\ \A r \in Calls : pos[r] = "land" => ChangeRows = {}
    /\ \A m \in Changing : Underway(m)
    /\ Changing = {} /\ parked # Nil =>
         \E m \in Calls : ask[m] = [op |-> "change", addr |-> parked] /\ pos[m] # "idle" /\ HeldSides(m)
ConsentInv == ~tangled => Consent

----------------------------------------------------------------------------
(* The types.                                                                *)
Positions == {"idle"} \cup TokenSteps \cup Answers
RowsNamed == \A a, b \in rows : TokenOf(a) = TokenOf(b) => a = b
UsedUpBurnt == \A row \in rows : row.attempts = MaxAttempts =>
    \E r \in Calls : pos[r] = "burn" /\ addr[r] = row.addr
RowsInv == rows \in SUBSET Row /\ RowsNamed /\ UsedUpBurnt /\ RowsMinted

LEMMA MoveFacts ==
    ASSUME TokenTypeOK, NEW r \in Calls, NEW s \in Positions, NEW a \in Addrs \cup {Nil}, Move(r, s, a)
    PROVE  /\ pos' \in [Calls -> {"idle"} \cup TokenSteps \cup Answers]
           /\ addr' \in [Calls -> Addrs \cup {Nil}]
           /\ pos'[r] = s /\ addr'[r] = a
           /\ \A q \in Calls \ {r} : pos'[q] = pos[q] /\ addr'[q] = addr[q]
  BY DEF TokenTypeOK, Move, Positions

LEMMA ProceedFacts ==
    ASSUME TokenTypeOK, NEW r \in Calls, NEW s \in TokenSteps \cup Answers, Proceed(r, s)
    PROVE  \E a \in Addrs \cup {Nil} : Move(r, s, a) /\ (s \in TokenSteps => a = addr[r])
  <1>1. addr[r] \in Addrs \cup {Nil}
    BY DEF TokenTypeOK
  <1>2. s \in TokenSteps => s \notin Answers
    BY DEF TokenSteps, MintSteps, ChangeSteps, RedeemSteps, ConfirmSteps, Answers
  <1>3. QED
    BY <1>1, <1>2 DEF Proceed

LEMMA RowFacts ==
    ASSUME rows \in SUBSET Row, NEW row \in rows
    PROVE  /\ row \in Row /\ row.mint \in Calls /\ row.addr \in Addrs
           /\ row.part \in LoginParts \cup ChangeParts /\ row.attempts \in 0 .. MaxAttempts
  BY DEF Row

(* From where rows have been minted, a handler only goes on.                 *)
Onward(from, to) ==
    /\ from \notin Answers \cup {"idle"}
    /\ from = "mail" => to \in {"ok", "failed"}
    /\ from = "insertCurrent" => to = "park"
    /\ from = "park" => to = "mailChange"
    /\ from = "mailChange" => to \in {"ok", "failed"}

LEMMA StaysMinted ==
    ASSUME TokenTypeOK, RowsMinted, NEW r \in Calls, NEW s \in Positions, NEW a \in Addrs \cup {Nil},
           Move(r, s, a), Onward(pos[r], s), UNCHANGED ask
    PROVE  \A row \in rows : RowMinted(row)'
  <1> SUFFICES ASSUME NEW row \in rows PROVE RowMinted(row)'
    OBVIOUS
  <1>1. row.mint \in Calls /\ RowMinted(row)
    BY RowFacts DEF TokenTypeOK, RowsMinted
  <1>2. pos'[r] = s /\ \A q \in Calls \ {r} : pos'[q] = pos[q]
    BY MoveFacts
  <1>3. /\ pos[row.mint] \in Minted => pos'[row.mint] \in Minted
        /\ pos[row.mint] \in MintedNew => pos'[row.mint] \in MintedNew
        /\ pos[row.mint] \in MintedCurrent => pos'[row.mint] \in MintedCurrent
    BY <1>1, <1>2 DEF Onward, Answers, Minted, MintedNew, MintedCurrent
  <1>4. QED
    BY <1>1, <1>3 DEF RowMinted

LEMMA FewerRows ==
    ASSUME TokenTypeOK, RowsMinted, NEW r \in Calls, NEW s \in Positions, NEW a \in Addrs \cup {Nil},
           Move(r, s, a), Onward(pos[r], s), UNCHANGED ask, rows' \subseteq rows,
           pos[r] = "burn" => \A row \in rows' : row.attempts = MaxAttempts => row.addr # addr[r]
    PROVE  RowsInv'
  <1>1. rows \in SUBSET Row /\ RowsNamed /\ UsedUpBurnt
    BY DEF TokenTypeOK, RowsNamed, UsedUpBurnt
  <1>2. \A q \in Calls \ {r} : pos'[q] = pos[q] /\ addr'[q] = addr[q]
    BY MoveFacts
  <1>3. UsedUpBurnt'
    <2> SUFFICES ASSUME NEW row \in rows', row.attempts = MaxAttempts
                 PROVE  \E q \in Calls : pos'[q] = "burn" /\ addr'[q] = row.addr
      BY DEF UsedUpBurnt
    <2>1. PICK q \in Calls : pos[q] = "burn" /\ addr[q] = row.addr
      BY <1>1 DEF UsedUpBurnt
    <2>2. q # r
      BY <2>1
    <2>3. QED
      BY <1>2, <2>1, <2>2
  <1>4. RowsMinted'
    BY StaysMinted DEF RowsMinted
  <1>5. QED
    BY <1>1, <1>3, <1>4 DEF RowsInv, RowsNamed

LEMMA AsksStay ==
    ASSUME TokenTypeOK, AsksFit, NEW r \in Calls, NEW s \in Positions, NEW a \in Addrs \cup {Nil},
           Move(r, s, a), \A q \in Calls \ {r} : ask'[q] = ask[q], known \subseteq known', AskFits(r)'
    PROVE  AsksFit'
  <1>1. \A q \in Calls \ {r} : pos'[q] = pos[q] /\ addr'[q] = addr[q]
    BY MoveFacts
  <1>2. VerifyAsk \subseteq VerifyAsk' /\ ConfirmAsk \subseteq ConfirmAsk'
    BY DEF VerifyAsk, ConfirmAsk
  <1>3. ASSUME NEW q \in Calls \ {r} PROVE AskFits(q)'
    <2>1. AskFits(q) /\ pos'[q] = pos[q] /\ addr'[q] = addr[q] /\ ask'[q] = ask[q]
      BY <1>1 DEF AsksFit
    <2>2. /\ pos[q] \in RedeemSteps => ask[q] \in GuessAsk \cup VerifyAsk'
          /\ pos[q] \in ConfirmSteps => ask[q] \in ConfirmAsk'
      BY <1>2, <2>1 DEF AskFits
    <2>3. QED
      BY <2>1, <2>2 DEF AskFits, OtpAsk, ChangeAsk, GuessAsk
  <1>4. QED
    BY <1>3 DEF AsksFit

LEMMA RefusedGrow ==
    ASSUME TokenTypeOK, NEW r \in Calls, NEW s \in Positions, NEW a \in Addrs \cup {Nil}, Move(r, s, a),
           pos[r] # "refused"
    PROVE  /\ Cardinality(Refused) \in Nat /\ Cardinality(Refused') \in Nat
           /\ Cardinality(Refused) <= Cardinality(Refused')
           /\ s = "refused" => Cardinality(Refused') = Cardinality(Refused) + 1
           /\ Cardinality(Refused') <= Cardinality(Calls)
  <1>1. pos'[r] = s /\ \A q \in Calls \ {r} : pos'[q] = pos[q]
    BY MoveFacts
  <1>2. Refused' = IF s = "refused" THEN Refused \cup {r} ELSE Refused
    BY <1>1 DEF Refused
  <1>3. r \notin Refused /\ Refused \subseteq Calls /\ Refused' \subseteq Calls
    BY DEF Refused
  <1>4. IsFiniteSet(Refused) /\ IsFiniteSet(Refused')
    BY <1>3, CallsAssumption, FS_Subset
  <1>5. /\ Cardinality(Refused) \in Nat /\ Cardinality(Refused') \in Nat
        /\ Cardinality(Refused') <= Cardinality(Calls)
    BY <1>3, <1>4, CallsAssumption, FS_CardinalityType, FS_Subset
  <1>6. Cardinality(Refused \cup {r}) = Cardinality(Refused) + 1
    BY <1>3, <1>4, FS_AddElement
  <1>7. QED
    BY <1>2, <1>5, <1>6

(* What is left to show of a step that mints nothing.                        *)
LEMMA ShrinkTyped ==
    ASSUME TokensInv, NEW r \in Calls, NEW s \in Positions, NEW a \in Addrs \cup {Nil},
           Move(r, s, a), Onward(pos[r], s), UNCHANGED <<ask, settled>>, rows' \subseteq rows,
           pos[r] = "burn" => \A row \in rows' : row.attempts = MaxAttempts => row.addr # addr[r],
           email' \in Addrs, parked' \in Addrs \cup {Nil}, known' \in SUBSET Token, known \subseteq known',
           \A t \in known' \ known : t[2] \in LoginParts => ask[t[1]] \in OtpAsk,
           \A t \in known' \ known : t[1] = r,
           taken' \subseteq known', against' \in [Calls -> SUBSET Calls], swept' \in SUBSET Calls,
           tangled' \in BOOLEAN, s # "idle", AskFits(r)',
           UNCHANGED wrongs \/ (wrongs' \in [Calls -> 0 .. Cardinality(Calls)] /\ WrongsCounted')
    PROVE  TokensInv'
  <1>1. /\ pos' \in [Calls -> {"idle"} \cup TokenSteps \cup Answers] /\ addr' \in [Calls -> Addrs \cup {Nil}]
        /\ pos'[r] = s /\ \A q \in Calls \ {r} : pos'[q] = pos[q]
    BY MoveFacts DEF TokensInv
  <1>2. RowsInv'
    BY FewerRows DEF TokensInv
  <1>3. AsksFit'
    BY AsksStay DEF TokensInv
  <1>4. KnownMinted'
    <2> SUFFICES ASSUME NEW t \in known', t[2] \in LoginParts PROVE ask[t[1]] \in OtpAsk /\ pos'[t[1]] # "idle"
      BY DEF KnownMinted, OtpAsk
    <2>1. t[1] \in Calls
      BY DEF Token
    <2>2. CASE t \in known
      BY <1>1, <2>1, <2>2 DEF TokensInv, KnownMinted
    <2>3. CASE t \notin known
      BY <1>1, <2>3
    <2>4. QED
      BY <2>2, <2>3
  <1>5. pos[r] # "refused"
    BY DEF Onward, Answers
  <1>6. WrongsCounted'
    <2>1. CASE UNCHANGED wrongs
      <3> SUFFICES ASSUME NEW m \in Calls PROVE wrongs[m] <= Cardinality(Refused')
        BY <2>1 DEF WrongsCounted
      <3>1. wrongs[m] <= Cardinality(Refused) /\ wrongs[m] \in 0 .. Cardinality(Calls)
        BY DEF TokensInv, WrongsCounted, TokenTypeOK
      <3>2. /\ Cardinality(Refused) \in Nat /\ Cardinality(Refused') \in Nat
            /\ Cardinality(Refused) <= Cardinality(Refused')
        BY <1>5, RefusedGrow DEF TokensInv
      <3>3. Cardinality(Calls) \in Nat
        BY CallsAssumption, FS_CardinalityType
      <3>4. wrongs[m] \in Nat
        BY <3>1, <3>3
      <3>5. QED
        BY <3>1, <3>2, <3>4
    <2>2. QED
      BY <2>1
  <1>7. wrongs' \in [Calls -> 0 .. Cardinality(Calls)]
    BY DEF TokensInv, TokenTypeOK
  <1>8. ask' \in [Calls -> Ask \cup {Nil}] /\ settled' \in [Calls -> SUBSET Calls]
    BY DEF TokensInv, TokenTypeOK
  <1>9. TokenTypeOK'
    BY <1>1, <1>2, <1>7, <1>8 DEF TokenTypeOK, RowsInv, RowsNamed, UsedUpBurnt
  <1>10. QED
    BY <1>2, <1>3, <1>4, <1>6, <1>9 DEF TokensInv, RowsInv

LEMMA MintTyped ==
    ASSUME TokensInv, NEW r \in Calls, LookupUser(r) \/ Clear(r) \/ Mail(r)
    PROVE  TokensInv'
  <1>1. TokenTypeOK /\ AskFits(r) /\ ask[r] \in OtpAsk
    BY DEF TokensInv, AsksFit, AskFits, MintSteps, LookupUser, Clear, Mail
  <1>2. PICK s \in {"clear", "refused", "insert", "ok", "failed"} :
           /\ Proceed(r, s)
           /\ pos[r] = "lookup" => s \in {"clear", "refused"}
           /\ pos[r] = "clear" => s = "insert"
           /\ pos[r] = "mail" => s \in {"ok", "failed"}
    BY DEF LookupUser, Clear, Mail
  <1>3. s \in TokenSteps \cup Answers /\ s \in Positions
    BY DEF TokenSteps, MintSteps, Answers, Positions
  <1>4. PICK a \in Addrs \cup {Nil} : Move(r, s, a)
    BY <1>1, <1>2, <1>3, ProceedFacts
  <1>5. pos'[r] = s
    BY <1>1, <1>3, <1>4, MoveFacts
  <1>6. pos[r] \in {"lookup", "clear", "mail"}
    BY DEF LookupUser, Clear, Mail
  <1>7. Onward(pos[r], s)
    BY <1>2, <1>6 DEF Onward, Answers
  <1>8. UNCHANGED <<ask, settled, email, parked, taken, against, swept, tangled, wrongs>> /\ rows' \subseteq rows
    BY DEF LookupUser, Clear, Mail, past
  <1>9. AskFits(r)'
    BY <1>1, <1>5, <1>8 DEF AskFits, OtpAsk, ChangeSteps, RedeemSteps, ConfirmSteps
  <1>10. /\ known' \in SUBSET Token /\ known \subseteq known'
         /\ \A t \in known' \ known : t[1] = r
         /\ \A t \in known' \ known : t[2] \in LoginParts => ask[t[1]] \in OtpAsk
    <2>1. known' = known \/ known' = known \cup {<<r, part>> : part \in LoginParts}
      BY DEF LookupUser, Clear, Mail
    <2>2. known \in SUBSET Token /\ {<<r, part>> : part \in LoginParts} \subseteq Token
      BY <1>1 DEF TokenTypeOK, Token
    <2>3. QED
      BY <1>1, <2>1, <2>2
  <1>11. /\ email \in Addrs /\ parked \in Addrs \cup {Nil} /\ taken \subseteq known
         /\ against \in [Calls -> SUBSET Calls] /\ swept \in SUBSET Calls /\ tangled \in BOOLEAN
    BY <1>1 DEF TokenTypeOK
  <1>12. s # "idle" /\ pos[r] # "burn"
    BY <1>6
  <1>13. QED
    BY <1>3, <1>4, <1>7, <1>8, <1>9, <1>10, <1>11, <1>12, ShrinkTyped

(* Steps that neither mint nor mail.                                         *)
LEMMA QuietTyped ==
    ASSUME TokensInv, NEW r \in Calls, NEW s \in Positions, NEW a \in Addrs \cup {Nil},
           Move(r, s, a), Onward(pos[r], s), UNCHANGED <<ask, settled, known, tangled>>, rows' \subseteq rows,
           pos[r] = "burn" => \A row \in rows' : row.attempts = MaxAttempts => row.addr # addr[r],
           email' \in Addrs, parked' \in Addrs \cup {Nil},
           taken' \subseteq known, against' \in [Calls -> SUBSET Calls], swept' \in SUBSET Calls,
           s # "idle", AskFits(r)',
           UNCHANGED wrongs \/ (wrongs' \in [Calls -> 0 .. Cardinality(Calls)] /\ WrongsCounted')
    PROVE  TokensInv'
  <1>1. known \in SUBSET Token /\ tangled \in BOOLEAN
    BY DEF TokensInv, TokenTypeOK
  <1>2. QED
    BY <1>1, ShrinkTyped

(* What an attempt at a login token asks for stays what it was.              *)
LEMMA RedeemerFits ==
    ASSUME TokensInv, NEW r \in Calls, pos[r] \in RedeemSteps, UNCHANGED <<ask, known>>,
           pos'[r] \in RedeemSteps => addr'[r] \in Addrs, pos'[r] \in RedeemSteps \cup Answers
    PROVE  AskFits(r)'
  <1>1. ask[r] \in GuessAsk \cup VerifyAsk
    BY DEF TokensInv, AsksFit, AskFits
  <1>2. GuessAsk' = GuessAsk /\ VerifyAsk' = VerifyAsk
    BY DEF GuessAsk, VerifyAsk
  <1>3. pos'[r] \notin MintSteps \cup ChangeSteps \cup ConfirmSteps
    BY DEF RedeemSteps, Answers, MintSteps, ChangeSteps, ConfirmSteps
  <1>4. {"spend", "count", "burn"} \subseteq RedeemSteps
    BY DEF RedeemSteps
  <1>5. QED
    BY <1>1, <1>2, <1>3, <1>4 DEF AskFits

LEMMA RedeemTyped ==
    ASSUME TokensInv, NEW r \in Calls, Redeem(r)
    PROVE  TokensInv'
  <1>1. TokenTypeOK /\ ask[r] \in GuessAsk \cup VerifyAsk /\ pos[r] = "redeem"
    BY DEF TokensInv, AsksFit, AskFits, RedeemSteps, Redeem
  <1>2. PICK row \in Matching(r) :
           rows' = rows \ {row} /\ Move(r, "spend", row.addr) /\ taken' = taken \cup {TokenOf(row)}
    BY DEF Redeem
  <1>3. row \in rows /\ ask[r].op = "verify" /\ TokenOf(row) = ask[r].token
    BY DEF Matching
  <1>4. row.addr \in Addrs
    BY <1>1, <1>3, RowFacts DEF TokenTypeOK
  <1>5. "spend" \in Positions /\ "spend" \in RedeemSteps
    BY DEF Positions, TokenSteps, RedeemSteps
  <1>6. pos'[r] = "spend" /\ addr'[r] = row.addr
    BY <1>1, <1>2, <1>4, <1>5, MoveFacts
  <1>7. UNCHANGED <<ask, settled, email, parked, known, against, swept, tangled, wrongs>>
    BY DEF Redeem
  <1>8. AskFits(r)'
    BY <1>1, <1>4, <1>5, <1>6, <1>7, RedeemerFits DEF RedeemSteps
  <1>9. ask[r].token \in known
    BY <1>1, <1>3 DEF GuessAsk, VerifyAsk
  <1>10. Onward(pos[r], "spend")
    BY <1>1 DEF Onward, Answers
  <1>11. /\ email \in Addrs /\ parked \in Addrs \cup {Nil} /\ taken' \subseteq known
         /\ against \in [Calls -> SUBSET Calls] /\ swept \in SUBSET Calls
    BY <1>1, <1>2, <1>3, <1>9 DEF TokenTypeOK
  <1>12. QED
    BY <1>1, <1>2, <1>4, <1>5, <1>7, <1>8, <1>10, <1>11, QuietTyped

LEMMA MissTyped ==
    ASSUME TokensInv, NEW r \in Calls, Miss(r)
    PROVE  TokensInv'
  <1>1. TokenTypeOK /\ ask[r] \in GuessAsk \cup VerifyAsk /\ pos[r] = "redeem"
    BY DEF TokensInv, AsksFit, AskFits, RedeemSteps, Miss
  <1>2. Scope(r) \subseteq Addrs
    <2>1. CASE ask[r] \in GuessAsk
      BY <2>1 DEF GuessAsk, Scope
    <2>2. CASE ask[r] \in VerifyAsk
      <3>1. ask[r].op = "verify" /\ ask[r].token \in known /\ ask[r].token[2] \in LoginParts
        BY <2>2 DEF VerifyAsk
      <3>2. ask[ask[r].token[1]].addr \in Addrs
        BY <3>1 DEF TokensInv, KnownMinted, OtpAsk
      <3>3. QED
        BY <3>1, <3>2 DEF Scope
    <2>3. QED
      BY <1>1, <2>1, <2>2
  <1>3. UNCHANGED <<rows, ask, settled, email, parked, known, taken, swept, tangled, wrongs>>
    BY DEF Miss
  <1>4. "count" \in Positions /\ "count" \in RedeemSteps /\ "refused" \in Positions /\ "refused" \in Answers
    BY DEF Positions, TokenSteps, RedeemSteps, Answers
  <1>5. \E s \in {"count", "refused"}, a \in Addrs \cup {Nil} : Move(r, s, a) /\ (s = "count" => a \in Addrs)
    <2>1. CASE Scope(r) = {}
      <3>1. Proceed(r, "refused")
        BY <2>1 DEF Miss
      <3>2. QED
        BY <1>1, <1>4, <3>1, ProceedFacts
    <2>2. CASE Scope(r) # {}
      BY <1>2, <2>2 DEF Miss
    <2>3. QED
      BY <2>1, <2>2
  <1>6. PICK s \in {"count", "refused"}, a \in Addrs \cup {Nil} : Move(r, s, a) /\ (s = "count" => a \in Addrs)
    BY <1>5
  <1>7. against' \in [Calls -> SUBSET Calls]
    <2>1. ASSUME NEW x \in Addrs PROVE Mints(Live(x)) \in SUBSET Calls
      <3>1. Live(x) \subseteq rows
        BY DEF Live
      <3>2. \A row \in rows : row.mint \in Calls
        BY <1>1, RowFacts DEF TokenTypeOK
      <3>3. QED
        BY <3>1, <3>2 DEF Mints
    <2>2. against \in [Calls -> SUBSET Calls]
      BY <1>1 DEF TokenTypeOK
    <2>3. CASE UNCHANGED against
      BY <2>2, <2>3
    <2>4. CASE \E x \in Scope(r) : against' = [against EXCEPT ![r] = Mints(Live(x))]
      BY <1>2, <2>1, <2>2, <2>4
    <2>5. QED
      BY <2>3, <2>4 DEF Miss
  <1>8. pos'[r] = s /\ addr'[r] = a
    BY <1>1, <1>4, <1>6, MoveFacts
  <1>9. AskFits(r)'
    BY <1>1, <1>3, <1>4, <1>6, <1>8, RedeemerFits DEF RedeemSteps, Answers
  <1>10. Onward(pos[r], s) /\ s # "idle" /\ pos[r] # "burn" /\ s \in Positions
    BY <1>1, <1>4 DEF Onward, Answers
  <1>11. email \in Addrs /\ parked \in Addrs \cup {Nil} /\ taken \subseteq known /\ swept \in SUBSET Calls
    BY <1>1 DEF TokenTypeOK
  <1>12. QED
    BY <1>3, <1>6, <1>7, <1>9, <1>10, <1>11, QuietTyped

LEMMA BurnTyped ==
    ASSUME TokensInv, NEW r \in Calls, Burn(r)
    PROVE  TokensInv'
  <1>1. TokenTypeOK /\ pos[r] = "burn"
    BY DEF TokensInv, Burn
  <1>2. "refused" \in Positions /\ "refused" \in Answers
    BY DEF Positions, Answers
  <1>3. PICK a \in Addrs \cup {Nil} : Move(r, "refused", a)
    BY <1>1, <1>2, ProceedFacts DEF Burn
  <1>4. pos'[r] = "refused"
    BY <1>1, <1>2, <1>3, MoveFacts
  <1>5. UNCHANGED <<ask, settled, email, parked, known, taken, swept, tangled>> /\ rows' \subseteq rows
    BY DEF Burn
  <1>6. AskFits(r)'
    BY <1>1, <1>2, <1>4, <1>5, RedeemerFits DEF RedeemSteps
  <1>7. \A row \in rows' : row.attempts = MaxAttempts => row.addr # addr[r]
    <2>1. \A row \in rows \ UsedUp(addr[r]) : row.attempts = MaxAttempts => row.addr # addr[r]
      BY AttemptsAssumption DEF UsedUp
    <2>2. QED
      BY <2>1 DEF Burn
  <1>8. wrongs' \in [Calls -> 0 .. Cardinality(Calls)] /\ WrongsCounted'
    <2>1. wrongs' = [m \in Calls |-> IF m \in against[r] THEN wrongs[m] + 1 ELSE wrongs[m]]
      BY DEF Burn
    <2>2. PICK n \in Nat : n = Cardinality(Refused)
      BY <1>1, <1>2, <1>3, RefusedGrow
    <2>3. Cardinality(Refused') = n + 1 /\ Cardinality(Refused') <= Cardinality(Calls)
      BY <1>1, <1>2, <1>3, <2>2, RefusedGrow
    <2>4. PICK c \in Nat : c = Cardinality(Calls)
      BY CallsAssumption, FS_CardinalityType
    <2>5. \A m \in Calls : wrongs[m] \in 0 .. c /\ wrongs[m] <= n
      BY <1>1, <2>2, <2>4 DEF TokenTypeOK, TokensInv, WrongsCounted
    <2>6. \A m \in Calls : wrongs'[m] \in 0 .. c /\ wrongs'[m] <= n + 1
      BY <2>1, <2>3, <2>4, <2>5
    <2>7. wrongs' \in [Calls -> 0 .. c]
      BY <2>1, <2>6
    <2>8. QED
      BY <2>3, <2>4, <2>6, <2>7 DEF WrongsCounted
  <1>9. against' \in [Calls -> SUBSET Calls]
    BY <1>1 DEF Burn, TokenTypeOK
  <1>10. Onward(pos[r], "refused")
    BY <1>1 DEF Onward, Answers
  <1>11. email \in Addrs /\ parked \in Addrs \cup {Nil} /\ taken \subseteq known /\ swept \in SUBSET Calls
    BY <1>1 DEF TokenTypeOK
  <1>12. QED
    BY <1>2, <1>3, <1>5, <1>6, <1>7, <1>8, <1>9, <1>10, <1>11, QuietTyped

LEMMA SpendTyped ==
    ASSUME TokensInv, NEW r \in Calls, Spend(r)
    PROVE  TokensInv'
  <1>1. TokenTypeOK /\ pos[r] = "spend"
    BY DEF TokensInv, Spend
  <1>2. "ok" \in Positions /\ "ok" \in Answers
    BY DEF Positions, Answers
  <1>3. PICK a \in Addrs \cup {Nil} : Move(r, "ok", a)
    BY <1>1, <1>2, ProceedFacts DEF Spend
  <1>4. pos'[r] = "ok"
    BY <1>1, <1>2, <1>3, MoveFacts
  <1>5. UNCHANGED <<ask, settled, email, parked, known, taken, against, tangled, wrongs>> /\ rows' \subseteq rows
    BY DEF Spend
  <1>6. AskFits(r)'
    BY <1>1, <1>2, <1>4, <1>5, RedeemerFits DEF RedeemSteps
  <1>7. swept' \in SUBSET Calls
    <2>1. \A row \in rows : row.mint \in Calls
      BY <1>1, RowFacts DEF TokenTypeOK
    <2>2. QED
      BY <1>1, <2>1 DEF Spend, Mints, TokenTypeOK
  <1>8. Onward(pos[r], "ok") /\ pos[r] # "burn"
    BY <1>1 DEF Onward, Answers
  <1>9. /\ email \in Addrs /\ parked \in Addrs \cup {Nil} /\ taken \subseteq known
        /\ against \in [Calls -> SUBSET Calls]
    BY <1>1 DEF TokenTypeOK
  <1>10. QED
    BY <1>2, <1>3, <1>5, <1>6, <1>7, <1>8, <1>9, QuietTyped

(* A counted attempt leaves each row's name, and what it brings to the limit *)
(* its own handler burns next.                                               *)
LEMMA CountTyped ==
    ASSUME TokensInv, NEW r \in Calls, Count(r)
    PROVE  TokensInv'
  <1>1. TokenTypeOK /\ pos[r] = "count" /\ addr[r] \in Addrs /\ RowsMinted
    BY DEF TokensInv, AsksFit, AskFits, Count
  <1>2. "burn" \in Positions /\ "burn" \in TokenSteps
    BY DEF Positions, TokenSteps, RedeemSteps
  <1>3. Move(r, "burn", addr[r])
    BY <1>1, <1>2, ProceedFacts DEF Count
  <1>4. /\ pos' \in [Calls -> {"idle"} \cup TokenSteps \cup Answers] /\ addr' \in [Calls -> Addrs \cup {Nil}]
        /\ pos'[r] = "burn" /\ addr'[r] = addr[r]
        /\ \A q \in Calls \ {r} : pos'[q] = pos[q] /\ addr'[q] = addr[q]
    BY <1>1, <1>2, <1>3, MoveFacts
  <1>5. /\ UNCHANGED <<ask, email, parked, known, past>>
        /\ rows' = (rows \ Live(addr[r])) \cup {Counted(row) : row \in Live(addr[r])}
    BY DEF Count
  <1>6. AsksFit'
    <2>1. AskFits(r)'
      BY <1>1, <1>4, <1>5, RedeemerFits DEF RedeemSteps
    <2>2. QED
      BY <1>1, <1>2, <1>3, <1>5, <2>1, AsksStay DEF TokensInv
  <1>7. \A row \in rows : row.part \in LoginParts =>
          /\ Counted(row) \in Row /\ Counted(row).mint = row.mint /\ Counted(row).part = row.part
          /\ Counted(row).addr = row.addr
    <2> SUFFICES ASSUME NEW row \in rows, row.part \in LoginParts
                 PROVE  /\ Counted(row) \in Row /\ Counted(row).mint = row.mint
                        /\ Counted(row).part = row.part /\ Counted(row).addr = row.addr
      OBVIOUS
    <2>1. row \in Row
      BY <1>1 DEF TokenTypeOK
    <2>2. (IF row.attempts < MaxAttempts THEN row.attempts + 1 ELSE row.attempts) \in 0 .. MaxAttempts
      BY <2>1, AttemptsAssumption DEF Row
    <2>3. QED
      BY <2>1, <2>2 DEF Counted, Row
  <1>8. \A new \in rows' : \E old \in rows :
          /\ new \in Row /\ new.mint = old.mint /\ new.part = old.part /\ new.addr = old.addr
          /\ new = old \/ (old \in Live(addr[r]) /\ new = Counted(old))
          /\ old \in Live(addr[r]) => new = Counted(old)
    BY <1>1, <1>5, <1>7 DEF TokenTypeOK, Live
  <1>9. RowsInv'
    <2>1. rows' \in SUBSET Row
      BY <1>8
    <2>2. RowsNamed'
      <3> SUFFICES ASSUME NEW a \in rows', NEW b \in rows', TokenOf(a) = TokenOf(b) PROVE a = b
        BY DEF RowsNamed, TokenOf
      <3>1. PICK c \in rows :
              /\ a.mint = c.mint /\ a.part = c.part
              /\ a = c \/ (c \in Live(addr[r]) /\ a = Counted(c))
              /\ c \in Live(addr[r]) => a = Counted(c)
        BY <1>8
      <3>2. PICK d \in rows :
              /\ b.mint = d.mint /\ b.part = d.part
              /\ b = d \/ (d \in Live(addr[r]) /\ b = Counted(d))
              /\ d \in Live(addr[r]) => b = Counted(d)
        BY <1>8
      <3>3. c = d
        BY <1>1, <3>1, <3>2 DEF TokenTypeOK, TokenOf
      <3>4. QED
        BY <3>1, <3>2, <3>3
    <2>3. UsedUpBurnt'
      <3> SUFFICES ASSUME NEW new \in rows', new.attempts = MaxAttempts
                   PROVE  \E q \in Calls : pos'[q] = "burn" /\ addr'[q] = new.addr
        BY DEF UsedUpBurnt
      <3>1. PICK old \in rows :
              /\ new.addr = old.addr
              /\ new = old \/ (old \in Live(addr[r]) /\ new = Counted(old))
              /\ old \in Live(addr[r]) => new = Counted(old)
        BY <1>8
      <3>2. CASE old \in Live(addr[r])
        BY <1>4, <3>1, <3>2 DEF Live
      <3>3. CASE old \notin Live(addr[r])
        <4>1. PICK q \in Calls : pos[q] = "burn" /\ addr[q] = old.addr
          BY <1>1, <3>1, <3>3 DEF TokenTypeOK
        <4>2. QED
          BY <1>1, <1>4, <3>1, <4>1
      <3>4. QED
        BY <3>2, <3>3
    <2>4. RowsMinted'
      <3> SUFFICES ASSUME NEW new \in rows' PROVE RowMinted(new)'
        BY DEF RowsMinted
      <3>1. PICK old \in rows :
              /\ new.mint = old.mint /\ new.part = old.part /\ new.addr = old.addr
              /\ new = old \/ old \in Live(addr[r])
        BY <1>8
      <3>2. RowMinted(old)'
        BY <1>1, <1>2, <1>3, <1>5, StaysMinted DEF Onward, Answers
      <3>3. new.part \in ChangeParts => new.attempts = 0
        <4>1. old \in Live(addr[r]) => new.part \notin ChangeParts
          BY <3>1 DEF Live, LoginParts, ChangeParts
        <4>2. QED
          BY <3>1, <3>2, <4>1 DEF RowMinted
      <3>4. QED
        BY <3>1, <3>2, <3>3 DEF RowMinted
    <2>5. QED
      BY <2>1, <2>2, <2>3, <2>4 DEF RowsInv
  <1>10. KnownMinted'
    BY <1>1, <1>4, <1>5 DEF TokensInv, KnownMinted, TokenTypeOK, Token, OtpAsk
  <1>11. WrongsCounted'
    <2>1. Refused' = Refused
      BY <1>1, <1>4 DEF Refused
    <2>2. QED
      BY <1>5, <2>1 DEF TokensInv, WrongsCounted, past
  <1>12. TokenTypeOK'
    BY <1>1, <1>4, <1>5, <1>9 DEF TokenTypeOK, RowsInv, RowsNamed, UsedUpBurnt, past
  <1>13. QED
    BY <1>6, <1>9, <1>10, <1>11, <1>12 DEF TokensInv, RowsInv

(* Minting adds rows of the request that were not there.                     *)
LEMMA AddTyped ==
    ASSUME TokensInv, NEW r \in Calls, NEW s \in TokenSteps, NEW parts \in SUBSET (LoginParts \cup ChangeParts),
           NEW x \in Addrs, Proceed(r, s), Onward(pos[r], s), pos[r] # "burn",
           UNCHANGED <<ask, email, parked, known, past>>,
           rows' = rows \cup {NewRow(r, part, x) : part \in parts},
           \A row \in rows : row.mint = r => row.part \notin parts,
           \A part \in parts : RowMinted(NewRow(r, part, x))',
           AskFits(r)'
    PROVE  TokensInv'
  <1>1. TokenTypeOK /\ s \in Positions /\ s # "refused" /\ s # "idle"
    BY DEF TokensInv, Positions, TokenSteps, MintSteps, ChangeSteps, RedeemSteps, ConfirmSteps
  <1>2. PICK a \in Addrs \cup {Nil} : Move(r, s, a)
    BY <1>1, ProceedFacts
  <1>3. /\ pos' \in [Calls -> {"idle"} \cup TokenSteps \cup Answers] /\ addr' \in [Calls -> Addrs \cup {Nil}]
        /\ pos'[r] = s /\ \A q \in Calls \ {r} : pos'[q] = pos[q] /\ addr'[q] = addr[q]
    BY <1>1, <1>2, MoveFacts
  <1>4. AsksFit'
    BY <1>1, <1>2, AsksStay DEF TokensInv
  <1>5. \A part \in parts : /\ NewRow(r, part, x) \in Row
                            /\ NewRow(r, part, x).mint = r /\ NewRow(r, part, x).part = part
                            /\ NewRow(r, part, x).attempts = 0
    BY AttemptsAssumption DEF NewRow, Row
  <1>6. RowsInv'
    <2>1. rows' \in SUBSET Row
      BY <1>1, <1>5 DEF TokenTypeOK
    <2>2. RowsNamed'
      BY <1>1, <1>5 DEF RowsNamed, TokenTypeOK, TokenOf
    <2>3. UsedUpBurnt'
      <3> SUFFICES ASSUME NEW row \in rows', row.attempts = MaxAttempts
                   PROVE  \E q \in Calls : pos'[q] = "burn" /\ addr'[q] = row.addr
        BY DEF UsedUpBurnt
      <3>1. row \in rows
        BY <1>5, AttemptsAssumption
      <3>2. PICK q \in Calls : pos[q] = "burn" /\ addr[q] = row.addr
        BY <1>1, <3>1 DEF TokenTypeOK
      <3>3. QED
        BY <1>3, <3>2
    <2>4. RowsMinted'
      <3>1. \A row \in rows : RowMinted(row)'
        BY <1>1, <1>2, StaysMinted DEF TokensInv
      <3>2. \A row \in rows' : row \in rows \/ \E part \in parts : row = NewRow(r, part, x)
        OBVIOUS
      <3>3. ASSUME NEW row \in rows' PROVE RowMinted(row)'
        BY <3>1, <3>2
      <3>4. QED
        BY <3>3 DEF RowsMinted
    <2>5. QED
      BY <2>1, <2>2, <2>3, <2>4 DEF RowsInv
  <1>7. KnownMinted'
    BY <1>1, <1>3 DEF TokensInv, KnownMinted, TokenTypeOK, Token, OtpAsk
  <1>8. WrongsCounted'
    <2>1. pos[r] # "refused"
      BY DEF Onward, Answers
    <2>2. Refused' = Refused
      BY <1>1, <1>3, <2>1 DEF Refused
    <2>3. QED
      BY <2>2 DEF TokensInv, WrongsCounted, past
  <1>9. TokenTypeOK'
    BY <1>1, <1>3, <1>6 DEF TokenTypeOK, RowsInv, RowsNamed, UsedUpBurnt, past
  <1>10. QED
    BY <1>4, <1>6, <1>7, <1>8, <1>9 DEF TokensInv, RowsInv

LEMMA InsertTyped ==
    ASSUME TokensInv, NEW r \in Calls, Insert(r)
    PROVE  TokensInv'
  <1>1. TokenTypeOK /\ pos[r] = "insert" /\ ask[r] \in OtpAsk
    BY DEF TokensInv, AsksFit, AskFits, Insert, MintSteps
  <1>2. "mail" \in TokenSteps /\ "mail" \in Positions
    BY DEF TokenSteps, MintSteps, Positions
  <1>3. pos'[r] = "mail"
    <2>1. PICK a \in Addrs \cup {Nil} : Move(r, "mail", a)
      BY <1>1, <1>2, ProceedFacts DEF Insert
    <2>2. QED
      BY <1>1, <1>2, <2>1, MoveFacts
  <1>4. Onward(pos[r], "mail")
    BY <1>1 DEF Onward, Answers
  <1>5. UNCHANGED <<ask, email, parked, known, past>> /\ Proceed(r, "mail")
    BY DEF Insert
  <1>6. AskFits(r)'
    BY <1>1, <1>3, <1>5 DEF AskFits, OtpAsk, MintSteps, ChangeSteps, RedeemSteps, ConfirmSteps
  <1>7. \A row \in rows : row.mint = r => row.part \notin LoginParts
    BY <1>1 DEF TokensInv, RowsMinted, RowMinted, Minted
  <1>8. ask[r] = [op |-> "otp", addr |-> ask[r].addr] /\ ask[r].addr \in Addrs
    BY <1>1 DEF OtpAsk
  <1>9. \A part \in LoginParts : RowMinted(NewRow(r, part, ask[r].addr))'
    <2> SUFFICES ASSUME NEW part \in LoginParts PROVE RowMinted(NewRow(r, part, ask[r].addr))'
      OBVIOUS
    <2>1. UNCHANGED ask
      BY <1>5
    <2>2. part \notin ChangeParts /\ pos'[r] \in Minted
      BY <1>3 DEF LoginParts, ChangeParts, Minted
    <2>3. QED
      BY <1>8, <2>1, <2>2 DEF RowMinted, NewRow, ChangeParts
  <1>10. rows' = rows \cup {NewRow(r, part, ask[r].addr) : part \in LoginParts}
    BY DEF Insert
  <1>11. LoginParts \in SUBSET (LoginParts \cup ChangeParts)
    OBVIOUS
  <1>12. QED
    BY <1>1, <1>2, <1>4, <1>5, <1>6, <1>7, <1>8, <1>9, <1>10, <1>11, AddTyped

LEMMA InsertNewTyped ==
    ASSUME TokensInv, NEW r \in Calls, InsertNew(r)
    PROVE  TokensInv'
  <1>1. TokenTypeOK /\ pos[r] = "insertNew" /\ ask[r] \in ChangeAsk /\ addr[r] \in Addrs
    BY DEF TokensInv, AsksFit, AskFits, InsertNew, ChangeSteps
  <1>2. PICK s \in {"insertCurrent", "park"} : Proceed(r, s)
    BY DEF InsertNew
  <1>3. s \in TokenSteps /\ s \in Positions
    BY DEF TokenSteps, ChangeSteps, Positions
  <1>4. pos'[r] = s /\ addr'[r] = addr[r]
    <2>1. PICK a \in Addrs \cup {Nil} : Move(r, s, a) /\ a = addr[r]
      BY <1>1, <1>2, <1>3, ProceedFacts
    <2>2. QED
      BY <1>1, <1>3, <2>1, MoveFacts
  <1>5. Onward(pos[r], s)
    BY <1>1 DEF Onward, Answers
  <1>6. UNCHANGED <<ask, email, parked, known, past>>
    BY DEF InsertNew
  <1>7. AskFits(r)'
    BY <1>1, <1>4, <1>6 DEF AskFits, ChangeAsk, MintSteps, ChangeSteps, RedeemSteps, ConfirmSteps
  <1>8. \A row \in rows : row.mint = r => row.part \notin {"new"}
    BY <1>1 DEF TokensInv, RowsMinted, RowMinted, MintedNew
  <1>9. ask[r].addr \in Addrs
    BY <1>1 DEF ChangeAsk
  <1>10. \A part \in {"new"} : RowMinted(NewRow(r, part, ask[r].addr))'
    BY <1>4 DEF RowMinted, NewRow, LoginParts, MintedNew
  <1>11. rows' = rows \cup {NewRow(r, part, ask[r].addr) : part \in {"new"}}
    BY DEF InsertNew
  <1>12. {"new"} \in SUBSET (LoginParts \cup ChangeParts)
    BY DEF ChangeParts
  <1>13. QED
    BY <1>1, <1>2, <1>3, <1>5, <1>6, <1>7, <1>8, <1>9, <1>10, <1>11, <1>12, AddTyped

LEMMA InsertCurrentTyped ==
    ASSUME TokensInv, NEW r \in Calls, InsertCurrent(r)
    PROVE  TokensInv'
  <1>1. TokenTypeOK /\ pos[r] = "insertCurrent" /\ ask[r] \in ChangeAsk /\ addr[r] \in Addrs
    BY DEF TokensInv, AsksFit, AskFits, InsertCurrent, ChangeSteps
  <1>2. Proceed(r, "park")
    BY DEF InsertCurrent
  <1>3. "park" \in TokenSteps /\ "park" \in Positions
    BY DEF TokenSteps, ChangeSteps, Positions
  <1>4. pos'[r] = "park" /\ addr'[r] = addr[r]
    <2>1. PICK a \in Addrs \cup {Nil} : Move(r, "park", a) /\ a = addr[r]
      BY <1>1, <1>2, <1>3, ProceedFacts
    <2>2. QED
      BY <1>1, <1>3, <2>1, MoveFacts
  <1>5. Onward(pos[r], "park")
    BY <1>1 DEF Onward, Answers
  <1>6. UNCHANGED <<ask, email, parked, known, past>>
    BY DEF InsertCurrent
  <1>7. AskFits(r)'
    BY <1>1, <1>4, <1>6 DEF AskFits, ChangeAsk, MintSteps, ChangeSteps, RedeemSteps, ConfirmSteps
  <1>8. \A row \in rows : row.mint = r => row.part \notin {"current"}
    BY <1>1 DEF TokensInv, RowsMinted, RowMinted, MintedCurrent
  <1> PICK x \in Addrs : x = addr[r]
    BY <1>1
  <1>9. \A part \in {"current"} : RowMinted(NewRow(r, part, x))'
    BY <1>4 DEF RowMinted, NewRow, LoginParts, MintedCurrent
  <1>10. rows' = rows \cup {NewRow(r, part, x) : part \in {"current"}}
    BY DEF InsertCurrent
  <1>11. {"current"} \in SUBSET (LoginParts \cup ChangeParts)
    BY DEF ChangeParts
  <1>12. QED
    BY <1>1, <1>2, <1>3, <1>5, <1>6, <1>7, <1>8, <1>9, <1>10, <1>11, AddTyped

LEMMA ChangeTyped ==
    ASSUME TokensInv, NEW r \in Calls, ClearChange(r) \/ Park(r) \/ MailChange(r)
    PROVE  TokensInv'
  <1>1. TokenTypeOK /\ AskFits(r) /\ ask[r] \in ChangeAsk /\ addr[r] \in Addrs
    BY DEF TokensInv, AsksFit, AskFits, ChangeSteps, ClearChange, Park, MailChange
  <1>2. PICK s \in {"insertNew", "mailChange", "ok", "failed"} :
           /\ Proceed(r, s)
           /\ pos[r] = "clearChange" => s = "insertNew"
           /\ pos[r] = "park" => s = "mailChange"
           /\ pos[r] = "mailChange" => s \in {"ok", "failed"}
    BY DEF ClearChange, Park, MailChange
  <1>3. s \in TokenSteps \cup Answers /\ s \in Positions /\ (s \in ChangeSteps => s \in TokenSteps)
    BY DEF TokenSteps, ChangeSteps, Answers, Positions
  <1>4. PICK a \in Addrs \cup {Nil} : Move(r, s, a) /\ (s \in TokenSteps => a = addr[r])
    BY <1>1, <1>2, <1>3, ProceedFacts
  <1>5. pos'[r] = s /\ addr'[r] = a
    BY <1>1, <1>3, <1>4, MoveFacts
  <1>6. pos[r] \in {"clearChange", "park", "mailChange"}
    BY DEF ClearChange, Park, MailChange
  <1>7. Onward(pos[r], s)
    BY <1>2, <1>6 DEF Onward, Answers
  <1>8. /\ UNCHANGED <<ask, settled, email, taken, against, swept, tangled, wrongs>>
        /\ rows' \subseteq rows
    BY DEF ClearChange, Park, MailChange, past
  <1>9. AskFits(r)'
    BY <1>1, <1>3, <1>4, <1>5, <1>8
       DEF AskFits, ChangeAsk, MintSteps, ChangeSteps, RedeemSteps, ConfirmSteps
  <1>10. /\ known' \in SUBSET Token /\ known \subseteq known'
         /\ \A t \in known' \ known : t[1] = r
         /\ \A t \in known' \ known : t[2] \in LoginParts => ask[t[1]] \in OtpAsk
    <2>1. \E sent \in SUBSET ChangeParts : known' = known \cup {<<r, part>> : part \in sent}
      <3>1. CASE known' = known
        <4>1. known' = known \cup {<<r, part>> : part \in {}}
          BY <3>1
        <4>2. QED
          BY <4>1
      <3>2. CASE MailChange(r)
        BY <3>2 DEF MailChange, ChangeParts
      <3>3. QED
        BY <3>1, <3>2 DEF ClearChange, Park
    <2>2. PICK sent \in SUBSET ChangeParts : known' = known \cup {<<r, part>> : part \in sent}
      BY <2>1
    <2>3. known \in SUBSET Token /\ \A part \in ChangeParts : <<r, part>> \in Token /\ part \notin LoginParts
      BY <1>1 DEF TokenTypeOK, Token, LoginParts, ChangeParts
    <2>4. QED
      BY <2>2, <2>3
  <1>11. /\ email \in Addrs /\ parked' \in Addrs \cup {Nil} /\ taken \subseteq known
         /\ against \in [Calls -> SUBSET Calls] /\ swept \in SUBSET Calls /\ tangled \in BOOLEAN
    BY <1>1 DEF TokenTypeOK, ClearChange, Park, MailChange, ChangeAsk
  <1>12. s # "idle" /\ pos[r] # "burn"
    BY <1>6
  <1>13. taken \subseteq known'
    BY <1>10, <1>11
  <1>14. QED
    BY <1>3, <1>4, <1>7, <1>8, <1>9, <1>10, <1>11, <1>12, <1>13, ShrinkTyped

LEMMA ConfirmTyped ==
    ASSUME TokensInv, NEW r \in Calls, Take(r) \/ CheckOutstanding(r) \/ Land(r)
    PROVE  TokensInv'
  <1>1. TokenTypeOK /\ AskFits(r) /\ ask[r] \in ConfirmAsk
    BY DEF TokensInv, AsksFit, AskFits, ConfirmSteps, Take, CheckOutstanding, Land
  <1>2. PICK s \in {"refused", "outstanding", "land", "ok"} : Proceed(r, s)
    BY DEF Take, CheckOutstanding, Land
  <1>3. s \in TokenSteps \cup Answers /\ s \in Positions
    BY DEF TokenSteps, ConfirmSteps, Answers, Positions
  <1>4. PICK a \in Addrs \cup {Nil} : Move(r, s, a)
    BY <1>1, <1>2, <1>3, ProceedFacts
  <1>5. pos'[r] = s
    BY <1>1, <1>3, <1>4, MoveFacts
  <1>6. pos[r] \in {"take", "outstanding", "land"}
    BY DEF Take, CheckOutstanding, Land
  <1>7. Onward(pos[r], s)
    BY <1>6 DEF Onward, Answers
  <1>8. /\ UNCHANGED <<ask, settled, known, against, swept, tangled, wrongs>>
        /\ rows' \subseteq rows
    BY DEF Take, CheckOutstanding, Land, past
  <1>9. AskFits(r)'
    BY <1>1, <1>5, <1>8 DEF AskFits, ConfirmAsk, MintSteps, ChangeSteps, RedeemSteps, ConfirmSteps
  <1>10. email' \in Addrs /\ parked' \in Addrs \cup {Nil}
    BY <1>1 DEF TokenTypeOK, Take, CheckOutstanding, Land, past
  <1>11. taken' \subseteq known
    <2>1. taken \subseteq known /\ ask[r].token \in known
      BY <1>1 DEF TokenTypeOK, ConfirmAsk
    <2>2. taken' = taken \/ taken' = taken \cup {TokenOf(row) : row \in {x \in rows : TokenOf(x) = ask[r].token}}
      BY DEF Take, CheckOutstanding, Land, past
    <2>3. QED
      BY <2>1, <2>2
  <1>12. against' \in [Calls -> SUBSET Calls] /\ swept' \in SUBSET Calls /\ s # "idle" /\ pos[r] # "burn"
    BY <1>1, <1>6, <1>8 DEF TokenTypeOK
  <1>13. QED
    BY <1>3, <1>4, <1>7, <1>8, <1>9, <1>10, <1>11, <1>12, QuietTyped

LEMMA ArriveTyped ==
    ASSUME TokensInv, NEW r \in Calls, Arrive(r)
    PROVE  TokensInv'
  <1>1. TokenTypeOK /\ pos[r] = "idle"
    BY DEF TokensInv, Arrive
  <1>2. PICK j \in Ask :
          /\ j.op = "verify" => j.token \in known /\ j.token[2] \in LoginParts
          /\ j.op = "confirm" => j.token \in known /\ j.token[2] \in ChangeParts
          /\ ask' = [ask EXCEPT ![r] = j]
          /\ Move(r, Entry(j.op), IF j.op = "change" THEN email ELSE Nil)
          /\ tangled' = \/ tangled
                        \/ j.op = "change" /\ Busy(ChangeSteps \cup ConfirmSteps) # {}
                        \/ j.op = "confirm" /\ Busy(ChangeSteps) # {}
    BY DEF Arrive
  <1>3. /\ UNCHANGED <<rows, email, parked, known, against, wrongs, taken, swept>>
        /\ settled' = [settled EXCEPT ![r] = EarlierMints(ask'[r])]
    BY DEF Arrive
  <1>4. \/ j \in OtpAsk /\ j.op = "otp"
        \/ j \in GuessAsk /\ j.op = "guess"
        \/ j \in ChangeAsk /\ j.op = "change"
        \/ j \in VerifyAsk /\ j.op = "verify"
        \/ j \in ConfirmAsk /\ j.op = "confirm"
    <2>1. ASSUME NEW t \in Token
          PROVE  /\ t[2] \in LoginParts => t \in Calls \X LoginParts
                 /\ t[2] \in ChangeParts => t \in Calls \X ChangeParts
      BY DEF Token
    <2>2. CASE j \in [op : {"otp", "guess"}, addr : Addrs] \cup [op : {"change"}, addr : Addrs]
      BY <2>2 DEF OtpAsk, GuessAsk, ChangeAsk
    <2>3. CASE j \in [op : {"verify", "confirm"}, token : Token]
      BY <1>2, <2>1, <2>3 DEF VerifyAsk, ConfirmAsk
    <2>4. QED
      BY <2>2, <2>3 DEF Ask
  <1> DEFINE s == Entry(j.op)
             a == IF j.op = "change" THEN email ELSE Nil
  <1>5. /\ s = CASE j.op = "otp" -> "lookup" [] j.op = "change" -> "clearChange"
                 [] j.op \in {"verify", "guess"} -> "redeem" [] j.op = "confirm" -> "take"
        /\ s \in {"lookup", "clearChange", "redeem", "take"}
    BY <1>4 DEF Entry
  <1>6. s \in Positions /\ a \in Addrs \cup {Nil}
    BY <1>1, <1>5 DEF Positions, TokenSteps, MintSteps, ChangeSteps, RedeemSteps, ConfirmSteps, TokenTypeOK
  <1>7. /\ pos' \in [Calls -> {"idle"} \cup TokenSteps \cup Answers] /\ addr' \in [Calls -> Addrs \cup {Nil}]
        /\ pos'[r] = s /\ addr'[r] = a
        /\ \A q \in Calls \ {r} : pos'[q] = pos[q] /\ addr'[q] = addr[q]
    <2> HIDE DEF s, a
    <2>1. Move(r, s, a)
      BY <1>2 DEF s, a
    <2>2. QED
      BY <1>1, <1>6, <2>1, MoveFacts
  <1>8. ask' \in [Calls -> Ask \cup {Nil}] /\ ask'[r] = j /\ \A q \in Calls \ {r} : ask'[q] = ask[q]
    BY <1>1, <1>2 DEF TokenTypeOK
  <1>9. AskFits(r)'
    <2>1. VerifyAsk' = VerifyAsk /\ ConfirmAsk' = ConfirmAsk
      BY <1>3 DEF VerifyAsk, ConfirmAsk
    <2>2. s = "clearChange" => addr'[r] \in Addrs
      BY <1>1, <1>4, <1>5, <1>7 DEF TokenTypeOK
    <2>3. /\ s = "lookup" => j \in OtpAsk
          /\ s = "clearChange" => j \in ChangeAsk
          /\ s = "redeem" => j \in GuessAsk \cup VerifyAsk
          /\ s = "take" => j \in ConfirmAsk
      BY <1>4, <1>5
    <2> HIDE DEF s, a
    <2>4. QED
      BY <1>5, <1>7, <1>8, <2>1, <2>2, <2>3
         DEF AskFits, OtpAsk, ChangeAsk, GuessAsk, MintSteps, ChangeSteps, RedeemSteps, ConfirmSteps
  <1> HIDE DEF s, a
  <1>10. AsksFit'
    <2>1. Move(r, s, a)
      BY <1>2 DEF s, a
    <2>2. QED
      BY <1>1, <1>3, <1>6, <1>8, <1>9, <2>1, AsksStay DEF TokensInv
  <1>11. RowsInv'
    <2>1. RowsMinted'
      <3> SUFFICES ASSUME NEW row \in rows PROVE RowMinted(row)'
        BY <1>3 DEF RowsMinted
      <3>1. row.mint \in Calls /\ row.part \in LoginParts \cup ChangeParts /\ RowMinted(row)
        BY <1>1, RowFacts DEF TokenTypeOK, TokensInv, RowsMinted
      <3>2. row.mint # r
        BY <1>1, <3>1 DEF RowMinted, Minted, MintedNew, MintedCurrent, ChangeParts
      <3>3. pos'[row.mint] = pos[row.mint] /\ ask'[row.mint] = ask[row.mint]
        BY <1>7, <1>8, <3>1, <3>2
      <3>4. QED
        BY <3>1, <3>3 DEF RowMinted
    <2>2. UsedUpBurnt'
      <3> SUFFICES ASSUME NEW row \in rows, row.attempts = MaxAttempts
                   PROVE  \E q \in Calls : pos'[q] = "burn" /\ addr'[q] = row.addr
        BY <1>3 DEF UsedUpBurnt
      <3>1. PICK q \in Calls : pos[q] = "burn" /\ addr[q] = row.addr
        BY <1>1 DEF TokenTypeOK
      <3>2. QED
        BY <1>1, <1>7, <3>1
    <2>3. QED
      BY <1>1, <1>3, <2>1, <2>2 DEF RowsInv, RowsNamed, TokenTypeOK
  <1>12. KnownMinted'
    BY <1>1, <1>3, <1>7, <1>8 DEF TokensInv, KnownMinted, TokenTypeOK, Token, OtpAsk
  <1>13. WrongsCounted'
    <2>1. Refused' = Refused
      BY <1>1, <1>5, <1>7 DEF Refused
    <2>2. QED
      BY <1>3, <2>1 DEF TokensInv, WrongsCounted
  <1>14. settled' \in [Calls -> SUBSET Calls]
    <2>1. EarlierMints(ask'[r]) \in SUBSET Calls
      BY <1>8 DEF EarlierMints, Answered
    <2>2. QED
      BY <1>1, <1>3, <2>1 DEF TokenTypeOK
  <1>15. tangled' \in BOOLEAN
    BY <1>1, <1>2 DEF TokenTypeOK
  <1>16. TokenTypeOK'
    BY <1>1, <1>3, <1>7, <1>8, <1>11, <1>14, <1>15 DEF TokenTypeOK, RowsInv, RowsNamed, UsedUpBurnt
  <1>17. QED
    BY <1>10, <1>11, <1>12, <1>13, <1>16 DEF TokensInv, RowsInv

LEMMA ExpireTyped ==
    ASSUME TokensInv, NEW r \in Calls, Expire(r)
    PROVE  TokensInv'
  <1>1. /\ rows' \subseteq rows /\ swept' = swept \cup {r}
        /\ UNCHANGED <<email, parked, pos, ask, addr, known, against, wrongs, taken, settled, tangled>>
    BY DEF Expire
  <1>2. RowsMinted'
    BY <1>1 DEF TokensInv, RowsMinted, RowMinted
  <1>3. AsksFit' /\ KnownMinted' /\ WrongsCounted'
    BY <1>1 DEF TokensInv, AsksFit, AskFits, OtpAsk, ChangeAsk, GuessAsk, VerifyAsk, ConfirmAsk,
                KnownMinted, WrongsCounted, Refused
  <1>4. TokenTypeOK'
    BY <1>1 DEF TokensInv, TokenTypeOK
  <1>5. QED
    BY <1>2, <1>3, <1>4 DEF TokensInv

LEMMA NextTyped == TokensInv /\ [TokenNext]_tokenVars => TokensInv'
  <1> SUFFICES ASSUME TokensInv, [TokenNext]_tokenVars PROVE TokensInv'
    OBVIOUS
  <1>1. CASE UNCHANGED tokenVars
    BY <1>1 DEF tokenVars, past, TokensInv, TokenTypeOK, AsksFit, AskFits, OtpAsk, ChangeAsk, GuessAsk,
                VerifyAsk, ConfirmAsk, RowsMinted, RowMinted, KnownMinted, WrongsCounted, Refused
  <1>2. ASSUME NEW r \in Calls, Arrive(r) \/ Login(r) \/ ChangeAddress(r) \/ Expire(r)
        PROVE  TokensInv'
    BY <1>2, MintTyped, RedeemTyped, MissTyped, BurnTyped, SpendTyped, CountTyped, InsertTyped, InsertNewTyped,
       InsertCurrentTyped, ChangeTyped, ConfirmTyped, ArriveTyped, ExpireTyped DEF Login, ChangeAddress
  <1>3. QED
    BY <1>1, <1>2 DEF TokenNext

LEMMA InitTyped == TokenInit => TokensInv
  <1> SUFFICES ASSUME TokenInit PROVE TokensInv
    OBVIOUS
  <1>1. \A r \in Calls : pos[r] = "idle"
    BY DEF TokenInit
  <1>2. "idle" \notin TokenSteps \cup Answers
    BY DEF TokenSteps, MintSteps, ChangeSteps, RedeemSteps, ConfirmSteps, Answers
  <1>3. AsksFit
    BY <1>1, <1>2 DEF AsksFit, AskFits, TokenSteps, RedeemSteps
  <1>4. Refused = {} /\ Cardinality(Refused) = 0 /\ Cardinality(Calls) \in Nat
    BY <1>1, CallsAssumption, FS_EmptySet, FS_CardinalityType DEF Refused
  <1>5. WrongsCounted /\ wrongs \in [Calls -> 0 .. Cardinality(Calls)]
    BY <1>4 DEF WrongsCounted, TokenInit
  <1>6. TokenTypeOK
    BY <1>5, FirstAssumption DEF TokenInit, TokenTypeOK
  <1>7. QED
    BY <1>3, <1>5, <1>6 DEF TokensInv, RowsMinted, KnownMinted, TokenInit

(* The table of tokens keeps one row per token, no row keeps a count of      *)
(* attempts that nobody is about to burn, and no handler or column leaves    *)
(* its range, however the queries of the handlers meet.                      *)
THEOREM TokensTyped == TokenSpec => []TokenTypeOK
  <1>1. TokensInv => TokenTypeOK
    BY DEF TokensInv
  <1>2. QED
    BY InitTyped, NextTyped, <1>1, PTL DEF TokenSpec

----------------------------------------------------------------------------
(* RedeemedInTime.  A step of a handler is plain, or one of four.            *)
Moved(r) ==
    /\ pos[r] \notin Answers \cup {"idle"} /\ pos'[r] # "idle"
    /\ \A q \in Calls \ {r} : pos'[q] = pos[q] /\ addr'[q] = addr[q]
    /\ pos[r] \in Minted => pos'[r] \in Minted
    /\ UNCHANGED <<ask, settled>>
Plain(r) ==
    /\ pos[r] \notin {"count", "burn", "insert"} /\ pos'[r] # "burn"
    /\ UNCHANGED <<against, wrongs>>
    /\ LoginRows' \subseteq LoginRows
    /\ pos'[r] \in Replacing /\ pos[r] \notin Replacing /\ ask[r] \in OtpAsk =>
          \A row \in LoginRows' : row.part = "code" => row.addr # ask[r].addr

LEMMA PartsDiffer == LoginParts \cap ChangeParts = {}
  BY DEF LoginParts, ChangeParts

LEMMA MoveMoves ==
    ASSUME TokensInv, NEW r \in Calls, NEW s \in TokenSteps \cup Answers, NEW a \in Addrs \cup {Nil},
           Move(r, s, a), pos[r] \notin Answers \cup {"idle"}, pos[r] \in Minted => s \in Minted,
           UNCHANGED <<ask, settled>>
    PROVE  Moved(r) /\ pos'[r] = s /\ addr'[r] = a
  <1>1. s \in Positions /\ s # "idle"
    BY DEF Positions, TokenSteps, MintSteps, ChangeSteps, RedeemSteps, ConfirmSteps, Answers
  <1>2. QED
    BY <1>1, MoveFacts DEF TokensInv, Moved

LEMMA ProceedMoves ==
    ASSUME TokensInv, NEW r \in Calls, NEW s \in TokenSteps \cup Answers, Proceed(r, s),
           pos[r] \notin Answers \cup {"idle"}, pos[r] \in Minted => s \in Minted, UNCHANGED <<ask, settled>>
    PROVE  Moved(r) /\ pos'[r] = s /\ (s \in TokenSteps => addr'[r] = addr[r])
  <1>1. PICK a \in Addrs \cup {Nil} : Move(r, s, a) /\ (s \in TokenSteps => a = addr[r])
    BY ProceedFacts DEF TokensInv
  <1>2. QED
    BY <1>1, MoveMoves

(* What each position is not.                                                *)
LEMMA StepsApart ==
    ASSUME NEW p \in TokenSteps
    PROVE  p \notin Answers \cup {"idle"} /\ (p \in Minted => p = "mail")
  BY DEF TokenSteps, MintSteps, ChangeSteps, RedeemSteps, ConfirmSteps, Answers, Minted

LEMMA MintMoves ==
    ASSUME TokensInv, NEW r \in Calls, LookupUser(r) \/ Clear(r) \/ Mail(r)
    PROVE  Moved(r) /\ Plain(r)
  <1>1. UNCHANGED <<ask, settled, against, wrongs>> /\ rows' \subseteq rows
    BY DEF LookupUser, Clear, Mail, past
  <1>2. PICK s \in {"clear", "refused", "insert", "ok", "failed"} :
           /\ Proceed(r, s)
           /\ pos[r] = "lookup" => s \in {"clear", "refused"}
           /\ pos[r] = "clear" => s = "insert"
           /\ pos[r] = "mail" => s \in {"ok", "failed"}
    BY DEF LookupUser, Clear, Mail
  <1>3. pos[r] \in {"lookup", "clear", "mail"} /\ pos[r] \in TokenSteps
    BY DEF LookupUser, Clear, Mail, TokenSteps, MintSteps
  <1>4. s \in TokenSteps \cup Answers
    BY DEF TokenSteps, MintSteps, Answers
  <1>5. pos[r] \in Minted => s \in Minted
    BY <1>2, <1>3 DEF Minted
  <1>6. Moved(r) /\ pos'[r] = s
    BY <1>1, <1>2, <1>3, <1>4, <1>5, StepsApart, ProceedMoves
  <1>7. pos[r] = "clear" => \A row \in LoginRows' : row.part = "code" => row.addr # ask[r].addr
    BY DEF LookupUser, Clear, Mail, Superseded, LoginRows
  <1>8. QED
    BY <1>1, <1>2, <1>3, <1>6, <1>7 DEF Plain, LoginRows, Replacing

(* The steps of whoever has not asked for a code.                            *)
LEMMA OtherMoves ==
    ASSUME TokensInv, NEW r \in Calls, NEW s \in TokenSteps \cup Answers, NEW a \in Addrs \cup {Nil},
           Move(r, s, a), pos[r] \in TokenSteps \ (MintSteps \cup {"count", "burn"}), s # "burn",
           UNCHANGED <<ask, settled, against, wrongs>>, LoginRows' \subseteq LoginRows
    PROVE  Moved(r) /\ Plain(r)
  <1>1. pos[r] \notin Minted /\ pos[r] # "insert"
    BY StepsApart DEF MintSteps
  <1>2. Moved(r) /\ pos'[r] = s
    BY <1>1, StepsApart, MoveMoves
  <1>3. ask[r] \notin OtpAsk
    <2>1. ask[r] \in ChangeAsk \cup GuessAsk \cup VerifyAsk \cup ConfirmAsk
      BY DEF TokensInv, AsksFit, AskFits, TokenSteps
    <2>2. QED
      BY <2>1 DEF OtpAsk, ChangeAsk, GuessAsk, VerifyAsk, ConfirmAsk
  <1>4. QED
    BY <1>1, <1>2, <1>3 DEF Plain

LEMMA RedeemMoves ==
    ASSUME TokensInv, NEW r \in Calls, Redeem(r) \/ Spend(r)
    PROVE  Moved(r) /\ Plain(r)
  <1>1. TokenTypeOK /\ UNCHANGED <<ask, settled, against, wrongs>> /\ LoginRows' \subseteq LoginRows
    BY DEF TokensInv, Redeem, Spend, LoginRows
  <1>2. pos[r] \in TokenSteps \ (MintSteps \cup {"count", "burn"})
    BY DEF Redeem, Spend, TokenSteps, RedeemSteps, MintSteps
  <1>3. CASE Redeem(r)
    <2>1. PICK row \in Matching(r) : Move(r, "spend", row.addr)
      BY <1>3 DEF Redeem
    <2>2. row.addr \in Addrs
      BY <1>1, RowFacts DEF TokenTypeOK, Matching
    <2>3. "spend" \in TokenSteps
      BY DEF TokenSteps, RedeemSteps
    <2>4. QED
      BY <1>1, <1>2, <2>1, <2>2, <2>3, OtherMoves
  <1>4. CASE Spend(r)
    <2>1. "ok" \in Answers
      BY DEF Answers
    <2>2. PICK a \in Addrs \cup {Nil} : Move(r, "ok", a)
      BY <1>1, <1>4, <2>1, ProceedFacts DEF Spend
    <2>3. QED
      BY <1>1, <1>2, <2>1, <2>2, OtherMoves
  <1>5. QED
    BY <1>3, <1>4

LEMMA ChangeMoves ==
    ASSUME TokensInv, NEW r \in Calls, ChangeAddress(r)
    PROVE  Moved(r) /\ Plain(r)
  <1>1. TokenTypeOK /\ UNCHANGED <<ask, settled, against, wrongs>>
    BY DEF TokensInv, ChangeAddress, ClearChange, InsertNew, InsertCurrent, Park, MailChange, Take,
           CheckOutstanding, Land, past
  <1>2. LoginRows' \subseteq LoginRows
    <2>1. rows' \subseteq rows \/ InsertNew(r) \/ InsertCurrent(r)
      BY DEF ChangeAddress, ClearChange, Park, MailChange, Take, CheckOutstanding, Land
    <2>2. ASSUME NEW row \in LoginRows' PROVE row \in rows
      BY <2>1 DEF LoginRows, InsertNew, InsertCurrent, NewRow, LoginParts
    <2>3. QED
      BY <2>2 DEF LoginRows
  <1>3. pos[r] \in TokenSteps \ (MintSteps \cup {"count", "burn"})
    BY DEF ChangeAddress, ClearChange, InsertNew, InsertCurrent, Park, MailChange, Take, CheckOutstanding, Land,
           TokenSteps, ChangeSteps, ConfirmSteps, MintSteps
  <1>4. PICK s \in {"insertNew", "insertCurrent", "park", "mailChange", "ok", "failed",
                    "refused", "outstanding", "land"} : Proceed(r, s)
    BY DEF ChangeAddress, ClearChange, InsertNew, InsertCurrent, Park, MailChange, Take, CheckOutstanding, Land
  <1>5. s \in TokenSteps \cup Answers
    BY DEF TokenSteps, ChangeSteps, ConfirmSteps, Answers
  <1>6. PICK a \in Addrs \cup {Nil} : Move(r, s, a)
    BY <1>1, <1>4, <1>5, ProceedFacts
  <1>7. QED
    BY <1>1, <1>2, <1>3, <1>5, <1>6, OtherMoves

LEMMA MissMoves ==
    ASSUME TokensInv, NEW r \in Calls, Miss(r)
    PROVE  /\ Moved(r) /\ pos[r] = "redeem"
           /\ UNCHANGED <<rows, wrongs>>
           /\ \/ pos'[r] = "refused" /\ UNCHANGED against
              \/ /\ pos'[r] = "count"
                 /\ against' = [against EXCEPT ![r] = {row.mint : row \in {x \in LoginRows : x.addr = addr'[r]}}]
  <1>1. TokenTypeOK /\ UNCHANGED <<rows, ask, settled, wrongs>> /\ pos[r] = "redeem"
    BY DEF TokensInv, Miss
  <1>2. pos[r] \in TokenSteps /\ "refused" \in Answers /\ "count" \in TokenSteps
    BY <1>1 DEF TokenSteps, RedeemSteps, Answers
  <1>3. pos[r] \notin Minted
    BY <1>1 DEF Minted
  <1>4. CASE Scope(r) = {}
    <2>1. Proceed(r, "refused") /\ UNCHANGED against
      BY <1>4 DEF Miss
    <2>2. QED
      BY <1>1, <1>2, <1>3, <2>1, StepsApart, ProceedMoves
  <1>5. CASE Scope(r) # {}
    <2>1. PICK a \in Scope(r) : Move(r, "count", a) /\ against' = [against EXCEPT ![r] = Mints(Live(a))]
      BY <1>5 DEF Miss
    <2>2. pos' \in [Calls -> {"idle"} \cup TokenSteps \cup Answers] /\ addr'[r] = a
      <3>1. pos \in [Calls -> {"idle"} \cup TokenSteps \cup Answers] /\ addr \in [Calls -> Addrs \cup {Nil}]
        BY <1>1 DEF TokenTypeOK
      <3>2. QED
        BY <1>2, <2>1, <3>1 DEF Move
    <2>3. addr' \in [Calls -> Addrs \cup {Nil}]
      BY MissTyped DEF TokensInv, TokenTypeOK
    <2>4. a \in Addrs \cup {Nil}
      BY <2>2, <2>3
    <2>5. Moved(r) /\ pos'[r] = "count" /\ addr'[r] = a
      BY <1>1, <1>2, <1>3, <2>1, <2>4, StepsApart, MoveMoves
    <2>6. Mints(Live(a)) = {row.mint : row \in {x \in LoginRows : x.addr = a}}
      BY DEF Mints, Live, LoginRows
    <2>7. QED
      BY <1>1, <2>1, <2>5, <2>6
  <1>6. QED
    BY <1>4, <1>5

LEMMA CountMoves ==
    ASSUME TokensInv, NEW r \in Calls, Count(r)
    PROVE  /\ Moved(r) /\ pos[r] = "count" /\ pos'[r] = "burn" /\ addr'[r] = addr[r]
           /\ UNCHANGED <<against, wrongs>>
           /\ \A new \in LoginRows' : \E old \in LoginRows :
                 /\ new.mint = old.mint /\ new.part = old.part /\ new.addr = old.addr
                 /\ new.attempts = IF old.addr = addr[r] /\ old.attempts < MaxAttempts
                                     THEN old.attempts + 1 ELSE old.attempts
  <1>1. TokenTypeOK /\ UNCHANGED <<ask, settled, against, wrongs>> /\ pos[r] = "count"
    BY DEF TokensInv, Count, past
  <1>2. pos[r] \in TokenSteps /\ "burn" \in TokenSteps /\ pos[r] \notin Minted
    BY <1>1 DEF TokenSteps, RedeemSteps, Minted
  <1>3. Moved(r) /\ pos'[r] = "burn" /\ addr'[r] = addr[r]
    BY <1>1, <1>2, StepsApart, ProceedMoves DEF Count
  <1>4. ASSUME NEW new \in LoginRows'
        PROVE  \E old \in LoginRows :
                 /\ new.mint = old.mint /\ new.part = old.part /\ new.addr = old.addr
                 /\ new.attempts = IF old.addr = addr[r] /\ old.attempts < MaxAttempts
                                     THEN old.attempts + 1 ELSE old.attempts
    <2>1. rows' = (rows \ Live(addr[r])) \cup {Counted(row) : row \in Live(addr[r])} /\ rows \subseteq Row
      BY <1>1 DEF Count, TokenTypeOK
    <2>2. new \in rows' /\ new.part \in LoginParts
      BY DEF LoginRows
    <2>3. CASE new \in rows \ Live(addr[r])
      BY <2>2, <2>3 DEF LoginRows, Live
    <2>4. CASE new \notin rows \ Live(addr[r])
      <3>1. PICK old \in Live(addr[r]) : new = Counted(old)
        BY <2>1, <2>2, <2>4
      <3>2. old \in LoginRows /\ old.addr = addr[r] /\ old \in Row
        BY <2>1 DEF Live, LoginRows
      <3>3. /\ new.mint = old.mint /\ new.part = old.part /\ new.addr = old.addr
            /\ new.attempts = IF old.attempts < MaxAttempts THEN old.attempts + 1 ELSE old.attempts
        BY <3>1, <3>2 DEF Counted, Row
      <3>4. QED
        BY <3>2, <3>3
    <2>5. QED
      BY <2>3, <2>4
  <1>5. QED
    BY <1>1, <1>3, <1>4

LEMMA BurnMoves ==
    ASSUME TokensInv, NEW r \in Calls, Burn(r)
    PROVE  /\ Moved(r) /\ pos[r] = "burn" /\ pos'[r] = "refused" /\ LoginRows' \subseteq LoginRows
           /\ wrongs' = [m \in Calls |-> IF m \in against[r] THEN wrongs[m] + 1 ELSE wrongs[m]]
           /\ against' = [against EXCEPT ![r] = {}]
  <1>1. TokenTypeOK /\ UNCHANGED <<ask, settled>> /\ pos[r] = "burn"
    BY DEF TokensInv, Burn
  <1>2. pos[r] \in TokenSteps /\ "refused" \in Answers /\ pos[r] \notin Minted
    BY <1>1 DEF TokenSteps, RedeemSteps, Answers, Minted
  <1>3. Moved(r) /\ pos'[r] = "refused"
    BY <1>1, <1>2, StepsApart, ProceedMoves DEF Burn
  <1>4. QED
    BY <1>1, <1>3 DEF Burn, LoginRows

LEMMA InsertMoves ==
    ASSUME TokensInv, NEW r \in Calls, Insert(r)
    PROVE  /\ Moved(r) /\ pos[r] = "insert" /\ pos'[r] = "mail" /\ UNCHANGED <<against, wrongs>>
           /\ \A row \in LoginRows' : row \in LoginRows \/ (row.mint = r /\ row.attempts = 0)
  <1>1. UNCHANGED <<ask, settled, against, wrongs>> /\ pos[r] = "insert"
    BY DEF Insert, past
  <1>2. pos[r] \in TokenSteps /\ "mail" \in TokenSteps /\ pos[r] \notin Minted
    BY <1>1 DEF TokenSteps, MintSteps, Minted
  <1>3. Moved(r) /\ pos'[r] = "mail"
    BY <1>1, <1>2, StepsApart, ProceedMoves DEF Insert
  <1>4. \A row \in LoginRows' : row \in LoginRows \/ (row.mint = r /\ row.attempts = 0)
    BY DEF Insert, LoginRows, NewRow
  <1>5. QED
    BY <1>1, <1>3, <1>4

(* Every step of a handler is one of these.                                  *)
LEMMA StepKinds ==
    ASSUME TokensInv, NEW r \in Calls, Login(r) \/ ChangeAddress(r)
    PROVE  Moved(r) /\ (Plain(r) \/ Insert(r) \/ Miss(r) \/ Count(r) \/ Burn(r))
  BY MintMoves, RedeemMoves, ChangeMoves, MissMoves, CountMoves, BurnMoves, InsertMoves DEF Login

LEMMA ArriveMoves ==
    ASSUME TokensInv, NEW r \in Calls, Arrive(r)
    PROVE  /\ pos[r] = "idle" /\ pos'[r] \in {"lookup", "clearChange", "redeem", "take"}
           /\ pos'[r] = "lookup" => ask'[r] \in OtpAsk
           /\ \A q \in Calls \ {r} : pos'[q] = pos[q] /\ addr'[q] = addr[q] /\ ask'[q] = ask[q]
           /\ UNCHANGED <<rows, against, wrongs>>
           /\ settled' \in [Calls -> SUBSET Calls]
           /\ \A q \in Calls \ {r} : settled'[q] = settled[q]
           /\ \A m \in settled'[r] : m \in Answered /\ ask[m] = ask'[r] /\ ask'[r].op = "otp" /\ pos'[r] = "lookup"
  <1>1. TokenTypeOK /\ TokenTypeOK' /\ AskFits(r)'
    BY ArriveTyped DEF TokensInv, AsksFit
  <1>2. PICK j \in Ask :
          /\ ask' = [ask EXCEPT ![r] = j]
          /\ Move(r, Entry(j.op), IF j.op = "change" THEN email ELSE Nil)
    BY DEF Arrive
  <1>3. /\ UNCHANGED <<rows, against, wrongs>> /\ settled' = [settled EXCEPT ![r] = EarlierMints(ask'[r])]
        /\ pos[r] = "idle"
    BY DEF Arrive
  <1>4. j.op \in {"otp", "guess", "change", "verify", "confirm"}
    BY DEF Ask
  <1>5. Entry(j.op) \in {"lookup", "clearChange", "redeem", "take"} /\ (j.op = "otp" => Entry(j.op) = "lookup")
    BY <1>4 DEF Entry
  <1>6. ask'[r] = j /\ \A q \in Calls \ {r} : ask'[q] = ask[q]
    BY <1>1, <1>2 DEF TokenTypeOK
  <1>7. pos'[r] = Entry(j.op) /\ \A q \in Calls \ {r} : pos'[q] = pos[q] /\ addr'[q] = addr[q]
    BY <1>1, <1>2 DEF Move, TokenTypeOK
  <1>8. /\ settled' \in [Calls -> SUBSET Calls] /\ settled'[r] = EarlierMints(ask'[r])
        /\ \A q \in Calls \ {r} : settled'[q] = settled[q]
    BY <1>1, <1>3 DEF TokenTypeOK
  <1>9. pos'[r] = "lookup" => ask'[r] \in OtpAsk
    BY <1>1 DEF AskFits, MintSteps
  <1>10. \A m \in settled'[r] : m \in Answered /\ ask[m] = ask'[r] /\ ask'[r].op = "otp" /\ pos'[r] = "lookup"
    BY <1>5, <1>6, <1>7, <1>8 DEF EarlierMints
  <1>11. QED
    BY <1>3, <1>5, <1>6, <1>7, <1>8, <1>9, <1>10

(* AgainstFits and WrongsMinted.                                             *)
LEMMA MintedStays ==
    ASSUME TokensInv, NEW r \in Calls, Moved(r) \/ Arrive(r) \/ Expire(r)
    PROVE  \A m \in Calls : pos[m] \in Minted => pos'[m] \in Minted /\ ask'[m] = ask[m]
  <1>1. "idle" \notin Minted
    BY DEF Minted
  <1>2. CASE Moved(r)
    BY <1>2 DEF Moved
  <1>3. CASE Arrive(r)
    BY <1>1, <1>3, ArriveMoves
  <1>4. CASE Expire(r)
    BY <1>4 DEF Expire
  <1>5. QED
    BY <1>2, <1>3, <1>4

LEMMA LoginMint ==
    ASSUME TokensInv, NEW row \in LoginRows
    PROVE  /\ row.mint \in Calls /\ row.addr \in Addrs /\ row.attempts \in 0 .. MaxAttempts
           /\ pos[row.mint] \in Minted /\ ask[row.mint] = [op |-> "otp", addr |-> row.addr]
  BY RowFacts DEF LoginRows, TokensInv, TokenTypeOK, RowsMinted, RowMinted

LEMMA AgainstStays ==
    ASSUME TokensInv, AgainstFits, NEW r \in Calls, Arrive(r) \/ Login(r) \/ ChangeAddress(r) \/ Expire(r)
    PROVE  AgainstFits'
  <1> SUFFICES ASSUME NEW q \in Calls, NEW m \in Calls, m \in against'[q]
               PROVE  /\ pos'[q] \in {"count", "burn"}
                      /\ pos'[m] \in Minted /\ ask'[m] = [op |-> "otp", addr |-> addr'[q]]
    BY DEF AgainstFits
  <1>1. \A n \in Calls : pos[n] \in Minted => pos'[n] \in Minted /\ ask'[n] = ask[n]
    BY StepKinds, MintedStays
  <1>2. against \in [Calls -> SUBSET Calls]
    BY DEF TokensInv, TokenTypeOK
  <1>3. ASSUME m \in against[q], pos'[q] \in {"count", "burn"}, addr'[q] = addr[q]
        PROVE  /\ pos'[q] \in {"count", "burn"}
               /\ pos'[m] \in Minted /\ ask'[m] = [op |-> "otp", addr |-> addr'[q]]
    BY <1>1, <1>3 DEF AgainstFits
  <1>4. m \in against[q] => pos[q] \in {"count", "burn"}
    BY DEF AgainstFits
  <1>5. CASE Arrive(r)
    <2>1. against' = against /\ pos[r] = "idle" /\ \A n \in Calls \ {r} : pos'[n] = pos[n] /\ addr'[n] = addr[n]
      BY <1>5, ArriveMoves
    <2>2. QED
      BY <1>3, <1>4, <2>1
  <1>6. CASE Expire(r)
    BY <1>3, <1>4, <1>6 DEF Expire
  <1>7. CASE Login(r) \/ ChangeAddress(r)
    <2>1. \A n \in Calls \ {r} : pos'[n] = pos[n] /\ addr'[n] = addr[n]
      BY <1>7, StepKinds DEF Moved
    <2>2. CASE Plain(r) \/ Insert(r)
      <3>1. against' = against /\ pos[r] \notin {"count", "burn"}
        BY <2>2, InsertMoves DEF Plain
      <3>2. QED
        BY <1>3, <1>4, <2>1, <3>1
    <2>3. CASE Miss(r)
      <3>1. CASE q # r
        BY <1>2, <1>3, <1>4, <2>1, <2>3, <3>1, MissMoves
      <3>2. CASE q = r
        <4>1. pos[r] = "redeem"
          BY <2>3, MissMoves
        <4>2. m \notin against[r]
          BY <1>4, <3>2, <4>1
        <4>3. /\ pos'[r] = "count"
              /\ against' = [against EXCEPT ![r] = {row.mint : row \in {x \in LoginRows : x.addr = addr'[r]}}]
          BY <2>3, <3>2, <4>2, MissMoves
        <4>4. PICK row \in LoginRows : row.addr = addr'[r] /\ m = row.mint
          BY <1>2, <3>2, <4>3
        <4>5. pos[m] \in Minted /\ ask[m] = [op |-> "otp", addr |-> addr'[r]]
          BY <4>4, LoginMint
        <4>6. QED
          BY <1>1, <3>2, <4>3, <4>5
      <3>3. QED
        BY <3>1, <3>2
    <2>4. CASE Count(r)
      BY <1>3, <1>4, <2>1, <2>4, CountMoves
    <2>5. CASE Burn(r)
      <3>1. q # r /\ m \in against[q]
        BY <1>2, <2>5, BurnMoves
      <3>2. QED
        BY <1>3, <1>4, <2>1, <3>1
    <2>6. QED
      BY <1>7, <2>2, <2>3, <2>4, <2>5, StepKinds
  <1>8. QED
    BY <1>5, <1>6, <1>7

LEMMA WrongsStay ==
    ASSUME TokensInv, AgainstFits, WrongsMinted, NEW r \in Calls,
           Arrive(r) \/ Login(r) \/ ChangeAddress(r) \/ Expire(r)
    PROVE  WrongsMinted'
  <1> SUFFICES ASSUME NEW m \in Calls, wrongs'[m] > 0 PROVE pos'[m] \in Minted
    BY DEF WrongsMinted
  <1>1. pos[m] \in Minted => pos'[m] \in Minted
    BY StepKinds, MintedStays
  <1>2. CASE UNCHANGED wrongs
    BY <1>1, <1>2 DEF WrongsMinted
  <1>3. CASE Burn(r)
    <2>1. wrongs'[m] = IF m \in against[r] THEN wrongs[m] + 1 ELSE wrongs[m]
      BY <1>3, BurnMoves
    <2>2. m \in against[r] \/ wrongs[m] > 0
      BY <2>1
    <2>3. QED
      BY <1>1, <2>2 DEF AgainstFits, WrongsMinted
  <1>4. UNCHANGED wrongs \/ Burn(r)
    BY StepKinds, ArriveMoves, MissMoves, CountMoves, InsertMoves DEF Plain, Expire
  <1>5. QED
    BY <1>2, <1>3, <1>4

(* SettledFits.                                                              *)
LEMMA SettledStays ==
    ASSUME TokensInv, SettledFits, NEW r \in Calls, Arrive(r) \/ Login(r) \/ ChangeAddress(r) \/ Expire(r)
    PROVE  SettledFits'
  <1>0. OtpAsk' = OtpAsk
    BY DEF OtpAsk
  <1> SUFFICES ASSUME NEW q \in Calls, NEW m \in Calls, m \in settled'[q]
               PROVE  /\ ask'[q] \in OtpAsk /\ ask'[q] = ask'[m] /\ pos'[m] \in Answers /\ pos'[q] # "idle"
                      /\ pos'[q] \in Replacing => \A row \in LoginRows' : row.part = "code" => row.mint # m
    BY <1>0 DEF SettledFits
  <1>1. "idle" \notin Answers
    BY DEF Answers
  <1>2. m \in settled[q] =>
          /\ ask[q] \in OtpAsk /\ ask[q] = ask[m] /\ pos[m] \in Answers /\ pos[q] # "idle"
          /\ pos[q] \in Replacing => \A row \in LoginRows : row.part = "code" => row.mint # m
    BY DEF SettledFits
  <1>3. CASE Expire(r)
    <2>1. m \in settled[q] /\ UNCHANGED <<ask, pos>> /\ LoginRows' \subseteq LoginRows
      BY <1>3 DEF Expire, LoginRows
    <2>2. QED
      BY <1>2, <2>1
  <1>4. CASE Arrive(r)
    <2>1. CASE q = r
      <3>1. m \in Answered /\ ask[m] = ask'[r] /\ pos'[r] = "lookup" /\ ask'[r] \in OtpAsk /\ pos[r] = "idle"
        BY <1>4, <2>1, ArriveMoves
      <3>2. m # r /\ pos[m] \in Answers
        BY <1>1, <3>1 DEF Answered
      <3>3. pos'[m] = pos[m] /\ ask'[m] = ask[m]
        BY <1>4, <3>2, ArriveMoves
      <3>4. "lookup" \notin Replacing
        BY DEF Replacing
      <3>5. QED
        BY <2>1, <3>1, <3>2, <3>3, <3>4
    <2>2. CASE q # r
      <3>1. m \in settled[q]
        BY <1>4, <2>2, ArriveMoves
      <3>2. m # r
        BY <1>1, <1>2, <1>4, <3>1, ArriveMoves
      <3>3. /\ pos'[m] = pos[m] /\ ask'[m] = ask[m] /\ pos'[q] = pos[q] /\ ask'[q] = ask[q]
            /\ UNCHANGED rows
        BY <1>4, <2>2, <3>2, ArriveMoves
      <3>4. LoginRows' = LoginRows
        BY <3>3 DEF LoginRows
      <3>5. QED
        BY <1>2, <3>1, <3>3, <3>4
    <2>3. QED
      BY <2>1, <2>2
  <1>5. CASE Login(r) \/ ChangeAddress(r)
    <2>1. Moved(r) /\ m \in settled[q] /\ ask' = ask
      BY <1>5, StepKinds DEF Moved
    <2>2. m # r /\ pos'[m] = pos[m] /\ pos'[q] # "idle"
      BY <1>2, <2>1 DEF Moved
    <2>3. ASSUME pos'[q] \in Replacing, NEW row \in LoginRows', row.part = "code", row.mint = m PROVE FALSE
      <3>1. CASE row \in LoginRows \/ \E old \in LoginRows :
                   row.mint = old.mint /\ row.part = old.part /\ row.addr = old.addr
        <4>1. PICK old \in LoginRows : row.mint = old.mint /\ row.part = old.part /\ row.addr = old.addr
          BY <3>1
        <4>2. pos[q] \notin Replacing
          BY <1>2, <2>1, <2>3, <4>1
        <4>3. q = r
          BY <2>1, <2>3, <4>2 DEF Moved
        <4>4. ask[r].addr = row.addr
          <5>1. ask[old.mint] = [op |-> "otp", addr |-> old.addr]
            BY LoginMint
          <5>2. ask[m] = [op |-> "otp", addr |-> row.addr]
            BY <2>3, <4>1, <5>1
          <5>3. ask[r] = ask[m]
            BY <1>2, <2>1, <4>3
          <5>4. QED
            BY <5>2, <5>3
        <4>5. Plain(r) => row.addr # ask[r].addr
          BY <1>2, <2>1, <2>3, <4>2, <4>3 DEF Plain
        <4>6. pos'[r] \in Replacing /\ pos[r] \notin Replacing
          BY <2>3, <4>2, <4>3
        <4>7. ~Insert(r) /\ ~Miss(r) /\ ~Count(r) /\ ~Burn(r)
          BY <4>6, InsertMoves, MissMoves, CountMoves, BurnMoves DEF Replacing
        <4>8. QED
          BY <1>5, <4>4, <4>5, <4>7, StepKinds
      <3>2. CASE row \notin LoginRows /\ ~\E old \in LoginRows :
                   row.mint = old.mint /\ row.part = old.part /\ row.addr = old.addr
        <4>1. LoginRows' \subseteq LoginRows \/ Insert(r) \/ Count(r)
          BY <1>5, StepKinds, MissMoves, BurnMoves DEF Plain, LoginRows
        <4>2. CASE Insert(r)
          BY <2>2, <2>3, <3>2, <4>2, InsertMoves
        <4>3. CASE Count(r)
          BY <3>2, <4>3, CountMoves
        <4>4. QED
          BY <3>2, <4>1, <4>2, <4>3
      <3>3. QED
        BY <3>1, <3>2
    <2>4. QED
      BY <1>2, <2>1, <2>2, <2>3
  <1>6. QED
    BY <1>3, <1>4, <1>5

(* AttemptsCover.                                                            *)
LEMMA BurningFinite ==
    \A m : IsFiniteSet(Burning(m)) /\ Cardinality(Burning(m)) \in Nat
  BY CallsAssumption, FS_Subset, FS_CardinalityType DEF Burning

LEMMA CoverStays ==
    ASSUME TokensInv, TokensInv', AttemptsCover, LoginRows' \subseteq LoginRows, UNCHANGED wrongs,
           \A m \in Calls : Burning(m)' \subseteq Burning(m)
    PROVE  AttemptsCover'
  <1> SUFFICES ASSUME NEW row \in LoginRows', row.attempts # MaxAttempts
               PROVE  wrongs[row.mint] + Cardinality(Burning(row.mint)') <= row.attempts
    BY DEF AttemptsCover
  <1>1. row \in LoginRows /\ row.mint \in Calls
    BY LoginMint
  <1>2. PICK m \in Calls : m = row.mint
    BY <1>1
  <1>3. PICK b \in Nat : b = Cardinality(Burning(m))
    BY BurningFinite
  <1>4. Burning(m)' \subseteq Burning(m)
    OBVIOUS
  <1>5. Cardinality(Burning(m)') \in Nat /\ Cardinality(Burning(m)') <= b
    BY <1>3, <1>4, BurningFinite, FS_Subset, FS_CardinalityType
  <1>6. wrongs[m] + b <= row.attempts
    BY <1>1, <1>2, <1>3 DEF AttemptsCover
  <1>7. wrongs[m] \in Nat /\ row.attempts \in Nat
    <2>1. wrongs[m] \in 0 .. Cardinality(Calls) /\ Cardinality(Calls) \in Nat
      BY CallsAssumption, FS_CardinalityType DEF TokensInv, TokenTypeOK
    <2>2. row.attempts \in 0 .. MaxAttempts /\ MaxAttempts \in Nat
      BY <1>1, LoginMint, AttemptsAssumption
    <2>3. QED
      BY <2>1, <2>2
  <1>8. PICK c \in Nat : c = Cardinality(Burning(m)')
    BY <1>5
  <1>9. wrongs[m] + c <= row.attempts
    BY <1>5, <1>6, <1>7, <1>8
  <1>10. QED
    BY <1>2, <1>8, <1>9

LEMMA CoverNext ==
    ASSUME TokensInv, TokensInv', AttemptsCover, AgainstFits, WrongsMinted, NEW r \in Calls,
           Arrive(r) \/ Login(r) \/ ChangeAddress(r) \/ Expire(r)
    PROVE  AttemptsCover'
  <1>1. against \in [Calls -> SUBSET Calls] /\ wrongs \in [Calls -> 0 .. Cardinality(Calls)]
    BY DEF TokensInv, TokenTypeOK
  <1>2. wrongs \in [Calls -> Nat] /\ MaxAttempts \in Nat \ {0}
    BY <1>1, CallsAssumption, FS_CardinalityType, AttemptsAssumption
  <1>3. CASE Arrive(r) \/ Expire(r)
    <2>1. /\ UNCHANGED <<against, wrongs>> /\ LoginRows' \subseteq LoginRows
          /\ \A q \in Calls : pos'[q] = pos[q] \/ pos'[q] # "burn"
      BY <1>3, ArriveMoves DEF Expire, LoginRows
    <2>2. \A m \in Calls : Burning(m)' \subseteq Burning(m)
      BY <2>1 DEF Burning
    <2>3. QED
      BY <2>1, <2>2, CoverStays
  <1>4. CASE Login(r) \/ ChangeAddress(r)
    <2>0. \A q \in Calls \ {r} : pos'[q] = pos[q]
      BY <1>4, StepKinds DEF Moved
    <2>1. CASE Plain(r)
      <3>1. \A m \in Calls : Burning(m)' \subseteq Burning(m)
        BY <2>0, <2>1 DEF Burning, Plain
      <3>2. QED
        BY <2>1, <3>1, CoverStays DEF Plain
    <2>2. CASE Miss(r)
      <3>1. /\ UNCHANGED <<rows, wrongs>> /\ pos'[r] # "burn" /\ \A q \in Calls \ {r} : against'[q] = against[q]
        BY <1>1, <2>2, MissMoves
      <3>2. \A m \in Calls : Burning(m)' \subseteq Burning(m)
        BY <2>0, <3>1 DEF Burning
      <3>3. QED
        BY <3>1, <3>2, CoverStays DEF LoginRows
    <2>3. CASE Insert(r)
      <3>1. /\ pos[r] = "insert" /\ pos'[r] = "mail" /\ UNCHANGED <<against, wrongs>>
            /\ \A row \in LoginRows' : row \in LoginRows \/ (row.mint = r /\ row.attempts = 0)
        BY <2>3, InsertMoves
      <3>2. \A m \in Calls : Burning(m)' = Burning(m)
        BY <2>0, <3>1 DEF Burning
      <3>3. wrongs[r] = 0
        BY <1>2, <3>1 DEF WrongsMinted, Minted
      <3>4. Burning(r) = {}
        BY <3>1 DEF Burning, AgainstFits, Minted
      <3>5. ASSUME NEW row \in LoginRows', row.attempts # MaxAttempts
            PROVE  wrongs'[row.mint] + Cardinality(Burning(row.mint)') <= row.attempts
        <4>1. CASE row \in LoginRows
          <5>1. PICK m \in Calls : m = row.mint
            BY <4>1, LoginMint
          <5>2. wrongs[m] + Cardinality(Burning(m)) <= row.attempts
            BY <3>5, <4>1, <5>1 DEF AttemptsCover
          <5>3. Burning(m)' = Burning(m)
            BY <3>2
          <5>4. QED
            BY <3>1, <5>1, <5>2, <5>3
        <4>2. CASE row.mint = r /\ row.attempts = 0
          <5>1. Burning(r)' = {} /\ wrongs'[r] = 0
            BY <3>1, <3>2, <3>3, <3>4
          <5>2. QED
            BY <4>2, <5>1, FS_EmptySet
        <4>3. QED
          BY <3>1, <4>1, <4>2
      <3>6. QED
        BY <3>5 DEF AttemptsCover
    <2>4. CASE Count(r)
      <3>1. /\ pos[r] = "count" /\ pos'[r] = "burn" /\ UNCHANGED <<against, wrongs>>
            /\ \A new \in LoginRows' : \E old \in LoginRows :
                 /\ new.mint = old.mint /\ new.part = old.part /\ new.addr = old.addr
                 /\ new.attempts = IF old.addr = addr[r] /\ old.attempts < MaxAttempts
                                     THEN old.attempts + 1 ELSE old.attempts
        BY <2>4, CountMoves
      <3>2. \A m \in Calls : Burning(m)' = IF m \in against[r] THEN Burning(m) \cup {r} ELSE Burning(m)
        BY <2>0, <3>1 DEF Burning
      <3>3. \A m : r \notin Burning(m)
        BY <3>1 DEF Burning
      <3>4. ASSUME NEW new \in LoginRows', new.attempts # MaxAttempts
            PROVE  wrongs'[new.mint] + Cardinality(Burning(new.mint)') <= new.attempts
        <4>1. PICK old \in LoginRows :
                 /\ new.mint = old.mint /\ new.part = old.part /\ new.addr = old.addr
                 /\ new.attempts = IF old.addr = addr[r] /\ old.attempts < MaxAttempts
                                     THEN old.attempts + 1 ELSE old.attempts
          BY <3>1
        <4>2. old.attempts \in Nat /\ old.attempts <= MaxAttempts /\ old.mint \in Calls
          <5>1. old.attempts \in 0 .. MaxAttempts /\ old.mint \in Calls
            BY LoginMint
          <5>2. QED
            BY <1>2, <5>1
        <4>3. PICK m \in Calls : m = old.mint
          BY <4>2
        <4>4. PICK b \in Nat : b = Cardinality(Burning(m))
          BY BurningFinite
        <4>5. old.attempts # MaxAttempts
          BY <1>2, <3>4, <4>1, <4>2
        <4>6. wrongs[m] + b <= old.attempts
          BY <4>3, <4>4, <4>5 DEF AttemptsCover
        <4>7. CASE m \in against[r]
          <5>1. old.addr = addr[r]
            <6>1. ask[m] = [op |-> "otp", addr |-> addr[r]]
              BY <4>7 DEF AgainstFits
            <6>2. ask[m] = [op |-> "otp", addr |-> old.addr]
              BY <4>3, LoginMint
            <6>3. QED
              BY <6>1, <6>2
          <5>2. new.attempts = old.attempts + 1
            BY <1>2, <4>1, <4>2, <4>5, <5>1
          <5>3. Burning(m)' = Burning(m) \cup {r} /\ r \notin Burning(m)
            BY <3>2, <3>3, <4>7
          <5>4. Cardinality(Burning(m)') = b + 1
            BY <4>4, <5>3, BurningFinite, FS_AddElement
          <5>5. wrongs[m] \in Nat
            BY <1>2
          <5>6. wrongs[m] + (b + 1) <= new.attempts
            BY <4>2, <4>6, <5>2, <5>5
          <5>7. QED
            BY <3>1, <4>1, <4>3, <5>4, <5>6
        <4>8. CASE m \notin against[r]
          <5>1. Burning(m)' = Burning(m)
            BY <3>2, <4>8
          <5>2. old.attempts <= new.attempts
            BY <4>1, <4>2
          <5>3. wrongs[m] \in Nat /\ new.attempts \in Nat
            BY <1>2, <4>1, <4>2
          <5>4. wrongs[m] + b <= new.attempts
            BY <4>2, <4>6, <5>2, <5>3
          <5>5. QED
            BY <3>1, <4>1, <4>3, <4>4, <5>1, <5>4
        <4>9. QED
          BY <4>7, <4>8
      <3>5. QED
        BY <3>4 DEF AttemptsCover
    <2>5. CASE Burn(r)
      <3>1. /\ pos[r] = "burn" /\ pos'[r] = "refused" /\ LoginRows' \subseteq LoginRows
            /\ wrongs' = [m \in Calls |-> IF m \in against[r] THEN wrongs[m] + 1 ELSE wrongs[m]]
            /\ against' = [against EXCEPT ![r] = {}]
        BY <2>5, BurnMoves
      <3>2. \A m \in Calls : Burning(m)' = Burning(m) \ {r}
        BY <1>1, <2>0, <3>1 DEF Burning
      <3>3. ASSUME NEW row \in LoginRows', row.attempts # MaxAttempts
            PROVE  wrongs'[row.mint] + Cardinality(Burning(row.mint)') <= row.attempts
        <4>1. row \in LoginRows
          BY <3>1
        <4>2. PICK m \in Calls : m = row.mint
          BY <4>1, LoginMint
        <4>3. PICK b \in Nat : b = Cardinality(Burning(m))
          BY BurningFinite
        <4>4. wrongs[m] + b <= row.attempts /\ wrongs[m] \in Nat
          BY <1>2, <3>3, <4>1, <4>2, <4>3 DEF AttemptsCover
        <4>5. Burning(m)' = Burning(m) \ {r}
          BY <3>2
        <4>6. CASE m \in against[r]
          <5>1. r \in Burning(m)
            BY <3>1, <4>6 DEF Burning
          <5>2. Cardinality(Burning(m)') = b - 1
            BY <4>3, <4>5, <5>1, BurningFinite, FS_RemoveElement
          <5>3. wrongs'[m] = wrongs[m] + 1
            BY <3>1, <4>6
          <5>4. (wrongs[m] + 1) + (b - 1) <= row.attempts
            BY <4>4
          <5>5. QED
            BY <4>2, <5>2, <5>3, <5>4
        <4>7. CASE m \notin against[r]
          <5>1. r \notin Burning(m)
            BY <4>7 DEF Burning
          <5>2. Burning(m)' = Burning(m) /\ wrongs'[m] = wrongs[m]
            BY <3>1, <4>5, <4>7, <5>1
          <5>3. QED
            BY <4>2, <4>3, <4>4, <5>2
        <4>8. QED
          BY <4>6, <4>7
      <3>4. QED
        BY <3>3 DEF AttemptsCover
    <2>6. QED
      BY <1>4, <2>1, <2>2, <2>3, <2>4, <2>5, StepKinds
  <1>5. QED
    BY <1>3, <1>4

LEMMA NextRedeem == TokensInv /\ RedeemInv /\ [TokenNext]_tokenVars => RedeemInv'
  <1> SUFFICES ASSUME TokensInv, RedeemInv, [TokenNext]_tokenVars PROVE RedeemInv'
    OBVIOUS
  <1>1. CASE UNCHANGED tokenVars
    BY <1>1 DEF tokenVars, past, RedeemInv, AttemptsCover, LoginRows, Burning, AgainstFits, WrongsMinted,
                SettledFits, OtpAsk
  <1>2. ASSUME NEW r \in Calls, Arrive(r) \/ Login(r) \/ ChangeAddress(r) \/ Expire(r)
        PROVE  RedeemInv'
    <2>1. TokensInv'
      BY <1>2, NextTyped DEF TokenNext
    <2>2. QED
      BY <1>2, <2>1, CoverNext, AgainstStays, WrongsStay, SettledStays DEF RedeemInv
  <1>3. QED
    BY <1>1, <1>2 DEF TokenNext

LEMMA InitRedeem == TokenInit => RedeemInv
  BY DEF TokenInit, RedeemInv, AttemptsCover, LoginRows, AgainstFits, WrongsMinted, SettledFits

(* A token is taken in time.                                                 *)
LEMMA TakenInTime ==
    ASSUME TokensInv, RedeemInv, NEW r \in Calls, Arrive(r) \/ Login(r) \/ ChangeAddress(r) \/ Expire(r),
           NEW t \in taken' \ taken, t[2] \in LoginParts
    PROVE  wrongs[t[1]] < MaxAttempts /\ (t[2] = "code" => Later(t[1]) = {})
  <1>1. Redeem(r)
    <2>1. Redeem(r) \/ Take(r)
      BY DEF Arrive, Login, ChangeAddress, Expire, LookupUser, Clear, Insert, Mail, Miss, Count, Burn, Spend,
             ClearChange, InsertNew, InsertCurrent, Park, MailChange, CheckOutstanding, Land, past
    <2>2. CASE Take(r)
      <3>1. ask[r].token[2] \in ChangeParts
        BY <2>2 DEF Take, TokensInv, AsksFit, AskFits, ConfirmAsk, ConfirmSteps
      <3>2. t = ask[r].token
        BY <2>2 DEF Take
      <3>3. QED
        BY <3>1, <3>2, PartsDiffer
    <2>3. QED
      BY <2>1, <2>2
  <1>2. PICK row \in Matching(r) : t = TokenOf(row)
    BY <1>1 DEF Redeem
  <1>3. row \in LoginRows /\ row.attempts < MaxAttempts /\ t[1] = row.mint /\ t[2] = row.part
    BY <1>2 DEF Matching, TokenOf, LoginRows
  <1>4. PICK m \in Calls : m = row.mint
    BY <1>3, LoginMint
  <1>5. wrongs[m] < MaxAttempts
    <2>1. PICK b \in Nat : b = Cardinality(Burning(m))
      BY BurningFinite
    <2>2. wrongs[m] \in 0 .. Cardinality(Calls) /\ Cardinality(Calls) \in Nat
      BY CallsAssumption, FS_CardinalityType DEF TokensInv, TokenTypeOK
    <2>3. row.attempts \in Nat /\ MaxAttempts \in Nat
      <3>1. row.attempts \in 0 .. MaxAttempts
        BY <1>3, LoginMint
      <3>2. QED
        BY <3>1, AttemptsAssumption
    <2>4. wrongs[m] + b <= row.attempts
      BY <1>3, <1>4, <2>1, <2>3 DEF RedeemInv, AttemptsCover
    <2>5. QED
      BY <1>3, <2>2, <2>3, <2>4
  <1>6. row.part = "code" => Later(m) = {}
    BY <1>3, <1>4 DEF Later, RedeemInv, SettledFits, Replacing
  <1>7. QED
    BY <1>3, <1>4, <1>5, <1>6

(* A login token is taken only while fewer than MaxAttempts wrong attempts   *)
(* on it were answered, and a code never after a later request for a code    *)
(* was answered: for any number of requests, guesses and redemptions at a    *)
(* time, of codes and links of any address.                                  *)
THEOREM TokensRedeemedInTime == TokenSpec => RedeemedInTime
  <1>1. TokensInv /\ RedeemInv /\ [TokenNext]_tokenVars
          => [\A t \in taken' \ taken :
                /\ t[2] \in LoginParts => wrongs[t[1]] < MaxAttempts
                /\ t[2] = "code" => Later(t[1]) = {}]_tokenVars
    BY TakenInTime DEF TokenNext, LoginParts
  <1>2. QED
    BY InitTyped, NextTyped, InitRedeem, NextRedeem, <1>1, PTL DEF TokenSpec, RedeemedInTime

----------------------------------------------------------------------------
(* MovedWithConsent.  Nothing but a new change takes away the sides of an    *)
(* earlier one, other than by taking them or by what counts as swept.        *)
KeepsSides ==
    /\ swept \subseteq swept'
    /\ \A m \in Calls, part \in ChangeParts : Held(m, part) => m \in swept' \/ Held(m, part)'

LEMMA SidesKept ==
    ASSUME TokensInv, swept \subseteq swept', taken \subseteq taken',
           \A row \in ChangeRows : row \in rows' \/ TokenOf(row) \in taken' \/ row.mint \in swept'
    PROVE  KeepsSides
  <1> SUFFICES ASSUME NEW m \in Calls, NEW part \in ChangeParts, Held(m, part), m \notin swept'
               PROVE  Held(m, part)'
    BY DEF KeepsSides
  <1>1. CASE <<m, part>> \in taken
    BY <1>1 DEF Held
  <1>2. CASE \E row \in rows : TokenOf(row) = <<m, part>>
    <2>1. PICK row \in rows : TokenOf(row) = <<m, part>>
      BY <1>2
    <2>2. row.mint = m /\ row.part = part
      BY <2>1 DEF TokenOf
    <2>3. row \in rows' \/ TokenOf(row) \in taken'
      BY <2>2 DEF ChangeRows
    <2>4. QED
      BY <2>1, <2>3 DEF Held, TokenOf
  <1>3. QED
    BY <1>1, <1>2 DEF Held

LEMMA ChangeRowFresh ==
    ASSUME TokensInv, NEW row \in ChangeRows
    PROVE  row \in rows /\ row.part \notin LoginParts /\ row.attempts < MaxAttempts
  <1>1. row \in rows /\ row.part \in ChangeParts
    BY DEF ChangeRows
  <1>2. row.attempts = 0
    BY <1>1 DEF TokensInv, RowsMinted, RowMinted
  <1>3. row.part \notin LoginParts
    BY <1>1, PartsDiffer
  <1>4. 0 < MaxAttempts
    BY AttemptsAssumption
  <1>5. QED
    BY <1>1, <1>2, <1>3, <1>4

LEMMA LoginKeeps ==
    ASSUME TokensInv, NEW r \in Calls, Login(r)
    PROVE  KeepsSides /\ ChangeRows' \subseteq ChangeRows
  <1>1. swept \subseteq swept' /\ taken \subseteq taken'
    BY DEF Login, LookupUser, Clear, Insert, Mail, Redeem, Miss, Count, Burn, Spend, past
  <1>2. \A row \in ChangeRows : row \in rows' \/ TokenOf(row) \in taken' \/ row.mint \in swept'
    <2> SUFFICES ASSUME NEW row \in ChangeRows
                 PROVE  row \in rows' \/ TokenOf(row) \in taken' \/ row.mint \in swept'
      OBVIOUS
    <2>1. row \in rows /\ row.part \notin LoginParts /\ row.attempts < MaxAttempts
      BY ChangeRowFresh
    <2>2. row.attempts \in Nat /\ MaxAttempts \in Nat
      <3>1. row.attempts \in 0 .. MaxAttempts
        BY <2>1, RowFacts DEF TokensInv, TokenTypeOK
      <3>2. QED
        BY <3>1, AttemptsAssumption
    <2>3. CASE Redeem(r)
      BY <2>1, <2>3 DEF Redeem
    <2>4. CASE Spend(r)
      BY <2>1, <2>4 DEF Spend, Mints
    <2>5. CASE Count(r)
      BY <2>1, <2>5 DEF Count, Live
    <2>6. CASE Burn(r)
      BY <2>1, <2>2, <2>6 DEF Burn, UsedUp
    <2>7. CASE Clear(r)
      BY <2>1, <2>7 DEF Clear, Superseded, LoginParts
    <2>8. CASE LookupUser(r) \/ Insert(r) \/ Mail(r) \/ Miss(r)
      BY <2>1, <2>8 DEF LookupUser, Insert, Mail, Miss
    <2>9. QED
      BY <2>3, <2>4, <2>5, <2>6, <2>7, <2>8 DEF Login
  <1>3. ChangeRows' \subseteq ChangeRows
    <2> SUFFICES ASSUME NEW row \in rows', row.part \in ChangeParts PROVE row \in rows
      BY DEF ChangeRows
    <2>1. row.part \notin LoginParts
      BY PartsDiffer
    <2>2. CASE Insert(r)
      BY <2>1, <2>2 DEF Insert, NewRow
    <2>3. CASE Count(r)
      <3>1. \A old \in Live(addr[r]) : Counted(old).part \in LoginParts
        BY DEF Live, Counted, TokensInv, TokenTypeOK, Row
      <3>2. QED
        BY <2>1, <2>3, <3>1 DEF Count
    <2>4. CASE rows' \subseteq rows
      BY <2>4
    <2>5. QED
      BY <2>2, <2>3, <2>4 DEF Login, LookupUser, Clear, Mail, Redeem, Miss, Burn, Spend
  <1>4. QED
    BY <1>1, <1>2, <1>3, SidesKept

(* A login is no change of the address, and a step of it does not begin one. *)
LEMMA LoginApart ==
    ASSUME TokensInv, NEW r \in Calls, Login(r)
    PROVE  /\ pos[r] \in MintSteps \cup RedeemSteps /\ pos'[r] \in MintSteps \cup RedeemSteps \cup Answers
           /\ \A q \in Calls \ {r} : pos'[q] = pos[q]
           /\ UNCHANGED <<ask, email, parked, tangled>>
  <1>1. pos[r] \in MintSteps \cup RedeemSteps
    BY DEF Login, LookupUser, Clear, Insert, Mail, Redeem, Miss, Count, Burn, Spend, MintSteps, RedeemSteps
  <1>2. UNCHANGED <<ask, email, parked, tangled>>
    BY DEF Login, LookupUser, Clear, Insert, Mail, Redeem, Miss, Count, Burn, Spend, past
  <1>3. \E s \in {"clear", "refused", "insert", "mail", "ok", "failed", "spend", "count", "burn"} :
          pos' = [pos EXCEPT ![r] = s]
    BY DEF Login, LookupUser, Clear, Insert, Mail, Redeem, Miss, Count, Burn, Spend, Move, Proceed
  <1>4. PICK s \in {"clear", "refused", "insert", "mail", "ok", "failed", "spend", "count", "burn"} :
          pos' = [pos EXCEPT ![r] = s]
    BY <1>3
  <1>5. pos'[r] = s /\ \A q \in Calls \ {r} : pos'[q] = pos[q]
    BY <1>4 DEF TokensInv, TokenTypeOK
  <1>6. s \in MintSteps \cup RedeemSteps \cup Answers
    BY DEF MintSteps, RedeemSteps, Answers
  <1>7. QED
    BY <1>1, <1>2, <1>5, <1>6

LEMMA KindsApart ==
    ASSUME NEW p \in MintSteps \cup RedeemSteps \cup Answers \cup {"idle"}
    PROVE  p \notin ChangeSteps /\ p \notin ConfirmSteps
  BY DEF MintSteps, RedeemSteps, Answers, ChangeSteps, ConfirmSteps

LEMMA ConfirmsApart ==
    ASSUME NEW p \in ConfirmSteps
    PROVE  p \notin ChangeSteps /\ p # "idle"
  BY DEF ChangeSteps, ConfirmSteps

(* Whoever neither changes the address nor confirms leaves all as it is.     *)
LEMMA ConsentStays ==
    ASSUME TokensInv, Consent, KeepsSides, ChangeRows' \subseteq ChangeRows, UNCHANGED parked,
           \A q \in Calls : \/ pos'[q] = pos[q]
                            \/ /\ pos[q] \notin ChangeSteps \cup ConfirmSteps
                               /\ pos'[q] \notin ChangeSteps \cup ConfirmSteps,
           \A q \in Calls : pos[q] # "idle" => pos'[q] # "idle" /\ ask'[q] = ask[q]
    PROVE  Consent'
  <1>1. Changing' = Changing /\ Confirming' = Confirming
    BY DEF Changing, Confirming, Busy
  <1>2. \A r \in Calls : pos'[r] = "land" => ChangeRows' = {}
    BY DEF Consent, ConfirmSteps
  <1>3. \A m \in Calls : HeldSides(m) => HeldSides(m)'
    BY DEF HeldSides, KeepsSides, ChangeParts
  <1>4. ASSUME NEW m \in Changing PROVE Underway(m)'
    <2>1. m \in Calls /\ pos'[m] = pos[m] /\ pos[m] # "idle" /\ Underway(m)
      BY KindsApart DEF Changing, Busy, Consent
    <2>2. ask'[m] = ask[m]
      BY <2>1
    <2>3. pos[m] = "insertCurrent" => m \in swept' \/ Held(m, "new")'
      BY <2>1 DEF Underway, KeepsSides, ChangeParts
    <2>4. QED
      BY <1>3, <2>1, <2>2, <2>3 DEF Underway
  <1>5. ASSUME Changing = {}, parked # Nil
        PROVE  \E m \in Calls : /\ ask'[m] = [op |-> "change", addr |-> parked] /\ pos'[m] # "idle"
                                /\ HeldSides(m)'
    <2>1. PICK m \in Calls : /\ ask[m] = [op |-> "change", addr |-> parked] /\ pos[m] # "idle"
                             /\ HeldSides(m)
      BY <1>5 DEF Consent
    <2>2. QED
      BY <1>3, <2>1
  <1>6. (\A p, q \in Changing : p = q) /\ (Changing # {} => Confirming = {})
    BY DEF Consent
  <1>7. QED
    BY <1>1, <1>2, <1>4, <1>5, <1>6 DEF Consent

LEMMA ExpireConsent ==
    ASSUME TokensInv, Consent, NEW r \in Calls, Expire(r)
    PROVE  Consent'
  <1>1. KeepsSides /\ ChangeRows' \subseteq ChangeRows
    <2>1. \A row \in ChangeRows : row \in rows' \/ TokenOf(row) \in taken' \/ row.mint \in swept'
      BY DEF Expire, ChangeRows
    <2>2. swept \subseteq swept' /\ taken \subseteq taken' /\ ChangeRows' \subseteq ChangeRows
      BY DEF Expire, ChangeRows
    <2>3. QED
      BY <2>1, <2>2, SidesKept
  <1>2. UNCHANGED <<pos, ask, parked>>
    BY DEF Expire
  <1>3. QED
    BY <1>1, <1>2, ConsentStays

LEMMA LoginConsent ==
    ASSUME TokensInv, Consent, NEW r \in Calls, Login(r)
    PROVE  Consent'
  <1>1. "idle" \notin MintSteps \cup RedeemSteps \cup Answers
    BY DEF MintSteps, RedeemSteps, Answers
  <1>2. \A q \in Calls : \/ pos'[q] = pos[q]
                         \/ /\ pos[q] \notin ChangeSteps \cup ConfirmSteps
                            /\ pos'[q] \notin ChangeSteps \cup ConfirmSteps
    BY LoginApart, KindsApart
  <1>3. \A q \in Calls : pos[q] # "idle" => pos'[q] # "idle" /\ ask'[q] = ask[q]
    BY <1>1, LoginApart
  <1>4. QED
    BY <1>2, <1>3, LoginApart, LoginKeeps, ConsentStays

LEMMA ArriveConsent ==
    ASSUME TokensInv, Consent, NEW r \in Calls, Arrive(r), ~tangled'
    PROVE  Consent'
  <1>1. PICK j \in Ask :
          /\ ask' = [ask EXCEPT ![r] = j]
          /\ Move(r, Entry(j.op), IF j.op = "change" THEN email ELSE Nil)
          /\ tangled' = \/ tangled
                        \/ j.op = "change" /\ Busy(ChangeSteps \cup ConfirmSteps) # {}
                        \/ j.op = "confirm" /\ Busy(ChangeSteps) # {}
    BY DEF Arrive
  <1>2. UNCHANGED <<rows, parked, taken, swept>> /\ pos[r] = "idle"
    BY DEF Arrive
  <1>3. /\ pos'[r] = Entry(j.op) /\ \A q \in Calls \ {r} : pos'[q] = pos[q]
        /\ ask'[r] = j /\ \A q \in Calls \ {r} : ask'[q] = ask[q]
    BY <1>1 DEF Move, TokensInv, TokenTypeOK
  <1>4. /\ KeepsSides /\ ChangeRows' = ChangeRows
        /\ \A m \in Calls : HeldSides(m) => HeldSides(m)'
    BY <1>2 DEF KeepsSides, Held, HeldSides, ChangeRows, TokenOf
  <1>5. j.op \in {"otp", "guess", "change", "verify", "confirm"}
    BY DEF Ask
  <1>6. CASE j.op \in {"otp", "guess", "verify"}
    <2>1. pos'[r] \in {"lookup", "redeem"}
      BY <1>3, <1>6 DEF Entry
    <2>2. pos[r] \notin ChangeSteps \cup ConfirmSteps /\ pos'[r] \notin ChangeSteps \cup ConfirmSteps
      BY <1>2, <2>1 DEF ChangeSteps, ConfirmSteps
    <2>3. QED
      BY <1>2, <1>3, <1>4, <2>2, ConsentStays
  <1>7. CASE j.op = "change"
    <2>1. \A q \in Calls : pos[q] \notin ChangeSteps \cup ConfirmSteps
      BY <1>1, <1>7 DEF Busy
    <2>2. pos'[r] = "clearChange"
      BY <1>3, <1>7 DEF Entry
    <2>3. Changing' = {r}
      BY <1>3, <2>1, <2>2 DEF Changing, Busy, ChangeSteps
    <2>4. Confirming' = {} /\ \A q \in Calls : pos'[q] # "land"
      BY <1>3, <2>1, <2>2 DEF Confirming, Busy, ConfirmSteps
    <2>5. Underway(r)'
      BY <2>2 DEF Underway
    <2>6. QED
      BY <2>3, <2>4, <2>5 DEF Consent
  <1>8. CASE j.op = "confirm"
    <2>1. Changing = {}
      BY <1>1, <1>8 DEF Changing
    <2>2. pos'[r] = "take"
      BY <1>3, <1>8 DEF Entry
    <2>3. Changing' = {}
      BY <1>3, <2>1, <2>2 DEF Changing, Busy, ChangeSteps
    <2>4. \A q \in Calls : pos'[q] = "land" => ChangeRows' = {}
      BY <1>3, <1>4, <2>2 DEF Consent
    <2>5. ASSUME parked # Nil
          PROVE  \E m \in Calls : /\ ask'[m] = [op |-> "change", addr |-> parked] /\ pos'[m] # "idle"
                                  /\ HeldSides(m)'
      <3>1. PICK m \in Calls : /\ ask[m] = [op |-> "change", addr |-> parked] /\ pos[m] # "idle"
                               /\ HeldSides(m)
        BY <2>1, <2>5 DEF Consent
      <3>2. m # r
        BY <1>2, <3>1
      <3>3. QED
        BY <1>3, <1>4, <3>1, <3>2
    <2>6. QED
      BY <1>2, <2>3, <2>4, <2>5 DEF Consent
  <1>9. QED
    BY <1>5, <1>6, <1>7, <1>8

(* While a change is under way it is alone.                                  *)
LEMMA StepMoves ==
    ASSUME TokensInv, NEW r \in Calls, NEW s \in TokenSteps \cup Answers, Proceed(r, s)
    PROVE  pos'[r] = s /\ \A q \in Calls \ {r} : pos'[q] = pos[q]
  BY DEF TokensInv, TokenTypeOK, Proceed, Move

LEMMA ChangeConsent ==
    ASSUME TokensInv, Consent, NEW r \in Calls,
           ClearChange(r) \/ InsertNew(r) \/ InsertCurrent(r) \/ Park(r) \/ MailChange(r)
    PROVE  Consent'
  <1>1. pos[r] \in ChangeSteps /\ UNCHANGED <<ask, taken, swept>>
    BY DEF ClearChange, InsertNew, InsertCurrent, Park, MailChange, ChangeSteps, past
  <1>2. Changing = {r} /\ Confirming = {} /\ Underway(r)
    BY <1>1 DEF Consent, Changing, Busy
  <1>3. ask[r] = [op |-> "change", addr |-> ask[r].addr]
    BY <1>1 DEF TokensInv, AsksFit, AskFits, ChangeAsk
  <1>4. \E s \in {"insertNew", "insertCurrent", "park", "mailChange", "ok", "failed"} : Proceed(r, s)
    BY DEF ClearChange, InsertNew, InsertCurrent, Park, MailChange
  <1>5. /\ \A q \in Calls \ {r} : pos'[q] = pos[q]
        /\ pos'[r] \in (ChangeSteps \ {"clearChange"}) \cup Answers
        /\ \A s \in TokenSteps \cup Answers : Proceed(r, s) => pos'[r] = s
    <2>1. PICK s \in {"insertNew", "insertCurrent", "park", "mailChange", "ok", "failed"} : Proceed(r, s)
      BY <1>4
    <2>2. s \in TokenSteps \cup Answers /\ s \in (ChangeSteps \ {"clearChange"}) \cup Answers
      BY DEF TokenSteps, ChangeSteps, Answers
    <2>3. QED
      BY <2>1, <2>2, StepMoves
  <1>6. /\ Changing' = IF pos'[r] \in ChangeSteps THEN {r} ELSE {}
        /\ Confirming' = {} /\ \A q \in Calls : pos'[q] # "land"
    <2>1. \A q \in Calls \ {r} : pos[q] \notin ChangeSteps \cup ConfirmSteps
      BY <1>2 DEF Changing, Confirming, Busy
    <2>2. pos'[r] \notin ConfirmSteps
      BY <1>5 DEF ChangeSteps, ConfirmSteps, Answers
    <2>3. QED
      BY <1>5, <2>1, <2>2 DEF Changing, Confirming, Busy, ConfirmSteps
  <1>7. {"insertNew", "insertCurrent", "park", "mailChange", "ok", "failed"} \subseteq TokenSteps \cup Answers
    BY DEF TokenSteps, ChangeSteps, Answers
  <1>8. rows \subseteq rows' => \A part \in ChangeParts : Held(r, part) => Held(r, part)'
    BY <1>1 DEF Held, TokenOf
  <1>9. rows \subseteq rows' /\ HeldSides(r) => HeldSides(r)'
    BY <1>1, <1>8 DEF HeldSides, ChangeParts
  <1>10. pos'[r] \in ChangeSteps => Underway(r)'
    <2>1. CASE ClearChange(r)
      <3>1. pos'[r] = "insertNew"
        BY <1>5, <1>7, <2>1 DEF ClearChange
      <3>2. QED
        BY <3>1 DEF Underway
    <2>2. CASE InsertNew(r)
      <3>1. pos'[r] = IF Secure THEN "insertCurrent" ELSE "park"
        BY <1>5, <1>7, <2>2 DEF InsertNew
      <3>2. Held(r, "new")'
        <4>1. NewRow(r, "new", ask[r].addr) \in rows'
          BY <2>2 DEF InsertNew
        <4>2. TokenOf(NewRow(r, "new", ask[r].addr)) = <<r, "new">>
          BY DEF TokenOf, NewRow
        <4>3. QED
          BY <4>1, <4>2 DEF Held, TokenOf
      <3>3. QED
        BY <3>1, <3>2 DEF Underway, HeldSides
    <2>3. CASE InsertCurrent(r)
      <3>1. pos'[r] = "park" /\ pos[r] = "insertCurrent"
        BY <1>5, <1>7, <2>3 DEF InsertCurrent
      <3>2. Held(r, "current")'
        <4>1. NewRow(r, "current", addr[r]) \in rows'
          BY <2>3 DEF InsertCurrent
        <4>2. TokenOf(NewRow(r, "current", addr[r])) = <<r, "current">>
          BY DEF TokenOf, NewRow
        <4>3. QED
          BY <4>1, <4>2 DEF Held, TokenOf
      <3>3. rows \subseteq rows'
        BY <2>3 DEF InsertCurrent
      <3>4. r \in swept' \/ Held(r, "new")'
        BY <1>1, <1>2, <1>8, <3>1, <3>3 DEF Underway, ChangeParts
      <3>5. QED
        BY <3>1, <3>2, <3>4 DEF Underway, HeldSides
    <2>4. CASE Park(r)
      <3>1. pos'[r] = "mailChange" /\ pos[r] = "park" /\ rows' = rows /\ parked' = ask[r].addr
        BY <1>5, <1>7, <2>4 DEF Park
      <3>2. HeldSides(r)'
        BY <1>2, <1>9, <3>1 DEF Underway
      <3>3. QED
        BY <1>1, <3>1, <3>2 DEF Underway
    <2>5. CASE MailChange(r)
      <3>1. pos'[r] \in {"ok", "failed"}
        BY <1>5, <1>7, <2>5 DEF MailChange
      <3>2. QED
        BY <3>1 DEF ChangeSteps
    <2>6. QED
      BY <2>1, <2>2, <2>3, <2>4, <2>5
  <1>11. ASSUME pos'[r] \notin ChangeSteps
         PROVE  /\ ask'[r] = [op |-> "change", addr |-> parked'] /\ pos'[r] # "idle"
                /\ HeldSides(r)'
    <2>1. MailChange(r)
      BY <1>5, <1>7, <1>11 DEF ClearChange, InsertNew, InsertCurrent, Park, ChangeSteps
    <2>2. pos[r] = "mailChange" /\ UNCHANGED <<rows, parked>>
      BY <2>1 DEF MailChange
    <2>3. parked' = ask[r].addr /\ HeldSides(r)'
      BY <1>2, <1>9, <2>2 DEF Underway
    <2>4. pos'[r] # "idle"
      BY <1>5 DEF ChangeSteps, Answers
    <2>5. QED
      BY <1>1, <1>3, <2>3, <2>4
  <1>12. CASE pos'[r] \in ChangeSteps
    BY <1>6, <1>10, <1>12 DEF Consent
  <1>13. CASE pos'[r] \notin ChangeSteps
    BY <1>6, <1>11, <1>13 DEF Consent
  <1>14. QED
    BY <1>12, <1>13

LEMMA ConfirmConsent ==
    ASSUME TokensInv, Consent, NEW r \in Calls, Take(r) \/ CheckOutstanding(r) \/ Land(r)
    PROVE  Consent'
  <1>1. pos[r] \in ConfirmSteps /\ UNCHANGED <<ask, swept>> /\ rows' \subseteq rows /\ taken \subseteq taken'
    BY DEF Take, CheckOutstanding, Land, ConfirmSteps, past
  <1>2. Changing = {}
    BY <1>1 DEF Consent, Changing, Confirming, Busy
  <1>3. PICK s \in {"refused", "outstanding", "land", "ok"} :
           Proceed(r, s) /\ (s = "land" => CheckOutstanding(r) /\ ChangeRows = {})
    BY DEF Take, CheckOutstanding, Land, Outstanding
  <1>4. s \in TokenSteps \cup Answers
    BY DEF TokenSteps, ConfirmSteps, Answers
  <1>5. pos'[r] = s /\ \A q \in Calls \ {r} : pos'[q] = pos[q]
    BY <1>3, <1>4, StepMoves
  <1>6. Changing' = {}
    BY <1>2, <1>5 DEF Changing, Busy, ChangeSteps
  <1>7. ChangeRows' \subseteq ChangeRows
    BY <1>1 DEF ChangeRows
  <1>8. \A q \in Calls : pos'[q] = "land" => ChangeRows' = {}
    BY <1>3, <1>5, <1>7 DEF Consent
  <1>9. KeepsSides
    <2>1. \A row \in ChangeRows : row \in rows' \/ TokenOf(row) \in taken' \/ row.mint \in swept'
      BY DEF Take, CheckOutstanding, Land, ChangeRows
    <2>2. QED
      BY <1>1, <2>1, SidesKept
  <1>10. ASSUME parked' # Nil
         PROVE  \E m \in Calls : /\ ask'[m] = [op |-> "change", addr |-> parked'] /\ pos'[m] # "idle"
                                 /\ HeldSides(m)'
    <2>1. parked' = parked
      BY <1>10 DEF Take, CheckOutstanding, Land
    <2>2. PICK m \in Calls : ask[m] = [op |-> "change", addr |-> parked] /\ pos[m] # "idle" /\ HeldSides(m)
      BY <1>2, <1>10, <2>1 DEF Consent
    <2>3. HeldSides(m)'
      BY <1>9, <2>2 DEF HeldSides, KeepsSides, ChangeParts
    <2>4. pos'[m] # "idle"
      BY <1>5, <2>2
    <2>5. QED
      BY <1>1, <2>1, <2>2, <2>3, <2>4
  <1>11. QED
    BY <1>6, <1>8, <1>10 DEF Consent

LEMMA NextConsent == TokensInv /\ ConsentInv /\ [TokenNext]_tokenVars => ConsentInv'
  <1> SUFFICES ASSUME TokensInv, ConsentInv, [TokenNext]_tokenVars, ~tangled' PROVE Consent'
    BY DEF ConsentInv
  <1>1. CASE UNCHANGED tokenVars
    <2>1. UNCHANGED <<rows, parked, pos, ask, taken, swept, tangled>>
      BY <1>1 DEF tokenVars, past
    <2>2. Consent
      BY <2>1 DEF ConsentInv
    <2>3. KeepsSides
      BY <2>1, SidesKept DEF ChangeRows
    <2>4. ChangeRows' = ChangeRows
      BY <2>1 DEF ChangeRows
    <2>5. QED
      BY <2>1, <2>2, <2>3, <2>4, ConsentStays
  <1>2. ASSUME NEW r \in Calls, Arrive(r) \/ Login(r) \/ ChangeAddress(r) \/ Expire(r)
        PROVE  Consent'
    <2>1. tangled => tangled'
      BY <1>2, LoginApart
         DEF Arrive, ChangeAddress, Expire, ClearChange, InsertNew, InsertCurrent, Park, MailChange, Take,
             CheckOutstanding, Land, past
    <2>2. Consent
      BY <2>1 DEF ConsentInv
    <2>3. QED
      BY <1>2, <2>2, ArriveConsent, LoginConsent, ChangeConsent, ConfirmConsent, ExpireConsent
         DEF ChangeAddress
  <1>3. QED
    BY <1>1, <1>2 DEF TokenNext

LEMMA InitConsent == TokenInit => ConsentInv
  <1> SUFFICES ASSUME TokenInit PROVE Consent
    BY DEF ConsentInv
  <1>1. \A r \in Calls : pos[r] = "idle" /\ parked = Nil
    BY DEF TokenInit
  <1>2. Changing = {} /\ Confirming = {} /\ \A r \in Calls : pos[r] # "land"
    BY <1>1, KindsApart DEF Changing, Confirming, Busy
  <1>3. parked = Nil
    BY DEF TokenInit
  <1>4. QED
    BY <1>2, <1>3 DEF Consent

LEMMA MovedInConsent ==
    ASSUME TokensInv, ConsentInv, NEW r \in Calls,
           Arrive(r) \/ Login(r) \/ ChangeAddress(r) \/ Expire(r), email' # email, ~tangled
    PROVE  \E m \in Calls :
             /\ ask[m] \in [op : {"change"}, addr : {email'}]
             /\ m \notin swept => /\ <<m, "new">> \in taken
                                  /\ Secure => <<m, "current">> \in taken
  <1>1. Land(r)
    BY LoginApart
       DEF Arrive, ChangeAddress, Expire, ClearChange, InsertNew, InsertCurrent, Park, MailChange, Take,
           CheckOutstanding
  <1>2. pos[r] = "land" /\ parked # Nil /\ email' = parked
    BY <1>1 DEF Land
  <1>3. ChangeRows = {} /\ Changing = {}
    BY <1>2 DEF ConsentInv, Consent, Confirming, Busy, ConfirmSteps
  <1>4. PICK m \in Calls : ask[m] = [op |-> "change", addr |-> parked] /\ HeldSides(m)
    BY <1>2, <1>3 DEF ConsentInv, Consent
  <1>5. \A part \in ChangeParts : Held(m, part) => <<m, part>> \in taken
    BY <1>3 DEF Held, TokenOf, ChangeRows
  <1>6. m \notin swept => /\ <<m, "new">> \in taken
                          /\ Secure => <<m, "current">> \in taken
    BY <1>4, <1>5 DEF HeldSides, ChangeParts
  <1>7. ask[m] \in [op : {"change"}, addr : {email'}]
    BY <1>2, <1>4
  <1>8. QED
    BY <1>6, <1>7

(* The address of an account moves only to one that was asked for and whose  *)
(* holder confirmed that very change, and with a secure change the holder of *)
(* the current address as well: for any number of changes one after the      *)
(* other, confirmations in any order and at a time, and logins beside them.  *)
THEOREM AddressMovesWithConsent == TokenSpec => MovedWithConsent
  <1>1. TokensInv /\ ConsentInv /\ [TokenNext]_tokenVars
          => [email' # email /\ ~tangled =>
                \E m \in Calls :
                  /\ ask[m] \in [op : {"change"}, addr : {email'}]
                  /\ m \notin swept => /\ <<m, "new">> \in taken
                                       /\ Secure => <<m, "current">> \in taken]_tokenVars
    BY MovedInConsent DEF TokenNext
  <1>2. QED
    BY InitTyped, NextTyped, InitConsent, NextConsent, <1>1, PTL DEF TokenSpec, MovedWithConsent

----------------------------------------------------------------------------
(* RedeemedOnce.  A taken token has no row any more and gets none: it was     *)
(* mailed, so the request that minted it is past its inserts.                *)
Won == {"spend", "outstanding", "land", "ok"}
Presents == [op : {"verify", "confirm"}, token : Token]
Unspent == \A row \in rows : TokenOf(row) \notin taken
Mailed == \A t \in known : pos[t[1]] \in Answers
Winners == \A r \in Calls : ask[r] \in Presents /\ pos[r] \in Won => ask[r].token \in taken
OneWinner == \A p, q \in Calls :
    /\ ask[p] \in Presents /\ pos[p] \in Won
    /\ ask[q] \in Presents /\ pos[q] \in Won
    /\ ask[p].token = ask[q].token
    => p = q
OnceInv == Unspent /\ Mailed /\ Winners /\ OneWinner

(* A step that takes no token.                                               *)
LEMMA QuietOnce ==
    ASSUME TokensInv, OnceInv, NEW r \in Calls, taken' = taken, pos[r] \notin Answers,
           \A q \in Calls \ {r} : pos'[q] = pos[q] /\ ask'[q] = ask[q],
           \A row \in rows' : row.mint = r \/ \E old \in rows : TokenOf(old) = TokenOf(row),
           \A t \in known' : t \in known \/ (t[1] = r /\ pos'[r] \in Answers),
           pos'[r] \in Won /\ ask'[r] \in Presents => pos[r] \in Won /\ ask'[r] = ask[r]
    PROVE  OnceInv'
  <1>1. taken \subseteq known /\ known \subseteq Token
    BY DEF TokensInv, TokenTypeOK
  <1>2. \A t \in known : t[1] \in Calls /\ t[1] # r
    BY <1>1 DEF Token, OnceInv, Mailed
  <1>3. Unspent'
    <2> SUFFICES ASSUME NEW row \in rows', TokenOf(row) \in taken PROVE FALSE
      BY DEF Unspent, TokenOf
    <2>1. row.mint # r
      BY <1>1, <1>2 DEF TokenOf
    <2>2. QED
      BY <2>1 DEF OnceInv, Unspent
  <1>4. Mailed'
    BY <1>2 DEF OnceInv, Mailed
  <1>5. \A q \in Calls : ask'[q] \in Presents /\ pos'[q] \in Won =>
          ask[q] \in Presents /\ pos[q] \in Won /\ ask'[q] = ask[q]
    OBVIOUS
  <1>6. Winners' /\ OneWinner'
    BY <1>5 DEF OnceInv, Winners, OneWinner, Won, Presents, Token
  <1>7. QED
    BY <1>3, <1>4, <1>6 DEF OnceInv

(* A step that takes a token whose row was there.                            *)
LEMMA TakingOnce ==
    ASSUME TokensInv, OnceInv, NEW r \in Calls, NEW row \in rows, ask[r] \in Presents,
           TokenOf(row) = ask[r].token, rows' = rows \ {row}, taken' = taken \cup {TokenOf(row)},
           pos[r] \notin Answers, \A q \in Calls \ {r} : pos'[q] = pos[q], UNCHANGED <<ask, known>>
    PROVE  OnceInv'
  <1>1. ask[r].token \notin taken
    BY DEF OnceInv, Unspent
  <1>2. \A t \in known : t[1] \in Calls /\ t[1] # r
    BY DEF TokensInv, TokenTypeOK, Token, OnceInv, Mailed
  <1>3. \A old \in rows' : TokenOf(old) # TokenOf(row)
    BY DEF TokensInv, TokenTypeOK
  <1>4. Unspent'
    BY <1>3 DEF OnceInv, Unspent, TokenOf
  <1>5. Mailed'
    BY <1>2 DEF OnceInv, Mailed
  <1>6. \A q \in Calls \ {r} : ask[q] \in Presents /\ pos[q] \in Won => ask[q].token # ask[r].token
    BY <1>1 DEF OnceInv, Winners
  <1>7. Winners' /\ OneWinner'
    BY <1>6 DEF OnceInv, Winners, OneWinner, Won, Presents, Token
  <1>8. QED
    BY <1>4, <1>5, <1>7 DEF OnceInv

(* Who asks for what at a step that can end as one that presented a token.   *)
LEMMA AsksApart ==
    ASSUME TokensInv, NEW r \in Calls, pos[r] \in MintSteps \cup ChangeSteps
    PROVE  ask[r] \notin Presents
  BY DEF TokensInv, AsksFit, AskFits, OtpAsk, ChangeAsk, Presents

LEMMA LoginOnce ==
    ASSUME TokensInv, OnceInv, NEW r \in Calls, Login(r), ~Redeem(r)
    PROVE  OnceInv'
  <1>1. /\ pos[r] \in MintSteps \cup RedeemSteps
        /\ \A q \in Calls \ {r} : pos'[q] = pos[q]
        /\ UNCHANGED <<ask, taken>>
    BY LoginApart DEF Login, LookupUser, Clear, Insert, Mail, Miss, Count, Burn, Spend, past
  <1>2. pos[r] \notin Answers
    BY <1>1 DEF MintSteps, RedeemSteps, Answers
  <1>3. \A row \in rows' : row.mint = r \/ \E old \in rows : TokenOf(old) = TokenOf(row)
    <2>1. CASE Count(r)
      <3>1. \A row \in rows : row \in Row
        BY DEF TokensInv, TokenTypeOK
      <3>2. \A row \in rows : TokenOf(Counted(row)) = TokenOf(row)
        BY <3>1 DEF Counted, TokenOf, Row
      <3>3. \A row \in rows' : row \in rows \/ \E old \in rows : row = Counted(old)
        BY <2>1 DEF Count, Live
      <3>4. QED
        BY <3>2, <3>3
    <2>2. CASE ~Count(r)
      BY <2>2 DEF Login, LookupUser, Clear, Insert, NewRow, Mail, Miss, Burn, Spend
    <2>3. QED
      BY <2>1, <2>2
  <1>4. \A t \in known' : t \in known \/ (t[1] = r /\ pos'[r] \in Answers)
    <2>1. CASE Mail(r)
      <3>1. known' = known \/ (known' = known \cup {<<r, part>> : part \in LoginParts} /\ Proceed(r, "ok"))
        BY <2>1 DEF Mail
      <3>2. Proceed(r, "ok") => pos'[r] = "ok"
        BY StepMoves DEF Answers
      <3>3. QED
        BY <3>1, <3>2 DEF Answers
    <2>2. CASE ~Mail(r)
      BY <2>2 DEF Login, LookupUser, Clear, Insert, Miss, Count, Burn, Spend
    <2>3. QED
      BY <2>1, <2>2
  <1>5. pos'[r] \in Won /\ ask[r] \in Presents => pos[r] \in Won
    <2>1. pos[r] \in MintSteps => ask[r] \notin Presents
      BY AsksApart
    <2>2. Spend(r) => pos[r] \in Won
      BY DEF Spend, Won
    <2>3. Miss(r) \/ Count(r) \/ Burn(r) => pos'[r] \notin Won
      BY MissMoves, CountMoves, BurnMoves DEF Won
    <2>4. LookupUser(r) \/ Clear(r) \/ Insert(r) \/ Mail(r) => pos[r] \in MintSteps
      BY DEF LookupUser, Clear, Insert, Mail, MintSteps
    <2>5. QED
      BY <2>1, <2>2, <2>3, <2>4 DEF Login
  <1>6. QED
    BY <1>1, <1>2, <1>3, <1>4, <1>5, QuietOnce

LEMMA RedeemOnce ==
    ASSUME TokensInv, OnceInv, NEW r \in Calls, Redeem(r)
    PROVE  OnceInv'
  <1>1. PICK row \in Matching(r) : rows' = rows \ {row} /\ taken' = taken \cup {TokenOf(row)}
    BY DEF Redeem
  <1>2. row \in rows /\ TokenOf(row) = ask[r].token /\ ask[r].op = "verify"
    BY <1>1 DEF Matching
  <1>3. ask[r] \in Presents
    BY <1>2 DEF Redeem, TokensInv, AsksFit, AskFits, RedeemSteps, GuessAsk, VerifyAsk, Presents, TokenTypeOK
  <1>4. pos[r] \notin Answers /\ (\A q \in Calls \ {r} : pos'[q] = pos[q]) /\ UNCHANGED <<ask, known>>
    BY LoginApart DEF Redeem, Login, Answers
  <1>5. QED
    BY <1>1, <1>2, <1>3, <1>4, TakingOnce

LEMMA ChangeOnce ==
    ASSUME TokensInv, OnceInv, NEW r \in Calls,
           ClearChange(r) \/ InsertNew(r) \/ InsertCurrent(r) \/ Park(r) \/ MailChange(r)
    PROVE  OnceInv'
  <1>1. pos[r] \in ChangeSteps /\ UNCHANGED <<ask, taken>>
    BY DEF ClearChange, InsertNew, InsertCurrent, Park, MailChange, ChangeSteps, past
  <1>2. PICK s \in {"insertNew", "insertCurrent", "park", "mailChange", "ok", "failed"} :
          Proceed(r, s) /\ (known' # known => s \in Answers)
    BY DEF ClearChange, InsertNew, InsertCurrent, Park, MailChange, Answers
  <1>3. s \in TokenSteps \cup Answers
    BY <1>2 DEF TokenSteps, ChangeSteps, Answers
  <1>4. pos'[r] = s /\ \A q \in Calls \ {r} : pos'[q] = pos[q]
    BY <1>2, <1>3, StepMoves
  <1>5. pos[r] \notin Answers /\ ask[r] \notin Presents
    BY <1>1, AsksApart DEF ChangeSteps, Answers
  <1>6. \A row \in rows' : row.mint = r \/ \E old \in rows : TokenOf(old) = TokenOf(row)
    BY DEF ClearChange, InsertNew, InsertCurrent, NewRow, Park, MailChange
  <1>7. \A t \in known' : t \in known \/ (t[1] = r /\ pos'[r] \in Answers)
    <2>1. \A t \in known' : t \in known \/ t[1] = r
      BY DEF ClearChange, InsertNew, InsertCurrent, Park, MailChange
    <2>2. QED
      BY <1>2, <1>4, <2>1
  <1>8. QED
    BY <1>1, <1>4, <1>5, <1>6, <1>7, QuietOnce

LEMMA ConfirmOnce ==
    ASSUME TokensInv, OnceInv, NEW r \in Calls, Take(r) \/ CheckOutstanding(r) \/ Land(r)
    PROVE  OnceInv'
  <1>1. pos[r] \in ConfirmSteps /\ UNCHANGED <<ask, known>>
    BY DEF Take, CheckOutstanding, Land, ConfirmSteps, past
  <1>2. pos[r] \notin Answers /\ ask[r] \in Presents
    BY <1>1 DEF TokensInv, AsksFit, AskFits, ConfirmSteps, ConfirmAsk, Presents, Answers, TokenTypeOK
  <1>3. PICK s \in {"refused", "outstanding", "ok", "land"} :
          /\ Proceed(r, s)
          /\ Take(r) => s = IF {row \in rows : TokenOf(row) = ask[r].token} = {} THEN "refused" ELSE "outstanding"
    BY DEF Take, CheckOutstanding, Land
  <1>4. s \in TokenSteps \cup Answers
    BY <1>3 DEF TokenSteps, ConfirmSteps, Answers
  <1>5. pos'[r] = s /\ \A q \in Calls \ {r} : pos'[q] = pos[q]
    BY <1>3, <1>4, StepMoves
  <1>6. CASE CheckOutstanding(r) \/ Land(r)
    <2>1. pos[r] \in Won /\ UNCHANGED <<rows, taken>>
      BY <1>6 DEF CheckOutstanding, Land, Won, past
    <2>2. QED
      BY <1>1, <1>2, <1>5, <2>1, QuietOnce
  <1>7. CASE Take(r) /\ \E row \in rows : TokenOf(row) = ask[r].token
    <2>1. PICK row \in rows : TokenOf(row) = ask[r].token
      BY <1>7
    <2>2. {x \in rows : TokenOf(x) = ask[r].token} = {row}
      BY <2>1 DEF TokensInv, TokenTypeOK
    <2>3. rows' = rows \ {row} /\ taken' = taken \cup {TokenOf(row)}
      BY <1>7, <2>1, <2>2 DEF Take
    <2>4. QED
      BY <1>1, <1>2, <1>5, <2>1, <2>3, TakingOnce
  <1>8. CASE Take(r) /\ ~\E row \in rows : TokenOf(row) = ask[r].token
    <2>1. {x \in rows : TokenOf(x) = ask[r].token} = {}
      BY <1>8
    <2>2. rows' = rows /\ taken' = taken /\ pos'[r] = "refused"
      BY <1>3, <1>5, <1>8, <2>1 DEF Take
    <2>3. pos'[r] \notin Won
      BY <2>2 DEF Won
    <2>4. QED
      BY <1>1, <1>2, <1>5, <2>2, <2>3, QuietOnce
  <1>9. QED
    BY <1>6, <1>7, <1>8

LEMMA NextOnce == TokensInv /\ OnceInv /\ [TokenNext]_tokenVars => OnceInv'
  <1> SUFFICES ASSUME TokensInv, OnceInv, [TokenNext]_tokenVars PROVE OnceInv'
    OBVIOUS
  <1>1. CASE UNCHANGED tokenVars
    BY <1>1 DEF tokenVars, past, OnceInv, Unspent, Mailed, Winners, OneWinner, TokenOf, Token, Presents
  <1>2. ASSUME NEW r \in Calls, Arrive(r) PROVE OnceInv'
    <2>1. /\ pos[r] = "idle" /\ pos'[r] \in {"lookup", "clearChange", "redeem", "take"}
          /\ \A q \in Calls \ {r} : pos'[q] = pos[q] /\ ask'[q] = ask[q]
          /\ UNCHANGED <<rows, taken, known>>
      BY <1>2, ArriveMoves DEF Arrive
    <2>2. pos[r] \notin Answers /\ pos'[r] \notin Won
      BY <2>1 DEF Answers, Won
    <2>3. QED
      BY <2>1, <2>2, QuietOnce
  <1>3. ASSUME NEW r \in Calls, Login(r) PROVE OnceInv'
    BY <1>3, LoginOnce, RedeemOnce
  <1>4. ASSUME NEW r \in Calls, ChangeAddress(r) PROVE OnceInv'
    BY <1>4, ChangeOnce, ConfirmOnce DEF ChangeAddress
  <1>5. ASSUME NEW r \in Calls, Expire(r) PROVE OnceInv'
    <2>1. rows' \subseteq rows /\ UNCHANGED <<pos, ask, known, taken>>
      BY <1>5 DEF Expire
    <2>2. QED
      BY <2>1 DEF OnceInv, Unspent, Mailed, Winners, OneWinner, TokenOf, Token, Presents
  <1>6. QED
    BY <1>1, <1>2, <1>3, <1>4, <1>5 DEF TokenNext

(* At most one request gets a sign-in or one side of a change for a token,    *)
(* however many present it at once and whatever guesses, requests for other  *)
(* tokens and expiries meet their queries.                                   *)
THEOREM TokensRedeemedOnce == TokenSpec => []RedeemedOnce
  <1>1. TokenInit => OnceInv
    BY DEF TokenInit, OnceInv, Unspent, Mailed, Winners, OneWinner, Won
  <1>2. TokensInv /\ OnceInv => RedeemedOnce
    <2> SUFFICES ASSUME TokensInv, OnceInv, NEW t \in known, NEW p \in Redeemers(t), NEW q \in Redeemers(t)
                 PROVE  p = q
      BY DEF RedeemedOnce
    <2>1. t \in Token
      BY DEF TokensInv, TokenTypeOK
    <2>2. \A r \in Redeemers(t) : r \in Calls /\ ask[r] \in Presents /\ ask[r].token = t /\ pos[r] \in Won
      BY <2>1 DEF Redeemers, Presents, Won
    <2>3. QED
      BY <2>2 DEF OnceInv, OneWinner
  <1>3. QED
    BY InitTyped, NextTyped, NextOnce, <1>1, <1>2, PTL DEF TokenSpec

=============================================================================
