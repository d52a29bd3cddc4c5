---------------------------- MODULE OneTimeTokens ----------------------------
(***************************************************************************)
(* The one-time tokens of one account: the code and the link of a login mail, *)
(* and the two sides of a change of its address.  All live in one table, and  *)
(* every handler works on it with queries of its own that no transaction      *)
(* joins.  A token is named by the request that minted it and by its part;    *)
(* nobody presents one that was not mailed, but codes can be guessed.         *)
(* Names differ from those of AuthSessions, so that proofs can extend both.   *)
(***************************************************************************)
EXTENDS Integers, FiniteSets

CONSTANTS
    Calls,          \* requests; each is issued at most once
    Addrs,          \* addresses
    First,          \* the address of the account at first
    MaxAttempts,    \* MAX_OTP_ATTEMPTS
    Secure,         \* must the current address confirm a change as well
    Nil             \* no request, no address

(* A behaviour reaches each of its states with finitely many requests.       *)
ASSUME CallsAssumption == IsFiniteSet(Calls)
ASSUME FirstAssumption == First \in Addrs
ASSUME AttemptsAssumption == MaxAttempts \in Nat \ {0}
ASSUME SecureAssumption == Secure \in BOOLEAN

VARIABLES
    rows,           \* auth.one_time_tokens
    email,          \* auth.users.email
    parked,         \* auth.users.email_change, Nil when empty
    pos, ask,       \* the next step of each request, and what it asks for
    addr,           \* the address each handler has read or deleted with a token
    known,          \* the tokens that were mailed
    against,        \* history: the mints whose live tokens a failed attempt was tried on
    wrongs,         \* history: refused attempts per mint
    taken,          \* history: the tokens that were redeemed
    settled,        \* history: the requests for a code each such request came after
    swept,          \* history: changes of which a token expired or was spent by a sign-in
    tangled         \* history: a change was requested beside another, or a confirmation

past == <<against, wrongs, taken, settled, swept, tangled>>
tokenVars == <<rows, email, parked, pos, ask, addr, known, past>>

LoginParts == {"code", "link"}
ChangeParts == {"new", "current"}
Token == Calls \X (LoginParts \cup ChangeParts)
Row == [mint : Calls, part : LoginParts \cup ChangeParts, addr : Addrs, attempts : 0 .. MaxAttempts]
Ask == [op : {"otp", "guess"}, addr : Addrs] \cup [op : {"change"}, addr : Addrs]
         \cup [op : {"verify", "confirm"}, token : Token]
MintSteps == {"lookup", "clear", "insert", "mail"}
ChangeSteps == {"clearChange", "insertNew", "insertCurrent", "park", "mailChange"}
RedeemSteps == {"redeem", "spend", "count", "burn"}
ConfirmSteps == {"take", "outstanding", "land"}
TokenSteps == MintSteps \cup ChangeSteps \cup RedeemSteps \cup ConfirmSteps
Answers == {"ok", "refused", "failed"}

TokenOf(row) == <<row.mint, row.part>>
Mints(someRows) == {row.mint : row \in someRows}
ChangeRows == {row \in rows : row.part \in ChangeParts}

TokenTypeOK ==
    /\ rows \in SUBSET Row
    /\ \A a, b \in rows : TokenOf(a) = TokenOf(b) => a = b
    /\ \A row \in rows : row.attempts = MaxAttempts =>
          \E r \in Calls : pos[r] = "burn" /\ addr[r] = row.addr
    /\ email \in Addrs
    /\ parked \in Addrs \cup {Nil}
    /\ pos \in [Calls -> {"idle"} \cup TokenSteps \cup Answers]
    /\ ask \in [Calls -> Ask \cup {Nil}]
    /\ addr \in [Calls -> Addrs \cup {Nil}]
    /\ known \in SUBSET Token
    /\ against \in [Calls -> SUBSET Calls]
    /\ wrongs \in [Calls -> 0 .. Cardinality(Calls)]
    /\ taken \in SUBSET known
    /\ settled \in [Calls -> SUBSET Calls]
    /\ swept \in SUBSET Calls
    /\ tangled \in BOOLEAN

TokenInit ==
    /\ rows = {}
    /\ email = First /\ parked = Nil
    /\ pos = [r \in Calls |-> "idle"]
    /\ ask = [r \in Calls |-> Nil]
    /\ addr = [r \in Calls |-> Nil]
    /\ known = {}
    /\ against = [r \in Calls |-> {}]
    /\ wrongs = [r \in Calls |-> 0]
    /\ taken = {} /\ settled = [r \in Calls |-> {}] /\ swept = {} /\ tangled = FALSE

Move(r, step, a) ==
    /\ pos' = [pos EXCEPT ![r] = step]
    /\ addr' = [addr EXCEPT ![r] = a]

(* On to the next query, with the address kept or with another one; or to    *)
(* the answer.                                                               *)
Proceed(r, step) == Move(r, step, IF step \in Answers THEN Nil ELSE addr[r])

Busy(steps) == {r \in Calls : pos[r] \in steps}
Answered == {r \in Calls : pos[r] \in Answers}

Entry(op) ==
    CASE op = "otp" -> "lookup" [] op = "change" -> "clearChange"
      [] op \in {"verify", "guess"} -> "redeem" [] op = "confirm" -> "take"

(* The requests for a code that were answered before this one came in.       *)
EarlierMints(j) == {m \in Answered : j.op = "otp" /\ ask[m] = j}

(* A request comes in.  Who asks for a change has been read with the account. *)
Arrive(r) ==
    /\ pos[r] = "idle"
    /\ \E j \in Ask :
        /\ j.op = "verify" => j.token \in known /\ j.token[2] \in LoginParts
        /\ j.op = "confirm" => j.token \in known /\ j.token[2] \in ChangeParts
        /\ j.op = "change" => j.addr # email
        /\ ask' = [ask EXCEPT ![r] = j]
        /\ Move(r, Entry(j.op), IF j.op = "change" THEN email ELSE Nil)
        /\ tangled' = \/ tangled
                      \/ j.op = "change" /\ Busy(ChangeSteps \cup ConfirmSteps) # {}
                      \/ j.op = "confirm" /\ Busy(ChangeSteps) # {}
    /\ settled' = [settled EXCEPT ![r] = EarlierMints(ask'[r])]
    /\ UNCHANGED <<rows, email, parked, known, against, wrongs, taken, swept>>

----------------------------------------------------------------------------
(* mintOneTimeToken, and the mail of issueToken.                             *)

LookupUser(r) ==
    /\ pos[r] = "lookup"
    /\ Proceed(r, IF ask[r].addr = email THEN "clear" ELSE "refused")
    /\ UNCHANGED <<rows, email, parked, ask, known, past>>

(* Mutant: the delete names the type the link is stored with.                *)
SupersededLinks(a) == {row \in rows : row.addr = a /\ row.part = "link"}

(* The earlier codes of the address: the delete names their type, and not     *)
(* the one the links are stored with.                                        *)
Superseded(a) == {row \in rows : row.addr = a /\ row.part = "code"}

Clear(r) ==
    /\ pos[r] = "clear"
    /\ rows' = rows \ Superseded(ask[r].addr)
    /\ Proceed(r, "insert")
    /\ UNCHANGED <<email, parked, ask, known, past>>

NewRow(r, part, a) == [mint |-> r, part |-> part, addr |-> a, attempts |-> 0]

Insert(r) ==
    /\ pos[r] = "insert"
    /\ rows' = rows \cup {NewRow(r, part, ask[r].addr) : part \in LoginParts}
    /\ Proceed(r, "mail")
    /\ UNCHANGED <<email, parked, ask, known, past>>

(* The mailer takes the mail, or refuses it; the tokens stay.                *)
Mail(r) ==
    /\ pos[r] = "mail"
    /\ \/ known' = known \cup {<<r, part>> : part \in LoginParts} /\ Proceed(r, "ok")
       \/ UNCHANGED known /\ Proceed(r, "failed")
    /\ UNCHANGED <<rows, email, parked, ask, past>>

----------------------------------------------------------------------------
(* redeem.  A wrong attempt counts against the live tokens of the address.   *)

Live(a) == {row \in rows : row.addr = a /\ row.part \in LoginParts}

(* What the attempt finds: the row of its token, while guesses are left.     *)
Matching(r) ==
    {row \in rows : /\ ask[r].op = "verify" /\ TokenOf(row) = ask[r].token
                    /\ row.attempts < MaxAttempts}

(* Mutant: the token is looked up, and deleted with the others only.         *)
RedeemByLookup(r) ==
    /\ pos[r] = "redeem"
    /\ \E row \in Matching(r) :
        /\ Move(r, "spend", row.addr)
        /\ taken' = taken \cup {TokenOf(row)}
    /\ UNCHANGED <<rows, email, parked, ask, known, against, wrongs, settled, swept, tangled>>

(* One query deletes the row and reads whose it was.                         *)
Redeem(r) ==
    /\ pos[r] = "redeem"
    /\ \E row \in Matching(r) :
        /\ rows' = rows \ {row}
        /\ Move(r, "spend", row.addr)
        /\ taken' = taken \cup {TokenOf(row)}
    /\ UNCHANGED <<email, parked, ask, known, against, wrongs, settled, swept, tangled>>

(* A code comes with the address it was sent to; a link that is not found    *)
(* names no address and counts against nothing.                              *)
Scope(r) ==
    IF ask[r].op = "guess" THEN {ask[r].addr}
    ELSE IF ask[r].token[2] = "code" THEN {ask[ask[r].token[1]].addr} ELSE {}

Miss(r) ==
    /\ pos[r] = "redeem"
    /\ Matching(r) = {}
    /\ IF Scope(r) = {} THEN Proceed(r, "refused") /\ UNCHANGED against
       ELSE \E a \in Scope(r) :
              /\ Move(r, "count", a)
              /\ against' = [against EXCEPT ![r] = Mints(Live(a))]
    /\ UNCHANGED <<rows, email, parked, ask, known, wrongs, taken, settled, swept, tangled>>

Counted(row) == [row EXCEPT !.attempts = IF @ < MaxAttempts THEN @ + 1 ELSE @]

Count(r) ==
    /\ pos[r] = "count"
    /\ rows' = (rows \ Live(addr[r])) \cup {Counted(row) : row \in Live(addr[r])}
    /\ Proceed(r, "burn")
    /\ UNCHANGED <<email, parked, ask, known, past>>

(* Mutant: the last attempt is given away.                                   *)
UsedUpLate(a) == {row \in rows : row.addr = a /\ row.attempts > MaxAttempts}

UsedUp(a) == {row \in rows : row.addr = a /\ row.attempts >= MaxAttempts}

Burn(r) ==
    /\ pos[r] = "burn"
    /\ rows' = rows \ UsedUp(addr[r])
    /\ wrongs' = [m \in Calls |-> IF m \in against[r] THEN wrongs[m] + 1 ELSE wrongs[m]]
    /\ against' = [against EXCEPT ![r] = {}]
    /\ Proceed(r, "refused")
    /\ UNCHANGED <<email, parked, ask, known, taken, settled, swept, tangled>>

(* Every live token of the address goes, the sides of a change included, and *)
(* the account's address is confirmed.                                       *)
Spend(r) ==
    LET spent == {row \in rows : row.addr = addr[r]} IN
    /\ pos[r] = "spend"
    /\ rows' = rows \ spent
    /\ swept' = swept \cup Mints(spent)
    /\ Proceed(r, "ok")
    /\ UNCHANGED <<email, parked, ask, known, against, wrongs, taken, settled, tangled>>

----------------------------------------------------------------------------
(* startEmailChange and mintEmailChangeTokens.                               *)

ClearChange(r) ==
    /\ pos[r] = "clearChange"
    /\ rows' = rows \ ChangeRows
    /\ Proceed(r, "insertNew")
    /\ UNCHANGED <<email, parked, ask, known, past>>

InsertNew(r) ==
    /\ pos[r] = "insertNew"
    /\ rows' = rows \cup {NewRow(r, "new", ask[r].addr)}
    /\ Proceed(r, IF Secure THEN "insertCurrent" ELSE "park")
    /\ UNCHANGED <<email, parked, ask, known, past>>

InsertCurrent(r) ==
    /\ pos[r] = "insertCurrent"
    /\ rows' = rows \cup {NewRow(r, "current", addr[r])}
    /\ Proceed(r, "park")
    /\ UNCHANGED <<email, parked, ask, known, past>>

Park(r) ==
    /\ pos[r] = "park"
    /\ parked' = ask[r].addr
    /\ Proceed(r, "mailChange")
    /\ UNCHANGED <<rows, email, ask, known, past>>

(* The new address is mailed first; a refused mail ends the request.         *)
MailChange(r) ==
    LET sides == IF Secure THEN ChangeParts ELSE {"new"} IN
    /\ pos[r] = "mailChange"
    /\ \E sent \in {sides, {"new"}, {}} :
        /\ known' = known \cup {<<r, part>> : part \in sent}
        /\ Proceed(r, IF sent = sides THEN "ok" ELSE "failed")
    /\ UNCHANGED <<rows, email, parked, ask, past>>

----------------------------------------------------------------------------
(* verifyEmailChange: the address moves once no side is outstanding.         *)

Take(r) ==
    LET found == {row \in rows : TokenOf(row) = ask[r].token} IN
    /\ pos[r] = "take"
    /\ rows' = rows \ found
    /\ taken' = taken \cup {TokenOf(row) : row \in found}
    /\ Proceed(r, IF found = {} THEN "refused" ELSE "outstanding")
    /\ UNCHANGED <<email, parked, ask, known, against, wrongs, settled, swept, tangled>>

(* Mutant: only the new address has to answer.                               *)
OutstandingNew == {row \in rows : row.part = "new"}

Outstanding == ChangeRows

CheckOutstanding(r) ==
    /\ pos[r] = "outstanding"
    /\ Proceed(r, IF Outstanding # {} THEN "ok" ELSE "land")
    /\ UNCHANGED <<rows, email, parked, ask, known, past>>

Land(r) ==
    /\ pos[r] = "land"
    /\ email' = IF parked = Nil THEN email ELSE parked
    /\ parked' = Nil
    /\ Proceed(r, "ok")
    /\ UNCHANGED <<rows, ask, known, past>>

----------------------------------------------------------------------------

(* The tokens of one request expire; a sweep deletes what has expired, which *)
(* no query finds before either.                                             *)
Expire(m) ==
    LET old == {row \in rows : row.mint = m} IN
    /\ old # {}
    /\ rows' = rows \ old
    /\ swept' = swept \cup {m}
    /\ UNCHANGED <<email, parked, pos, ask, addr, known, against, wrongs, taken, settled, tangled>>

Login(r) == LookupUser(r) \/ Clear(r) \/ Insert(r) \/ Mail(r)
              \/ Redeem(r) \/ Miss(r) \/ Count(r) \/ Burn(r) \/ Spend(r)
ChangeAddress(r) == ClearChange(r) \/ InsertNew(r) \/ InsertCurrent(r) \/ Park(r) \/ MailChange(r)
                      \/ Take(r) \/ CheckOutstanding(r) \/ Land(r)

TokenNext == \E r \in Calls : Arrive(r) \/ Login(r) \/ ChangeAddress(r) \/ Expire(r)

TokenSpec == TokenInit /\ [][TokenNext]_tokenVars

----------------------------------------------------------------------------
(* What accounts rely on.                                                    *)

(* A login token is taken only while fewer than MaxAttempts wrong attempts   *)
(* on it were answered, however many of them run at a time, and a code never *)
(* after a later request for a code was answered.                            *)
Later(m) == {r \in Calls : m \in settled[r] /\ pos[r] = "ok"}
RedeemedInTime ==
    [][\A t \in taken' \ taken :
        /\ t[2] \in LoginParts => wrongs[t[1]] < MaxAttempts
        /\ t[2] = "code" => Later(t[1]) = {}]_tokenVars

(* At most one request gets what a token stands for, a sign-in or one side of *)
(* a change, also where it is presented several times at once, beside guesses *)
(* that rewrite its row and requests for other tokens.                       *)
Redeemers(t) ==
    {r \in Calls : /\ ask[r] \in [op : {"verify", "confirm"}, token : {t}]
                   /\ pos[r] \in {"spend", "outstanding", "land", "ok"}}
RedeemedOnce == \A t \in known : \A p, q \in Redeemers(t) : p = q

(* The account's address becomes one whose holder has shown to have it, and   *)
(* with a secure change the holder of the current address has agreed to that  *)
(* very change.  This holds for changes that are requested and confirmed one  *)
(* after the other, none of whose tokens expired or was spent by a sign-in.   *)
MovedWithConsent ==
    [][email' # email /\ ~tangled =>
        \E m \in Calls :
            /\ ask[m] \in [op : {"change"}, addr : {email'}]
            /\ m \notin swept => /\ <<m, "new">> \in taken
                                 /\ Secure => <<m, "current">> \in taken]_tokenVars

=============================================================================
