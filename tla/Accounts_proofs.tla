---------------------------- MODULE Accounts_proofs ----------------------------
(***************************************************************************)
(* The safety properties of Accounts for any number of requests, sockets,  *)
(* passwords and tokens, any limit of attempts and any number of failures. *)
(*                                                                         *)
(* None of them is inductive alone.  The invariant says what a request     *)
(* carries from one await to the next: the version it read is no newer     *)
(* than the account's, and if it is still the account's then so is the     *)
(* password; a token that can be consumed is of the current epoch; whoever *)
(* is consuming one holds the row, and a locked row is not disabled; a     *)
(* socket past its account check is accepted or about to be evicted.       *)
(***************************************************************************)
EXTENDS Accounts, TLAPS

\* A password and the version it was read or written with.
Current(version, password) ==
  /\ version <= account.version
  /\ version = account.version => password = account.password

\* The request will sign an access token with what it holds.
Signing(r) == At(r, "sign") \/ (At(r, "clear") /\ local[r].op = "login")

\* The steps of a request that found no account.
EarlySteps == {"idle", "done", "create", "owner", "find"}

\* What a request holds at each step, and what that is worth by now.
RequestInv(r) ==
  /\ local[r].step \in {"create", "change", "sign"} => local[r].password \in Passwords
  /\ local[r].step \in {"lock", "consume"} =>
       \/ /\ local[r].op = "reset" /\ local[r].token \in ResetTokens
          /\ local[r].password \in Passwords
       \/ local[r].op = "verify" /\ local[r].token \in VerificationTokens
  /\ local[r].step = "mail" => local[r].token \in Tokens
  /\ local[r].step = "find" => local[r].op = "login"
  /\ local[r].step = "change" => local[r].op = "change"
  /\ local[r].step = "clear" =>
       local[r].op = "reset" \/ (local[r].op = "login" /\ local[r].password \in Passwords)
  /\ Signing(r) => Current(local[r].version, local[r].password)
  /\ At(r, "consume") => lock = r
  /\ ~registered => local[r].step \in EarlySteps

RequestsInv == \A r \in Requests : RequestInv(r)

\* Before the address is registered there is nothing to act upon.
FreshInv ==
  ~registered =>
    /\ jwts = {} /\ mailbox = {} /\ honoured = {}
    /\ \A s \in Sockets : sockets[s].step = "off"

JwtInv == \A jwt \in jwts : Current(jwt.version, jwt.password)

SocketInv ==
  \A s \in Sockets :
    sockets[s].step \in {"decide", "ready"} /\ ~Accepted(sockets[s].jwt.version)
      => \E r \in Requests : Evicting(r)

LockInv == lock # Nobody => ~account.disabled

TokenInv ==
  /\ \A a \in honoured : account.tokens[a.token] = "used"
  /\ \A t \in Tokens : account.tokens[t] = "issued" => era[t] = epoch

LimiterInv ==
  /\ attempts > 0 => window
  /\ IF attempts > MaxAttempts THEN audits <= 1 ELSE audits = 0

AccountsInv ==
  /\ TypeOK /\ RequestsInv /\ FreshInv /\ JwtInv /\ SocketInv /\ LockInv
  /\ TokenInv /\ TokenHonouredOnce /\ LimiterInv

-----------------------------------------------------------------------------
(* The rows. *)

\* Every operation on the account yields an account.
LEMMA AccountFacts ==
  ASSUME NEW a \in Accounts, NEW password \in Passwords
  PROVE  /\ Created(password) \in Accounts
         /\ ChangePassword(a, password) \in Accounts
         /\ ResetPassword(a, password) \in Accounts
         /\ RevokeSessions(a) \in Accounts
         /\ \A disabled \in BOOLEAN : SetDisabled(a, disabled) \in Accounts
         /\ \A t \in Tokens : VerifyEmail(a, t) \in Accounts
         /\ \A t \in Tokens, type \in TokenTypes : Issue(a, t, type) \in Accounts
<1>1. Spent(a.tokens) \in [Tokens -> {"none", "issued", "used", "expired"}]
  BY DEF Spent, Accounts
<1>2. Created(password) \in Accounts
  BY DEF Created, Accounts
<1>3. ChangePassword(a, password) \in Accounts /\ ResetPassword(a, password) \in Accounts
  <2>1. a.version + 1 \in Nat
    BY DEF Accounts
  <2>2. ChangePassword(a, password) \in Accounts
    BY <1>1, <2>1 DEF ChangePassword, Accounts
  <2>3. ResetPassword(a, password) \in Accounts
    BY <1>1, <2>1 DEF ResetPassword, Accounts
  <2>4. QED
    BY <2>2, <2>3
<1>4. RevokeSessions(a) \in Accounts
  BY DEF RevokeSessions, Accounts
<1>5. \A disabled \in BOOLEAN : SetDisabled(a, disabled) \in Accounts
  BY DEF SetDisabled, Accounts
<1>6. \A t \in Tokens : VerifyEmail(a, t) \in Accounts
  BY DEF VerifyEmail, Accounts
<1>7. \A t \in Tokens, type \in TokenTypes : Issue(a, t, type) \in Accounts
  BY DEF Issue, Accounts
<1>8. QED
  BY <1>2, <1>3, <1>4, <1>5, <1>6, <1>7

\* A new password: the version moves on and every outstanding token is spent.
LEMMA NewPasswordFacts ==
  ASSUME NEW a \in Accounts, NEW password \in Passwords, NEW b,
         b = ChangePassword(a, password) \/ b = ResetPassword(a, password)
  PROVE  /\ b.version = a.version + 1 /\ b.password = password
         /\ b.disabled = a.disabled
         /\ \A t \in Tokens : b.tokens[t] # "issued"
         /\ \A t \in Tokens : a.tokens[t] \in {"issued", "used"} => b.tokens[t] = "used"
<1>1. /\ \A t \in Tokens : Spent(a.tokens)[t] # "issued"
      /\ \A t \in Tokens :
           a.tokens[t] \in {"issued", "used"} => Spent(a.tokens)[t] = "used"
  BY DEF Spent, Accounts
<1>2. /\ b.version = a.version + 1 /\ b.password = password
      /\ b.disabled = a.disabled /\ b.tokens = Spent(a.tokens)
  BY DEF ChangePassword, ResetPassword, Accounts
<1>3. QED
  BY <1>1, <1>2

-----------------------------------------------------------------------------
(* The requests' variables. *)

OthersStay(r) == \A q \in Requests \ {r} : local'[q] = local[q]

\* Going on changes the step and nothing else.
LEMMA GotoFacts ==
  ASSUME local \in [Requests -> Locals], NEW r \in Requests, NEW step \in Steps,
         Goto(r, step)
  PROVE  /\ local' \in [Requests -> Locals] /\ OthersStay(r)
         /\ local'[r].step = step /\ local'[r].op = local[r].op
         /\ local'[r].password = local[r].password
         /\ local'[r].version = local[r].version /\ local'[r].token = local[r].token
BY DEF Goto, OthersStay, Locals

\* Beginning and ending start from nothing.
LEMMA BeginFacts ==
  ASSUME local \in [Requests -> Locals], NEW r \in Requests
  PROVE  /\ \A op \in Operations, step \in Steps : Begin(r, op, step) =>
              /\ local' \in [Requests -> Locals] /\ OthersStay(r)
              /\ local'[r].op = op /\ local'[r].step = step
         /\ Done(r) => /\ local' \in [Requests -> Locals] /\ OthersStay(r)
                       /\ local'[r].op = "none" /\ local'[r].step = "done"
<1>1. Idle \in Locals
  BY DEF Idle, Locals, Operations, Steps
<1>2. \A op \in Operations, step \in Steps :
        /\ [Idle EXCEPT !.op = op, !.step = step] \in Locals
        /\ [Idle EXCEPT !.op = op, !.step = step].op = op
        /\ [Idle EXCEPT !.op = op, !.step = step].step = step
  BY <1>1 DEF Idle, Locals
<1>3. /\ [Idle EXCEPT !.step = "done"] \in Locals
      /\ [Idle EXCEPT !.step = "done"].op = "none"
      /\ [Idle EXCEPT !.step = "done"].step = "done"
  BY <1>1 DEF Idle, Locals, Steps
<1>4. ASSUME NEW op \in Operations, NEW step \in Steps, Begin(r, op, step)
      PROVE  /\ local' \in [Requests -> Locals] /\ OthersStay(r)
             /\ local'[r].op = op /\ local'[r].step = step
  BY <1>2, <1>4 DEF Begin, OthersStay
<1>5. ASSUME Done(r)
      PROVE  /\ local' \in [Requests -> Locals] /\ OthersStay(r)
             /\ local'[r].op = "none" /\ local'[r].step = "done"
  BY <1>3, <1>5 DEF Done, OthersStay
<1>6. QED
  BY <1>4, <1>5

\* A request beginning with something in hand.
LEMMA ReceiveFacts ==
  ASSUME local \in [Requests -> Locals], NEW r \in Requests, NEW new \in Locals,
         local' = [local EXCEPT ![r] = new]
  PROVE  local' \in [Requests -> Locals] /\ OthersStay(r) /\ local'[r] = new
BY DEF OthersStay

-----------------------------------------------------------------------------
(* What a step may do to the account: the address stays registered, and the *)
(* password does not change without the version.                            *)
Moves ==
  /\ account' \in Accounts
  /\ registered => registered'
  /\ registered => \/ /\ account'.version = account.version
                      /\ account'.password = account.password
                   \/ account'.version > account.version

\* What was read earlier stays worth what it was, or is outdated.
LEMMA CurrentKept ==
  ASSUME account \in Accounts, registered, Moves, NEW version \in Nat, NEW password,
         Current(version, password)
  PROVE  /\ version <= account'.version
         /\ version = account'.version => password = account'.password
BY DEF Current, Moves, Accounts

LEMMA RequestKept ==
  ASSUME account \in Accounts, Moves, local \in [Requests -> Locals],
         NEW q \in Requests, RequestInv(q), local'[q] = local[q],
         At(q, "consume") => lock' = q
  PROVE  RequestInv(q)'
<1>1. ~registered' => local'[q].step \in EarlySteps
  BY DEF RequestInv, Moves
<1>2. Signing(q)' => Current(local[q].version, local[q].password)'
  <2> SUFFICES ASSUME Signing(q)'
               PROVE  Current(local[q].version, local[q].password)'
    OBVIOUS
  <2>1. Signing(q)
    BY DEF Signing, At
  <2>2. registered
    BY <2>1 DEF Signing, At, RequestInv, EarlySteps
  <2>3. local[q].version \in Nat
    BY DEF Locals
  <2>4. QED
    BY <2>1, <2>2, <2>3, CurrentKept DEF RequestInv, Current
<1>3. QED
  BY <1>1, <1>2 DEF RequestInv, At

\* One request goes on: the others are not disturbed.
LEMMA RequestsKept ==
  ASSUME AccountsInv, Moves, NEW r \in Requests, OthersStay(r), RequestInv(r)',
         \A q \in Requests \ {r} : At(q, "consume") => lock' = q
  PROVE  RequestsInv'
BY RequestKept DEF AccountsInv, TypeOK, RequestsInv, OthersStay

\* No request goes on.
LEMMA AllRequestsKept ==
  ASSUME AccountsInv, Moves, local' = local, lock' = lock
  PROVE  RequestsInv'
BY RequestKept DEF AccountsInv, TypeOK, RequestsInv, RequestInv

LEMMA JwtsKept ==
  ASSUME AccountsInv, Moves, jwts' \subseteq jwts
  PROVE  JwtInv'
<1> SUFFICES ASSUME NEW jwt \in jwts'
             PROVE  /\ jwt.version <= account'.version
                    /\ jwt.version = account'.version => jwt.password = account'.password
  BY DEF JwtInv, Current
<1>1. jwt \in jwts /\ registered /\ Current(jwt.version, jwt.password)
  BY DEF AccountsInv, FreshInv, JwtInv
<1>2. jwt.version \in Nat
  BY <1>1 DEF AccountsInv, TypeOK, Jwts
<1>3. QED
  BY <1>1, <1>2, CurrentKept DEF AccountsInv, TypeOK

\* The account's sessions are as they were, and whoever was evicting still is.
LEMMA SocketsKept ==
  ASSUME AccountsInv, NEW r \in Requests, OthersStay(r), sockets' = sockets,
         \/ Evicting(r)'
         \/ /\ ~Evicting(r)
            /\ account'.version = account.version
            /\ account'.disabled => account.disabled
  PROVE  SocketInv'
BY DEF AccountsInv, SocketInv, Accepted, Evicting, At, OthersStay

\* After an eviction no socket is past its account check.
LEMMA SocketsEvicted ==
  ASSUME TypeOK, Evict
  PROVE  /\ sockets' \in [Sockets -> [step : SocketSteps, timer : BOOLEAN, jwt : Jwts]]
         /\ \A s \in Sockets : sockets'[s].step \notin {"decide", "ready"}
         /\ \A s \in Sockets : sockets[s].step = "off" => sockets'[s].step = "off"
<1>1. \A s \in Sockets :
        /\ Evicted(sockets[s]) \in [step : SocketSteps, timer : BOOLEAN, jwt : Jwts]
        /\ Evicted(sockets[s]).step \notin {"decide", "ready"}
        /\ sockets[s].step = "off" => Evicted(sockets[s]).step = "off"
  BY DEF TypeOK, Evicted, SocketSteps
<1>2. QED
  BY <1>1 DEF Evict

\* A step at which a request holds nothing.
LEMMA PlainRequest ==
  ASSUME NEW r \in Requests,
         local'[r].step \in {"idle", "done", "owner", "issue", "revoke", "emit",
                             "setDisabled"},
         registered' \/ local'[r].step \in EarlySteps
  PROVE  RequestInv(r)'
BY DEF RequestInv, Signing, At

\* A step of one request that changes nothing but what it holds, the lock and
\* the count of failures.
LEMMA LocalStep ==
  ASSUME AccountsInv, NEW r \in Requests,
         local' \in [Requests -> Locals], OthersStay(r), RequestInv(r)',
         Evicting(r) => Evicting(r)',
         faults' \in 0 .. MaxFaults,
         lock' \in Requests \cup {Nobody}, lock' # Nobody => ~account.disabled,
         \A q \in Requests \ {r} : At(q, "consume") => lock' = q,
         UNCHANGED <<accountVars, limiterVars, mailVars, sessionVars, epoch, honoured>>
  PROVE  AccountsInv'
<1>1. TypeOK'
  BY DEF AccountsInv, TypeOK, accountVars, limiterVars, mailVars, sessionVars
<1>2. Moves
  BY DEF AccountsInv, TypeOK, Moves, accountVars
<1>3. RequestsInv' /\ JwtInv'
  BY <1>2, RequestsKept, JwtsKept DEF sessionVars
<1>4. SocketInv'
  BY SocketsKept DEF sessionVars, accountVars
<1>5. /\ FreshInv' /\ LockInv' /\ TokenInv' /\ TokenHonouredOnce' /\ LimiterInv'
  BY DEF AccountsInv, FreshInv, LockInv, TokenInv, TokenHonouredOnce, LimiterInv,
         accountVars, limiterVars, mailVars, sessionVars
<1>6. QED
  BY <1>1, <1>3, <1>4, <1>5 DEF AccountsInv

\* ... and leaves the lock alone.
LEMMA PlainStep ==
  ASSUME AccountsInv, NEW r \in Requests,
         local' \in [Requests -> Locals], OthersStay(r), RequestInv(r)',
         Evicting(r) => Evicting(r)', faults' \in 0 .. MaxFaults,
         UNCHANGED <<accountVars, lock, limiterVars, mailVars, sessionVars, epoch, honoured>>
  PROVE  AccountsInv'
<1>1. /\ lock' \in Requests \cup {Nobody} /\ (lock' # Nobody => ~account.disabled)
      /\ \A q \in Requests \ {r} : At(q, "consume") => lock' = q
  BY DEF AccountsInv, TypeOK, LockInv, RequestsInv, RequestInv
<1>2. QED
  BY <1>1, LocalStep

LEMMA FaultFacts ==
  ASSUME faults \in 0 .. MaxFaults
  PROVE  Fault => faults' \in 0 .. MaxFaults
BY AccountsAssumption DEF Fault

-----------------------------------------------------------------------------
(* The actions of a request that change only what it holds. *)

LEMMA RegisterStep ==
  ASSUME AccountsInv, NEW r \in Requests, Register(r)
  PROVE  AccountsInv'
<1>1. local \in [Requests -> Locals] /\ faults' \in 0 .. MaxFaults
  BY DEF AccountsInv, TypeOK, Register
<1>2. ~Evicting(r)
  BY DEF Register, Evicting, At
<1>3. CASE registered
  <2>1. Begin(r, "forgot", "owner")
    BY <1>3 DEF Register
  <2>2. /\ local' \in [Requests -> Locals] /\ OthersStay(r)
        /\ local'[r].step = "owner"
    BY <1>1, <2>1, BeginFacts DEF Operations, Steps
  <2>3. RequestInv(r)'
    BY <2>2, PlainRequest DEF EarlySteps
  <2>4. QED
    BY <1>1, <1>2, <2>2, <2>3, PlainStep DEF Register
<1>4. CASE ~registered
  <2>1. PICK password \in Passwords : local' = [local EXCEPT ![r] =
          [Idle EXCEPT !.op = "register", !.step = "create", !.password = password]]
    BY <1>4 DEF Register
  <2> DEFINE new == [Idle EXCEPT !.op = "register", !.step = "create",
                                 !.password = password]
  <2>2. new \in Locals /\ new.step = "create" /\ new.password \in Passwords
    BY DEF Idle, Locals, Operations, Steps
  <2> HIDE DEF new
  <2>3. local' \in [Requests -> Locals] /\ OthersStay(r) /\ local'[r] = new
    BY <1>1, <2>1, <2>2, ReceiveFacts DEF new
  <2>4. RequestInv(r)'
    BY <2>2, <2>3 DEF RequestInv, Signing, At, EarlySteps
  <2>5. QED
    BY <1>1, <1>2, <2>3, <2>4, PlainStep DEF Register
<1>5. QED
  BY <1>3, <1>4

LEMMA FindByEmailStep ==
  ASSUME AccountsInv, NEW r \in Requests, FindByEmail(r)
  PROVE  AccountsInv'
<1>1. local \in [Requests -> Locals] /\ faults' \in 0 .. MaxFaults
  BY DEF AccountsInv, TypeOK, FindByEmail
<1>2. ~Evicting(r)
  BY DEF FindByEmail, Evicting, At
<1>3. CASE /\ registered
           /\ local' = [local EXCEPT ![r].step = "clear", ![r].version = account.version,
                                     ![r].password = account.password]
  <2>1. account.version \in Nat /\ account.password \in Passwords
    BY DEF AccountsInv, TypeOK, Accounts
  <2> DEFINE new == [local[r] EXCEPT !.step = "clear", !.version = account.version,
                                     !.password = account.password]
  <2>2. /\ local' \in [Requests -> Locals] /\ OthersStay(r)
        /\ local'[r].step = "clear" /\ local'[r].op = local[r].op
        /\ local'[r].version = account.version
        /\ local'[r].password = account.password
    <3>1. /\ new \in Locals /\ new.step = "clear" /\ new.op = local[r].op
          /\ new.version = account.version /\ new.password = account.password
      BY <1>1, <2>1 DEF Locals, Steps
    <3>2. local' = [local EXCEPT ![r] = new]
      BY <1>1, <1>3
    <3> HIDE DEF new
    <3>3. QED
      BY <1>1, <3>1, <3>2, ReceiveFacts
  <2>3. local[r].op = "login"
    BY DEF FindByEmail, At, AccountsInv, RequestsInv, RequestInv
  <2>4. account' = account /\ registered' = registered
    BY DEF FindByEmail, accountVars
  <2>5. Current(local[r].version, local[r].password)'
    BY <2>1, <2>2, <2>4 DEF Current
  <2>6. RequestInv(r)'
    BY <1>3, <2>1, <2>2, <2>3, <2>4, <2>5 DEF RequestInv, At
  <2>7. QED
    BY <1>1, <1>2, <2>2, <2>6, PlainStep DEF FindByEmail
<1>4. CASE Done(r)
  <2>1. /\ local' \in [Requests -> Locals] /\ OthersStay(r)
        /\ local'[r].step = "done"
    BY <1>1, <1>4, BeginFacts
  <2>2. RequestInv(r)'
    BY <2>1, PlainRequest DEF EarlySteps
  <2>3. QED
    BY <1>1, <1>2, <2>1, <2>2, PlainStep DEF FindByEmail
<1>5. QED
  BY <1>3, <1>4 DEF FindByEmail

LEMMA AuthenticateStep ==
  ASSUME AccountsInv, NEW r \in Requests, Authenticate(r)
  PROVE  AccountsInv'
<1>1. local \in [Requests -> Locals] /\ faults' \in 0 .. MaxFaults
  BY DEF AccountsInv, TypeOK, Authenticate
<1>2. ~Evicting(r)
  BY DEF Authenticate, Evicting, At
<1>3. registered'
  BY DEF AccountsInv, FreshInv, Authenticate, accountVars
<1>4. CASE Begin(r, "logout", "revoke")
  <2>1. /\ local' \in [Requests -> Locals] /\ OthersStay(r)
        /\ local'[r].step = "revoke"
    BY <1>1, <1>4, BeginFacts DEF Operations, Steps
  <2>2. RequestInv(r)'
    BY <1>3, <2>1, PlainRequest
  <2>3. QED
    BY <1>1, <1>2, <2>1, <2>2, PlainStep DEF Authenticate
<1>5. ASSUME NEW password \in Passwords, local' = [local EXCEPT ![r] =
               [Idle EXCEPT !.op = "change", !.step = "change", !.password = password]]
      PROVE  AccountsInv'
  <2> DEFINE new == [Idle EXCEPT !.op = "change", !.step = "change",
                                 !.password = password]
  <2>1. /\ new \in Locals /\ new.op = "change" /\ new.step = "change"
        /\ new.password \in Passwords
    BY DEF Idle, Locals, Operations, Steps
  <2> HIDE DEF new
  <2>2. local' \in [Requests -> Locals] /\ OthersStay(r) /\ local'[r] = new
    BY <1>1, <1>5, <2>1, ReceiveFacts DEF new
  <2>3. RequestInv(r)'
    BY <1>3, <2>1, <2>2 DEF RequestInv, Signing, At
  <2>4. QED
    BY <1>1, <1>2, <2>2, <2>3, PlainStep DEF Authenticate
<1>6. QED
  BY <1>4, <1>5 DEF Authenticate

LEMMA BeginWithTokenStep ==
  ASSUME AccountsInv, NEW r \in Requests, BeginWithToken(r)
  PROVE  AccountsInv'
<1>1. local \in [Requests -> Locals] /\ faults' \in 0 .. MaxFaults
  BY DEF AccountsInv, TypeOK, BeginWithToken
<1>2. ~Evicting(r)
  BY DEF BeginWithToken, Evicting, At
<1>3. registered'
  BY DEF AccountsInv, FreshInv, BeginWithToken, accountVars
<1>4. ASSUME NEW new \in Locals, local' = [local EXCEPT ![r] = new],
             new.step = "lock",
             \/ new.op = "reset" /\ new.token \in ResetTokens /\ new.password \in Passwords
             \/ new.op = "verify" /\ new.token \in VerificationTokens
      PROVE  AccountsInv'
  <2>1. local' \in [Requests -> Locals] /\ OthersStay(r) /\ local'[r] = new
    BY <1>1, <1>4, ReceiveFacts
  <2>2. RequestInv(r)'
    BY <1>3, <1>4, <2>1 DEF RequestInv, Signing, At
  <2>3. QED
    BY <1>1, <1>2, <2>1, <2>2, PlainStep DEF BeginWithToken
<1>5. ASSUME NEW t \in ResetTokens, NEW password \in Passwords,
             local' = [local EXCEPT ![r] =
               [Idle EXCEPT !.op = "reset", !.step = "lock", !.token = t,
                            !.password = password]]
      PROVE  AccountsInv'
  <2> DEFINE new == [Idle EXCEPT !.op = "reset", !.step = "lock", !.token = t,
                                 !.password = password]
  <2>1. /\ new \in Locals /\ new.step = "lock" /\ new.op = "reset" /\ new.token = t
        /\ new.password = password
    BY DEF Idle, Locals, Operations, Steps, Tokens
  <2> HIDE DEF new
  <2>2. QED
    BY <1>4, <1>5, <2>1 DEF new
<1>6. ASSUME NEW t \in VerificationTokens,
             local' = [local EXCEPT ![r] =
               [Idle EXCEPT !.op = "verify", !.step = "lock", !.token = t]]
      PROVE  AccountsInv'
  <2> DEFINE new == [Idle EXCEPT !.op = "verify", !.step = "lock", !.token = t]
  <2>1. new \in Locals /\ new.step = "lock" /\ new.op = "verify" /\ new.token = t
    BY DEF Idle, Locals, Operations, Steps, Tokens
  <2> HIDE DEF new
  <2>2. QED
    BY <1>4, <1>6, <2>1 DEF new
<1>7. QED
  BY <1>5, <1>6 DEF BeginWithToken, AccountsInv, TypeOK, Tokens

\* The beginnings and the listener's read: nothing is held yet.
LEMMA ListenerStep ==
  ASSUME AccountsInv, NEW r \in Requests,
         \/ ForgotPassword(r) \/ ResendVerification(r)
         \/ FindOwner(r) \/ FindUser(r)
  PROVE  AccountsInv'
<1>1. local \in [Requests -> Locals] /\ faults' \in 0 .. MaxFaults
  BY DEF AccountsInv, TypeOK, ForgotPassword, ResendVerification, FindOwner, FindUser
<1>2. ~Evicting(r)
  BY DEF ForgotPassword, ResendVerification, FindOwner, FindUser, Evicting, At
<1>3. UNCHANGED <<accountVars, lock, limiterVars, mailVars, sessionVars, epoch, honoured>>
  BY DEF ForgotPassword, ResendVerification, FindOwner, FindUser
<1>4. /\ local' \in [Requests -> Locals] /\ OthersStay(r)
      /\ local'[r].step \in {"done", "owner", "issue", "emit", "setDisabled"}
      /\ registered' \/ local'[r].step \in EarlySteps
  <2>1. CASE ForgotPassword(r) \/ ResendVerification(r)
    BY <1>1, <2>1, BeginFacts
       DEF ForgotPassword, ResendVerification, Operations, Steps, EarlySteps
  <2>2. CASE FindOwner(r) /\ Done(r)
    BY <1>1, <2>2, BeginFacts DEF EarlySteps
  <2>3. CASE FindOwner(r) /\ registered /\ Goto(r, "issue")
    BY <1>1, <1>3, <2>3, GotoFacts DEF Steps, accountVars
  <2>4. CASE FindUser(r)
    <3>1. PICK op \in Operations, step \in {"emit", "setDisabled"} : Begin(r, op, step)
      BY <2>4 DEF FindUser, Operations
    <3>2. step \in Steps /\ registered'
      BY <1>3, <2>4 DEF Steps, FindUser, accountVars
    <3>3. QED
      BY <1>1, <3>1, <3>2, BeginFacts
  <2>5. QED
    BY <2>1, <2>2, <2>3, <2>4 DEF FindOwner
<1>5. RequestInv(r)'
  BY <1>4, PlainRequest
<1>6. QED
  BY <1>1, <1>2, <1>3, <1>4, <1>5, PlainStep

-----------------------------------------------------------------------------
(* The other actions of a request. *)

LEMMA CreateUserStep ==
  ASSUME AccountsInv, NEW r \in Requests, CreateUser(r)
  PROVE  AccountsInv'
<1>1. local \in [Requests -> Locals] /\ local[r].password \in Passwords
  BY DEF AccountsInv, TypeOK, CreateUser, RequestsInv, RequestInv, At
<1>2. ~Evicting(r)
  BY DEF CreateUser, Evicting, At
<1>3. /\ local' \in [Requests -> Locals] /\ OthersStay(r)
      /\ local'[r].step = "owner"
  BY <1>1, BeginFacts DEF CreateUser, Operations, Steps
<1>4. RequestInv(r)'
  BY <1>3, PlainRequest DEF EarlySteps
<1>5. CASE registered
  BY <1>2, <1>3, <1>4, <1>5, PlainStep DEF CreateUser, AccountsInv, TypeOK
<1>6. CASE ~registered
  <2>1. registered' = TRUE /\ account' = Created(local[r].password)
    BY <1>6 DEF CreateUser
  <2>2. account' \in Accounts /\ ~account'.disabled
        /\ \A t \in Tokens : account'.tokens[t] # "issued"
    BY <1>1, <2>1, AccountFacts DEF AccountsInv, TypeOK, Created
  <2>3. /\ jwts' = {} /\ honoured' = {} /\ lock' = lock
        /\ sockets' = sockets /\ \A s \in Sockets : sockets[s].step = "off"
    BY <1>6 DEF CreateUser, AccountsInv, FreshInv, sessionVars
  <2>4. TypeOK'
    BY <1>3, <2>1, <2>2
       DEF CreateUser, AccountsInv, TypeOK, limiterVars, mailVars, sessionVars
  <2>5. Moves
    BY <1>6, <2>1, <2>2 DEF Moves
  <2>6. RequestsInv'
    <3>1. \A q \in Requests \ {r} : At(q, "consume") => lock' = q
      BY <2>3 DEF AccountsInv, RequestsInv, RequestInv
    <3>2. QED
      BY <1>3, <1>4, <2>5, <3>1, RequestsKept
  <2>7. JwtInv' /\ SocketInv' /\ FreshInv' /\ LockInv'
    BY <2>1, <2>2, <2>3 DEF JwtInv, SocketInv, FreshInv, LockInv
  <2>8. TokenInv' /\ TokenHonouredOnce' /\ LimiterInv'
    BY <2>2, <2>3 DEF CreateUser, AccountsInv, TokenInv, TokenHonouredOnce, LimiterInv,
                      limiterVars
  <2>9. QED
    BY <2>4, <2>6, <2>7, <2>8 DEF AccountsInv
<1>7. QED
  BY <1>5, <1>6

\* A step of one request that leaves the account and the sessions alone.
LEMMA CounterStep ==
  ASSUME AccountsInv, NEW r \in Requests,
         local' \in [Requests -> Locals], OthersStay(r), RequestInv(r)',
         Evicting(r) => Evicting(r)', faults' \in 0 .. MaxFaults,
         attempts' \in Nat, window' \in BOOLEAN, audits' \in Nat, LimiterInv',
         mailbox' \subseteq Tokens, registered \/ mailbox' = mailbox,
         UNCHANGED <<accountVars, lock, era, sessionVars, epoch, honoured>>
  PROVE  AccountsInv'
<1>1. TypeOK'
  BY DEF AccountsInv, TypeOK, accountVars, sessionVars
<1>2. Moves
  BY DEF AccountsInv, TypeOK, Moves, accountVars
<1>3. \A q \in Requests \ {r} : At(q, "consume") => lock' = q
  BY DEF AccountsInv, RequestsInv, RequestInv
<1>4. RequestsInv' /\ JwtInv'
  BY <1>2, <1>3, RequestsKept, JwtsKept DEF sessionVars
<1>5. SocketInv'
  BY SocketsKept DEF sessionVars, accountVars
<1>6. FreshInv' /\ LockInv' /\ TokenInv' /\ TokenHonouredOnce'
  BY DEF AccountsInv, FreshInv, LockInv, TokenInv, TokenHonouredOnce,
         accountVars, sessionVars
<1>7. QED
  BY <1>1, <1>4, <1>5, <1>6 DEF AccountsInv

LEMMA LimiterCleared ==
  ASSUME attempts' = 0, window' = FALSE, audits' = 0
  PROVE  /\ attempts' \in Nat /\ window' \in BOOLEAN /\ audits' \in Nat
         /\ LimiterInv'
<1>1. MaxAttempts \in Nat
  BY AccountsAssumption
<1>2. /\ attempts' \in Nat /\ audits' \in Nat
      /\ ~(attempts' > 0) /\ ~(attempts' > MaxAttempts)
  BY <1>1
<1>3. QED
  BY <1>2 DEF LimiterInv

LEMMA RegisterAttemptStep ==
  ASSUME AccountsInv, NEW r \in Requests, RegisterAttempt(r)
  PROVE  AccountsInv'
<1>1. local \in [Requests -> Locals] /\ faults \in 0 .. MaxFaults
  BY DEF AccountsInv, TypeOK
<1>2. ~Evicting(r)
  BY DEF RegisterAttempt, Evicting, At
<1>3. /\ local' \in [Requests -> Locals] /\ OthersStay(r)
      /\ \/ local'[r].step = "find" /\ local'[r].op = "login"
         \/ local'[r].step = "done"
  <2>1. CASE Begin(r, "login", "find")
    BY <1>1, <2>1, BeginFacts DEF Operations, Steps
  <2>2. CASE Done(r)
    BY <1>1, <2>2, BeginFacts
  <2>3. QED
    BY <2>1, <2>2 DEF RegisterAttempt
<1>4. RequestInv(r)'
  BY <1>3 DEF RequestInv, Signing, At, EarlySteps
<1>5. /\ attempts' \in Nat /\ window' \in BOOLEAN /\ audits' \in Nat
      /\ LimiterInv'
  <2>1. CASE UNCHANGED limiterVars
    BY <2>1 DEF limiterVars, LimiterInv, AccountsInv, TypeOK
  <2>2. CASE /\ attempts' = attempts + 1 /\ window' = TRUE
             /\ audits' = IF attempts' = MaxAttempts + 1 THEN audits + 1 ELSE audits
    <3>1. attempts \in Nat /\ audits \in Nat /\ MaxAttempts \in Nat
      BY AccountsAssumption DEF AccountsInv, TypeOK
    <3>2. IF attempts > MaxAttempts THEN audits <= 1 ELSE audits = 0
      BY DEF AccountsInv, LimiterInv
    <3>3. attempts' \in Nat /\ audits' \in Nat
      BY <2>2, <3>1
    <3>4. IF attempts' > MaxAttempts THEN audits' <= 1 ELSE audits' = 0
      BY <2>2, <3>1, <3>2
    <3>5. QED
      BY <2>2, <3>3, <3>4 DEF LimiterInv
  <2>3. QED
    BY <2>1, <2>2 DEF RegisterAttempt
<1>6. faults' \in 0 .. MaxFaults
  BY <1>1, FaultFacts DEF RegisterAttempt
<1>7. QED
  BY <1>2, <1>3, <1>4, <1>5, <1>6, CounterStep
     DEF RegisterAttempt, mailVars, AccountsInv, TypeOK

LEMMA ClearCounterStep ==
  ASSUME AccountsInv, NEW r \in Requests, ClearCounter(r)
  PROVE  AccountsInv'
<1>1. /\ local \in [Requests -> Locals] /\ faults \in 0 .. MaxFaults
      /\ RequestInv(r) /\ local[r].step = "clear"
  BY DEF AccountsInv, TypeOK, RequestsInv, ClearCounter, At
<1>2. UNCHANGED <<accountVars, lock, mailVars, sessionVars, epoch, honoured>>
  BY DEF ClearCounter
<1>3. /\ local' \in [Requests -> Locals] /\ OthersStay(r)
      /\ local'[r].step = IF local[r].op = "reset" THEN "emit" ELSE "sign"
      /\ local'[r].op = local[r].op /\ local'[r].version = local[r].version
      /\ local'[r].password = local[r].password
  <2>1. CASE local[r].op = "reset"
    BY <1>1, <2>1, GotoFacts DEF ClearCounter, Steps
  <2>2. CASE local[r].op # "reset"
    BY <1>1, <2>2, GotoFacts DEF ClearCounter, Steps
  <2>3. QED
    BY <2>1, <2>2
<1>4. RequestInv(r)'
  BY <1>1, <1>2, <1>3 DEF RequestInv, Signing, At, Current, EarlySteps, accountVars
<1>5. Evicting(r) => Evicting(r)'
  BY <1>1, <1>3 DEF Evicting, At
<1>6. /\ attempts' \in Nat /\ window' \in BOOLEAN /\ audits' \in Nat
      /\ LimiterInv'
  <2>1. CASE UNCHANGED limiterVars
    BY <2>1 DEF limiterVars, LimiterInv, AccountsInv, TypeOK
  <2>2. CASE attempts' = 0 /\ window' = FALSE /\ audits' = 0
    BY <2>2, LimiterCleared
  <2>3. QED
    BY <2>1, <2>2 DEF ClearCounter
<1>7. faults' \in 0 .. MaxFaults
  BY <1>1, FaultFacts DEF ClearCounter
<1>8. QED
  BY <1>2, <1>3, <1>4, <1>5, <1>6, <1>7, CounterStep DEF mailVars, AccountsInv, TypeOK

LEMMA MailStep ==
  ASSUME AccountsInv, NEW r \in Requests, Mail(r)
  PROVE  AccountsInv'
<1>1. /\ local \in [Requests -> Locals] /\ faults \in 0 .. MaxFaults
      /\ local[r].token \in Tokens /\ registered
  BY DEF AccountsInv, TypeOK, RequestsInv, RequestInv, Mail, At, EarlySteps
<1>2. ~Evicting(r)
  BY DEF Mail, Evicting, At
<1>3. /\ local' \in [Requests -> Locals] /\ OthersStay(r) /\ local'[r].step = "done"
  BY <1>1, BeginFacts DEF Mail, Swallowed
<1>4. RequestInv(r)'
  BY <1>3, PlainRequest DEF EarlySteps
<1>5. mailbox' \subseteq Tokens /\ faults' \in 0 .. MaxFaults
  BY <1>1, FaultFacts DEF Mail, Swallowed, AccountsInv, TypeOK
<1>6. attempts' \in Nat /\ window' \in BOOLEAN /\ audits' \in Nat /\ LimiterInv'
  BY DEF Mail, limiterVars, LimiterInv, AccountsInv, TypeOK
<1>7. QED
  BY <1>1, <1>2, <1>3, <1>4, <1>5, <1>6, CounterStep DEF Mail

\* change-password signs before it evicts, in one step; login evicts nobody.
LEMMA SignStep ==
  ASSUME AccountsInv, NEW r \in Requests, Sign(r)
  PROVE  AccountsInv'
<1>1. /\ local \in [Requests -> Locals] /\ RequestInv(r) /\ local[r].step = "sign"
      /\ account \in Accounts /\ jwts \subseteq Jwts
  BY DEF AccountsInv, TypeOK, RequestsInv, Sign, At
<1>2. /\ account' = account /\ registered' = registered /\ lock' = lock
      /\ UNCHANGED <<limiterVars, mailVars, faults, epoch, honoured>>
      /\ jwts' = jwts \cup {Signed(r, local[r].version)}
  BY DEF Sign, accountVars
<1>3. registered /\ local[r].password \in Passwords
      /\ Current(local[r].version, local[r].password)
  BY <1>1 DEF RequestInv, Signing, At, EarlySteps
<1>4. /\ Signed(r, local[r].version) \in Jwts
      /\ Signed(r, local[r].version).version = local[r].version
      /\ Signed(r, local[r].version).password = local[r].password
  BY <1>1, <1>3 DEF Signed, Jwts, Locals
<1>5. /\ local' \in [Requests -> Locals] /\ OthersStay(r) /\ local'[r].step = "done"
  BY <1>1, BeginFacts DEF Sign
<1>6. RequestInv(r)'
  BY <1>5, PlainRequest DEF EarlySteps
<1>7. Moves
  BY <1>1, <1>2 DEF Moves
<1>8. RequestsInv'
  <2>1. \A q \in Requests \ {r} : At(q, "consume") => lock' = q
    BY <1>2 DEF AccountsInv, RequestsInv, RequestInv
  <2>2. QED
    BY <1>5, <1>6, <1>7, <2>1, RequestsKept
<1>9. JwtInv'
  <2> SUFFICES ASSUME NEW jwt \in jwts'
               PROVE  Current(jwt.version, jwt.password)
    BY <1>2 DEF JwtInv, Current
  <2>1. CASE jwt \in jwts
    BY <2>1 DEF AccountsInv, JwtInv
  <2>2. CASE jwt = Signed(r, local[r].version)
    BY <1>3, <1>4, <2>2
  <2>3. QED
    BY <1>2, <2>1, <2>2
<1>10. /\ sockets' \in [Sockets -> [step : SocketSteps, timer : BOOLEAN, jwt : Jwts]]
       /\ SocketInv'
  <2>1. CASE local[r].op = "change"
    BY <2>1, SocketsEvicted DEF Sign, SocketInv, AccountsInv
  <2>2. CASE local[r].op # "change"
    <3>1. sockets' = sockets /\ ~Evicting(r)
      BY <1>1, <2>2 DEF Sign, Evicting, At
    <3>2. QED
      BY <1>2, <1>5, <3>1, SocketsKept DEF AccountsInv, TypeOK
  <2>3. QED
    BY <2>1, <2>2
<1>11. TypeOK'
  BY <1>2, <1>4, <1>5, <1>10 DEF AccountsInv, TypeOK, limiterVars, mailVars
<1>12. FreshInv'
  BY <1>2, <1>3 DEF FreshInv
<1>13. LockInv' /\ TokenInv' /\ TokenHonouredOnce' /\ LimiterInv'
  BY <1>2 DEF AccountsInv, LockInv, TokenInv, TokenHonouredOnce, LimiterInv,
              limiterVars, mailVars
<1>14. QED
  BY <1>8, <1>9, <1>10, <1>11, <1>12, <1>13 DEF AccountsInv

LEMMA EmitStep ==
  ASSUME AccountsInv, NEW r \in Requests, Emit(r)
  PROVE  AccountsInv'
<1>1. local \in [Requests -> Locals] /\ account \in Accounts
      /\ local[r].step = "emit" /\ registered
  BY DEF AccountsInv, TypeOK, RequestsInv, RequestInv, EarlySteps, Emit, At
<1>2. /\ account' = account /\ registered' = registered /\ lock' = lock
      /\ UNCHANGED <<limiterVars, mailVars, jwts, faults, epoch, honoured>>
  BY DEF Emit, accountVars
<1>3. /\ local' \in [Requests -> Locals] /\ OthersStay(r) /\ local'[r].step = "done"
  BY <1>1, BeginFacts DEF Emit
<1>4. RequestInv(r)'
  BY <1>3, PlainRequest DEF EarlySteps
<1>5. Moves
  BY <1>1, <1>2 DEF Moves
<1>6. RequestsInv' /\ JwtInv'
  <2>1. \A q \in Requests \ {r} : At(q, "consume") => lock' = q
    BY <1>2 DEF AccountsInv, RequestsInv, RequestInv
  <2>2. QED
    BY <1>2, <1>3, <1>4, <1>5, <2>1, RequestsKept, JwtsKept
<1>7. /\ sockets' \in [Sockets -> [step : SocketSteps, timer : BOOLEAN, jwt : Jwts]]
      /\ SocketInv'
  BY SocketsEvicted DEF Emit, SocketInv, AccountsInv
<1>8. TypeOK'
  BY <1>2, <1>3, <1>7 DEF AccountsInv, TypeOK, limiterVars, mailVars
<1>9. FreshInv'
  BY <1>1, <1>2 DEF FreshInv
<1>10. LockInv' /\ TokenInv' /\ TokenHonouredOnce' /\ LimiterInv'
  BY <1>2 DEF AccountsInv, LockInv, TokenInv, TokenHonouredOnce, LimiterInv,
              limiterVars, mailVars
<1>11. QED
  BY <1>6, <1>7, <1>8, <1>9, <1>10 DEF AccountsInv

\* A step of one request that writes the account.
LEMMA AccountStep ==
  ASSUME AccountsInv, NEW r \in Requests, registered, Moves,
         local' \in [Requests -> Locals], OthersStay(r), RequestInv(r)',
         \/ Evicting(r)'
         \/ /\ ~Evicting(r)
            /\ account'.version = account.version
            /\ account'.disabled => account.disabled,
         lock = Nobody \/ lock = r, lock' = Nobody,
         era' \in [Tokens -> Nat], epoch' \in Nat,
         honoured' \subseteq [token : ResetTokens, by : Requests,
                              disabled : BOOLEAN, outdated : BOOLEAN],
         TokenInv', TokenHonouredOnce',
         UNCHANGED <<registered, limiterVars, mailbox, sessionVars, faults>>
  PROVE  AccountsInv'
<1>1. TypeOK'
  BY DEF AccountsInv, TypeOK, Moves, limiterVars, sessionVars
<1>2. RequestsInv' /\ JwtInv'
  <2>1. \A q \in Requests \ {r} : ~At(q, "consume")
    BY AccountsAssumption DEF AccountsInv, RequestsInv, RequestInv
  <2>2. QED
    BY <2>1, RequestsKept, JwtsKept DEF sessionVars
<1>3. SocketInv'
  BY SocketsKept DEF sessionVars
<1>4. FreshInv' /\ LockInv' /\ LimiterInv'
  BY DEF AccountsInv, FreshInv, LockInv, LimiterInv, limiterVars
<1>5. QED
  BY <1>1, <1>2, <1>3, <1>4 DEF AccountsInv

LEMMA WriteNewPasswordStep ==
  ASSUME AccountsInv, NEW r \in Requests, WriteNewPassword(r)
  PROVE  AccountsInv'
<1>1. /\ local \in [Requests -> Locals] /\ local[r].step = "change"
      /\ account \in Accounts /\ registered /\ local[r].password \in Passwords
      /\ epoch \in Nat /\ lock = Nobody
      /\ RequestInv(r)
  BY DEF AccountsInv, TypeOK, RequestsInv, RequestInv, EarlySteps, WriteNewPassword, At,
         Unlocked
<1>2. /\ account' = ChangePassword(account, local[r].password) /\ epoch' = epoch + 1
      /\ registered' = registered /\ lock' = lock
      /\ UNCHANGED <<limiterVars, mailVars, sessionVars, faults, honoured>>
      /\ local' = [local EXCEPT ![r].step = "sign", ![r].version = account'.version]
  BY DEF WriteNewPassword
<1>3. /\ account' \in Accounts /\ account'.version = account.version + 1
      /\ account'.password = local[r].password
      /\ \A t \in Tokens : account'.tokens[t] # "issued"
      /\ \A t \in Tokens : account.tokens[t] = "used" => account'.tokens[t] = "used"
  BY <1>1, <1>2, AccountFacts, NewPasswordFacts
<1>4. account'.version \in Nat /\ account.version \in Nat
  BY <1>1, <1>3 DEF Accounts
<1>5. Moves
  BY <1>1, <1>2, <1>3, <1>4 DEF Moves
<1>6. /\ local' \in [Requests -> Locals] /\ OthersStay(r)
      /\ local'[r].step = "sign" /\ local'[r].version = account'.version
      /\ local'[r].password = local[r].password /\ local'[r].op = local[r].op
  <2> DEFINE new == [local[r] EXCEPT !.step = "sign", !.version = account'.version]
  <2>1. /\ new \in Locals /\ new.step = "sign" /\ new.version = account'.version
        /\ new.password = local[r].password /\ new.op = local[r].op
    BY <1>1, <1>4 DEF Locals, Steps
  <2>2. local' = [local EXCEPT ![r] = new]
    BY <1>1, <1>2
  <2> HIDE DEF new
  <2>3. QED
    BY <1>1, <2>1, <2>2, ReceiveFacts
<1>7. RequestInv(r)'
  <2>1. Current(local[r].version, local[r].password)'
    BY <1>3, <1>4, <1>6 DEF Current
  <2>2. QED
    BY <1>1, <1>2, <1>6, <2>1 DEF RequestInv, At
<1>8. Evicting(r)'
  BY <1>1, <1>6 DEF Evicting, At, RequestInv
<1>9. TokenInv' /\ TokenHonouredOnce'
  BY <1>2, <1>3 DEF AccountsInv, TypeOK, TokenInv, TokenHonouredOnce, Tokens
<1>10. era' \in [Tokens -> Nat] /\ mailbox' = mailbox /\ epoch' \in Nat
       /\ honoured' \subseteq [token : ResetTokens, by : Requests,
                               disabled : BOOLEAN, outdated : BOOLEAN]
  BY <1>1, <1>2 DEF AccountsInv, TypeOK, mailVars
<1>11. QED
  BY <1>1, <1>2, <1>5, <1>6, <1>7, <1>8, <1>9, <1>10, AccountStep

LEMMA LogoutStep ==
  ASSUME AccountsInv, NEW r \in Requests, Logout(r)
  PROVE  AccountsInv'
<1>1. /\ local \in [Requests -> Locals] /\ local[r].step = "revoke"
      /\ account \in Accounts /\ registered /\ lock = Nobody
  BY DEF AccountsInv, TypeOK, RequestsInv, RequestInv, EarlySteps, Logout, At, Unlocked
<1>2. /\ account' = RevokeSessions(account)
      /\ registered' = registered /\ lock' = lock
      /\ UNCHANGED <<limiterVars, mailVars, sessionVars, faults, epoch, honoured>>
  BY DEF Logout
<1>3. /\ account' \in Accounts /\ account'.version = account.version + 1
      /\ account'.tokens = account.tokens
  BY <1>1, <1>2 DEF RevokeSessions, Accounts
<1>4. Moves
  <2>1. account.version \in Nat
    BY <1>1 DEF Accounts
  <2>2. QED
    BY <1>1, <1>2, <1>3, <2>1 DEF Moves
<1>5. /\ local' \in [Requests -> Locals] /\ OthersStay(r) /\ local'[r].step = "emit"
  BY <1>1, GotoFacts DEF Logout, Steps
<1>6. RequestInv(r)' /\ Evicting(r)'
  BY <1>1, <1>2, <1>5, PlainRequest DEF Evicting, At
<1>7. TokenInv' /\ TokenHonouredOnce'
  BY <1>2, <1>3 DEF AccountsInv, TokenInv, TokenHonouredOnce, mailVars
<1>8. era' \in [Tokens -> Nat] /\ mailbox' = mailbox /\ epoch' \in Nat
      /\ honoured' \subseteq [token : ResetTokens, by : Requests,
                              disabled : BOOLEAN, outdated : BOOLEAN]
  BY <1>2 DEF AccountsInv, TypeOK, mailVars
<1>9. QED
  BY <1>1, <1>2, <1>4, <1>5, <1>6, <1>7, <1>8, AccountStep

LEMMA WriteDisabledStep ==
  ASSUME AccountsInv, NEW r \in Requests, WriteDisabled(r)
  PROVE  AccountsInv'
<1>1. /\ local \in [Requests -> Locals] /\ local[r].step = "setDisabled"
      /\ account \in Accounts /\ registered /\ lock = Nobody
  BY DEF AccountsInv, TypeOK, RequestsInv, RequestInv, EarlySteps, WriteDisabled, At,
         Unlocked
<1>2. /\ account' = SetDisabled(account, local[r].op = "disable")
      /\ registered' = registered /\ lock' = lock
      /\ UNCHANGED <<limiterVars, mailVars, sessionVars, faults, epoch, honoured>>
  BY DEF WriteDisabled
<1>3. /\ account' \in Accounts /\ account'.version = account.version
      /\ account'.password = account.password /\ account'.tokens = account.tokens
      /\ account'.disabled = (local[r].op = "disable")
  <2>1. \A b \in BOOLEAN :
          /\ SetDisabled(account, b) \in Accounts
          /\ SetDisabled(account, b).version = account.version
          /\ SetDisabled(account, b).password = account.password
          /\ SetDisabled(account, b).tokens = account.tokens
          /\ SetDisabled(account, b).disabled = b
    BY <1>1 DEF SetDisabled, Accounts
  <2>2. QED
    BY <1>2, <2>1
<1>4. Moves
  BY <1>1, <1>2, <1>3 DEF Moves
<1>5. /\ local' \in [Requests -> Locals] /\ OthersStay(r)
      /\ local'[r].step = IF local[r].op = "disable" THEN "emit" ELSE "done"
  <2>1. CASE local[r].op = "disable"
    BY <1>1, <2>1, GotoFacts DEF WriteDisabled, Steps
  <2>2. CASE local[r].op # "disable"
    BY <1>1, <2>2, BeginFacts DEF WriteDisabled
  <2>3. QED
    BY <2>1, <2>2
<1>6. RequestInv(r)'
  BY <1>1, <1>2, <1>5, PlainRequest
<1>7. Evicting(r)' \/ (~Evicting(r) /\ ~account'.disabled)
  BY <1>1, <1>3, <1>5 DEF Evicting, At
<1>8. TokenInv' /\ TokenHonouredOnce'
  BY <1>2, <1>3 DEF AccountsInv, TokenInv, TokenHonouredOnce, mailVars
<1>9. era' \in [Tokens -> Nat] /\ mailbox' = mailbox /\ epoch' \in Nat
      /\ honoured' \subseteq [token : ResetTokens, by : Requests,
                              disabled : BOOLEAN, outdated : BOOLEAN]
  BY <1>2 DEF AccountsInv, TypeOK, mailVars
<1>10. QED
  BY <1>1, <1>2, <1>3, <1>4, <1>5, <1>6, <1>7, <1>8, <1>9, AccountStep

\* The lock is taken only on a row that is not disabled.
LEMMA LockOwnerStep ==
  ASSUME AccountsInv, NEW r \in Requests, LockOwner(r)
  PROVE  AccountsInv'
<1>1. /\ local \in [Requests -> Locals] /\ local[r].step = "lock" /\ registered
      /\ RequestInv(r) /\ lock = Nobody /\ faults' \in 0 .. MaxFaults
  BY DEF AccountsInv, TypeOK, RequestsInv, RequestInv, EarlySteps, LockOwner, At, Unlocked
<1>2. ~Evicting(r) /\ \A q \in Requests : ~At(q, "consume")
  BY <1>1, AccountsAssumption DEF Evicting, At, AccountsInv, RequestsInv, RequestInv
<1>3. UNCHANGED <<accountVars, limiterVars, mailVars, sessionVars, epoch, honoured>>
  BY DEF LockOwner
<1>4. CASE Done(r) /\ lock' = lock
  <2>1. /\ local' \in [Requests -> Locals] /\ OthersStay(r) /\ local'[r].step = "done"
    BY <1>1, <1>4, BeginFacts
  <2>2. RequestInv(r)'
    BY <2>1, PlainRequest DEF EarlySteps
  <2>3. QED
    BY <1>1, <1>2, <1>3, <1>4, <2>1, <2>2, LocalStep
<1>5. CASE ~account.disabled /\ lock' = r /\ Goto(r, "consume")
  <2>1. /\ local' \in [Requests -> Locals] /\ OthersStay(r)
        /\ local'[r].step = "consume" /\ local'[r].op = local[r].op
        /\ local'[r].password = local[r].password /\ local'[r].token = local[r].token
    BY <1>1, <1>5, GotoFacts DEF Steps
  <2>2. RequestInv(r)'
    BY <1>1, <1>3, <1>5, <2>1 DEF RequestInv, Signing, At, accountVars
  <2>3. QED
    BY <1>1, <1>2, <1>3, <1>5, <2>1, <2>2, LocalStep
<1>6. QED
  BY <1>4, <1>5 DEF LockOwner

\* A reset is honoured with a token of this epoch, on a row that is locked and
\* so not disabled, and spends it.
LEMMA ConsumeStep ==
  ASSUME AccountsInv, NEW r \in Requests, Consume(r)
  PROVE  AccountsInv'
<1> DEFINE t == local[r].token
<1>1. /\ local \in [Requests -> Locals] /\ local[r].step = "consume" /\ registered
      /\ RequestInv(r) /\ lock = r /\ lock' = Nobody /\ account \in Accounts
      /\ ~account.disabled /\ t \in Tokens /\ epoch \in Nat /\ ~Evicting(r)
  BY AccountsAssumption
     DEF AccountsInv, TypeOK, RequestsInv, RequestInv, EarlySteps, Consume, At, LockInv,
         Tokens, Evicting
<1>2. /\ registered' = registered /\ mailbox' = mailbox /\ era' = era
      /\ UNCHANGED <<limiterVars, sessionVars, faults>>
      /\ era' \in [Tokens -> Nat]
  BY DEF Consume, mailVars, AccountsInv, TypeOK
<1>3. CASE CanConsume(account, t) /\ local[r].op = "reset"
  <2>1. /\ account' = ResetPassword(account, local[r].password)
        /\ epoch' = epoch + 1
        /\ honoured' = honoured \cup {[token |-> t, by |-> r,
             disabled |-> account.disabled, outdated |-> era[t] # epoch]}
        /\ Goto(r, "clear")
    BY <1>3 DEF Consume
  <2>2. t \in ResetTokens /\ local[r].password \in Passwords
    BY <1>1, <1>3 DEF RequestInv
  <2>3. /\ account' \in Accounts /\ account'.version = account.version + 1
        /\ \A u \in Tokens : account'.tokens[u] # "issued"
        /\ \A u \in Tokens :
             account.tokens[u] \in {"issued", "used"} => account'.tokens[u] = "used"
    BY <1>1, <2>1, <2>2, AccountFacts, NewPasswordFacts
  <2>4. Moves
    <3>1. account.version \in Nat
      BY <1>1 DEF Accounts
    <3>2. QED
      BY <1>1, <1>2, <2>3, <3>1 DEF Moves
  <2>5. /\ local' \in [Requests -> Locals] /\ OthersStay(r)
        /\ local'[r].step = "clear" /\ local'[r].op = "reset"
    BY <1>1, <1>3, <2>1, GotoFacts DEF Steps
  <2>6. RequestInv(r)' /\ Evicting(r)'
    BY <1>1, <1>2, <2>5 DEF RequestInv, Signing, Evicting, At
  <2>7. account.tokens[t] = "issued" /\ era[t] = epoch
    BY <1>1, <1>3 DEF CanConsume, AccountsInv, TokenInv
  <2> DEFINE new == [token |-> t, by |-> r, disabled |-> account.disabled,
                     outdated |-> era[t] # epoch]
  <2>8. /\ new \in [token : ResetTokens, by : Requests,
                     disabled : BOOLEAN, outdated : BOOLEAN]
        /\ new.token = t /\ ~new.outdated /\ ~new.disabled
    <3>1. (era[t] # epoch) \in BOOLEAN /\ ~(era[t] # epoch)
      BY <2>7
    <3>2. account.disabled \in BOOLEAN
      BY <1>1 DEF Accounts
    <3>3. QED
      BY <1>1, <2>2, <3>1, <3>2
  <2>9. \A a \in honoured : account.tokens[a.token] = "used" /\ a.token \in Tokens
    BY DEF AccountsInv, TypeOK, TokenInv, Tokens
  <2>10. honoured' = honoured \cup {new}
    BY <2>1
  <2> HIDE DEF new
  <2>11. TokenInv'
    BY <1>1, <2>3, <2>7, <2>8, <2>9, <2>10 DEF TokenInv
  <2>12. TokenHonouredOnce'
    <3>1. \A a \in honoured : a.token # t
      BY <2>7, <2>9
    <3>2. QED
      BY <2>8, <2>10, <3>1 DEF AccountsInv, TokenHonouredOnce
  <2>13. /\ epoch' \in Nat
         /\ honoured' \subseteq [token : ResetTokens, by : Requests,
                                 disabled : BOOLEAN, outdated : BOOLEAN]
    BY <1>1, <2>1, <2>8, <2>10 DEF AccountsInv, TypeOK
  <2>14. QED
    BY <1>1, <1>2, <2>4, <2>5, <2>6, <2>11, <2>12, <2>13, AccountStep
<1>4. CASE CanConsume(account, t) /\ local[r].op # "reset"
  <2>1. account' = VerifyEmail(account, t) /\ Done(r) /\ UNCHANGED <<epoch, honoured>>
    BY <1>4 DEF Consume
  <2>2. /\ account' \in Accounts /\ account'.version = account.version
        /\ account'.password = account.password /\ account'.disabled = account.disabled
        /\ account'.tokens = [account.tokens EXCEPT ![t] = "used"]
    BY <1>1, <2>1, AccountFacts DEF VerifyEmail, Accounts
  <2>3. account.tokens \in [Tokens -> {"none", "issued", "used", "expired"}]
    BY <1>1 DEF Accounts
  <2>4. Moves
    BY <1>1, <1>2, <2>2 DEF Moves
  <2>5. /\ local' \in [Requests -> Locals] /\ OthersStay(r) /\ local'[r].step = "done"
    BY <1>1, <2>1, BeginFacts
  <2>6. RequestInv(r)'
    BY <2>5, PlainRequest DEF EarlySteps
  <2>7. TokenInv'
    BY <1>1, <1>2, <2>1, <2>2, <2>3 DEF AccountsInv, TokenInv, TypeOK, Tokens
  <2>8. /\ TokenHonouredOnce' /\ epoch' \in Nat
        /\ honoured' \subseteq [token : ResetTokens, by : Requests,
                                disabled : BOOLEAN, outdated : BOOLEAN]
    BY <2>1 DEF AccountsInv, TypeOK, TokenHonouredOnce
  <2>9. QED
    BY <1>1, <1>2, <2>2, <2>4, <2>5, <2>6, <2>7, <2>8, AccountStep
<1>5. CASE ~CanConsume(account, t)
  <2>1. Done(r) /\ UNCHANGED <<account, epoch, honoured>>
    BY <1>5 DEF Consume
  <2>2. /\ local' \in [Requests -> Locals] /\ OthersStay(r) /\ local'[r].step = "done"
    BY <1>1, <2>1, BeginFacts
  <2>3. RequestInv(r)'
    BY <2>2, PlainRequest DEF EarlySteps
  <2>4. Moves
    BY <1>1, <1>2, <2>1 DEF Moves
  <2>5. /\ TokenInv' /\ TokenHonouredOnce' /\ epoch' \in Nat
        /\ honoured' \subseteq [token : ResetTokens, by : Requests,
                                disabled : BOOLEAN, outdated : BOOLEAN]
    BY <1>2, <2>1 DEF AccountsInv, TypeOK, TokenInv, TokenHonouredOnce
  <2>6. QED
    BY <1>1, <1>2, <2>1, <2>2, <2>3, <2>4, <2>5, AccountStep
<1>6. QED
  BY <1>3, <1>4, <1>5

LEMMA IssueTokenStep ==
  ASSUME AccountsInv, NEW r \in Requests, IssueToken(r)
  PROVE  AccountsInv'
<1>1. /\ local \in [Requests -> Locals] /\ local[r].step = "issue" /\ registered
      /\ account \in Accounts /\ lock = Nobody /\ ~Evicting(r)
      /\ epoch \in Nat /\ era \in [Tokens -> Nat] /\ RequestInv(r)
  BY DEF AccountsInv, TypeOK, RequestsInv, RequestInv, EarlySteps, IssueToken, At,
         Unlocked, Evicting
<1>2. /\ lock' = Nobody /\ epoch' \in Nat /\ TokenHonouredOnce'
      /\ honoured' \subseteq [token : ResetTokens, by : Requests,
                              disabled : BOOLEAN, outdated : BOOLEAN]
      /\ honoured' = honoured /\ epoch' = epoch
      /\ UNCHANGED <<registered, limiterVars, mailbox, sessionVars, faults>>
  BY <1>1 DEF IssueToken, AccountsInv, TypeOK, TokenHonouredOnce
<1>3. CASE Done(r) /\ UNCHANGED <<account, era>>
  <2>1. /\ local' \in [Requests -> Locals] /\ OthersStay(r) /\ local'[r].step = "done"
    BY <1>1, <1>3, BeginFacts
  <2>2. RequestInv(r)'
    BY <2>1, PlainRequest DEF EarlySteps
  <2>3. Moves
    BY <1>1, <1>2, <1>3 DEF Moves
  <2>4. TokenInv' /\ era' \in [Tokens -> Nat]
    BY <1>1, <1>2, <1>3 DEF AccountsInv, TokenInv
  <2>5. QED
    BY <1>1, <1>2, <1>3, <2>1, <2>2, <2>3, <2>4, AccountStep
<1>4. ASSUME NEW type \in TokenTypes, NEW t \in Tokens, account.tokens[t] = "none",
             account' = Issue(account, t, type),
             era' = [era EXCEPT ![t] = epoch],
             local' = [local EXCEPT ![r].step = "mail", ![r].token = t]
      PROVE  AccountsInv'
  <2>1. /\ account' \in Accounts /\ account'.version = account.version
        /\ account'.password = account.password /\ account'.disabled = account.disabled
        /\ account'.tokens = [account.tokens EXCEPT ![t] = "issued"]
    <3>1. /\ account'.version = account.version
          /\ account'.password = account.password /\ account'.disabled = account.disabled
          /\ account'.tokens = [account.tokens EXCEPT ![t] = "issued"]
      BY <1>1, <1>4 DEF Issue, Accounts
    <3>2. account' \in Accounts
      <4>1. account.recent \cup {type} \in SUBSET TokenTypes
        BY <1>1 DEF Accounts
      <4>2. QED
        BY <1>1, <1>4, <4>1 DEF Issue, Accounts
    <3>3. QED
      BY <3>1, <3>2
  <2>2. account.tokens \in [Tokens -> {"none", "issued", "used", "expired"}]
    BY <1>1 DEF Accounts
  <2>3. Moves
    BY <1>1, <1>2, <2>1 DEF Moves
  <2>4. /\ local' \in [Requests -> Locals] /\ OthersStay(r)
        /\ local'[r].step = "mail" /\ local'[r].token = t
    <3> DEFINE new == [local[r] EXCEPT !.step = "mail", !.token = t]
    <3>1. new \in Locals /\ new.step = "mail" /\ new.token = t
      BY <1>1 DEF Locals, Steps
    <3>2. local' = [local EXCEPT ![r] = new]
      BY <1>1, <1>4
    <3> HIDE DEF new
    <3>3. QED
      BY <1>1, <3>1, <3>2, ReceiveFacts
  <2>5. RequestInv(r)'
    BY <1>1, <1>2, <2>4 DEF RequestInv, Signing, At
  <2>6. TokenInv' /\ era' \in [Tokens -> Nat]
    BY <1>1, <1>2, <1>4, <2>1, <2>2 DEF AccountsInv, TokenInv, TypeOK, Tokens
  <2>7. QED
    BY <1>1, <1>2, <2>1, <2>3, <2>4, <2>5, <2>6, AccountStep
<1>5. QED
  BY <1>3, <1>4 DEF IssueToken, TypeFor, OfType, TokenTypes, Tokens

\* A query fails: the transaction's lock goes with it.
LEMMA QueryFailsStep ==
  ASSUME AccountsInv, NEW r \in Requests, QueryFails(r)
  PROVE  AccountsInv'
<1>1. local \in [Requests -> Locals] /\ ~Evicting(r)
  BY DEF AccountsInv, TypeOK, QueryFails, Evicting, At
<1>2. faults' \in 0 .. MaxFaults
  BY FaultFacts DEF QueryFails, AccountsInv, TypeOK
<1>3. /\ local' \in [Requests -> Locals] /\ OthersStay(r) /\ local'[r].step = "done"
  BY <1>1, BeginFacts DEF QueryFails
<1>4. RequestInv(r)'
  BY <1>3, PlainRequest DEF EarlySteps
<1>5. /\ lock' \in Requests \cup {Nobody} /\ (lock' # Nobody => ~account.disabled)
      /\ \A q \in Requests \ {r} : At(q, "consume") => lock' = q
  BY DEF QueryFails, AccountsInv, TypeOK, LockInv, RequestsInv, RequestInv
<1>6. QED
  BY <1>1, <1>2, <1>3, <1>4, <1>5, LocalStep DEF QueryFails

-----------------------------------------------------------------------------
(* The gateway, time and crashes. *)

\* A step that leaves the requests and the account alone.
LEMMA SessionStep ==
  ASSUME AccountsInv, jwts' \subseteq jwts,
         sockets' \in [Sockets -> [step : SocketSteps, timer : BOOLEAN, jwt : Jwts]],
         SocketInv', registered \/ sockets' = sockets,
         faults' \in 0 .. MaxFaults,
         UNCHANGED <<accountVars, lock, limiterVars, mailVars, local, epoch, honoured>>
  PROVE  AccountsInv'
<1>1. TypeOK'
  BY DEF AccountsInv, TypeOK, accountVars, limiterVars, mailVars
<1>2. Moves
  BY DEF AccountsInv, TypeOK, Moves, accountVars
<1>3. RequestsInv' /\ JwtInv'
  BY <1>2, AllRequestsKept, JwtsKept
<1>4. FreshInv' /\ LockInv' /\ TokenInv' /\ TokenHonouredOnce' /\ LimiterInv'
  BY DEF AccountsInv, FreshInv, LockInv, TokenInv, TokenHonouredOnce, LimiterInv,
         accountVars, limiterVars, mailVars
<1>5. QED
  BY <1>1, <1>3, <1>4 DEF AccountsInv

\* One socket changes; past its account check it is accepted.
LEMMA SocketMoved ==
  ASSUME AccountsInv, NEW s \in Sockets,
         NEW new \in [step : SocketSteps, timer : BOOLEAN, jwt : Jwts],
         sockets' = [sockets EXCEPT ![s] = new],
         account' = account, local' = local,
         new.step \in {"decide", "ready"} =>
           \/ Accepted(new.jwt.version)
           \/ sockets[s].step \in {"decide", "ready"} /\ new.jwt = sockets[s].jwt
  PROVE  /\ sockets' \in [Sockets -> [step : SocketSteps, timer : BOOLEAN, jwt : Jwts]]
         /\ SocketInv'
<1>1. /\ sockets' \in [Sockets -> [step : SocketSteps, timer : BOOLEAN, jwt : Jwts]]
      /\ sockets'[s] = new /\ \A z \in Sockets \ {s} : sockets'[z] = sockets[z]
  BY DEF AccountsInv, TypeOK
<1>2. \A r \in Requests : Evicting(r) => Evicting(r)'
  BY DEF Evicting, At
<1>3. SocketInv'
  BY <1>1, <1>2 DEF AccountsInv, SocketInv, Accepted
<1>4. QED
  BY <1>1, <1>3

LEMMA GatewayStep ==
  ASSUME AccountsInv, NEW s \in Sockets, Gateway(s)
  PROVE  AccountsInv'
<1> DEFINE SocketType == [step : SocketSteps, timer : BOOLEAN, jwt : Jwts]
<1>1. /\ sockets \in [Sockets -> SocketType] /\ sockets[s] \in SocketType
      /\ faults \in 0 .. MaxFaults /\ jwts \subseteq Jwts
  BY DEF AccountsInv, TypeOK
<1>2. /\ account' = account /\ local' = local /\ jwts' = jwts
      /\ UNCHANGED <<accountVars, lock, limiterVars, mailVars, local, epoch, honoured>>
  BY DEF Gateway, Connect, Join, ReadAccount, Ready, ExpiryTimer, Subscribe, accountVars
<1>3. faults' \in 0 .. MaxFaults
  BY <1>1, FaultFacts
     DEF Gateway, Connect, Join, ReadAccount, Ready, ExpiryTimer, Subscribe
<1>4. registered
  BY DEF Gateway, Connect, Join, ReadAccount, Ready, ExpiryTimer, Subscribe, Socket,
         AccountsInv, FreshInv
<1>5. PICK new \in SocketType :
        /\ sockets' = [sockets EXCEPT ![s] = new]
        /\ new.step \in {"decide", "ready"} =>
             \/ Accepted(new.jwt.version)
             \/ sockets[s].step \in {"decide", "ready"} /\ new.jwt = sockets[s].jwt
  <2>1. CASE Connect(s)
    <3>1. PICK jwt \in jwts :
            sockets' = [sockets EXCEPT ![s].step = "join", ![s].jwt = jwt]
      BY <2>1 DEF Connect
    <3>2. [sockets[s] EXCEPT !.step = "join", !.jwt = jwt] \in SocketType
      BY <1>1 DEF SocketSteps
    <3>3. /\ sockets' = [sockets EXCEPT ![s] =
                          [sockets[s] EXCEPT !.step = "join", !.jwt = jwt]]
          /\ [sockets[s] EXCEPT !.step = "join", !.jwt = jwt].step = "join"
      BY <1>1, <3>1
    <3>4. QED
      BY <3>2, <3>3
  <2>2. ASSUME NEW step \in SocketSteps, Move(s, step),
               step \in {"decide", "ready"} => Accepted(sockets[s].jwt.version)
        PROVE  \E new \in SocketType :
                 /\ sockets' = [sockets EXCEPT ![s] = new]
                 /\ new.step \in {"decide", "ready"} => Accepted(new.jwt.version)
    <3> DEFINE new == [sockets[s] EXCEPT !.step = step]
    <3>1. new \in SocketType /\ new.step = step /\ new.jwt = sockets[s].jwt
      BY <1>1
    <3>2. sockets' = [sockets EXCEPT ![s] = new]
      BY <1>1, <2>2 DEF Move
    <3> HIDE DEF new
    <3>3. QED
      BY <2>2, <3>1, <3>2
  <2>3. CASE Join(s)
    BY <2>2, <2>3 DEF Join, SocketSteps
  <2>4. CASE ReadAccount(s)
    <3>1. \/ Move(s, "decide") /\ Accepted(sockets[s].jwt.version)
          \/ Move(s, "gone")
      BY <2>4 DEF ReadAccount
    <3>2. QED
      BY <2>2, <3>1 DEF SocketSteps
  <2>5. CASE ExpiryTimer(s) \/ Subscribe(s)
    BY <2>2, <2>5 DEF ExpiryTimer, Subscribe, SocketSteps
  <2>6. CASE Ready(s)
    <3> DEFINE step == IF sockets[s].jwt \in jwts THEN "ready" ELSE "gone"
               armed == sockets[s].jwt \in jwts
               new == [sockets[s] EXCEPT !.step = step, !.timer = armed]
    <3>1. step \in SocketSteps /\ armed \in BOOLEAN
      BY DEF SocketSteps
    <3>2. sockets' = [sockets EXCEPT ![s].step = step, ![s].timer = armed]
      BY <2>6 DEF Ready
    <3> HIDE DEF step, armed
    <3>3. sockets' = [sockets EXCEPT ![s] = new]
      BY <1>1, <3>2
    <3>4. new \in SocketType /\ new.jwt = sockets[s].jwt
      BY <1>1, <3>1
    <3>5. sockets[s].step = "decide"
      BY <2>6 DEF Ready, Socket
    <3> HIDE DEF new
    <3>6. QED
      BY <3>3, <3>4, <3>5
  <2>7. QED
    BY <2>1, <2>3, <2>4, <2>5, <2>6 DEF Gateway
<1>6. sockets' \in [Sockets -> SocketType] /\ SocketInv'
  BY <1>2, <1>5, SocketMoved
<1>7. QED
  BY <1>2, <1>3, <1>4, <1>6, SessionStep

LEMMA JwtExpiresStep ==
  ASSUME AccountsInv, JwtExpires
  PROVE  AccountsInv'
<1>1. SocketInv'
  BY DEF AccountsInv, JwtExpires, SocketInv, Accepted, Evicting, At, accountVars
<1>2. jwts' \subseteq jwts /\ sockets' = sockets
  BY DEF JwtExpires
<1>3. QED
  BY <1>1, <1>2, SessionStep DEF JwtExpires, AccountsInv, TypeOK

LEMMA WindowEndsStep ==
  ASSUME AccountsInv, WindowEnds
  PROVE  AccountsInv'
<1>1. attempts' \in Nat /\ window' \in BOOLEAN /\ audits' \in Nat /\ LimiterInv'
  BY LimiterCleared DEF WindowEnds
<1>2. TypeOK'
  BY <1>1 DEF AccountsInv, TypeOK, WindowEnds, accountVars, mailVars, sessionVars
<1>3. Moves
  BY DEF AccountsInv, TypeOK, Moves, WindowEnds, accountVars
<1>4. RequestsInv' /\ JwtInv'
  BY <1>3, AllRequestsKept, JwtsKept DEF WindowEnds, sessionVars
<1>5. SocketInv'
  BY DEF AccountsInv, WindowEnds, SocketInv, Accepted, Evicting, At, accountVars, sessionVars
<1>6. FreshInv' /\ LockInv' /\ TokenInv' /\ TokenHonouredOnce'
  BY DEF AccountsInv, WindowEnds, FreshInv, LockInv, TokenInv, TokenHonouredOnce,
         accountVars, mailVars, sessionVars
<1>7. QED
  BY <1>1, <1>2, <1>4, <1>5, <1>6 DEF AccountsInv

\* Time passes for the account's tokens.
LEMMA TimeStep ==
  ASSUME AccountsInv, TokenExpires \/ IntervalPasses
  PROVE  AccountsInv'
<1>1. /\ account \in Accounts
      /\ UNCHANGED <<registered, lock, limiterVars, mailVars, local, sessionVars,
                     faults, epoch, honoured>>
  BY DEF AccountsInv, TypeOK, TokenExpires, IntervalPasses
<1>2. /\ account' \in Accounts /\ account'.version = account.version
      /\ account'.password = account.password /\ account'.disabled = account.disabled
      /\ \A u \in Tokens :
           \/ account'.tokens[u] = account.tokens[u]
           \/ account.tokens[u] = "issued" /\ account'.tokens[u] = "expired"
  <2>1. CASE TokenExpires
    <3>1. PICK t \in Tokens : account.tokens[t] = "issued"
                               /\ account' = [account EXCEPT !.tokens[t] = "expired"]
      BY <2>1 DEF TokenExpires
    <3>2. QED
      BY <1>1, <3>1 DEF Accounts
  <2>2. CASE IntervalPasses
    <3>1. PICK type \in account.recent : account' = [account EXCEPT !.recent = @ \ {type}]
      BY <2>2 DEF IntervalPasses
    <3>2. account.recent \ {type} \in SUBSET TokenTypes
      BY <1>1 DEF Accounts
    <3>3. QED
      BY <1>1, <3>1, <3>2 DEF Accounts
  <2>3. QED
    BY <2>1, <2>2
<1>3. TypeOK'
  BY <1>1, <1>2 DEF AccountsInv, TypeOK, limiterVars, mailVars, sessionVars
<1>4. Moves
  BY <1>1, <1>2 DEF Moves
<1>5. RequestsInv' /\ JwtInv'
  BY <1>1, <1>4, AllRequestsKept, JwtsKept DEF sessionVars
<1>6. SocketInv'
  BY <1>1, <1>2 DEF AccountsInv, SocketInv, Accepted, Evicting, At, sessionVars
<1>7. FreshInv' /\ LockInv' /\ TokenHonouredOnce' /\ LimiterInv'
  BY <1>1, <1>2 DEF AccountsInv, FreshInv, LockInv, TokenHonouredOnce, LimiterInv,
                    limiterVars, mailVars, sessionVars
<1>8. TokenInv'
  BY <1>1, <1>2 DEF AccountsInv, TypeOK, TokenInv, Tokens, mailVars
<1>9. QED
  BY <1>3, <1>5, <1>6, <1>7, <1>8 DEF AccountsInv

LEMMA CrashStep ==
  ASSUME AccountsInv, Crash
  PROVE  AccountsInv'
<1>1. /\ account' = account /\ registered' = registered /\ lock' = Nobody
      /\ UNCHANGED <<accountVars, limiterVars, mailVars, jwts, epoch, honoured>>
      /\ local \in [Requests -> Locals]
  BY DEF Crash, accountVars, AccountsInv, TypeOK
<1>2. [Idle EXCEPT !.step = "done"] \in Locals /\ [Idle EXCEPT !.step = "done"].step = "done"
  BY DEF Idle, Locals, Operations, Steps
<1>3. local' \in [Requests -> Locals] /\ \A r \in Requests : local'[r].step \in {"idle", "done"}
  BY <1>1, <1>2 DEF Crash, At
<1>4. RequestsInv'
  BY <1>3, PlainRequest DEF RequestsInv, EarlySteps
<1>5. /\ sockets' \in [Sockets -> [step : SocketSteps, timer : BOOLEAN, jwt : Jwts]]
      /\ \A s \in Sockets : sockets'[s].step \in {"off", "gone"}
      /\ \A s \in Sockets : sockets[s].step = "off" => sockets'[s].step = "off"
  <2>1. \A s \in Sockets :
          /\ [sockets[s] EXCEPT !.step = "gone"] \in
               [step : SocketSteps, timer : BOOLEAN, jwt : Jwts]
          /\ [sockets[s] EXCEPT !.step = "gone"].step = "gone"
    BY DEF AccountsInv, TypeOK, SocketSteps
  <2>2. QED
    BY <2>1 DEF Crash, Socket, AccountsInv, TypeOK
<1>6. faults' \in 0 .. MaxFaults
  BY FaultFacts DEF Crash, AccountsInv, TypeOK
<1>7. TypeOK'
  BY <1>1, <1>3, <1>5, <1>6 DEF AccountsInv, TypeOK, limiterVars, mailVars
<1>8. SocketInv' /\ LockInv'
  BY <1>1, <1>5 DEF SocketInv, LockInv
<1>9. FreshInv' /\ TokenInv' /\ TokenHonouredOnce' /\ LimiterInv' /\ JwtInv'
  BY <1>1, <1>5 DEF AccountsInv, FreshInv, TokenInv, TokenHonouredOnce, LimiterInv,
                    JwtInv, Current, limiterVars, mailVars
<1>10. QED
  BY <1>4, <1>7, <1>8, <1>9 DEF AccountsInv

-----------------------------------------------------------------------------
(* The theorems. *)

LEMMA AccountsInit == Init => AccountsInv
<1> SUFFICES ASSUME Init PROVE AccountsInv
  OBVIOUS
<1>1. PICK password \in Passwords :
        LET first == [version |-> 0, password |-> password, by |-> Nobody]
        IN /\ account = Created(password)
           /\ jwts = IF registered THEN {first} ELSE {}
           /\ sockets = [s \in Sockets |->
                [step |-> "off", timer |-> FALSE, jwt |-> first]]
  BY DEF Init
<1> DEFINE first == [version |-> 0, password |-> password, by |-> Nobody]
<1>2. first \in Jwts /\ first.version = 0 /\ first.password = password
  BY DEF Jwts
<1>3. /\ account \in Accounts /\ account.version = 0 /\ account.password = password
      /\ \A t \in Tokens : account.tokens[t] = "none"
  BY <1>1 DEF Created, Accounts
<1>4. /\ jwts = IF registered THEN {first} ELSE {}
      /\ sockets = [s \in Sockets |-> [step |-> "off", timer |-> FALSE, jwt |-> first]]
  BY <1>1
<1> HIDE DEF first
<1>5. Idle \in Locals /\ Idle.step = "idle"
  BY DEF Idle, Locals, Operations, Steps
<1>6. /\ local = [r \in Requests |-> Idle]
      /\ lock = Nobody /\ attempts = 0 /\ window = FALSE /\ audits = 0
      /\ mailbox = {} /\ era = [t \in Tokens |-> 0]
      /\ faults = 0 /\ epoch = 0 /\ honoured = {} /\ registered \in BOOLEAN
  BY DEF Init
<1>7. TypeOK
  <2>1. sockets \in [Sockets -> [step : SocketSteps, timer : BOOLEAN, jwt : Jwts]]
    BY <1>2, <1>4 DEF SocketSteps
  <2>2. jwts \subseteq Jwts
    BY <1>2, <1>4
  <2>3. faults \in 0 .. MaxFaults
    BY <1>6, AccountsAssumption
  <2>4. local \in [Requests -> Locals]
    BY <1>5, <1>6
  <2>5. QED
    BY <1>3, <1>6, <2>1, <2>2, <2>3, <2>4 DEF TypeOK
<1>8. RequestsInv
  <2>1. \A r \in Requests : local[r].step = "idle"
    BY <1>5, <1>6
  <2>2. QED
    BY <2>1 DEF RequestsInv, RequestInv, Signing, At, EarlySteps
<1>9. FreshInv /\ SocketInv /\ LockInv
  <2>1. \A s \in Sockets : sockets[s].step = "off"
    BY <1>4
  <2>2. QED
    BY <1>4, <1>6, <2>1 DEF FreshInv, SocketInv, LockInv
<1>10. JwtInv
  BY <1>2, <1>3, <1>4 DEF JwtInv, Current
<1>11. TokenInv /\ TokenHonouredOnce
  BY <1>3, <1>6 DEF TokenInv, TokenHonouredOnce
<1>12. LimiterInv
  <2>1. MaxAttempts \in Nat
    BY AccountsAssumption
  <2>2. ~(attempts > 0) /\ ~(attempts > MaxAttempts)
    BY <1>6, <2>1
  <2>3. QED
    BY <1>6, <2>2 DEF LimiterInv
<1>13. QED
  BY <1>7, <1>8, <1>9, <1>10, <1>11, <1>12 DEF AccountsInv

LEMMA AccountsNext == AccountsInv /\ [Next]_vars => AccountsInv'
<1> SUFFICES ASSUME AccountsInv, [Next]_vars PROVE AccountsInv'
  OBVIOUS
<1>1. ASSUME NEW r \in Requests, Receive(r) PROVE AccountsInv'
  BY <1>1, RegisterStep, RegisterAttemptStep, AuthenticateStep, BeginWithTokenStep,
     ListenerStep DEF Receive
<1>2. ASSUME NEW r \in Requests, Continue(r) PROVE AccountsInv'
  BY <1>2, CreateUserStep, FindByEmailStep, ClearCounterStep, SignStep,
     WriteNewPasswordStep, LogoutStep, EmitStep, LockOwnerStep, ConsumeStep,
     ListenerStep, IssueTokenStep, MailStep, WriteDisabledStep DEF Continue
<1>3. CASE UNCHANGED vars
  BY <1>3 DEF vars, accountVars, limiterVars, mailVars, sessionVars, AccountsInv, TypeOK,
              RequestsInv, RequestInv, Signing, At, Current, FreshInv, JwtInv, SocketInv,
              Accepted, Evicting, LockInv, TokenInv, TokenHonouredOnce, LimiterInv
<1>4. QED
  BY <1>1, <1>2, <1>3, QueryFailsStep, GatewayStep, WindowEndsStep, JwtExpiresStep,
     TimeStep, CrashStep DEF Next

\* The invariant of the module: what every request, session and socket holds
\* is consistent with the account in every reachable state.
LEMMA AccountsInvariance == Spec => []AccountsInv
BY AccountsInit, AccountsNext, PTL DEF Spec

\* However logins, password changes and resets interleave, no access token
\* obtained with a password that was replaced is accepted afterwards
\* (token_version, checked by JwtStrategy and by the gateway).
THEOREM SessionsNeverOutlivePassword == Spec => []SessionsMatchPassword
<1>1. AccountsInv => SessionsMatchPassword
  BY DEF AccountsInv, JwtInv, Current, SessionsMatchPassword
<1>2. QED
  BY <1>1, AccountsInvariance, PTL

\* A revocation or a disable never misses a socket, not even one whose
\* handshake is under way: while one is served on a session that is no longer
\* accepted, some request is about to evict it (handleConnection joins the
\* room before it reads the account).
THEOREM RevocationMissesNoSocket == Spec => []SocketsCurrent
<1>1. AccountsInv => SocketsCurrent
  BY DEF AccountsInv, SocketInv, SocketsCurrent, Socket
<1>2. QED
  BY <1>1, AccountsInvariance, PTL

\* A reset link works once, for a password that was not changed since it was
\* issued, on an account that is not disabled, whatever runs at the same time
\* (lockOwnerAndConsume under the row lock).
THEOREM ResetLinksWorkOnce == Spec => []TokenHonouredOnce
<1>1. AccountsInv => TokenHonouredOnce
  BY DEF AccountsInv
<1>2. QED
  BY <1>1, AccountsInvariance, PTL

\* One audit record in a window, and every refusal ends with its window,
\* whatever number of attempts (the limiter's script).
THEOREM LockoutsAreBounded == Spec => []LockoutBounded
<1>1. AccountsInv => LockoutBounded
  <2> SUFFICES ASSUME AccountsInv PROVE LockoutBounded
    OBVIOUS
  <2>1. /\ attempts \in Nat /\ audits \in Nat /\ MaxAttempts \in Nat
    BY AccountsAssumption DEF AccountsInv, TypeOK
  <2>2. audits <= 1 /\ (attempts > MaxAttempts => attempts > 0)
    BY <2>1 DEF AccountsInv, LimiterInv
  <2>3. QED
    BY <2>2 DEF AccountsInv, LimiterInv, LockoutBounded
<1>2. QED
  BY <1>1, AccountsInvariance, PTL
=============================================================================
