------------------------------- MODULE Accounts -------------------------------
(***************************************************************************)
(* The account of one address and its sessions: registering, logging in    *)
(* under the attempt limiter, changing and resetting the password, logging  *)
(* out, disabling, and the WebSocket connections that must end when a      *)
(* session does.                                                           *)
(*                                                                         *)
(* A request reads the account, awaits (bcrypt, Redis, PostgreSQL) and     *)
(* writes; requests and the handshake of a socket interleave at every      *)
(* await.  A comparison with a password that was read earlier has the      *)
(* outcome it had when it was read, so it is made with the read.  Events   *)
(* are emitted synchronously: the gateway's listener has evicted the       *)
(* sockets of the room when the emitting step ends.                        *)
(*                                                                         *)
(* External: time (tokens and windows end), the mailbox, failing calls.    *)
(***************************************************************************)
EXTENDS AccountStore

CONSTANTS
  Requests,     \* bound: requests and events handled, each once
  Nobody,       \* holder of a free row lock; issuer of the first session
  Sockets,      \* bound: connections made, each once
  MaxAttempts,  \* LOGIN_MAX_ATTEMPTS
  AppBaseUrl,   \* APP_BASE_URL is set, without which nothing is mailed
  MaxFaults     \* bound: failing calls to Redis, PostgreSQL and the mailer, and crashes

ASSUME AccountsAssumption ==
  Nobody \notin Requests /\ MaxAttempts \in Nat \ {0} /\ MaxFaults \in Nat
  /\ AppBaseUrl \in BOOLEAN

VARIABLES
  registered, \* the address has a row in `users'
  account,   \* the rows of AccountStore, once it is registered
  lock,      \* the request whose transaction holds the user row
  attempts,  \* the limiter's counter
  window,    \* the counter has an expiry
  mailbox,   \* the tokens mailed to the owner
  jwts,      \* access tokens signed and not yet expired
  local,     \* the requests' local variables
  sockets,
  faults

\* What a property needs to remember; no action reads it.
VARIABLES
  audits,    \* auth.login_throttled events in this window
  epoch,     \* password changes
  era,       \* the epoch each token was issued in
  honoured   \* the resets that succeeded

accountVars == <<registered, account>>
sessionVars == <<jwts, sockets>>
limiterVars == <<attempts, window, audits>>
mailVars == <<mailbox, era>>
vars == <<accountVars, lock, limiterVars, mailVars, local, sessionVars, faults,
          epoch, honoured>>

Jwts == [version : Nat, password : Passwords, by : Requests \cup {Nobody}]

Operations == {"none", "register", "login", "change", "logout", "reset",
               "verify", "forgot", "resend", "disable", "enable"}
Steps == {"idle", "done", "create", "owner", "find", "clear", "sign", "change",
          "revoke", "emit", "lock", "consume", "issue", "mail", "setDisabled"}

SocketSteps == {"off", "join", "read", "decide", "ready", "gone"}

\* `version' is the token version read or written, `password' the one given
\* that was found right, or the new one.
Locals == [op : Operations, step : Steps, version : Nat,
           password : Passwords \cup {Nobody}, token : Tokens \cup {Nobody}]

Idle == [op |-> "none", step |-> "idle", version |-> 0, password |-> Nobody,
         token |-> Nobody]

At(r, step) == local[r].step = step
Goto(r, step) == local' = [local EXCEPT ![r].step = step]
Begin(r, op, step) ==
  local' = [local EXCEPT ![r] = [Idle EXCEPT !.op = op, !.step = step]]
Done(r) == local' = [local EXCEPT ![r] = [Idle EXCEPT !.step = "done"]]

Fault == faults < MaxFaults /\ faults' = faults + 1

\* A statement on the user row waits for the transaction that locked it.
Unlocked == lock = Nobody

\* What JwtStrategy and the gateway accept.
Accepted(version) == ~account.disabled /\ version = account.version

\* Joining the room only when the handshake is over.
Bug_Evicted(socket) ==
  IF socket.step = "ready" THEN [socket EXCEPT !.step = "gone"] ELSE socket

Evicted(socket) ==
  IF socket.step \in {"read", "decide", "ready"}
  THEN [socket EXCEPT !.step = "gone"] ELSE socket

\* The gateway's listeners of USER_SESSIONS_REVOKED and USER_DISABLED: every
\* socket that has joined the user's room is disconnected.
Evict == sockets' = [s \in Sockets |-> Evicted(sockets[s])]

-----------------------------------------------------------------------------
(* register: both answers are the same, and the address is mailed a link *)

\* An address that has an account is mailed a reset link.
Register(r) ==
  /\ At(r, "idle")
  /\ \E password \in Passwords :
       IF registered
       THEN Begin(r, "forgot", "owner")
       ELSE local' = [local EXCEPT ![r] =
              [Idle EXCEPT !.op = "register", !.step = "create", !.password = password]]
  /\ UNCHANGED <<accountVars, lock, limiterVars, mailVars, sessionVars, faults,
                 epoch, honoured>>

\* Of two registrations at once the unique index refuses one, which goes on as
\* for an address that has an account.
CreateUser(r) ==
  /\ At(r, "create")
  /\ \/ /\ ~registered
        /\ registered' = TRUE
        /\ account' = Created(local[r].password)
        /\ Begin(r, "resend", "owner")
     \/ /\ registered
        /\ Begin(r, "forgot", "owner")
        /\ UNCHANGED accountVars
  /\ UNCHANGED <<lock, limiterVars, mailVars, sessionVars, faults, epoch, honoured>>

-----------------------------------------------------------------------------
(* login *)

Bug_RegisterAttempt(r) ==
  /\ At(r, "idle")
  /\ attempts' = attempts + 1
  /\ window' = window
  /\ audits' = IF attempts' = MaxAttempts + 1 THEN audits + 1 ELSE audits
  /\ IF attempts' <= MaxAttempts THEN Begin(r, "login", "find") ELSE Done(r)
  /\ UNCHANGED <<accountVars, lock, mailVars, sessionVars, faults, epoch,
                 honoured>>

\* One script increments the counter and gives it an expiry; the first refused
\* attempt is audited.  When Redis fails the attempt is let through.
RegisterAttempt(r) ==
  /\ At(r, "idle")
  /\ \/ /\ attempts' = attempts + 1
        /\ window' = TRUE
        /\ audits' = IF attempts' = MaxAttempts + 1 THEN audits + 1 ELSE audits
        /\ IF attempts' <= MaxAttempts THEN Begin(r, "login", "find") ELSE Done(r)
        /\ UNCHANGED faults
     \/ /\ Fault
        /\ Begin(r, "login", "find")
        /\ UNCHANGED limiterVars
  /\ UNCHANGED <<accountVars, lock, mailVars, sessionVars, epoch, honoured>>

\* The password is right or wrong for the row as read; an address without an
\* account and a disabled account are refused like a wrong password.
FindByEmail(r) ==
  /\ At(r, "find")
  /\ \/ /\ registered /\ ~account.disabled
        /\ local' = [local EXCEPT ![r].step = "clear", ![r].version = account.version,
                                  ![r].password = account.password]
     \/ Done(r)
  /\ UNCHANGED <<accountVars, lock, limiterVars, mailVars, sessionVars, faults,
                 epoch, honoured>>

\* Also after a reset, best effort: an error of Redis is logged.
ClearCounter(r) ==
  /\ At(r, "clear")
  /\ \/ attempts' = 0 /\ window' = FALSE /\ audits' = 0 /\ UNCHANGED faults
     \/ Fault /\ UNCHANGED limiterVars
  /\ Goto(r, IF local[r].op = "reset" THEN "emit" ELSE "sign")
  /\ UNCHANGED <<accountVars, lock, mailVars, sessionVars, epoch, honoured>>

Signed(r, version) ==
  [version |-> version, password |-> local[r].password, by |-> r]

Bug_Sign(r) ==
  /\ At(r, "sign")
  /\ jwts' = jwts \cup {Signed(r, account.version)}
  /\ IF local[r].op = "change" THEN Evict ELSE UNCHANGED sockets
  /\ Done(r)
  /\ UNCHANGED <<accountVars, lock, limiterVars, mailVars, faults, epoch,
                 honoured>>

\* login, which first writes last_active_at, and change-password, which then
\* emits USER_SESSIONS_REVOKED.
Sign(r) ==
  /\ At(r, "sign") /\ (local[r].op = "login" => Unlocked)
  /\ jwts' = jwts \cup {Signed(r, local[r].version)}
  /\ IF local[r].op = "change" THEN Evict ELSE UNCHANGED sockets
  /\ Done(r)
  /\ UNCHANGED <<accountVars, lock, limiterVars, mailVars, faults, epoch,
                 honoured>>

-----------------------------------------------------------------------------
(* change-password and logout, for a caller with an accepted token *)

\* JwtStrategy reads the account; the current password is compared with what
\* was read.
Authenticate(r) ==
  /\ At(r, "idle")
  /\ \E jwt \in jwts : Accepted(jwt.version)
  /\ \/ \E password \in Passwords :
          local' = [local EXCEPT ![r] =
            [Idle EXCEPT !.op = "change", !.step = "change", !.password = password]]
     \/ Begin(r, "logout", "revoke")
  /\ UNCHANGED <<accountVars, lock, limiterVars, mailVars, sessionVars, faults,
                 epoch, honoured>>

WriteNewPassword(r) ==
  /\ At(r, "change") /\ Unlocked
  /\ account' = ChangePassword(account, local[r].password)
  /\ epoch' = epoch + 1
  /\ local' = [local EXCEPT ![r].step = "sign", ![r].version = account'.version]
  /\ UNCHANGED <<registered, lock, limiterVars, mailVars, sessionVars,
                 faults, honoured>>

Logout(r) ==
  /\ At(r, "revoke") /\ Unlocked
  /\ account' = RevokeSessions(account)
  /\ Goto(r, "emit")
  /\ UNCHANGED <<registered, lock, limiterVars, mailVars, sessionVars,
                 faults, epoch, honoured>>

Bug_Emit(r) ==
  /\ At(r, "emit")
  /\ Done(r)
  /\ UNCHANGED <<accountVars, lock, limiterVars, mailVars, sessionVars,
                 faults, epoch, honoured>>

\* logout, reset-password and disable.
Emit(r) ==
  /\ At(r, "emit")
  /\ Evict
  /\ Done(r)
  /\ UNCHANGED <<accountVars, lock, limiterVars, mailVars, jwts, faults,
                 epoch, honoured>>

-----------------------------------------------------------------------------
(* reset-password and verify-email, with a token from the mailbox *)

BeginWithToken(r) ==
  /\ At(r, "idle")
  /\ \E t \in mailbox :
       IF t \in ResetTokens
       THEN \E password \in Passwords :
              local' = [local EXCEPT ![r] =
                [Idle EXCEPT !.op = "reset", !.step = "lock", !.token = t,
                             !.password = password]]
       ELSE local' = [local EXCEPT ![r] =
              [Idle EXCEPT !.op = "verify", !.step = "lock", !.token = t]]
  /\ UNCHANGED <<accountVars, lock, limiterVars, mailVars, sessionVars, faults,
                 epoch, honoured>>

\* SELECT ... FOR UPDATE; a disabled account ends the transaction.
LockOwner(r) ==
  /\ At(r, "lock") /\ Unlocked
  /\ \/ account.disabled /\ Done(r) /\ UNCHANGED lock
     \/ ~account.disabled /\ lock' = r /\ Goto(r, "consume")
  /\ UNCHANGED <<accountVars, limiterVars, mailVars, sessionVars, faults,
                 epoch, honoured>>

\* The rest of the transaction: the token is consumed, the account updated.
Consume(r) ==
  LET t == local[r].token
      reset == local[r].op = "reset"
  IN
  /\ At(r, "consume")
  /\ \/ /\ CanConsume(account, t) /\ reset
        /\ account' = ResetPassword(account, local[r].password)
        /\ epoch' = epoch + 1
        /\ honoured' = honoured \cup
             {[token |-> t, by |-> r, disabled |-> account.disabled,
               outdated |-> era[t] # epoch]}
        /\ Goto(r, "clear")
     \/ /\ CanConsume(account, t) /\ ~reset
        /\ account' = VerifyEmail(account, t)
        /\ Done(r)
        /\ UNCHANGED <<epoch, honoured>>
     \/ /\ ~CanConsume(account, t)
        /\ Done(r)
        /\ UNCHANGED <<account, epoch, honoured>>
  /\ lock' = Nobody
  /\ UNCHANGED <<registered, limiterVars, mailVars, sessionVars, faults>>

-----------------------------------------------------------------------------
(* The listeners that mail tokens: forgot-password, resend-verification *)

\* Anyone may ask for a reset link ...
ForgotPassword(r) ==
  /\ At(r, "idle")
  /\ Begin(r, "forgot", "owner")
  /\ UNCHANGED <<accountVars, lock, limiterVars, mailVars, sessionVars, faults,
                 epoch, honoured>>

\* ... and a user who is not verified for another verification.
ResendVerification(r) ==
  /\ At(r, "idle")
  /\ \E jwt \in jwts : Accepted(jwt.version)
  /\ ~account.verified
  /\ Begin(r, "resend", "owner")
  /\ UNCHANGED <<accountVars, lock, limiterVars, mailVars, sessionVars, faults,
                 epoch, honoured>>

\* The listener reads the account again.
FindOwner(r) ==
  /\ At(r, "owner")
  /\ IF /\ registered /\ ~account.disabled /\ AppBaseUrl
        /\ local[r].op = "resend" => ~account.verified
     THEN Goto(r, "issue")
     ELSE Done(r)
  /\ UNCHANGED <<accountVars, lock, limiterVars, mailVars, sessionVars, faults,
                 epoch, honoured>>

TypeFor(op) == IF op = "forgot" THEN "password_reset" ELSE "email_verification"

\* The new row refers to the user row, so it waits for its lock.
IssueToken(r) ==
  LET type == TypeFor(local[r].op)
  IN
  /\ At(r, "issue") /\ Unlocked
  /\ \/ /\ CanIssue(account, type)
        /\ \E t \in OfType(type) :
             /\ account.tokens[t] = "none"
             /\ account' = Issue(account, t, type)
             /\ era' = [era EXCEPT ![t] = epoch]
             /\ local' = [local EXCEPT ![r].step = "mail", ![r].token = t]
     \/ /\ ~CanIssue(account, type)
        /\ Done(r)
        /\ UNCHANGED <<account, era>>
  /\ UNCHANGED <<registered, lock, limiterVars, mailbox, sessionVars, faults,
                 epoch, honoured>>

\* AuthMailListener.safe: what a mail or a query throws is only logged.
Swallowed(r) == Fault /\ Done(r)

\* A token whose mail fails stays outstanding.
Mail(r) ==
  /\ At(r, "mail")
  /\ \/ mailbox' = mailbox \cup {local[r].token} /\ Done(r) /\ UNCHANGED faults
     \/ Swallowed(r) /\ UNCHANGED mailbox
  /\ UNCHANGED <<accountVars, lock, limiterVars, era, sessionVars, epoch, honoured>>

-----------------------------------------------------------------------------
(* disable and enable, by an administrator *)

FindUser(r) ==
  /\ At(r, "idle") /\ registered
  /\ \/ Begin(r, "disable", IF account.disabled THEN "emit" ELSE "setDisabled")
     \/ account.disabled /\ Begin(r, "enable", "setDisabled")
  /\ UNCHANGED <<accountVars, lock, limiterVars, mailVars, sessionVars, faults,
                 epoch, honoured>>

WriteDisabled(r) ==
  /\ At(r, "setDisabled") /\ Unlocked
  /\ account' = SetDisabled(account, local[r].op = "disable")
  /\ IF local[r].op = "disable" THEN Goto(r, "emit") ELSE Done(r)
  /\ UNCHANGED <<registered, lock, limiterVars, mailVars, sessionVars,
                 faults, epoch, honoured>>

-----------------------------------------------------------------------------
(* PlanningGateway *)

Socket(s, step) == sockets[s].step = step
Move(s, step) == sockets' = [sockets EXCEPT ![s].step = step]

\* verifyAsync accepts any signed token that has not expired.
Connect(s) ==
  /\ Socket(s, "off")
  /\ \E jwt \in jwts :
       sockets' = [sockets EXCEPT ![s].step = "join", ![s].jwt = jwt]
  /\ UNCHANGED <<accountVars, lock, limiterVars, mailVars, local, jwts, faults,
                 epoch, honoured>>

Join(s) ==
  /\ Socket(s, "join")
  /\ Move(s, "read")
  /\ UNCHANGED <<accountVars, lock, limiterVars, mailVars, local, jwts, faults,
                 epoch, honoured>>

ReadAccount(s) ==
  /\ Socket(s, "read")
  /\ \/ /\ Move(s, IF Accepted(sockets[s].jwt.version) THEN "decide" ELSE "gone")
        /\ UNCHANGED faults
     \/ Fault /\ Move(s, "gone")
  /\ UNCHANGED <<accountVars, lock, limiterVars, mailVars, local, jwts,
                 epoch, honoured>>

Bug_Ready(s) ==
  /\ Socket(s, "decide")
  /\ sockets' = [sockets EXCEPT ![s].step = "ready"]
  /\ UNCHANGED <<accountVars, lock, limiterVars, mailVars, local, jwts, faults,
                 epoch, honoured>>

\* scheduleExpiry arms the timer, or drops the socket at once.
Ready(s) ==
  /\ Socket(s, "decide")
  /\ sockets' = [sockets EXCEPT
       ![s].step = IF sockets[s].jwt \in jwts THEN "ready" ELSE "gone",
       ![s].timer = sockets[s].jwt \in jwts]
  /\ UNCHANGED <<accountVars, lock, limiterVars, mailVars, local, jwts, faults,
                 epoch, honoured>>

ExpiryTimer(s) ==
  /\ Socket(s, "ready") /\ sockets[s].timer /\ sockets[s].jwt \notin jwts
  /\ Move(s, "gone")
  /\ UNCHANGED <<accountVars, lock, limiterVars, mailVars, local, jwts, faults,
                 epoch, honoured>>

\* subscribe re-reads the account; a socket that is no longer accepted, or
\* whose account cannot be read, is dropped.
Subscribe(s) ==
  /\ Socket(s, "ready")
  /\ \/ ~Accepted(sockets[s].jwt.version) /\ UNCHANGED faults
     \/ Fault
  /\ Move(s, "gone")
  /\ UNCHANGED <<accountVars, lock, limiterVars, mailVars, local, jwts,
                 epoch, honoured>>

-----------------------------------------------------------------------------
(* The environment *)

WindowEnds ==
  /\ window
  /\ attempts' = 0 /\ window' = FALSE /\ audits' = 0
  /\ UNCHANGED <<accountVars, lock, mailVars, local, sessionVars, faults,
                 epoch, honoured>>

JwtExpires ==
  /\ \E jwt \in jwts : jwts' = jwts \ {jwt}
  /\ UNCHANGED <<accountVars, lock, limiterVars, mailVars, local, sockets, faults,
                 epoch, honoured>>

TokenExpires ==
  /\ \E t \in Tokens :
       account.tokens[t] = "issued" /\ account' = [account EXCEPT !.tokens[t] = "expired"]
  /\ UNCHANGED <<registered, lock, limiterVars, mailVars, local, sessionVars,
                 faults, epoch, honoured>>

IntervalPasses ==
  /\ \E type \in account.recent : account' = [account EXCEPT !.recent = @ \ {type}]
  /\ UNCHANGED <<registered, lock, limiterVars, mailVars, local, sessionVars,
                 faults, epoch, honoured>>

\* A query fails: its transaction rolls back and the request ends.
QueryFails(r) ==
  /\ \/ local[r].step \in {"create", "owner", "find", "change", "revoke",
                              "lock", "consume", "issue", "setDisabled"}
     \/ At(r, "sign") /\ local[r].op = "login"
  /\ Fault
  /\ lock' = IF lock = r THEN Nobody ELSE lock
  /\ Done(r)
  /\ UNCHANGED <<accountVars, limiterVars, mailVars, sessionVars, epoch,
                 honoured>>

\* The API process dies: its transactions roll back, its sockets close.
Crash ==
  /\ Fault
  /\ lock' = Nobody
  /\ local' = [r \in Requests |->
       IF At(r, "idle") THEN local[r] ELSE [Idle EXCEPT !.step = "done"]]
  /\ sockets' = [s \in Sockets |->
       IF Socket(s, "off") THEN sockets[s] ELSE [sockets[s] EXCEPT !.step = "gone"]]
  /\ UNCHANGED <<accountVars, limiterVars, mailVars, jwts, epoch, honoured>>

-----------------------------------------------------------------------------
\* The address has an account and a session, or neither.
Init ==
  /\ registered \in BOOLEAN
  /\ \E password \in Passwords :
       LET first == [version |-> 0, password |-> password, by |-> Nobody]
       IN /\ account = Created(password)
          /\ jwts = IF registered THEN {first} ELSE {}
          /\ sockets = [s \in Sockets |->
               [step |-> "off", timer |-> FALSE, jwt |-> first]]
  /\ lock = Nobody
  /\ attempts = 0 /\ window = FALSE /\ audits = 0
  /\ mailbox = {} /\ era = [t \in Tokens |-> 0]
  /\ local = [r \in Requests |-> Idle]
  /\ faults = 0 /\ epoch = 0 /\ honoured = {}

\* A request goes on.
Continue(r) ==
  \/ CreateUser(r)
  \/ FindByEmail(r) \/ ClearCounter(r) \/ Sign(r)
  \/ WriteNewPassword(r) \/ Logout(r) \/ Emit(r)
  \/ LockOwner(r) \/ Consume(r)
  \/ FindOwner(r) \/ IssueToken(r) \/ Mail(r)
  \/ WriteDisabled(r)

Receive(r) ==
  \/ Register(r) \/ RegisterAttempt(r) \/ Authenticate(r) \/ BeginWithToken(r)
  \/ ForgotPassword(r) \/ ResendVerification(r) \/ FindUser(r)

Gateway(s) ==
  Connect(s) \/ Join(s) \/ ReadAccount(s) \/ Ready(s) \/ ExpiryTimer(s) \/ Subscribe(s)

Next ==
  \/ \E r \in Requests : Receive(r) \/ Continue(r) \/ QueryFails(r)
  \/ \E s \in Sockets : Gateway(s)
  \/ WindowEnds \/ JwtExpires \/ TokenExpires \/ IntervalPasses \/ Crash

Spec == Init /\ [][Next]_vars

\* A request that began goes on, a statement that waits for a lock gets it,
\* and an armed timer fires; nobody has to subscribe.
Fairness ==
  /\ \A r \in Requests : WF_vars(Continue(r))
  /\ \A s \in Sockets : WF_vars(ExpiryTimer(s))

FairSpec == Spec /\ Fairness

-----------------------------------------------------------------------------
TypeOK ==
  /\ registered \in BOOLEAN /\ account \in Accounts
  /\ lock \in Requests \cup {Nobody}
  /\ attempts \in Nat /\ window \in BOOLEAN /\ audits \in Nat
  /\ mailbox \subseteq Tokens /\ era \in [Tokens -> Nat]
  /\ jwts \subseteq Jwts
  /\ local \in [Requests -> Locals]
  /\ sockets \in [Sockets -> [step : SocketSteps, timer : BOOLEAN, jwt : Jwts]]
  /\ faults \in 0 .. MaxFaults /\ epoch \in Nat
  /\ honoured \subseteq [token : ResetTokens, by : Requests,
                         disabled : BOOLEAN, outdated : BOOLEAN]

\* In a well-typed state, an access token that is accepted was obtained with
\* the password that is stored: a login or a change that began before the
\* password was changed, and ends after, returns a token that is refused
\* (token_version).
SessionsMatchPassword ==
  /\ TypeOK
  /\ \A jwt \in jwts :
       jwt.version = account.version => jwt.password = account.password

\* The request will evict the sockets of the room before it ends.
Evicting(r) ==
  \/ At(r, "emit")
  \/ local[r].op = "change" /\ At(r, "sign")
  \/ local[r].op = "reset" /\ At(r, "clear")

\* A socket that is ready belongs to a session that is still accepted, or is
\* about to be evicted: neither a disable nor a revocation misses a socket
\* whose handshake is under way (the join before the account check).
SocketsCurrent ==
  \A s \in Sockets :
    Socket(s, "ready") /\ ~Accepted(sockets[s].jwt.version)
      => \E r \in Requests : Evicting(r)

\* A reset token is honoured for one request only, never when the password was
\* changed after it was issued, and never while the account is disabled, although
\* either may happen while the reset runs (lockOwnerAndConsume, changePassword).
TokenHonouredOnce ==
  /\ \A a, b \in honoured : a.token = b.token => a = b
  /\ \A a \in honoured : ~a.outdated /\ ~a.disabled

\* A flood of attempts is audited once in a window, and a refused account
\* never stays refused for good: its window is running (INCR_WITH_EXPIRY).
LockoutBounded ==
  audits <= 1 /\ (attempts > MaxAttempts => window)

\* The sockets of a revoked session are dropped.
RevokedSocketDropped ==
  \A s \in Sockets :
    (Socket(s, "ready") /\ sockets[s].jwt.version # account.version) ~> Socket(s, "gone")

\* No socket outlives its access token.
SocketEndsWithToken ==
  \A s \in Sockets :
    (Socket(s, "ready") /\ sockets[s].jwt \notin jwts) ~> Socket(s, "gone")
=============================================================================
