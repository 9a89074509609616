----------------------------- MODULE AccountStore -----------------------------
(***************************************************************************)
(* The row of one account in `users', its rows in `auth_tokens', and the   *)
(* operations of UserTypeOrmRepository and AuthTokenTypeOrmRepository on   *)
(* them.  Each is one transaction and takes effect as a whole; which ones   *)
(* wait for the user row is said by their callers.  (An Issue that commits *)
(* between the two statements of a ChangePassword is ordered before it if  *)
(* the second statement sees the token, and after it if not.)              *)
(*                                                                         *)
(* A password stands for its hash.  `version' is token_version; `recent'   *)
(* holds the kinds of token issued less than AUTH_TOKEN_MIN_INTERVAL_MS    *)
(* ago.                                                                    *)
(***************************************************************************)
EXTENDS Naturals

CONSTANTS Passwords,
          ResetTokens, VerificationTokens  \* tokens that may be issued

ASSUME TokensAssumption == ResetTokens \cap VerificationTokens = {}

Tokens == ResetTokens \cup VerificationTokens

TokenTypes == {"password_reset", "email_verification"}

OfType(type) ==
  IF type = "password_reset" THEN ResetTokens ELSE VerificationTokens

Accounts == [password : Passwords, version : Nat, disabled : BOOLEAN,
             verified : BOOLEAN,
             tokens : [Tokens -> {"none", "issued", "used", "expired"}],
             recent : SUBSET TokenTypes]

\* The row of a new account.
Created(password) ==
  [password |-> password, version |-> 0, disabled |-> FALSE, verified |-> FALSE,
   tokens |-> [t \in Tokens |-> "none"], recent |-> {}]

\* Every outstanding token of the account is spent.
Spent(tokens) ==
  [t \in Tokens |-> IF tokens[t] \in {"issued", "expired"} THEN "used" ELSE tokens[t]]

Bug_ChangePassword(a, password) ==
  [a EXCEPT !.password = password, !.version = @ + 1]

ChangePassword(a, password) ==
  [a EXCEPT !.password = password, !.version = @ + 1, !.tokens = Spent(@)]

RevokeSessions(a) == [a EXCEPT !.version = @ + 1]

SetDisabled(a, disabled) == [a EXCEPT !.disabled = disabled]

Bug_CanConsume(a, t) == a.tokens[t] # "expired"

\* The last condition of lockOwnerAndConsume.
CanConsume(a, t) == a.tokens[t] = "issued"

VerifyEmail(a, t) == [a EXCEPT !.verified = TRUE, !.tokens[t] = "used"]

ResetPassword(a, password) ==
  [a EXCEPT !.password = password, !.version = @ + 1, !.verified = TRUE,
            !.tokens = Spent(@)]

\* At most one token of a kind in every interval.
CanIssue(a, type) == type \notin a.recent

Issue(a, t, type) ==
  [a EXCEPT !.tokens[t] = "issued", !.recent = @ \cup {type}]
=============================================================================
