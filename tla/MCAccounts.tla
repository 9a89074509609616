------------------------------ MODULE MCAccounts ------------------------------
EXTENDS Accounts, TLC

\* Requests are interchangeable, and so are passwords.
AccountsSymmetry == Permutations(Requests) \cup Permutations(Passwords)
=============================================================================
