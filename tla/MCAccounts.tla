----------------------------- MODULE MCAccounts -----------------------------
(* An instance of Accounts for TLC. *)
EXTENDS Accounts, TLC

\* What is used together: sessions, caches, passwords.
Mixes == {{"refresh", "revoke"},
          {"refresh", "logout"},
          {"login", "revokeAll"},
          {"login", "refresh"},
          {"me", "view", "update"},
          {"login", "view", "update"},
          {"me", "verify"},
          {"login", "verify", "resend"},
          {"change", "forgot", "reset"},
          {"login", "reset", "forgot"},
          {"login", "change"},
          {"change", "verify"}}

Ids == Permutations(Request) \cup Permutations(Session)
=============================================================================
