------------------------------- MODULE MCAccess -------------------------------
(* Small instances of Access. *)
EXTENDS Access, TLC

Interchangeable == Permutations(Requests) \cup Permutations(Challenges) \cup Permutations(Commands)
                   \cup Permutations(Accounts) \cup Permutations(Wallets)
===============================================================================
