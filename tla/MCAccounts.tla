----------------------------- MODULE MCAccounts -----------------------------
(* Instances of Accounts for TLC. *)
EXTENDS Accounts, TLC

Symmetry == Permutations(Accounts) \union Permutations(Addresses)
            \union Permutations(Requests)
=============================================================================
