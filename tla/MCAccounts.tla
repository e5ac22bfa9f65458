----------------------------- MODULE MCAccounts -----------------------------
(***************************************************************************)
(* Small instances of Accounts for TLC.                                    *)
(***************************************************************************)
EXTENDS Accounts, TLC

CONSTANTS b1, b2, e1, e2, e3

Two       == {b1, b2}
Addresses == {e1, e2, e3}

Symmetry == Permutations(Two) \cup Permutations(Addresses)

=============================================================================
