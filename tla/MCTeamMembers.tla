--------------------------- MODULE MCTeamMembers ---------------------------
(***************************************************************************)
(* Small instances of TeamMembers for TLC.                                 *)
(***************************************************************************)
EXTENDS TeamMembers, TLC

CONSTANTS u1, u2, a1, a2

TwoUsers  == {u1, u2}
TwoAdmins == {a1, a2}

=============================================================================
