---------------------------- MODULE MCAgentQueue ----------------------------
(***************************************************************************)
(* Small instances of AgentQueue for TLC.                                  *)
(***************************************************************************)
EXTENDS AgentQueue, TLC

CONSTANTS c1, c2, c3, c4

Three == {c1, c2, c3}
Four  == {c1, c2, c3, c4}

Symmetry == Permutations(Three)

=============================================================================
