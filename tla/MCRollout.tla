----------------------------- MODULE MCRollout -----------------------------
(***************************************************************************)
(* Small instances of Rollout for TLC.                                     *)
(***************************************************************************)
EXTENDS Rollout, TLC

CONSTANTS d1, d2, h1, h2, t1, t2

Form(once, oneByOne, filter, oversize) ==
    [once |-> once, oneByOne |-> oneByOne, filter |-> filter,
     oversize |-> oversize]

\* A deployment that reaches every host, one that reaches none, one whose
\* strategy has no implementation, and one whose scripts are too long.
All    == Form(TRUE, TRUE, {t1}, FALSE)
Nobody == Form(TRUE, TRUE, {}, FALSE)
Other  == Form(TRUE, FALSE, {t1}, FALSE)
Long   == Form(TRUE, TRUE, {t1}, TRUE)

OneForm  == {All}
TwoForms == {All, Nobody}
Pair     == {Other, Long}

HostSymmetry == Permutations({h1, h2})

=============================================================================
