-------------------------- MODULE MCPhraseServing --------------------------
(***************************************************************************)
(* Small instances of PhraseServing for TLC.                               *)
(***************************************************************************)
EXTENDS PhraseServing, TLC

CONSTANTS u1, u2, u3, p1, p2, c1, c2

NoneAssigned == {}
FirstAssigned == {<<p1, u1>>}

Symmetry == Permutations(Calls) \cup Permutations(Users)
CallSymmetry == Permutations(Calls)
=============================================================================
