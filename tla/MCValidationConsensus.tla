------------------------ MODULE MCValidationConsensus ----------------------
(***************************************************************************)
(* A small instance of ValidationConsensus for TLC.                        *)
(***************************************************************************)
EXTENDS ValidationConsensus, TLC

CONSTANTS author, e1, e2, e3, c1, p1, k1, k2

ByOneAuthor == [c \in Contributions |-> author]
OnePhrase   == [c \in Contributions |-> p1]
GoodOrBad   == {[text |-> 5, audio |-> 5], [text |-> 1, audio |-> 1]}

\* One evaluator was disqualified, or the contribution hidden.
OneOfTwo == {[dq |-> {e1}, hidden |-> {}], [dq |-> {}, hidden |-> {c1}]}

Symmetry == Permutations(Calls) \cup Permutations({e2, e3})
=============================================================================
