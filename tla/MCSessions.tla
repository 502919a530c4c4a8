----------------------------- MODULE MCSessions -----------------------------
(***************************************************************************)
(* A small instance of Sessions for TLC.                                   *)
(***************************************************************************)
EXTENDS Sessions, TLC

CONSTANTS A, B, a1, a2, b1

TwoTabsAndOne == [t \in Tabs |-> IF t = b1 THEN B ELSE A]

\* The two tabs of device A behave alike.
TabsOfA == Permutations({a1, a2})
=============================================================================
