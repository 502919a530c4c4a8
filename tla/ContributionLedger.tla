------------------------- MODULE ContributionLedger -------------------------
(***************************************************************************)
(* What the submission pipeline of the crowdsourcing backend promises,     *)
(* with every request, retry, vault row and administrator left out: a      *)
(* translation of a phrase by a user is credited at most once, and the     *)
(* user's points move by exactly one award when it is, never otherwise.    *)
(* ContributionServer is shown to implement this module.                   *)
(***************************************************************************)
EXTENDS Integers

CONSTANTS
    Users,      \* accounts
    Phrases,    \* source phrases
    Award       \* points of one accepted translation (15 in the code)

VARIABLES
    saved,      \* the set of <<user, phrase>> that hold a contribution
    paid        \* paid[u]: the points user u was paid for contributions

vars == <<saved, paid>>

Init ==
    /\ saved = {}
    /\ paid = [u \in Users |-> 0]

\* One translation is stored and its author is paid, in one step.
Credit(u, p) ==
    /\ <<u, p>> \notin saved
    /\ saved' = saved \cup {<<u, p>>}
    /\ paid' = [paid EXCEPT ![u] = @ + Award]

Next == \E u \in Users, p \in Phrases : Credit(u, p)

Spec == Init /\ [][Next]_vars
=============================================================================
