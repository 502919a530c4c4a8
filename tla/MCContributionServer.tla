------------------------ MODULE MCContributionServer ------------------------
(***************************************************************************)
(* Small instances of ContributionServer for TLC.  One user records item   *)
(* i1 for phrase p1 and i2 for phrase p2; requests carry any of them, so   *)
(* that two requests may be replays of one item, or two items of a user.   *)
(***************************************************************************)
EXTENDS ContributionServer, TLC

CONSTANTS u1, u2, p1, p2, i1, i2, q1, q2, q3, a1, a2

ByOneUser == (i1 :> u1) @@ (i2 :> u1)
TwoPhrases == (i1 :> p1) @@ (i2 :> p2)
OwnAudio == (i1 :> "x") @@ (i2 :> "y")
SameAudio == (i1 :> "x") @@ (i2 :> "x")
Sound == (i1 :> "none") @@ (i2 :> "none")
SecondMute == (i1 :> "none") @@ (i2 :> "silence")

\* The second recording is the first one again, sent for the other phrase with
\* a text that is no Hassaniya.
SecondMisspelt == (i1 :> "none") @@ (i2 :> "text")

RequestSymmetry == Permutations(Requests)
Symmetry == Permutations(Requests) \cup Permutations(Recoverers)
=============================================================================
