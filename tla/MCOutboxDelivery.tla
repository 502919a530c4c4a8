-------------------------- MODULE MCOutboxDelivery --------------------------
(***************************************************************************)
(* Small instances of OutboxDelivery for TLC: one user, two recordings.    *)
(***************************************************************************)
EXTENDS OutboxDelivery, TLC

CONSTANTS u1, p1, p2, i1, i2, t1, t2

ByOneUser == (i1 :> u1) @@ (i2 :> u1)
TwoPhrases == (i1 :> p1) @@ (i2 :> p2)
SamePhrase == (i1 :> p1) @@ (i2 :> p1)
OwnAudio == (i1 :> "x") @@ (i2 :> "y")
Sound == (i1 :> "none") @@ (i2 :> "none")
SecondMute == (i1 :> "none") @@ (i2 :> "silence")

TabSymmetry == Permutations(Tabs)
=============================================================================
