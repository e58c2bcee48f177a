----------------------------- MODULE MCLiveLoop -----------------------------
(***************************************************************************)
(* Two subscriptions and their messages for TLC; the large message and one *)
(* of the others do not fit together.                                      *)
(***************************************************************************)
EXTENDS LiveLoop, TLC

CONSTANTS p1, p2, m1, m2, big

TwoFeeds == (p1 :> <<m1, m2>>) @@ (p2 :> <<big>>)
OneFeed == (p1 :> <<m1>>)
Sizes3 == (m1 :> 1) @@ (m2 :> 1) @@ (big :> 2)
=============================================================================
