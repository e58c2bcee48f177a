--------------------------- MODULE MCLiveOverlap ---------------------------
(***************************************************************************)
(* Small sessions for TLC: which subjects are listed, what they match.     *)
(***************************************************************************)
EXTENDS LiveOverlap

CONSTANTS m1, m2, wide, narrow, other

\* Three core targets that all match m1; m2 only shows the first one live.
ThreeSubjects == <<wide, narrow, other>>
ThreeDelivers == <<{m1, m2}, {m1}, {m1}>>

\* Two core targets and a stream read through core NATS on a subject of its
\* own; m2 is internal and only the second target names an internal namespace.
MixedListens == <<wide, narrow, other>>
MixedDelivers == <<{m1, m2}, {m1, m2}, {m1}>>

\* A stream listed between two core targets under the first one's subject.
SharedSubjects == <<wide, wide, narrow>>
SharedDelivers == <<{m1}, {m1}, {m1}>>
=============================================================================
