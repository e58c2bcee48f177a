------------------------------ MODULE LiveFeed ------------------------------
(***************************************************************************)
(* What a live session promises about its overlapping core subjects        *)
(* (services/live/live/subscribe.go: "a message is delivered by the first  *)
(* live one that takes it"), with nothing said of how it is kept.  A       *)
(* message goes out once, to the targets the server has subscribed at that *)
(* moment; each copy is shown at most once, and only the copy of the first *)
(* of them is shown, unless the copy is excused.                           *)
(***************************************************************************)
EXTENDS Naturals

CONSTANTS
    Targets,  \* the session's targets, numbers in their listed order
    Msgs,     \* messages
    Taking    \* Taking[t]: the messages t takes when the server sends them to t

VARIABLES
    sent,     \* sent[m]: the targets the server sent m to
    shown,    \* the copies <<t, m>> handed to the session's buffer
    excused   \* the copies that may be shown although they are not the first

feedVars == <<sent, shown, excused>>

Copies == Targets \X Msgs

\* t is the first target, in listed order, that takes m.
IsFirst(t, m) ==
    /\ t \in sent[m] /\ m \in Taking[t]
    /\ \A u \in sent[m] : m \in Taking[u] => t <= u

FeedInit ==
    /\ sent = [m \in Msgs |-> {}]
    /\ shown = {}
    /\ excused \subseteq Copies

Send(m) ==
    /\ sent[m] = {}
    /\ \E R \in SUBSET Targets : sent' = [sent EXCEPT ![m] = R]
    /\ UNCHANGED <<shown, excused>>

Show(t, m) ==
    /\ <<t, m>> \notin shown
    /\ t \in sent[m]
    /\ IsFirst(t, m) \/ <<t, m>> \in excused
    /\ shown' = shown \cup {<<t, m>>}
    /\ UNCHANGED <<sent, excused>>

\* The session may excuse further copies; an excuse is never taken back.
Excuse ==
    /\ excused' \in SUBSET Copies
    /\ excused \subseteq excused'
    /\ UNCHANGED <<sent, shown>>

FeedNext ==
    \/ \E m \in Msgs : Send(m)
    \/ \E t \in Targets, m \in Msgs : Show(t, m)
    \/ Excuse

FeedSpec == FeedInit /\ [][FeedNext]_feedVars
=============================================================================
