---------------------------- MODULE LiveOverlap ----------------------------
(***************************************************************************)
(* One live session whose subscription targets overlap                     *)
(* (internal/services/live/live).  Subscribe starts one NATS subscription  *)
(* per target, in listed order; each subscription runs its handler on a    *)
(* goroutine of its own.  A copy of a message that an earlier core target  *)
(* may also deliver is dropped, shown, or held until that target proves    *)
(* live, is refused, or holdTimeout passes.                                *)
(*                                                                         *)
(* The goroutines are the setup loop (Subscribe), one worker per target,   *)
(* the connection's asynchronous error callback and the hold timers.  What *)
(* one of them does under silentMu is one step; what it does after the     *)
(* unlock is later steps, so the others interleave.                        *)
(*                                                                         *)
(* Abstracted: a subscription's pending messages and the copies a settle   *)
(* returns are sets (no property depends on their order), every copy has   *)
(* the same size, so MaxHeld stands for maxHeldMessages and maxHeldBytes,  *)
(* and handing a copy to the buffer is a count.                            *)
(***************************************************************************)
EXTENDS Naturals, FiniteSets

CONSTANTS
    N,             \* number of targets after dedupeSubscriptionTargets
    Msgs,          \* messages other clients publish, each once
    Subjects,      \* subject patterns
    SubjectOf,     \* SubjectOf[t]: the target's subject
    ListensTo,     \* ListensTo[t]: the subject the subscription names
    Core,          \* targets without a stream name
    Delivers,      \* Delivers[t]: messages the subscription's pattern matches
    Internal,      \* messages on an internal subject
    NamesInternal, \* targets whose own pattern names an internal namespace
    MaxHeld,       \* maxHeldMessages
    MaxRedecides   \* bound on permission changes during the session

Targets == 1 .. N
Copies == Targets \X Msgs

\* Goroutines that hand over what a settle or a timer returned.
Setup == 0
Denier == N + 1
Timers == N + 2
Hands == 0 .. N + 2

ASSUME CountsAssumption ==
    N \in Nat /\ MaxHeld \in Nat /\ MaxRedecides \in Nat

ASSUME TargetsAssumption ==
    /\ SubjectOf \in [Targets -> Subjects]
    /\ ListensTo \in [Targets -> Subjects]
    /\ Core \subseteq Targets
    /\ NamesInternal \subseteq Targets
    /\ Delivers \in [Targets -> SUBSET Msgs]
    /\ Internal \subseteq Msgs

\* A core target subscribes to its own subject, and dedupeSubscriptionTargets
\* leaves no two core targets with one subject.
ASSUME CoreAssumption ==
    /\ \A t \in Core : ListensTo[t] = SubjectOf[t]
    /\ \A t, u \in Core : SubjectOf[t] = SubjectOf[u] => t = u

VARIABLES
    phase,     \* "starting", "running", "closing", "ended": Subscribe's own progress
    cursor,    \* the target startSubscriptions handles next
    sub,       \* sub[t]: state of the subscription, in the client and the server
    denied,    \* targets whose refusal the connection has yet to report
    changed,   \* targets the server decided anew after its first answer
    redecides, \* number of such decisions
    sent,      \* sent[m]: targets the server sent m to (history)
    queue,     \* queue[t]: messages the subscription has yet to handle
    stage,     \* stage[t]: "idle", "route" or "deliver", the handler's progress
    busy,      \* busy[t]: the messages (one at most) in the handler
    silent,    \* sess.silentSubjects
    live,      \* sess.liveSubjects
    held,      \* sess.held
    firing,    \* held copies whose timer has fired, its callback yet to run
    todo,      \* todo[g]: copies goroutine g hands over after its unlock
    handed,    \* handed[c]: how often c was handed to the buffer
    spilled,   \* copies shown by a timer or for lack of room (history)
    ended      \* sess.ended

sessVars == <<silent, live, held, firing, todo, handed, spilled, ended>>
workVars == <<queue, stage, busy>>
srvVars == <<sub, denied, changed, redecides, sent>>
vars == <<phase, cursor, sub, denied, changed, redecides, sent, queue, stage,
          busy, silent, live, held, firing, todo, handed, spilled, ended>>

-----------------------------------------------------------------------------
\* The handler of t takes m: takesInternal on top of the pattern.
Takes(t, m) == m \in Delivers[t] /\ (m \in Internal => t \in NamesInternal)

\* Mutant: the target listed just before is left out.
EarlierButLast(t) ==
    IF t \in Core THEN {u \in Core : u + 1 < t /\ sub[u] \notin {"idle", "failed"}}
                  ELSE {}

\* The core targets t's handler was built with: coreBefore, cloned.
Earlier(t) ==
    IF t \in Core THEN {u \in Core : u < t /\ sub[u] \notin {"idle", "failed"}}
                  ELSE {}

\* Earlier targets that may take m, given the silent subjects sil.
Rivals(t, m, sil) == {e \in Earlier(t) : Takes(e, m) /\ SubjectOf[e] \notin sil}

IsTaken(c, sil, liv) == \E e \in Rivals(c[1], c[2], sil) : SubjectOf[e] \in liv

\* Mutant: an earlier target that has delivered nothing yet is not waited for.
IsFreeEager(c, sil) == \A e \in Rivals(c[1], c[2], sil) : SubjectOf[e] \notin live

IsFree(c, sil) == Rivals(c[1], c[2], sil) = {}
IsUnknown(c, sil, liv) == ~IsFree(c, sil) /\ ~IsTaken(c, sil, liv)

\* Mutant: the copies no earlier target takes are dropped like the others.
SettleDropping(g, sil, liv) ==
    /\ held' = {c \in held : IsUnknown(c, sil, liv)}
    /\ UNCHANGED todo

\* settleLocked: only copies of unknown coverage stay held; goroutine g goes
\* on to hand over those no earlier target takes.
Settle(g, sil, liv) ==
    /\ held' = {c \in held : IsUnknown(c, sil, liv)}
    /\ todo' = [todo EXCEPT ![g] = @ \cup {c \in held : IsFree(c, sil)}]

\* Mutant: markSilent records the subject and settles nothing.
MarkSilentUnsettled(g, s) ==
    /\ silent' = silent \cup {s}
    /\ UNCHANGED <<held, todo>>

\* markSilent; nothing when the subject is recorded already.
MarkSilent(g, s) ==
    IF s \in silent
    THEN UNCHANGED <<silent, held, todo>>
    ELSE /\ silent' = silent \cup {s}
         /\ Settle(g, silent \cup {s}, live)

\* markLive; nothing when the subject is known already.
MarkLive(g, s) ==
    IF s \in live
    THEN UNCHANGED <<live, held, todo>>
    ELSE /\ live' = live \cup {s}
         /\ Settle(g, silent, live \cup {s})

\* The handler built by buildMessageHandler, up to the session's buffer.
HandOver(c) ==
    handed' = IF Takes(c[1], c[2]) THEN [handed EXCEPT ![c] = @ + 1] ELSE handed

Init ==
    /\ phase = "starting"
    /\ cursor = 1
    /\ sub = [t \in Targets |-> "idle"]
    /\ denied = {} /\ changed = {} /\ redecides = 0
    /\ sent = [m \in Msgs |-> {}]
    /\ queue = [t \in Targets |-> {}]
    /\ stage = [t \in Targets |-> "idle"]
    /\ busy = [t \in Targets |-> {}]
    /\ silent = {} /\ live = {} /\ held = {} /\ firing = {}
    /\ todo = [g \in Hands |-> {}]
    /\ handed = [c \in Copies |-> 0]
    /\ spilled = {}
    /\ ended = FALSE

-----------------------------------------------------------------------------
\* Subscribe: the setup loop, the wait in runLoop, and the teardown.

\* Mutant: a target is subscribed without being the next in the list.
SubscribeAnyOk(t) ==
    /\ phase = "starting" /\ todo[Setup] = {}
    /\ sub' = [sub EXCEPT ![t] = "sent"]
    /\ cursor' = cursor + 1
    /\ UNCHANGED <<phase, denied, changed, redecides, sent, workVars, sessVars>>

\* The client's Subscribe call for the next target succeeds: SUB is sent.
SubscribeOk(t) ==
    /\ phase = "starting" /\ cursor = t /\ todo[Setup] = {}
    /\ sub' = [sub EXCEPT ![t] = "sent"]
    /\ cursor' = cursor + 1
    /\ UNCHANGED <<phase, denied, changed, redecides, sent, workVars, sessVars>>

\* It fails: the subject delivers nothing, and setup goes on.
SubscribeFails(t) ==
    /\ phase = "starting" /\ cursor = t /\ todo[Setup] = {}
    /\ sub' = [sub EXCEPT ![t] = "failed"]
    /\ cursor' = cursor + 1
    /\ MarkSilent(Setup, SubjectOf[t])
    /\ UNCHANGED <<phase, denied, changed, redecides, sent, workVars,
                   live, firing, handed, spilled, ended>>

\* Every target was tried: run, or return when none of them subscribed.
StartDone ==
    /\ phase = "starting" /\ cursor = N + 1 /\ todo[Setup] = {}
    /\ phase' = IF \E t \in Targets : sub[t] # "failed" THEN "running" ELSE "closing"
    /\ UNCHANGED <<cursor, sub, denied, changed, redecides, sent, workVars, sessVars>>

\* runLoop returns: the caller left, the connection is lost, emit failed.
LeaveLoop ==
    /\ phase = "running"
    /\ phase' = "closing"
    /\ UNCHANGED <<cursor, sub, denied, changed, redecides, sent, workVars, sessVars>>

\* The deferred loop over subscriptions; the client forgets pending messages.
Unsubscribe(t) ==
    /\ phase = "closing"
    /\ sub[t] \notin {"failed", "closed"}
    /\ \A u \in Targets : u < t => sub[u] \in {"failed", "closed"}
    /\ sub' = [sub EXCEPT ![t] = "closed"]
    /\ queue' = [queue EXCEPT ![t] = {}]
    /\ UNCHANGED <<phase, cursor, denied, changed, redecides, sent, stage, busy, sessVars>>

\* endHolding, deferred before the unsubscribe loop and so run after it.
EndHolding ==
    /\ phase = "closing"
    /\ \A t \in Targets : sub[t] \in {"failed", "closed"}
    /\ phase' = "ended"
    /\ ended' = TRUE
    /\ held' = {}
    /\ UNCHANGED <<cursor, sub, denied, changed, redecides, sent, workVars,
                   silent, live, firing, todo, handed, spilled>>

-----------------------------------------------------------------------------
\* The server, and the connection that reports its refusals.

\* The server handles the SUBs of one connection in order.
Decide(t) ==
    /\ sub[t] = "sent"
    /\ \A u \in Targets : u < t => sub[u] # "sent"
    /\ \/ sub' = [sub EXCEPT ![t] = "accepted"] /\ UNCHANGED denied
       \/ sub' = [sub EXCEPT ![t] = "refused"] /\ denied' = denied \cup {t}
    /\ UNCHANGED <<phase, cursor, changed, redecides, sent, workVars, sessVars>>

\* Permissions changed, on a reload or a reconnect: the server decides anew.
Redecide(t) ==
    /\ redecides < MaxRedecides
    /\ \/ /\ sub[t] = "accepted"
          /\ sub' = [sub EXCEPT ![t] = "refused"]
          /\ denied' = denied \cup {t}
       \/ /\ sub[t] = "refused"
          /\ sub' = [sub EXCEPT ![t] = "accepted"]
          /\ UNCHANGED denied
    /\ changed' = changed \cup {t}
    /\ redecides' = redecides + 1
    /\ UNCHANGED <<phase, cursor, sent, workVars, sessVars>>

\* Another client publishes m; each accepted subscription gets a copy.
Publish(m) ==
    LET receivers == {t \in Targets : sub[t] = "accepted" /\ m \in Delivers[t]} IN
    /\ sent[m] = {} /\ receivers # {}
    /\ sent' = [sent EXCEPT ![m] = receivers]
    /\ queue' = [t \in Targets |-> IF t \in receivers THEN queue[t] \cup {m} ELSE queue[t]]
    /\ UNCHANGED <<phase, cursor, sub, denied, changed, redecides, stage, busy, sessVars>>

\* reportDenied, from the connection's error callback; the observer may have
\* been collected before Unsubscribe removed it.
ReportDenied(t) ==
    /\ t \in denied /\ todo[Denier] = {}
    /\ denied' = denied \ {t}
    /\ MarkSilent(Denier, ListensTo[t])
    /\ UNCHANGED <<phase, cursor, sub, changed, redecides, sent, workVars,
                   live, firing, handed, spilled, ended>>

-----------------------------------------------------------------------------
\* The worker of a subscription, its handler step by step.

\* It takes a message; a core target's handler starts with markLive.
Receive(t, m) ==
    /\ stage[t] = "idle" /\ todo[t] = {} /\ m \in queue[t]
    /\ queue' = [queue EXCEPT ![t] = @ \ {m}]
    /\ busy' = [busy EXCEPT ![t] = {m}]
    /\ IF t \in Core
       THEN /\ MarkLive(t, SubjectOf[t])
            /\ stage' = [stage EXCEPT ![t] = "route"]
       ELSE /\ stage' = [stage EXCEPT ![t] = "deliver"]
            /\ UNCHANGED <<live, held, todo>>
    /\ UNCHANGED <<phase, cursor, sub, denied, changed, redecides, sent,
                   silent, firing, handed, spilled, ended>>

\* The handler is done with its message.
Finish(t) ==
    /\ stage' = [stage EXCEPT ![t] = "idle"]
    /\ busy' = [busy EXCEPT ![t] = {}]

\* Mutant: route holds copies after the session ended.
RouteAfterEnd(t, m) ==
    LET c == <<t, m>> IN
    /\ stage[t] = "route" /\ todo[t] = {} /\ m \in busy[t]
    /\ \/ IsTaken(c, silent, live) /\ Finish(t) /\ UNCHANGED held
       \/ IsUnknown(c, silent, live) /\ held' = held \cup {c} /\ Finish(t)
       \/ /\ IsFree(c, silent)
          /\ stage' = [stage EXCEPT ![t] = "deliver"]
          /\ UNCHANGED <<held, busy>>
    /\ UNCHANGED <<phase, cursor, sub, denied, changed, redecides, sent, queue,
                   silent, live, firing, todo, handed, spilled, ended>>

\* route, its part under the lock: drop, hold, or go on to deliver.
Route(t, m) ==
    LET c == <<t, m>> IN
    /\ stage[t] = "route" /\ todo[t] = {} /\ m \in busy[t]
    /\ \/ /\ IsTaken(c, silent, live)
          /\ Finish(t)
          /\ UNCHANGED <<held, spilled>>
       \/ /\ IsUnknown(c, silent, live)
          /\ ~ended /\ Cardinality(held) < MaxHeld
          /\ held' = held \cup {c}
          /\ Finish(t)
          /\ UNCHANGED spilled
       \/ /\ IsUnknown(c, silent, live)
          /\ ended \/ Cardinality(held) >= MaxHeld
          /\ spilled' = spilled \cup {c}
          /\ stage' = [stage EXCEPT ![t] = "deliver"]
          /\ UNCHANGED <<held, busy>>
       \/ /\ IsFree(c, silent)
          /\ stage' = [stage EXCEPT ![t] = "deliver"]
          /\ UNCHANGED <<held, busy, spilled>>
    /\ UNCHANGED <<phase, cursor, sub, denied, changed, redecides, sent, queue,
                   silent, live, firing, todo, handed, ended>>

\* The handler hands its own copy over.
Deliver(t, m) ==
    /\ stage[t] = "deliver" /\ m \in busy[t]
    /\ HandOver(<<t, m>>)
    /\ Finish(t)
    /\ UNCHANGED <<phase, cursor, sub, denied, changed, redecides, sent, queue,
                   silent, live, held, firing, todo, spilled, ended>>

\* deliverHeld, and the end of release: goroutine g hands over one copy.
DeliverHeld(g, c) ==
    /\ c \in todo[g]
    /\ todo' = [todo EXCEPT ![g] = @ \ {c}]
    /\ HandOver(c)
    /\ UNCHANGED <<phase, cursor, sub, denied, changed, redecides, sent, workVars,
                   silent, live, held, firing, spilled, ended>>

-----------------------------------------------------------------------------
\* The hold timers.

\* holdTimeout passes; Stop no longer keeps the callback from running.
TimerFires(c) ==
    /\ c \in held /\ c \notin firing
    /\ firing' = firing \cup {c}
    /\ UNCHANGED <<phase, cursor, sub, denied, changed, redecides, sent, workVars,
                   silent, live, held, todo, handed, spilled, ended>>

\* Mutant: release shows its copy without looking whether it is still held.
ReleaseUnchecked(c) ==
    /\ c \in firing
    /\ firing' = firing \ {c}
    /\ held' = held \ {c}
    /\ todo' = [todo EXCEPT ![Timers] = @ \cup {c}]
    /\ spilled' = spilled \cup {c}
    /\ UNCHANGED <<phase, cursor, sub, denied, changed, redecides, sent, workVars,
                   silent, live, handed, ended>>

\* release: shows the copy unless a settle or the end of the session got it.
Release(c) ==
    /\ c \in firing
    /\ firing' = firing \ {c}
    /\ IF c \in held /\ ~ended
       THEN /\ held' = held \ {c}
            /\ todo' = [todo EXCEPT ![Timers] = @ \cup {c}]
            /\ spilled' = spilled \cup {c}
       ELSE UNCHANGED <<held, todo, spilled>>
    /\ UNCHANGED <<phase, cursor, sub, denied, changed, redecides, sent, workVars,
                   silent, live, handed, ended>>

-----------------------------------------------------------------------------
\* Everything returned: nothing is left to do.
Done ==
    /\ phase = "ended" /\ firing = {}
    /\ \A t \in Targets : stage[t] = "idle"
    /\ \A g \in Hands : todo[g] = {}
    /\ UNCHANGED vars

Session ==
    \/ StartDone \/ LeaveLoop \/ EndHolding
    \/ \E t \in Targets : SubscribeOk(t) \/ SubscribeFails(t) \/ Unsubscribe(t)

Server ==
    \/ \E t \in Targets : Decide(t) \/ Redecide(t) \/ ReportDenied(t)
    \/ \E m \in Msgs : Publish(m)

Workers ==
    \/ \E t \in Targets, m \in Msgs : Receive(t, m) \/ Route(t, m) \/ Deliver(t, m)
    \/ \E g \in Hands, c \in Copies : DeliverHeld(g, c)

HoldTimers == \E c \in Copies : TimerFires(c) \/ Release(c)

Next == Session \/ Server \/ Workers \/ HoldTimers \/ Done

Spec == Init /\ [][Next]_vars

\* Every goroutine runs, the server answers, timers fire, Subscribe tears
\* down once it left the loop.  Messages, permission changes and the caller's
\* leaving are never promised.
Fairness ==
    /\ WF_vars(StartDone) /\ WF_vars(EndHolding)
    /\ \A t \in Targets :
        /\ WF_vars(SubscribeOk(t) \/ SubscribeFails(t))
        /\ WF_vars(Unsubscribe(t)) /\ WF_vars(Decide(t)) /\ WF_vars(ReportDenied(t))
        /\ \A m \in Msgs :
            WF_vars(Receive(t, m)) /\ WF_vars(Route(t, m)) /\ WF_vars(Deliver(t, m))
    /\ \A c \in Copies :
        /\ WF_vars(TimerFires(c)) /\ WF_vars(Release(c))
        /\ \A g \in Hands : WF_vars(DeliverHeld(g, c))

FairSpec == Spec /\ Fairness

-----------------------------------------------------------------------------
\* The values the variables range over.
TypeOK ==
    /\ phase \in {"starting", "running", "closing", "ended"}
    /\ cursor \in 1 .. N + 1
    /\ sub \in [Targets -> {"idle", "sent", "failed", "accepted", "refused", "closed"}]
    /\ denied \subseteq Targets /\ changed \subseteq Targets
    /\ redecides \in 0 .. MaxRedecides
    /\ sent \in [Msgs -> SUBSET Targets]
    /\ queue \in [Targets -> SUBSET Msgs]
    /\ stage \in [Targets -> {"idle", "route", "deliver"}]
    /\ busy \in [Targets -> SUBSET Msgs]
    /\ silent \subseteq Subjects /\ live \subseteq Subjects
    /\ held \subseteq Copies /\ firing \subseteq Copies
    /\ todo \in [Hands -> SUBSET Copies]
    /\ handed \in [Copies -> Nat]
    /\ spilled \subseteq Copies
    /\ ended \in BOOLEAN

\* The copy is in the session and neither shown nor dropped yet.
Pending(c) ==
    \/ c[2] \in queue[c[1]] \/ c[2] \in busy[c[1]] \/ c \in held
    \/ \E g \in Hands : c \in todo[g]

\* The core targets the server sent m to whose handler takes it; the first.
IsFirst(t, m) ==
    /\ t \in sent[m] \cap Core /\ Takes(t, m)
    /\ \A u \in sent[m] \cap Core : Takes(u, m) => t <= u

\* The server's answers for the core targets that take m stood all along.
Stable(m) == \A t \in Core : Takes(t, m) => t \notin changed

\* No copy reaches the session's buffer twice, whichever of a settle, a hold
\* timer, a refusal and the end of the session compete for it.
HandedOnce == \A c \in Copies : handed[c] <= 1

\* Of the copies of one message, only the one of the first core target that
\* was sent it is shown, unless the hold timer or a full hold let one through.
ShownByFirst ==
    \A t \in Core, m \in Msgs :
        handed[<<t, m>>] > 0 /\ Stable(m) => IsFirst(t, m) \/ <<t, m>> \in spilled

\* The copy of the first core target is never dropped in favour of another:
\* while the session runs it is shown or still on its way.
FirstNotLost ==
    \A t \in Core, m \in Msgs :
        phase \in {"starting", "running"} /\ Stable(m) /\ IsFirst(t, m) =>
            handed[<<t, m>>] > 0 \/ Pending(<<t, m>>)

\* A copy waits only while some earlier target may yet prove live or be
\* refused: every change of the two sets settled the copies it decided.
HeldIsUnknown == \A c \in held : IsUnknown(c, silent, live)

\* Nothing is held once the session ended, though handlers may still run.
EndedHoldsNothing == ended => held = {}

\* No copy stays in the session for ever.
CopiesSettle == \A c \in Copies : Pending(c) ~> ~Pending(c)

\* The session as the abstract feed: an excuse is a spill, a change of the
\* server's mind, or a target that takes no part in the overlap.
Feed == INSTANCE LiveFeed WITH
    Taking <- [t \in Targets |-> {m \in Msgs : t \in Core /\ Takes(t, m)}],
    shown <- {c \in Copies : handed[c] > 0},
    excused <- spilled \cup {c \in Copies : c[1] \notin Core \/ ~Stable(c[2])}

\* The session shows a message once, by the first live target that takes it.
ImplementsFeed == Feed!FeedSpec
=============================================================================
