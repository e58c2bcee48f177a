------------------------- MODULE LiveOverlapProofs -------------------------
(***************************************************************************)
(* What LiveOverlap keeps, for every number of targets, every set of       *)
(* messages, every hold limit and every number of permission changes.      *)
(***************************************************************************)
EXTENDS LiveOverlap, TLAPS

\* The goroutines that hand copies over, and that they are distinct.
LEMMA HandsFacts ==
    /\ Setup \in Hands /\ Denier \in Hands /\ Timers \in Hands
    /\ Targets \subseteq Hands
    /\ Setup \notin Targets /\ Denier \notin Targets /\ Timers \notin Targets
BY CountsAssumption, SMT DEF CountsAssumption, Setup, Denier, Timers, Hands, Targets

\* settleLocked leaves the held copies and the goroutines' lists well typed.
LEMMA SettleType ==
    ASSUME TypeOK, NEW g \in Hands, NEW sil, NEW liv, Settle(g, sil, liv)
    PROVE  held' \subseteq Copies /\ todo' \in [Hands -> SUBSET Copies]
BY DEF TypeOK, Settle

\* Every variable keeps its type: in particular the handler of a target is
\* always between messages, about to route, or about to deliver.
THEOREM TypeCorrect == Spec => []TypeOK
<1>1. Init => TypeOK
  <2> SUFFICES ASSUME Init PROVE TypeOK
    OBVIOUS
  <2>1. cursor \in 1 .. N + 1 /\ redecides \in 0 .. MaxRedecides
    BY CountsAssumption, SMT DEF Init
  <2>2. handed \in [Copies -> Nat]
    BY DEF Init
  <2>3. ended \in BOOLEAN /\ denied = {} /\ changed = {} /\ silent = {} /\ live = {}
    BY DEF Init
  <2>4. todo \in [Hands -> SUBSET Copies]
    BY DEF Init
  <2> QED BY <2>1, <2>2, <2>3, <2>4 DEF Init, TypeOK
<1>2. TypeOK /\ [Next]_vars => TypeOK'
  <2> SUFFICES ASSUME TypeOK, [Next]_vars PROVE TypeOK'
    OBVIOUS
  <2> USE TargetsAssumption, CountsAssumption, HandsFacts
  <2>1. ASSUME NEW t \in Targets, SubscribeOk(t) PROVE TypeOK'
    BY <2>1 DEF TypeOK, SubscribeOk, workVars, sessVars, Targets
  <2>2. ASSUME NEW t \in Targets, SubscribeFails(t) PROVE TypeOK'
    <3>1. silent' \subseteq Subjects /\ held' \subseteq Copies /\ todo' \in [Hands -> SUBSET Copies]
      BY <2>2, SettleType DEF TypeOK, SubscribeFails, MarkSilent
    <3> QED BY <2>2, <3>1 DEF TypeOK, SubscribeFails, workVars, Targets
  <2>3. CASE StartDone
    BY <2>3 DEF TypeOK, StartDone, workVars, sessVars
  <2>4. CASE LeaveLoop
    BY <2>4 DEF TypeOK, LeaveLoop, workVars, sessVars
  <2>5. CASE EndHolding
    BY <2>5 DEF TypeOK, EndHolding, workVars
  <2>6. ASSUME NEW t \in Targets, Unsubscribe(t) PROVE TypeOK'
    BY <2>6 DEF TypeOK, Unsubscribe, sessVars
  <2>7. ASSUME NEW t \in Targets, Decide(t) PROVE TypeOK'
    BY <2>7 DEF TypeOK, Decide, workVars, sessVars
  <2>8. ASSUME NEW t \in Targets, Redecide(t) PROVE TypeOK'
    BY <2>8 DEF TypeOK, Redecide, workVars, sessVars
  <2>9. ASSUME NEW t \in Targets, ReportDenied(t) PROVE TypeOK'
    <3>1. silent' \subseteq Subjects /\ held' \subseteq Copies /\ todo' \in [Hands -> SUBSET Copies]
      BY <2>9, SettleType DEF TypeOK, ReportDenied, MarkSilent
    <3> QED BY <2>9, <3>1 DEF TypeOK, ReportDenied, workVars
  <2>10. ASSUME NEW m \in Msgs, Publish(m) PROVE TypeOK'
    BY <2>10 DEF TypeOK, Publish, sessVars
  <2>11. ASSUME NEW t \in Targets, NEW m \in Msgs, Receive(t, m) PROVE TypeOK'
    <3>1. live' \subseteq Subjects /\ held' \subseteq Copies /\ todo' \in [Hands -> SUBSET Copies]
      BY <2>11, SettleType DEF TypeOK, Receive, MarkLive
    <3> QED BY <2>11, <3>1 DEF TypeOK, Receive
  <2>12. ASSUME NEW t \in Targets, NEW m \in Msgs, Route(t, m) PROVE TypeOK'
    BY <2>12 DEF TypeOK, Route, Finish, Copies
  <2>13. ASSUME NEW t \in Targets, NEW m \in Msgs, Deliver(t, m) PROVE TypeOK'
    BY <2>13 DEF TypeOK, Deliver, Finish, HandOver, Copies
  <2>14. ASSUME NEW g \in Hands, NEW c \in Copies, DeliverHeld(g, c) PROVE TypeOK'
    BY <2>14 DEF TypeOK, DeliverHeld, HandOver, workVars
  <2>15. ASSUME NEW c \in Copies, TimerFires(c) PROVE TypeOK'
    BY <2>15 DEF TypeOK, TimerFires, workVars
  <2>16. ASSUME NEW c \in Copies, Release(c) PROVE TypeOK'
    BY <2>16 DEF TypeOK, Release, workVars
  <2>17. CASE UNCHANGED vars
    BY <2>17 DEF TypeOK, vars
  <2> QED
    BY <2>1, <2>2, <2>3, <2>4, <2>5, <2>6, <2>7, <2>8, <2>9, <2>10, <2>11,
       <2>12, <2>13, <2>14, <2>15, <2>16, <2>17
    DEF Next, Session, Server, Workers, HoldTimers, Done
<1> QED
  BY <1>1, <1>2, PTL DEF Spec

-----------------------------------------------------------------------------
\* The inductive invariant, by subject.

\* A copy is in one place at a time: pending, in the handler, held, on one
\* goroutine's list, or handed over once.
ExclusiveAt(t, m) ==
    LET c == <<t, m>> IN
    /\ t \notin sent[m] => ~Pending(c) /\ handed[c] = 0
    /\ m \in queue[t] => m \notin busy[t] /\ c \notin held
    /\ m \in busy[t] => c \notin held
    /\ m \in queue[t] \/ m \in busy[t] \/ c \in held =>
          handed[c] = 0 /\ \A g \in Hands : c \notin todo[g]
    /\ \A g \in Hands : c \in todo[g] =>
          handed[c] = 0 /\ \A h \in Hands : c \in todo[h] => g = h
    /\ handed[c] <= 1

Exclusive == \A t \in Targets, m \in Msgs : ExclusiveAt(t, m)

\* settleLocked seen from one copy: it stays held, or leaves for g's list, or
\* is gone; every other list is as it was.
LEMMA SettleEffect ==
    ASSUME TypeOK, NEW g \in Hands, NEW sil, NEW liv, Settle(g, sil, liv), NEW c
    PROVE  /\ c \in held' <=> c \in held /\ IsUnknown(c, sil, liv)
           /\ \A h \in Hands : c \in todo'[h] <=>
                 c \in todo[h] \/ (h = g /\ c \in held /\ IsFree(c, sil))
           /\ IsUnknown(c, sil, liv) => ~IsFree(c, sil)
<1>1. c \in held' <=> c \in held /\ IsUnknown(c, sil, liv)
  BY DEF Settle
<1>2. ASSUME NEW h \in Hands
      PROVE  c \in todo'[h] <=> c \in todo[h] \/ (h = g /\ c \in held /\ IsFree(c, sil))
  BY DEF Settle, TypeOK
<1>3. IsUnknown(c, sil, liv) => ~IsFree(c, sil)
  BY DEF IsUnknown
<1> QED BY <1>1, <1>2, <1>3

\* No step puts a copy in two places: routing, settling, firing and ending move it.
LEMMA ExclusiveStep == TypeOK /\ Exclusive /\ [Next]_vars => Exclusive'
<1> SUFFICES ASSUME TypeOK, Exclusive, [Next]_vars, NEW u \in Targets, NEW n \in Msgs
             PROVE  ExclusiveAt(u, n)'
  BY DEF Exclusive
<1> USE HandsFacts
<1>0a. <<u, n>> \in Copies
  BY DEF Copies
<1>0. <<u, n>> \in Copies /\ ExclusiveAt(u, n)
  BY <1>0a, Zenon DEF Exclusive
\* A settle by goroutine g moves held copies to g's list, or drops them.
<1>a. ASSUME NEW g \in Hands, NEW sil, NEW liv, Settle(g, sil, liv),
             UNCHANGED <<sent, queue, busy, handed>>
      PROVE  ExclusiveAt(u, n)'
  <2> DEFINE c == <<u, n>>
  <2>1. /\ c \in held' <=> c \in held /\ IsUnknown(c, sil, liv)
        /\ \A h \in Hands : c \in todo'[h] <=>
              c \in todo[h] \/ (h = g /\ c \in held /\ IsFree(c, sil))
        /\ IsUnknown(c, sil, liv) => ~IsFree(c, sil)
    BY <1>a, SettleEffect, Zenon
  <2> QED BY <1>0, <1>a, <2>1 DEF ExclusiveAt, Pending
<1>1. ASSUME NEW t \in Targets, SubscribeOk(t) PROVE ExclusiveAt(u, n)'
  BY <1>0, <1>1 DEF ExclusiveAt, Pending, SubscribeOk, workVars, sessVars
<1>2. ASSUME NEW t \in Targets, SubscribeFails(t) PROVE ExclusiveAt(u, n)'
  <2>1. CASE UNCHANGED <<silent, held, todo>>
    BY <1>0, <1>2, <2>1 DEF ExclusiveAt, Pending, SubscribeFails, workVars
  <2>2. CASE Settle(Setup, silent \cup {SubjectOf[t]}, live)
    BY <1>2, <2>2, <1>a DEF SubscribeFails, workVars
  <2> QED BY <1>2, <2>1, <2>2 DEF SubscribeFails, MarkSilent
<1>3. CASE StartDone
  BY <1>0, <1>3 DEF ExclusiveAt, Pending, StartDone, workVars, sessVars
<1>4. CASE LeaveLoop
  BY <1>0, <1>4 DEF ExclusiveAt, Pending, LeaveLoop, workVars, sessVars
<1>5. CASE EndHolding
  BY <1>0, <1>5 DEF ExclusiveAt, Pending, EndHolding, workVars
<1>6. ASSUME NEW t \in Targets, Unsubscribe(t) PROVE ExclusiveAt(u, n)'
  BY <1>0, <1>6 DEF TypeOK, ExclusiveAt, Pending, Unsubscribe, sessVars
<1>7. ASSUME NEW t \in Targets, Decide(t) PROVE ExclusiveAt(u, n)'
  BY <1>0, <1>7 DEF ExclusiveAt, Pending, Decide, workVars, sessVars
<1>8. ASSUME NEW t \in Targets, Redecide(t) PROVE ExclusiveAt(u, n)'
  BY <1>0, <1>8 DEF ExclusiveAt, Pending, Redecide, workVars, sessVars
<1>9. ASSUME NEW t \in Targets, ReportDenied(t) PROVE ExclusiveAt(u, n)'
  <2>1. CASE UNCHANGED <<silent, held, todo>>
    BY <1>0, <1>9, <2>1 DEF ExclusiveAt, Pending, ReportDenied, workVars
  <2>2. CASE Settle(Denier, silent \cup {ListensTo[t]}, live)
    BY <1>9, <2>2, <1>a DEF ReportDenied, workVars
  <2> QED BY <1>9, <2>1, <2>2 DEF ReportDenied, MarkSilent
<1>10. ASSUME NEW m \in Msgs, Publish(m) PROVE ExclusiveAt(u, n)'
  BY <1>0, <1>10 DEF TypeOK, ExclusiveAt, Pending, Publish, sessVars
<1>11. ASSUME NEW t \in Targets, NEW m \in Msgs, Receive(t, m) PROVE ExclusiveAt(u, n)'
  <2>1. ASSUME UNCHANGED <<held, todo>> PROVE ExclusiveAt(u, n)'
    BY <1>0, <1>11, <2>1 DEF TypeOK, ExclusiveAt, Pending, Receive
  <2>2. ASSUME Settle(t, silent, live \cup {SubjectOf[t]}) PROVE ExclusiveAt(u, n)'
    <3>1. t \in Hands /\ m \in queue[t]
      BY <1>11 DEF Receive
    <3>2. UNCHANGED <<sent, handed>>
      BY <1>11 DEF Receive
    <3> DEFINE c == <<u, n>>
               liv == live \cup {SubjectOf[t]}
    <3>c. /\ c \in held' <=> c \in held /\ IsUnknown(c, silent, liv)
          /\ \A h \in Hands : c \in todo'[h] <=>
                c \in todo[h] \/ (h = t /\ c \in held /\ IsFree(c, silent))
          /\ IsUnknown(c, silent, liv) => ~IsFree(c, silent)
      BY <2>2, <3>1, SettleEffect, Zenon
    <3>3. CASE u = t /\ n = m
      BY <1>0, <1>11, <3>c, <3>1, <3>2, <3>3 DEF TypeOK, ExclusiveAt, Pending, Receive
    <3>4. CASE ~(u = t /\ n = m)
      <4>1. /\ n \in queue'[u] <=> n \in queue[u]
            /\ n \in busy'[u] => n \in busy[u]
        BY <1>11, <3>4 DEF TypeOK, Receive
      <4> QED BY <1>0, <3>c, <3>1, <3>2, <4>1 DEF ExclusiveAt, Pending
    <3> QED BY <3>3, <3>4
  <2> QED BY <1>11, <2>1, <2>2 DEF Receive, MarkLive
<1>12. ASSUME NEW t \in Targets, NEW m \in Msgs, Route(t, m) PROVE ExclusiveAt(u, n)'
  BY <1>0, <1>12 DEF TypeOK, ExclusiveAt, Pending, Route, Finish
<1>13. ASSUME NEW t \in Targets, NEW m \in Msgs, Deliver(t, m) PROVE ExclusiveAt(u, n)'
  <2>1. <<t, m>> \in Copies /\ m \in busy[t]
    BY <1>13 DEF Deliver, Copies
  <2>2. CASE u = t /\ n = m
    BY <1>0, <1>13, <2>1, <2>2 DEF TypeOK, ExclusiveAt, Pending, Deliver, Finish, HandOver
  <2>3. CASE <<u, n>> # <<t, m>>
    <3>1. handed'[<<u, n>>] = handed[<<u, n>>]
      BY <1>0, <1>13, <2>1, <2>3 DEF TypeOK, Deliver, HandOver
    <3> QED BY <1>0, <1>13, <2>3, <3>1 DEF TypeOK, ExclusiveAt, Pending, Deliver, Finish
  <2> QED BY <2>2, <2>3
<1>14. ASSUME NEW g \in Hands, NEW c \in Copies, DeliverHeld(g, c) PROVE ExclusiveAt(u, n)'
  BY <1>0, <1>14 DEF TypeOK, ExclusiveAt, Pending, DeliverHeld, HandOver, workVars
<1>15. ASSUME NEW c \in Copies, TimerFires(c) PROVE ExclusiveAt(u, n)'
  BY <1>0, <1>15 DEF ExclusiveAt, Pending, TimerFires, workVars
<1>16. ASSUME NEW c \in Copies, Release(c) PROVE ExclusiveAt(u, n)'
  BY <1>0, <1>16 DEF TypeOK, ExclusiveAt, Pending, Release, workVars
<1>17. CASE UNCHANGED vars
  BY <1>0, <1>17 DEF ExclusiveAt, Pending, vars
<1> QED
  BY <1>1, <1>2, <1>3, <1>4, <1>5, <1>6, <1>7, <1>8, <1>9, <1>10, <1>11,
     <1>12, <1>13, <1>14, <1>15, <1>16, <1>17
  DEF Next, Session, Server, Workers, HoldTimers, Done

-----------------------------------------------------------------------------
\* Setup works down the list and the server answers in that order: a target
\* that was sent a message has every target before it decided.
OrderInv ==
    /\ phase # "starting" => cursor = N + 1
    /\ \A t \in Targets : sub[t] = "idle" <=> t >= cursor
    /\ \A t, u \in Targets :
          sub[t] \in {"accepted", "refused"} /\ u < t => sub[u] \notin {"idle", "sent"}
    /\ \A m \in Msgs, t \in Targets : t \in sent[m] =>
          /\ m \in Delivers[t] /\ sub[t] \notin {"idle", "sent", "failed"}
          /\ \A u \in Targets : u < t => sub[u] \notin {"idle", "sent"}

\* The only steps that touch the subscriptions, setup's cursor or what was sent.
LEMMA SubFrame ==
    ASSUME [Next]_vars
    PROVE  \/ /\ UNCHANGED <<cursor, sub, sent>>
              /\ phase' = phase \/ phase # "starting" \/ cursor = N + 1
           \/ \E t \in Targets : SubscribeOk(t) \/ SubscribeFails(t) \/ Unsubscribe(t)
                                 \/ Decide(t) \/ Redecide(t)
           \/ \E m \in Msgs : Publish(m)
<1>1. CASE Session
  BY <1>1 DEF Session, StartDone, LeaveLoop, EndHolding
<1>2. CASE Server
  BY <1>2 DEF Server, ReportDenied
<1>3. CASE Workers
  BY <1>3 DEF Workers, Receive, Route, Deliver, DeliverHeld
<1>4. CASE HoldTimers
  BY <1>4 DEF HoldTimers, TimerFires, Release
<1>5. CASE UNCHANGED vars
  BY <1>5 DEF vars
<1> QED
  BY <1>1, <1>2, <1>3, <1>4, <1>5 DEF Next, Done

\* Setup and the server keep to the list, whatever the other goroutines do.
LEMMA OrderStep == TypeOK /\ OrderInv /\ [Next]_vars => OrderInv'
<1> SUFFICES ASSUME TypeOK, OrderInv, [Next]_vars PROVE OrderInv'
  OBVIOUS
<1>0. Targets \subseteq Nat
  BY DEF Targets
<1>1. CASE /\ UNCHANGED <<cursor, sub, sent>>
           /\ phase' = phase \/ phase # "starting" \/ cursor = N + 1
  BY <1>1 DEF OrderInv
<1>2. ASSUME NEW t \in Targets, SubscribeOk(t) PROVE OrderInv'
  BY <1>0, <1>2 DEF TypeOK, OrderInv, SubscribeOk
<1>3. ASSUME NEW t \in Targets, SubscribeFails(t) PROVE OrderInv'
  <2>1. /\ phase' = phase /\ phase = "starting" /\ cursor = t /\ cursor' = cursor + 1
        /\ sub' = [sub EXCEPT ![t] = "failed"] /\ sent' = sent
    BY <1>3 DEF SubscribeFails
  <2>2. \A u \in Targets : sub'[u] = "idle" <=> u >= cursor'
    BY <1>0, <2>1 DEF TypeOK, OrderInv
  <2>3. \A u \in Targets : sub[u] # "idle" => sub'[u] = sub[u]
    BY <1>0, <2>1 DEF TypeOK, OrderInv
  <2>4. \A u \in Targets : sub[u] \notin {"idle", "sent"} => sub'[u] \notin {"idle", "sent"}
    BY <2>3
  <2>5. \A u \in Targets : sub'[u] \in {"accepted", "refused"} => sub'[u] = sub[u]
    BY <1>0, <2>1 DEF TypeOK
  <2> QED BY <2>1, <2>2, <2>3, <2>4, <2>5 DEF OrderInv
<1>4. ASSUME NEW t \in Targets, Unsubscribe(t) PROVE OrderInv'
  <2>1. /\ phase' = phase /\ cursor = N + 1 /\ cursor' = cursor
        /\ sub' = [sub EXCEPT ![t] = "closed"] /\ sent' = sent
    BY <1>4 DEF OrderInv, Unsubscribe
  <2>2. \A u \in Targets : u < cursor
    BY <2>1, CountsAssumption DEF Targets
  <2>3. \A u \in Targets : sub'[u] = sub[u] \/ sub'[u] = "closed"
    BY <2>1 DEF TypeOK
  <2>4. \A u \in Targets : sub[u] # "idle"
    BY <1>0, <2>1, <2>2 DEF OrderInv
  <2> QED BY <1>0, <2>1, <2>2, <2>3, <2>4 DEF OrderInv
<1>5. ASSUME NEW t \in Targets, Decide(t) PROVE OrderInv'
  BY <1>0, <1>5 DEF TypeOK, OrderInv, Decide
<1>6. ASSUME NEW t \in Targets, Redecide(t) PROVE OrderInv'
  BY <1>0, <1>6 DEF TypeOK, OrderInv, Redecide
<1>7. ASSUME NEW m \in Msgs, Publish(m) PROVE OrderInv'
  BY <1>0, <1>7 DEF TypeOK, OrderInv, Publish
<1> QED
  BY <1>1, <1>2, <1>3, <1>4, <1>5, <1>6, <1>7, SubFrame

\* Once a target was sent a message, the targets its handler yields to stay.
LEMMA EarlierStable ==
    ASSUME TypeOK, OrderInv, [Next]_vars, NEW t \in Targets, NEW m \in Msgs, t \in sent[m]
    PROVE  Earlier(t)' = Earlier(t)
<1>0. Targets \subseteq Nat /\ Core \subseteq Targets
  BY TargetsAssumption DEF Targets
<1> SUFFICES ASSUME NEW u \in Core, u < t
             PROVE  sub'[u] \in {"idle", "failed"} <=> sub[u] \in {"idle", "failed"}
  BY DEF Earlier
<1>1. sub[u] \notin {"idle", "sent"}
  BY <1>0 DEF OrderInv
<1>2. CASE UNCHANGED <<cursor, sub, sent>>
  BY <1>2
<1>3. ASSUME NEW v \in Targets, SubscribeOk(v) \/ SubscribeFails(v) PROVE sub'[u] = sub[u]
  BY <1>0, <1>1, <1>3 DEF TypeOK, OrderInv, SubscribeOk, SubscribeFails
<1>4. ASSUME NEW v \in Targets, Unsubscribe(v)
      PROVE  sub'[u] \in {"idle", "failed"} <=> sub[u] \in {"idle", "failed"}
  BY <1>0, <1>1, <1>4 DEF TypeOK, Unsubscribe
<1>5. ASSUME NEW v \in Targets, Decide(v) \/ Redecide(v)
      PROVE  sub'[u] \in {"idle", "failed"} <=> sub[u] \in {"idle", "failed"}
  BY <1>0, <1>1, <1>5 DEF TypeOK, Decide, Redecide
<1>6. ASSUME NEW n \in Msgs, Publish(n) PROVE sub'[u] = sub[u]
  BY <1>6 DEF Publish
<1> QED
  BY <1>2, <1>3, <1>4, <1>5, <1>6, SubFrame

\* So its coverage changes with the two sets of subjects only.
LEMMA CoverStable ==
    ASSUME TypeOK, OrderInv, [Next]_vars, NEW t \in Targets, NEW m \in Msgs, t \in sent[m]
    PROVE  /\ IsUnknown(<<t, m>>, silent, live)' <=> IsUnknown(<<t, m>>, silent', live')
           /\ IsTaken(<<t, m>>, silent, live)' <=> IsTaken(<<t, m>>, silent', live')
           /\ IsFree(<<t, m>>, silent)' <=> IsFree(<<t, m>>, silent')
<1>1. Earlier(t)' = Earlier(t)
  BY EarlierStable
<1>2. Rivals(t, m, silent)' = Rivals(t, m, silent')
  BY <1>1 DEF Rivals, Takes
<1> QED
  BY <1>2 DEF IsUnknown, IsTaken, IsFree

-----------------------------------------------------------------------------
\* What the session holds, and when the steps of it change.
HoldInv ==
    /\ HeldIsUnknown
    /\ EndedHoldsNothing
    /\ ended => phase = "ended"

\* The step changes neither the held copies nor what decides about them, or
\* it settles them, or it takes some out, or it adds one of unknown coverage.
LEMMA HoldFrame ==
    ASSUME TypeOK, [Next]_vars
    PROVE  \/ UNCHANGED <<silent, live, held>>
           \/ \E g \in Hands : Settle(g, silent', live')
           \/ UNCHANGED <<silent, live>> /\ held' \subseteq held
           \/ /\ UNCHANGED <<silent, live>> /\ ~ended
              /\ \E t \in Targets, m \in Msgs :
                    Route(t, m) /\ held' = held \cup {<<t, m>>} /\ IsUnknown(<<t, m>>, silent, live)
<1> USE HandsFacts
<1>1. ASSUME NEW t \in Targets, SubscribeFails(t) \/ ReportDenied(t)
      PROVE  UNCHANGED <<silent, live, held>> \/ \E g \in Hands : Settle(g, silent', live')
  BY <1>1 DEF SubscribeFails, ReportDenied, MarkSilent
<1>2. ASSUME NEW t \in Targets, NEW m \in Msgs, Receive(t, m)
      PROVE  UNCHANGED <<silent, live, held>> \/ \E g \in Hands : Settle(g, silent', live')
  BY <1>2 DEF Receive, MarkLive
<1>3. CASE Session
  BY <1>1, <1>3 DEF Session, StartDone, LeaveLoop, EndHolding, SubscribeOk, Unsubscribe, sessVars
<1>4. CASE Server
  BY <1>1, <1>4 DEF Server, Decide, Redecide, Publish, sessVars
<1>5. ASSUME NEW t \in Targets, NEW m \in Msgs, Route(t, m)
      PROVE  /\ UNCHANGED <<silent, live>>
             /\ \/ held' = held
                \/ ~ended /\ held' = held \cup {<<t, m>>} /\ IsUnknown(<<t, m>>, silent, live)
  BY <1>5 DEF Route
<1>6. CASE Workers
  BY <1>2, <1>5, <1>6 DEF Workers, Deliver, DeliverHeld
<1>7. CASE HoldTimers
  BY <1>7 DEF HoldTimers, TimerFires, Release
<1>8. CASE UNCHANGED vars
  BY <1>8 DEF vars
<1> QED
  BY <1>3, <1>4, <1>6, <1>7, <1>8 DEF Next, Done

\* The session's phase and end change only where they are left, and holding ends once.
LEMMA EndFrame ==
    ASSUME [Next]_vars
    PROVE  \/ UNCHANGED <<phase, ended>>
           \/ EndHolding
           \/ ~(phase = "ended") /\ ended' = ended /\ held' = held
BY DEF Next, Session, Server, Workers, HoldTimers, Done, vars, sessVars, workVars,
   StartDone, LeaveLoop, SubscribeOk, SubscribeFails, Unsubscribe, Decide, Redecide,
   ReportDenied, Publish, Receive, Route, Deliver, DeliverHeld, TimerFires, Release

\* Each change of the two sets settles the copies it decided.
LEMMA HoldStep ==
    TypeOK /\ Exclusive /\ OrderInv /\ HoldInv /\ [Next]_vars => HoldInv'
<1> SUFFICES ASSUME TypeOK, Exclusive, OrderInv, HoldInv, [Next]_vars PROVE HoldInv'
  OBVIOUS
<1>1. HeldIsUnknown'
  <2> SUFFICES ASSUME NEW t \in Targets, NEW m \in Msgs, <<t, m>> \in held'
               PROVE  IsUnknown(<<t, m>>, silent, live)'
    <3>1. held' \subseteq Copies \/ \A c \in held' : c \in Copies
      BY HoldFrame, SettleType DEF TypeOK, Copies
    <3> QED BY <3>1 DEF HeldIsUnknown, Copies
  <2>1. ASSUME <<t, m>> \in held
        PROVE  t \in sent[m]
    BY <2>1 DEF Exclusive, ExclusiveAt, Pending
  <2>2. CASE held' \subseteq held /\ UNCHANGED <<silent, live>>
    BY <2>1, <2>2, CoverStable DEF HoldInv, HeldIsUnknown
  <2>3. ASSUME NEW g \in Hands, Settle(g, silent', live')
        PROVE  IsUnknown(<<t, m>>, silent, live)'
    BY <2>1, <2>3, SettleEffect, CoverStable
  <2>4. ASSUME NEW u \in Targets, NEW n \in Msgs, Route(u, n), held' = held \cup {<<u, n>>},
               IsUnknown(<<u, n>>, silent, live), UNCHANGED <<silent, live>>
        PROVE  IsUnknown(<<t, m>>, silent, live)'
    <3>1. u \in sent[n]
      BY <2>4 DEF Route, Exclusive, ExclusiveAt, Pending
    <3> QED BY <2>1, <2>4, <3>1, CoverStable DEF HoldInv, HeldIsUnknown
  <2> QED BY <2>2, <2>3, <2>4, HoldFrame
<1>2. EndedHoldsNothing' /\ (ended => phase = "ended")'
  <2>1. CASE EndHolding
    BY <2>1 DEF EndHolding, EndedHoldsNothing
  <2>2. CASE ~(phase = "ended") /\ ended' = ended /\ held' = held
    BY <2>2 DEF HoldInv, EndedHoldsNothing
  <2>3. CASE UNCHANGED <<phase, ended>>
    <3>1. ASSUME ended, NEW g \in Hands, Settle(g, silent', live') PROVE held' = {}
      BY <3>1 DEF HoldInv, EndedHoldsNothing, Settle
    <3> QED BY <2>3, <3>1, HoldFrame DEF HoldInv, EndedHoldsNothing
  <2> QED BY <2>1, <2>2, <2>3, EndFrame
<1> QED
  BY <1>1, <1>2 DEF HoldInv

-----------------------------------------------------------------------------
\* No target shares the subject of a core target, in its own list entry or in
\* what it subscribes to.  Without it a stream listed under the subject of a
\* core target silences that target when the stream cannot be read.
OwnSubjects ==
    \A t \in Targets, u \in Core :
        SubjectOf[t] = SubjectOf[u] \/ ListensTo[t] = SubjectOf[u] => t = u

Open == phase \in {"starting", "running"}

\* What the two sets of subjects say of the server's answers, as long as the
\* server did not change its mind.
ServerInv ==
    /\ Open => \A t \in Targets : sub[t] # "closed"
    /\ \A t \in Targets : t \in denied /\ t \notin changed =>
          sub[t] \in {"refused", "closed"} /\ \A m \in Msgs : t \notin sent[m]
    /\ \A u \in Core : SubjectOf[u] \in silent /\ u \notin changed =>
          sub[u] \in {"failed", "refused", "closed"} /\ \A m \in Msgs : u \notin sent[m]
    /\ \A u \in Core : SubjectOf[u] \in live /\ u \notin changed =>
          sub[u] \in {"accepted", "closed"}
    /\ \A t \in Targets, m \in Msgs : t \in sent[m] /\ t \notin changed =>
          sub[t] \in {"accepted", "closed"}
    /\ Open => \A m \in Msgs, t \in Targets, u \in Core :
          t \in sent[m] /\ u \notin changed /\ u < t /\ m \in Delivers[u]
             /\ sub[u] = "accepted" => u \in sent[m]

\* The only steps that touch the two sets or the server's answers.
LEMMA ServerFrame ==
    ASSUME [Next]_vars
    PROVE  \/ UNCHANGED <<sub, denied, changed, sent, silent, live>> /\ (Open' => Open)
           \/ \E t \in Targets : SubscribeOk(t) \/ SubscribeFails(t) \/ Unsubscribe(t)
                                 \/ Decide(t) \/ Redecide(t) \/ ReportDenied(t)
           \/ \E m \in Msgs : Publish(m)
           \/ \E t \in Targets, m \in Msgs : Receive(t, m)
<1>1. CASE Session
  BY <1>1 DEF Session, StartDone, LeaveLoop, EndHolding, Open, sessVars
<1>2. CASE Server
  BY <1>2 DEF Server
<1>3. CASE Workers
  BY <1>3 DEF Workers, Route, Deliver, DeliverHeld, Open
<1>4. CASE HoldTimers
  BY <1>4 DEF HoldTimers, TimerFires, Release, Open
<1>5. CASE UNCHANGED vars
  BY <1>5 DEF vars, Open
<1> QED
  BY <1>1, <1>2, <1>3, <1>4, <1>5 DEF Next, Done

\* The two sets keep agreeing with the server's answers.
LEMMA ServerStep ==
    ASSUME OwnSubjects
    PROVE  TypeOK /\ Exclusive /\ OrderInv /\ ServerInv /\ [Next]_vars => ServerInv'
<1> SUFFICES ASSUME TypeOK, Exclusive, OrderInv, ServerInv, [Next]_vars PROVE ServerInv'
  OBVIOUS
<1> USE TargetsAssumption
<1>0. Targets \subseteq Nat /\ Core \subseteq Targets
  BY DEF Targets
<1>1. CASE UNCHANGED <<sub, denied, changed, sent, silent, live>> /\ (Open' => Open)
  BY <1>1 DEF ServerInv
<1>2. ASSUME NEW t \in Targets, SubscribeOk(t) PROVE ServerInv'
  <2>1. /\ UNCHANGED <<denied, changed, sent, silent, live>> /\ Open' = Open
        /\ sub' = [sub EXCEPT ![t] = "sent"] /\ sub[t] = "idle"
    BY <1>0, <1>2 DEF SubscribeOk, sessVars, Open, OrderInv
  <2> QED BY <1>0, <2>1 DEF TypeOK, ServerInv
<1>3. ASSUME NEW t \in Targets, SubscribeFails(t) PROVE ServerInv'
  <2>1. /\ UNCHANGED <<denied, changed, sent, live>> /\ Open' = Open
        /\ sub' = [sub EXCEPT ![t] = "failed"] /\ sub[t] = "idle"
        /\ silent' \subseteq silent \cup {SubjectOf[t]}
    BY <1>0, <1>3 DEF SubscribeFails, MarkSilent, Open, OrderInv
  <2>2. \A m \in Msgs : t \notin sent[m]
    BY <2>1 DEF OrderInv
  <2>3. \A u \in Core : SubjectOf[u] \in silent' => SubjectOf[u] \in silent \/ u = t
    BY <2>1, OwnSubjects DEF OwnSubjects
  <2> QED BY <1>0, <2>1, <2>2, <2>3 DEF TypeOK, ServerInv
<1>4. ASSUME NEW t \in Targets, Unsubscribe(t) PROVE ServerInv'
  <2>1. /\ UNCHANGED <<denied, changed, sent, silent, live>> /\ ~Open'
        /\ sub' = [sub EXCEPT ![t] = "closed"]
    BY <1>4 DEF Unsubscribe, sessVars, Open
  <2> QED BY <1>0, <2>1 DEF TypeOK, ServerInv
<1>5. ASSUME NEW t \in Targets, Decide(t) PROVE ServerInv'
  <2>1. /\ UNCHANGED <<changed, sent, silent, live>> /\ Open' = Open /\ sub[t] = "sent"
        /\ \/ sub' = [sub EXCEPT ![t] = "accepted"] /\ denied' = denied
           \/ sub' = [sub EXCEPT ![t] = "refused"] /\ denied' = denied \cup {t}
    BY <1>5 DEF Decide, sessVars, Open
  <2>2. \A m \in Msgs : t \notin sent[m]
    BY <2>1 DEF OrderInv
  <2>3. \A m \in Msgs, u \in Targets : u \in sent[m] => ~(t < u)
    BY <2>1 DEF OrderInv
  <2> QED BY <1>0, <2>1, <2>2, <2>3 DEF TypeOK, ServerInv
<1>6. ASSUME NEW t \in Targets, Redecide(t) PROVE ServerInv'
  <2>1. /\ UNCHANGED <<sent, silent, live>> /\ Open' = Open
        /\ changed' = changed \cup {t} /\ sub[t] # "closed"
        /\ \E a \in {"accepted", "refused"} : sub' = [sub EXCEPT ![t] = a]
        /\ denied' \subseteq denied \cup {t}
    BY <1>6 DEF Redecide, sessVars, Open
  <2> QED BY <1>0, <2>1 DEF TypeOK, ServerInv
<1>7. ASSUME NEW t \in Targets, ReportDenied(t) PROVE ServerInv'
  <2>1. /\ UNCHANGED <<sub, changed, sent, live>> /\ Open' = Open
        /\ t \in denied /\ denied' = denied \ {t}
        /\ silent' \subseteq silent \cup {ListensTo[t]}
    BY <1>7 DEF ReportDenied, MarkSilent, Open
  <2>2. \A u \in Core : SubjectOf[u] \in silent' => SubjectOf[u] \in silent \/ u = t
    BY <2>1, OwnSubjects DEF OwnSubjects
  <2> QED BY <1>0, <2>1, <2>2 DEF TypeOK, ServerInv
<1>8. ASSUME NEW m \in Msgs, Publish(m) PROVE ServerInv'
  <2>1. /\ UNCHANGED <<sub, denied, changed, silent, live>> /\ Open' = Open
        /\ \A t \in Targets : t \in sent'[m] <=> sub[t] = "accepted" /\ m \in Delivers[t]
        /\ \A n \in Msgs : n # m => sent'[n] = sent[n]
    BY <1>8 DEF Publish, sessVars, Open, TypeOK
  <2> QED BY <1>0, <2>1 DEF TypeOK, ServerInv
<1>9. ASSUME NEW t \in Targets, NEW m \in Msgs, Receive(t, m) PROVE ServerInv'
  <2>1. /\ UNCHANGED <<sub, denied, changed, sent, silent>> /\ Open' = Open
        /\ m \in queue[t]
        /\ live' = live \/ (t \in Core /\ live' = live \cup {SubjectOf[t]})
    BY <1>9 DEF Receive, MarkLive, Open
  <2>2. t \in sent[m]
    BY <2>1 DEF Exclusive, ExclusiveAt, Pending
  <2>3. \A u \in Core : SubjectOf[u] \in live' => SubjectOf[u] \in live \/ u = t
    BY <2>1, OwnSubjects DEF OwnSubjects
  <2> QED BY <1>0, <2>1, <2>2, <2>3 DEF TypeOK, ServerInv
<1> QED
  BY <1>1, <1>2, <1>3, <1>4, <1>5, <1>6, <1>7, <1>8, <1>9, ServerFrame

-----------------------------------------------------------------------------
\* A handler has at most one message, and none between two of them.
HandlerInv ==
    \A t \in Targets :
        /\ stage[t] = "idle" => busy[t] = {}
        /\ \A m, n \in busy[t] : m = n

\* A handler keeps to one message.
LEMMA HandlerStep == TypeOK /\ HandlerInv /\ [Next]_vars => HandlerInv'
<1> SUFFICES ASSUME TypeOK, HandlerInv, [Next]_vars PROVE HandlerInv'
  OBVIOUS
<1>1. ASSUME NEW t \in Targets, NEW m \in Msgs, Receive(t, m) PROVE HandlerInv'
  <2>1. /\ busy' = [busy EXCEPT ![t] = {m}]
        /\ \E a \in {"route", "deliver"} : stage' = [stage EXCEPT ![t] = a]
    BY <1>1 DEF Receive
  <2> QED BY <2>1 DEF TypeOK, HandlerInv
<1>2. ASSUME NEW t \in Targets, NEW m \in Msgs, Route(t, m) \/ Deliver(t, m) PROVE HandlerInv'
  <2>1. \/ stage' = [stage EXCEPT ![t] = "idle"] /\ busy' = [busy EXCEPT ![t] = {}]
        \/ stage' = [stage EXCEPT ![t] = "deliver"] /\ busy' = busy
    BY <1>2 DEF Route, Deliver, Finish
  <2> QED BY <2>1 DEF TypeOK, HandlerInv
<1>3. CASE UNCHANGED <<stage, busy>>
  BY <1>3 DEF HandlerInv
<1>4. CASE Session
  BY <1>3, <1>4 DEF Session, StartDone, LeaveLoop, EndHolding, SubscribeOk, SubscribeFails,
                    Unsubscribe, sessVars, workVars
<1>5. CASE Server
  BY <1>3, <1>5 DEF Server, Decide, Redecide, ReportDenied, Publish, sessVars, workVars
<1>6. CASE Workers
  BY <1>1, <1>2, <1>3, <1>6 DEF Workers, DeliverHeld, workVars
<1>7. CASE HoldTimers
  BY <1>3, <1>7 DEF HoldTimers, TimerFires, Release, workVars
<1>8. CASE UNCHANGED vars
  BY <1>3, <1>8 DEF vars
<1> QED
  BY <1>4, <1>5, <1>6, <1>7, <1>8 DEF Next, Done

-----------------------------------------------------------------------------
\* The copies on their way to the buffer, or in it.
Cleared(t, m) ==
    \/ m \in busy[t] /\ stage[t] = "deliver"
    \/ \E g \in Hands : <<t, m>> \in todo[g]
    \/ handed[<<t, m>>] > 0

ShowInv ==
    \A t \in Core, m \in Msgs :
        /\ Cleared(t, m) /\ Takes(t, m) /\ Stable(m) => IsFirst(t, m) \/ <<t, m>> \in spilled
        /\ handed[<<t, m>>] > 0 => Takes(t, m)

\* A copy no earlier target takes is the first target's, provided the silent
\* subjects are those of targets that were never sent anything.
LEMMA FreeIsFirst ==
    ASSUME TypeOK, OrderInv, NEW t \in Core, NEW m \in Msgs, NEW sil,
           t \in sent[m], Takes(t, m), Stable(m), IsFree(<<t, m>>, sil),
           \A u \in Core : SubjectOf[u] \in sil /\ u \notin changed => u \notin sent[m]
    PROVE  IsFirst(t, m)
<1>0. Targets \subseteq Nat /\ Core \subseteq Targets
  BY TargetsAssumption DEF Targets
<1> SUFFICES ASSUME NEW u \in Core, u \in sent[m], Takes(u, m), ~(t <= u) PROVE FALSE
  BY DEF IsFirst
<1>a. u < t
  BY <1>0
<1>1. u \in Earlier(t)
  BY <1>0, <1>a DEF Earlier, OrderInv
<1>2. SubjectOf[u] \in sil
  BY <1>1 DEF IsFree, Rivals
<1> QED BY <1>2 DEF Stable

\* A copy an earlier live target takes is not the first target's.
LEMMA TakenNotFirst ==
    ASSUME TypeOK, ServerInv, Open, NEW t \in Core, NEW m \in Msgs, NEW sil, NEW liv,
           Stable(m), IsTaken(<<t, m>>, sil, liv), t \in sent[m],
           \A u \in Core : SubjectOf[u] \in liv /\ u \notin changed => sub[u] \in {"accepted", "closed"}
    PROVE  ~IsFirst(t, m)
<1>0. Targets \subseteq Nat /\ Core \subseteq Targets
  BY TargetsAssumption DEF Targets
<1>1. PICK e \in Earlier(t) : Takes(e, m) /\ SubjectOf[e] \in liv
  BY DEF IsTaken, Rivals
<1>2. e \in Core /\ e < t
  BY <1>1 DEF Earlier
<1>3. e \notin changed /\ m \in Delivers[e]
  BY <1>1, <1>2 DEF Stable, Takes
<1>4. sub[e] = "accepted"
  BY <1>0, <1>1, <1>2, <1>3 DEF ServerInv
<1>5. e \in sent[m]
  BY <1>0, <1>2, <1>3, <1>4 DEF ServerInv
<1> QED BY <1>0, <1>1, <1>2, <1>5 DEF IsFirst

\* A copy is cleared for the buffer by a spill, or because nothing covers it.
LEMMA ClearFrame ==
    ASSUME TypeOK, HandlerInv, Exclusive, [Next]_vars, NEW t \in Core, NEW m \in Msgs,
           Cleared(t, m)'
    PROVE  \/ Cleared(t, m)
           \/ <<t, m>> \in spilled'
           \/ t \in sent[m] /\ IsFree(<<t, m>>, silent') /\ UNCHANGED <<sent, changed>>
<1> USE HandsFacts, TargetsAssumption
<1> DEFINE c == <<t, m>>
<1>0. t \in Targets /\ c \in Copies
  BY DEF Copies
<1>a. c \in held \/ m \in busy[t] => t \in sent[m]
  BY <1>0 DEF Exclusive, ExclusiveAt, Pending
<1>b. ASSUME NEW g \in Hands, Settle(g, silent', live'), UNCHANGED <<sent, changed, handed>>,
             m \in busy'[t] /\ stage'[t] = "deliver" => m \in busy[t] /\ stage[t] = "deliver"
      PROVE  Cleared(t, m) \/ (t \in sent[m] /\ IsFree(c, silent') /\ UNCHANGED <<sent, changed>>)
  <2>1. \A h \in Hands : c \in todo'[h] => c \in todo[h] \/ (c \in held /\ IsFree(c, silent'))
    BY <1>b, SettleEffect
  <2> QED BY <1>a, <1>b, <2>1 DEF Cleared
<1>c. ASSUME UNCHANGED <<stage, busy, todo, handed>> PROVE Cleared(t, m)
  BY <1>c DEF Cleared
<1>1. CASE Session
  <2>1. ASSUME NEW u \in Targets, SubscribeFails(u)
        PROVE  Cleared(t, m) \/ (t \in sent[m] /\ IsFree(c, silent') /\ UNCHANGED <<sent, changed>>)
    BY <1>b, <1>c, <2>1 DEF SubscribeFails, MarkSilent, workVars
  <2> QED BY <1>c, <1>1, <2>1 DEF Session, StartDone, LeaveLoop, EndHolding, SubscribeOk,
                                  Unsubscribe, sessVars, workVars
<1>2. CASE Server
  <2>1. ASSUME NEW u \in Targets, ReportDenied(u)
        PROVE  Cleared(t, m) \/ (t \in sent[m] /\ IsFree(c, silent') /\ UNCHANGED <<sent, changed>>)
    BY <1>b, <1>c, <2>1 DEF ReportDenied, MarkSilent, workVars
  <2> QED BY <1>c, <1>2, <2>1 DEF Server, Decide, Redecide, Publish, sessVars, workVars
<1>3. ASSUME NEW u \in Targets, NEW n \in Msgs, Receive(u, n)
      PROVE  Cleared(t, m) \/ (t \in sent[m] /\ IsFree(c, silent') /\ UNCHANGED <<sent, changed>>)
  <2>1. m \in busy'[t] /\ stage'[t] = "deliver" => m \in busy[t] /\ stage[t] = "deliver"
    <3>1. CASE u = t
      BY <1>0, <1>3, <3>1 DEF TypeOK, Receive
    <3>2. CASE u # t
      BY <1>0, <1>3, <3>2 DEF TypeOK, Receive
    <3> QED BY <3>1, <3>2
  <2>2. UNCHANGED <<sent, changed, handed, silent>>
    BY <1>3 DEF Receive
  <2>3. CASE UNCHANGED todo
    BY <2>1, <2>2, <2>3 DEF Cleared
  <2>4. CASE Settle(u, silent', live')
    BY <1>b, <2>1, <2>2, <2>4
  <2> QED BY <1>3, <2>2, <2>3, <2>4 DEF Receive, MarkLive
<1>4. ASSUME NEW u \in Targets, NEW n \in Msgs, Route(u, n)
      PROVE  \/ Cleared(t, m) \/ c \in spilled'
             \/ t \in sent[m] /\ IsFree(c, silent') /\ UNCHANGED <<sent, changed>>
  <2>1. UNCHANGED <<sent, changed, handed, silent, todo>>
    BY <1>4 DEF Route
  <2>2. CASE u # t \/ m \notin busy[t]
    <3>1. m \in busy'[t] /\ stage'[t] = "deliver" => m \in busy[t] /\ stage[t] = "deliver"
      BY <1>0, <1>4, <2>2 DEF TypeOK, Route, Finish
    <3> QED BY <2>1, <3>1 DEF Cleared
  <2>3. CASE u = t /\ m \in busy[t]
    <3>1. m = n
      BY <1>0, <1>4, <2>3 DEF Route, HandlerInv
    <3>2. \/ stage'[t] = "idle"
          \/ <<t, m>> \in spilled'
          \/ IsFree(<<t, m>>, silent')
      BY <1>0, <1>4, <2>1, <2>3, <3>1 DEF TypeOK, Route, Finish
    <3> QED BY <1>a, <2>1, <2>3, <3>2 DEF Cleared
  <2> QED BY <2>2, <2>3
<1>5. ASSUME NEW u \in Targets, NEW n \in Msgs, Deliver(u, n) PROVE Cleared(t, m)
  <2>1. \A v \in Targets : stage'[v] = "deliver" => stage[v] = "deliver" /\ busy'[v] = busy[v]
    BY <1>5 DEF TypeOK, Deliver, Finish
  <2>2. handed'[c] > 0 => handed[c] > 0 \/ c = <<u, n>>
    BY <1>0, <1>5 DEF TypeOK, Deliver, HandOver
  <2>3. n \in busy[u] /\ stage[u] = "deliver" /\ todo' = todo
    BY <1>5 DEF Deliver
  <2> QED BY <1>0, <2>1, <2>2, <2>3 DEF Cleared
<1>6. ASSUME NEW g \in Hands, NEW d \in Copies, DeliverHeld(g, d) PROVE Cleared(t, m)
  <2>1. /\ \A h \in Hands : todo'[h] \subseteq todo[h]
        /\ d \in todo[g] /\ UNCHANGED <<stage, busy>>
    BY <1>6 DEF TypeOK, DeliverHeld, workVars
  <2>2. handed'[c] > 0 => handed[c] > 0 \/ c = d
    BY <1>0, <1>6 DEF TypeOK, DeliverHeld, HandOver
  <2> QED BY <2>1, <2>2 DEF Cleared
<1>7. ASSUME NEW d \in Copies, TimerFires(d) PROVE Cleared(t, m)
  BY <1>c, <1>7 DEF TimerFires, workVars
<1>8. ASSUME NEW d \in Copies, Release(d) PROVE Cleared(t, m) \/ c \in spilled'
  <2>1. UNCHANGED <<stage, busy, handed>>
    BY <1>8 DEF Release, workVars
  <2>2. \A h \in Hands : c \in todo'[h] => c \in todo[h] \/ c \in spilled'
    BY <1>0, <1>8 DEF TypeOK, Release
  <2> QED BY <2>1, <2>2 DEF Cleared
<1>9. CASE UNCHANGED vars
  BY <1>c, <1>9 DEF vars
<1> QED
  BY <1>1, <1>2, <1>3, <1>4, <1>5, <1>6, <1>7, <1>8, <1>9
  DEF Next, Workers, HoldTimers, Done

\* Histories only grow.
LEMMA HistoryFrame ==
    ASSUME TypeOK, [Next]_vars
    PROVE  /\ changed \subseteq changed' /\ spilled \subseteq spilled'
           /\ Open' => Open
           /\ \A m \in Msgs : sent'[m] = sent[m] \/ (sent[m] = {} /\ Publish(m))
<1>1. CASE Session
  BY <1>1 DEF Session, StartDone, LeaveLoop, EndHolding, SubscribeOk, SubscribeFails,
              Unsubscribe, sessVars, Open
<1>2. ASSUME NEW m \in Msgs, Publish(m)
      PROVE  \A n \in Msgs : sent'[n] = sent[n] \/ (sent[n] = {} /\ Publish(n))
  BY <1>2 DEF Publish, TypeOK
<1>3. CASE Server
  BY <1>2, <1>3 DEF Server, Decide, Redecide, ReportDenied, Publish, sessVars, Open
<1>4. CASE Workers
  BY <1>4 DEF Workers, Receive, Route, Deliver, DeliverHeld, Open
<1>5. CASE HoldTimers
  BY <1>5 DEF HoldTimers, TimerFires, Release, Open
<1>6. CASE UNCHANGED vars
  BY <1>6 DEF vars, Open
<1> QED BY <1>1, <1>3, <1>4, <1>5, <1>6 DEF Next, Done

\* Once a message is sent, which target is the first to take it does not change.
LEMMA FirstStable ==
    ASSUME TypeOK, [Next]_vars, NEW t \in Core, NEW m \in Msgs, sent[m] # {}
    PROVE  /\ sent'[m] = sent[m]
           /\ IsFirst(t, m)' <=> IsFirst(t, m)
           /\ Stable(m)' => Stable(m)
BY HistoryFrame DEF IsFirst, Stable, Takes

\* Nothing but the first target's copy, or an excused one, gets on its way to the buffer.
LEMMA ShowStep ==
    ASSUME OwnSubjects
    PROVE  TypeOK /\ HandlerInv /\ Exclusive /\ OrderInv /\ ServerInv /\ ShowInv
             /\ [Next]_vars => ShowInv'
<1> SUFFICES ASSUME TypeOK, HandlerInv, Exclusive, OrderInv, ServerInv, ShowInv, [Next]_vars,
                    NEW t \in Core, NEW m \in Msgs
             PROVE  /\ Cleared(t, m)' /\ Takes(t, m) /\ Stable(m)' =>
                         IsFirst(t, m)' \/ <<t, m>> \in spilled'
                    /\ handed'[<<t, m>>] > 0 => Takes(t, m)
  BY DEF ShowInv, Takes
<1>0. t \in Targets /\ <<t, m>> \in Copies
  BY TargetsAssumption DEF Copies
<1>1. handed'[<<t, m>>] > 0 => handed[<<t, m>>] > 0 \/ Takes(t, m)
  <2>1. ASSUME NEW c \in Copies, HandOver(c) PROVE handed'[<<t, m>>] > 0 => handed[<<t, m>>] > 0 \/ Takes(t, m)
    BY <1>0, <2>1 DEF TypeOK, HandOver
  <2>2. ASSUME NEW u \in Targets, NEW n \in Msgs, Deliver(u, n) PROVE \E c \in Copies : HandOver(c)
    BY <2>2 DEF Deliver, Copies
  <2>3. ASSUME NEW g \in Hands, NEW c \in Copies, DeliverHeld(g, c) PROVE \E d \in Copies : HandOver(d)
    BY <2>3 DEF DeliverHeld
  <2>4. handed' = handed \/ \E c \in Copies : HandOver(c)
    <3>1. CASE Session
      BY <3>1 DEF Session, StartDone, LeaveLoop, EndHolding, SubscribeOk, SubscribeFails,
                  Unsubscribe, sessVars
    <3>2. CASE Server
      BY <3>2 DEF Server, Decide, Redecide, ReportDenied, Publish, sessVars
    <3>3. CASE Workers
      BY <2>2, <2>3, <3>3 DEF Workers, Receive, Route
    <3>4. CASE HoldTimers
      BY <3>4 DEF HoldTimers, TimerFires, Release
    <3>5. CASE UNCHANGED vars
      BY <3>5 DEF vars
    <3> QED BY <3>1, <3>2, <3>3, <3>4, <3>5 DEF Next, Done
  <2> QED BY <2>1, <2>4
<1>2. ASSUME Cleared(t, m)', Takes(t, m), Stable(m)'
      PROVE  IsFirst(t, m)' \/ <<t, m>> \in spilled'
  <2>1. CASE Cleared(t, m)
    <3>1. sent[m] # {}
      <4>1. t \in sent[m]
        BY <1>0, <2>1 DEF Cleared, Exclusive, ExclusiveAt, Pending
      <4> QED BY <4>1
    <3>2. Stable(m) /\ (IsFirst(t, m)' <=> IsFirst(t, m)) /\ spilled \subseteq spilled'
      BY <1>2, <3>1, FirstStable, HistoryFrame
    <3> QED BY <1>2, <2>1, <3>2 DEF ShowInv
  <2>2. CASE t \in sent[m] /\ IsFree(<<t, m>>, silent') /\ UNCHANGED <<sent, changed>>
    <3>1. ServerInv'
      BY ServerStep, OwnSubjects
    <3>2. \A u \in Core : SubjectOf[u] \in silent' /\ u \notin changed => u \notin sent[m]
      BY <2>2, <3>1 DEF ServerInv
    <3>3. Stable(m) /\ (IsFirst(t, m)' <=> IsFirst(t, m))
      BY <1>2, <2>2, FirstStable
    <3> QED BY <1>2, <2>2, <3>2, <3>3, FreeIsFirst
  <2> QED BY <1>2, <2>1, <2>2, ClearFrame
<1> QED BY <1>1, <1>2 DEF ShowInv

\* While the session runs, a pending copy stays pending unless it is handed
\* over or dropped because an earlier live target takes it.
LEMMA PendingFrame ==
    ASSUME TypeOK, HandlerInv, Exclusive, [Next]_vars, Open',
           NEW t \in Core, NEW m \in Msgs, Takes(t, m), Pending(<<t, m>>)
    PROVE  \/ Pending(<<t, m>>)' \/ handed'[<<t, m>>] > 0
           \/ IsTaken(<<t, m>>, silent', live') /\ UNCHANGED <<sent, changed>>
<1> USE HandsFacts, TargetsAssumption
<1> DEFINE c == <<t, m>>
           Goal == \/ Pending(c)' \/ handed'[c] > 0
                   \/ IsTaken(c, silent', live') /\ UNCHANGED <<sent, changed>>
<1>0. t \in Targets /\ c \in Copies /\ handed[c] \in Nat
  BY DEF Copies, TypeOK
<1>a. ASSUME NEW g \in Hands, Settle(g, silent', live'), UNCHANGED <<sent, changed>>,
             m \in queue[t] \/ m \in busy[t] => m \in queue'[t] \/ m \in busy'[t]
      PROVE  Goal
  <2>1. c \in held => c \in held' \/ IsFree(c, silent') \/ IsTaken(c, silent', live')
    BY <1>a DEF Settle, IsUnknown
  <2>2. /\ c \in held /\ IsFree(c, silent') => c \in todo'[g]
        /\ \A h \in Hands : c \in todo[h] => c \in todo'[h]
    BY <1>a, SettleEffect
  <2> QED BY <1>a, <2>1, <2>2 DEF Pending
<1>c. ASSUME UNCHANGED <<held, todo>>,
             m \in queue[t] \/ m \in busy[t] => m \in queue'[t] \/ m \in busy'[t]
      PROVE  Goal
  BY <1>c DEF Pending
<1>1. CASE Session
  <2>1. ASSUME NEW u \in Targets, SubscribeFails(u) PROVE Goal
    <3>1. UNCHANGED <<queue, busy, sent, changed>> /\ live' = live
      BY <2>1 DEF SubscribeFails, workVars
    <3>2. UNCHANGED <<held, todo>> \/ Settle(Setup, silent', live')
      BY <2>1, <3>1 DEF SubscribeFails, MarkSilent
    <3> QED BY <1>a, <1>c, <3>1, <3>2
  <2>2. ASSUME NEW u \in Targets, Unsubscribe(u) PROVE FALSE
    BY <2>2 DEF Unsubscribe, Open
  <2>3. ASSUME EndHolding PROVE FALSE
    BY <2>3 DEF EndHolding, Open
  <2> QED BY <1>c, <1>1, <2>1, <2>2, <2>3 DEF Session, StartDone, LeaveLoop, SubscribeOk,
                                            sessVars, workVars
<1>2. CASE Server
  <2>1. ASSUME NEW u \in Targets, ReportDenied(u) PROVE Goal
    <3>1. UNCHANGED <<queue, busy, sent, changed>> /\ live' = live
      BY <2>1 DEF ReportDenied, workVars
    <3>2. UNCHANGED <<held, todo>> \/ Settle(Denier, silent', live')
      BY <2>1, <3>1 DEF ReportDenied, MarkSilent
    <3> QED BY <1>a, <1>c, <3>1, <3>2
  <2>2. ASSUME NEW n \in Msgs, Publish(n) PROVE Goal
    BY <1>0, <1>c, <2>2 DEF TypeOK, Publish, sessVars
  <2> QED BY <1>c, <1>2, <2>1, <2>2 DEF Server, Decide, Redecide, sessVars, workVars
<1>3. ASSUME NEW u \in Targets, NEW n \in Msgs, Receive(u, n) PROVE Goal
  <2>1. m \in queue[t] \/ m \in busy[t] => m \in queue'[t] \/ m \in busy'[t]
    <3>1. CASE u = t
      BY <1>0, <1>3, <3>1 DEF TypeOK, Receive, HandlerInv
    <3>2. CASE u # t
      BY <1>0, <1>3, <3>2 DEF TypeOK, Receive
    <3> QED BY <3>1, <3>2
  <2>2. UNCHANGED <<sent, changed, silent>>
    BY <1>3 DEF Receive
  <2>3. UNCHANGED <<held, todo>> \/ Settle(u, silent', live')
    BY <1>3, <2>2 DEF Receive, MarkLive
  <2> QED BY <1>a, <1>c, <2>1, <2>2, <2>3
<1>4. ASSUME NEW u \in Targets, NEW n \in Msgs, Route(u, n) PROVE Goal
  <2>1. UNCHANGED <<queue, sent, changed, silent, live, todo>> /\ held \subseteq held'
    BY <1>4 DEF Route
  <2>2. CASE m \in busy[t] /\ m \notin busy'[t]
    <3>1. u = t /\ m = n
      BY <1>0, <1>4, <2>2 DEF TypeOK, Route, Finish, HandlerInv
    <3>2. IsTaken(c, silent, live) \/ c \in held'
      BY <1>0, <1>4, <2>2, <3>1 DEF TypeOK, Route
    <3> QED BY <2>1, <3>2 DEF Pending
  <2> QED BY <2>1, <2>2 DEF Pending
<1>5. ASSUME NEW u \in Targets, NEW n \in Msgs, Deliver(u, n) PROVE Goal
  <2>1. UNCHANGED <<queue, held, todo>>
    BY <1>5 DEF Deliver
  <2>2. CASE m \in busy[t] /\ m \notin busy'[t]
    <3>1. u = t /\ m = n
      BY <1>0, <1>5, <2>2 DEF TypeOK, Deliver, Finish, HandlerInv
    <3>2. handed'[c] = handed[c] + 1
      BY <1>0, <1>5, <3>1 DEF TypeOK, Deliver, HandOver
    <3> QED BY <1>0, <3>2
  <2> QED BY <2>1, <2>2 DEF Pending
<1>6. ASSUME NEW g \in Hands, NEW d \in Copies, DeliverHeld(g, d) PROVE Goal
  <2>1. UNCHANGED <<queue, busy, held>> /\ \A h \in Hands : c \in todo[h] => c \in todo'[h] \/ c = d
    BY <1>6 DEF TypeOK, DeliverHeld, workVars
  <2>2. c = d => handed'[c] = handed[c] + 1
    BY <1>0, <1>6 DEF TypeOK, DeliverHeld, HandOver
  <2> QED BY <1>0, <2>1, <2>2 DEF Pending
<1>7. ASSUME NEW d \in Copies, TimerFires(d) PROVE Goal
  BY <1>c, <1>7 DEF TimerFires, workVars
<1>8. ASSUME NEW d \in Copies, Release(d) PROVE Goal
  <2>1. UNCHANGED <<queue, busy>>
    BY <1>8 DEF Release, workVars
  <2>2. c \in held => c \in held' \/ c \in todo'[Timers]
    BY <1>8 DEF TypeOK, Release
  <2>3. \A h \in Hands : c \in todo[h] => c \in todo'[h]
    BY <1>8 DEF TypeOK, Release
  <2> QED BY <2>1, <2>2, <2>3 DEF Pending
<1>9. CASE UNCHANGED vars
  BY <1>c, <1>9 DEF vars
<1> QED
  BY <1>1, <1>2, <1>3, <1>4, <1>5, <1>6, <1>7, <1>8, <1>9
  DEF Next, Workers, HoldTimers, Done

\* Handing over is counted, never taken back.
LEMMA HandedGrows ==
    ASSUME TypeOK, [Next]_vars, NEW c \in Copies, handed[c] > 0
    PROVE  handed'[c] > 0
<1>1. ASSUME NEW d \in Copies, HandOver(d) PROVE handed'[c] > 0
  <2>1. handed[c] \in Nat /\ handed[d] \in Nat
    BY DEF TypeOK
  <2> QED BY <1>1, <2>1 DEF TypeOK, HandOver
<1>2. CASE Session
  BY <1>2 DEF Session, StartDone, LeaveLoop, EndHolding, SubscribeOk, SubscribeFails,
              Unsubscribe, sessVars
<1>3. CASE Server
  BY <1>3 DEF Server, Decide, Redecide, ReportDenied, Publish, sessVars
<1>4. ASSUME NEW u \in Targets, NEW n \in Msgs, Deliver(u, n) PROVE \E d \in Copies : HandOver(d)
  BY <1>4 DEF Deliver, Copies
<1>5. ASSUME NEW g \in Hands, NEW d \in Copies, DeliverHeld(g, d) PROVE HandOver(d)
  BY <1>5 DEF DeliverHeld
<1>6. CASE Workers
  BY <1>1, <1>4, <1>5, <1>6 DEF Workers, Receive, Route
<1>7. CASE HoldTimers
  BY <1>7 DEF HoldTimers, TimerFires, Release
<1>8. CASE UNCHANGED vars
  BY <1>8 DEF vars
<1> QED BY <1>2, <1>3, <1>6, <1>7, <1>8 DEF Next, Done

\* A step that proves a subject live decides nothing about a subscription.
LEMMA LiveFrame ==
    ASSUME [Next]_vars
    PROVE  live' = live \/ UNCHANGED sub
<1>1. CASE Session
  BY <1>1 DEF Session, StartDone, LeaveLoop, EndHolding, SubscribeOk, SubscribeFails,
              Unsubscribe, sessVars
<1>2. CASE Server
  BY <1>2 DEF Server, Decide, Redecide, ReportDenied, Publish, sessVars
<1>3. CASE Workers
  BY <1>3 DEF Workers, Receive, Route, Deliver, DeliverHeld
<1>4. CASE HoldTimers
  BY <1>4 DEF HoldTimers, TimerFires, Release
<1>5. CASE UNCHANGED vars
  BY <1>5 DEF vars
<1> QED BY <1>1, <1>2, <1>3, <1>4, <1>5 DEF Next, Done

\* No step drops the copy of the first target.
LEMMA LostStep ==
    ASSUME OwnSubjects
    PROVE  TypeOK /\ HandlerInv /\ Exclusive /\ OrderInv /\ ServerInv /\ FirstNotLost
             /\ [Next]_vars => FirstNotLost'
<1> SUFFICES ASSUME TypeOK, HandlerInv, Exclusive, OrderInv, ServerInv, FirstNotLost, [Next]_vars,
                    NEW t \in Core, NEW m \in Msgs, Open', Stable(m)', IsFirst(t, m)'
             PROVE  handed'[<<t, m>>] > 0 \/ Pending(<<t, m>>)'
  BY DEF FirstNotLost, Open
<1>0. t \in Targets /\ <<t, m>> \in Copies
  BY TargetsAssumption DEF Copies
<1>1. Open
  BY HistoryFrame
<1>2. CASE sent'[m] # sent[m]
  <2>1. Publish(m)
    BY <1>2, HistoryFrame
  <2>2. t \in sent'[m]
    BY DEF IsFirst
  <2>3. m \in queue'[t]
    BY <1>0, <2>1, <2>2 DEF Publish, TypeOK
  <2> QED BY <2>3 DEF Pending
<1>3. CASE sent'[m] = sent[m]
  <2>1. t \in sent[m] /\ Takes(t, m)
    BY <1>3 DEF IsFirst, Takes
  <2>a. sent[m] # {}
    BY <2>1
  <2>b. IsFirst(t, m)' <=> IsFirst(t, m)
    BY <2>a, FirstStable
  <2>c. Stable(m)' => Stable(m)
    BY <2>a, FirstStable
  <2>2. Stable(m) /\ IsFirst(t, m)
    BY <2>b, <2>c
  <2>3. handed[<<t, m>>] > 0 \/ Pending(<<t, m>>)
    BY <1>1, <2>2 DEF FirstNotLost, Open
  <2>4. CASE handed[<<t, m>>] > 0
    BY <1>0, <2>4, HandedGrows
  <2>5. CASE IsTaken(<<t, m>>, silent', live') /\ UNCHANGED <<sent, changed>>
    <3>1. ServerInv'
      BY ServerStep, OwnSubjects
    <3>2. \A u \in Core : SubjectOf[u] \in live' /\ u \notin changed => sub[u] \in {"accepted", "closed"}
      <4> SUFFICES ASSUME NEW u \in Core, SubjectOf[u] \in live', u \notin changed
                   PROVE  sub[u] \in {"accepted", "closed"}
        OBVIOUS
      <4>1. sub'[u] \in {"accepted", "closed"}
        BY <2>5, <3>1 DEF ServerInv
      <4>2. CASE UNCHANGED sub
        BY <4>1, <4>2
      <4>3. CASE live' = live
        BY <4>3 DEF ServerInv
      <4> QED BY <4>2, <4>3, LiveFrame
    <3> QED BY <1>1, <2>1, <2>2, <2>5, <3>2, TakenNotFirst
  <2> QED BY <2>1, <2>3, <2>4, <2>5, PendingFrame
<1> QED BY <1>2, <1>3

-----------------------------------------------------------------------------
\* Everything the theorems below rest on, kept by every step.
IInv ==
    /\ TypeOK /\ HandlerInv /\ Exclusive /\ OrderInv /\ HoldInv
    /\ OwnSubjects => ServerInv /\ ShowInv /\ FirstNotLost

\* The inductive invariant holds in every reachable state of a session.
THEOREM Inductive == Spec => []IInv
<1>1. Init => HandlerInv /\ Exclusive /\ OrderInv /\ HoldInv /\ ServerInv /\ ShowInv /\ FirstNotLost
  <2> SUFFICES ASSUME Init
               PROVE  HandlerInv /\ Exclusive /\ OrderInv /\ HoldInv /\ ServerInv /\ ShowInv /\ FirstNotLost
    OBVIOUS
  <2>1. Exclusive
    BY HandsFacts DEF Init, Exclusive, ExclusiveAt, Pending, Copies
  <2>2. OrderInv
    BY CountsAssumption DEF Init, OrderInv, Targets
  <2>3. HandlerInv /\ HoldInv
    BY DEF Init, HandlerInv, HoldInv, HeldIsUnknown, EndedHoldsNothing
  <2>4. ServerInv
    BY TargetsAssumption DEF Init, ServerInv
  <2>5. ShowInv
    BY TargetsAssumption DEF Init, ShowInv, Cleared, Copies
  <2>6. FirstNotLost
    BY DEF Init, FirstNotLost, IsFirst
  <2> QED BY <2>1, <2>2, <2>3, <2>4, <2>5, <2>6
<1>2. TypeOK /\ IInv /\ [Next]_vars => (HandlerInv /\ Exclusive /\ OrderInv /\ HoldInv
                              /\ (OwnSubjects => ServerInv /\ ShowInv /\ FirstNotLost))'
  BY HandlerStep, ExclusiveStep, OrderStep, HoldStep, ServerStep, ShowStep, LostStep
  DEF IInv, OwnSubjects
<1> QED
  BY <1>1, <1>2, TypeCorrect, PTL DEF Spec, IInv

\* A held copy always waits for a decision that is still open: whatever makes
\* a subject live or silent settles every copy it decides, in the same step.
THEOREM HeldIsUnknownHolds == Spec => []HeldIsUnknown
BY Inductive, PTL DEF IInv, HoldInv

\* Nothing is held after the session ended, whichever handlers still run.
THEOREM EndedHoldsNothingHolds == Spec => []EndedHoldsNothing
BY Inductive, PTL DEF IInv, HoldInv

\* No copy reaches the buffer twice: settle, timer, refusal and teardown each
\* take a copy out of the one place it is in.
THEOREM HandedOnceHolds == Spec => []HandedOnce
<1>1. IInv => HandedOnce
  BY DEF IInv, Exclusive, ExclusiveAt, HandedOnce, Copies
<1> QED
  BY <1>1, Inductive, PTL

\* Unless a stream shares a core target's subject, of the copies of a message
\* only the first core target's is shown, but for spills and for messages
\* whose targets the server decided anew.
THEOREM ShownByFirstHolds == ASSUME OwnSubjects PROVE Spec => []ShownByFirst
<1>1. IInv => ShownByFirst
  BY OwnSubjects DEF IInv, ShowInv, Cleared, ShownByFirst
<1> QED
  BY <1>1, Inductive, PTL

\* Under the same condition that copy is never lost to another while the
\* session runs.
THEOREM FirstNotLostHolds == ASSUME OwnSubjects PROVE Spec => []FirstNotLost
<1>1. IInv => FirstNotLost
  BY OwnSubjects DEF IInv
<1> QED
  BY <1>1, Inductive, PTL

-----------------------------------------------------------------------------
\* A copy is handed over out of the session, and nothing else happens then.
LEMMA HandFrame ==
    ASSUME TypeOK, [Next]_vars
    PROVE  \/ handed' = handed
           \/ \E c \in Copies :
                 HandOver(c) /\ Pending(c) /\ UNCHANGED <<sent, changed, spilled>>
<1>1. CASE Session
  BY <1>1 DEF Session, StartDone, LeaveLoop, EndHolding, SubscribeOk, SubscribeFails,
              Unsubscribe, sessVars
<1>2. CASE Server
  BY <1>2 DEF Server, Decide, Redecide, ReportDenied, Publish, sessVars
<1>3. ASSUME NEW t \in Targets, NEW m \in Msgs, Deliver(t, m)
      PROVE  \E c \in Copies : HandOver(c) /\ Pending(c) /\ UNCHANGED <<sent, changed, spilled>>
  BY <1>3 DEF Deliver, Copies, Pending
<1>4. ASSUME NEW g \in Hands, NEW c \in Copies, DeliverHeld(g, c)
      PROVE  HandOver(c) /\ Pending(c) /\ UNCHANGED <<sent, changed, spilled>>
  BY <1>4 DEF DeliverHeld, Pending
<1>5. CASE Workers
  BY <1>3, <1>4, <1>5 DEF Workers, Receive, Route
<1>6. CASE HoldTimers
  BY <1>6 DEF HoldTimers, TimerFires, Release
<1>7. CASE UNCHANGED vars
  BY <1>7 DEF vars
<1> QED BY <1>1, <1>2, <1>5, <1>6, <1>7 DEF Next, Done

\* The copies excused in the mapping, and the copies shown.
Excused == spilled \cup {c \in Copies : c[1] \notin Core \/ ~Stable(c[2])}
Shown == {c \in Copies : handed[c] > 0}

\* First among the core targets is first in the abstract feed.
LEMMA FirstInFeed ==
    ASSUME NEW t \in Core, NEW m \in Msgs, IsFirst(t, m), sent[m] \subseteq Targets
    PROVE  Feed!IsFirst(t, m)
BY TargetsAssumption DEF IsFirst, Feed!IsFirst, Takes

\* Handing a copy over is the abstract Show, or shows nothing.
LEMMA ShowMaps ==
    ASSUME OwnSubjects, TypeOK, Exclusive, ShowInv, ShowInv', [Next]_vars,
           NEW c \in Copies, HandOver(c), Pending(c), UNCHANGED <<sent, changed, spilled>>
    PROVE  Feed!FeedNext \/ UNCHANGED <<sent, Shown, Excused>>
<1>1. PICK t \in Targets, m \in Msgs : c = <<t, m>>
  BY DEF Copies
<1>2. UNCHANGED <<sent, Excused>>
  BY DEF Excused, Stable, Takes
<1>3. CASE ~Takes(t, m) \/ handed[c] > 0
  <2>1. handed[c] \in Nat
    BY DEF TypeOK
  <2>2. \A d \in Copies : handed'[d] > 0 <=> handed[d] > 0
    BY <1>1, <1>3, <2>1 DEF TypeOK, HandOver
  <2> QED BY <1>2, <2>2 DEF Shown
<1>4. CASE Takes(t, m) /\ ~(handed[c] > 0)
  <2>1. t \in sent[m]
    BY <1>1 DEF Exclusive, ExclusiveAt
  <2>2. handed' = [handed EXCEPT ![c] = @ + 1] /\ handed[c] = 0
    BY <1>1, <1>4 DEF TypeOK, HandOver
  <2>3. Shown' = Shown \cup {c} /\ c \notin Shown
    BY <2>2 DEF TypeOK, Shown
  <2>4. Feed!IsFirst(t, m) \/ c \in Excused
    <3>1. CASE t \notin Core \/ ~Stable(m)
      BY <1>1, <3>1 DEF Excused
    <3>2. CASE t \in Core /\ Stable(m)
      <4>1. IsFirst(t, m) \/ c \in spilled
        <5>1. Cleared(t, m)' /\ Stable(m)'
          BY <1>1, <2>2, <3>2 DEF TypeOK, Cleared, Stable, Takes
        <5>2. IsFirst(t, m)' \/ c \in spilled'
          BY <1>1, <1>4, <3>2, <5>1 DEF ShowInv, Takes
        <5> QED BY <5>2 DEF IsFirst, Takes
      <4>2. sent[m] \subseteq Targets
        BY DEF TypeOK
      <4> QED BY <3>2, <4>1, <4>2, FirstInFeed DEF Excused
    <3> QED BY <3>1, <3>2
  <2>5. Feed!Show(t, m)
    BY <1>1, <1>2, <2>1, <2>3, <2>4 DEF Feed!Show, Shown, Excused
  <2> QED BY <2>5 DEF Feed!FeedNext
<1> QED BY <1>3, <1>4

\* The session shows each message once, by the first live target that takes
\* it: every behaviour of the session is one of the abstract feed, where no
\* stream shares a core target's subject.
THEOREM ImplementsFeedHolds == ASSUME OwnSubjects PROVE Spec => ImplementsFeed
<1>1. Init => Feed!FeedInit
  BY DEF Init, Feed!FeedInit, Feed!Copies, Copies
<1>2. IInv /\ IInv' /\ [Next]_vars => [Feed!FeedNext]_(Feed!feedVars)
  <2> SUFFICES ASSUME IInv, IInv', [Next]_vars
               PROVE  Feed!FeedNext \/ UNCHANGED <<sent, Shown, Excused>>
    BY DEF Feed!feedVars, Shown, Excused
  <2>1. TypeOK /\ TypeOK' /\ Exclusive /\ ShowInv /\ ShowInv'
    BY OwnSubjects DEF IInv, OwnSubjects
  <2>2. CASE handed' # handed
    BY <2>1, <2>2, HandFrame, ShowMaps, OwnSubjects
  <2>3. CASE handed' = handed
    <3>1. Shown' = Shown
      BY <2>3 DEF Shown
    <3>2. Excused \subseteq Excused' /\ Excused' \in SUBSET Copies
      BY <2>1, HistoryFrame DEF TypeOK, Excused, Stable, Takes
    <3>3. CASE sent' = sent
      BY <3>1, <3>2, <3>3 DEF Feed!FeedNext, Feed!Excuse, Shown, Excused, Copies, Feed!Copies
    <3>4. CASE sent' # sent
      <4>1. PICK m \in Msgs : sent[m] = {} /\ Publish(m)
        BY <2>1, <3>4, HistoryFrame DEF TypeOK
      <4>2. Excused' = Excused
        BY <4>1 DEF Publish, sessVars, Excused, Stable, Takes
      <4>3. \E R \in SUBSET Targets : sent' = [sent EXCEPT ![m] = R]
        BY <4>1 DEF Publish
      <4>4. Feed!Send(m)
        BY <3>1, <4>1, <4>2, <4>3 DEF Feed!Send, Shown, Excused
      <4> QED BY <4>4 DEF Feed!FeedNext
    <3> QED BY <3>3, <3>4
  <2> QED BY <2>2, <2>3
<1> QED
  BY <1>1, <1>2, Inductive, PTL DEF Spec, ImplementsFeed, Feed!FeedSpec
=============================================================================
