---------------------------- MODULE ConnPoolProofs ----------------------------
(***************************************************************************)
(* What the pool keeps, for every number of sessions, edits, dials and     *)
(* link changes.  The argument follows the generation: a dial that read    *)
(* anything an edit has replaced since has a generation that the edit's    *)
(* Disconnect left behind, so what it made is never pooled.                *)
(***************************************************************************)
EXTENDS ConnPool, TLAPS

\* The types, by the steps that change them.  One edit at a time is in its
\* transaction, and writes the newest version: what it commits was given out.
EditsTyped ==
    /\ doc \in 1 .. versions /\ deleted \in BOOLEAN /\ secrets \in 1 .. versions
    /\ versions \in Nat
    /\ epc \in [Edits -> {"idle", "updating", "deleting", "committed", "closing",
                          "notifying", "failed", "done"}]
    /\ over \in [Edits -> 0 .. versions]
    /\ \A e \in Edits : epc[e] \in {"updating", "deleting"} => over[e] = versions
    /\ \A e, o \in Edits : {epc[e], epc[o]} \subseteq {"updating", "deleting"} => e = o

PoolTyped ==
    /\ evictim \in [Edits -> Clients \cup {NoClient}]
    /\ pooled \in Clients \cup {NoClient} /\ gen \in Nat
    /\ stopped \in BOOLEAN

ClientsTyped ==
    /\ dialed \in 0 .. MaxClients
    /\ docOf \in [Clients -> Nat] /\ secOf \in [Clients -> Nat]
    /\ open \in [Clients -> BOOLEAN] /\ link \in [Clients -> {"up", "down", "closed"}]
    /\ flaps \in 0 .. MaxFlaps

\* What a dial knows.
Reads == [attempt : 0 .. MaxStaleDials, gen : Nat, doc : Nat, sec : Nat,
          client : Clients \cup {NoClient}]

FlightTyped ==
    /\ flight \in {"none", "check", "load", "load secrets", "dial", "insert", "discard", "done"}
    /\ fl \in Reads
    /\ waiters \subseteq Sessions

SessionsTyped ==
    /\ lost \subseteq Sessions
    /\ pc \in [Sessions -> {"idle", "lookup", "asking", "asking again", "dropping", "closing",
                            "notifying", "joining", "waiting", "got", "running", "ended"}]
    /\ using \in [Sessions -> Clients \cup {NoClient}]
    /\ floor \in [Sessions -> Nat]

TypeInv == EditsTyped /\ PoolTyped /\ ClientsTyped /\ FlightTyped /\ SessionsTyped

LEMMA TypeInvIsType == TypeInv => TypeOK
BY DEF TypeInv, TypeOK, EditsTyped, PoolTyped, ClientsTyped, FlightTyped, Reads, SessionsTyped

LEMMA Bounds ==
    MaxStaleDials \in Nat /\ MaxStaleDials # 0 /\ MaxClients \in Nat /\ MaxFlaps \in Nat
BY BoundsAssumption DEF BoundsAssumption

LEMMA Attempts ==
    /\ 1 \in 0 .. MaxStaleDials
    /\ \A a \in 0 .. MaxStaleDials : a # MaxStaleDials => a + 1 \in 0 .. MaxStaleDials
BY Bounds

LEMMA ReadsTyped ==
    /\ NoRead \in Reads
    /\ \A n \in 0 .. MaxStaleDials : [NoRead EXCEPT !.attempt = n] \in Reads
    /\ \A r \in Reads : \A n \in Nat : [r EXCEPT !.gen = n] \in Reads
    /\ \A r \in Reads : \A n \in Nat : [r EXCEPT !.doc = n] \in Reads
    /\ \A r \in Reads : \A n \in Nat : [r EXCEPT !.sec = n] \in Reads
    /\ \A r \in Reads : \A c \in Clients \cup {NoClient} : [r EXCEPT !.client = c] \in Reads
<1>1. NoRead \in Reads
  BY BoundsAssumption DEF Reads, NoRead, BoundsAssumption
<1>2. \A n \in 0 .. MaxStaleDials : [NoRead EXCEPT !.attempt = n] \in Reads
  BY BoundsAssumption DEF Reads, NoRead, BoundsAssumption
<1>3. \A r \in Reads : \A n \in Nat : [r EXCEPT !.gen = n] \in Reads
  BY DEF Reads
<1>4. \A r \in Reads : \A n \in Nat : [r EXCEPT !.doc = n] \in Reads
  BY DEF Reads
<1>5. \A r \in Reads : \A n \in Nat : [r EXCEPT !.sec = n] \in Reads
  BY DEF Reads
<1>6. \A r \in Reads : \A c \in Clients \cup {NoClient} : [r EXCEPT !.client = c] \in Reads
  BY DEF Reads
<1> QED BY <1>1, <1>2, <1>3, <1>4, <1>5, <1>6

LEMMA TypeInvInit == Init => TypeInv
<1> SUFFICES ASSUME Init PROVE TypeInv
  OBVIOUS
<1> USE BoundsAssumption DEF BoundsAssumption, Init, NoClient
<1>1. EditsTyped
  <2>1. deleted \in BOOLEAN
    OBVIOUS
  <2>2. doc \in 1 .. versions /\ secrets \in 1 .. versions /\ versions \in Nat /\ over \in [Edits -> 0 .. versions]
    OBVIOUS
  <2> QED BY <2>1, <2>2 DEF EditsTyped
<1>2. PoolTyped
  <2>1. stopped \in BOOLEAN
    OBVIOUS
  <2> QED BY <2>1 DEF PoolTyped
<1>3. ClientsTyped
  <2>1. open \in [Clients -> BOOLEAN]
    OBVIOUS
  <2> QED BY <2>1 DEF ClientsTyped
<1>4. FlightTyped
  BY ReadsTyped DEF FlightTyped
<1>5. SessionsTyped
  BY DEF SessionsTyped
<1> QED BY <1>1, <1>2, <1>3, <1>4, <1>5 DEF TypeInv

-----------------------------------------------------------------------------
\* Who changes what.

LEMMA EditsChange ==
    ASSUME [Next]_vars
    PROVE  UNCHANGED editVars \/ \E e \in Edits : WriteVault(e) \/ Commit(e) \/ RollBack(e)
               \/ Disconnect(e) \/ DisconnectCloses(e) \/ DisconnectNotifies(e)
BY DEF Next, Call, Edit, Dialing, Links, Done, vars, editVars,
       Register, Lookup, IsConnected, IsReconnecting, Drop, DropCloses, DropNotifies, Join,
       Cancel, Subscribe, SeeLost, Leave, Check, LoadDoc, LoadSecrets, Dial, DialFails,
       Insert, Discard, Answer, FlightRest, LinkDown, LinkUp, GiveUp, LinkClosed, Stop

LEMMA PoolChange ==
    ASSUME [Next]_vars
    PROVE  \/ UNCHANGED <<pooled, gen, evictim, stopped>>
           \/ \E s \in Sessions : Drop(s)
           \/ Insert \/ Stop
           \/ \E e \in Edits : Disconnect(e) \/ DisconnectNotifies(e)
BY DEF Next, Call, Edit, Dialing, Links, Done, vars,
       Register, Lookup, IsConnected, IsReconnecting, DropCloses, DropNotifies, Join,
       Cancel, Subscribe, SeeLost, Leave, Check, LoadDoc, LoadSecrets, Dial, DialFails,
       Discard, Answer, FlightRest, LinkDown, LinkUp, GiveUp, LinkClosed,
       WriteVault, Commit, RollBack, DisconnectCloses

LEMMA ClientsChange ==
    ASSUME [Next]_vars
    PROVE  \/ UNCHANGED clientVars
           \/ \E s \in Sessions : DropCloses(s)
           \/ Dial \/ Discard \/ Stop
           \/ \E e \in Edits : DisconnectCloses(e)
           \/ \E c \in Clients : LinkDown(c) \/ LinkUp(c) \/ GiveUp(c) \/ LinkClosed(c)
BY DEF Next, Call, Edit, Dialing, Links, Done, vars, clientVars,
       Register, Lookup, IsConnected, IsReconnecting, Drop, DropNotifies, Join,
       Cancel, Subscribe, SeeLost, Leave, Check, LoadDoc, LoadSecrets, DialFails,
       Insert, Answer, FlightRest, WriteVault, Commit, RollBack, Disconnect, DisconnectNotifies

LEMMA FlightChange ==
    ASSUME [Next]_vars
    PROVE  \/ UNCHANGED flightVars
           \/ \E s \in Sessions : Join(s) \/ Cancel(s)
           \/ Dialing
BY DEF Next, Call, Edit, Links, Done, vars, flightVars,
       Register, Lookup, IsConnected, IsReconnecting, Drop, DropCloses, DropNotifies,
       Subscribe, SeeLost, Leave, LinkDown, LinkUp, GiveUp, LinkClosed, Stop,
       WriteVault, Commit, RollBack, Disconnect, DisconnectCloses, DisconnectNotifies

LEMMA SessionsChange ==
    ASSUME [Next]_vars
    PROVE  \/ UNCHANGED sessVars
           \/ \E s \in Sessions : Call(s) \/ Cancel(s) \/ Leave(s)
           \/ Answer
           \/ \E e \in Edits : DisconnectNotifies(e)
BY DEF Next, Edit, Dialing, Links, Done, vars, sessVars,
       Check, LoadDoc, LoadSecrets, Dial, DialFails, Insert, Discard, FlightRest,
       LinkDown, LinkUp, GiveUp, LinkClosed, Stop,
       WriteVault, Commit, RollBack, Disconnect, DisconnectCloses

-----------------------------------------------------------------------------
LEMMA TypeInvStep == TypeInv /\ [Next]_vars => TypeInv'
<1> SUFFICES ASSUME TypeInv, [Next]_vars PROVE TypeInv'
  OBVIOUS
<1> USE DEF TypeInv
<1>1. EditsTyped'
  <2>1. CASE UNCHANGED editVars
    BY <2>1 DEF EditsTyped, editVars
  <2>2. ASSUME NEW e \in Edits, WriteVault(e) PROVE EditsTyped'
    BY <2>2 DEF EditsTyped, WriteVault, EditGoto
  <2>3. ASSUME NEW e \in Edits, Commit(e) PROVE EditsTyped'
    <3>1. deleted' \in BOOLEAN
      BY <2>3 DEF Commit
    <3> QED BY <2>3, <3>1 DEF EditsTyped, Commit, EditGoto
  <2>4. ASSUME NEW e \in Edits,
               RollBack(e) \/ Disconnect(e) \/ DisconnectCloses(e) \/ DisconnectNotifies(e)
        PROVE  EditsTyped'
    <3>1. /\ UNCHANGED <<doc, deleted, secrets, versions, over>>
          /\ \E place \in {"failed", "done", "closing", "notifying"} : epc' = [epc EXCEPT ![e] = place]
      BY <2>4 DEF RollBack, Disconnect, DisconnectCloses, DisconnectNotifies, EditGoto
    <3> QED BY <3>1 DEF EditsTyped
  <2> QED BY <2>1, <2>2, <2>3, <2>4, EditsChange
<1>2. PoolTyped'
  <2>1. CASE UNCHANGED <<pooled, gen, evictim, stopped>>
    BY <2>1 DEF PoolTyped
  <2>2. ASSUME NEW s \in Sessions, Drop(s) PROVE PoolTyped'
    BY <2>2 DEF PoolTyped, Drop
  <2>3. CASE Insert
    BY <2>3 DEF PoolTyped, Insert, FlightTyped, Reads, FlightRest
  <2>4. CASE Stop
    <3>1. stopped' \in BOOLEAN
      BY <2>4 DEF Stop
    <3> QED BY <2>4, <3>1 DEF PoolTyped, Stop
  <2>5. ASSUME NEW e \in Edits, Disconnect(e) PROVE PoolTyped'
    BY <2>5 DEF PoolTyped, Disconnect
  <2>6. ASSUME NEW e \in Edits, DisconnectNotifies(e) PROVE PoolTyped'
    BY <2>6 DEF PoolTyped, DisconnectNotifies
  <2> QED BY <2>1, <2>2, <2>3, <2>4, <2>5, <2>6, PoolChange
<1>3. ClientsTyped'
  <2>1. CASE UNCHANGED clientVars
    BY <2>1 DEF ClientsTyped, clientVars
  \* A client is closed: by a session, the dial, an edit, or as nats.go gives up.
  <2>2. ASSUME NEW c, open' = [open EXCEPT ![c] = FALSE], UNCHANGED <<dialed, docOf, secOf, link, flaps>>
        PROVE  ClientsTyped'
    <3>1. open' \in [Clients -> BOOLEAN]
      BY <2>2, Zenon DEF ClientsTyped
    <3> QED BY <2>2, <3>1 DEF ClientsTyped
  <2>3. ASSUME NEW s \in Sessions, DropCloses(s) PROVE ClientsTyped'
    BY <2>2, <2>3 DEF DropCloses
  <2>4. CASE Dial
    <3>1. /\ dialed' \in Clients /\ fl.doc \in Nat /\ fl.sec \in Nat
      BY <2>4, BoundsAssumption DEF Dial, ClientsTyped, FlightTyped, Reads, Clients, BoundsAssumption
    <3>2. /\ docOf' = [docOf EXCEPT ![dialed'] = fl.doc] /\ secOf' = [secOf EXCEPT ![dialed'] = fl.sec]
          /\ open' = [open EXCEPT ![dialed'] = TRUE] /\ link' = [link EXCEPT ![dialed'] = "up"]
          /\ flaps' = flaps
      BY <2>4 DEF Dial
    <3>3. open' \in [Clients -> BOOLEAN]
      BY <3>2, Zenon DEF ClientsTyped
    <3>4. dialed' \in 0 .. MaxClients
      BY <3>1 DEF Clients
    <3> QED BY <3>1, <3>2, <3>3, <3>4 DEF ClientsTyped
  <2>5. CASE Discard
    BY <2>2, <2>5 DEF Discard
  <2>6. CASE Stop
    <3>1. open' \in [Clients -> BOOLEAN]
      BY <2>6, Zenon DEF Stop
    <3> QED BY <2>6, <3>1 DEF ClientsTyped, Stop
  <2>7. ASSUME NEW e \in Edits, DisconnectCloses(e) PROVE ClientsTyped'
    BY <2>2, <2>7 DEF DisconnectCloses
  <2>8. ASSUME NEW c \in Clients, GiveUp(c) PROVE ClientsTyped'
    BY <2>2, <2>8 DEF GiveUp
  <2>9. ASSUME NEW c \in Clients, LinkDown(c) \/ LinkUp(c) \/ LinkClosed(c) PROVE ClientsTyped'
    BY <2>9, BoundsAssumption DEF ClientsTyped, LinkDown, LinkUp, LinkClosed, BoundsAssumption
  <2> QED BY <2>1, <2>3, <2>4, <2>5, <2>6, <2>7, <2>8, <2>9, ClientsChange
<1>e. doc \in Nat /\ secrets \in Nat /\ versions \in Nat
  <2>1. doc \in 1 .. versions /\ secrets \in 1 .. versions /\ versions \in Nat
    BY DEF EditsTyped
  <2> QED BY <2>1
<1>4. FlightTyped'
  <2> USE DEF FlightTyped
  <2>1. CASE UNCHANGED flightVars
    BY <2>1 DEF flightVars
  <2>2. ASSUME NEW s \in Sessions, Join(s) PROVE FlightTyped'
    <3>1. [NoRead EXCEPT !.attempt = 1] \in Reads
      BY Attempts, ReadsTyped
    <3> QED BY <2>2, <3>1 DEF Join
  <2>3. ASSUME NEW s \in Sessions, Cancel(s) PROVE FlightTyped'
    BY <2>3 DEF Cancel
  <2>4. CASE Check
    <3>1. [fl EXCEPT !.client = pooled] \in Reads /\ [fl EXCEPT !.gen = gen] \in Reads
      BY ReadsTyped DEF PoolTyped
    <3> QED BY <2>4, <3>1 DEF Check, FlightRest
  <2>5. CASE LoadDoc
    <3>1. [fl EXCEPT !.doc = doc] \in Reads
      BY <1>e, ReadsTyped
    <3> QED BY <2>5, <3>1 DEF LoadDoc, FlightRest
  <2>6. CASE LoadSecrets
    <3>1. [fl EXCEPT !.sec = secrets] \in Reads
      BY <1>e, ReadsTyped
    <3> QED BY <2>6, <3>1 DEF LoadSecrets, FlightRest
  <2>7. CASE Dial
    <3>1. dialed + 1 \in Clients
      BY <2>7, BoundsAssumption DEF Dial, ClientsTyped, Clients, BoundsAssumption
    <3>2. [fl EXCEPT !.client = dialed + 1] \in Reads
      BY <3>1, ReadsTyped
    <3> QED BY <2>7, <3>2 DEF Dial, FlightRest
  <2>8. CASE DialFails
    BY <2>8, ReadsTyped DEF DialFails, FlightRest
  <2>9. CASE Insert
    BY <2>9 DEF Insert, FlightRest
  <2>10. CASE Discard
    <3>1. fl.attempt \in 0 .. MaxStaleDials
      BY DEF Reads
    <3>2. fl.attempt # MaxStaleDials => [NoRead EXCEPT !.attempt = fl.attempt + 1] \in Reads
      BY <3>1, Attempts, ReadsTyped
    <3> QED BY <2>10, <3>2, ReadsTyped DEF Discard, FlightRest
  <2>11. CASE Answer
    BY <2>11, ReadsTyped DEF Answer
  <2> QED
    BY <2>1, <2>2, <2>3, <2>4, <2>5, <2>6, <2>7, <2>8, <2>9, <2>10, <2>11, FlightChange DEF Dialing
<1>5. SessionsTyped'
  <2>1. CASE UNCHANGED sessVars
    BY <2>1 DEF SessionsTyped, sessVars
  <2>2. ASSUME NEW s \in Sessions, Call(s) \/ Cancel(s) \/ Leave(s) PROVE SessionsTyped'
    <3> USE DEF SessionsTyped, Goto, End
    <3>0. NoClient \in Clients \cup {NoClient}
      OBVIOUS
    <3>1. CASE Register(s)
      BY <3>1, <1>e DEF Register
    <3>2. CASE Lookup(s)
      <4>1. using' = [using EXCEPT ![s] = pooled] /\ UNCHANGED <<floor, lost>>
        BY <3>2 DEF Lookup
      <4>2. \E place \in {"joining", "asking"} : pc' = [pc EXCEPT ![s] = place]
        BY <3>2 DEF Lookup
      <4>3. using' \in [Sessions -> Clients \cup {NoClient}]
        BY <4>1 DEF PoolTyped
      <4>4. pc' \in [Sessions -> {"idle", "lookup", "asking", "asking again", "dropping", "closing",
                                  "notifying", "joining", "waiting", "got", "running", "ended"}]
        BY <4>2
      <4> QED BY <4>1, <4>3, <4>4
    <3>3. ASSUME \E place \in {"got", "asking again", "dropping", "closing", "joining", "notifying", "running"} :
                    Goto(s, place),
                 UNCHANGED <<using, floor>>, lost' = lost \/ lost' = lost \cup Registered
          PROVE  SessionsTyped'
      BY <3>3 DEF Registered
    <3>4. CASE End(s)
      BY <3>0, <3>4
    <3>5. CASE IsConnected(s)
      BY <3>3, <3>5 DEF IsConnected
    <3>6. CASE IsReconnecting(s)
      BY <3>3, <3>4, <3>6 DEF IsReconnecting
    <3>7. CASE Drop(s)
      BY <3>3, <3>7 DEF Drop
    <3>8. CASE DropCloses(s)
      BY <3>3, <3>8 DEF DropCloses
    <3>9. CASE DropNotifies(s)
      BY <3>3, <3>9 DEF DropNotifies, EndSessions
    <3>10. CASE Join(s)
      BY <3>0, <3>10 DEF Join
    <3>11. CASE Subscribe(s)
      BY <3>3, <3>4, <3>11 DEF Subscribe
    <3>12. CASE Cancel(s) \/ SeeLost(s) \/ Leave(s)
      BY <3>4, <3>12 DEF Cancel, SeeLost, Leave
    <3> QED BY <2>2, <3>1, <3>2, <3>5, <3>6, <3>7, <3>8, <3>9, <3>10, <3>11, <3>12 DEF Call
  <2>3. CASE Answer
    <3>1. fl.client \in Clients \cup {NoClient}
      BY DEF FlightTyped, Reads
    <3>2. using' \in [Sessions -> Clients \cup {NoClient}]
      BY <2>3, <3>1, Zenon DEF SessionsTyped, Answer
    <3>3. pc' \in [Sessions -> {"idle", "lookup", "asking", "asking again", "dropping", "closing",
                                "notifying", "joining", "waiting", "got", "running", "ended"}]
      BY <2>3 DEF SessionsTyped, Answer
    <3> QED BY <2>3, <3>2, <3>3 DEF SessionsTyped, Answer
  <2>4. ASSUME NEW e \in Edits, DisconnectNotifies(e) PROVE SessionsTyped'
    BY <2>4 DEF SessionsTyped, DisconnectNotifies, EndSessions, Registered
  <2> QED BY <2>1, <2>2, <2>3, <2>4, SessionsChange
<1> QED BY <1>1, <1>2, <1>3, <1>4, <1>5

LEMMA TypeInvHolds == Spec => []TypeInv
BY TypeInvInit, TypeInvStep, PTL DEF Spec

\* Every variable keeps its type: versions are given out before they are
\* committed, and a dial is repeated at most MaxStaleDials times.
THEOREM TypeCorrect == Spec => []TypeOK
BY TypeInvHolds, TypeInvIsType, PTL
-----------------------------------------------------------------------------
\* Clients are numbered as they are dialed: whoever holds one holds an old one.
RefInv ==
    /\ pooled <= dialed /\ fl.client <= dialed
    /\ \A s \in Sessions : using[s] <= dialed
    /\ \A e \in Edits : evictim[e] <= dialed
    /\ \A c \in Clients : open[c] => c <= dialed

LEMMA Ids ==
    ASSUME TypeInv
    PROVE  /\ pooled \in Nat /\ fl \in Reads /\ fl.client \in Nat
           /\ \A s \in Sessions : using[s] \in Nat
           /\ \A e \in Edits : evictim[e] \in Nat
<1>1. \A c \in Clients \cup {NoClient} : c \in Nat
  BY DEF Clients, NoClient
<1>2. pooled \in Clients \cup {NoClient} /\ evictim \in [Edits -> Clients \cup {NoClient}]
  BY DEF TypeInv, PoolTyped
<1>3. fl \in Reads
  BY DEF TypeInv, FlightTyped
<1>4. fl.client \in Clients \cup {NoClient}
  BY <1>3 DEF Reads
<1>5. using \in [Sessions -> Clients \cup {NoClient}]
  BY DEF TypeInv, SessionsTyped
<1> QED BY <1>1, <1>2, <1>3, <1>4, <1>5

LEMMA SameClient ==
    ASSUME NEW r \in Reads, NEW n
    PROVE  [r EXCEPT !.doc = n].client = r.client /\ [r EXCEPT !.sec = n].client = r.client
BY DEF Reads

\* Where the references come from.
LEMMA Dialed == ASSUME [Next]_vars PROVE dialed' = dialed \/ (Dial /\ dialed' = dialed + 1)
BY ClientsChange DEF clientVars, DropCloses, Dial, Discard, Stop, DisconnectCloses,
     LinkDown, LinkUp, GiveUp, LinkClosed

LEMMA PooledFrom ==
    ASSUME [Next]_vars
    PROVE  \/ pooled' = pooled \/ pooled' = NoClient
           \/ /\ pooled' = fl.client /\ flight = "insert" /\ flight' = "done" /\ gen = fl.gen
              /\ UNCHANGED <<fl, gen, clientVars, editVars, evictim, waiters, sessVars, stopped>>
BY PoolChange DEF Drop, Insert, FlightRest, Stop, Disconnect, DisconnectNotifies

LEMMA ReadFrom ==
    ASSUME [Next]_vars, TypeInv
    PROVE  fl' = fl \/ fl'.client \in {fl.client, NoClient, pooled} \/ (Dial /\ fl'.client = dialed + 1)
<1> USE DEF NoRead
<1>0. fl \in Reads
  BY DEF TypeInv, FlightTyped
<1>1. CASE UNCHANGED flightVars
  BY <1>1 DEF flightVars
<1>2. ASSUME NEW s \in Sessions, Join(s) \/ Cancel(s)
      PROVE  fl' = fl \/ fl'.client = NoClient
  BY <1>2 DEF Join, Cancel
<1>3. CASE Check
  BY <1>0, <1>3 DEF Check, Reads
<1>4. CASE LoadDoc \/ LoadSecrets
  BY <1>0, <1>4, SameClient DEF LoadDoc, LoadSecrets
<1>5. CASE Dial
  BY <1>0, <1>5 DEF Dial, Reads
<1>6. CASE DialFails
  BY <1>6 DEF DialFails
<1>8. CASE Answer
  BY <1>8 DEF Answer
<1>9. CASE Insert
  BY <1>9 DEF Insert
<1>7. CASE Discard
  BY <1>7 DEF Discard
<1> QED BY <1>1, <1>2, <1>3, <1>4, <1>5, <1>6, <1>7, <1>8, <1>9, FlightChange DEF Dialing

LEMMA UsingFrom ==
    ASSUME [Next]_vars, TypeInv, NEW s \in Sessions
    PROVE  using'[s] \in {using[s], NoClient, pooled} \/ (Answer /\ s \in waiters /\ using'[s] = fl.client)
<1>0. using \in [Sessions -> Clients \cup {NoClient}]
  BY DEF TypeInv, SessionsTyped
<1>1. CASE UNCHANGED sessVars
  BY <1>1 DEF sessVars
<1>2. ASSUME NEW o \in Sessions, Call(o) \/ Cancel(o) \/ Leave(o)
      PROVE  using'[s] \in {using[s], NoClient, pooled}
  BY <1>0, <1>2 DEF Call, Register, Lookup, IsConnected, IsReconnecting, Drop, DropCloses,
       DropNotifies, Join, Subscribe, SeeLost, Cancel, Leave, End
<1>3. CASE Answer
  BY <1>3 DEF Answer
<1>4. ASSUME NEW e \in Edits, DisconnectNotifies(e) PROVE using' = using
  BY <1>4 DEF DisconnectNotifies
<1> QED BY <1>1, <1>2, <1>3, <1>4, SessionsChange

LEMMA EvictedFrom ==
    ASSUME [Next]_vars, TypeInv, NEW e \in Edits
    PROVE  evictim'[e] \in {evictim[e], NoClient, pooled}
<1>0. evictim \in [Edits -> Clients \cup {NoClient}]
  BY DEF TypeInv, PoolTyped
<1> QED BY <1>0, PoolChange DEF Drop, Insert, FlightRest, Stop, Disconnect, DisconnectNotifies

LEMMA OpenFrom ==
    ASSUME [Next]_vars, TypeInv, NEW c \in Clients, open'[c]
    PROVE  open[c] \/ (Dial /\ c = dialed + 1)
<1>0. open \in [Clients -> BOOLEAN]
  BY DEF TypeInv, ClientsTyped
<1>1. ASSUME NEW v, open' = [open EXCEPT ![v] = FALSE] PROVE open[c]
  BY <1>0, <1>1
<1>2. CASE Dial
  BY <1>0, <1>2 DEF Dial
<1>3. CASE Stop
  BY <1>3 DEF Stop
<1> QED
  BY <1>1, <1>2, <1>3, ClientsChange DEF clientVars, DropCloses, Discard, DisconnectCloses,
     LinkDown, LinkUp, GiveUp, LinkClosed

LEMMA RefStep == TypeInv /\ RefInv /\ [Next]_vars => RefInv'
<1> SUFFICES ASSUME TypeInv, RefInv, [Next]_vars PROVE RefInv'
  OBVIOUS
<1>0. dialed \in Nat /\ NoClient = 0
  BY Bounds DEF TypeInv, ClientsTyped, NoClient
<1>1. dialed' \in Nat /\ dialed <= dialed' /\ (Dial => dialed' = dialed + 1)
  BY <1>0, Dialed DEF Dial
<1>2. pooled' <= dialed'
  BY Ids, <1>0, <1>1, PooledFrom DEF RefInv, clientVars
<1>3. fl'.client <= dialed'
  BY Ids, <1>0, <1>1, ReadFrom DEF RefInv
<1>4. ASSUME NEW s \in Sessions PROVE using'[s] <= dialed'
  BY Ids, <1>0, <1>1, UsingFrom DEF RefInv
<1>5. ASSUME NEW e \in Edits PROVE evictim'[e] <= dialed'
  BY Ids, <1>0, <1>1, EvictedFrom DEF RefInv
<1>6. ASSUME NEW c \in Clients, open'[c] PROVE c <= dialed'
  BY <1>0, <1>1, <1>6, OpenFrom DEF RefInv, Clients
<1> QED BY <1>2, <1>3, <1>4, <1>5, <1>6 DEF RefInv

-----------------------------------------------------------------------------
\* Who moves a session, and who moves an edit.
LEMMA SessionMoves ==
    ASSUME [Next]_vars, TypeInv, NEW s \in Sessions
    PROVE  \/ pc'[s] = pc[s] /\ using'[s] = using[s] /\ floor'[s] = floor[s]
           \/ Call(s) \/ Cancel(s) \/ Leave(s)
           \/ Answer /\ s \in waiters
<1>0. /\ pc \in [Sessions -> {"idle", "lookup", "asking", "asking again", "dropping", "closing",
                             "notifying", "joining", "waiting", "got", "running", "ended"}]
      /\ using \in [Sessions -> Clients \cup {NoClient}] /\ floor \in [Sessions -> Nat]
  BY DEF TypeInv, SessionsTyped
<1>1. CASE UNCHANGED sessVars
  BY <1>1 DEF sessVars
<1>2. ASSUME NEW o \in Sessions, o # s, Call(o) \/ Cancel(o) \/ Leave(o)
      PROVE  pc'[s] = pc[s] /\ using'[s] = using[s] /\ floor'[s] = floor[s]
  BY <1>0, <1>2 DEF Call, Register, Lookup, IsConnected, IsReconnecting, Drop, DropCloses,
       DropNotifies, Join, Subscribe, SeeLost, Cancel, Leave, End, Goto
<1>3. CASE Answer
  BY <1>3 DEF Answer
<1>4. ASSUME NEW e \in Edits, DisconnectNotifies(e) PROVE UNCHANGED <<pc, using, floor>>
  BY <1>4 DEF DisconnectNotifies
<1> QED BY <1>1, <1>2, <1>3, <1>4, SessionsChange

LEMMA EditMoves ==
    ASSUME [Next]_vars, TypeInv, NEW e \in Edits
    PROVE  \/ epc'[e] = epc[e] /\ over'[e] = over[e] /\ evictim'[e] = evictim[e]
           \/ WriteVault(e) \/ Commit(e) \/ RollBack(e)
           \/ Disconnect(e) \/ DisconnectCloses(e) \/ DisconnectNotifies(e)
<1>0. /\ epc \in [Edits -> {"idle", "updating", "deleting", "committed", "closing",
                            "notifying", "failed", "done"}]
      /\ over \in [Edits -> 0 .. versions] /\ evictim \in [Edits -> Clients \cup {NoClient}]
  BY DEF TypeInv, EditsTyped, PoolTyped
<1>1. ASSUME UNCHANGED editVars PROVE UNCHANGED <<epc, over, evictim>>
  <2>1. ASSUME NEW o \in Edits, Disconnect(o) \/ DisconnectNotifies(o) PROVE FALSE
    BY <1>0, <1>1, <2>1 DEF editVars, Disconnect, DisconnectNotifies, EditGoto
  <2> QED BY <1>1, <2>1, PoolChange DEF editVars, Drop, Insert, FlightRest, Stop
<1>2. ASSUME NEW o \in Edits, o # e,
             WriteVault(o) \/ Commit(o) \/ RollBack(o)
               \/ Disconnect(o) \/ DisconnectCloses(o) \/ DisconnectNotifies(o)
      PROVE  epc'[e] = epc[e] /\ over'[e] = over[e] /\ evictim'[e] = evictim[e]
  BY <1>0, <1>2 DEF WriteVault, Commit, RollBack, Disconnect, DisconnectCloses, DisconnectNotifies, EditGoto
<1> QED BY <1>1, <1>2, EditsChange

\* The fields of what a dial knows.
LEMMA Fields ==
    /\ NoRead.gen = 0 /\ NoRead.client = NoClient
    /\ \A n : [NoRead EXCEPT !.attempt = n].gen = 0 /\ [NoRead EXCEPT !.attempt = n].client = NoClient
    /\ \A r \in Reads : \A n : [r EXCEPT !.gen = n].gen = n
    /\ \A r \in Reads : \A n :
          LET q == [r EXCEPT !.doc = n]
          IN  q.doc = n /\ q.gen = r.gen /\ q.client = r.client
    /\ \A r \in Reads : \A n :
          LET q == [r EXCEPT !.sec = n]
          IN  q.sec = n /\ q.gen = r.gen /\ q.doc = r.doc /\ q.client = r.client
    /\ \A r \in Reads : \A n :
          LET q == [r EXCEPT !.client = n]
          IN  q.client = n /\ q.gen = r.gen /\ q.doc = r.doc /\ q.sec = r.sec
<1>1. NoRead.gen = 0 /\ NoRead.client = NoClient
  BY DEF NoRead
<1>2. \A n : [NoRead EXCEPT !.attempt = n].gen = 0 /\ [NoRead EXCEPT !.attempt = n].client = NoClient
  BY DEF NoRead
<1>3. \A r \in Reads : \A n : [r EXCEPT !.gen = n].gen = n
  BY DEF Reads
<1>4. \A r \in Reads : \A n :
          LET q == [r EXCEPT !.doc = n]
                        IN  q.doc = n /\ q.gen = r.gen /\ q.client = r.client
  BY DEF Reads
<1>5. \A r \in Reads : \A n :
          LET q == [r EXCEPT !.sec = n]
                        IN  q.sec = n /\ q.gen = r.gen /\ q.doc = r.doc /\ q.client = r.client
  BY DEF Reads
<1>6. \A r \in Reads : \A n :
          LET q == [r EXCEPT !.client = n]
                        IN  q.client = n /\ q.gen = r.gen /\ q.doc = r.doc /\ q.sec = r.sec
  BY DEF Reads
<1> QED BY <1>1, <1>2, <1>3, <1>4, <1>5, <1>6

\* The way of a dial: what its stage tells of what it read.
NotDial == UNCHANGED <<editVars, evictim, pooled, gen, waiters, sessVars>>

LEMMA DialMoves ==
    ASSUME [Next]_vars, TypeInv
    PROVE  \/ UNCHANGED <<flight, fl>>
           \/ flight' \in {"none", "check", "done"} /\ fl'.gen \in {0, fl.gen} /\ gen' = gen
           \/ /\ flight = "check" /\ flight' = "load" /\ fl'.gen = gen
              /\ pooled = NoClient /\ NotDial /\ UNCHANGED clientVars
           \/ /\ flight = "load" /\ flight' = "load secrets" /\ ~deleted
              /\ fl'.doc = doc /\ fl'.gen = fl.gen /\ NotDial /\ UNCHANGED clientVars
           \/ /\ flight = "load secrets" /\ flight' = "dial"
              /\ fl'.sec = secrets /\ fl'.doc = fl.doc /\ fl'.gen = fl.gen
              /\ NotDial /\ UNCHANGED clientVars
           \/ /\ Dial /\ flight = "dial" /\ flight' = "insert" /\ fl'.client = dialed + 1
              /\ fl'.sec = fl.sec /\ fl'.doc = fl.doc /\ fl'.gen = fl.gen /\ NotDial
           \/ flight = "insert" /\ flight' = "discard" /\ fl' = fl /\ NotDial /\ UNCHANGED clientVars
<1>0. fl \in Reads
  BY Ids
<1>1. CASE UNCHANGED flightVars
  BY <1>1 DEF flightVars
<1>2. ASSUME NEW s \in Sessions, Join(s)
      PROVE  UNCHANGED <<flight, fl>> \/ (flight' = "check" /\ fl'.gen = 0 /\ gen' = gen)
  <2>1. UNCHANGED <<flight, fl>> \/ (flight' = "check" /\ fl' = [NoRead EXCEPT !.attempt = 1])
    BY <1>2 DEF Join
  <2>2. gen' = gen
    BY <1>2 DEF Join
  <2>3. [NoRead EXCEPT !.attempt = 1].gen = 0
    BY DEF NoRead
  <2> QED BY <2>1, <2>2, <2>3, Zenon
<1>3. ASSUME NEW s \in Sessions, Cancel(s) PROVE UNCHANGED <<flight, fl>>
  BY <1>3 DEF Cancel
<1>4. CASE Check
  <2>1. CASE pooled # NoClient
    <3>1. fl' = [fl EXCEPT !.client = pooled] /\ flight' = "done" /\ gen' = gen
      BY <1>4, <2>1 DEF Check
    <3> QED BY <1>0, <3>1, Fields
  <2>2. CASE pooled = NoClient
    <3>1. fl' = [fl EXCEPT !.gen = gen]
      BY <1>4, <2>2 DEF Check
    <3>2. fl'.gen = gen
      BY <1>0, <3>1, Fields
    <3> QED BY <1>4, <2>2, <3>2 DEF Check, FlightRest, NotDial
  <2> QED BY <2>1, <2>2
<1>5. CASE LoadDoc
  <2>1. CASE deleted
    BY <1>5, <2>1 DEF LoadDoc
  <2>2. CASE ~deleted
    <3>1. fl' = [fl EXCEPT !.doc = doc]
      BY <1>5, <2>2 DEF LoadDoc
    <3>2. fl'.doc = doc /\ fl'.gen = fl.gen
      BY <1>0, <3>1, Fields
    <3> QED BY <1>5, <2>2, <3>2 DEF LoadDoc, FlightRest, NotDial
  <2> QED BY <2>1, <2>2
<1>6. CASE LoadSecrets
  <2>1. fl' = [fl EXCEPT !.sec = secrets]
    BY <1>6 DEF LoadSecrets
  <2>2. fl'.sec = secrets /\ fl'.doc = fl.doc /\ fl'.gen = fl.gen
    BY <1>0, <2>1, Fields
  <2> QED BY <1>6, <2>2 DEF LoadSecrets, FlightRest, NotDial
<1>7. CASE Dial
  <2>1. fl' = [fl EXCEPT !.client = dialed + 1]
    BY <1>7 DEF Dial
  <2>2. fl'.client = dialed + 1 /\ fl'.sec = fl.sec /\ fl'.doc = fl.doc /\ fl'.gen = fl.gen
    BY <1>0, <2>1, Fields
  <2> QED BY <1>7, <2>2 DEF Dial, FlightRest, NotDial
<1>8. CASE DialFails
  BY <1>8, Fields DEF DialFails
<1>9. CASE Insert
  <2>1. CASE gen = fl.gen
    BY <1>9, <2>1 DEF Insert
  <2>2. CASE gen # fl.gen
    BY <1>9, <2>2 DEF Insert, FlightRest, NotDial
  <2> QED BY <2>1, <2>2
<1>10. CASE Discard
  <2>1. /\ flight' \in {"check", "done"} /\ gen' = gen
        /\ fl' = NoRead \/ fl' = [NoRead EXCEPT !.attempt = fl.attempt + 1]
    BY <1>10 DEF Discard
  <2>2. NoRead.gen = 0 /\ [NoRead EXCEPT !.attempt = fl.attempt + 1].gen = 0
    BY DEF NoRead
  <2>3. fl'.gen = 0
    BY <2>1, <2>2, Zenon
  <2> QED BY <2>1, <2>3
<1>11. CASE Answer
  BY <1>11, Fields DEF Answer
<1> QED BY <1>1, <1>2, <1>3, <1>4, <1>5, <1>6, <1>7, <1>8, <1>9, <1>10, <1>11, FlightChange DEF Dialing

-----------------------------------------------------------------------------
\* A dial's generation is not of the future, its callers wait, nothing is in
\* the pool while it works, and until it ends nobody knows the client it made.
FlightInv ==
    /\ fl.gen <= gen
    /\ \A s \in waiters : pc[s] = "waiting"
    /\ flight \in {"load", "load secrets", "dial", "insert", "discard"} => pooled = NoClient
    /\ flight \in {"insert", "discard"} =>
        /\ fl.client # NoClient
        /\ \A s \in Sessions : using[s] # fl.client
        /\ \A e \in Edits : evictim[e] # fl.client
    /\ flight = "insert" => docOf[fl.client] = fl.doc /\ secOf[fl.client] = fl.sec

LEMMA DialMakes ==
    ASSUME TypeInv, Dial
    PROVE  /\ dialed + 1 \in Clients
           /\ docOf'[dialed + 1] = fl.doc /\ secOf'[dialed + 1] = fl.sec
<1>0. ClientsTyped
  BY DEF TypeInv
<1>1. dialed \in Nat /\ docOf \in [Clients -> Nat] /\ secOf \in [Clients -> Nat]
  BY <1>0, Bounds DEF ClientsTyped
<1>2. dialed + 1 \in Clients
  BY <1>1, Bounds DEF Dial, Clients
<1>3. docOf' = [docOf EXCEPT ![dialed + 1] = fl.doc] /\ secOf' = [secOf EXCEPT ![dialed + 1] = fl.sec]
  BY DEF Dial
<1> QED BY <1>1, <1>2, <1>3

\* What a dial made does not change.
LEMMA MadeOnce ==
    ASSUME [Next]_vars, TypeInv, NEW c \in Clients
    PROVE  (docOf'[c] = docOf[c] /\ secOf'[c] = secOf[c])
             \/ (Dial /\ c = dialed + 1 /\ docOf'[c] = fl.doc /\ secOf'[c] = fl.sec)
<1>0. docOf \in [Clients -> Nat] /\ secOf \in [Clients -> Nat]
  <2>1. ClientsTyped
    BY DEF TypeInv
  <2> QED BY <2>1 DEF ClientsTyped
<1>1. CASE UNCHANGED <<docOf, secOf>>
  BY <1>1
<1>2. CASE Dial
  <2>1. /\ docOf' = [docOf EXCEPT ![dialed + 1] = fl.doc] /\ secOf' = [secOf EXCEPT ![dialed + 1] = fl.sec]
    BY <1>2 DEF Dial
  <2> QED BY <1>0, <1>2, <2>1
<1> QED
  BY <1>1, <1>2, ClientsChange DEF clientVars, DropCloses, Discard, DisconnectCloses,
     Stop, LinkDown, LinkUp, GiveUp, LinkClosed

LEMMA GenMoves ==
    ASSUME [Next]_vars
    PROVE  gen' = gen \/ (gen' = gen + 1 /\ pooled' = NoClient /\ UNCHANGED <<flight, fl>>)
BY PoolChange DEF Drop, Insert, Stop, Disconnect, DisconnectNotifies, flightVars

LEMMA WaitersWait ==
    ASSUME [Next]_vars, TypeInv, FlightInv, NEW s \in waiters'
    PROVE  pc'[s] = "waiting"
<1>0. /\ pc \in [Sessions -> {"idle", "lookup", "asking", "asking again", "dropping", "closing",
                             "notifying", "joining", "waiting", "got", "running", "ended"}]
      /\ waiters \subseteq Sessions
  BY DEF TypeInv, SessionsTyped, FlightTyped
<1>1. ASSUME NEW o \in Sessions, Join(o) PROVE pc'[s] = "waiting"
  BY <1>0, <1>1 DEF FlightInv, Join, Goto
<1>2. CASE UNCHANGED waiters
  <2>1. pc[s] = "waiting" /\ s \in Sessions
    BY <1>0, <1>2 DEF FlightInv
  <2>2. CASE Cancel(s)
    BY <1>2, <2>2 DEF Cancel
  <2>3. CASE Answer
    BY <2>3 DEF Answer
  <2> QED
    BY <1>0, <1>1, <1>2, <2>1, <2>2, <2>3, SessionMoves DEF Call, Register, Lookup, IsConnected,
       IsReconnecting, Drop, DropCloses, DropNotifies, Subscribe, SeeLost, Leave
<1>3. ASSUME NEW o \in Sessions, Cancel(o) PROVE pc'[s] = "waiting"
  BY <1>0, <1>3 DEF FlightInv, Cancel, End, Goto
<1>4. CASE Answer
  BY <1>4 DEF Answer
<1> QED
  BY <1>1, <1>2, <1>3, <1>4, FlightChange DEF flightVars, Dialing, Check, LoadDoc, LoadSecrets,
     Dial, DialFails, Insert, Discard, FlightRest

LEMMA FlightStep == TypeInv /\ RefInv /\ FlightInv /\ [Next]_vars => FlightInv'
<1> SUFFICES ASSUME TypeInv, RefInv, FlightInv, [Next]_vars PROVE FlightInv'
  OBVIOUS
<1>0. gen \in Nat /\ fl.gen \in Nat /\ fl \in Reads /\ dialed \in Nat
  <2>1. PoolTyped /\ fl \in Reads /\ ClientsTyped
    BY Ids DEF TypeInv
  <2> QED BY <2>1, Bounds DEF PoolTyped, Reads, ClientsTyped
<1>1. fl'.gen <= gen'
  <2>1. fl' = fl \/ (fl'.gen \in {0, fl.gen, gen} /\ gen' = gen)
    BY DialMoves DEF NotDial
  <2>2. gen' = gen \/ gen' = gen + 1
    BY GenMoves
  <2>3. fl.gen <= gen
    BY DEF FlightInv
  <2> QED BY <1>0, <2>1, <2>2, <2>3
<1>2. \A s \in waiters' : pc'[s] = "waiting"
  BY WaitersWait
<1>3. flight' \in {"load", "load secrets", "dial", "insert", "discard"} => pooled' = NoClient
  BY DialMoves, PooledFrom DEF FlightInv, NotDial
<1>4. ASSUME flight' \in {"insert", "discard"}
      PROVE  /\ fl'.client # NoClient
             /\ \A s \in Sessions : using'[s] # fl'.client
             /\ \A e \in Edits : evictim'[e] # fl'.client
  <2>1. CASE UNCHANGED <<flight, fl>>
    <3>1. flight # "done" /\ pooled = NoClient
      BY <1>4, <2>1 DEF FlightInv
    <3>2. ~Answer
      BY <3>1 DEF Answer
    <3> QED BY <1>4, <2>1, <3>1, <3>2, UsingFrom, EvictedFrom DEF FlightInv
  <2>2. CASE fl'.client = dialed + 1 /\ NotDial
    <3>1. \A s \in Sessions : using'[s] = using[s] /\ using[s] \in Nat /\ using[s] <= dialed
      BY <2>2, Ids DEF RefInv, NotDial, sessVars
    <3>2. \A e \in Edits : evictim'[e] = evictim[e] /\ evictim[e] \in Nat /\ evictim[e] <= dialed
      BY <2>2, Ids DEF RefInv, NotDial
    <3> QED BY <1>0, <2>2, <3>1, <3>2 DEF NoClient
  <2>3. CASE flight = "insert" /\ fl' = fl /\ NotDial
    BY <2>3 DEF FlightInv, NotDial, sessVars
  <2> QED BY <1>4, <2>1, <2>2, <2>3, DialMoves
<1>5. ASSUME flight' = "insert"
      PROVE  docOf'[fl'.client] = fl'.doc /\ secOf'[fl'.client] = fl'.sec
  <2>1. CASE UNCHANGED <<flight, fl>>
    <3>1. fl.client \in Clients /\ ~Dial
      BY <1>0, <1>5, <2>1 DEF FlightInv, Reads, Dial
    <3> QED BY <1>5, <2>1, <3>1, MadeOnce DEF FlightInv
  <2>2. CASE Dial /\ fl'.client = dialed + 1 /\ fl'.sec = fl.sec /\ fl'.doc = fl.doc
    BY <2>2, DialMakes
  <2> QED BY <1>5, <2>1, <2>2, DialMoves
<1> QED BY <1>1, <1>2, <1>3, <1>4, <1>5 DEF FlightInv

\* A session that runs has a client, which it keeps, and only its end takes it
\* off the list of those that were told.
UserInv == \A s \in Sessions : pc[s] = "running" => using[s] # NoClient

LEMMA Runs ==
    ASSUME [Next]_vars, TypeInv, FlightInv, NEW s \in Sessions, pc[s] = "running"
    PROVE  (pc'[s] = "running" /\ using'[s] = using[s] /\ (s \in lost => s \in lost')) \/ pc'[s] = "ended"
<1>0. /\ pc \in [Sessions -> {"idle", "lookup", "asking", "asking again", "dropping", "closing",
                             "notifying", "joining", "waiting", "got", "running", "ended"}]
      /\ using \in [Sessions -> Clients \cup {NoClient}]
  BY DEF TypeInv, SessionsTyped
<1>1. CASE Call(s) \/ Cancel(s) \/ Leave(s)
  BY <1>0, <1>1 DEF Call, Register, Lookup, IsConnected, IsReconnecting, Drop, DropCloses,
       DropNotifies, Join, Subscribe, SeeLost, Cancel, Leave, End, Goto
<1>2. ASSUME NEW o \in Sessions, o # s, Call(o) \/ Cancel(o) \/ Leave(o)
      PROVE  s \in lost => s \in lost'
  BY <1>2 DEF Call, Register, Lookup, IsConnected, IsReconnecting, Drop, DropCloses, EndSessions,
       DropNotifies, Join, Subscribe, SeeLost, Cancel, Leave, End
<1>3. ASSUME NEW e \in Edits, DisconnectNotifies(e) PROVE s \in lost => s \in lost'
  BY <1>3 DEF DisconnectNotifies, EndSessions
<1>4. s \in lost => s \in lost' \/ Call(s) \/ Cancel(s) \/ Leave(s)
  BY <1>2, <1>3, SessionsChange DEF sessVars, Answer
<1>5. s \notin waiters
  BY DEF FlightInv
<1> QED BY <1>1, <1>4, <1>5, SessionMoves

LEMMA UserStep == TypeInv /\ FlightInv /\ UserInv /\ [Next]_vars => UserInv'
<1> SUFFICES ASSUME TypeInv, FlightInv, UserInv, [Next]_vars, NEW s \in Sessions, pc'[s] = "running"
             PROVE  using'[s] # NoClient
  BY DEF UserInv
<1>0. pc \in [Sessions -> {"idle", "lookup", "asking", "asking again", "dropping", "closing",
                          "notifying", "joining", "waiting", "got", "running", "ended"}]
  BY DEF TypeInv, SessionsTyped
<1>1. CASE pc[s] = "running"
  BY <1>1, Runs DEF UserInv
<1>2. CASE pc[s] # "running"
  <2>1. CASE Subscribe(s)
    BY <1>0, <2>1 DEF Subscribe, End, Goto
  <2> QED
    BY <1>0, <1>2, <2>1, SessionMoves DEF Call, Register, Lookup, IsConnected, IsReconnecting, Drop,
       DropCloses, DropNotifies, Join, SeeLost, Cancel, Leave, End, Goto, Answer
<1> QED BY <1>1, <1>2

-----------------------------------------------------------------------------
\* Whoever removed a client holds it until it is closed and everybody was told.
LEMMA RemoverHolds ==
    ASSUME [Next]_vars, TypeInv, FlightInv, NEW s \in Sessions, pc[s] \in {"closing", "notifying"}
    PROVE  /\ pc'[s] = pc[s] \/ DropCloses(s) \/ DropNotifies(s)
           /\ using'[s] = using[s]
           /\ DropCloses(s) => pc[s] = "closing" /\ pc'[s] = "notifying"
<1>0. /\ pc \in [Sessions -> {"idle", "lookup", "asking", "asking again", "dropping", "closing",
                             "notifying", "joining", "waiting", "got", "running", "ended"}]
      /\ using \in [Sessions -> Clients \cup {NoClient}]
  BY DEF TypeInv, SessionsTyped
<1>1. s \notin waiters
  BY DEF FlightInv
<1> QED
  BY <1>0, <1>1, SessionMoves DEF Call, Register, Lookup, IsConnected, IsReconnecting, Drop,
     DropCloses, DropNotifies, Join, Subscribe, SeeLost, Cancel, Leave, End, Goto

LEMMA EditHolds ==
    ASSUME [Next]_vars, TypeInv, NEW e \in Edits, epc[e] \in {"closing", "notifying"}
    PROVE  \/ epc'[e] = epc[e] /\ evictim'[e] = evictim[e]
           \/ DisconnectCloses(e) /\ epc[e] = "closing" /\ epc'[e] = "notifying" /\ evictim'[e] = evictim[e]
           \/ DisconnectNotifies(e)
<1>0. epc \in [Edits -> {"idle", "updating", "deleting", "committed", "closing",
                        "notifying", "failed", "done"}]
  <2>1. EditsTyped
    BY DEF TypeInv
  <2> QED BY <2>1 DEF EditsTyped
<1> QED
  BY <1>0, EditMoves DEF WriteVault, Commit, RollBack, Disconnect, DisconnectCloses, EditGoto

\* The client that leaves the pool is in somebody's hands.
LEMMA PoolLoses ==
    ASSUME [Next]_vars, TypeInv, FlightInv, pooled # NoClient, pooled' # pooled
    PROVE  \/ \E s \in Sessions : pc'[s] = "closing" /\ using'[s] = pooled
           \/ \E e \in Edits : epc'[e] = "closing" /\ evictim'[e] = pooled
           \/ Stop
<1>0. /\ pc \in [Sessions -> {"idle", "lookup", "asking", "asking again", "dropping", "closing",
                             "notifying", "joining", "waiting", "got", "running", "ended"}]
      /\ epc \in [Edits -> {"idle", "updating", "deleting", "committed", "closing",
                            "notifying", "failed", "done"}]
      /\ evictim \in [Edits -> Clients \cup {NoClient}]
  BY DEF TypeInv, SessionsTyped, EditsTyped, PoolTyped
<1>1. ASSUME NEW s \in Sessions, Drop(s) PROVE pc'[s] = "closing" /\ using'[s] = pooled
  BY <1>0, <1>1 DEF Drop, Goto
<1>2. ASSUME NEW e \in Edits, Disconnect(e) PROVE epc'[e] = "closing" /\ evictim'[e] = pooled
  BY <1>0, <1>2 DEF Disconnect, EditGoto
<1>3. ~Insert
  BY DEF Insert, FlightInv
<1> QED BY <1>1, <1>2, <1>3, PoolChange DEF DisconnectNotifies

LEMMA CloseCloses ==
    ASSUME TypeInv, NEW c \in Clients,
           (\E v : v = c /\ open' = [open EXCEPT ![v] = FALSE]) \/ (Stop /\ c = pooled)
    PROVE  ~open'[c]
<1>1. open \in [Clients -> BOOLEAN]
  <2>1. ClientsTyped
    BY DEF TypeInv
  <2> QED BY <2>1 DEF ClientsTyped
<1> QED BY <1>1 DEF Stop

LEMMA NoLeakStep == TypeInv /\ FlightInv /\ NoLeak /\ [Next]_vars => NoLeak'
<1> SUFFICES ASSUME TypeInv, FlightInv, NoLeak, [Next]_vars, NEW c \in Clients, open'[c]
             PROVE  \/ c = pooled'
                    \/ c = fl'.client /\ flight' \in {"insert", "discard"}
                    \/ \E s \in Sessions : pc'[s] = "closing" /\ using'[s] = c
                    \/ \E e \in Edits : epc'[e] = "closing" /\ evictim'[e] = c
  BY DEF NoLeak
<1>0. c # NoClient
  BY DEF Clients, NoClient
<1>1. CASE Dial /\ c = dialed + 1
  <2>1. flight = "dial" /\ flight' = "insert"
    BY <1>1 DEF Dial
  <2> QED BY <1>1, <2>1, DialMoves
<1>2. CASE open[c]
  <2>1. CASE c = pooled
    <3>1. ~Stop
      BY <2>1, CloseCloses
    <3> QED BY <1>0, <2>1, <3>1, PoolLoses
  <2>2. CASE c = fl.client /\ flight \in {"insert", "discard"}
    <3>1. ~Discard
      BY <2>2, CloseCloses DEF Discard
    <3>2. CASE UNCHANGED <<flight, fl>>
      BY <2>2, <3>2
    <3>3. CASE flight = "insert" /\ flight' = "discard" /\ fl' = fl
      BY <2>2, <3>3
    <3>4. CASE Insert /\ flight' = "done"
      BY <2>2, <3>4 DEF Insert
    <3> QED
      BY <2>2, <3>1, <3>2, <3>3, <3>4, FlightChange DEF Dialing, flightVars, Join, Cancel, Check, LoadDoc,
         LoadSecrets, Dial, DialFails, Insert, Answer
  <2>3. ASSUME NEW s \in Sessions, pc[s] = "closing", using[s] = c
        PROVE  pc'[s] = "closing" /\ using'[s] = c
    <3>1. ~DropCloses(s)
      BY <2>3, CloseCloses DEF DropCloses
    <3>2. ~DropNotifies(s)
      BY <2>3 DEF DropNotifies
    <3> QED BY <2>3, <3>1, <3>2, RemoverHolds
  <2>4. ASSUME NEW e \in Edits, epc[e] = "closing", evictim[e] = c
        PROVE  epc'[e] = "closing" /\ evictim'[e] = c
    <3>1. ~DisconnectCloses(e)
      BY <2>4, CloseCloses DEF DisconnectCloses
    <3>2. ~DisconnectNotifies(e)
      BY <2>4 DEF DisconnectNotifies
    <3> QED BY <2>4, <3>1, <3>2, EditHolds
  <2> QED BY <1>2, <2>1, <2>2, <2>3, <2>4 DEF NoLeak
<1> QED BY <1>1, <1>2, OpenFrom

LEMMA SessionToldStep ==
    TypeInv /\ FlightInv /\ UserInv /\ NoLeak /\ SessionTold /\ [Next]_vars => SessionTold'
<1> SUFFICES ASSUME TypeInv, FlightInv, UserInv, NoLeak, SessionTold, [Next]_vars,
                    NEW s \in Sessions, pc'[s] = "running", using'[s] # pooled', ~stopped'
             PROVE  \/ s \in lost'
                    \/ \E o \in Sessions : pc'[o] \in {"closing", "notifying"} /\ using'[o] = using'[s]
                    \/ \E e \in Edits : epc'[e] \in {"closing", "notifying"} /\ evictim'[e] = using'[s]
  BY DEF SessionTold
<1>0. /\ pc \in [Sessions -> {"idle", "lookup", "asking", "asking again", "dropping", "closing",
                             "notifying", "joining", "waiting", "got", "running", "ended"}]
      /\ using \in [Sessions -> Clients \cup {NoClient}]
  BY DEF TypeInv, SessionsTyped
<1>1. ~Stop /\ ~stopped
  <2>1. ~Stop
    BY Zenon DEF Stop
  <2>2. stopped' = stopped
    BY <2>1, PoolChange DEF Drop, Insert, FlightRest, Disconnect, DisconnectNotifies
  <2> QED BY <2>1, <2>2, Zenon
<1>2. CASE pc[s] = "running"
  <2>1. using'[s] = using[s] /\ (s \in lost => s \in lost') /\ using[s] # NoClient
    BY <1>2, Runs DEF UserInv
  <2>2. CASE using[s] = pooled
    BY <1>1, <2>1, <2>2, PoolLoses
  <2>3. CASE s \in lost
    BY <2>1, <2>3
  <2>4. ASSUME NEW o \in Sessions, pc[o] \in {"closing", "notifying"}, using[o] = using[s]
        PROVE  s \in lost' \/ (pc'[o] \in {"closing", "notifying"} /\ using'[o] = using'[s])
    <3>1. CASE DropNotifies(o)
      BY <1>2, <3>1 DEF DropNotifies, EndSessions, Registered
    <3> QED BY <2>1, <2>4, <3>1, RemoverHolds
  <2>5. ASSUME NEW e \in Edits, epc[e] \in {"closing", "notifying"}, evictim[e] = using[s]
        PROVE  s \in lost' \/ (epc'[e] \in {"closing", "notifying"} /\ evictim'[e] = using'[s])
    <3>1. CASE DisconnectNotifies(e)
      BY <1>2, <3>1 DEF DisconnectNotifies, EndSessions, Registered
    <3> QED BY <2>1, <2>5, <3>1, EditHolds
  <2> QED BY <1>1, <1>2, <2>2, <2>3, <2>4, <2>5 DEF SessionTold
<1>3. CASE pc[s] # "running"
  <2>1. Subscribe(s)
    BY <1>0, <1>3, SessionMoves DEF Call, Register, Lookup, IsConnected, IsReconnecting, Drop,
       DropCloses, DropNotifies, Join, SeeLost, Cancel, Leave, End, Goto, Answer
  <2>2. /\ using[s] # NoClient /\ open[using[s]] /\ using' = using /\ pc' = [pc EXCEPT ![s] = "running"]
        /\ pc[s] = "got" /\ pooled' = pooled /\ UNCHANGED <<evictim, epc>>
    BY <1>0, <2>1 DEF Subscribe, End, Goto, editVars
  <2>3. using[s] \in Clients /\ using[s] # pooled
    BY <1>0, <2>2
  <2>4. ~(using[s] = fl.client /\ flight \in {"insert", "discard"})
    BY DEF FlightInv
  <2>5. \/ \E o \in Sessions : pc[o] = "closing" /\ using[o] = using[s]
        \/ \E e \in Edits : epc[e] = "closing" /\ evictim[e] = using[s]
    BY <2>2, <2>3, <2>4 DEF NoLeak
  <2> QED BY <1>0, <2>2, <2>5
<1> QED BY <1>2, <1>3

-----------------------------------------------------------------------------
\* What was read is in force, for the document unless an edit committed and has
\* not disconnected yet, for the secrets unless one is or was being written: in
\* the pool, and in a dial that no Disconnect has overtaken.
DocCurrent ==
    (\A e \in Edits : epc[e] # "committed") =>
        /\ pooled # NoClient => docOf[pooled] = doc /\ ~deleted
        /\ flight \in {"load secrets", "dial", "insert"} /\ gen = fl.gen => fl.doc = doc /\ ~deleted

SecCurrent ==
    (\A e \in Edits : epc[e] \notin {"updating", "deleting", "committed", "failed"}) =>
        /\ pooled # NoClient => secOf[pooled] = secrets
        /\ flight \in {"dial", "insert"} /\ gen = fl.gen => fl.sec = secrets

\* A dial that a Disconnect has overtaken stays overtaken.
LEMMA Overtaken == ASSUME TypeInv, FlightInv, [Next]_vars, gen' = fl.gen PROVE gen = fl.gen
<1>1. gen \in Nat /\ fl.gen \in Nat
  BY Ids DEF TypeInv, PoolTyped, Reads
<1>2. fl.gen <= gen /\ (gen' = gen \/ gen' = gen + 1)
  BY GenMoves DEF FlightInv
<1> QED BY <1>1, <1>2

\* Nobody edits, or somebody does and the configuration stays, or a Disconnect
\* empties the pool and overtakes the dial.
LEMMA EditsQuiet ==
    ASSUME [Next]_vars, TypeInv, FlightInv, \A e \in Edits : epc'[e] # "committed"
    PROVE  \/ doc' = doc /\ deleted' = deleted /\ (\A e \in Edits : epc[e] # "committed")
           \/ pooled' = NoClient /\ gen' # fl.gen /\ fl' = fl
<1>0. /\ epc \in [Edits -> {"idle", "updating", "deleting", "committed", "closing",
                            "notifying", "failed", "done"}]
      /\ gen \in Nat /\ fl.gen \in Nat
  BY Ids DEF TypeInv, EditsTyped, PoolTyped, Reads
<1>1. CASE UNCHANGED editVars
  BY <1>1 DEF editVars
<1>2. ASSUME NEW e \in Edits, WriteVault(e)
      PROVE  doc' = doc /\ deleted' = deleted /\ (\A o \in Edits : epc[o] # "committed")
  BY <1>0, <1>2 DEF WriteVault, EditGoto
<1>3. ASSUME NEW e \in Edits, Commit(e) PROVE FALSE
  BY <1>0, <1>3 DEF Commit, EditGoto
<1>4. ASSUME NEW e \in Edits, Disconnect(e) PROVE pooled' = NoClient /\ gen' # fl.gen /\ fl' = fl
  <2>1. pooled' = NoClient /\ gen' = gen + 1 /\ fl' = fl
    BY <1>4 DEF Disconnect, flightVars
  <2>2. fl.gen <= gen
    BY DEF FlightInv
  <2> QED BY <1>0, <2>1, <2>2
<1>5. ASSUME NEW e \in Edits, RollBack(e) \/ DisconnectCloses(e) \/ DisconnectNotifies(e)
      PROVE  doc' = doc /\ deleted' = deleted /\ (\A o \in Edits : epc[o] # "committed")
  BY <1>0, <1>5 DEF RollBack, DisconnectCloses, DisconnectNotifies, EditGoto
<1> QED BY <1>1, <1>2, <1>3, <1>4, <1>5, EditsChange

LEMMA SecretsQuiet ==
    ASSUME [Next]_vars, TypeInv, FlightInv,
           \A e \in Edits : epc'[e] \notin {"updating", "deleting", "committed", "failed"}
    PROVE  \/ /\ secrets' = secrets
              /\ \A e \in Edits : epc[e] \notin {"updating", "deleting", "committed", "failed"}
           \/ pooled' = NoClient /\ gen' # fl.gen /\ fl' = fl
<1>0. epc \in [Edits -> {"idle", "updating", "deleting", "committed", "closing",
                        "notifying", "failed", "done"}]
  BY DEF TypeInv, EditsTyped
<1>1. CASE UNCHANGED editVars
  BY <1>1 DEF editVars
<1>2. ASSUME NEW e \in Edits, WriteVault(e) \/ Commit(e) \/ RollBack(e) PROVE FALSE
  BY <1>0, <1>2 DEF WriteVault, Commit, RollBack, EditGoto
<1>3. ASSUME NEW e \in Edits, Disconnect(e) PROVE pooled' = NoClient /\ gen' # fl.gen /\ fl' = fl
  <2>1. epc[e] = "committed"
    BY <1>3 DEF Disconnect
  <2> QED BY <2>1, EditsQuiet
<1>4. ASSUME NEW e \in Edits, DisconnectCloses(e) \/ DisconnectNotifies(e)
      PROVE  /\ secrets' = secrets
             /\ \A o \in Edits : epc[o] \notin {"updating", "deleting", "committed", "failed"}
  BY <1>0, <1>4 DEF DisconnectCloses, DisconnectNotifies, EditGoto
<1> QED BY <1>1, <1>2, <1>3, <1>4, EditsChange

\* A client in the pool keeps what it was dialed with; one that enters it has
\* what the dial read, whose generation is the pool's.
LEMMA PooledMade ==
    ASSUME [Next]_vars, TypeInv, RefInv, FlightInv, pooled' # NoClient
    PROVE  \/ /\ pooled' = pooled /\ docOf'[pooled'] = docOf[pooled] /\ secOf'[pooled'] = secOf[pooled]
           \/ /\ flight = "insert" /\ gen = fl.gen
              /\ docOf'[pooled'] = fl.doc /\ secOf'[pooled'] = fl.sec
<1>0. pooled \in Clients \cup {NoClient} /\ pooled \in Nat /\ dialed \in Nat
  <2>1. PoolTyped /\ ClientsTyped
    BY DEF TypeInv
  <2> QED BY <2>1, Ids, Bounds DEF PoolTyped, ClientsTyped
<1>1. CASE pooled' = pooled
  <2>1. pooled \in Clients /\ pooled # dialed + 1
    BY <1>0, <1>1 DEF RefInv
  <2> QED BY <1>1, <2>1, MadeOnce
<1>2. CASE pooled' # pooled
  BY <1>2, PooledFrom DEF FlightInv, clientVars
<1> QED BY <1>1, <1>2

LEMMA DocCurrentStep == TypeInv /\ RefInv /\ FlightInv /\ DocCurrent /\ [Next]_vars => DocCurrent'
<1> SUFFICES ASSUME TypeInv, RefInv, FlightInv, DocCurrent, [Next]_vars,
                    \A e \in Edits : epc'[e] # "committed"
             PROVE  /\ pooled' # NoClient => docOf'[pooled'] = doc' /\ ~deleted'
                    /\ flight' \in {"load secrets", "dial", "insert"} /\ gen' = fl'.gen
                         => fl'.doc = doc' /\ ~deleted'
  BY DEF DocCurrent
<1>1. CASE pooled' = NoClient /\ gen' # fl.gen /\ fl' = fl
  BY <1>1
<1>2. CASE doc' = doc /\ deleted' = deleted /\ (\A e \in Edits : epc[e] # "committed")
  <2>1. ASSUME pooled' # NoClient PROVE docOf'[pooled'] = doc' /\ ~deleted'
    BY <1>2, <2>1, PooledMade DEF DocCurrent
  <2>2. ASSUME flight' \in {"load secrets", "dial", "insert"}, gen' = fl'.gen
        PROVE  fl'.doc = doc' /\ ~deleted'
    <3>1. CASE UNCHANGED <<flight, fl>>
      <4>1. gen = fl.gen
        BY <2>2, <3>1, Overtaken
      <4> QED BY <1>2, <2>2, <3>1, <4>1 DEF DocCurrent
    <3>2. CASE flight' = "load secrets" /\ ~deleted /\ fl'.doc = doc
      BY <1>2, <3>2
    <3>3. CASE flight \in {"load secrets", "dial"} /\ fl'.doc = fl.doc /\ fl'.gen = fl.gen /\ NotDial
      BY <1>2, <2>2, <3>3 DEF DocCurrent, NotDial
    <3> QED BY <2>2, <3>1, <3>2, <3>3, DialMoves
  <2> QED BY <2>1, <2>2
<1> QED BY <1>1, <1>2, EditsQuiet

LEMMA SecCurrentStep == TypeInv /\ RefInv /\ FlightInv /\ SecCurrent /\ [Next]_vars => SecCurrent'
<1> SUFFICES ASSUME TypeInv, RefInv, FlightInv, SecCurrent, [Next]_vars,
                    \A e \in Edits : epc'[e] \notin {"updating", "deleting", "committed", "failed"}
             PROVE  /\ pooled' # NoClient => secOf'[pooled'] = secrets'
                    /\ flight' \in {"dial", "insert"} /\ gen' = fl'.gen => fl'.sec = secrets'
  BY DEF SecCurrent
<1>1. CASE pooled' = NoClient /\ gen' # fl.gen /\ fl' = fl
  BY <1>1
<1>2. CASE /\ secrets' = secrets
           /\ \A e \in Edits : epc[e] \notin {"updating", "deleting", "committed", "failed"}
  <2>1. ASSUME pooled' # NoClient PROVE secOf'[pooled'] = secrets'
    BY <1>2, <2>1, PooledMade DEF SecCurrent
  <2>2. ASSUME flight' \in {"dial", "insert"}, gen' = fl'.gen
        PROVE  fl'.sec = secrets'
    <3>1. CASE UNCHANGED <<flight, fl>>
      <4>1. gen = fl.gen
        BY <2>2, <3>1, Overtaken
      <4> QED BY <1>2, <2>2, <3>1, <4>1 DEF SecCurrent
    <3>2. CASE fl'.sec = secrets
      BY <1>2, <3>2
    <3>3. CASE flight = "dial" /\ fl'.sec = fl.sec /\ fl'.gen = fl.gen /\ NotDial
      BY <1>2, <2>2, <3>3 DEF SecCurrent, NotDial
    <3> QED BY <2>2, <3>1, <3>2, <3>3, DialMoves
  <2> QED BY <2>1, <2>2
<1> QED BY <1>1, <1>2, SecretsQuiet

-----------------------------------------------------------------------------
\* A connection older than what a caller may get is the dial's own, which will
\* not be pooled; and a dial that read such a document has been overtaken.
FreshInv ==
    \A s \in Sessions : pc[s] # "idle" =>
        /\ floor[s] <= doc
        /\ \A c \in Clients : open[c] /\ docOf[c] < floor[s] =>
              c = fl.client /\ ((flight = "insert" /\ gen # fl.gen) \/ flight = "discard")
        /\ flight \in {"load secrets", "dial"} /\ fl.doc < floor[s] => gen # fl.gen

\* The document in force only gets newer.
LEMMA DocGrows == ASSUME TypeInv, [Next]_vars PROVE doc \in Nat /\ doc' \in Nat /\ doc <= doc'
<1>0. doc \in 1 .. versions /\ versions \in Nat
  BY DEF TypeInv, EditsTyped
<1>1. ASSUME NEW e \in Edits, Commit(e) PROVE doc' = versions
  <2>1. over[e] = versions
    BY <1>1 DEF TypeInv, EditsTyped, Commit
  <2> QED BY <1>1, <2>1 DEF Commit
<1>2. doc' = doc \/ doc' = versions
  BY <1>1, EditsChange DEF editVars, WriteVault, RollBack, Disconnect, DisconnectCloses, DisconnectNotifies
<1> QED BY <1>0, <1>2

\* A floor is set when a session registers, to the document in force if nobody
\* is removing anything, and else it is not raised.
LEMMA FloorMoves ==
    ASSUME TypeInv, FlightInv, [Next]_vars, NEW s \in Sessions
    PROVE  \/ pc[s] # "idle" /\ floor'[s] = floor[s]
           \/ pc'[s] = "idle"
           \/ floor'[s] = 0
           \/ ~Removing /\ floor'[s] = doc /\ UNCHANGED <<editVars, pooled, gen, clientVars, flightVars>>
<1>0. /\ pc \in [Sessions -> {"idle", "lookup", "asking", "asking again", "dropping", "closing",
                             "notifying", "joining", "waiting", "got", "running", "ended"}]
      /\ floor \in [Sessions -> Nat]
  BY DEF TypeInv, SessionsTyped
<1>1. CASE Register(s)
  BY <1>0, <1>1 DEF Register
<1>2. CASE Answer /\ s \in waiters
  BY <1>2 DEF Answer, FlightInv
<1> QED
  BY <1>0, <1>1, <1>2, SessionMoves DEF Call, Lookup, IsConnected, IsReconnecting, Drop,
     DropCloses, DropNotifies, Join, Subscribe, SeeLost, Cancel, Leave, End

\* With nobody removing anything, what is old is the dial's, and overtaken.
LEMMA QuietFresh ==
    ASSUME TypeInv, FlightInv, NoLeak, DocCurrent, ~Removing
    PROVE  /\ \A c \in Clients : open[c] /\ docOf[c] < doc =>
                 c = fl.client /\ ((flight = "insert" /\ gen # fl.gen) \/ flight = "discard")
           /\ flight \in {"load secrets", "dial"} /\ fl.doc < doc => gen # fl.gen
<1>0. doc \in Nat /\ ~(doc < doc)
  <2>1. doc \in 1 .. versions
    BY DEF TypeInv, EditsTyped
  <2> QED BY <2>1
<1>1. \A e \in Edits : epc[e] # "committed" /\ epc[e] # "closing"
  BY DEF Removing
<1>2. \A s \in Sessions : pc[s] # "closing"
  BY DEF Removing
<1>3. ASSUME NEW c \in Clients, open[c], docOf[c] < doc
      PROVE  c = fl.client /\ ((flight = "insert" /\ gen # fl.gen) \/ flight = "discard")
  <2>1. c # pooled
    <3>1. c # NoClient
      BY DEF Clients, NoClient
    <3> QED BY <1>0, <1>1, <1>3, <3>1 DEF DocCurrent
  <2>2. c = fl.client /\ flight \in {"insert", "discard"}
    BY <1>1, <1>2, <1>3, <2>1 DEF NoLeak
  <2>3. flight = "insert" => gen # fl.gen
    BY <1>0, <1>1, <1>3, <2>2 DEF DocCurrent, FlightInv
  <2> QED BY <2>2, <2>3
<1>4. flight \in {"load secrets", "dial"} /\ fl.doc < doc => gen # fl.gen
  BY <1>0, <1>1 DEF DocCurrent
<1> QED BY <1>3, <1>4

LEMMA FreshStep ==
    TypeInv /\ RefInv /\ FlightInv /\ NoLeak /\ DocCurrent /\ FreshInv /\ [Next]_vars => FreshInv'
<1> SUFFICES ASSUME TypeInv, RefInv, FlightInv, NoLeak, DocCurrent, FreshInv, [Next]_vars,
                    NEW s \in Sessions, pc'[s] # "idle"
             PROVE  /\ floor'[s] <= doc'
                    /\ \A c \in Clients : open'[c] /\ docOf'[c] < floor'[s] =>
                          c = fl'.client /\ ((flight' = "insert" /\ gen' # fl'.gen) \/ flight' = "discard")
                    /\ flight' \in {"load secrets", "dial"} /\ fl'.doc < floor'[s] => gen' # fl'.gen
  BY DEF FreshInv
<1>1. CASE floor'[s] = 0
  <2>1. \A c \in Clients : docOf'[c] \in Nat
    <3>1. ClientsTyped'
      BY TypeInvStep DEF TypeInv
    <3> QED BY <3>1 DEF ClientsTyped
  <2>2. fl'.doc \in Nat
    <3>1. FlightTyped'
      BY TypeInvStep DEF TypeInv
    <3> QED BY <3>1 DEF FlightTyped, Reads
  <2>3. floor'[s] <= doc' /\ ~(fl'.doc < floor'[s]) /\ \A c \in Clients : ~(docOf'[c] < floor'[s])
    BY <1>1, <2>1, <2>2, DocGrows
  <2> QED BY <2>3
<1>2. CASE ~Removing /\ floor'[s] = doc /\ UNCHANGED <<editVars, pooled, gen, clientVars, flightVars>>
  <2>1. UNCHANGED <<doc, gen, docOf, open, flight, fl>>
    BY <1>2 DEF editVars, clientVars, flightVars
  <2> QED BY <1>2, <2>1, DocGrows, QuietFresh
<1>3. CASE pc[s] # "idle" /\ floor'[s] = floor[s]
  <2>1. floor'[s] <= doc'
    <3>1. floor[s] \in Nat /\ floor[s] <= doc
      BY <1>3 DEF FreshInv, TypeInv, SessionsTyped
    <3> QED BY <1>3, <3>1, DocGrows
  <2>2. ASSUME NEW c \in Clients, open'[c], docOf'[c] < floor'[s]
        PROVE  c = fl'.client /\ ((flight' = "insert" /\ gen' # fl'.gen) \/ flight' = "discard")
    <3>1. CASE Dial /\ c = dialed + 1
      <4>1. docOf'[c] = fl.doc /\ flight = "dial"
        BY <3>1, DialMakes DEF Dial
      <4>2. flight' = "insert" /\ fl'.client = c /\ fl'.gen = fl.gen /\ gen' = gen
        BY <3>1, <4>1, DialMoves DEF NotDial, Dial
      <4> QED BY <1>3, <2>2, <4>1, <4>2 DEF FreshInv
    <3>2. CASE open[c] /\ docOf'[c] = docOf[c]
      <4>1. c = fl.client /\ ((flight = "insert" /\ gen # fl.gen) \/ flight = "discard")
        BY <1>3, <2>2, <3>2 DEF FreshInv
      <4>2. ~Discard
        BY <2>2, <4>1, CloseCloses DEF Discard
      <4>3. UNCHANGED <<flight, fl>> \/ (flight = "insert" /\ flight' = "discard" /\ fl' = fl)
        BY <4>1, <4>2, FlightChange DEF Dialing, flightVars, Join, Cancel, Check, LoadDoc,
           LoadSecrets, Dial, DialFails, Insert, Answer
      <4> QED BY <4>1, <4>3, Overtaken
    <3>3. (Dial /\ c = dialed + 1) \/ (open[c] /\ docOf'[c] = docOf[c])
      BY <2>2, OpenFrom, MadeOnce
    <3> QED BY <3>1, <3>2, <3>3
  <2>3. ASSUME flight' \in {"load secrets", "dial"}, fl'.doc < floor'[s] PROVE gen' # fl'.gen
    <3>1. CASE UNCHANGED <<flight, fl>>
      BY <1>3, <2>3, <3>1, Overtaken DEF FreshInv
    <3>2. CASE fl'.doc = doc
      <4>1. floor[s] \in Nat /\ floor[s] <= doc /\ doc \in Nat
        BY <1>3, DocGrows DEF FreshInv, TypeInv, SessionsTyped
      <4>2. ~(doc < floor[s])
        BY <4>1
      <4> QED BY <1>3, <2>3, <3>2, <4>2, Zenon
    <3>3. CASE flight = "load secrets" /\ fl'.doc = fl.doc /\ fl'.gen = fl.gen /\ NotDial
      BY <1>3, <2>3, <3>3 DEF FreshInv, NotDial
    <3> QED BY <2>3, <3>1, <3>2, <3>3, DialMoves
  <2> QED BY <2>1, <2>2, <2>3
<1> QED BY <1>1, <1>2, <1>3, FloorMoves

-----------------------------------------------------------------------------
\* The invariant: types, references, the dial, the sessions, and what the
\* generation guards.
Inv == TypeInv /\ RefInv /\ FlightInv /\ UserInv /\ NoLeak /\ SessionTold /\ DocCurrent /\ SecCurrent /\ FreshInv

LEMMA InvInit == Init => Inv
<1> SUFFICES ASSUME Init PROVE Inv
  OBVIOUS
<1>1. TypeInv
  BY TypeInvInit
<1>2. /\ pooled = NoClient /\ gen = 0 /\ dialed = 0 /\ flight = "none" /\ fl = NoRead /\ waiters = {}
      /\ \A s \in Sessions : pc[s] = "idle" /\ using[s] = NoClient
      /\ \A e \in Edits : evictim[e] = NoClient
      /\ \A c \in Clients : ~open[c]
  BY DEF Init
<1>3. fl.gen = 0 /\ fl.client = NoClient
  BY <1>2 DEF NoRead
<1>4. RefInv /\ FlightInv
  BY <1>2, <1>3 DEF RefInv, FlightInv, NoClient
<1>5. UserInv /\ NoLeak /\ SessionTold /\ DocCurrent /\ SecCurrent /\ FreshInv
  BY <1>2 DEF UserInv, NoLeak, SessionTold, DocCurrent, SecCurrent, FreshInv
<1> QED BY <1>1, <1>4, <1>5 DEF Inv

LEMMA InvStep == Inv /\ [Next]_vars => Inv'
BY TypeInvStep, RefStep, FlightStep, UserStep, NoLeakStep, SessionToldStep, DocCurrentStep,
   SecCurrentStep, FreshStep DEF Inv

LEMMA InvHolds == Spec => []Inv
BY InvInit, InvStep, PTL DEF Spec

\* Every connection the pool ever opened is closed, in the pool, in the dial,
\* or held by the one who removed it and closes it next (pool.go removeLocked,
\* dial): no order of calls, edits, shutdown and link changes leaks one.
THEOREM NothingLeaks == Spec => []NoLeak
<1>1. Inv => NoLeak
  BY DEF Inv
<1> QED BY <1>1, InvHolds, PTL

\* A session that runs on a client no longer in the pool was told through its
\* lost channel, or whoever removed the client is about to tell it: also one
\* that subscribed between the removal and the closing of its client.
THEOREM SessionsAreTold == Spec => []SessionTold
<1>1. Inv => SessionTold
  BY DEF Inv
<1> QED BY <1>1, InvHolds, PTL

\* What the pool hands out was dialed with the document in force, and with the
\* secrets in force unless a transaction that wrote them failed, whenever no
\* edit is between its first write and its Disconnect.
THEOREM PoolIsCurrent == Spec => []PooledIsCurrent
<1>1. Inv => PooledIsCurrent
  BY DEF Inv, DocCurrent, SecCurrent, PooledIsCurrent
<1> QED BY <1>1, InvHolds, PTL

\* A call that began after an edit had returned gets no usable client of an
\* older configuration: what such a client would be belongs to an overtaken
\* dial, which shows it to nobody.
THEOREM CallsGetFresh == Spec => []FreshClient
<1>1. ASSUME Inv PROVE FreshClient
  <2> SUFFICES ASSUME NEW s \in Sessions, pc[s] \in {"got", "running"}, using[s] # NoClient, open[using[s]]
               PROVE  docOf[using[s]] >= floor[s]
    BY DEF FreshClient
  <2>1. using[s] \in Clients
    BY <1>1 DEF Inv, TypeInv, SessionsTyped
  <2>2. docOf[using[s]] \in Nat /\ floor[s] \in Nat
    BY <1>1, <2>1 DEF Inv, TypeInv, SessionsTyped, ClientsTyped
  <2>3. ~(docOf[using[s]] < floor[s])
    <3>1. ~(using[s] = fl.client /\ flight \in {"insert", "discard"})
      BY <1>1 DEF Inv, FlightInv
    <3> QED BY <1>1, <2>1, <3>1 DEF Inv, FreshInv
  <2> QED BY <2>2, <2>3
<1> QED BY <1>1, InvHolds, PTL
=============================================================================
