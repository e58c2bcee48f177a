------------------------------ MODULE ConnPool ------------------------------
(***************************************************************************)
(* The pool of NATS clients for one connection ID                          *)
(* (internal/pkg/natsclient/pool.go), with what acts on it: calls that ask *)
(* for a client on behalf of a live session (services/live/live), the one  *)
(* dial in flight that singleflight lets them share, edits and the removal *)
(* of the saved connection (services/connections and its storage), the     *)
(* states a client reports of its link, and the shutdown.                  *)
(*                                                                         *)
(* A step is what one goroutine does under the pool's lock, or between two *)
(* of its locks: callers act on answers that may have become stale.        *)
(* Abstracted: a saved configuration is a version number, of the document  *)
(* in bbolt and of the secrets in the vault; IDs share nothing but the     *)
(* pool's lock, so there is one.                                           *)
(***************************************************************************)
EXTENDS Naturals

CONSTANTS
    Sessions,      \* live sessions, each asking the pool for a client once
    Edits,         \* calls of Update or Delete, each made once
    MaxStaleDials, \* maxStaleDials
    Stops,         \* whether the program shuts down
    MaxClients,    \* bound on dials
    MaxFlaps       \* bound on links going down

ASSUME BoundsAssumption ==
    MaxStaleDials \in Nat \ {0} /\ Stops \in BOOLEAN /\ MaxClients \in Nat /\ MaxFlaps \in Nat

Clients == 1 .. MaxClients
NoClient == 0

VARIABLES
    doc,      \* version of the committed document
    deleted,  \* the document was deleted
    secrets,  \* version of the vault's secrets
    versions, \* versions given out so far
    epc,      \* epc[e]: progress of the edit
    over,     \* over[e]: the version the edit writes
    evictim,  \* evictim[e]: the client the edit removed from the pool
    pooled,   \* p.clients[id], or NoClient
    gen,      \* p.gens[id]
    dialed,   \* number of clients dialed
    docOf,    \* docOf[c]: the document version client c was dialed with
    secOf,    \* secOf[c]: the version of its secrets
    open,     \* open[c]: its NATS connection is not closed
    link,     \* link[c]: "up", "down" or "closed", as its handlers recorded it
    flaps,    \* number of times a link went down
    flight,   \* stage of the shared dial, "none" when there is no call
    fl,       \* what the dial has read and made so far
    waiters,  \* sessions waiting for its result
    pc,       \* pc[s]: progress of session s
    using,    \* using[s]: the client it looks at, then the one it was given
    floor,    \* floor[s]: document version in force when it asked (history)
    lost,     \* sessions whose lost channel is closed
    stopped   \* Pool.Close was called

editVars == <<doc, deleted, secrets, versions, epc, over>>
clientVars == <<dialed, docOf, secOf, open, link, flaps>>
flightVars == <<flight, fl, waiters>>
sessVars == <<pc, using, floor, lost>>
vars == <<doc, deleted, secrets, versions, epc, over, evictim, pooled, gen, dialed,
          docOf, secOf, open, link, flaps, flight, fl, waiters, pc, using, floor,
          lost, stopped>>

\* What a dial knows before its first step.
NoRead == [attempt |-> 0, gen |-> 0, doc |-> 0, sec |-> 0, client |-> NoClient]

-----------------------------------------------------------------------------
Init ==
    /\ doc = 1 /\ deleted = FALSE /\ secrets = 1 /\ versions = 1
    /\ epc = [e \in Edits |-> "idle"] /\ over = [e \in Edits |-> 0]
    /\ evictim = [e \in Edits |-> NoClient]
    /\ pooled = NoClient /\ gen = 0 /\ dialed = 0
    /\ docOf = [c \in Clients |-> 0] /\ secOf = [c \in Clients |-> 0]
    /\ open = [c \in Clients |-> FALSE] /\ link = [c \in Clients |-> "closed"]
    /\ flaps = 0
    /\ flight = "none"
    /\ fl = NoRead
    /\ waiters = {}
    /\ pc = [s \in Sessions |-> "idle"] /\ using = [s \in Sessions |-> NoClient]
    /\ floor = [s \in Sessions |-> 0] /\ lost = {}
    /\ stopped = FALSE

\* The sessions in Service.sessions.
Registered == {s \in Sessions : pc[s] \notin {"idle", "ended"}}

\* endSessionsFor, the pool's OnDisconnect listener.
EndSessions == lost' = lost \cup Registered

\* Somebody between removing a client from the pool and having closed it, or
\* between committing an edit and having dropped what it made stale.
Removing ==
    \/ \E e \in Edits : epc[e] \in {"committed", "closing", "notifying"}
    \/ \E s \in Sessions : pc[s] = "closing"

-----------------------------------------------------------------------------
\* Pool.Client, as a session calls it.

Goto(s, place) == pc' = [pc EXCEPT ![s] = place]

\* The call failed or the session is over: unregisterSession.
End(s) ==
    /\ Goto(s, "ended")
    /\ using' = [using EXCEPT ![s] = NoClient]
    /\ floor' = [floor EXCEPT ![s] = 0]
    /\ lost' = lost \ {s}

\* registerSession, then the lookup under the read lock.
Register(s) ==
    /\ pc[s] = "idle"
    /\ floor' = [floor EXCEPT ![s] = IF Removing THEN 0 ELSE doc]
    /\ Goto(s, "lookup")
    /\ UNCHANGED <<editVars, evictim, pooled, gen, clientVars, flightVars, using, lost, stopped>>

Lookup(s) ==
    /\ pc[s] = "lookup"
    /\ using' = [using EXCEPT ![s] = pooled]
    /\ Goto(s, IF pooled = NoClient THEN "joining" ELSE "asking")
    /\ UNCHANGED <<editVars, evictim, pooled, gen, clientVars, flightVars, floor, lost, stopped>>

\* The client is asked about its link twice, with no lock held.
IsConnected(s) ==
    /\ pc[s] = "asking"
    /\ Goto(s, IF link[using[s]] = "up" THEN "got" ELSE "asking again")
    /\ UNCHANGED <<editVars, evictim, pooled, gen, clientVars, flightVars, using, floor, lost, stopped>>

IsReconnecting(s) ==
    /\ pc[s] = "asking again"
    /\ IF link[using[s]] = "down"
       THEN End(s)
       ELSE Goto(s, "dropping") /\ UNCHANGED <<using, floor, lost>>
    /\ UNCHANGED <<editVars, evictim, pooled, gen, clientVars, flightVars, stopped>>

\* drop: unless another caller already replaced the client.
Drop(s) ==
    /\ pc[s] = "dropping"
    /\ IF pooled = using[s]
       THEN pooled' = NoClient /\ Goto(s, "closing")
       ELSE UNCHANGED pooled /\ Goto(s, "joining")
    /\ UNCHANGED <<editVars, evictim, gen, clientVars, flightVars, using, floor, lost, stopped>>

\* The rest of removeLocked, by the session: close, then the listeners.
DropCloses(s) ==
    /\ pc[s] = "closing"
    /\ open' = [open EXCEPT ![using[s]] = FALSE]
    /\ Goto(s, "notifying")
    /\ UNCHANGED <<editVars, evictim, pooled, gen, dialed, docOf, secOf, link, flaps,
                   flightVars, using, floor, lost, stopped>>

\* Mutant: a client found dead leaves the pool without anyone being told.
DropSilently(s) ==
    /\ pc[s] = "notifying"
    /\ Goto(s, "joining")
    /\ UNCHANGED <<editVars, evictim, pooled, gen, clientVars, flightVars, using, floor, lost, stopped>>

DropNotifies(s) ==
    /\ pc[s] = "notifying"
    /\ EndSessions
    /\ Goto(s, "joining")
    /\ UNCHANGED <<editVars, evictim, pooled, gen, clientVars, flightVars, using, floor, stopped>>

\* DoChan: starts the dial, or joins the one in flight.
Join(s) ==
    /\ pc[s] = "joining"
    /\ waiters' = waiters \cup {s}
    /\ using' = [using EXCEPT ![s] = NoClient]
    /\ Goto(s, "waiting")
    /\ IF flight = "none"
       THEN flight' = "check" /\ fl' = [NoRead EXCEPT !.attempt = 1]
       ELSE UNCHANGED <<flight, fl>>
    /\ UNCHANGED <<editVars, evictim, pooled, gen, clientVars, floor, lost, stopped>>

\* The caller's context ends; the dial finishes in the background.
Cancel(s) ==
    /\ pc[s] = "waiting"
    /\ waiters' = waiters \ {s}
    /\ End(s)
    /\ UNCHANGED <<editVars, evictim, pooled, gen, clientVars, flight, fl, stopped>>

\* Subscribing on the client the session was given; a closed one refuses, as
\* the pool does when the dial failed.
Subscribe(s) ==
    /\ pc[s] = "got"
    /\ IF using[s] # NoClient /\ open[using[s]]
       THEN Goto(s, "running") /\ UNCHANGED <<using, floor, lost>>
       ELSE End(s)
    /\ UNCHANGED <<editVars, evictim, pooled, gen, clientVars, flightVars, stopped>>

\* runLoop sees the lost channel; or the caller leaves.
SeeLost(s) ==
    /\ pc[s] = "running" /\ s \in lost
    /\ End(s)
    /\ UNCHANGED <<editVars, evictim, pooled, gen, clientVars, flightVars, stopped>>

Leave(s) ==
    /\ pc[s] = "running"
    /\ End(s)
    /\ UNCHANGED <<editVars, evictim, pooled, gen, clientVars, flightVars, stopped>>

-----------------------------------------------------------------------------
\* Pool.dial, one goroutine for all waiters.

FlightRest == UNCHANGED <<editVars, evictim, waiters, sessVars, stopped>>

\* Looks at the pool again and remembers the generation.
Check ==
    /\ flight = "check"
    /\ IF pooled # NoClient
       THEN fl' = [fl EXCEPT !.client = pooled] /\ flight' = "done"
       ELSE fl' = [fl EXCEPT !.gen = gen] /\ flight' = "load"
    /\ UNCHANGED <<pooled, gen, clientVars>> /\ FlightRest

\* The configuration source reads the document, then the vault.
LoadDoc ==
    /\ flight = "load"
    /\ IF deleted
       THEN flight' = "done" /\ UNCHANGED fl
       ELSE fl' = [fl EXCEPT !.doc = doc] /\ flight' = "load secrets"
    /\ UNCHANGED <<pooled, gen, clientVars>> /\ FlightRest

LoadSecrets ==
    /\ flight = "load secrets"
    /\ fl' = [fl EXCEPT !.sec = secrets]
    /\ flight' = "dial"
    /\ UNCHANGED <<pooled, gen, clientVars>> /\ FlightRest

Dial ==
    /\ flight = "dial" /\ dialed < MaxClients
    /\ LET c == dialed + 1 IN
        /\ dialed' = c
        /\ docOf' = [docOf EXCEPT ![c] = fl.doc]
        /\ secOf' = [secOf EXCEPT ![c] = fl.sec]
        /\ open' = [open EXCEPT ![c] = TRUE]
        /\ link' = [link EXCEPT ![c] = "up"]
        /\ fl' = [fl EXCEPT !.client = c]
    /\ flight' = "insert"
    /\ UNCHANGED <<pooled, gen, flaps>> /\ FlightRest

DialFails ==
    /\ flight \in {"load", "load secrets", "dial"}
    /\ flight' = "done" /\ fl' = NoRead
    /\ UNCHANGED <<pooled, gen, clientVars>> /\ FlightRest

\* Mutant: the generation is not compared.
InsertAny ==
    /\ flight = "insert"
    /\ pooled' = fl.client /\ flight' = "done"
    /\ UNCHANGED <<fl, gen, clientVars>> /\ FlightRest

\* Pools the client if no Disconnect came since the generation was read.
Insert ==
    /\ flight = "insert"
    /\ IF gen = fl.gen
       THEN pooled' = fl.client /\ flight' = "done"
       ELSE flight' = "discard" /\ UNCHANGED pooled
    /\ UNCHANGED <<fl, gen, clientVars>> /\ FlightRest

\* Mutant: the stale client is left open.
DiscardOpen ==
    /\ flight = "discard"
    /\ IF fl.attempt = MaxStaleDials
       THEN /\ flight' = "done" /\ fl' = [fl EXCEPT !.client = NoClient]
       ELSE /\ flight' = "check" /\ fl' = [NoRead EXCEPT !.attempt = fl.attempt + 1]
    /\ UNCHANGED <<pooled, gen, clientVars>> /\ FlightRest

\* Mutant: no end to the dials.
DiscardForever ==
    /\ flight = "discard"
    /\ open' = [open EXCEPT ![fl.client] = FALSE]
    /\ flight' = "check" /\ fl' = [NoRead EXCEPT !.attempt = fl.attempt + 1]
    /\ UNCHANGED <<pooled, gen, dialed, docOf, secOf, link, flaps>> /\ FlightRest

\* Closes the stale client and dials again, at most MaxStaleDials times.
Discard ==
    /\ flight = "discard"
    /\ open' = [open EXCEPT ![fl.client] = FALSE]
    /\ IF fl.attempt = MaxStaleDials
       THEN /\ flight' = "done" /\ fl' = NoRead
       ELSE /\ flight' = "check"
            /\ fl' = [NoRead EXCEPT !.attempt = fl.attempt + 1]
    /\ UNCHANGED <<pooled, gen, dialed, docOf, secOf, link, flaps>> /\ FlightRest

\* Mutant: one waiter is answered.
AnswerOne ==
    /\ flight = "done"
    /\ flight' = "none" /\ waiters' = {} /\ fl' = NoRead
    /\ \E w \in waiters :
        /\ using' = [using EXCEPT ![w] = fl.client]
        /\ pc' = [pc EXCEPT ![w] = "got"]
    /\ UNCHANGED <<editVars, evictim, pooled, gen, clientVars, floor, lost, stopped>>

\* singleflight forgets the call and hands its result to every waiter.
Answer ==
    /\ flight = "done"
    /\ flight' = "none" /\ waiters' = {} /\ fl' = NoRead
    /\ using' = [s \in Sessions |-> IF s \in waiters THEN fl.client ELSE using[s]]
    /\ pc' = [s \in Sessions |-> IF s \in waiters THEN "got" ELSE pc[s]]
    /\ UNCHANGED <<editVars, evictim, pooled, gen, clientVars, floor, lost, stopped>>

-----------------------------------------------------------------------------
\* Update and Delete of the saved connection, then DisconnectFromPool.

EditGoto(e, place) == epc' = [epc EXCEPT ![e] = place]

\* In the write transaction: the vault is written at once, the document is
\* seen by others when the transaction commits.
WriteVault(e) ==
    /\ epc[e] = "idle" /\ ~deleted
    /\ \A o \in Edits : epc[o] \notin {"updating", "deleting"}
    /\ versions' = versions + 1
    /\ over' = [over EXCEPT ![e] = versions']
    /\ secrets' = versions'
    /\ EditGoto(e, "updating") \/ EditGoto(e, "deleting")
    /\ UNCHANGED <<doc, deleted, evictim, pooled, gen, clientVars, flightVars, sessVars, stopped>>

Commit(e) ==
    /\ epc[e] \in {"updating", "deleting"}
    /\ doc' = over[e]
    /\ deleted' = (epc[e] = "deleting")
    /\ EditGoto(e, "committed")
    /\ UNCHANGED <<secrets, versions, over, evictim, pooled, gen, clientVars, flightVars, sessVars, stopped>>

\* The transaction fails after the vault was written; the call returns.
RollBack(e) ==
    /\ epc[e] \in {"updating", "deleting"}
    /\ EditGoto(e, "failed")
    /\ UNCHANGED <<doc, deleted, secrets, versions, over, evictim, pooled, gen, clientVars,
                   flightVars, sessVars, stopped>>

\* Mutant: only a disconnect that finds a client counts.
DisconnectPooled(e) ==
    /\ epc[e] = "committed"
    /\ gen' = IF pooled = NoClient THEN gen ELSE gen + 1
    /\ evictim' = [evictim EXCEPT ![e] = pooled]
    /\ pooled' = NoClient
    /\ EditGoto(e, IF pooled = NoClient THEN "done" ELSE "closing")
    /\ UNCHANGED <<doc, deleted, secrets, versions, over, clientVars, flightVars, sessVars, stopped>>

\* Disconnect, up to the unlock.
Disconnect(e) ==
    /\ epc[e] = "committed"
    /\ gen' = gen + 1
    /\ evictim' = [evictim EXCEPT ![e] = pooled]
    /\ pooled' = NoClient
    /\ EditGoto(e, IF pooled = NoClient THEN "done" ELSE "closing")
    /\ UNCHANGED <<doc, deleted, secrets, versions, over, clientVars, flightVars, sessVars, stopped>>

\* Mutant: the client is closed and no listener called.
DisconnectSilently(e) ==
    /\ epc[e] = "closing"
    /\ open' = [open EXCEPT ![evictim[e]] = FALSE]
    /\ EditGoto(e, "done")
    /\ UNCHANGED <<doc, deleted, secrets, versions, over, evictim, pooled, gen, dialed, docOf,
                   secOf, link, flaps, flightVars, sessVars, stopped>>

DisconnectCloses(e) ==
    /\ epc[e] = "closing"
    /\ open' = [open EXCEPT ![evictim[e]] = FALSE]
    /\ EditGoto(e, "notifying")
    /\ UNCHANGED <<doc, deleted, secrets, versions, over, evictim, pooled, gen, dialed, docOf,
                   secOf, link, flaps, flightVars, sessVars, stopped>>

DisconnectNotifies(e) ==
    /\ epc[e] = "notifying"
    /\ EndSessions
    /\ EditGoto(e, "done")
    /\ evictim' = [evictim EXCEPT ![e] = NoClient]
    /\ UNCHANGED <<doc, deleted, secrets, versions, over, pooled, gen, clientVars,
                   flightVars, pc, using, floor, stopped>>

-----------------------------------------------------------------------------
\* The NATS connections, and the shutdown.

\* A handler of the client records a change of its link.
LinkDown(c) ==
    /\ link[c] = "up" /\ flaps < MaxFlaps
    /\ link' = [link EXCEPT ![c] = "down"]
    /\ flaps' = flaps + 1
    /\ UNCHANGED <<editVars, evictim, pooled, gen, dialed, docOf, secOf, open, flightVars, sessVars, stopped>>

LinkUp(c) ==
    /\ link[c] = "down"
    /\ link' = [link EXCEPT ![c] = "up"]
    /\ UNCHANGED <<editVars, evictim, pooled, gen, dialed, docOf, secOf, open, flaps, flightVars, sessVars, stopped>>

\* nats.go gives up on a link that is down.
GiveUp(c) ==
    /\ open[c] /\ link[c] = "down"
    /\ open' = [open EXCEPT ![c] = FALSE]
    /\ UNCHANGED <<editVars, evictim, pooled, gen, dialed, docOf, secOf, link, flaps, flightVars, sessVars, stopped>>

\* The closed handler runs some time after the connection was closed.
LinkClosed(c) ==
    /\ ~open[c] /\ link[c] # "closed"
    /\ link' = [link EXCEPT ![c] = "closed"]
    /\ UNCHANGED <<editVars, evictim, pooled, gen, dialed, docOf, secOf, open, flaps, flightVars, sessVars, stopped>>

\* Pool.Close empties the pool and closes what was in it; nobody is told.
Stop ==
    /\ Stops /\ ~stopped
    /\ stopped' = TRUE
    /\ pooled' = NoClient
    /\ open' = [c \in Clients |-> open[c] /\ c # pooled]
    /\ UNCHANGED <<editVars, evictim, gen, dialed, docOf, secOf, link, flaps, flightVars, sessVars>>

-----------------------------------------------------------------------------
\* Every call returned and every session ended.
Done ==
    /\ flight = "none"
    /\ \A s \in Sessions : pc[s] = "ended"
    /\ \A e \in Edits : epc[e] \in {"idle", "failed", "done"}
    /\ UNCHANGED vars

Call(s) ==
    \/ Register(s) \/ Lookup(s) \/ IsConnected(s) \/ IsReconnecting(s)
    \/ Drop(s) \/ DropCloses(s) \/ DropNotifies(s) \/ Join(s) \/ Subscribe(s) \/ SeeLost(s)

Dialing == Check \/ LoadDoc \/ LoadSecrets \/ Dial \/ DialFails \/ Insert \/ Discard \/ Answer

Edit(e) ==
    Commit(e) \/ RollBack(e) \/ Disconnect(e) \/ DisconnectCloses(e) \/ DisconnectNotifies(e)

Links == \E c \in Clients : LinkDown(c) \/ LinkUp(c) \/ GiveUp(c) \/ LinkClosed(c)

Next ==
    \/ \E s \in Sessions : Call(s) \/ Cancel(s) \/ Leave(s)
    \/ \E e \in Edits : WriteVault(e) \/ Edit(e)
    \/ Dialing \/ Links \/ Stop \/ Done

Spec == Init /\ [][Next]_vars

\* Goroutines run to their end and dials end; nobody has to edit, leave,
\* cancel or stop, and no link has to change.
Fairness ==
    /\ \A s \in Sessions : WF_vars(Call(s))
    /\ \A e \in Edits : WF_vars(Edit(e))
    /\ WF_vars(Dialing)

FairSpec == Spec /\ Fairness

-----------------------------------------------------------------------------
\* The values the variables range over; dials are repeated in bounds.
TypeOK ==
    /\ doc \in 1 .. versions /\ deleted \in BOOLEAN /\ secrets \in 1 .. versions
    /\ versions \in Nat
    /\ epc \in [Edits -> {"idle", "updating", "deleting", "committed", "closing",
                          "notifying", "failed", "done"}]
    /\ over \in [Edits -> 0 .. versions]
    /\ evictim \in [Edits -> Clients \cup {NoClient}]
    /\ pooled \in Clients \cup {NoClient} /\ gen \in Nat /\ dialed \in 0 .. MaxClients
    /\ docOf \in [Clients -> Nat] /\ secOf \in [Clients -> Nat]
    /\ open \in [Clients -> BOOLEAN] /\ link \in [Clients -> {"up", "down", "closed"}]
    /\ flaps \in 0 .. MaxFlaps
    /\ flight \in {"none", "check", "load", "load secrets", "dial", "insert", "discard", "done"}
    /\ fl \in [attempt : 0 .. MaxStaleDials, gen : Nat, doc : Nat, sec : Nat,
               client : Clients \cup {NoClient}]
    /\ waiters \subseteq Sessions /\ lost \subseteq Sessions
    /\ pc \in [Sessions -> {"idle", "lookup", "asking", "asking again", "dropping", "closing",
                            "notifying", "joining", "waiting", "got", "running", "ended"}]
    /\ using \in [Sessions -> Clients \cup {NoClient}]
    /\ floor \in [Sessions -> Nat]
    /\ stopped \in BOOLEAN

\* A call that began after an edit had returned never gets a usable client of
\* an older configuration: an edit that makes a connection read-only leaves no
\* way to write through the pool.
FreshClient ==
    \A s \in Sessions :
        pc[s] \in {"got", "running"} /\ using[s] # NoClient /\ open[using[s]] => docOf[using[s]] >= floor[s]

\* While no edit is between its first write and its Disconnect, the pooled
\* client was dialed with the configuration in force: a dial that read the
\* old document, or the new secrets with the old document, is not pooled.
PooledIsCurrent ==
    pooled # NoClient /\ (\A e \in Edits : epc[e] \notin {"updating", "deleting", "committed"}) =>
        /\ ~deleted /\ docOf[pooled] = doc
        /\ (\A e \in Edits : epc[e] # "failed") => secOf[pooled] = secrets

\* Every connection that is not closed is in the pool, in the dial, or in the
\* hands of whoever removed it and closes it next.
NoLeak ==
    \A c \in Clients : open[c] =>
        \/ c = pooled
        \/ c = fl.client /\ flight \in {"insert", "discard"}
        \/ \E s \in Sessions : pc[s] = "closing" /\ using[s] = c
        \/ \E e \in Edits : epc[e] = "closing" /\ evictim[e] = c

\* A session on a client that left the pool has been told, or somebody is
\* about to tell it.
SessionTold ==
    \A s \in Sessions :
        pc[s] = "running" /\ using[s] # pooled /\ ~stopped =>
            \/ s \in lost
            \/ \E o \in Sessions : pc[o] \in {"closing", "notifying"} /\ using[o] = using[s]
            \/ \E e \in Edits : epc[e] \in {"closing", "notifying"} /\ evictim[e] = using[s]

\* Whoever waits for a dial gets an answer, however often it is discarded.
CallReturns == \A s \in Sessions : pc[s] = "waiting" ~> pc[s] # "waiting"

\* A session whose client left the pool ends.
GoneEnds ==
    \A s \in Sessions :
        pc[s] = "running" /\ using[s] # pooled ~> pc[s] # "running" \/ stopped

\* pool.go: "drops dead connections so they are re-dialed on next access";
\* a caller removes no client whose connection still works.
DropsOnlyDead == [][\A s \in Sessions : Drop(s) /\ pooled' # pooled => ~open[pooled]]_vars

\* errs/nats.go: ErrLiveConnectionLost says that "the NATS connection behind
\* a live session was closed or replaced".
LostMeansReplaced ==
    \A s \in Sessions :
        pc[s] = "running" /\ s \in lost => ~open[using[s]] \/ using[s] # pooled
=============================================================================
