------------------------------ MODULE LiveView ------------------------------
(***************************************************************************)
(* The browser's live feed over core NATS: the Subscribe page and its      *)
(* session (web/src/components/subscribe), the hook that keeps a feed      *)
(* (components/messages/unified/useLiveSubscription.ts) and the client     *)
(* that keeps one server stream open (contexts/live/LiveStreamClient.ts).  *)
(*                                                                         *)
(* JavaScript runs one task at a time, and React runs effects in a task of *)
(* its own some time after it showed the state they depend on.  LvEffects  *)
(* is that task: until it ran, events of the stream of an earlier state    *)
(* still arrive.  Left out: rates, counters, limits of size, the display.  *)
(***************************************************************************)
EXTENDS Naturals, Sequences, SequencesExt, FiniteSets

CONSTANTS
    LvConns,       \* saved connections
    LvSubjects,    \* subjects
    LvMaxRetries,  \* reconnectConfig.maxRetries
    LvKeep,        \* liveLimit
    LvPausedCap,   \* MAX_PAUSED_MESSAGES
    LvMaxEvents    \* bound on batches sent, streams that break and subjects refused

ASSUME LvAssumption ==
    /\ {LvMaxRetries, LvKeep, LvPausedCap, LvMaxEvents} \subseteq Nat
    /\ LvKeep > 0 /\ LvPausedCap > 0 /\ IsFiniteSet(LvSubjects)

VARIABLES
    lvConn,     \* the connection shown
    lvRun,      \* running: Start was pressed
    lvDraft,    \* draft.subjects
    lvMuted,    \* muted
    lvVisible,  \* the tab is visible
    lvRan,      \* what the effects last ran with
    lvClient,   \* ws, or LvNoClient
    lvWire,     \* streams open between client and server
    lvStatus,   \* wsStatus
    lvErr,      \* wsError is set
    lvPaused,   \* isPaused
    lvDenied,   \* deniedSubjects
    lvFeed,     \* liveMessages, newest first
    lvSent, lvFailures

lvUser == <<lvConn, lvRun, lvDraft, lvMuted, lvVisible>>
lvLink == <<lvClient, lvWire, lvStatus, lvErr>>
lvShown == <<lvPaused, lvDenied, lvFeed>>
lvVars == <<lvUser, lvRan, lvLink, lvShown, lvSent, lvFailures>>

LvTargets == [subjects : SUBSET LvSubjects, exclude : SUBSET LvSubjects]
LvNoTarget == [subjects |-> {}, exclude |-> {}]
LvStreams == 1 .. 3
LvNoClient == [on |-> FALSE]
LvNewClient ==
    [on |-> TRUE, conn |-> lvConn, key |-> LvNoTarget, attempts |-> 0, timer |-> LvNoTarget, stream |-> 0,
     paused |-> FALSE, held |-> {}]

\* What the hook is asked for: a target while running, and whether it is on.
LvTarget == IF lvRun THEN [subjects |-> lvDraft, exclude |-> lvMuted] ELSE LvNoTarget
LvWanted == [conn |-> lvConn, active |-> lvRun /\ lvVisible, target |-> LvTarget, status |-> lvStatus]

LvInit ==
    /\ lvConn \in LvConns /\ lvRun = FALSE /\ lvDraft = {} /\ lvMuted = {} /\ lvVisible = TRUE
    /\ lvClient = LvNoClient /\ lvWire = {} /\ lvStatus = "disconnected" /\ lvErr = FALSE
    /\ lvRan = LvWanted
    /\ lvPaused = FALSE /\ lvDenied = {} /\ lvFeed = <<>>
    /\ lvSent = 0 /\ lvFailures = 0

---------------------------------------------------------------------------
(* The client: one stream at a time. *)

LvMayOccur == lvSent + lvFailures < LvMaxEvents

\* cancelStream: the stream of the abort controller, with the timer.
LvCancel(client, wire) == {s \in wire : s.n # client.stream}

LvStartStream(client, wire, target) ==
    LET n == CHOOSE n \in LvStreams : \A s \in wire : s.n # n
    IN  <<[client EXCEPT !.stream = n],
          wire \cup {[n |-> n, conn |-> client.conn, target |-> target, est |-> FALSE]}>>

\* Mutant: the stream of the earlier target is left open.
LvSubscribeBeside(client, wire, target) ==
    IF client.key = target THEN <<client, wire>>
    ELSE LvStartStream([client EXCEPT !.key = target, !.attempts = 0, !.timer = LvNoTarget], wire, target)

LvSubscribeTarget(client, wire, target) ==
    IF client.key = target THEN <<client, wire>>
    ELSE LvStartStream([client EXCEPT !.key = target, !.attempts = 0, !.timer = LvNoTarget],
                       LvCancel(client, wire), target)

LvUnsubscribe(client, wire) ==
    IF client.key = LvNoTarget THEN <<[client EXCEPT !.timer = LvNoTarget], wire>>
    ELSE <<[client EXCEPT !.key = LvNoTarget, !.timer = LvNoTarget, !.stream = 0], LvCancel(client, wire)>>

\* The first event of a stream settles the status; any event may be first.
LvHear(s, client) ==
    /\ lvWire' = (lvWire \ {s}) \cup {[s EXCEPT !.est = TRUE]}
    /\ lvClient' = IF s.est THEN client ELSE [client EXCEPT !.attempts = 0]
    /\ lvStatus' = IF s.est THEN lvStatus ELSE "connected"
    /\ lvErr' = (s.est /\ lvErr)

\* Messages by the order in which they came, newest first.
LvNewestFirst(messages) ==
    CHOOSE q \in [1 .. Cardinality(messages) -> messages] : \A i, j \in DOMAIN q : i < j => q[i].id > q[j].id

\* processBatch, which filters by what the last effects stored in its refs.
LvShow(feed, messages) ==
    LET all == LvNewestFirst({m \in messages : m.subject \notin lvRan.target.exclude}) \o feed
    IN  SubSeq(all, 1, IF Len(all) < LvKeep THEN Len(all) ELSE LvKeep)

\* The batches the server may send of these subjects: here, one message of each
\* at most, in one order.
LvBatchesOf(subjects) == {SetToSeq(S) : S \in SUBSET subjects \ {{}}}

\* trimPausedBatches: the oldest batches go while there are too many messages,
\* the last one stays.
LvTrimmed(messages) ==
    {m \in messages : \/ \A n \in messages : n.batch <= m.batch
                      \/ Cardinality({n \in messages : n.batch >= m.batch}) <= LvPausedCap}

\* handleEvent: a batch, kept back while paused.
LvBatch(s) ==
    /\ LvMayOccur /\ lvSent' = lvSent + 1
    /\ \E batch \in LvBatchesOf(s.target.subjects \ s.target.exclude) :
         LET messages == {[id |-> lvSent * Cardinality(LvSubjects) + i, batch |-> lvSent,
                           conn |-> s.conn, subject |-> batch[i]] : i \in DOMAIN batch}
         IN  IF lvClient.paused
             THEN /\ LvHear(s, [lvClient EXCEPT !.held = LvTrimmed(@ \cup messages)])
                  /\ UNCHANGED lvFeed
             ELSE /\ lvFeed' = LvShow(lvFeed, messages)
                  /\ LvHear(s, lvClient)
    /\ UNCHANGED <<lvUser, lvRan, lvPaused, lvDenied, lvFailures>>

\* handleEvent: the server refused a subject of this stream.
LvRefused(s) ==
    /\ LvMayOccur /\ lvFailures' = lvFailures + 1
    /\ \E x \in s.target.subjects \ lvDenied : lvDenied' = lvDenied \cup {x}
    /\ LvHear(s, lvClient)
    /\ UNCHANGED <<lvUser, lvRan, lvPaused, lvFeed, lvSent>>

\* handleEvent: statistics or the state of the link, which only the display needs.
LvTick(s) ==
    /\ ~s.est
    /\ LvHear(s, lvClient)
    /\ UNCHANGED <<lvUser, lvRan, lvShown, lvSent, lvFailures>>

LvScheduleReconnect(target) ==
    IF lvClient.attempts >= LvMaxRetries
    THEN /\ lvClient' = [lvClient EXCEPT !.key = LvNoTarget]
         /\ lvStatus' = "disconnected" /\ lvErr' = TRUE
    ELSE /\ lvClient' = [lvClient EXCEPT !.attempts = @ + 1, !.timer = target]
         /\ lvStatus' = "reconnecting"

\* The stream ends, or breaks in a way a new one may not.
LvEnd(s) ==
    /\ LvMayOccur /\ lvFailures' = lvFailures + 1
    /\ lvWire' = lvWire \ {s}
    /\ IF lvClient.key = s.target
       THEN /\ LvScheduleReconnect(s.target)
            /\ lvClient.attempts < LvMaxRetries => lvErr' \in {lvErr, TRUE}
       ELSE /\ lvErr' \in {lvErr, TRUE} /\ UNCHANGED <<lvClient, lvStatus>>
    /\ UNCHANGED <<lvUser, lvRan, lvShown, lvSent>>

\* The server turns the request down for good.
LvFatal(s) ==
    /\ LvMayOccur /\ lvFailures' = lvFailures + 1
    /\ lvWire' = lvWire \ {s}
    /\ lvClient' = [lvClient EXCEPT !.key = LvNoTarget]
    /\ lvStatus' = "disconnected" /\ lvErr' = TRUE
    /\ UNCHANGED <<lvUser, lvRan, lvShown, lvSent>>

LvTimer ==
    /\ lvClient.on /\ lvClient.timer # LvNoTarget
    /\ LET started == LvStartStream([lvClient EXCEPT !.timer = LvNoTarget], lvWire, lvClient.timer)
       IN  lvClient' = started[1] /\ lvWire' = started[2]
    /\ UNCHANGED <<lvUser, lvRan, lvStatus, lvErr, lvShown, lvSent, lvFailures>>

---------------------------------------------------------------------------
(* The effects of the hook and of the session's provider, in their order. *)

\* The connection effect: its cleanup disconnects, its setup connects anew.
LvReopen ==
    LET was == IF lvClient.on THEN LvCancel(lvClient, lvWire) ELSE lvWire
        opened == IF LvTarget.subjects = {} THEN <<LvNewClient, was>>
                  ELSE LvSubscribeTarget(LvNewClient, was, LvTarget)
    IN  /\ lvWire' = IF LvWanted.active THEN opened[2] ELSE was
        /\ lvClient' = IF LvWanted.active THEN opened[1] ELSE LvNoClient
        /\ lvStatus' = IF LvWanted.active THEN "connecting" ELSE "disconnected"
        /\ lvErr' = (lvErr /\ ~LvWanted.active)
        /\ lvPaused' = FALSE

\* The subscription effect, which leaves a client alone once it gave up.
LvResubscribe ==
    LET new == IF ~lvClient.on \/ lvStatus = "disconnected" THEN <<lvClient, lvWire>>
               ELSE IF LvTarget.subjects = {} THEN LvUnsubscribe(lvClient, lvWire)
               ELSE LvSubscribeTarget(lvClient, lvWire, LvTarget)
    IN  lvClient' = new[1] /\ lvWire' = new[2] /\ UNCHANGED <<lvStatus, lvErr, lvPaused>>

\* Mutant: only the first render on a new connection drops the feed.
LvFeedKept == lvFeed

\* The provider drops the feed of the connection that went.
LvFeedAfter == IF lvRan.conn # lvConn THEN <<>> ELSE lvFeed

LvEffects ==
    /\ lvRan # LvWanted /\ lvRan' = LvWanted
    /\ IF <<lvRan.conn, lvRan.active>> # <<lvConn, LvWanted.active>> THEN LvReopen ELSE LvResubscribe
    /\ lvFeed' = LvFeedAfter
    /\ lvDenied' = IF lvRan.target.subjects # LvTarget.subjects THEN {} ELSE lvDenied
    /\ UNCHANGED <<lvUser, lvSent, lvFailures>>

---------------------------------------------------------------------------
(* The page, and its user. *)

\* The page has a feed to show, and its toolbar unless the server refused every subject.
LvHasFeed == lvRun \/ lvFeed # <<>>
LvAllDenied == lvRun /\ lvDraft # {} /\ lvDraft \subseteq lvDenied
LvToolbar == LvHasFeed /\ ~LvAllDenied

\* The subjects counted and not muted; here, those of the feed.
LvChips == {lvFeed[i].subject : i \in DOMAIN lvFeed} \ lvMuted

\* pillState: what the page says of its session.
LvPill ==
    CASE ~lvRun -> IF LvHasFeed THEN "Stopped" ELSE "Not subscribed"
      [] lvRun /\ LvAllDenied -> "No permission"
      [] lvRun /\ ~LvAllDenied /\ lvStatus = "disconnected" /\ lvErr -> "Disconnected"
      [] OTHER -> IF lvStatus # "connected" THEN "Connecting"
                  ELSE IF lvPaused THEN "Paused" ELSE "Live"

lvRest == <<lvRan, lvLink, lvShown, lvSent, lvFailures>>

\* React runs the effects of a render before it renders again, so what the
\* user does finds them run.
LvRendered == lvRan = LvWanted

\* add of the subject bar.
LvAdd(x) ==
    /\ LvRendered /\ x \notin lvDraft /\ lvDraft' = lvDraft \cup {x}
    /\ UNCHANGED <<lvConn, lvRun, lvMuted, lvVisible, lvRest>>

\* remove of the subject bar: nothing left stops the session.
LvRemove(x) ==
    /\ LvRendered /\ x \in lvDraft /\ lvDraft' = lvDraft \ {x}
    /\ lvRun' = (lvRun /\ lvDraft' # {})
    /\ UNCHANGED <<lvConn, lvMuted, lvVisible, lvRest>>

\* start of the subject bar and of the provider.
LvStart ==
    /\ LvRendered /\ ~lvRun /\ lvDraft # {} /\ lvRun' = TRUE
    /\ UNCHANGED <<lvConn, lvDraft, lvMuted, lvVisible, lvRest>>

\* Stop, and leaving the page, which stops the session as well.
LvStop ==
    /\ LvRendered /\ lvRun /\ lvRun' = FALSE
    /\ UNCHANGED <<lvConn, lvDraft, lvMuted, lvVisible, lvRest>>

\* mute: offered beside each subject counted, when there are several.
LvMute(x) ==
    /\ LvRendered /\ LvToolbar /\ x \in LvChips /\ Cardinality(LvChips) > 1
    /\ lvMuted' = lvMuted \cup {x}
    /\ UNCHANGED <<lvConn, lvRun, lvDraft, lvVisible, lvRest>>

LvUnmute(x) ==
    /\ LvRendered /\ LvToolbar /\ x \in lvMuted /\ lvMuted' = lvMuted \ {x}
    /\ UNCHANGED <<lvConn, lvRun, lvDraft, lvVisible, lvRest>>

\* togglePause: resuming replays what waited.
LvTogglePause ==
    /\ LvRendered /\ LvToolbar /\ lvRun /\ lvClient.on /\ lvPaused' = ~lvPaused
    /\ lvClient' = [lvClient EXCEPT !.paused = ~lvPaused, !.held = IF lvPaused THEN {} ELSE @]
    /\ lvFeed' = IF lvPaused THEN LvShow(lvFeed, lvClient.held) ELSE lvFeed
    /\ UNCHANGED <<lvUser, lvRan, lvWire, lvStatus, lvErr, lvDenied, lvSent, lvFailures>>

LvClear ==
    /\ LvRendered /\ LvToolbar /\ lvFeed' = <<>>
    /\ lvClient' = IF lvClient.on THEN [lvClient EXCEPT !.held = {}] ELSE lvClient
    /\ UNCHANGED <<lvUser, lvRan, lvWire, lvStatus, lvErr, lvPaused, lvDenied, lvSent, lvFailures>>

LvVisibility ==
    /\ LvRendered /\ lvVisible' = ~lvVisible
    /\ UNCHANGED <<lvConn, lvRun, lvDraft, lvMuted, lvRest>>

\* Another connection: drafts are reset, and the first render drops session and feed.
LvSwitch(c) ==
    /\ LvRendered /\ c # lvConn /\ lvConn' = c
    /\ lvRun' = FALSE /\ lvDraft' = {} /\ lvMuted' = {}
    /\ lvFeed' = <<>> /\ lvDenied' = {}
    /\ UNCHANGED <<lvVisible, lvRan, lvLink, lvPaused, lvSent, lvFailures>>

LvNext ==
    \/ LvEffects \/ LvTimer
    \/ \E s \in lvWire : LvBatch(s) \/ LvRefused(s) \/ LvTick(s) \/ LvEnd(s) \/ LvFatal(s)
    \/ \E x \in LvSubjects : LvAdd(x) \/ LvRemove(x) \/ LvMute(x) \/ LvUnmute(x)
    \/ LvStart \/ LvStop \/ LvTogglePause \/ LvClear \/ LvVisibility
    \/ \E c \in LvConns : LvSwitch(c)

LvSpec == LvInit /\ [][LvNext]_lvVars

---------------------------------------------------------------------------
LvTypeOK ==
    /\ lvConn \in LvConns /\ lvRun \in BOOLEAN /\ lvVisible \in BOOLEAN
    /\ lvDraft \subseteq LvSubjects /\ lvMuted \subseteq LvSubjects /\ lvDenied \subseteq LvSubjects
    /\ lvStatus \in {"disconnected", "connecting", "connected", "reconnecting"}
    /\ lvErr \in BOOLEAN /\ lvPaused \in BOOLEAN
    /\ Len(lvFeed) <= LvKeep
    /\ lvClient.on =>
         /\ lvClient.attempts <= LvMaxRetries
         /\ (\E m, n \in lvClient.held : m.batch # n.batch) => Cardinality(lvClient.held) <= LvPausedCap

\* There is never more than one stream, and once the effects ran the page says
\* what is so: live or paused with a stream open for what it asks of the shown
\* connection, connecting with such a stream or a timer that will open it,
\* stopped or hidden with none (LiveStreamClient, useLiveSubscription).
LvNeverSilent ==
    /\ Cardinality(lvWire) <= 1
    /\ lvRan = LvWanted =>
         LET asked(s) == s.target = LvTarget /\ s.conn = lvConn /\ lvClient.key = LvTarget
         IN  CASE ~LvWanted.active -> ~lvClient.on /\ lvWire = {}
               [] LvWanted.active /\ LvPill \in {"Live", "Paused"} -> \E s \in lvWire : asked(s)
               [] LvWanted.active /\ LvPill = "Connecting" ->
                    (\E s \in lvWire : asked(s)) \/ lvClient.timer = LvTarget
               [] OTHER -> TRUE

\* Whatever arrived between a render and its effects: once they ran the feed
\* holds messages of the shown connection only, each once, newest first
\* (useLiveSubscription, SubscribeSessionProvider).
LvFeedHonest ==
    /\ \A i, j \in DOMAIN lvFeed : i < j => lvFeed[i].id > lvFeed[j].id
    /\ lvRan = LvWanted => \A i \in DOMAIN lvFeed : lvFeed[i].conn = lvConn
=============================================================================
