---------------------------- MODULE ServerKVWatch ----------------------------
(***************************************************************************)
(* The watch of a bucket on the server (services/live/live/kvwatch.go over *)
(* pkg/natsclient/natsgo/kv.go): a relay takes the changes from the NATS   *)
(* client's watcher, which is external, and a loop sends them in batches   *)
(* and tells when the bucket's stream is offline.  What a browser makes of *)
(* its frames is in KVWatch.                                               *)
(*                                                                         *)
(* A change is its revision.  All of them match the filter.                *)
(***************************************************************************)
EXTENDS Integers, Sequences

CONSTANTS
    SkMaxRev,   \* bound on the revisions of the bucket
    SkBatch,    \* maxBatchSize
    SkMaxFaults \* bound on resets, outages and checks that fail

ASSUME SkAssumption == SkMaxRev \in Nat \ {0} /\ SkBatch \in Nat \ {0} /\ SkMaxFaults \in Nat

VARIABLES
    skLast,    \* the last revision of the bucket
    skDown,    \* the bucket's stream is offline
    skPc,      \* the request: opening, subscribing, starting, loop, checking, or ended
    skStart,   \* the last revision when the watch looked the bucket up
    skFrom,    \* the revision the watcher sends next
    skSeen,    \* the watcher has sent one
    skHand,    \* the change the relay waits to hand to the loop, or 0
    skClosed,  \* the connection dropped the watch: the relay is gone
    skBatch,   \* the changes to send
    skOffline, \* what the loop holds for the state of the stream
    skAnswer,  \* the answer of the check under way
    skTold,    \* the revisions the client was told
    skView,    \* what the frames have told it of the stream
    skFaults

skVars == <<skLast, skDown, skPc, skStart, skFrom, skSeen, skHand, skClosed, skBatch, skOffline, skAnswer, skTold, skView, skFaults>>

SkInit ==
    /\ skLast \in 0..1 /\ skDown = FALSE
    /\ skPc = "opening" /\ skStart = 0 /\ skFrom = 0 /\ skSeen = FALSE /\ skHand = 0 /\ skClosed = FALSE
    /\ skBatch = <<>> /\ skOffline = FALSE /\ skAnswer = "online" /\ skTold = <<>> /\ skView = "none" /\ skFaults = 0

SkFault == skFaults < SkMaxFaults /\ skFaults' = skFaults + 1

---------------------------------------------------------------------------
\* A client of the bucket writes.
SkWrite ==
    /\ skLast < SkMaxRev /\ ~skDown
    /\ skLast' = skLast + 1
    /\ UNCHANGED <<skDown, skPc, skStart, skFrom, skSeen, skHand, skClosed, skBatch, skOffline, skAnswer, skTold, skView, skFaults>>

\* The server of the stream goes down or comes up.
SkOutage ==
    /\ SkFault
    /\ skDown' = ~skDown
    /\ UNCHANGED <<skLast, skPc, skStart, skFrom, skSeen, skHand, skClosed, skBatch, skOffline, skAnswer, skTold, skView>>

\* WatchKV looks the bucket up and keeps its last revision,
SkLookup ==
    /\ skPc = "opening" /\ ~skDown
    /\ skStart' = skLast /\ skPc' = "subscribing"
    /\ UNCHANGED <<skLast, skDown, skFrom, skSeen, skHand, skClosed, skBatch, skOffline, skAnswer, skTold, skView, skFaults>>

\* then opens a watcher, of changes from now on,
SkSubscribe ==
    /\ skPc = "subscribing" /\ ~skDown
    /\ skFrom' = skLast + 1 /\ skPc' = "starting"
    /\ UNCHANGED <<skLast, skDown, skStart, skSeen, skHand, skClosed, skBatch, skOffline, skAnswer, skTold, skView, skFaults>>

\* and the first frame says that the watch runs.
SkStarted ==
    /\ skPc = "starting"
    /\ skPc' = "loop" /\ skView' = "live"
    /\ UNCHANGED <<skLast, skDown, skStart, skFrom, skSeen, skHand, skClosed, skBatch, skOffline, skAnswer, skTold, skFaults>>

---------------------------------------------------------------------------
SkRelays == skPc \in {"starting", "loop", "checking"} /\ ~skClosed

\* nats.go makes the consumer anew: it goes on after the last change it sent,
\* and begins with the history if there was none.
SkReset ==
    /\ SkRelays /\ SkFault
    /\ ~skSeen /\ skFrom' = 1
    /\ UNCHANGED <<skLast, skDown, skPc, skStart, skSeen, skHand, skClosed, skBatch, skOffline, skAnswer, skTold, skView>>

\* Mutant: what the watcher sends is a change, whatever its revision.
SkRelayAll ==
    /\ SkRelays /\ skHand = 0 /\ skFrom <= skLast /\ ~skDown
    /\ skFrom' = skFrom + 1 /\ skSeen' = TRUE
    /\ skHand' = skFrom
    /\ UNCHANGED <<skLast, skDown, skPc, skStart, skClosed, skBatch, skOffline, skAnswer, skTold, skView, skFaults>>

\* relayKVChanges: revisions up to the start are dropped.
SkRelay ==
    /\ SkRelays /\ skHand = 0 /\ skFrom <= skLast /\ ~skDown
    /\ skFrom' = skFrom + 1 /\ skSeen' = TRUE
    /\ skHand' = IF skFrom <= skStart THEN 0 ELSE skFrom
    /\ UNCHANGED <<skLast, skDown, skPc, skStart, skClosed, skBatch, skOffline, skAnswer, skTold, skView, skFaults>>

\* The connection drops the watch; a change in hand is still handed over.
SkClose ==
    /\ SkRelays /\ skHand = 0
    /\ skClosed' = TRUE
    /\ UNCHANGED <<skLast, skDown, skPc, skStart, skFrom, skSeen, skHand, skBatch, skOffline, skAnswer, skTold, skView, skFaults>>

---------------------------------------------------------------------------
\* A frame with the batch; a frame with changes says that the stream is there.
SkSend(batch) == skTold' = skTold \o batch /\ skView' = (IF batch = <<>> THEN skView ELSE "live") /\ skBatch' = <<>>

\* A change joins the batch, which is sent when it is full.
SkChange ==
    /\ skPc = "loop" /\ skHand # 0
    /\ skHand' = 0 /\ skOffline' = FALSE
    /\ LET batch == Append(skBatch, skHand)
       IN  IF Len(batch) >= SkBatch THEN SkSend(batch) ELSE skBatch' = batch /\ UNCHANGED <<skTold, skView>>
    /\ UNCHANGED <<skLast, skDown, skPc, skStart, skFrom, skSeen, skClosed, skAnswer, skFaults>>

SkTick ==
    /\ skPc = "loop" /\ skBatch # <<>>
    /\ SkSend(skBatch)
    /\ UNCHANGED <<skLast, skDown, skPc, skStart, skFrom, skSeen, skHand, skClosed, skOffline, skAnswer, skFaults>>

\* bucketOffline: the server answers, or the check fails for another reason.
\* The loop waits for the answer.
SkCheck ==
    /\ skPc = "loop"
    /\ \/ skAnswer' = (IF skDown THEN "offline" ELSE "online") /\ UNCHANGED skFaults
       \/ skAnswer' = "unknown" /\ SkFault
    /\ skPc' = "checking"
    /\ UNCHANGED <<skLast, skDown, skStart, skFrom, skSeen, skHand, skClosed, skBatch, skOffline, skTold, skView>>

\* Mutant: the news of the stream goes out before the changes that wait.
SkCheckedFirst ==
    /\ skPc = "checking" /\ skPc' = "loop"
    /\ IF skAnswer = "unknown" \/ (skAnswer = "offline") = skOffline
       THEN UNCHANGED <<skOffline, skBatch, skTold, skView>>
       ELSE skOffline' = ~skOffline /\ skView' = (IF skOffline THEN "live" ELSE "offline") /\ UNCHANGED <<skTold, skBatch>>
    /\ UNCHANGED <<skLast, skDown, skStart, skFrom, skSeen, skHand, skClosed, skAnswer, skFaults>>

\* A change of the state is sent after the changes that wait.
SkChecked ==
    /\ skPc = "checking" /\ skPc' = "loop"
    /\ IF skAnswer = "unknown" \/ (skAnswer = "offline") = skOffline
       THEN UNCHANGED <<skOffline, skBatch, skTold, skView>>
       ELSE /\ skOffline' = ~skOffline /\ skView' = (IF skOffline THEN "live" ELSE "offline")
            /\ skTold' = skTold \o skBatch /\ skBatch' = <<>>
    /\ UNCHANGED <<skLast, skDown, skStart, skFrom, skSeen, skHand, skClosed, skAnswer, skFaults>>

\* With the channel closed the rest is sent, and the request fails.
SkEndClosed ==
    /\ skPc = "loop" /\ skClosed /\ skHand = 0
    /\ SkSend(skBatch) /\ skPc' = "closed"
    /\ UNCHANGED <<skLast, skDown, skStart, skFrom, skSeen, skHand, skClosed, skOffline, skAnswer, skFaults>>

\* The client leaves.
SkCancel ==
    /\ skPc \in {"opening", "subscribing", "starting", "loop"}
    /\ skPc' = "left"
    /\ UNCHANGED <<skLast, skDown, skStart, skFrom, skSeen, skHand, skClosed, skBatch, skOffline, skAnswer, skTold, skView, skFaults>>

SkNext ==
    \/ SkWrite \/ SkOutage \/ SkLookup \/ SkSubscribe \/ SkStarted \/ SkReset \/ SkRelay \/ SkClose
    \/ SkChange \/ SkTick \/ SkCheck \/ SkChecked \/ SkEndClosed \/ SkCancel

\* The watch by itself.
SkSpec == SkInit /\ [][SkNext]_skVars

---------------------------------------------------------------------------
SkRevs == 1..SkMaxRev

\* Every variable has its type.
SkTypeOK ==
    /\ skLast \in {0} \cup SkRevs /\ skDown \in BOOLEAN
    /\ skPc \in {"opening", "subscribing", "starting", "loop", "checking", "closed", "left"}
    /\ skStart \in 0..skLast /\ skFrom \in 0..(SkMaxRev + 1) /\ skSeen \in BOOLEAN
    /\ skHand \in {0} \cup SkRevs /\ skClosed \in BOOLEAN
    /\ skBatch \in Seq(SkRevs) /\ Len(skBatch) < SkBatch
    /\ skOffline \in BOOLEAN /\ skAnswer \in {"online", "offline", "unknown"}
    /\ skTold \in Seq(SkRevs) /\ skView \in {"none", "live", "offline"} /\ skFaults \in 0..SkMaxFaults

\* What the client is told, what waits and what the relay holds are changes made
\* after the watch began, each once, in order and with none left out between
\* them, whatever the consumer replays.
SkChangesWhole ==
    LET all == skTold \o skBatch \o (IF skHand = 0 THEN <<>> ELSE <<skHand>>)
    IN  /\ \A i \in DOMAIN all : all[i] > skStart /\ (i > 1 => all[i] = all[i - 1] + 1)
        /\ (skPc = "closed" => all = skTold)
        /\ (all # <<>> => all[Len(all)] = skFrom - 1)

\* With nothing left to send, the client knows the stream as the loop does.
SkViewTrue == (skPc \in {"loop", "checking"} /\ skBatch = <<>>) => (skView = "offline") = skOffline

\* The watch of a bucket is whole: SkChangesWhole and SkViewTrue.
SkWatchTrue == SkChangesWhole /\ SkViewTrue
=============================================================================
