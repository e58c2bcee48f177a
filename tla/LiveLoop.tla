------------------------------ MODULE LiveLoop ------------------------------
(***************************************************************************)
(* The buffer and the event loop of one live session                       *)
(* (internal/services/live/live, loop.go and the handler of subscribe.go). *)
(* Handlers of several subscriptions count a message, reserve its bytes    *)
(* and put it into the channel or give it up; one loop takes messages out, *)
(* limits their rate, decodes and batches them, and hands every event to   *)
(* the client's stream on a goroutine it waits for until a deadline.       *)
(*                                                                         *)
(* The counters are atomics and no lock covers two of them: each access is *)
(* a step of its own, but for a count that follows another at once and is  *)
(* only added to.  Abstracted: the token bucket lets a message pass or     *)
(* not, a decoder is the version of mappings and schemas it was            *)
(* initialised with, a size is a small number, and the tickers may tick at *)
(* any time.                                                               *)
(***************************************************************************)
EXTENDS Integers, FiniteSets, Sequences, Functions

CONSTANTS
    Producers,  \* subscriptions, each with a handler of its own
    Msgs,       \* messages, one for each copy a subscription delivers
    Feed,       \* Feed[p]: the messages p's handler takes, in order, the muted left out
    Size,       \* Size[m]: payload bytes
    ChanCap,    \* messageBufferSize
    MaxBytes,   \* maxBufferedBytes
    MaxBatch,   \* maxBatchSize
    Limited,    \* whether a display rate is set
    MaxDenials, \* capacity of sess.denials, and bound on denials reported
    MaxReloads, \* bound on schema reloads
    MaxFlaps    \* bound on link changes

ASSUME LoopAssumption ==
    /\ Feed \in [Producers -> Seq(Msgs)] /\ Size \in [Msgs -> Nat]
    /\ {ChanCap, MaxBytes, MaxBatch, MaxDenials, MaxReloads, MaxFlaps} \subseteq Nat
    /\ MaxBatch > 0 /\ Limited \in BOOLEAN
    /\ IsFiniteSet(Producers)

ASSUME FeedsApart ==
    \A p, q \in Producers : \A x \in DOMAIN Feed[p], y \in DOMAIN Feed[q] :
        Feed[p][x] = Feed[q][y] => p = q /\ x = y

VARIABLES
    fed,       \* fed[p]: messages p's handler took so far
    stage,     \* stage[p]: "idle", "counted", "reserved" or "refused"
    total,     \* sess.totalMessages
    dropped,   \* sess.messagesDropped
    buffered,  \* sess.bufferedBytes
    chan,      \* msgChan
    denials,   \* length of sess.denials
    reported,  \* denials reported so far
    lost,      \* sess.lost is closed
    left,      \* the caller's context is done
    schema,    \* version of the mappings and schemas in force
    casting,   \* versions put in force whose broadcast is still to come
    announced, \* latest version broadcast
    dirty,     \* sess.decoderDirty
    down,      \* the connection's link is down
    flaps,     \* link changes so far
    linkDown,  \* the loop's linkDown
    warmup,    \* the loop's warmup
    loop,      \* the loop's place
    hand,      \* the message it took, as a sequence of at most one
    decoder,   \* version its decoder was initialised with, 0 when not ready
    batch,     \* the batch: messages with the version they were decoded with
    event,     \* the event it waits for
    after,     \* where it goes once the event is out
    outcome,   \* what its emit returned: "none", "sent" or "failed"
    running,   \* goroutines inside emit
    given,     \* messages handed to emit, in order (history)
    told       \* latest version a reload event has announced to the client

producerVars == <<fed, stage, total, chan>>
reloadVars == <<schema, casting, announced, dirty>>
signalVars == <<denials, reported, lost, left, down, flaps>>
emitVars == <<event, after, outcome, running, given>>
loopVars == <<loop, hand, decoder, batch, linkDown, warmup>>
vars == <<fed, stage, total, dropped, buffered, chan, denials, reported, lost, left,
          schema, casting, announced, dirty, down, flaps, linkDown, warmup, loop, hand,
          decoder, batch, event, after, outcome, running, given, told>>

NoEvent == [kind |-> "none", version |-> 0]

Init ==
    /\ fed = [p \in Producers |-> 0] /\ stage = [p \in Producers |-> "idle"]
    /\ total = 0 /\ dropped = 0 /\ buffered = 0 /\ chan = <<>>
    /\ denials = 0 /\ reported = 0 /\ lost = FALSE /\ left = FALSE
    /\ schema = 1 /\ casting = {} /\ announced = 1 /\ dirty = FALSE
    /\ down = FALSE /\ flaps = 0 /\ linkDown = FALSE /\ warmup = TRUE
    /\ loop = "select" /\ hand = <<>> /\ decoder = 0 /\ batch = <<>>
    /\ event = NoEvent /\ after = "select" /\ outcome = "none" /\ running = 0
    /\ given = <<>> /\ told = 1

-----------------------------------------------------------------------------
\* A handler and its message.

Current(p) == Feed[p][fed[p]]
Step(p, place) == stage' = [stage EXCEPT ![p] = place]

Arrive(p) ==
    /\ stage[p] = "idle" /\ fed[p] < Len(Feed[p])
    /\ fed' = [fed EXCEPT ![p] = @ + 1]
    /\ total' = total + 1
    /\ Step(p, "counted")
    /\ UNCHANGED <<chan, dropped, buffered, signalVars, reloadVars, loopVars, emitVars, told>>

\* Mutant: the count is compared before the message is added to it.
ReserveLate(p) ==
    /\ stage[p] = "counted"
    /\ buffered' = buffered + Size[Current(p)]
    /\ Step(p, IF buffered > MaxBytes THEN "refused" ELSE "reserved")
    /\ UNCHANGED <<fed, total, chan, dropped, signalVars, reloadVars, loopVars, emitVars, told>>

Reserve(p) ==
    /\ stage[p] = "counted"
    /\ buffered' = buffered + Size[Current(p)]
    /\ Step(p, IF buffered' > MaxBytes THEN "refused" ELSE "reserved")
    /\ UNCHANGED <<fed, total, chan, dropped, signalVars, reloadVars, loopVars, emitVars, told>>

\* The channel takes it, or is full.
Put(p) ==
    /\ stage[p] = "reserved"
    /\ IF Len(chan) < ChanCap
       THEN chan' = Append(chan, Current(p)) /\ Step(p, "idle")
       ELSE Step(p, "refused") /\ UNCHANGED chan
    /\ UNCHANGED <<fed, total, dropped, buffered, signalVars, reloadVars, loopVars, emitVars, told>>

\* Mutant: a message given up keeps its bytes.
GiveUpKeeping(p) ==
    /\ stage[p] = "refused"
    /\ dropped' = dropped + 1
    /\ Step(p, "idle")
    /\ UNCHANGED <<fed, total, chan, buffered, signalVars, reloadVars, loopVars, emitVars, told>>

\* The bytes go back; the message counts as dropped.
GiveUp(p) ==
    /\ stage[p] = "refused"
    /\ buffered' = buffered - Size[Current(p)]
    /\ dropped' = dropped + 1
    /\ Step(p, "idle")
    /\ UNCHANGED <<fed, total, chan, signalVars, reloadVars, loopVars, emitVars, told>>

-----------------------------------------------------------------------------
\* What others do to the session.

\* reportDenied: a full channel drops the report.
ReportDenied ==
    /\ reported < MaxDenials + 1
    /\ reported' = reported + 1
    /\ denials' = IF denials < MaxDenials THEN denials + 1 ELSE denials
    /\ UNCHANGED <<producerVars, dropped, buffered, lost, left, down, flaps, reloadVars,
                   loopVars, emitVars, told>>

MarkLost ==
    /\ ~lost /\ lost' = TRUE
    /\ UNCHANGED <<producerVars, dropped, buffered, denials, reported, left, down, flaps,
                   reloadVars, loopVars, emitVars, told>>

CallerLeaves ==
    /\ ~left /\ left' = TRUE
    /\ UNCHANGED <<producerVars, dropped, buffered, denials, reported, lost, down, flaps,
                   reloadVars, loopVars, emitVars, told>>

LinkChanges ==
    /\ flaps < MaxFlaps
    /\ down' = ~down /\ flaps' = flaps + 1
    /\ UNCHANGED <<producerVars, dropped, buffered, denials, reported, lost, left,
                   reloadVars, loopVars, emitVars, told>>

\* A mapping or a schema changes; then the change is broadcast.
Change ==
    /\ schema <= MaxReloads
    /\ schema' = schema + 1
    /\ casting' = casting \cup {schema'}
    /\ UNCHANGED <<producerVars, dropped, buffered, signalVars, announced, dirty,
                   loopVars, emitVars, told>>

BroadcastProtoReload(v) ==
    /\ v \in casting
    /\ casting' = casting \ {v}
    /\ announced' = IF v > announced THEN v ELSE announced
    /\ dirty' = TRUE
    /\ UNCHANGED <<producerVars, dropped, buffered, signalVars, schema, loopVars, emitVars, told>>

-----------------------------------------------------------------------------
\* emitWithDeadline, called from the loop.

\* The loop starts a goroutine for ev and waits; it goes on at next.
Emit(ev, next) ==
    /\ event' = ev /\ after' = next /\ outcome' = "none"
    /\ running' = running + 1
    /\ loop' = "emitting"

\* flush: nothing to do for an empty batch.
Flush(b, next) ==
    IF b = <<>>
    THEN loop' = next /\ batch' = b /\ UNCHANGED emitVars
    ELSE /\ Emit([kind |-> "batch", version |-> 0], next)
         /\ batch' = <<>>
         /\ given' = given \o b

\* The stream takes the event or fails, whether or not the loop still waits.
Send ==
    /\ running > 0
    /\ running' = running - 1
    /\ outcome' = "sent"
    /\ told' = IF event.kind = "reload" THEN event.version ELSE told
    /\ UNCHANGED <<producerVars, dropped, buffered, signalVars, reloadVars, loopVars,
                   event, after, given>>

SendFails ==
    /\ running > 0
    /\ running' = running - 1
    /\ outcome' = "failed"
    /\ UNCHANGED <<producerVars, dropped, buffered, signalVars, reloadVars, loopVars,
                   event, after, given, told>>

\* emit returned: the loop goes on, or ends with its error.
Resume ==
    /\ loop = "emitting" /\ outcome # "none"
    /\ loop' = IF outcome = "sent" THEN after ELSE "ended"
    /\ event' = NoEvent /\ outcome' = "none"
    /\ UNCHANGED <<producerVars, dropped, buffered, signalVars, reloadVars, hand, decoder,
                   batch, linkDown, warmup, after, running, given, told>>

\* Mutant: a stalled emit does not end the session.
StallGoesOn ==
    /\ loop = "emitting"
    /\ loop' = after
    /\ UNCHANGED <<producerVars, dropped, buffered, signalVars, reloadVars, hand, decoder,
                   batch, linkDown, warmup, emitVars, told>>

\* emitStallTimeout passes: ErrLiveConsumerStalled.
Stall ==
    /\ loop = "emitting"
    /\ loop' = "ended"
    /\ UNCHANGED <<producerVars, dropped, buffered, signalVars, reloadVars, hand, decoder,
                   batch, linkDown, warmup, emitVars, told>>

-----------------------------------------------------------------------------
\* The cases of runLoop's select.

LoopRest == UNCHANGED <<producerVars, reported, lost, left, down, flaps, schema, casting, announced, told>>

\* Mutant: only the caller's context ends the loop.
LeaveOnlyDone ==
    /\ loop = "select" /\ left
    /\ Flush(batch, "ended")
    /\ UNCHANGED <<dropped, buffered, denials, dirty, hand, decoder, linkDown, warmup>>
    /\ LoopRest

\* Done or lost: a last flush, then the end whatever emit says.
Leave ==
    /\ loop = "select" /\ (left \/ lost)
    /\ Flush(batch, "ended")
    /\ UNCHANGED <<dropped, buffered, denials, dirty, hand, decoder, linkDown, warmup>>
    /\ LoopRest

EmitDenied ==
    /\ loop = "select" /\ denials > 0
    /\ denials' = denials - 1
    /\ Emit([kind |-> "error", version |-> 0], "select")
    /\ UNCHANGED <<dropped, buffered, dirty, hand, decoder, batch, linkDown, warmup, given>>
    /\ LoopRest

\* Mutant: the client is told, the decoder stays as it was.
ResetDecoderKeeping(next) ==
    /\ dirty' = FALSE
    /\ Emit([kind |-> "reload", version |-> announced], next)
    /\ UNCHANGED <<decoder, given>>

\* resetDecoderIfDirty, when it is: takes the flag, then tells the client.
ResetDecoder(next) ==
    /\ dirty' = FALSE
    /\ decoder' = 0
    /\ Emit([kind |-> "reload", version |-> announced], next)
    /\ UNCHANGED given

\* Mutant: only a message looks at the flag.
StatsTickBlind ==
    /\ loop = "select"
    /\ loop' = "stats"
    /\ UNCHANGED <<dropped, buffered, denials, dirty, hand, decoder, batch, linkDown, warmup, emitVars>>
    /\ LoopRest

StatsTick ==
    /\ loop = "select"
    /\ IF dirty
       THEN ResetDecoder("stats")
       ELSE loop' = "stats" /\ UNCHANGED <<dirty, decoder, emitVars>>
    /\ UNCHANGED <<dropped, buffered, denials, hand, batch, linkDown, warmup>>
    /\ LoopRest

\* The first tick only takes the base of the rate.
EmitStats ==
    /\ loop = "stats"
    /\ IF warmup
       THEN warmup' = FALSE /\ loop' = "select" /\ UNCHANGED <<event, after, outcome, running>>
       ELSE Emit([kind |-> "stats", version |-> 0], "select") /\ UNCHANGED warmup
    /\ UNCHANGED <<dropped, buffered, denials, dirty, hand, decoder, batch, linkDown, given>>
    /\ LoopRest

BatchTick ==
    /\ loop = "select"
    /\ Flush(batch, "link")
    /\ UNCHANGED <<dropped, buffered, denials, dirty, hand, decoder, linkDown, warmup>>
    /\ LoopRest

\* The connection's state, when it changed since the last look.
EmitLink ==
    /\ loop = "link"
    /\ linkDown' = down
    /\ IF down # linkDown
       THEN Emit([kind |-> "connection", version |-> 0], "select")
       ELSE loop' = "select" /\ UNCHANGED <<event, after, outcome, running>>
    /\ UNCHANGED <<dropped, buffered, denials, dirty, hand, decoder, batch, warmup, given>>
    /\ LoopRest

\* A message leaves the channel; its bytes are given back after that.
Take ==
    /\ loop = "select" /\ chan # <<>>
    /\ hand' = <<Head(chan)>> /\ chan' = Tail(chan)
    /\ loop' = "taken"
    /\ UNCHANGED <<fed, stage, total, dropped, buffered, signalVars, reloadVars, decoder, batch,
                   linkDown, warmup, emitVars, told>>

\* Mutant: a message the rate limit drops is not counted.
ReleaseUncounted ==
    /\ loop = "taken"
    /\ buffered' = buffered - Size[hand[1]]
    /\ \/ loop' = "reset" /\ UNCHANGED hand
       \/ Limited /\ hand' = <<>> /\ loop' = "select"
    /\ UNCHANGED <<dropped, denials, dirty, decoder, batch, linkDown, warmup, emitVars>>
    /\ LoopRest

\* The rate limit may drop the message.
Release ==
    /\ loop = "taken"
    /\ buffered' = buffered - Size[hand[1]]
    /\ \/ loop' = "reset" /\ UNCHANGED <<dropped, hand>>
       \/ Limited /\ dropped' = dropped + 1 /\ hand' = <<>> /\ loop' = "select"
    /\ UNCHANGED <<denials, dirty, decoder, batch, linkDown, warmup, emitVars>>
    /\ LoopRest

ResetForMessage ==
    /\ loop = "reset"
    /\ IF dirty
       THEN ResetDecoder("decode")
       ELSE loop' = "decode" /\ UNCHANGED <<dirty, decoder, emitVars>>
    /\ UNCHANGED <<dropped, buffered, denials, hand, batch, linkDown, warmup>>
    /\ LoopRest

\* Mutant: a full batch is handed out and kept.
DecodeKeeping ==
    /\ loop = "decode"
    /\ decoder' = IF decoder = 0 THEN schema ELSE decoder
    /\ hand' = <<>>
    /\ LET b == Append(batch, [msg |-> hand[1], version |-> decoder']) IN
        /\ batch' = b
        /\ IF Len(b) >= MaxBatch
           THEN Emit([kind |-> "batch", version |-> 0], "select") /\ given' = given \o b
           ELSE loop' = "select" /\ UNCHANGED emitVars
    /\ UNCHANGED <<dropped, buffered, denials, dirty, linkDown, warmup>>
    /\ LoopRest

\* Initialises the decoder if need be, decodes, and flushes a full batch.
Decode ==
    /\ loop = "decode"
    /\ decoder' = IF decoder = 0 THEN schema ELSE decoder
    /\ hand' = <<>>
    /\ LET b == Append(batch, [msg |-> hand[1], version |-> decoder']) IN
        IF Len(b) >= MaxBatch
        THEN Flush(b, "select")
        ELSE batch' = b /\ loop' = "select" /\ UNCHANGED emitVars
    /\ UNCHANGED <<dropped, buffered, denials, dirty, linkDown, warmup>>
    /\ LoopRest

-----------------------------------------------------------------------------
\* Subscribe returned and every goroutine it started did.
Done ==
    /\ loop = "ended" /\ running = 0 /\ casting = {}
    /\ \A p \in Producers : stage[p] = "idle" /\ fed[p] = Len(Feed[p])
    /\ UNCHANGED vars

Handler(p) == Arrive(p) \/ Reserve(p) \/ Put(p) \/ GiveUp(p)

Signals ==
    \/ ReportDenied \/ MarkLost \/ CallerLeaves \/ LinkChanges \/ Change
    \/ \E v \in casting : BroadcastProtoReload(v)

Select == Leave \/ EmitDenied \/ StatsTick \/ BatchTick \/ Take
Inside == EmitStats \/ EmitLink \/ Release \/ ResetForMessage \/ Decode
Emitting == Send \/ SendFails \/ Resume \/ Stall

Next == (\E p \in Producers : Handler(p)) \/ Signals \/ Select \/ Inside \/ Emitting \/ Done

Spec == Init /\ [][Next]_vars

\* The goroutines run, an emit returns or its deadline passes, and the select
\* of Go picks at random among the cases that are ready.
Fairness ==
    /\ \A p \in Producers : WF_vars(Handler(p))
    /\ \A v \in 1 .. MaxReloads + 1 : WF_vars(BroadcastProtoReload(v))
    /\ WF_vars(Inside) /\ WF_vars(Resume \/ Stall)
    /\ SF_vars(Leave) /\ SF_vars(StatsTick) /\ SF_vars(BatchTick) /\ SF_vars(Take)

FairSpec == Spec /\ Fairness

-----------------------------------------------------------------------------
\* A byte is named by its message and its place in it.
Bytes(ms) == UNION {{m} \X (1 .. Size[m]) : m \in ms}

\* The messages whose bytes are counted.
Reserved == {p \in Producers : stage[p] \in {"reserved", "refused"}}
Held == Range(chan) \cup {m \in Range(hand) : loop = "taken"} \cup {Current(p) : p \in Reserved}

\* What was put into the channel and not dropped since, the oldest first.
Path == [i \in DOMAIN (given \o batch) |-> (given \o batch)[i].msg] \o hand \o chan

\* The values the variables range over.
TypeOK ==
    /\ \A p \in Producers : fed[p] \in 0 .. Len(Feed[p])
    /\ stage \in [Producers -> {"idle", "counted", "reserved", "refused"}]
    /\ total \in Nat /\ dropped \in 0 .. total /\ buffered \in Nat
    /\ chan \in Seq(Msgs) /\ Len(chan) <= ChanCap
    /\ denials \in 0 .. MaxDenials /\ reported \in 0 .. MaxDenials + 1
    /\ {lost, left, dirty, down, linkDown, warmup, Limited} \subseteq BOOLEAN
    /\ schema \in 1 .. MaxReloads + 1 /\ casting \subseteq 1 .. schema
    /\ announced \in 1 .. schema /\ told \in 1 .. schema
    /\ flaps \in 0 .. MaxFlaps
    /\ loop \in {"select", "stats", "link", "taken", "reset", "decode", "emitting", "ended"}
    /\ hand \in Seq(Msgs) /\ Len(hand) <= 1
    /\ decoder \in 0 .. schema
    /\ \A b \in Range(batch) \cup Range(given) : b.msg \in Msgs /\ b.version \in 1 .. schema
    /\ Len(batch) < MaxBatch
    /\ event.kind \in {"none", "batch", "reload", "stats", "error", "connection"}
    /\ after \in {"select", "stats", "link", "decode", "ended"}
    /\ outcome \in {"none", "sent", "failed"}
    /\ running \in Nat

\* However the handlers and the loop interleave, the channel never holds more
\* bytes than the cap, and no byte stays counted for a message that is gone.
BytesWithinCap ==
    /\ Cardinality(Bytes(Range(chan))) <= MaxBytes
    /\ buffered = Cardinality(Bytes(Held))

\* The counts the client sees are honest: a message that was counted is on
\* its way, handed to the stream, or counted as dropped.
Accounted ==
    total = dropped + Cardinality({p \in Producers : stage[p] # "idle"})
            + Len(chan) + Len(hand) + Len(batch) + Len(given)

\* What one subscription delivers keeps its order and is not repeated, from
\* the channel to the stream.
InOrder ==
    \A p \in Producers, i, j \in DOMAIN Path :
        \A x, y \in DOMAIN Feed[p] :
            i < j /\ Path[i] = Feed[p][x] /\ Path[j] = Feed[p][y] => x < y

\* doc.go: "each re-inits its proto decoder before the next message": a
\* session whose flag is clear decodes with nothing older than what the last
\* broadcast announced.
DecodesFresh == ~dirty /\ decoder # 0 => decoder >= announced

\* Two sends never run on the client's stream at once, stalled ones included.
OneSend == running <= 1

\* A session whose connection is lost ends, whatever else keeps it busy.
LostEnds == lost ~> loop = "ended"

\* Every reload reaches the client of a session that goes on, by the next
\* tick if no message comes.
ReloadTold == \A v \in 1 .. MaxReloads + 1 : announced = v ~> told >= v \/ loop = "ended"
=============================================================================
