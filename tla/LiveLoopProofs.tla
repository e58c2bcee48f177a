--------------------------- MODULE LiveLoopProofs ---------------------------
(***************************************************************************)
(* What a live session keeps, for every number of subscriptions, messages, *)
(* sizes and reloads.  The argument follows a message: its handler alone   *)
(* has it until it is in the channel, then it is at one place of the path  *)
(* that leads from the channel over the loop's hand and the batch to the   *)
(* stream, and its bytes are counted from its reservation to the moment    *)
(* the loop has it in its hand.                                            *)
(***************************************************************************)
EXTENDS LiveLoop, SequenceTheorems, FiniteSetTheorems, TLAPS

Decoded == [msg : Msgs, version : 1 .. MaxReloads + 1]

\* The types, by what changes them.  A handler past its arrival has a message.
HandlersTyped ==
    /\ fed \in [Producers -> Nat]
    /\ stage \in [Producers -> {"idle", "counted", "reserved", "refused"}]
    /\ \A p \in Producers : fed[p] <= Len(Feed[p])
    /\ \A p \in Producers : stage[p] # "idle" => fed[p] > 0

CountersTyped ==
    /\ total \in Nat /\ dropped \in Nat /\ buffered \in Int
    /\ denials \in 0 .. MaxDenials /\ reported \in 0 .. MaxDenials + 1
    /\ flaps \in 0 .. MaxFlaps

FlagsTyped == {lost, left, dirty, down, linkDown, warmup, Limited} \subseteq BOOLEAN

\* No version is of the future: a reload event tells of one that was announced.
VersionsTyped ==
    /\ schema \in 1 .. MaxReloads + 1 /\ casting \subseteq 1 .. schema
    /\ announced \in 1 .. schema /\ told \in 1 .. schema
    /\ decoder \in 0 .. schema
    /\ event.kind = "reload" => event.version \in 1 .. schema

LoopTyped ==
    /\ loop \in {"select", "stats", "link", "taken", "reset", "decode", "emitting", "ended"}
    /\ event \in [kind : {"none", "batch", "reload", "stats", "error", "connection"}, version : Nat]
    /\ after \in {"select", "stats", "link", "decode", "ended"}
    /\ outcome \in {"none", "sent", "failed"}

QueuesTyped ==
    /\ chan \in Seq(Msgs) /\ Len(chan) <= ChanCap
    /\ hand \in Seq(Msgs) /\ Len(hand) <= 1
    /\ batch \in Seq(Decoded) /\ Len(batch) < MaxBatch
    /\ given \in Seq(Decoded)

\* One goroutine at most is inside emit: the loop waits for it, or has ended.
\* The loop has a message in its hand from the channel to the batch.
LoopInv ==
    /\ running \in 0 .. 1
    /\ loop \notin {"emitting", "ended"} => running = 0
    /\ loop = "emitting" => (outcome = "none" <=> running = 1)
    /\ loop \in {"select", "stats", "link"} => hand = <<>>
    /\ loop = "emitting" /\ after \in {"select", "stats", "link"} => hand = <<>>
    /\ loop \in {"taken", "reset", "decode"} => Len(hand) = 1
    /\ loop = "emitting" /\ after = "decode" => Len(hand) = 1

LEMMA Limits ==
    /\ ChanCap \in Nat /\ MaxBytes \in Nat /\ MaxBatch \in Nat /\ MaxBatch > 0
    /\ MaxDenials \in Nat /\ MaxReloads \in Nat /\ MaxFlaps \in Nat
    /\ Feed \in [Producers -> Seq(Msgs)] /\ Size \in [Msgs -> Nat]
BY LoopAssumption DEF LoopAssumption

LEMMA EmptyQueue == \A q : q = <<>> => \A S : q \in Seq(S) /\ Len(q) = 0
OBVIOUS

-----------------------------------------------------------------------------
\* Who changes what.
LEMMA HandlersChange ==
    ASSUME [Next]_vars
    PROVE  UNCHANGED <<fed, stage, total>> \/ \E p \in Producers : Handler(p)
BY DEF Next, Signals, Select, Inside, Emitting, Done, vars, producerVars, LoopRest,
       ReportDenied, MarkLost, CallerLeaves, LinkChanges, Change, BroadcastProtoReload,
       Leave, EmitDenied, StatsTick, BatchTick, Take, EmitStats, EmitLink, Release,
       ResetForMessage, Decode, Send, SendFails, Resume, Stall

LEMMA QueuesChange ==
    ASSUME [Next]_vars
    PROVE  \/ UNCHANGED <<chan, hand, batch, given>>
           \/ \E p \in Producers : Put(p)
           \/ Leave \/ BatchTick \/ Take \/ Release \/ Decode
BY DEF Next, Handler, Signals, Select, Inside, Emitting, Done, vars, producerVars, loopVars, emitVars,
       LoopRest, Arrive, Reserve, GiveUp,
       ReportDenied, MarkLost, CallerLeaves, LinkChanges, Change, BroadcastProtoReload,
       EmitDenied, StatsTick, EmitStats, EmitLink, ResetForMessage, ResetDecoder, Emit,
       Send, SendFails, Resume, Stall

LEMMA LoopChange ==
    ASSUME [Next]_vars
    PROVE  UNCHANGED <<loop, hand, event, after, outcome, running>> \/ Select \/ Inside \/ Emitting
BY DEF Next, Handler, Signals, Done, vars, loopVars, emitVars, Arrive, Reserve, Put, GiveUp,
       ReportDenied, MarkLost, CallerLeaves, LinkChanges, Change, BroadcastProtoReload

LEMMA VersionsChange ==
    ASSUME [Next]_vars
    PROVE  \/ UNCHANGED <<schema, casting, announced, told, decoder, dirty>>
           \/ Change \/ (\E v \in casting : BroadcastProtoReload(v)) \/ Send
           \/ StatsTick \/ ResetForMessage \/ Decode
BY DEF Next, Handler, Signals, Select, Inside, Emitting, Done, vars, reloadVars, loopVars, LoopRest,
       Arrive, Reserve, Put, GiveUp, ReportDenied, MarkLost, CallerLeaves, LinkChanges,
       Leave, EmitDenied, BatchTick, Take, EmitStats, EmitLink, Release, SendFails, Resume, Stall

-----------------------------------------------------------------------------
TypeInv == HandlersTyped /\ CountersTyped /\ FlagsTyped /\ VersionsTyped /\ LoopTyped /\ QueuesTyped

LEMMA CurrentIsMsg ==
    ASSUME HandlersTyped, NEW p \in Producers, stage[p] # "idle"
    PROVE  fed[p] \in DOMAIN Feed[p] /\ Current(p) \in Msgs
<1>1. fed[p] \in 1 .. Len(Feed[p]) /\ Feed[p] \in Seq(Msgs)
  BY Limits DEF HandlersTyped
<1> QED BY <1>1 DEF Current

LEMMA HandlersStep == HandlersTyped /\ [Next]_vars => HandlersTyped'
<1> SUFFICES ASSUME HandlersTyped, [Next]_vars PROVE HandlersTyped'
  OBVIOUS
<1> USE DEF HandlersTyped, Step
<1>1. CASE UNCHANGED <<fed, stage, total>>
  BY <1>1
<1>2. ASSUME NEW p \in Producers, Arrive(p) PROVE HandlersTyped'
  <2>1. Len(Feed[p]) \in Nat
    BY Limits
  <2> QED BY <1>2, <2>1 DEF Arrive
<1>3. ASSUME NEW p \in Producers, Reserve(p) PROVE HandlersTyped'
  BY <1>3 DEF Reserve
<1>4. ASSUME NEW p \in Producers, Put(p) PROVE HandlersTyped'
  BY <1>4 DEF Put
<1>5. ASSUME NEW p \in Producers, GiveUp(p) PROVE HandlersTyped'
  BY <1>5 DEF GiveUp
<1> QED BY <1>1, <1>2, <1>3, <1>4, <1>5, HandlersChange DEF Handler

LEMMA QueuesStep ==
    HandlersTyped /\ VersionsTyped /\ QueuesTyped /\ LoopInv /\ [Next]_vars => QueuesTyped'
<1> SUFFICES ASSUME HandlersTyped, VersionsTyped, QueuesTyped, LoopInv, [Next]_vars PROVE QueuesTyped'
  OBVIOUS
<1>0. <<>> \in Seq(Msgs) /\ <<>> \in Seq(Decoded) /\ Len(<<>>) = 0 /\ 0 < MaxBatch
  BY EmptyQueue, Limits
<1>1. CASE UNCHANGED <<chan, hand, batch, given>>
  BY <1>1 DEF QueuesTyped
<1>2. ASSUME NEW p \in Producers, Put(p) PROVE QueuesTyped'
  <2>1. Current(p) \in Msgs
    BY <1>2, CurrentIsMsg DEF Put
  <2>2. UNCHANGED <<hand, batch, given>> /\ (chan' = chan \/ (Len(chan) < ChanCap /\ chan' = Append(chan, Current(p))))
    BY <1>2 DEF Put, loopVars, emitVars
  <2>3. chan \in Seq(Msgs) /\ Len(chan) <= ChanCap
    BY DEF QueuesTyped
  <2>4. chan' \in Seq(Msgs) /\ Len(chan') <= ChanCap
    <3>1. ChanCap \in Nat
      BY Limits
    <3>2. CASE chan' = chan
      BY <2>3, <3>2
    <3>3. CASE Len(chan) < ChanCap /\ chan' = Append(chan, Current(p))
      <4>1. Append(chan, Current(p)) \in Seq(Msgs) /\ Len(Append(chan, Current(p))) = Len(chan) + 1
        BY <2>1, <2>3, AppendProperties
      <4>2. Len(chan) \in Nat
        BY <2>3
      <4> QED BY <3>1, <3>3, <4>1, <4>2
    <3> QED BY <2>2, <3>2, <3>3
  <2> QED BY <2>2, <2>4 DEF QueuesTyped
\* What is handed out is the batch, which is empty then.
<1>3. ASSUME NEW b \in Seq(Decoded), NEW next, Flush(b, next), Len(b) < MaxBatch \/ b # <<>>
      PROVE  batch' \in Seq(Decoded) /\ Len(batch') < MaxBatch /\ given' \in Seq(Decoded)
  <2>1. CASE b = <<>>
    <3>1. batch' = b /\ given' = given
      BY <1>3, <2>1 DEF Flush, emitVars
    <3> QED BY <1>0, <1>3, <2>1, <3>1 DEF QueuesTyped
  <2>2. CASE b # <<>>
    <3>1. batch' = <<>> /\ given' = given \o b
      BY <1>3, <2>2 DEF Flush
    <3> QED BY <1>0, <1>3, <3>1 DEF QueuesTyped
  <2> QED BY <2>1, <2>2
<1>4. CASE Leave \/ BatchTick
  <2>1. /\ chan' = chan /\ hand' = hand
        /\ \E next : Flush(batch, next)
    BY <1>4 DEF Leave, BatchTick, LoopRest, producerVars
  <2> QED BY <1>3, <2>1 DEF QueuesTyped
<1>5. CASE Take
  <2>1. chan \in Seq(Msgs) /\ chan # <<>> /\ Head(chan) \in Msgs /\ Tail(chan) \in Seq(Msgs)
        /\ Len(Tail(chan)) <= ChanCap
    BY <1>5, Limits DEF Take, QueuesTyped
  <2>2. <<Head(chan)>> \in Seq(Msgs) /\ Len(<<Head(chan)>>) = 1
    BY <2>1
  <2> QED BY <1>5, <2>1, <2>2 DEF Take, QueuesTyped, emitVars
<1>6. CASE Release
  <2>1. UNCHANGED <<chan, batch, given>> /\ (hand' = hand \/ hand' = <<>>)
    BY <1>6 DEF Release, LoopRest, producerVars, emitVars
  <2>2. hand' \in Seq(Msgs) /\ Len(hand') <= 1
    BY <2>1, EmptyQueue DEF QueuesTyped
  <2> QED BY <2>1, <2>2 DEF QueuesTyped
<1>7. CASE Decode
  <2> DEFINE b == Append(batch, [msg |-> hand[1], version |-> decoder'])
  <2>1. hand[1] \in Msgs
    <3>1. hand \in Seq(Msgs) /\ Len(hand) = 1
      BY <1>7 DEF Decode, LoopInv, QueuesTyped
    <3> QED BY <3>1
  <2>2. decoder' \in 1 .. MaxReloads + 1
    BY <1>7, Limits DEF Decode, VersionsTyped
  <2>3. [msg |-> hand[1], version |-> decoder'] \in Decoded
    BY <2>1, <2>2 DEF Decoded
  <2>4. b \in Seq(Decoded) /\ b # <<>>
    BY <2>3 DEF QueuesTyped
  <2>5. chan' = chan /\ hand' = <<>>
    BY <1>7 DEF Decode, LoopRest, producerVars
  <2>6. \/ Flush(b, "select")
        \/ Len(b) < MaxBatch /\ batch' = b /\ given' = given
    <3>1. Len(b) \in Nat /\ MaxBatch \in Nat
      BY <2>4, Limits
    <3>2. IF Len(b) >= MaxBatch THEN Flush(b, "select") ELSE batch' = b /\ UNCHANGED emitVars
      BY <1>7 DEF Decode
    <3> HIDE DEF b
    <3> QED BY <3>1, <3>2 DEF emitVars
  <2> HIDE DEF b
  <2>7. batch' \in Seq(Decoded) /\ Len(batch') < MaxBatch /\ given' \in Seq(Decoded)
    BY <1>3, <2>4, <2>6 DEF QueuesTyped
  <2> QED BY <1>0, <2>5, <2>7 DEF QueuesTyped
<1> QED BY <1>1, <1>2, <1>4, <1>5, <1>6, <1>7, QueuesChange

LEMMA VersionsStep == VersionsTyped /\ LoopTyped /\ [Next]_vars => VersionsTyped'
<1> SUFFICES ASSUME VersionsTyped, LoopTyped, [Next]_vars PROVE VersionsTyped'
  OBVIOUS
<1>1. /\ schema' \in 1 .. MaxReloads + 1 /\ casting' \subseteq 1 .. schema' /\ announced' \in 1 .. schema'
      /\ told' \in 1 .. schema' /\ decoder' \in 0 .. schema' /\ schema \in Nat /\ schema <= schema'
  <2>1. CASE UNCHANGED <<schema, casting, announced, told, decoder, dirty>>
    BY <2>1 DEF VersionsTyped
  <2>2. CASE Change
    BY <2>2, Limits DEF VersionsTyped, Change, loopVars
  <2>3. ASSUME NEW v \in casting, BroadcastProtoReload(v)
        PROVE  /\ UNCHANGED <<schema, told, decoder>> /\ casting' \subseteq casting
               /\ announced' \in {v, announced}
    BY <2>3 DEF BroadcastProtoReload, loopVars
  <2>4. CASE Send
    BY <2>4 DEF VersionsTyped, Send, reloadVars, loopVars
  <2>5. ASSUME StatsTick \/ ResetForMessage
        PROVE  UNCHANGED <<schema, casting, announced, told>> /\ decoder' \in {0, decoder}
    BY <2>5 DEF StatsTick, ResetForMessage, ResetDecoder, LoopRest
  <2>6. ASSUME Decode
        PROVE  UNCHANGED <<schema, casting, announced, told>> /\ decoder' \in {schema, decoder}
    BY <2>6 DEF Decode, LoopRest
  <2>7. CASE UNCHANGED <<schema, told, decoder>> /\ casting' \subseteq casting
             /\ announced' \in casting \cup {announced}
    BY <2>7 DEF VersionsTyped
  <2>8. CASE UNCHANGED <<schema, casting, announced, told>> /\ decoder' \in {0, schema, decoder}
    BY <2>8 DEF VersionsTyped
  <2> QED BY <2>1, <2>2, <2>3, <2>4, <2>5, <2>6, <2>7, <2>8, VersionsChange
<1>2. ASSUME event'.kind = "reload" PROVE event'.version \in 1 .. schema'
  <2>1. CASE event' = event
    BY <1>1, <1>2, <2>1 DEF VersionsTyped
  <2>2. CASE event' = [kind |-> "reload", version |-> announced]
    BY <1>1, <2>2 DEF VersionsTyped
  <2>3. CASE event' # event /\ event' # [kind |-> "reload", version |-> announced]
    <3>1. \A ev, next : Emit(ev, next) => event' = ev
      BY DEF Emit
    <3>2. \A b, next : Flush(b, next) => event' = event \/ event'.kind = "batch"
      BY <3>1 DEF Flush, emitVars
    <3>3. ASSUME Select PROVE event'.kind # "reload"
      BY <2>3, <3>1, <3>2, <3>3 DEF Select, Leave, EmitDenied, StatsTick, BatchTick, Take, ResetDecoder, emitVars
    <3>4. ASSUME Inside PROVE event'.kind # "reload"
      BY <2>3, <3>1, <3>2, <3>4 DEF Inside, EmitStats, EmitLink, Release, ResetForMessage, ResetDecoder, Decode, emitVars
    <3>5. ASSUME Emitting PROVE event'.kind # "reload"
      BY <2>3, <3>5 DEF Emitting, Send, SendFails, Resume, Stall, NoEvent, emitVars
    <3>6. event'.kind # "reload"
      BY <2>3, <3>3, <3>4, <3>5, LoopChange
    <3> QED BY <1>2, <3>6
  <2> QED BY <2>1, <2>2, <2>3
<1> QED BY <1>1, <1>2 DEF VersionsTyped

LEMMA CountersStep == HandlersTyped /\ QueuesTyped /\ LoopInv /\ CountersTyped /\ [Next]_vars => CountersTyped'
<1> SUFFICES ASSUME HandlersTyped, QueuesTyped, LoopInv, CountersTyped, [Next]_vars PROVE CountersTyped'
  OBVIOUS
<1>1. total' \in {total, total + 1}
  BY HandlersChange DEF Handler, Arrive, Reserve, Put, GiveUp
<1>2. ASSUME NEW p \in Producers, Reserve(p) \/ GiveUp(p)
      PROVE  dropped' \in {dropped, dropped + 1} /\ buffered' \in Int
  <2>1. Size[Current(p)] \in Nat
    BY <1>2, CurrentIsMsg, Limits DEF Reserve, GiveUp
  <2> QED BY <1>2, <2>1 DEF Reserve, GiveUp, CountersTyped
<1>3. CASE Release
  <2>1. hand \in Seq(Msgs) /\ Len(hand) = 1
    BY <1>3 DEF Release, LoopInv, QueuesTyped
  <2>2. Size[hand[1]] \in Nat
    <3>1. hand[1] \in Msgs
      BY <2>1
    <3> QED BY <3>1, Limits
  <2>3. dropped' \in {dropped, dropped + 1} /\ buffered' = buffered - Size[hand[1]]
    BY <1>3 DEF Release
  <2>4. dropped' \in {dropped, dropped + 1} /\ buffered' \in Int
    BY <2>2, <2>3 DEF CountersTyped
  <2> QED BY <1>1, <1>3, <2>4 DEF Release, CountersTyped, LoopRest
<1>4. CASE ~Release
  <2>1. dropped' \in {dropped, dropped + 1} /\ buffered' \in Int
    <3>1. (dropped' = dropped /\ buffered' = buffered) \/ \E p \in Producers : Reserve(p) \/ GiveUp(p)
      BY <1>4 DEF Next, Handler, Signals, Select, Inside, Emitting, Done, vars, Arrive, Put,
         ReportDenied, MarkLost, CallerLeaves, LinkChanges, Change, BroadcastProtoReload,
         Leave, EmitDenied, StatsTick, BatchTick, Take, EmitStats, EmitLink,
         ResetForMessage, Decode, Send, SendFails, Resume, Stall
    <3> QED BY <1>2, <3>1 DEF CountersTyped
  <2>2. denials' \in 0 .. MaxDenials /\ reported' \in 0 .. MaxDenials + 1 /\ flaps' \in 0 .. MaxFlaps
    <3>1. CASE UNCHANGED <<denials, reported, flaps>>
      BY <3>1 DEF CountersTyped
    <3>2. CASE ReportDenied
      BY <3>2, Limits DEF ReportDenied, CountersTyped
    <3>3. CASE LinkChanges
      BY <3>3, Limits DEF LinkChanges, CountersTyped
    <3>4. CASE EmitDenied
      BY <3>4, Limits DEF EmitDenied, LoopRest, CountersTyped
    <3> QED
      BY <1>4, <3>1, <3>2, <3>3, <3>4 DEF Next, Handler, Signals, Select, Inside, Emitting, Done, vars,
         signalVars, LoopRest, Arrive, Reserve, Put, GiveUp, MarkLost, CallerLeaves, Change,
         BroadcastProtoReload, Leave, StatsTick, BatchTick, Take, EmitStats, EmitLink,
         ResetForMessage, Decode, Send, SendFails, Resume, Stall
  <2> QED BY <1>1, <2>1, <2>2 DEF CountersTyped
<1> QED BY <1>3, <1>4

LEMMA FlagsStep == FlagsTyped /\ [Next]_vars => FlagsTyped'
<1> SUFFICES ASSUME FlagsTyped, [Next]_vars PROVE FlagsTyped'
  OBVIOUS
<1>0. Limited \in BOOLEAN /\ lost \in BOOLEAN /\ left \in BOOLEAN /\ dirty \in BOOLEAN
      /\ down \in BOOLEAN /\ linkDown \in BOOLEAN /\ warmup \in BOOLEAN
  BY DEF FlagsTyped
<1>1. lost' \in BOOLEAN /\ left' \in BOOLEAN /\ down' \in BOOLEAN
  <2>1. UNCHANGED <<lost, left, down>> \/ MarkLost \/ CallerLeaves \/ LinkChanges
    BY DEF Next, Handler, Signals, Select, Inside, Emitting, Done, vars, signalVars, LoopRest, Arrive,
       Reserve, Put, GiveUp, ReportDenied, Change, BroadcastProtoReload, Leave, EmitDenied, StatsTick,
       BatchTick, Take, EmitStats, EmitLink, Release, ResetForMessage, Decode, Send, SendFails, Resume, Stall
  <2> QED BY <1>0, <2>1 DEF MarkLost, CallerLeaves, LinkChanges
<1>2. dirty' \in BOOLEAN
  BY <1>0, VersionsChange DEF Change, BroadcastProtoReload, Send, reloadVars, StatsTick, ResetForMessage,
     ResetDecoder, Decode
<1>3. linkDown' \in BOOLEAN /\ warmup' \in BOOLEAN
  <2>1. UNCHANGED <<linkDown, warmup>> \/ EmitLink \/ EmitStats
    BY DEF Next, Handler, Signals, Select, Inside, Emitting, Done, vars, loopVars, Arrive, Reserve,
       Put, GiveUp, ReportDenied, MarkLost, CallerLeaves, LinkChanges, Change, BroadcastProtoReload, Leave,
       EmitDenied, StatsTick, BatchTick, Take, Release, ResetForMessage, Decode, Send, SendFails, Resume, Stall
  <2> QED BY <1>0, <2>1 DEF EmitLink, EmitStats
<1> QED BY <1>0, <1>1, <1>2, <1>3 DEF FlagsTyped

\* What an emit sets, and what a flush does to the loop.
LEMMA EmitSets ==
    ASSUME NEW ev, NEW next, Emit(ev, next)
    PROVE  /\ event' = ev /\ after' = next /\ outcome' = "none" /\ running' = running + 1
           /\ loop' = "emitting"
BY DEF Emit

LEMMA FlushSets ==
    ASSUME NEW b, NEW next, Flush(b, next)
    PROVE  \/ /\ loop' = next /\ UNCHANGED <<event, after, outcome, running, given>>
              /\ b = <<>> /\ batch' = b
           \/ /\ event' = [kind |-> "batch", version |-> 0] /\ after' = next /\ outcome' = "none"
              /\ running' = running + 1 /\ loop' = "emitting"
              /\ batch' = <<>> /\ given' = given \o b
BY EmitSets DEF Flush, emitVars

\* The steps of the loop: it stays, goes on in silence, starts an emit, or one ends.
LEMMA LoopMoves ==
    ASSUME [Next]_vars, LoopTyped
    PROVE  \/ UNCHANGED <<loop, hand, event, after, outcome, running>>
           \/ /\ loop = "select" /\ UNCHANGED <<event, after, outcome, running, hand>>
              /\ loop' \in {"ended", "stats", "link"}
           \/ /\ loop = "select" /\ loop' = "taken" /\ UNCHANGED <<event, after, outcome, running>>
              /\ Len(hand') = 1
           \/ /\ loop \in {"stats", "link"} /\ loop' = "select"
              /\ UNCHANGED <<event, after, outcome, running, hand>>
           \/ /\ loop = "taken" /\ UNCHANGED <<event, after, outcome, running>>
              /\ (loop' = "reset" /\ hand' = hand) \/ (loop' = "select" /\ hand' = <<>>)
           \/ /\ loop = "reset" /\ loop' = "decode" /\ UNCHANGED <<event, after, outcome, running, hand>>
           \/ /\ loop = "decode" /\ loop' = "select" /\ hand' = <<>>
              /\ UNCHANGED <<event, after, outcome, running>>
           \/ /\ loop \in {"select", "stats", "link", "reset", "decode"} /\ loop' = "emitting"
              /\ running' = running + 1 /\ outcome' = "none"
              /\ loop \in {"select", "stats", "link"} =>
                    hand' = hand /\ after' \in {"select", "stats", "link", "ended"}
              /\ loop = "reset" => hand' = hand /\ after' = "decode"
              /\ loop = "decode" => hand' = <<>> /\ after' = "select"
              /\ \/ event' \in [kind : {"batch", "stats", "error", "connection"}, version : {0}]
                 \/ event' = [kind |-> "reload", version |-> announced]
           \/ /\ running > 0 /\ running' = running - 1 /\ outcome' \in {"sent", "failed"}
              /\ UNCHANGED <<loop, hand, event, after>>
           \/ /\ loop = "emitting" /\ outcome # "none" /\ loop' \in {after, "ended"}
              /\ event' = NoEvent /\ outcome' = "none" /\ UNCHANGED <<hand, after, running>>
           \/ /\ loop = "emitting" /\ loop' = "ended" /\ UNCHANGED <<hand, event, after, outcome, running>>
<1>1. CASE Leave \/ BatchTick
  <2>1. /\ loop = "select" /\ hand' = hand
        /\ \E next \in {"ended", "link"} : Flush(batch, next)
    BY <1>1 DEF Leave, BatchTick
  <2> QED BY <2>1, FlushSets
<1>2. CASE EmitDenied
  BY <1>2, EmitSets DEF EmitDenied
<1>3. CASE StatsTick
  BY <1>3, EmitSets DEF StatsTick, ResetDecoder, emitVars
<1>4. CASE Take
  BY <1>4 DEF Take, emitVars
<1>5. CASE EmitStats
  BY <1>5, EmitSets DEF EmitStats
<1>6. CASE EmitLink
  BY <1>6, EmitSets DEF EmitLink
<1>7. CASE Release
  BY <1>7 DEF Release, emitVars
<1>8. CASE ResetForMessage
  BY <1>8, EmitSets DEF ResetForMessage, ResetDecoder, emitVars
<1>9. CASE Decode
  <2>1. /\ loop = "decode" /\ hand' = <<>>
        /\ \/ \E b : Flush(b, "select")
           \/ loop' = "select" /\ UNCHANGED <<event, after, outcome, running>>
    BY <1>9 DEF Decode, emitVars
  <2> QED BY <2>1, FlushSets
<1>10. CASE Send \/ SendFails
  BY <1>10 DEF Send, SendFails, loopVars
<1>11. CASE Resume
  BY <1>11 DEF Resume
<1>12. CASE Stall
  BY <1>12 DEF Stall, emitVars
<1> QED
  BY <1>1, <1>2, <1>3, <1>4, <1>5, <1>6, <1>7, <1>8, <1>9, <1>10, <1>11, <1>12, LoopChange
     DEF Select, Inside, Emitting

LEMMA LoopTypedStep == VersionsTyped /\ LoopTyped /\ [Next]_vars => LoopTyped'
<1> SUFFICES ASSUME VersionsTyped, LoopTyped, [Next]_vars PROVE LoopTyped'
  OBVIOUS
<1>1. loop' \in {"select", "stats", "link", "taken", "reset", "decode", "emitting", "ended"}
      /\ after' \in {"select", "stats", "link", "decode", "ended"} /\ outcome' \in {"none", "sent", "failed"}
  BY LoopMoves DEF LoopTyped
<1>2. event' \in [kind : {"none", "batch", "reload", "stats", "error", "connection"}, version : Nat]
  <2>1. announced \in Nat
    BY DEF VersionsTyped
  <2>2. CASE event' \in [kind : {"batch", "stats", "error", "connection"}, version : {0}]
    BY <2>2
  <2> QED BY <2>1, <2>2, LoopMoves DEF LoopTyped, NoEvent
<1> QED BY <1>1, <1>2 DEF LoopTyped

LEMMA LoopInvStep == LoopTyped /\ LoopInv /\ [Next]_vars => LoopInv'
<1> SUFFICES ASSUME LoopTyped, LoopInv, [Next]_vars PROVE LoopInv'
  OBVIOUS
<1>1. /\ running' \in 0 .. 1
      /\ loop' \notin {"emitting", "ended"} => running' = 0
      /\ loop' = "emitting" => (outcome' = "none" <=> running' = 1)
  BY LoopMoves DEF LoopTyped, LoopInv
<1>2. /\ loop' \in {"select", "stats", "link"} => hand' = <<>>
      /\ loop' = "emitting" /\ after' \in {"select", "stats", "link"} => hand' = <<>>
  BY LoopMoves DEF LoopTyped, LoopInv
<1>3. /\ loop' \in {"taken", "reset", "decode"} => Len(hand') = 1
      /\ loop' = "emitting" /\ after' = "decode" => Len(hand') = 1
  BY LoopMoves DEF LoopTyped, LoopInv
<1> QED BY <1>1, <1>2, <1>3 DEF LoopInv

LEMMA TypeInvInit == Init => TypeInv /\ LoopInv
<1> SUFFICES ASSUME Init PROVE TypeInv /\ LoopInv
  OBVIOUS
<1>1. HandlersTyped
  <2>1. \A p \in Producers : Len(Feed[p]) \in Nat
    BY Limits
  <2> QED BY <2>1 DEF Init, HandlersTyped
<1>2. CountersTyped
  BY Limits DEF Init, CountersTyped
<1>3. FlagsTyped
  <2>1. Limited \in BOOLEAN
    BY LoopAssumption DEF LoopAssumption
  <2> QED BY <2>1 DEF Init, FlagsTyped
<1>4. VersionsTyped
  <2>1. schema = 1 /\ casting = {} /\ announced = 1 /\ told = 1 /\ decoder = 0 /\ event.kind = "none"
    BY DEF Init, NoEvent
  <2> QED BY <2>1, Limits DEF VersionsTyped
<1>5. LoopTyped
  BY DEF Init, LoopTyped, NoEvent
<1>6. QueuesTyped
  <2>1. chan = <<>> /\ hand = <<>> /\ batch = <<>> /\ given = <<>>
    BY DEF Init
  <2> QED BY <2>1, EmptyQueue, Limits DEF QueuesTyped
<1>7. LoopInv
  BY DEF Init, LoopInv
<1> QED BY <1>1, <1>2, <1>3, <1>4, <1>5, <1>6, <1>7 DEF TypeInv

LEMMA TypeInvStep == TypeInv /\ LoopInv /\ [Next]_vars => (TypeInv /\ LoopInv)'
BY HandlersStep, QueuesStep, VersionsStep, CountersStep, FlagsStep, LoopTypedStep, LoopInvStep DEF TypeInv

LEMMA TypeInvHolds == Spec => [](TypeInv /\ LoopInv)
BY TypeInvInit, TypeInvStep, PTL DEF Spec

\* No two goroutines send on the client's stream at once (loop.go
\* emitWithDeadline): one that stalled ends the loop, which starts no other.
THEOREM OneSendAtATime == Spec => []OneSend
<1>1. LoopInv => OneSend
  BY DEF LoopInv, OneSend
<1> QED BY <1>1, TypeInvHolds, PTL

-----------------------------------------------------------------------------
\* A clear flag means that the decoder knows what was announced, or none.
LEMMA FreshStep == TypeInv /\ DecodesFresh /\ [Next]_vars => DecodesFresh'
<1> SUFFICES ASSUME TypeInv, DecodesFresh, [Next]_vars, ~dirty', decoder' # 0 PROVE decoder' >= announced'
  BY DEF DecodesFresh
<1>0. announced \in Nat /\ schema \in Nat /\ announced <= schema /\ decoder \in Nat
  BY DEF TypeInv, VersionsTyped
<1>1. ASSUME UNCHANGED <<announced, decoder, dirty>> PROVE decoder' >= announced'
  BY <1>1 DEF DecodesFresh
<1>2. CASE Change \/ Send
  BY <1>1, <1>2 DEF Change, Send, reloadVars, loopVars
<1>3. ASSUME NEW v \in casting, BroadcastProtoReload(v) PROVE FALSE
  BY <1>3 DEF BroadcastProtoReload
<1>4. CASE StatsTick \/ ResetForMessage
  <2>1. announced' = announced /\ (decoder' = 0 \/ UNCHANGED <<dirty, decoder>>)
    BY <1>4 DEF StatsTick, ResetForMessage, ResetDecoder, LoopRest
  <2> QED BY <1>1, <2>1
<1>5. CASE Decode
  <2>1. UNCHANGED <<announced, dirty>> /\ decoder' = IF decoder = 0 THEN schema ELSE decoder
    BY <1>5 DEF Decode, LoopRest
  <2> QED BY <1>0, <1>1, <2>1
<1> QED BY <1>1, <1>2, <1>3, <1>4, <1>5, VersionsChange

\* A session whose flag is clear decodes with nothing older than what was last
\* broadcast (loop.go resetDecoderIfDirty): the flag is taken before the client
\* is told, and a decoder is made anew from what is in force.
THEOREM DecodesAreFresh == Spec => []DecodesFresh
<1>1. Init => DecodesFresh
  BY DEF Init, DecodesFresh
<1>2. TypeInv /\ DecodesFresh /\ [Next]_vars => DecodesFresh'
  BY FreshStep
<1> QED BY <1>1, <1>2, TypeInvHolds, PTL DEF Spec

-----------------------------------------------------------------------------
\* The path of the messages, by its places.
Out == given \o batch

LEMMA OutTyped == ASSUME QueuesTyped PROVE Out \in Seq(Decoded) /\ Len(Out) = Len(given) + Len(batch)
BY ConcatProperties DEF QueuesTyped, Out

LEMMA PathPlaces ==
    ASSUME QueuesTyped
    PROVE  /\ Path \in Seq(Msgs)
           /\ Len(Path) = Len(Out) + Len(hand) + Len(chan)
           /\ \A i \in 1 .. Len(Path) :
                Path[i] = IF i <= Len(Out) THEN Out[i].msg
                          ELSE IF i <= Len(Out) + Len(hand) THEN hand[i - Len(Out)]
                          ELSE chan[i - Len(Out) - Len(hand)]
<1> DEFINE out == [i \in DOMAIN Out |-> Out[i].msg]
<1>1. Out \in Seq(Decoded) /\ hand \in Seq(Msgs) /\ chan \in Seq(Msgs)
  BY OutTyped DEF QueuesTyped
<1>2. out \in Seq(Msgs) /\ Len(out) = Len(Out) /\ \A i \in 1 .. Len(Out) : out[i] = Out[i].msg
  <2>1. DOMAIN Out = 1 .. Len(Out) /\ Len(Out) \in Nat
    BY <1>1
  <2>2. ASSUME NEW i \in 1 .. Len(Out) PROVE Out[i].msg \in Msgs
    <3>1. Out[i] \in Decoded
      BY <1>1, ElementOfSeq
    <3> QED BY <3>1 DEF Decoded
  <2>3. out \in [1 .. Len(Out) -> Msgs]
    BY <2>1, <2>2
  <2>4. out \in Seq(Msgs)
    BY <2>1, <2>3, SeqDef
  <2>5. Len(out) = Len(Out)
    BY <2>1, <2>3, <2>4, LenProperties
  <2> QED BY <2>1, <2>4, <2>5
<1>3. Path = out \o hand \o chan
  BY DEF Path, Out
<1> HIDE DEF out
<1>4. /\ out \o hand \in Seq(Msgs) /\ Len(out \o hand) = Len(out) + Len(hand)
      /\ \A i \in 1 .. Len(out) + Len(hand) :
            (out \o hand)[i] = IF i <= Len(out) THEN out[i] ELSE hand[i - Len(out)]
  <2>1. out \in Seq(Msgs) /\ hand \in Seq(Msgs)
    BY <1>1, <1>2
  <2> QED BY <2>1, ConcatProperties, Zenon
<1>5. /\ Path \in Seq(Msgs) /\ Len(Path) = Len(out \o hand) + Len(chan)
      /\ \A i \in 1 .. Len(Path) :
            Path[i] = IF i <= Len(out \o hand) THEN (out \o hand)[i] ELSE chan[i - Len(out \o hand)]
  BY <1>1, <1>3, <1>4, ConcatProperties
<1>6. Len(out) \in Nat /\ Len(hand) \in Nat /\ Len(chan) \in Nat
  BY <1>1, <1>2
<1>7. Len(Path) = Len(Out) + Len(hand) + Len(chan)
  BY <1>2, <1>4, <1>5
<1>8. ASSUME NEW i \in 1 .. Len(Path)
      PROVE  Path[i] = IF i <= Len(Out) THEN Out[i].msg
                       ELSE IF i <= Len(Out) + Len(hand) THEN hand[i - Len(Out)]
                       ELSE chan[i - Len(Out) - Len(hand)]
  <2>0. /\ i \in Nat /\ 1 <= i /\ i <= Len(Path) /\ Len(out) = Len(Out)
        /\ Path[i] = IF i <= Len(out \o hand) THEN (out \o hand)[i] ELSE chan[i - Len(out \o hand)]
    BY <1>2, <1>5, <1>6, <1>7
  <2>1. CASE i <= Len(Out)
    <3>1. i \in 1 .. Len(out) + Len(hand) /\ i \in 1 .. Len(Out)
      BY <1>6, <2>0, <2>1
    <3>2. Path[i] = (out \o hand)[i]
      BY <1>4, <1>6, <2>0, <2>1
    <3> QED BY <1>2, <1>4, <2>0, <2>1, <3>1, <3>2
  <2>2. CASE Len(Out) < i /\ i <= Len(Out) + Len(hand)
    <3>1. i \in 1 .. Len(out) + Len(hand) /\ ~(i <= Len(out))
      BY <1>6, <2>0, <2>2
    <3>2. Path[i] = (out \o hand)[i]
      BY <1>4, <1>6, <2>0, <2>2
    <3> QED BY <1>4, <2>0, <2>2, <3>1, <3>2
  <2>3. CASE Len(Out) + Len(hand) < i
    <3>1. ~(i <= Len(Out)) /\ ~(i <= Len(Out) + Len(hand))
          /\ i - Len(Out) - Len(hand) = i - (Len(Out) + Len(hand))
      BY <1>6, <2>0, <2>3
    <3>2. Len(out \o hand) = Len(Out) + Len(hand)
      BY <1>4, <2>0
    <3>3. Path[i] = chan[i - (Len(Out) + Len(hand))]
      BY <2>0, <3>1, <3>2, Zenon
    <3> QED BY <3>1, <3>3, Zenon
  <2> QED BY <1>2, <1>6, <2>1, <2>2, <2>3
<1> QED BY <1>5, <1>7, <1>8

\* The same of the path after a step.
Placed ==
    /\ Path \in Seq(Msgs) /\ Out \in Seq(Decoded)
    /\ Len(Out) \in Nat /\ Len(hand) \in Nat /\ Len(chan) \in Nat /\ Len(Path) \in Nat
    /\ Len(Path) = Len(Out) + Len(hand) + Len(chan)
    /\ \A i \in 1 .. Len(Path) :
         Path[i] = IF i <= Len(Out) THEN Out[i].msg
                   ELSE IF i <= Len(Out) + Len(hand) THEN hand[i - Len(Out)]
                   ELSE chan[i - Len(Out) - Len(hand)]

LEMMA PathPlaced == QueuesTyped => Placed
<1> SUFFICES ASSUME QueuesTyped PROVE Placed
  OBVIOUS
<1>1. /\ Path \in Seq(Msgs) /\ Out \in Seq(Decoded) /\ hand \in Seq(Msgs) /\ chan \in Seq(Msgs)
  BY PathPlaces, OutTyped DEF QueuesTyped
<1>2. Len(Out) \in Nat /\ Len(hand) \in Nat /\ Len(chan) \in Nat /\ Len(Path) \in Nat
  BY <1>1
<1> QED BY <1>1, <1>2, PathPlaces DEF Placed

LEMMA PathPlacedNext == QueuesTyped' => Placed'
BY PathPlaced, PTL

LEMMA SamePlaces ==
    ASSUME Placed, Placed', Len(Path') = Len(Path), \A i \in 1 .. Len(Path) : Path'[i] = Path[i]
    PROVE  Path' = Path
<1>1. Path \in Seq(Msgs) /\ Path' \in Seq(Msgs)
  BY DEF Placed
<1> QED BY <1>1, SeqEqual

\* What the steps do to the path: nothing, but for the message put into the
\* channel and the one the rate limit drops.
LEMMA FlushKeepsPath ==
    ASSUME QueuesTyped, NEW b \in Seq(Decoded), NEW next, Flush(b, next)
    PROVE  Out' = given \o b
<1>1. CASE b = <<>>
  BY <1>1 DEF Flush, emitVars, Out
<1>2. CASE b # <<>>
  <2>1. given' = given \o b /\ batch' = <<>>
    BY <1>2 DEF Flush
  <2>2. given \o b \in Seq(Decoded)
    BY ConcatProperties DEF QueuesTyped
  <2> QED BY <2>1, <2>2, ConcatEmptySeq DEF Out
<1> QED BY <1>1, <1>2

LEMMA TakeKeepsPath == ASSUME QueuesTyped, QueuesTyped', LoopInv, Take PROVE Path' = Path
<1>1. Placed /\ Placed'
  BY PathPlaced, PathPlacedNext
<1>2. /\ hand = <<>> /\ hand' = <<Head(chan)>> /\ chan' = Tail(chan) /\ chan # <<>> /\ Out' = Out
      /\ chan \in Seq(Msgs)
  BY DEF Take, emitVars, Out, LoopInv, QueuesTyped
<1>3. Len(hand) = 0 /\ Len(hand') = 1 /\ hand'[1] = chan[1] /\ Len(chan) > 0
  BY <1>2
<1>4. Len(chan') = Len(chan) - 1 /\ \A i \in 1 .. Len(chan') : chan'[i] = chan[i + 1]
  BY <1>2, HeadTailProperties
<1>5. Len(Path') = Len(Path)
  BY <1>1, <1>2, <1>3, <1>4 DEF Placed
<1>6. ASSUME NEW i \in 1 .. Len(Path) PROVE Path'[i] = Path[i]
  <2>0. Len(Out) \in Nat /\ Len(chan) \in Nat /\ Len(Path) = Len(Out) + Len(chan)
    BY <1>1, <1>3 DEF Placed
  <2>1. /\ Path[i] = IF i <= Len(Out) THEN Out[i].msg ELSE chan[i - Len(Out)]
    <3>1. Path[i] = IF i <= Len(Out) THEN Out[i].msg
                    ELSE IF i <= Len(Out) + 0 THEN hand[i - Len(Out)] ELSE chan[i - Len(Out) - 0]
      BY <1>1, <1>3 DEF Placed
    <3> QED BY <2>0, <3>1
  <2>2. /\ Path'[i] = IF i <= Len(Out) THEN Out[i].msg
                      ELSE IF i <= Len(Out) + 1 THEN hand'[i - Len(Out)] ELSE chan'[i - Len(Out) - 1]
    BY <1>1, <1>2, <1>3, <1>5 DEF Placed
  <2>3. CASE i <= Len(Out)
    BY <2>1, <2>2, <2>3
  <2>4. CASE i = Len(Out) + 1
    BY <1>3, <2>0, <2>1, <2>2, <2>4
  <2>5. CASE i > Len(Out) + 1
    <3>1. i - Len(Out) - 1 \in 1 .. Len(chan') /\ i - Len(Out) - 1 + 1 = i - Len(Out)
      BY <1>4, <2>0, <2>5
    <3>2. chan'[i - Len(Out) - 1] = chan[i - Len(Out)]
      BY <1>4, <3>1
    <3> QED BY <2>0, <2>1, <2>2, <2>5, <3>2
  <2> QED BY <2>0, <2>3, <2>4, <2>5
<1> QED BY <1>1, <1>5, <1>6, SamePlaces

LEMMA DecodeExtendsOut ==
    ASSUME QueuesTyped, VersionsTyped, LoopInv, Decode
    PROVE  \E r \in Decoded : r.msg = hand[1] /\ r.version = decoder' /\ Out' = Append(Out, r)
<1> DEFINE r == [msg |-> hand[1], version |-> decoder']
<1>2. /\ hand \in Seq(Msgs) /\ Len(hand) = 1
      /\ given \in Seq(Decoded) /\ batch \in Seq(Decoded)
  BY DEF Decode, LoopInv, QueuesTyped
<1>3. r \in Decoded
  <2>1. hand[1] \in Msgs
    BY <1>2
  <2>2. decoder' \in 1 .. MaxReloads + 1
    BY Limits DEF Decode, VersionsTyped
  <2> QED BY <2>1, <2>2 DEF Decoded
<1>4. r.msg = hand[1] /\ r.version = decoder'
  OBVIOUS
<1>5. Out' = given \o Append(batch, r)
  <2>1. Append(batch, r) \in Seq(Decoded)
    BY <1>2, <1>3, AppendProperties
  <2>2. Flush(Append(batch, r), "select") \/ (batch' = Append(batch, r) /\ given' = given)
    BY DEF Decode, emitVars
  <2> HIDE DEF r
  <2> QED BY <2>1, <2>2, FlushKeepsPath DEF Out
<1> HIDE DEF r
<1>6. Out' = Append(Out, r)
  <2>1. Append(batch, r) = batch \o <<r>> /\ Append(given \o batch, r) = (given \o batch) \o <<r>>
    BY <1>2, <1>3, AppendIsConcat, ConcatProperties
  <2>2. <<r>> \in Seq(Decoded)
    BY <1>3
  <2>3. given \o (batch \o <<r>>) = (given \o batch) \o <<r>>
    BY <1>2, <2>2, ConcatAssociative
  <2> QED BY <1>5, <2>1, <2>3 DEF Out
<1> QED BY <1>3, <1>4, <1>6

LEMMA DecodeKeepsPath ==
    ASSUME QueuesTyped, QueuesTyped', VersionsTyped, LoopInv, Decode
    PROVE  Path' = Path
<1>1. Placed /\ Placed'
  BY PathPlaced, PathPlacedNext
<1>2. /\ hand \in Seq(Msgs) /\ Len(hand) = 1 /\ hand' = <<>> /\ chan' = chan
  BY DEF Decode, LoopRest, producerVars, LoopInv, QueuesTyped
<1>3. PICK r \in Decoded : r.msg = hand[1] /\ Out' = Append(Out, r)
  BY DecodeExtendsOut
<1>4. r.msg = hand[1]
  BY <1>3
<1>6. Out' = Append(Out, r)
  BY <1>3
<1>7. Len(Out') = Len(Out) + 1 /\ Out'[Len(Out) + 1] = r /\ \A i \in 1 .. Len(Out) : Out'[i] = Out[i]
  <2>1. Out \in Seq(Decoded)
    BY <1>1 DEF Placed
  <2> QED BY <1>3, <1>6, <2>1, AppendProperties
<1>8. Len(hand') = 0
  BY <1>2
<1>9. Len(Path') = Len(Path)
  BY <1>1, <1>2, <1>7, <1>8 DEF Placed
<1>10. ASSUME NEW i \in 1 .. Len(Path) PROVE Path'[i] = Path[i]
  <2>0. Len(Out) \in Nat /\ Len(chan) \in Nat /\ Len(Path) = Len(Out) + 1 + Len(chan)
    BY <1>1, <1>2 DEF Placed
  <2>1. Path[i] = IF i <= Len(Out) THEN Out[i].msg
                  ELSE IF i <= Len(Out) + 1 THEN hand[i - Len(Out)] ELSE chan[i - Len(Out) - 1]
    BY <1>1, <1>2 DEF Placed
  <2>2. Path'[i] = IF i <= Len(Out) + 1 THEN Out'[i].msg ELSE chan[i - (Len(Out) + 1)]
    <3>1. Path'[i] = IF i <= Len(Out') THEN Out'[i].msg
                     ELSE IF i <= Len(Out') + 0 THEN hand'[i - Len(Out')] ELSE chan'[i - Len(Out') - 0]
      BY <1>1, <1>8, <1>9 DEF Placed
    <3> QED BY <1>2, <1>7, <2>0, <3>1
  <2>3. CASE i <= Len(Out)
    <3>1. i \in 1 .. Len(Out) /\ i <= Len(Out) + 1
      BY <2>0, <2>3
    <3> QED BY <1>7, <2>1, <2>2, <2>3, <3>1
  <2>4. CASE i = Len(Out) + 1
    <3>1. ~(i <= Len(Out)) /\ i <= Len(Out) + 1 /\ i - Len(Out) = 1
      BY <2>0, <2>4
    <3> QED BY <1>4, <1>7, <2>1, <2>2, <2>4, <3>1
  <2>5. CASE i > Len(Out) + 1
    <3>1. ~(i <= Len(Out)) /\ ~(i <= Len(Out) + 1) /\ i - Len(Out) - 1 = i - (Len(Out) + 1)
      BY <2>0, <2>5
    <3> QED BY <2>1, <2>2, <3>1
  <2> QED BY <2>0, <2>3, <2>4, <2>5
<1> QED BY <1>1, <1>9, <1>10, SamePlaces

LEMMA PutExtendsPath ==
    ASSUME HandlersTyped, QueuesTyped, QueuesTyped', NEW p \in Producers, Put(p), chan' # chan
    PROVE  Len(Path') = Len(Path) + 1 /\ Path'[Len(Path) + 1] = Current(p)
           /\ \A i \in 1 .. Len(Path) : Path'[i] = Path[i]
<1>1. Placed /\ Placed'
  BY PathPlaced, PathPlacedNext
<1>2. chan \in Seq(Msgs) /\ Current(p) \in Msgs
  BY CurrentIsMsg DEF Put, QueuesTyped
<1>3. chan' = Append(chan, Current(p)) /\ UNCHANGED <<hand, batch, given>>
  BY DEF Put, loopVars, emitVars
<1>4. Out' = Out
  BY <1>3 DEF Out
<1>5. Len(chan') = Len(chan) + 1 /\ chan'[Len(chan) + 1] = Current(p)
      /\ \A i \in 1 .. Len(chan) : chan'[i] = chan[i]
  BY <1>2, <1>3, AppendProperties
<1> DEFINE n == Len(Out) + Len(hand)
<1>6. /\ n \in Nat /\ Len(chan) \in Nat /\ Len(Out) \in Nat /\ Len(hand) \in Nat
      /\ Len(Path) = n + Len(chan) /\ Len(Path') = n + Len(chan) + 1
  BY <1>1, <1>3, <1>4, <1>5 DEF Placed
<1>7. \A i \in 1 .. Len(Path) : Path[i] = IF i <= Len(Out) THEN Out[i].msg
                                         ELSE IF i <= n THEN hand[i - Len(Out)]
                                         ELSE chan[i - Len(Out) - Len(hand)]
  BY <1>1 DEF Placed
<1>8. \A i \in 1 .. Len(Path') : Path'[i] = IF i <= Len(Out) THEN Out[i].msg
                                           ELSE IF i <= n THEN hand[i - Len(Out)]
                                           ELSE chan'[i - Len(Out) - Len(hand)]
  BY <1>1, <1>3, <1>4 DEF Placed
<1>9. Path'[Len(Path) + 1] = Current(p)
  <2>1. /\ Len(Path) + 1 \in 1 .. Len(Path') /\ ~(Len(Path) + 1 <= n) /\ ~(Len(Path) + 1 <= Len(Out))
        /\ Len(Path) + 1 - Len(Out) - Len(hand) = Len(chan) + 1
    BY <1>6
  <2> QED BY <1>5, <1>8, <2>1
<1>10. ASSUME NEW i \in 1 .. Len(Path) PROVE Path'[i] = Path[i]
  <2>1. i \in 1 .. Len(Path') /\ (~(i <= n) => i - Len(Out) - Len(hand) \in 1 .. Len(chan))
    BY <1>6
  <2> HIDE DEF n
  <2> QED BY <1>5, <1>7, <1>8, <2>1
<1> QED BY <1>6, <1>9, <1>10

LEMMA ReleaseShortensPath ==
    ASSUME QueuesTyped, QueuesTyped', LoopInv, Release, hand' # hand
    PROVE  Len(Path') = Len(Path) - 1
           /\ \A i \in 1 .. Len(Path') : Path'[i] = Path[IF i <= Len(Out) THEN i ELSE i + 1]
<1>1. Placed /\ Placed'
  BY PathPlaced, PathPlacedNext
<1>2. Len(hand) = 1 /\ hand' = <<>> /\ UNCHANGED <<chan, batch, given>>
  BY DEF Release, LoopInv, LoopRest, producerVars, emitVars
<1>3. Out' = Out /\ Len(hand') = 0
  BY <1>2 DEF Out
<1>4. /\ Len(Out) \in Nat /\ Len(chan) \in Nat /\ Len(Path) = Len(Out) + 1 + Len(chan)
      /\ Len(Path') = Len(Out) + Len(chan)
  BY <1>1, <1>2, <1>3 DEF Placed
<1>5. ASSUME NEW i \in 1 .. Len(Path') PROVE Path'[i] = Path[IF i <= Len(Out) THEN i ELSE i + 1]
  <2>1. Path'[i] = IF i <= Len(Out) THEN Out[i].msg ELSE chan[i - Len(Out)]
    <3>1. Path'[i] = IF i <= Len(Out) THEN Out[i].msg
                     ELSE IF i <= Len(Out) + 0 THEN hand'[i - Len(Out)] ELSE chan[i - Len(Out) - 0]
      BY <1>1, <1>2, <1>3 DEF Placed
    <3> QED BY <1>4, <3>1
  <2>2. \A k \in 1 .. Len(Path) : Path[k] = IF k <= Len(Out) THEN Out[k].msg
                                           ELSE IF k <= Len(Out) + 1 THEN hand[k - Len(Out)]
                                           ELSE chan[k - Len(Out) - 1]
    BY <1>1, <1>2 DEF Placed
  <2>3. CASE i <= Len(Out)
    <3>1. i \in 1 .. Len(Path)
      BY <1>4, <2>3
    <3> QED BY <2>1, <2>2, <2>3, <3>1
  <2>4. CASE ~(i <= Len(Out))
    <3>1. i + 1 \in 1 .. Len(Path) /\ ~(i + 1 <= Len(Out)) /\ ~(i + 1 <= Len(Out) + 1)
          /\ i + 1 - Len(Out) - 1 = i - Len(Out)
      BY <1>4, <2>4
    <3> QED BY <2>1, <2>2, <2>4, <3>1
  <2> QED BY <2>3, <2>4
<1> QED BY <1>4, <1>5

LEMMA PathMoves ==
    ASSUME TypeInv, TypeInv', LoopInv, [Next]_vars
    PROVE  \/ Path' = Path
           \/ \E p \in Producers : /\ Put(p) /\ chan' # chan
                                   /\ Len(Path') = Len(Path) + 1 /\ Path'[Len(Path) + 1] = Current(p)
                                   /\ \A i \in 1 .. Len(Path) : Path'[i] = Path[i]
           \/ /\ Release /\ hand' # hand /\ Len(Path') = Len(Path) - 1
              /\ \A i \in 1 .. Len(Path') : Path'[i] = Path[IF i <= Len(Out) THEN i ELSE i + 1]
<1>0. HandlersTyped /\ QueuesTyped /\ QueuesTyped' /\ VersionsTyped
  BY DEF TypeInv
<1>1. CASE UNCHANGED <<chan, hand, batch, given>>
  BY <1>1 DEF Path
<1>2. ASSUME NEW p \in Producers, Put(p), chan' = chan PROVE Path' = Path
  BY <1>2 DEF Put, loopVars, emitVars, Path
<1>3. CASE Leave \/ BatchTick
  <2>1. /\ hand' = hand /\ chan' = chan
        /\ \E next : Flush(batch, next)
    BY <1>3 DEF Leave, BatchTick, LoopRest, producerVars
  <2>2. batch \in Seq(Decoded)
    BY <1>0 DEF QueuesTyped
  <2>3. Out' = Out
    BY <1>0, <2>1, <2>2, FlushKeepsPath DEF Out
  <2> QED BY <2>1, <2>3 DEF Path, Out
<1>4. CASE Release /\ hand' = hand
  BY <1>4 DEF Release, LoopRest, producerVars, emitVars, Path
<1> QED
  BY <1>0, <1>1, <1>2, <1>3, <1>4, TakeKeepsPath, DecodeKeepsPath, PutExtendsPath, ReleaseShortensPath,
     QueuesChange

-----------------------------------------------------------------------------
\* What is on the path came from a feed: it is older than what its handler has.
PathInv ==
    /\ \A i \in 1 .. Len(Path) : \E p \in Producers : \E x \in 1 .. fed[p] :
          Path[i] = Feed[p][x] /\ (stage[p] # "idle" => x < fed[p])
    /\ InOrder

LEMMA Apart ==
    ASSUME HandlersTyped, NEW p \in Producers, NEW q \in Producers,
           NEW x \in 1 .. Len(Feed[p]), NEW y \in 1 .. Len(Feed[q]), Feed[p][x] = Feed[q][y]
    PROVE  p = q /\ x = y
<1>1. DOMAIN Feed[p] = 1 .. Len(Feed[p]) /\ DOMAIN Feed[q] = 1 .. Len(Feed[q])
  BY Limits
<1> QED BY <1>1, FeedsApart

LEMMA FedBelow ==
    ASSUME HandlersTyped, NEW p \in Producers
    PROVE  /\ fed[p] \in Nat /\ Len(Feed[p]) \in Nat /\ fed[p] <= Len(Feed[p])
           /\ DOMAIN Feed[p] = 1 .. Len(Feed[p])
BY Limits DEF HandlersTyped

\* The message a handler has is not on the path, and a message of its feed that
\* is on it comes before.
LEMMA NotYetOnPath ==
    ASSUME HandlersTyped, QueuesTyped, PathInv, NEW p \in Producers, stage[p] # "idle", NEW i \in 1 .. Len(Path)
    PROVE  /\ Path[i] # Current(p)
           /\ \A x \in DOMAIN Feed[p] : Path[i] = Feed[p][x] => x < fed[p]
<1>q. PICK q \in Producers : \E z \in 1 .. fed[q] : Path[i] = Feed[q][z] /\ (stage[q] # "idle" => z < fed[q])
  BY DEF PathInv
<1>1. PICK z \in 1 .. fed[q] : Path[i] = Feed[q][z] /\ (stage[q] # "idle" => z < fed[q])
  BY <1>q
<1>2. z \in 1 .. Len(Feed[q]) /\ z \in Nat
  BY FedBelow
<1>3. ASSUME NEW x \in 1 .. Len(Feed[p]), Path[i] = Feed[p][x] PROVE x < fed[p]
  <2>1. p = q /\ x = z
    BY <1>1, <1>2, <1>3, Apart
  <2> QED BY <1>1, <2>1
<1>4. fed[p] \in 1 .. Len(Feed[p]) /\ ~(fed[p] < fed[p])
  BY FedBelow DEF HandlersTyped
<1>5. Path[i] # Current(p)
  BY <1>3, <1>4 DEF Current
<1> QED BY <1>3, <1>5, FedBelow

\* A handler's own step keeps what is said of the path as it is.
LEMMA HandlersKeepOld ==
    ASSUME HandlersTyped, [Next]_vars, NEW p \in Producers, NEW x \in 1 .. fed[p], stage[p] # "idle" => x < fed[p]
    PROVE  x \in 1 .. fed'[p] /\ (stage'[p] # "idle" => x < fed'[p])
<1>0. /\ fed[p] \in Nat
      /\ fed \in [Producers -> Nat] /\ stage \in [Producers -> {"idle", "counted", "reserved", "refused"}]
  BY DEF HandlersTyped
<1>1. CASE UNCHANGED <<fed, stage, total>>
  BY <1>1
<1>2. ASSUME NEW q \in Producers, Arrive(q) PROVE x \in 1 .. fed'[p] /\ (stage'[p] # "idle" => x < fed'[p])
  BY <1>0, <1>2 DEF Arrive, Step
<1>3. ASSUME NEW q \in Producers, Reserve(q) \/ Put(q) \/ GiveUp(q)
      PROVE  fed' = fed /\ stage[q] # "idle" /\ (\A r \in Producers : r # q => stage'[r] = stage[r])
  BY <1>0, <1>3 DEF Reserve, Put, GiveUp, Step
<1> QED BY <1>0, <1>1, <1>2, <1>3, HandlersChange DEF Handler

LEMMA PathInvStep == TypeInv /\ LoopInv /\ PathInv /\ [Next]_vars => PathInv'
<1> SUFFICES ASSUME TypeInv, LoopInv, PathInv, [Next]_vars PROVE PathInv'
  OBVIOUS
<1>0. TypeInv' /\ HandlersTyped /\ QueuesTyped /\ HandlersTyped' /\ QueuesTyped' /\ Placed /\ Placed'
  BY TypeInvStep, PathPlaced, PathPlacedNext DEF TypeInv
<1>a. /\ Len(Path) \in Nat /\ Len(Path') \in Nat
      /\ DOMAIN Path = 1 .. Len(Path) /\ DOMAIN Path' = 1 .. Len(Path')
  BY <1>0, LenProperties DEF Placed
\* Where an element of the path was before.
<1>b. ASSUME NEW i \in 1 .. Len(Path), NEW v, v = Path[i]
      PROVE  \E p \in Producers : \E x \in 1 .. fed'[p] : v = Feed[p][x] /\ (stage'[p] # "idle" => x < fed'[p])
  <2>p. PICK p \in Producers : \E x \in 1 .. fed[p] : v = Feed[p][x] /\ (stage[p] # "idle" => x < fed[p])
    BY <1>b DEF PathInv
  <2>1. PICK x \in 1 .. fed[p] : v = Feed[p][x] /\ (stage[p] # "idle" => x < fed[p])
    BY <2>p
  <2>2. x \in 1 .. fed'[p] /\ (stage'[p] # "idle" => x < fed'[p])
    BY <1>0, <2>1, HandlersKeepOld
  <2> QED BY <2>1, <2>2
<1>1. CASE Path' = Path
  <2>1. InOrder'
    BY <1>1 DEF PathInv, InOrder
  <2>2. ASSUME NEW i \in 1 .. Len(Path')
        PROVE  \E p \in Producers : \E x \in 1 .. fed'[p] : Path'[i] = Feed[p][x] /\ (stage'[p] # "idle" => x < fed'[p])
    <3>1. i \in 1 .. Len(Path) /\ Path'[i] = Path[i]
      BY <1>1
    <3> QED BY <1>b, <3>1
  <2> QED BY <2>1, <2>2 DEF PathInv
<1>2. ASSUME NEW p \in Producers, Put(p), chan' # chan,
             Len(Path') = Len(Path) + 1, Path'[Len(Path) + 1] = Current(p),
             \A i \in 1 .. Len(Path) : Path'[i] = Path[i]
      PROVE  PathInv'
  <2>1. stage[p] # "idle" /\ stage'[p] = "idle" /\ fed' = fed
    BY <1>0, <1>2 DEF Put, Step, HandlersTyped
  <2>2. fed[p] \in 1 .. Len(Feed[p]) /\ fed'[p] = fed[p] /\ fed[p] \in Nat
    BY <1>0, <2>1, FedBelow DEF HandlersTyped
  <2>3. ASSUME NEW i \in 1 .. Len(Path')
        PROVE  \E q \in Producers : \E x \in 1 .. fed'[q] : Path'[i] = Feed[q][x] /\ (stage'[q] # "idle" => x < fed'[q])
    <3>1. CASE i \in 1 .. Len(Path)
      BY <1>2, <1>b, <3>1
    <3>2. CASE i = Len(Path) + 1
      <4>1. Path'[i] = Feed[p][fed[p]] /\ fed[p] \in 1 .. fed'[p]
        BY <1>2, <2>2, <3>2 DEF Current
      <4> QED BY <2>1, <4>1
    <3> QED BY <1>2, <1>a, <3>1, <3>2
  <2>4. ASSUME NEW q \in Producers, NEW i \in 1 .. Len(Path'), NEW j \in 1 .. Len(Path'),
               NEW x \in DOMAIN Feed[q], NEW y \in DOMAIN Feed[q],
               i < j, Path'[i] = Feed[q][x], Path'[j] = Feed[q][y]
        PROVE  x < y
    <3>1. i \in 1 .. Len(Path) /\ Path'[i] = Path[i]
      BY <1>2, <1>a, <2>4
    <3>2. CASE j \in 1 .. Len(Path)
      <4>1. Path[j] = Feed[q][y] /\ Path[i] = Feed[q][x]
        BY <1>2, <2>4, <3>1, <3>2
      <4> QED BY <1>a, <2>4, <3>1, <3>2, <4>1 DEF PathInv, InOrder
    <3>3. CASE j = Len(Path) + 1
      <4>1. Feed[p][fed[p]] = Feed[q][y]
        BY <1>2, <2>4, <3>3 DEF Current
      <4>2. p = q /\ fed[p] = y
        BY <1>0, <2>2, <4>1, Apart, FedBelow
      <4>3. x < fed[p]
        BY <1>0, <2>1, <2>4, <3>1, <4>2, NotYetOnPath
      <4> QED BY <4>2, <4>3
    <3> QED BY <1>2, <1>a, <3>2, <3>3
  <2> QED BY <1>a, <2>3, <2>4 DEF PathInv, InOrder
<1>3. ASSUME Release, Len(Path') = Len(Path) - 1,
             \A i \in 1 .. Len(Path') : Path'[i] = Path[IF i <= Len(Out) THEN i ELSE i + 1]
      PROVE  PathInv'
  <2> DEFINE at(i) == IF i <= Len(Out) THEN i ELSE i + 1
  <2>1. Len(Out) \in Nat
    BY <1>0 DEF Placed
  <2>2. \A i \in 1 .. Len(Path') : at(i) \in 1 .. Len(Path) /\ Path'[i] = Path[at(i)]
    BY <1>3, <1>a, <2>1
  <2>3. \A i, j \in 1 .. Len(Path') : i < j => at(i) < at(j)
    BY <1>a, <2>1
  <2> HIDE DEF at
  <2>4. ASSUME NEW i \in 1 .. Len(Path')
        PROVE  \E q \in Producers : \E x \in 1 .. fed'[q] : Path'[i] = Feed[q][x] /\ (stage'[q] # "idle" => x < fed'[q])
    <3>1. at(i) \in 1 .. Len(Path) /\ Path'[i] = Path[at(i)]
      BY <2>2
    <3> QED BY <1>b, <3>1
  <2>5. ASSUME NEW q \in Producers, NEW i \in 1 .. Len(Path'), NEW j \in 1 .. Len(Path'),
               NEW x \in DOMAIN Feed[q], NEW y \in DOMAIN Feed[q],
               i < j, Path'[i] = Feed[q][x], Path'[j] = Feed[q][y]
        PROVE  x < y
    BY <1>a, <2>2, <2>3, <2>5 DEF PathInv, InOrder
  <2> QED BY <1>a, <2>4, <2>5 DEF PathInv, InOrder
<1> QED BY <1>0, <1>1, <1>2, <1>3, PathMoves

LEMMA PathInvInit == Init => PathInv
<1> SUFFICES ASSUME Init PROVE PathInv
  OBVIOUS
<1>1. Placed
  BY TypeInvInit, PathPlaced DEF TypeInv
<1>2. Len(hand) = 0 /\ Len(chan) = 0 /\ Len(Out) = 0
  <2>1. chan = <<>> /\ hand = <<>> /\ given = <<>> /\ batch = <<>>
    BY DEF Init
  <2>2. QueuesTyped
    BY TypeInvInit DEF TypeInv
  <2> QED BY <2>1, <2>2, EmptyQueue, OutTyped
<1>3. 1 .. Len(Path) = {} /\ DOMAIN Path = 1 .. Len(Path)
  BY <1>1, <1>2 DEF Placed
<1> QED BY <1>3 DEF PathInv, InOrder

LEMMA PathHolds == Spec => [](TypeInv /\ LoopInv /\ PathInv)
<1>1. TypeInv /\ LoopInv /\ PathInv /\ [Next]_vars => (TypeInv /\ LoopInv /\ PathInv)'
  BY TypeInvStep, PathInvStep
<1> QED BY <1>1, TypeInvInit, PathInvInit, PTL DEF Spec

\* What one subscription delivers reaches the stream in its order and once
\* (loop.go runLoop): whatever is dropped, nothing overtakes on the way.
THEOREM OrderIsKept == Spec => []InOrder
<1>1. PathInv => InOrder
  BY DEF PathInv
<1> QED BY <1>1, PathHolds, PTL

-----------------------------------------------------------------------------
\* The counts: every message counted is a handler's, on the path, or dropped.
Busy == {p \in Producers : stage[p] # "idle"}

LEMMA BusyCounted == IsFiniteSet(Busy) /\ Cardinality(Busy) \in Nat
<1>1. IsFiniteSet(Busy)
  BY LoopAssumption, FS_Subset DEF LoopAssumption, Busy
<1> QED BY <1>1, FS_CardinalityType

\* One handler at a time gets busy, or is done with its message.
LEMMA BusyMoves ==
    ASSUME HandlersTyped, QueuesTyped, NEW p \in Producers
    PROVE  /\ Arrive(p) => p \notin Busy /\ Busy' = Busy \cup {p}
           /\ Reserve(p) => Busy' = Busy
           /\ Put(p) /\ chan' = chan => Busy' = Busy
           /\ Put(p) /\ chan' # chan => p \in Busy /\ Busy' = Busy \ {p}
           /\ GiveUp(p) => p \in Busy /\ Busy' = Busy \ {p}
<1>0. stage \in [Producers -> {"idle", "counted", "reserved", "refused"}]
  BY DEF HandlersTyped
<1>1. ASSUME Arrive(p) PROVE p \notin Busy /\ Busy' = Busy \cup {p}
  BY <1>0, <1>1 DEF Arrive, Step, Busy
<1>2. ASSUME Reserve(p) PROVE Busy' = Busy
  BY <1>0, <1>2 DEF Reserve, Step, Busy
<1>3. ASSUME Put(p), chan' # chan PROVE p \in Busy /\ Busy' = Busy \ {p}
  BY <1>0, <1>3 DEF Put, Step, Busy
<1>4. ASSUME GiveUp(p) PROVE p \in Busy /\ Busy' = Busy \ {p}
  BY <1>0, <1>4 DEF GiveUp, Step, Busy
<1>5. ASSUME Put(p), chan' = chan PROVE Busy' = Busy
  <2>1. chan \in Seq(Msgs) /\ Len(Append(chan, Current(p))) # Len(chan)
    BY <1>5, CurrentIsMsg, AppendProperties DEF Put, QueuesTyped
  <2> QED BY <1>0, <1>5, <2>1 DEF Put, Step, Busy
<1> QED BY <1>1, <1>2, <1>3, <1>4, <1>5

LEMMA BusyCountedNext == HandlersTyped' => IsFiniteSet(Busy') /\ Cardinality(Busy') \in Nat
<1>1. Busy' \subseteq Producers
  BY DEF Busy
<1>2. IsFiniteSet(Busy')
  BY <1>1, LoopAssumption, FS_Subset DEF LoopAssumption
<1> QED BY <1>2, FS_CardinalityType

\* The sum, over the path.
Balanced == total = dropped + Cardinality(Busy) + Len(Path)

LEMMA BalancedIsAccounted == QueuesTyped /\ CountersTyped => (Balanced <=> Accounted)
<1> SUFFICES ASSUME QueuesTyped, CountersTyped PROVE Balanced <=> Accounted
  OBVIOUS
<1>1. Len(Path) = Len(given) + Len(batch) + Len(hand) + Len(chan)
  BY PathPlaces, OutTyped
<1>2. /\ Len(given) \in Nat /\ Len(batch) \in Nat /\ Len(hand) \in Nat /\ Len(chan) \in Nat
      /\ dropped \in Nat
  BY DEF QueuesTyped, CountersTyped
<1>3. Accounted <=> total = dropped + Cardinality(Busy) + Len(chan) + Len(hand) + Len(batch) + Len(given)
  BY DEF Accounted, Busy
<1>4. dropped + Cardinality(Busy) + Len(chan) + Len(hand) + Len(batch) + Len(given)
        = dropped + Cardinality(Busy) + Len(Path)
  BY <1>1, <1>2, BusyCounted
<1> QED BY <1>3, <1>4 DEF Balanced

\* Who drops a message, or counts one.
LEMMA DropsChange ==
    ASSUME [Next]_vars
    PROVE  dropped' = dropped \/ Release \/ \E p \in Producers : GiveUp(p)
BY DEF Next, Handler, Signals, Select, Inside, Emitting, Done, vars, Arrive, Reserve, Put,
       ReportDenied, MarkLost, CallerLeaves, LinkChanges, Change, BroadcastProtoReload,
       Leave, EmitDenied, StatsTick, BatchTick, Take, EmitStats, EmitLink,
       ResetForMessage, Decode, Send, SendFails, Resume, Stall

LEMMA BalancedStep == TypeInv /\ LoopInv /\ Balanced /\ [Next]_vars => Balanced'
<1> SUFFICES ASSUME TypeInv, LoopInv, Balanced, [Next]_vars PROVE Balanced'
  OBVIOUS
<1>0. /\ HandlersTyped /\ QueuesTyped /\ TypeInv' /\ QueuesTyped' /\ HandlersTyped'
      /\ total \in Nat /\ dropped \in Nat
  BY TypeInvStep DEF TypeInv, CountersTyped
<1>1. Placed /\ Placed' /\ Len(Path) \in Nat /\ Len(Path') \in Nat
  BY <1>0, PathPlaced, PathPlacedNext DEF Placed
<1>2. IsFiniteSet(Busy) /\ Cardinality(Busy) \in Nat
  BY BusyCounted
<1>3. ASSUME NEW p, p \notin Busy, Busy' = Busy \cup {p} PROVE Cardinality(Busy') = Cardinality(Busy) + 1
  BY <1>2, <1>3, FS_AddElement
<1>4. ASSUME NEW p, p \in Busy, Busy' = Busy \ {p} PROVE Cardinality(Busy') = Cardinality(Busy) - 1
  BY <1>2, <1>4, FS_RemoveElement
<1>5. ASSUME UNCHANGED <<chan, hand, batch, given>> PROVE Len(Path') = Len(Path)
  BY <1>5 DEF Path
<1>6. ASSUME NEW p \in Producers, Arrive(p) PROVE Balanced'
  <2>1. UNCHANGED <<chan, hand, batch, given>> /\ dropped' = dropped /\ total' = total + 1
    BY <1>6 DEF Arrive, loopVars, emitVars
  <2>2. Cardinality(Busy') = Cardinality(Busy) + 1
    BY <1>0, <1>3, <1>6, BusyMoves
  <2> QED BY <1>0, <1>1, <1>2, <1>5, <2>1, <2>2 DEF Balanced
<1>7. ASSUME NEW p \in Producers, Reserve(p) PROVE Balanced'
  <2>1. UNCHANGED <<chan, hand, batch, given>> /\ dropped' = dropped /\ total' = total
    BY <1>7 DEF Reserve, loopVars, emitVars
  <2>2. Busy' = Busy
    BY <1>0, <1>7, BusyMoves
  <2> QED BY <1>5, <2>1, <2>2 DEF Balanced
<1>8. ASSUME NEW p \in Producers, Put(p) PROVE Balanced'
  <2>1. UNCHANGED <<hand, batch, given>> /\ dropped' = dropped /\ total' = total
    BY <1>8 DEF Put, loopVars, emitVars
  <2>2. CASE chan' = chan
    <3>1. Busy' = Busy
      BY <1>0, <1>8, <2>2, BusyMoves
    <3> QED BY <1>5, <2>1, <2>2, <3>1 DEF Balanced
  <2>3. CASE chan' # chan
    <3>1. Cardinality(Busy') = Cardinality(Busy) - 1
      BY <1>0, <1>4, <1>8, <2>3, BusyMoves
    <3>2. Len(Path') = Len(Path) + 1
      BY <1>0, <1>8, <2>3, PutExtendsPath
    <3> QED BY <1>0, <1>1, <1>2, <2>1, <3>1, <3>2 DEF Balanced
  <2> QED BY <2>2, <2>3
<1>9. ASSUME NEW p \in Producers, GiveUp(p) PROVE Balanced'
  <2>1. UNCHANGED <<chan, hand, batch, given>> /\ dropped' = dropped + 1 /\ total' = total
    BY <1>9 DEF GiveUp, loopVars, emitVars
  <2>2. Cardinality(Busy') = Cardinality(Busy) - 1
    BY <1>0, <1>4, <1>9, BusyMoves
  <2> QED BY <1>0, <1>1, <1>2, <1>5, <2>1, <2>2 DEF Balanced
<1>10. CASE UNCHANGED <<fed, stage, total>>
  <2>1. Busy' = Busy /\ total' = total
    BY <1>10 DEF Busy
  <2>2. ASSUME NEW p \in Producers PROVE ~Put(p) /\ ~GiveUp(p)
    <3>1. stage \in [Producers -> {"idle", "counted", "reserved", "refused"}]
      BY <1>0 DEF HandlersTyped
    <3>2. \A r : [stage EXCEPT ![p] = r][p] = r
      BY <3>1
    <3> QED BY <1>8, <1>9, <1>10, <3>1, <3>2, BusyMoves, <1>0, <2>1 DEF GiveUp, Put, Step
  <2>3. CASE Release /\ hand' # hand
    <3>1. Len(Path') = Len(Path) - 1
      BY <1>0, <2>3, ReleaseShortensPath
    <3>2. dropped' = dropped + 1
      BY <2>3 DEF Release
    <3> QED BY <1>0, <1>1, <1>2, <2>1, <3>1, <3>2 DEF Balanced
  <2>4. CASE Release /\ hand' = hand
    <3>1. Len(hand) = 1
      BY <2>4 DEF Release, LoopInv
    <3>2. dropped' = dropped
      <4>1. hand # <<>>
        BY <3>1, EmptyQueue
      <4> QED BY <2>4, <4>1 DEF Release
    <3>3. Path' = Path
      BY <2>4 DEF Release, LoopRest, producerVars, emitVars, Path
    <3> QED BY <2>1, <3>2, <3>3 DEF Balanced
  <2>5. CASE ~Release
    <3>1. dropped' = dropped
      BY <2>2, <2>5, DropsChange
    <3>2. Path' = Path
      BY <1>0, <2>2, <2>5, PathMoves
    <3> QED BY <2>1, <3>1, <3>2 DEF Balanced
  <2> QED BY <2>3, <2>4, <2>5
<1> QED BY <1>6, <1>7, <1>8, <1>9, <1>10, HandlersChange DEF Handler

LEMMA BalancedInit == Init => Balanced
<1> SUFFICES ASSUME Init PROVE Balanced
  OBVIOUS
<1>1. QueuesTyped
  BY TypeInvInit DEF TypeInv
<1>2. Len(chan) = 0 /\ Len(hand) = 0 /\ Len(given) = 0 /\ Len(batch) = 0
  BY EmptyQueue DEF Init
<1>3. Len(Path) = 0
  BY <1>1, <1>2, PathPlaces, OutTyped
<1>4. Busy = {} /\ Cardinality(Busy) = 0
  BY FS_EmptySet DEF Busy, Init
<1>5. total = 0 /\ dropped = 0
  BY DEF Init
<1> QED BY <1>3, <1>4, <1>5 DEF Balanced

\* The counts the client is shown are honest (loop.go emitStats): every message
\* counted is with a handler, on its way, handed to the stream, or dropped.
THEOREM CountsAreHonest == Spec => []Accounted
<1>1. TypeInv /\ Balanced => Accounted
  BY BalancedIsAccounted DEF TypeInv
<1> QED BY <1>1, BalancedInit, BalancedStep, TypeInvHolds, PTL DEF Spec

-----------------------------------------------------------------------------
\* The bytes.  A message that comes or goes brings or takes its own.
LEMMA ByteIsOf == \A M, w : w \in Bytes(M) <=> \E m \in M : \E i \in 1 .. Size[m] : w = <<m, i>>
BY DEF Bytes

LEMMA BytesOfOne ==
    ASSUME NEW m \in Msgs
    PROVE  IsFiniteSet(Bytes({m})) /\ Cardinality(Bytes({m})) = Size[m]
<1>1. Size[m] \in Nat
  BY Limits
<1>2. Bytes({m}) = {m} \X (1 .. Size[m])
  BY DEF Bytes
<1>3. IsFiniteSet(1 .. Size[m]) /\ Cardinality(1 .. Size[m]) = Size[m]
  BY <1>1, FS_Interval
<1>4. IsFiniteSet({m}) /\ Cardinality({m}) = 1
  BY FS_Singleton
<1>5. /\ IsFiniteSet({m} \X (1 .. Size[m]))
      /\ Cardinality({m} \X (1 .. Size[m])) = Cardinality({m}) * Cardinality(1 .. Size[m])
  BY <1>3, <1>4, FS_Product, Zenon
<1>6. Cardinality({m}) * Cardinality(1 .. Size[m]) = 1 * Size[m]
  BY <1>3, <1>4, Zenon
<1>7. 1 * Size[m] = Size[m]
  BY <1>1
<1> QED BY <1>2, <1>5, <1>6, <1>7, Zenon

LEMMA BytesAdd ==
    ASSUME NEW M, IsFiniteSet(Bytes(M)), NEW m \in Msgs, m \notin M
    PROVE  /\ IsFiniteSet(Bytes(M \cup {m}))
           /\ Cardinality(Bytes(M \cup {m})) = Cardinality(Bytes(M)) + Size[m]
<1>1. Bytes(M \cup {m}) = Bytes(M) \cup Bytes({m})
  BY ByteIsOf
<1>2. Bytes(M) \cap Bytes({m}) = {}
  BY ByteIsOf
<1>3. Cardinality(Bytes(M) \cap Bytes({m})) = 0
  BY <1>2, FS_EmptySet
<1>4. Cardinality(Bytes(M)) \in Nat /\ Cardinality(Bytes({m})) = Size[m] /\ Size[m] \in Nat
  BY BytesOfOne, FS_CardinalityType, Limits
<1>5. /\ IsFiniteSet(Bytes(M) \cup Bytes({m}))
      /\ Cardinality(Bytes(M) \cup Bytes({m}))
            = Cardinality(Bytes(M)) + Cardinality(Bytes({m})) - Cardinality(Bytes(M) \cap Bytes({m}))
  BY BytesOfOne, FS_Union, Zenon
<1>6. Cardinality(Bytes(M) \cup Bytes({m})) = Cardinality(Bytes(M)) + Size[m] - 0
  BY <1>3, <1>4, <1>5, Zenon
<1>7. Cardinality(Bytes(M)) + Size[m] - 0 = Cardinality(Bytes(M)) + Size[m]
  BY <1>4
<1> QED BY <1>1, <1>5, <1>6, <1>7, Zenon

LEMMA BytesWithin ==
    ASSUME NEW M, IsFiniteSet(Bytes(M)), NEW L, L \subseteq M
    PROVE  IsFiniteSet(Bytes(L)) /\ Cardinality(Bytes(L)) <= Cardinality(Bytes(M))
           /\ Cardinality(Bytes(L)) \in Nat /\ Cardinality(Bytes(M)) \in Nat
<1>1. Bytes(L) \subseteq Bytes(M)
  BY ByteIsOf
<1> QED BY <1>1, FS_Subset, FS_CardinalityType

LEMMA BytesRemove ==
    ASSUME NEW M, IsFiniteSet(Bytes(M)), NEW m \in Msgs, m \in M
    PROVE  /\ IsFiniteSet(Bytes(M \ {m}))
           /\ Cardinality(Bytes(M \ {m})) = Cardinality(Bytes(M)) - Size[m]
<1>1. M = (M \ {m}) \cup {m}
  OBVIOUS
<1>2. IsFiniteSet(Bytes(M \ {m})) /\ Cardinality(Bytes(M \ {m})) \in Nat
  BY BytesWithin
<1>3. Cardinality(Bytes(M)) = Cardinality(Bytes(M \ {m})) + Size[m]
  <2>1. m \notin M \ {m}
    OBVIOUS
  <2>2. Cardinality(Bytes((M \ {m}) \cup {m})) = Cardinality(Bytes(M \ {m})) + Size[m]
    BY <1>2, <2>1, BytesAdd
  <2> QED BY <1>1, <2>2
<1> QED BY <1>2, <1>3, Limits

\* The messages whose bytes are counted, and those the cap has let pass.
LEMMA HeldIs ==
    \A m : m \in Held <=> \/ m \in Range(chan)
                          \/ loop = "taken" /\ m \in Range(hand)
                          \/ \E p \in Producers : stage[p] \in {"reserved", "refused"} /\ m = Current(p)
BY DEF Held, Reserved

Accepted == Range(chan) \cup {Current(p) : p \in {q \in Producers : stage[q] = "reserved"}}

LEMMA RangeIs == \A S : \A q \in Seq(S) : \A m : m \in Range(q) <=> \E i \in 1 .. Len(q) : m = q[i]
BY DEF Range

\* A message in the channel or in the hand is on the path.
LEMMA QueuesOnPath ==
    ASSUME QueuesTyped
    PROVE  /\ \A i \in 1 .. Len(chan) : /\ Len(Out) + Len(hand) + i \in 1 .. Len(Path)
                                        /\ chan[i] = Path[Len(Out) + Len(hand) + i]
           /\ \A i \in 1 .. Len(hand) : Len(Out) + i \in 1 .. Len(Path) /\ hand[i] = Path[Len(Out) + i]
<1>1. Placed
  BY PathPlaced
<1>2. ASSUME NEW i \in 1 .. Len(chan)
      PROVE  Len(Out) + Len(hand) + i \in 1 .. Len(Path) /\ chan[i] = Path[Len(Out) + Len(hand) + i]
  <2>1. /\ Len(Out) + Len(hand) + i \in 1 .. Len(Path)
        /\ ~(Len(Out) + Len(hand) + i <= Len(Out)) /\ ~(Len(Out) + Len(hand) + i <= Len(Out) + Len(hand))
        /\ Len(Out) + Len(hand) + i - Len(Out) - Len(hand) = i
    BY <1>1 DEF Placed
  <2> QED BY <1>1, <2>1 DEF Placed
<1>3. ASSUME NEW i \in 1 .. Len(hand)
      PROVE  Len(Out) + i \in 1 .. Len(Path) /\ hand[i] = Path[Len(Out) + i]
  <2>1. /\ Len(Out) + i \in 1 .. Len(Path) /\ ~(Len(Out) + i <= Len(Out))
        /\ Len(Out) + i <= Len(Out) + Len(hand) /\ Len(Out) + i - Len(Out) = i
    BY <1>1 DEF Placed
  <2> QED BY <1>1, <2>1 DEF Placed
<1> QED BY <1>2, <1>3

\* The message a handler has is its own: no queue holds it, and no other handler.
LEMMA CurrentIsApart ==
    ASSUME HandlersTyped, QueuesTyped, PathInv, NEW p \in Producers, stage[p] # "idle"
    PROVE  /\ Current(p) \notin Range(chan) /\ Current(p) \notin Range(hand)
           /\ \A q \in Producers : q # p /\ stage[q] # "idle" => Current(q) # Current(p)
<1>1. \A i \in 1 .. Len(Path) : Path[i] # Current(p)
  BY NotYetOnPath
<1>2. chan \in Seq(Msgs) /\ hand \in Seq(Msgs)
  BY DEF QueuesTyped
<1>3. Current(p) \notin Range(chan) /\ Current(p) \notin Range(hand)
  <2>1. \A i \in 1 .. Len(chan) : chan[i] # Current(p)
    BY <1>1, QueuesOnPath, Zenon
  <2>2. \A i \in 1 .. Len(hand) : hand[i] # Current(p)
    BY <1>1, QueuesOnPath, Zenon
  <2>3. /\ \A m : m \in Range(chan) => \E i \in 1 .. Len(chan) : m = chan[i]
        /\ \A m : m \in Range(hand) => \E i \in 1 .. Len(hand) : m = hand[i]
    BY <1>2, RangeIs, Zenon
  <2> QED BY <2>1, <2>2, <2>3, Zenon
<1>4. ASSUME NEW q \in Producers, q # p, stage[q] # "idle" PROVE Current(q) # Current(p)
  <2>1. fed[p] \in 1 .. Len(Feed[p]) /\ fed[q] \in 1 .. Len(Feed[q])
    BY <1>4, CurrentIsMsg, FedBelow
  <2> QED BY <1>4, <2>1, Apart DEF Current
<1> QED BY <1>3, <1>4

\* What a step does to the messages whose bytes are counted.
LEMMA ArriveKeepsHeld ==
    ASSUME HandlersTyped, NEW p \in Producers, Arrive(p)
    PROVE  Held' = Held /\ Accepted' = Accepted
<1>1. /\ stage[p] = "idle" /\ stage'[p] = "counted"
      /\ \A q \in Producers : q # p => stage'[q] = stage[q] /\ fed'[q] = fed[q]
      /\ UNCHANGED <<chan, loop, hand>>
  BY DEF Arrive, Step, HandlersTyped, loopVars
<1>2. \A q \in Producers : stage[q] \in {"reserved", "refused"} \/ stage'[q] \in {"reserved", "refused"}
          => stage'[q] = stage[q] /\ Feed[q][fed'[q]] = Feed[q][fed[q]]
  BY <1>1
<1> QED BY <1>1, <1>2 DEF Held, Reserved, Accepted, Current

LEMMA HandlerHolds ==
    ASSUME HandlersTyped, QueuesTyped, NEW p \in Producers, Reserve(p) \/ Put(p) \/ GiveUp(p)
    PROVE  /\ fed' = fed /\ loop' = loop /\ hand' = hand
           /\ \A q \in Producers : q # p => stage'[q] = stage[q]
           /\ Reserve(p) => /\ stage[p] = "counted" /\ stage'[p] \in {"reserved", "refused"}
                            /\ chan' = chan
           /\ Put(p) => /\ stage[p] = "reserved" /\ stage'[p] \in {"idle", "refused"}
                        /\ stage'[p] = "idle" => Range(chan') = Range(chan) \cup {Current(p)}
                        /\ stage'[p] = "refused" => chan' = chan
           /\ GiveUp(p) => stage[p] = "refused" /\ stage'[p] = "idle" /\ chan' = chan
<1>1. stage \in [Producers -> {"idle", "counted", "reserved", "refused"}]
  BY DEF HandlersTyped
<1>2. /\ fed' = fed /\ loop' = loop /\ hand' = hand
      /\ \A q \in Producers : q # p => stage'[q] = stage[q]
  BY <1>1 DEF Reserve, Put, GiveUp, Step, loopVars
<1>3. ASSUME Reserve(p)
      PROVE  stage[p] = "counted" /\ stage'[p] \in {"reserved", "refused"} /\ chan' = chan
  BY <1>1, <1>3 DEF Reserve, Step
<1>4. ASSUME GiveUp(p)
      PROVE  stage[p] = "refused" /\ stage'[p] = "idle" /\ chan' = chan
  BY <1>1, <1>4 DEF GiveUp, Step
<1>5. ASSUME Put(p)
      PROVE  /\ stage[p] = "reserved"
             /\ \/ stage'[p] = "idle" /\ chan' = Append(chan, Current(p))
                \/ stage'[p] = "refused" /\ chan' = chan
  BY <1>1, <1>5 DEF Put, Step
<1>6. ASSUME Put(p) PROVE Range(Append(chan, Current(p))) = Range(chan) \cup {Current(p)}
  <2>1. chan \in Seq(Msgs) /\ Current(p) \in Msgs
    BY <1>6, CurrentIsMsg DEF Put, QueuesTyped
  <2>2. /\ Append(chan, Current(p)) \in Seq(Msgs) /\ Len(Append(chan, Current(p))) = Len(chan) + 1
        /\ Append(chan, Current(p))[Len(chan) + 1] = Current(p)
        /\ \A i \in 1 .. Len(chan) : Append(chan, Current(p))[i] = chan[i]
    BY <2>1, AppendProperties
  <2>3. Len(chan) \in Nat
    BY <2>1
  <2>4. ASSUME NEW m PROVE m \in Range(Append(chan, Current(p))) <=> m \in Range(chan) \/ m = Current(p)
    <3>1. m \in Range(Append(chan, Current(p)))
                 <=> \E i \in 1 .. Len(chan) + 1 : m = Append(chan, Current(p))[i]
      <4> DEFINE a == Append(chan, Current(p))
      <4>1. a \in Seq(Msgs) /\ Len(a) = Len(chan) + 1
        BY <2>2
      <4> HIDE DEF a
      <4>2. m \in Range(a) <=> \E i \in 1 .. Len(a) : m = a[i]
        BY <4>1, RangeIs
      <4> QED BY <4>1, <4>2 DEF a
    <3>2. m \in Range(chan) <=> \E i \in 1 .. Len(chan) : m = chan[i]
      BY <2>1, RangeIs, Zenon
    <3>3. (\E i \in 1 .. Len(chan) + 1 : m = Append(chan, Current(p))[i])
          <=> (\E i \in 1 .. Len(chan) : m = chan[i]) \/ m = Current(p)
      <4>1. \A i \in 1 .. Len(chan) + 1 : i \in 1 .. Len(chan) \/ i = Len(chan) + 1
        BY <2>3
      <4>2. 1 .. Len(chan) \subseteq 1 .. Len(chan) + 1 /\ Len(chan) + 1 \in 1 .. Len(chan) + 1
        BY <2>3
      <4>3. ASSUME NEW i \in 1 .. Len(chan) + 1, m = Append(chan, Current(p))[i]
            PROVE  (\E j \in 1 .. Len(chan) : m = chan[j]) \/ m = Current(p)
        <5>1. CASE i \in 1 .. Len(chan)
          BY <2>2, <4>3, <5>1
        <5>2. CASE i = Len(chan) + 1
          BY <2>2, <4>3, <5>2
        <5> QED BY <4>1, <5>1, <5>2
      <4>4. ASSUME NEW i \in 1 .. Len(chan), m = chan[i]
            PROVE  \E j \in 1 .. Len(chan) + 1 : m = Append(chan, Current(p))[j]
        BY <2>2, <4>2, <4>4
      <4>5. ASSUME m = Current(p)
            PROVE  \E j \in 1 .. Len(chan) + 1 : m = Append(chan, Current(p))[j]
        BY <2>2, <4>2, <4>5
      <4> QED BY <4>3, <4>4, <4>5
    <3> QED BY <3>1, <3>2, <3>3, Zenon
  <2> QED BY <2>4
<1> QED BY <1>2, <1>3, <1>4, <1>5, <1>6, Zenon

LEMMA HandlerHeld ==
    ASSUME HandlersTyped, QueuesTyped, PathInv, LoopInv, NEW p \in Producers
    PROVE  /\ Reserve(p) => /\ Current(p) \notin Held /\ Held' = Held \cup {Current(p)}
                            /\ Accepted' = Accepted \/ stage'[p] = "reserved"
           /\ Put(p) => Held' = Held /\ Accepted' \subseteq Accepted
           /\ GiveUp(p) => /\ Current(p) \in Held /\ Held' = Held \ {Current(p)}
                           /\ Accepted' = Accepted
<1>1. ASSUME Reserve(p)
      PROVE  /\ Current(p) \notin Held /\ Held' = Held \cup {Current(p)}
             /\ Accepted' = Accepted \/ stage'[p] = "reserved"
  <2>1. /\ fed' = fed /\ loop' = loop /\ hand' = hand /\ chan' = chan
        /\ stage[p] = "counted" /\ stage'[p] \in {"reserved", "refused"}
        /\ \A q \in Producers : q # p => stage'[q] = stage[q]
    BY <1>1, HandlerHolds
  <2>2. Current(p) \notin Held
    BY <2>1, CurrentIsApart, HeldIs
  <2>3. Held' = Held \cup {Current(p)}
    BY <2>1 DEF Held, Reserved, Current
  <2>4. stage'[p] = "refused" => Accepted' = Accepted
    BY <2>1 DEF Accepted, Current
  <2> QED BY <2>1, <2>2, <2>3, <2>4
<1>2. ASSUME Put(p) PROVE Held' = Held /\ Accepted' \subseteq Accepted
  <2>1. /\ fed' = fed /\ loop' = loop /\ hand' = hand
        /\ stage[p] = "reserved" /\ stage'[p] \in {"idle", "refused"}
        /\ stage'[p] = "idle" => Range(chan') = Range(chan) \cup {Current(p)}
        /\ stage'[p] = "refused" => chan' = chan
        /\ \A q \in Producers : q # p => stage'[q] = stage[q]
    BY <1>2, HandlerHolds
  <2>2. CASE stage'[p] = "idle"
    <3>1. Range(chan') = Range(chan) \cup {Feed[p][fed[p]]}
      BY <2>1, <2>2 DEF Current
    <3> QED BY <2>1, <2>2, <3>1 DEF Held, Reserved, Accepted, Current
  <2>3. CASE stage'[p] = "refused"
    BY <2>1, <2>3 DEF Held, Reserved, Accepted, Current
  <2> QED BY <2>1, <2>2, <2>3
<1>3. ASSUME GiveUp(p)
      PROVE  Current(p) \in Held /\ Held' = Held \ {Current(p)} /\ Accepted' = Accepted
  <2>1. /\ fed' = fed /\ loop' = loop /\ hand' = hand /\ chan' = chan
        /\ stage[p] = "refused" /\ stage'[p] = "idle"
        /\ \A q \in Producers : q # p => stage'[q] = stage[q]
    BY <1>3, HandlerHolds
  <2>2. /\ Current(p) \notin Range(chan) /\ Current(p) \notin Range(hand)
        /\ \A q \in Producers : q # p /\ stage[q] # "idle" => Current(q) # Current(p)
    BY <2>1, CurrentIsApart
  <2>3. Current(p) \in Held
    BY <2>1, HeldIs
  <2>4. ASSUME NEW m PROVE m \in Held' <=> m \in Held /\ m # Current(p)
    <3>1. m \in Held' <=> \/ m \in Range(chan)
                          \/ loop = "taken" /\ m \in Range(hand)
                          \/ \E q \in Producers : stage'[q] \in {"reserved", "refused"} /\ m = Current(q)
      BY <2>1 DEF Held, Reserved, Current
    <3>2. \A q \in Producers : stage'[q] \in {"reserved", "refused"}
                               <=> q # p /\ stage[q] \in {"reserved", "refused"}
      BY <2>1
    <3> QED BY <2>1, <2>2, <3>1, <3>2, HeldIs
  <2>5. Accepted' = Accepted
    BY <2>1 DEF Accepted, Current
  <2> QED BY <2>3, <2>4, <2>5
<1> QED BY <1>1, <1>2, <1>3

LEMMA TakeKeepsHeld ==
    ASSUME QueuesTyped, LoopInv, Take
    PROVE  Held' = Held /\ Accepted' \subseteq Accepted
<1>1. /\ chan \in Seq(Msgs) /\ chan # <<>> /\ hand' = <<Head(chan)>> /\ chan' = Tail(chan)
      /\ loop = "select" /\ loop' = "taken" /\ UNCHANGED <<fed, stage>>
  BY DEF Take, QueuesTyped
<1>2. /\ chan' \in Seq(Msgs) /\ Len(chan') = Len(chan) - 1 /\ Len(chan) \in Nat /\ Len(chan) > 0
      /\ \A i \in 1 .. Len(chan') : chan'[i] = chan[i + 1]
  BY <1>1, HeadTailProperties
<1>3. Range(hand') = {chan[1]}
  BY <1>1 DEF Range
<1>4. ASSUME NEW m PROVE m \in Range(chan) <=> m = chan[1] \/ m \in Range(chan')
  <2>1. m \in Range(chan) <=> \E i \in 1 .. Len(chan) : m = chan[i]
    BY <1>1, RangeIs, Zenon
  <2>2. m \in Range(chan') <=> \E i \in 1 .. Len(chan') : m = chan'[i]
    <3>1. chan' \in Seq(Msgs)
      BY <1>2
    <3> QED BY <3>1, RangeIs
  <2>3. ASSUME NEW i \in 1 .. Len(chan), m = chan[i] PROVE m = chan[1] \/ \E j \in 1 .. Len(chan') : m = chan'[j]
    <3>1. CASE i = 1
      BY <2>3, <3>1
    <3>2. CASE i # 1
      <4>1. i - 1 \in 1 .. Len(chan') /\ (i - 1) + 1 = i
        BY <1>2, <3>2
      <4> QED BY <1>2, <2>3, <4>1
    <3> QED BY <3>1, <3>2
  <2>4. ASSUME NEW j \in 1 .. Len(chan'), m = chan'[j] PROVE \E i \in 1 .. Len(chan) : m = chan[i]
    <3>1. j + 1 \in 1 .. Len(chan)
      BY <1>2
    <3> QED BY <1>2, <2>4, <3>1
  <2>5. 1 \in 1 .. Len(chan)
    BY <1>2
  <2> QED BY <2>1, <2>2, <2>3, <2>4, <2>5
<1>5. ASSUME NEW m PROVE m \in Held' <=> m \in Held
  <2>1. m \in Held' <=> \/ m \in Range(chan') \/ m = chan[1]
                        \/ \E q \in Producers : stage[q] \in {"reserved", "refused"} /\ m = Current(q)
    BY <1>1, <1>3 DEF Held, Reserved, Current
  <2>2. m \in Held <=> \/ m \in Range(chan)
                       \/ \E q \in Producers : stage[q] \in {"reserved", "refused"} /\ m = Current(q)
    BY <1>1, HeldIs
  <2> QED BY <1>4, <2>1, <2>2
<1>6. Accepted' \subseteq Accepted
  BY <1>1, <1>4 DEF Accepted, Current
<1> QED BY <1>5, <1>6

\* The message the loop has just taken is in its hand alone.
LEMMA ReleaseHeld ==
    ASSUME HandlersTyped, QueuesTyped, LoopInv, PathInv, Release
    PROVE  /\ hand[1] \in Msgs /\ hand[1] \in Held /\ Held' = Held \ {hand[1]}
           /\ Accepted' = Accepted
<1>1. /\ hand \in Seq(Msgs) /\ Len(hand) = 1 /\ chan \in Seq(Msgs)
      /\ loop = "taken" /\ loop' # "taken" /\ UNCHANGED <<fed, stage, chan>>
  BY DEF Release, LoopInv, QueuesTyped, LoopRest, producerVars
<1>2. hand[1] \in Msgs /\ \A m : m \in Range(hand) <=> m = hand[1]
  <2>1. \A m : m \in Range(hand) <=> \E i \in 1 .. 1 : m = hand[i]
    BY <1>1, RangeIs
  <2> QED BY <1>1, <2>1
<1>3. Len(Out) + 1 \in 1 .. Len(Path) /\ hand[1] = Path[Len(Out) + 1] /\ Len(Out) \in Nat
  BY <1>1, QueuesOnPath, OutTyped
<1>4. ASSUME NEW i \in 1 .. Len(chan), chan[i] = hand[1] PROVE FALSE
  <2>1. /\ Len(Out) + 1 + i \in 1 .. Len(Path) /\ chan[i] = Path[Len(Out) + 1 + i]
        /\ Len(Out) + 1 < Len(Out) + 1 + i
    BY <1>1, <1>3, QueuesOnPath
  <2>p. PICK p \in Producers : \E x \in 1 .. fed[p] : Path[Len(Out) + 1] = Feed[p][x]
    BY <1>3 DEF PathInv
  <2>2. PICK x \in 1 .. fed[p] : Path[Len(Out) + 1] = Feed[p][x]
    BY <2>p
  <2>3. x \in DOMAIN Feed[p] /\ x \in Nat
    BY FedBelow
  <2>4. DOMAIN Path = 1 .. Len(Path)
    BY PathPlaces
  <2>5. \A k, j \in 1 .. Len(Path) : \A y, z \in DOMAIN Feed[p] :
            k < j /\ Path[k] = Feed[p][y] /\ Path[j] = Feed[p][z] => y < z
    BY <2>4 DEF PathInv, InOrder
  <2>6. Path[Len(Out) + 1 + i] = Feed[p][x]
    BY <1>3, <1>4, <2>1, <2>2, Zenon
  <2>7. x < x
    BY <1>3, <2>1, <2>2, <2>3, <2>5, <2>6
  <2> QED BY <2>3, <2>7
<1>5. hand[1] \notin Range(chan)
  <2>1. hand[1] \in Range(chan) => \E i \in 1 .. Len(chan) : hand[1] = chan[i]
    BY <1>1, RangeIs
  <2> QED BY <1>4, <2>1
<1>6. \A q \in Producers : stage[q] \in {"reserved", "refused"} => Current(q) # hand[1]
  <2>1. \A q \in Producers : stage[q] # "idle" => Path[Len(Out) + 1] # Current(q)
    BY <1>3, NotYetOnPath
  <2> QED BY <1>3, <2>1
<1>7. hand[1] \in Held
  BY <1>1, <1>2, HeldIs
<1>8. ASSUME NEW m PROVE m \in Held' <=> m \in Held /\ m # hand[1]
  <2>1. m \in Held' <=> \/ m \in Range(chan)
                        \/ \E q \in Producers : stage[q] \in {"reserved", "refused"} /\ m = Current(q)
    BY <1>1 DEF Held, Reserved, Current
  <2> QED BY <1>1, <1>2, <1>5, <1>6, <2>1, HeldIs
<1>9. Accepted' = Accepted
  BY <1>1 DEF Accepted, Current
<1> QED BY <1>2, <1>7, <1>8, <1>9

\* No other step of the loop touches the bytes.
LEMMA BytesChange ==
    ASSUME [Next]_vars
    PROVE  \/ UNCHANGED <<fed, stage, chan, buffered>> /\ ~Take /\ ~Release
           \/ \E p \in Producers : Handler(p)
           \/ (Take /\ buffered' = buffered) \/ Release
BY DEF Next, Signals, Select, Inside, Emitting, Done, vars, producerVars, LoopRest,
       ReportDenied, MarkLost, CallerLeaves, LinkChanges, Change, BroadcastProtoReload,
       Leave, EmitDenied, StatsTick, BatchTick, Take, EmitStats, EmitLink,
       ResetForMessage, Decode, Send, SendFails, Resume, Stall

LEMMA HandChange ==
    ASSUME [Next]_vars, LoopTyped, ~Take, ~Release
    PROVE  /\ loop' = "taken" <=> loop = "taken"
           /\ loop = "taken" => hand' = hand
<1>1. CASE Select
  <2>1. loop = "select" /\ loop' # "taken"
    BY <1>1 DEF Select, Leave, EmitDenied, StatsTick, BatchTick, Take, Flush, Emit, ResetDecoder
  <2> QED BY <2>1
<1>2. CASE Inside
  <2>1. loop # "taken" /\ loop' # "taken"
    BY <1>2 DEF Inside, EmitStats, EmitLink, ResetForMessage, Decode, Flush, Emit, ResetDecoder
  <2> QED BY <2>1
<1>3. CASE Emitting
  BY <1>3 DEF Emitting, Send, SendFails, Resume, Stall, loopVars, LoopTyped
<1> QED BY <1>1, <1>2, <1>3, LoopChange

BytesInv ==
    /\ IsFiniteSet(Bytes(Held))
    /\ buffered = Cardinality(Bytes(Held))
    /\ Cardinality(Bytes(Accepted)) <= MaxBytes

LEMMA AcceptedIsHeld == Accepted \subseteq Held
BY DEF Accepted, Held, Reserved

LEMMA BytesStep == TypeInv /\ LoopInv /\ PathInv /\ BytesInv /\ [Next]_vars => BytesInv'
<1> SUFFICES ASSUME TypeInv, LoopInv, PathInv, BytesInv, [Next]_vars PROVE BytesInv'
  OBVIOUS
<1>0. HandlersTyped /\ QueuesTyped /\ LoopTyped
  BY DEF TypeInv
<1>1. /\ IsFiniteSet(Bytes(Held)) /\ buffered = Cardinality(Bytes(Held))
      /\ Cardinality(Bytes(Held)) \in Nat /\ MaxBytes \in Nat
  BY Limits, FS_CardinalityType DEF BytesInv
<1>2. IsFiniteSet(Bytes(Accepted)) /\ Cardinality(Bytes(Accepted)) <= MaxBytes
  BY <1>1, AcceptedIsHeld, BytesWithin DEF BytesInv
\* What no longer counts among the accepted costs nothing.
<1>3. ASSUME Accepted' \subseteq Accepted PROVE Cardinality(Bytes(Accepted')) <= MaxBytes
  <2>1. /\ Cardinality(Bytes(Accepted')) <= Cardinality(Bytes(Accepted))
        /\ Cardinality(Bytes(Accepted')) \in Nat /\ Cardinality(Bytes(Accepted)) \in Nat
    BY <1>2, <1>3, BytesWithin
  <2> QED BY <1>1, <1>2, <2>1
<1>4. ASSUME Held' = Held, Accepted' \subseteq Accepted, buffered' = buffered PROVE BytesInv'
  BY <1>1, <1>3, <1>4 DEF BytesInv
<1>5. ASSUME NEW p \in Producers, Reserve(p) PROVE BytesInv'
  <2>1. /\ Current(p) \in Msgs /\ Current(p) \notin Held /\ Held' = Held \cup {Current(p)}
        /\ Accepted' = Accepted \/ stage'[p] = "reserved"
    <3>1. stage[p] # "idle"
      BY <1>5 DEF Reserve
    <3> QED BY <1>0, <1>5, <3>1, CurrentIsMsg, HandlerHeld
  <2>2. IsFiniteSet(Bytes(Held')) /\ Cardinality(Bytes(Held')) = Cardinality(Bytes(Held)) + Size[Current(p)]
    BY <1>1, <2>1, BytesAdd
  <2>3. buffered' = Cardinality(Bytes(Held'))
    BY <1>1, <1>5, <2>2 DEF Reserve
  <2>4. CASE Accepted' = Accepted
    BY <1>3, <2>2, <2>3, <2>4 DEF BytesInv
  <2>5. CASE stage'[p] = "reserved"
    <3>1. buffered' <= MaxBytes
      <4>1. stage[p] = "counted" /\ stage \in [Producers -> {"idle", "counted", "reserved", "refused"}]
        BY <1>0, <1>5 DEF Reserve, HandlersTyped
      <4>2. ~(buffered' > MaxBytes)
        BY <1>5, <2>5, <4>1 DEF Reserve, Step
      <4>3. buffered' \in Nat
        BY <2>2, <2>3, FS_CardinalityType
      <4> QED BY <1>1, <4>2, <4>3
    <3>2. Accepted' \subseteq Held'
      BY DEF Accepted, Held, Reserved
    <3>3. /\ Cardinality(Bytes(Accepted')) <= Cardinality(Bytes(Held'))
          /\ Cardinality(Bytes(Accepted')) \in Nat /\ Cardinality(Bytes(Held')) \in Nat
      BY <2>2, <3>2, BytesWithin
    <3>4. Cardinality(Bytes(Accepted')) <= MaxBytes
      BY <1>1, <2>3, <3>1, <3>3
    <3> QED BY <2>2, <2>3, <3>4 DEF BytesInv
  <2> QED BY <2>1, <2>4, <2>5
<1>6. ASSUME NEW p \in Producers, GiveUp(p) PROVE BytesInv'
  <2>1. /\ Current(p) \in Msgs /\ Current(p) \in Held /\ Held' = Held \ {Current(p)}
        /\ Accepted' \subseteq Accepted
    <3>1. stage[p] # "idle"
      BY <1>6 DEF GiveUp
    <3> QED BY <1>0, <1>6, <3>1, CurrentIsMsg, HandlerHeld
  <2>2. IsFiniteSet(Bytes(Held')) /\ Cardinality(Bytes(Held')) = Cardinality(Bytes(Held)) - Size[Current(p)]
    BY <1>1, <2>1, BytesRemove
  <2>3. buffered' = Cardinality(Bytes(Held'))
    BY <1>1, <1>6, <2>2 DEF GiveUp
  <2> QED BY <1>3, <2>1, <2>2, <2>3 DEF BytesInv
<1>7. CASE Release
  <2>1. hand[1] \in Msgs /\ hand[1] \in Held /\ Held' = Held \ {hand[1]} /\ Accepted' \subseteq Accepted
    BY <1>0, <1>7, ReleaseHeld
  <2>2. IsFiniteSet(Bytes(Held')) /\ Cardinality(Bytes(Held')) = Cardinality(Bytes(Held)) - Size[hand[1]]
    BY <1>1, <2>1, BytesRemove
  <2>3. buffered' = Cardinality(Bytes(Held'))
    BY <1>1, <1>7, <2>2 DEF Release
  <2> QED BY <1>3, <2>1, <2>2, <2>3 DEF BytesInv
<1>8. CASE Take /\ buffered' = buffered
  BY <1>0, <1>4, <1>8, TakeKeepsHeld
<1>9. ASSUME NEW p \in Producers, Arrive(p) PROVE BytesInv'
  <2>1. buffered' = buffered
    BY <1>9 DEF Arrive
  <2> QED BY <1>0, <1>4, <1>9, <2>1, ArriveKeepsHeld
<1>10. ASSUME NEW p \in Producers, Put(p) PROVE BytesInv'
  <2>1. buffered' = buffered
    BY <1>10 DEF Put
  <2> QED BY <1>0, <1>4, <1>10, <2>1, HandlerHeld
<1>11. CASE UNCHANGED <<fed, stage, chan, buffered>> /\ ~Take /\ ~Release
  <2>1. (loop' = "taken" <=> loop = "taken") /\ (loop = "taken" => hand' = hand)
    BY <1>0, <1>11, HandChange
  <2>2. Held' = Held
    <3>1. {m \in Range(hand') : loop' = "taken"} = {m \in Range(hand) : loop = "taken"}
      BY <2>1
    <3> QED BY <1>11, <3>1 DEF Held, Reserved, Current
  <2>3. Accepted' = Accepted
    BY <1>11 DEF Accepted, Current
  <2> QED BY <1>4, <1>11, <2>2, <2>3
<1> QED BY <1>5, <1>6, <1>7, <1>8, <1>9, <1>10, <1>11, BytesChange DEF Handler

LEMMA BytesInit == Init => BytesInv
<1> SUFFICES ASSUME Init PROVE BytesInv
  OBVIOUS
<1>1. Held = {} /\ Accepted = {}
  <2>1. Range(chan) = {}
    <3>1. chan \in Seq(Msgs) /\ Len(chan) = 0
      BY EmptyQueue DEF Init
    <3> QED BY <3>1 DEF Range
  <2> QED BY <2>1 DEF Init, Held, Reserved, Accepted
<1>2. Bytes(Held) = {} /\ Bytes(Accepted) = {}
  BY <1>1 DEF Bytes
<1>3. MaxBytes \in Nat /\ Cardinality({}) = 0 /\ IsFiniteSet({})
  BY Limits, FS_EmptySet
<1> QED BY <1>2, <1>3 DEF Init, BytesInv

LEMMA BytesHold == Spec => [](TypeInv /\ LoopInv /\ PathInv /\ BytesInv)
BY BytesInit, BytesStep, PathHolds, PTL DEF Spec

\* However handlers and loop interleave, the channel never holds more bytes
\* than the cap, and the count is that of the messages that are still there
\* (subscribe.go's handler, loop.go runLoop).
THEOREM BytesStayWithinCap == Spec => []BytesWithinCap
<1>1. TypeInv /\ BytesInv => BytesWithinCap
  <2> SUFFICES ASSUME TypeInv, BytesInv PROVE BytesWithinCap
    OBVIOUS
  <2>1. Range(chan) \subseteq Accepted /\ Range(chan) \subseteq Held /\ Accepted \subseteq Held
    BY AcceptedIsHeld DEF Accepted
  <2>2. IsFiniteSet(Bytes(Accepted))
    BY <2>1, BytesWithin DEF BytesInv
  <2>3. /\ Cardinality(Bytes(Range(chan))) <= Cardinality(Bytes(Accepted))
        /\ Cardinality(Bytes(Range(chan))) \in Nat /\ Cardinality(Bytes(Accepted)) \in Nat
    BY <2>1, <2>2, BytesWithin
  <2>4. Cardinality(Bytes(Range(chan))) <= MaxBytes
    BY <2>3, Limits DEF BytesInv
  <2> QED BY <2>4 DEF BytesInv, BytesWithinCap
<1> QED BY <1>1, BytesHold, PTL

-----------------------------------------------------------------------------
\* Nothing was decoded with a version that is still to come.
DecodedPast == \A i \in 1 .. Len(Out) : Out[i].version <= schema

LEMMA DecodedPastStep == TypeInv /\ LoopInv /\ DecodedPast /\ [Next]_vars => DecodedPast'
<1> SUFFICES ASSUME TypeInv, LoopInv, DecodedPast, [Next]_vars PROVE DecodedPast'
  OBVIOUS
<1>0. QueuesTyped /\ VersionsTyped /\ TypeInv' /\ Out \in Seq(Decoded) /\ schema \in Nat /\ schema' \in Nat
  BY TypeInvStep, OutTyped DEF TypeInv, VersionsTyped
<1>1. schema <= schema'
  <2>1. schema' \in {schema, schema + 1}
    BY VersionsChange DEF Change, BroadcastProtoReload, Send, StatsTick, ResetForMessage, Decode,
       LoopRest, reloadVars
  <2> QED BY <1>0, <2>1
<1>2. \A r \in Decoded : r.version \in Nat
  BY Limits DEF Decoded
<1>3. \A i \in 1 .. Len(Out) : Out[i].version <= schema'
  <2> SUFFICES ASSUME NEW i \in 1 .. Len(Out) PROVE Out[i].version <= schema'
    OBVIOUS
  <2>1. Out[i].version \in Nat /\ Out[i].version <= schema
    BY <1>0, <1>2, ElementOfSeq DEF DecodedPast
  <2> QED BY <1>0, <1>1, <2>1
<1>4. CASE Out' = Out
  BY <1>3, <1>4 DEF DecodedPast
<1>5. CASE Decode
  <2>1. PICK r \in Decoded : r.version = decoder' /\ Out' = Append(Out, r)
    BY <1>0, <1>5, DecodeExtendsOut
  <2>2. decoder' <= schema'
    BY <1>0 DEF TypeInv, VersionsTyped
  <2>3. Len(Out') = Len(Out) + 1 /\ Out'[Len(Out) + 1] = r /\ \A i \in 1 .. Len(Out) : Out'[i] = Out[i]
    BY <1>0, <2>1, AppendProperties
  <2>4. Len(Out) \in Nat
    BY <1>0
  <2>5. ASSUME NEW i \in 1 .. Len(Out') PROVE Out'[i].version <= schema'
    <3>1. CASE i \in 1 .. Len(Out)
      BY <1>3, <2>3, <3>1
    <3>2. CASE i = Len(Out) + 1
      BY <2>1, <2>2, <2>3, <3>2
    <3> QED BY <2>3, <2>4, <3>1, <3>2
  <2> QED BY <2>5 DEF DecodedPast
<1>6. CASE Leave \/ BatchTick
  <2>1. \E next : Flush(batch, next)
    BY <1>6 DEF Leave, BatchTick
  <2>2. batch \in Seq(Decoded)
    BY <1>0 DEF QueuesTyped
  <2>3. Out' = Out
    BY <1>0, <2>1, <2>2, FlushKeepsPath DEF Out
  <2> QED BY <1>4, <2>3
<1>7. ASSUME NEW p \in Producers, Put(p) PROVE Out' = Out
  BY <1>7 DEF Put, loopVars, emitVars, Out
<1>8. CASE UNCHANGED <<chan, hand, batch, given>> \/ Take \/ Release
  <2>1. Out' = Out
    BY <1>8 DEF Take, Release, emitVars, Out
  <2> QED BY <1>4, <2>1
<1> QED BY <1>4, <1>5, <1>6, <1>7, <1>8, QueuesChange

LEMMA DecodedPastInit == Init => DecodedPast
<1> SUFFICES ASSUME Init PROVE DecodedPast
  OBVIOUS
<1>1. QueuesTyped /\ Len(given) = 0 /\ Len(batch) = 0
  BY TypeInvInit, EmptyQueue DEF TypeInv, Init
<1>2. Len(Out) = 0
  BY <1>1, OutTyped
<1> QED BY <1>2 DEF DecodedPast

\* What is in the batch or was handed out is of a version in force by then.
LEMMA DecodedOfPast ==
    ASSUME QueuesTyped, DecodedPast, schema \in Nat, NEW b \in Range(batch) \cup Range(given)
    PROVE  b.msg \in Msgs /\ b.version \in 1 .. schema
<1>1. /\ batch \in Seq(Decoded) /\ given \in Seq(Decoded)
      /\ Len(batch) \in Nat /\ Len(given) \in Nat /\ Len(Out) = Len(given) + Len(batch)
  BY OutTyped DEF QueuesTyped
<1>2. \A i \in 1 .. Len(given) + Len(batch) :
         Out[i] = IF i <= Len(given) THEN given[i] ELSE batch[i - Len(given)]
  BY <1>1, ConcatProperties DEF Out
<1>3. \E i \in 1 .. Len(Out) : b = Out[i]
  <2>1. CASE b \in Range(given)
    <3>1. PICK i \in 1 .. Len(given) : b = given[i]
      BY <1>1, <2>1, RangeIs
    <3>2. i \in 1 .. Len(Out) /\ i <= Len(given)
      BY <1>1
    <3> QED BY <1>1, <1>2, <3>1, <3>2
  <2>2. CASE b \in Range(batch)
    <3>1. PICK i \in 1 .. Len(batch) : b = batch[i]
      BY <1>1, <2>2, RangeIs
    <3>2. Len(given) + i \in 1 .. Len(Out) /\ ~(Len(given) + i <= Len(given))
          /\ Len(given) + i - Len(given) = i
      BY <1>1
    <3> QED BY <1>1, <1>2, <3>1, <3>2
  <2> QED BY <2>1, <2>2
<1>4. b \in Decoded /\ b.version <= schema
  BY <1>3, OutTyped, ElementOfSeq DEF DecodedPast
<1> QED BY <1>4, Limits DEF Decoded

\* The variables range over what the code can hold: the channel and the batch
\* within their limits, no more messages dropped than counted, no byte count
\* below zero, and no version that is still to come (subscribe.go, loop.go).
THEOREM LoopTypeCorrect == Spec => []TypeOK
<1>1. TypeInv /\ LoopInv /\ BytesInv /\ Balanced /\ DecodedPast => TypeOK
  <2> SUFFICES ASSUME TypeInv, LoopInv, BytesInv, Balanced, DecodedPast PROVE TypeOK
    OBVIOUS
  <2>0. HandlersTyped /\ CountersTyped /\ FlagsTyped /\ VersionsTyped /\ LoopTyped /\ QueuesTyped
    BY DEF TypeInv
  <2>1. /\ \A p \in Producers : fed[p] \in 0 .. Len(Feed[p])
        /\ stage \in [Producers -> {"idle", "counted", "reserved", "refused"}]
    BY <2>0, FedBelow DEF HandlersTyped
  <2>2. total \in Nat /\ dropped \in 0 .. total
    <3>1. Len(Path) \in Nat /\ Cardinality(Busy) \in Nat /\ total \in Nat /\ dropped \in Nat
      BY <2>0, PathPlaced, BusyCounted DEF Placed, CountersTyped
    <3> QED BY <3>1 DEF Balanced
  <2>3. buffered \in Nat
    BY FS_CardinalityType DEF BytesInv
  <2>4. chan \in Seq(Msgs) /\ Len(chan) <= ChanCap /\ hand \in Seq(Msgs) /\ Len(hand) <= 1 /\ Len(batch) < MaxBatch
    BY <2>0 DEF QueuesTyped
  <2>5. denials \in 0 .. MaxDenials /\ reported \in 0 .. MaxDenials + 1 /\ flaps \in 0 .. MaxFlaps
    BY <2>0 DEF CountersTyped
  <2>6. {lost, left, dirty, down, linkDown, warmup, Limited} \subseteq BOOLEAN
    BY <2>0 DEF FlagsTyped
  <2>7. /\ schema \in 1 .. MaxReloads + 1 /\ casting \subseteq 1 .. schema
        /\ announced \in 1 .. schema /\ told \in 1 .. schema /\ decoder \in 0 .. schema
    BY <2>0 DEF VersionsTyped
  <2>8. \A b \in Range(batch) \cup Range(given) : b.msg \in Msgs /\ b.version \in 1 .. schema
    BY <2>0, <2>7, DecodedOfPast
  <2>9. /\ loop \in {"select", "stats", "link", "taken", "reset", "decode", "emitting", "ended"}
        /\ event.kind \in {"none", "batch", "reload", "stats", "error", "connection"}
        /\ after \in {"select", "stats", "link", "decode", "ended"}
        /\ outcome \in {"none", "sent", "failed"}
    BY <2>0 DEF LoopTyped
  <2>10. running \in Nat
    BY DEF LoopInv
  <2> QED BY <2>1, <2>2, <2>3, <2>4, <2>5, <2>6, <2>7, <2>8, <2>9, <2>10, Zenon DEF TypeOK
<1> QED
  BY <1>1, BytesHold, BalancedInit, BalancedStep, DecodedPastInit, DecodedPastStep, PTL DEF Spec

=============================================================================
