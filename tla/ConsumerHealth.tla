---------------------------- MODULE ConsumerHealth ----------------------------
(***************************************************************************)
(* What the client says of a consumer and of one message's fate with it     *)
(* (streams/consumers/consumerHealth, messageFate, ConsumerPosition,         *)
(* consumers/ConsumersPage, messages/MessageConsumers), against what the     *)
(* consumer did.  The consumer is the NATS server's: it delivers in order,   *)
(* counts what waits for an ack and reports the last delivered sequence and  *)
(* the floor below which everything is done.  The stream drops its oldest    *)
(* message for a new one when it is full.                                    *)
(***************************************************************************)
EXTENDS Naturals, FiniteSets

CONSTANTS
    HcMax,      \* bound on the messages published
    HcStored,   \* messages there before the consumer was created
    HcKeep,     \* the stream's max_msgs
    HcOdd,      \* messages of the subject a filter takes
    HcMaxAdmin  \* bound on pauses, filter changes and resets

ASSUME HcAssumption ==
    {HcMax, HcStored, HcKeep, HcMaxAdmin} \subseteq Nat /\ HcKeep > 0 /\ HcStored \in 1 .. HcKeep /\ HcStored <= HcMax

VARIABLES
    hcFirst, hcLast,  \* the messages in the stream
    hcConfig,
    hcFate,           \* what became of each message
    hcDelivered, hcFloor, hcBegun, hcPaused, hcWaits, hcAgain,
    hcMoved,          \* messages an administrator moved the position over
    hcAdmin,
    hcPage,           \* the overview, or the stream's consumers tab
    hcListing,        \* the overview's streams, read before its consumers
    hcShown,          \* the stream and the consumer the page shows
    hcSpot,           \* where the consumer is: the messages looked up
    hcFilter          \* "problems only"

hcStreamVars == <<hcFirst, hcLast>>
hcPosition == <<hcFate, hcDelivered, hcFloor, hcBegun, hcAgain, hcMoved>>
hcSwitches == <<hcConfig, hcPaused, hcAdmin>>
hcClientVars == <<hcPage, hcListing, hcShown, hcSpot, hcFilter>>
hcVars == <<hcStreamVars, hcPosition, hcSwitches, hcWaits, hcClientVars>>

HcMessages == 1 .. HcMax
HcHeld == hcFirst .. hcLast

\* "before" the start, "ahead" of the position, "out" with a client, "sent" to one
\* that does not ack, "acked", "dropped" after the last attempt, "missed" when it
\* left the stream undelivered.
HcFates == {"before", "ahead", "out", "sent", "acked", "dropped", "missed"}

HcStart(policy) == CASE policy = "all" -> 1 [] policy = "by_start_sequence" -> 2
                     [] policy = "new" -> HcStored + 1 [] policy = "last" -> HcStored

HcTakes(filter, m) == filter = "all" \/ m \in HcOdd
HcOut == {m \in HcMessages : hcFate[m] = "out"}
HcLeast(s) == CHOOSE m \in s : \A n \in s : m <= n

HcNothing == [first |-> 0, messages |-> 0]
HcNoInfo == [delivered |-> 0, floor |-> 0, begun |-> FALSE, out |-> 0, pending |-> 0, filter |-> "all",
             paused |-> FALSE, waits |-> FALSE, again |-> FALSE, quiet |-> FALSE]
HcNoSpot == [oldest |-> 0, next |-> 0]

HcInit ==
    /\ hcFirst = 1 /\ hcLast = HcStored
    /\ hcConfig \in [policy : {"all", "by_start_sequence", "new", "last"}, ack : {"explicit", "all", "none"},
                     maxDeliver : {0, 1}, maxOut : {0, 2}, push : BOOLEAN, filter : {"all", "odd"}]
    /\ hcFate = [m \in HcMessages |-> IF m < HcStart(hcConfig.policy) THEN "before" ELSE "ahead"]
    /\ hcDelivered = HcStart(hcConfig.policy) - 1 /\ hcFloor = hcDelivered
    /\ hcBegun = FALSE /\ hcPaused = FALSE /\ hcWaits = FALSE /\ hcAgain = FALSE
    /\ hcMoved = {} /\ hcAdmin = 0
    /\ hcPage \in {"overview", "tab"} /\ hcListing = HcNothing /\ hcSpot = HcNoSpot /\ hcFilter = FALSE
    /\ hcShown = [stream |-> HcNothing, consumer |-> HcNoInfo]

---------------------------------------------------------------------------
\* The server and the clients of the consumer.

HcLine(delivered, filter) == {m \in HcHeld : m > delivered /\ HcTakes(filter, m)}

\* Discard old.
HcPublish ==
    /\ hcLast < HcMax /\ hcLast' = hcLast + 1
    /\ hcFirst' = IF hcLast - hcFirst + 1 = HcKeep THEN hcFirst + 1 ELSE hcFirst
    /\ hcFate' = [m \in HcMessages |->
          IF m < hcFirst' THEN CASE hcFate[m] = "ahead" -> "missed" [] hcFate[m] = "out" -> "dropped" [] OTHER -> hcFate[m]
          ELSE hcFate[m]]
    /\ UNCHANGED <<hcDelivered, hcFloor, hcBegun, hcAgain, hcMoved, hcSwitches, hcWaits, hcClientVars>>

HcDeliver ==
    /\ ~hcPaused /\ hcWaits
    /\ hcConfig.maxOut = 0 \/ Cardinality(HcOut) < hcConfig.maxOut
    /\ HcLine(hcDelivered, hcConfig.filter) # {}
    /\ LET m == HcLeast(HcLine(hcDelivered, hcConfig.filter)) IN
          /\ hcFate' = [hcFate EXCEPT ![m] = IF hcConfig.ack = "none" THEN "sent" ELSE "out"]
          /\ hcDelivered' = m
    /\ hcBegun' = TRUE
    /\ UNCHANGED <<hcStreamVars, hcFloor, hcAgain, hcMoved, hcSwitches, hcWaits, hcClientVars>>

\* The floor follows an ack, and an attempt that was the last one only then.
HcAck(m) ==
    /\ m \in HcOut
    /\ hcFate' = [n \in HcMessages |-> IF n = m \/ (hcConfig.ack = "all" /\ n <= m /\ n \in HcOut) THEN "acked" ELSE hcFate[n]]
    /\ LET left == {n \in HcOut : hcFate'[n] = "out"} IN
          /\ hcFloor' = IF left = {} THEN hcDelivered ELSE HcLeast(left) - 1
          /\ hcAgain' = (hcAgain /\ left # {})
    /\ UNCHANGED <<hcStreamVars, hcDelivered, hcBegun, hcMoved, hcSwitches, hcWaits, hcClientVars>>

HcAckWaitEnds(m) ==
    /\ m \in HcOut
    /\ IF hcConfig.maxDeliver = 1 THEN hcFate' = [hcFate EXCEPT ![m] = "dropped"] /\ UNCHANGED hcAgain
       ELSE hcAgain' = TRUE /\ UNCHANGED hcFate
    /\ UNCHANGED <<hcStreamVars, hcDelivered, hcFloor, hcBegun, hcMoved, hcSwitches, hcWaits, hcClientVars>>

\* A client of the consumer comes.
HcClientComes == ~hcWaits /\ hcWaits' = TRUE /\ UNCHANGED <<hcStreamVars, hcPosition, hcSwitches, hcClientVars>>

HcAdministers == hcAdmin < HcMaxAdmin /\ hcAdmin' = hcAdmin + 1 /\ UNCHANGED <<hcStreamVars, hcWaits, hcClientVars>>

HcPause == HcAdministers /\ hcPaused' = ~hcPaused /\ UNCHANGED <<hcPosition, hcConfig>>

\* The position stays; what it passed while the filter left it out is not delivered.
HcChangeFilter ==
    /\ HcAdministers
    /\ hcConfig' = [hcConfig EXCEPT !.filter = IF @ = "all" THEN "odd" ELSE "all"]
    /\ hcMoved' = hcMoved \cup {m \in HcMessages : m <= hcDelivered /\ hcFate[m] = "ahead"}
    /\ UNCHANGED <<hcFate, hcDelivered, hcFloor, hcBegun, hcAgain, hcPaused>>

\* Delivery starts again above the floor, or at a sequence the policy allows.
HcResetTo ==
    {hcFloor + 1} \cup
    {s \in HcHeld : hcConfig.policy \in {"all", "by_start_sequence"} /\ s >= HcStart(hcConfig.policy)}

HcReset(s) ==
    /\ HcAdministers /\ s \in HcResetTo
    /\ hcDelivered' = s - 1 /\ hcFloor' = s - 1 /\ hcAgain' = FALSE
    /\ hcFate' = [m \in HcMessages |-> IF m < s THEN hcFate[m] ELSE IF m < hcFirst THEN "missed" ELSE "ahead"]
    /\ hcMoved' = (hcMoved \cap 1 .. s - 1) \cup {m \in HcMessages : m < s /\ hcFate[m] \in {"ahead", "out"}}
    /\ UNCHANGED <<hcBegun, hcConfig, hcPaused>>

---------------------------------------------------------------------------
\* What a read answers.

HcStreamRead == [first |-> hcFirst, messages |-> hcLast - hcFirst + 1]

\* The last ack, or the last delivery, may be long ago, where that is looked at.
HcQuiet == IF Cardinality(HcOut) > 0 \/ ~hcWaits THEN BOOLEAN ELSE {FALSE}

HcConsumerRead(quiet) ==
    [delivered |-> hcDelivered, floor |-> hcFloor, begun |-> hcBegun, out |-> Cardinality(HcOut),
     pending |-> Cardinality(HcLine(hcDelivered, hcConfig.filter)), filter |-> hcConfig.filter,
     paused |-> hcPaused, waits |-> hcWaits, again |-> hcAgain, quiet |-> quiet]

\* getConsumersOverview: every stream, then the consumers of each.
HcListStreams ==
    /\ hcPage = "overview" /\ hcListing' = HcStreamRead /\ hcListing' # hcListing
    /\ UNCHANGED <<hcStreamVars, hcPosition, hcSwitches, hcWaits, hcPage, hcShown, hcSpot, hcFilter>>

HcListConsumers(quiet) ==
    /\ hcPage = "overview" /\ hcListing # HcNothing
    /\ hcShown' = [stream |-> hcListing, consumer |-> HcConsumerRead(quiet)] /\ hcListing' = HcNothing
    /\ UNCHANGED <<hcStreamVars, hcPosition, hcSwitches, hcWaits, hcPage, hcSpot, hcFilter>>

\* The tab reads the stream every five seconds.
HcTabReadsStream ==
    /\ hcPage = "tab" /\ hcShown' = [hcShown EXCEPT !.stream = HcStreamRead]
    /\ hcShown' # hcShown /\ hcSpot' = HcNoSpot
    /\ UNCHANGED <<hcStreamVars, hcPosition, hcSwitches, hcWaits, hcPage, hcListing, hcFilter>>

\* Its consumers are read when it opens, on focus and on Refresh, and when a
\* message's line of consumers is opened.
HcTabReadsConsumers(quiet) ==
    /\ hcPage = "tab" /\ hcShown' = [hcShown EXCEPT !.consumer = HcConsumerRead(quiet)]
    /\ hcShown' # hcShown /\ hcSpot' = HcNoSpot
    /\ UNCHANGED <<hcStreamVars, hcPosition, hcSwitches, hcWaits, hcPage, hcListing, hcFilter>>

\* useNextMessage: the first message from a sequence on that the filter takes, 0 for none.
HcNextMessage(from, filter) ==
    LET found == {m \in HcHeld : m >= from /\ HcTakes(filter, m)} IN IF found = {} THEN 0 ELSE HcLeast(found)

\* ConsumerPosition: the oldest that waits for an ack, no further than what was
\* delivered, and the next to deliver.
HcLookUp ==
    /\ hcPage = "tab" /\ hcShown.consumer # HcNoInfo
    /\ LET c == hcShown.consumer IN
          hcSpot' = [oldest |-> IF c.out = 0 \/ HcNextMessage(c.floor + 1, c.filter) > c.delivered THEN 0
                                ELSE HcNextMessage(c.floor + 1, c.filter),
                     next |-> IF c.pending = 0 THEN 0 ELSE HcNextMessage(c.delivered + 1, c.filter)]
    /\ hcSpot' # hcSpot
    /\ UNCHANGED <<hcStreamVars, hcPosition, hcSwitches, hcWaits, hcPage, hcListing, hcShown, hcFilter>>

---------------------------------------------------------------------------
\* messageFate.

\* startedAfter.
HcStartedAfter(m) ==
    CASE hcConfig.policy = "by_start_sequence" -> IF HcStart("by_start_sequence") > m THEN "yes" ELSE "no"
      [] hcConfig.policy = "new" -> IF m <= HcStored THEN "yes" ELSE "no"
      [] hcConfig.policy = "last" -> IF m <= HcStored THEN "maybe" ELSE "no"
      [] OTHER -> "no"

\* Mutant: the floor alone tells what is done.
HcByFloor(m, c) ==
    IF HcStartedAfter(m) = "yes" THEN {"before"}
    ELSE (IF HcStartedAfter(m) = "maybe" THEN {"before"} ELSE {}) \cup
         (IF m > c.delivered THEN {"ahead"}
          ELSE IF hcConfig.ack = "none" THEN {"sent"}
          ELSE IF m <= c.floor THEN {"acked", "dropped"}
          ELSE {"out"})

\* fateOf, as the set of fates its label leaves open.
HcFateOf(m, c) ==
    IF HcStartedAfter(m) = "yes" THEN {"before"}
    ELSE (IF HcStartedAfter(m) = "maybe" THEN {"before"} ELSE {}) \cup
         (IF m > c.delivered THEN {"ahead"}
          ELSE IF hcConfig.ack = "none" THEN {"sent"}
          ELSE IF m <= c.floor \/ c.out = 0 THEN {"acked", "dropped"}
          ELSE {"out", "dropped"} \cup (IF hcConfig.ack = "all" THEN {} ELSE {"acked"}))

\* messageFates leaves out the consumers whose filter does not take the subject.
HcFateShown(m) == HcTakes(hcConfig.filter, m)

---------------------------------------------------------------------------
\* consumerIssues.

HcAtLimit(c) == hcConfig.maxOut > 0 /\ c.out >= hcConfig.maxOut
HcNextSeq(c) == c.delivered + 1

\* streamFullIssue: full, and the next message is the oldest or older.
HcStreamFull(s, c) == c.pending > 0 /\ s.messages = HcKeep /\ HcNextSeq(c) <= s.first

\* "Losing messages": the ones it names, of those the filter takes.
HcLoses(s, c) ==
    IF HcStreamFull(s, c) /\ HcNextSeq(c) < s.first /\ c.begun
    THEN {m \in HcNextSeq(c) .. s.first - 1 : HcTakes(c.filter, m)} ELSE {}

HcIssues(s, c) ==
    (IF c.paused THEN {"paused"} ELSE {})
    \cup (IF ~HcAtLimit(c) THEN {} ELSE IF c.quiet THEN {"ack_limit"} ELSE {"at_ack_limit"})
    \cup (IF ~c.paused /\ c.pending > 0 /\ ~c.waits /\ hcConfig.push THEN {"no_subscriber"} ELSE {})
    \cup (IF ~c.paused /\ ~HcAtLimit(c) /\ c.pending > 0 /\ ~c.waits /\ ~hcConfig.push /\ (c.begun => c.quiet)
          THEN {"nobody_pulling"} ELSE {})
    \cup (IF c.again /\ c.out > 0 THEN {"redelivering"} ELSE {})
    \cup (IF HcStreamFull(s, c) THEN {"stream_full"} ELSE {})

\* consumerState.
HcState(s, c) ==
    IF HcIssues(s, c) \cap {"ack_limit", "no_subscriber"} # {} THEN "stuck"
    ELSE IF HcIssues(s, c) # {} THEN "warning"
    ELSE IF c.pending > 0 \/ c.out > 0 THEN "working" ELSE "caught_up"

\* ConsumersPage: the filter of rows; the export holds the rows shown.
HcRowShown == hcFilter => HcIssues(hcShown.stream, hcShown.consumer) # {}

HcProblemsOnly ==
    /\ hcPage = "overview" /\ hcShown.consumer # HcNoInfo /\ hcFilter' = ~hcFilter
    /\ UNCHANGED <<hcStreamVars, hcPosition, hcSwitches, hcWaits, hcPage, hcListing, hcShown, hcSpot>>

\* A row opens the stream's tab, which has what it read itself.
HcOpen ==
    /\ hcPage = "overview" /\ hcShown.consumer # HcNoInfo /\ HcRowShown
    /\ hcPage' = "tab" /\ hcListing' = HcNothing /\ hcFilter' = FALSE
    /\ hcShown' = [stream |-> HcNothing, consumer |-> HcNoInfo] /\ UNCHANGED hcSpot
    /\ UNCHANGED <<hcStreamVars, hcPosition, hcSwitches, hcWaits>>

HcNext ==
    \/ HcPublish \/ HcDeliver \/ HcClientComes \/ HcPause \/ HcChangeFilter
    \/ (\E m \in HcMessages : HcAck(m) \/ HcAckWaitEnds(m))
    \/ (\E s \in 1 .. HcMax + 1 : HcReset(s))
    \/ (\E quiet \in HcQuiet : HcListConsumers(quiet) \/ HcTabReadsConsumers(quiet))
    \/ HcListStreams \/ HcTabReadsStream \/ HcLookUp \/ HcProblemsOnly \/ HcOpen

HcSpec == HcInit /\ [][HcNext]_hcVars

---------------------------------------------------------------------------
HcTypeOK ==
    /\ hcFirst \in 1 .. HcMax /\ hcLast \in 1 .. HcMax /\ hcLast - hcFirst < HcKeep
    /\ hcFate \in [HcMessages -> HcFates] /\ hcMoved \subseteq HcMessages
    /\ {hcDelivered, hcFloor} \subseteq 0 .. HcMax /\ hcFloor <= hcDelivered
    /\ {hcBegun, hcPaused, hcWaits, hcAgain, hcFilter} \subseteq BOOLEAN
    /\ hcAdmin \in 0 .. HcMaxAdmin /\ hcPage \in {"overview", "tab"}
    /\ {hcSpot.oldest, hcSpot.next} \subseteq 0 .. HcMax
    /\ {hcListing.first, hcShown.stream.first} \subseteq 0 .. HcMax

\* Of a message that is in the stream, what the page says became of it is what
\* became of it, unless an administrator moved the position over it.
HcFateTrue ==
    \A m \in HcHeld \ hcMoved : HcFateShown(m) => hcFate[m] \in HcFateOf(m, HcConsumerRead(FALSE))

\* The messages the overview calls lost left the stream before the consumer
\* reached them, whatever was delivered between the two reads it is made of.
HcLossReal ==
    hcPage = "overview" => \A m \in HcLoses(hcShown.stream, hcShown.consumer) : hcFate[m] \in {"missed", "before"}

HcVerdictsTrue == HcFateTrue /\ HcLossReal
=============================================================================
