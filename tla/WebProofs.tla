------------------------------ MODULE WebProofs ------------------------------
(***************************************************************************)
(* What the client shows of what keeps arriving, for every value of its    *)
(* constants: the verdicts of a consumer, the live feed, the panel and the *)
(* table of messages, the keys of a bucket that is watched, the list of a  *)
(* stream with its export, and a search; and of these, and of the requests *)
(* with their replies, that every state has its type.                      *)
(***************************************************************************)
EXTENDS ConsumerHealth, LiveView, MessageViewer, MessageTable, KVWatch,
        MessageList, MessageSearch, RequestReply,
        FiniteSetTheorems, WellFoundedInduction, TLAPS

---------------------------------------------------------------------------
(***************************************************************************)
(* A nonempty set of numbers up to N has a least and a greatest one.       *)
(***************************************************************************)

\* Among the intervals that end at one of them, one is in no other.
LEMMA LeastOf ==
    ASSUME NEW N \in Nat, NEW T \in SUBSET (1 .. N), T # {}
    PROVE  \E m \in T : \A n \in T : m <= n
<1> DEFINE I == {1 .. m : m \in T}
           R == StrictSubsetOrdering(1 .. N)
<1>1. IsFiniteSet(1 .. N)
  BY FS_Interval
<1>2. IsWellFoundedOn(R, SUBSET (1 .. N))
  BY <1>1, FS_StrictSubsetOrderingWellFounded, FS_FiniteSubsetsOfFinite
<1>3. I \subseteq SUBSET (1 .. N) /\ I # {}
  <2>1. \A m \in T : 1 .. m \in SUBSET (1 .. N)
    OBVIOUS
  <2>2. PICK m \in T : TRUE
    OBVIOUS
  <2>3. 1 .. m \in I
    OBVIOUS
  <2> QED BY <2>1, <2>3
<1>4. PICK S \in I : \A U \in I : ~ (<<U, S>> \in R)
  <2> HIDE DEF I, R
  <2> QED BY <1>2, <1>3, WFMin
<1>5. PICK m \in T : S = 1 .. m
  OBVIOUS
<1>6. ASSUME NEW n \in T PROVE m <= n
  <2>1. m \in 1 .. N /\ n \in 1 .. N /\ 1 .. n \in SUBSET (1 .. N) /\ S \in SUBSET (1 .. N)
    BY <1>3
  <2>2. ~ (1 .. n \subseteq S /\ 1 .. n # S)
    BY <1>4, <2>1 DEF StrictSubsetOrdering
  <2>3. CASE n < m
    <3>1. 1 .. n \subseteq 1 .. m /\ m \in 1 .. m /\ m \notin 1 .. n
      BY <2>1, <2>3
    <3> QED BY <3>1, <2>2, <1>5
  <2> QED BY <2>1, <2>3
<1> HIDE DEF I, R
<1> QED BY <1>6

\* And a greatest one: its mirror image has a least.
LEMMA GreatestOf ==
    ASSUME NEW N \in Nat, NEW T \in SUBSET (1 .. N), T # {}
    PROVE  \E m \in T : \A n \in T : m >= n
<1> DEFINE M == {N + 1 - n : n \in T}
<1>1. M \in SUBSET (1 .. N) /\ M # {}
  <2>1. ASSUME NEW n \in T PROVE N + 1 - n \in 1 .. N
    <3>1. n \in 1 .. N
      OBVIOUS
    <3> QED BY <3>1
  <2>2. PICK n \in T : TRUE
    OBVIOUS
  <2>3. N + 1 - n \in M
    OBVIOUS
  <2> QED BY <2>1, <2>3
<1>2. PICK k \in M : \A n \in M : k <= n
  <2> HIDE DEF M
  <2> QED BY <1>1, LeastOf
<1>3. PICK m \in T : k = N + 1 - m
  OBVIOUS
<1>4. ASSUME NEW n \in T PROVE m >= n
  <2>1. N + 1 - n \in M
    OBVIOUS
  <2>2. N + 1 - m <= N + 1 - n
    BY <1>2, <1>3, <2>1
  <2> QED BY <2>2
<1> QED BY <1>4

---------------------------------------------------------------------------
(***************************************************************************)
(* The consumer's health: what the page says of a message follows from     *)
(* where the message is relative to the start, the position and the floor. *)
(***************************************************************************)

\* A set of messages has a least one.
LEMMA HcLeastIs ==
    ASSUME NEW T \in SUBSET HcMessages, T # {}
    PROVE  HcLeast(T) \in T /\ \A n \in T : HcLeast(T) <= n
<1>1. HcMax \in Nat /\ T \in SUBSET (1 .. HcMax)
  BY HcAssumption DEF HcAssumption, HcMessages
<1> QED BY <1>1, LeastOf DEF HcLeast

\* Where a message is tells its fate.
HcStartNow == HcStart(hcConfig.policy)

HcTypes ==
    /\ hcConfig \in [policy : {"all", "by_start_sequence", "new", "last"}, ack : {"explicit", "all", "none"},
                      maxDeliver : {0, 1}, maxOut : {0, 2}, push : BOOLEAN, filter : {"all", "odd"}]
    /\ hcFirst \in 1 .. HcMax /\ hcLast \in 1 .. HcMax /\ hcFirst <= hcLast /\ hcLast - hcFirst < HcKeep
    /\ hcFate \in [HcMessages -> HcFates]
    /\ hcDelivered \in 0 .. hcLast /\ hcFloor \in 0 .. hcDelivered
    /\ hcShown.consumer.delivered \in 0 .. HcMax

HcStartInv ==
    /\ hcFloor >= HcStartNow - 1
    /\ \A m \in HcMessages : hcFate[m] = "before" <=> m < HcStartNow

HcAheadInv ==
    \A m \in HcMessages :
        /\ m > hcDelivered => hcFate[m] = IF m < hcFirst THEN "missed" ELSE "ahead"
        /\ hcFate[m] = "missed" => m < hcFirst

HcPassedInv ==
    \A m \in HcMessages \ hcMoved :
        /\ m >= HcStartNow /\ m \in HcHeld /\ m <= hcDelivered /\ HcTakes(hcConfig.filter, m)
            => hcFate[m] \in {"out", "sent", "acked", "dropped"}
        /\ hcFate[m] = "out" => m > hcFloor

HcSentInv ==
    \A m \in HcMessages :
        /\ hcFate[m] = "sent" => hcConfig.ack = "none"
        /\ hcFate[m] \in {"out", "acked", "dropped"} => hcConfig.ack # "none"

HcAckedInv ==
    hcConfig.ack = "all" =>
        \A a \in HcMessages : hcFate[a] = "acked" => a <= hcFloor /\ \A o \in HcOut : a < o

HcLostInv ==
    hcPage = "overview" =>
        /\ hcListing.first \in 0 .. hcFirst /\ hcShown.stream.first \in 0 .. hcFirst
        /\ \A m \in HcLoses(hcShown.stream, hcShown.consumer) : m < hcFirst /\ hcFate[m] = "missed"

HcInv ==
    /\ HcTypes /\ HcStartInv /\ HcAheadInv /\ HcPassedInv /\ HcSentInv /\ HcAckedInv /\ HcLostInv

LEMMA HcConstants ==
    /\ HcMax \in Nat /\ HcStored \in Nat /\ HcKeep \in Nat /\ HcMaxAdmin \in Nat
    /\ HcKeep > 0 /\ 1 <= HcStored /\ HcStored <= HcMax
BY HcAssumption DEF HcAssumption

LEMMA HcStartIs ==
    ASSUME HcTypes
    PROVE  HcStartNow \in 1 .. HcMax + 1
<1>1. hcConfig.policy \in {"all", "by_start_sequence", "new", "last"}
  BY DEF HcTypes
<1> QED BY <1>1, HcConstants DEF HcStartNow, HcStart

\* Only six kinds of step change where messages are; the consumer keeps its policy.
HcStands == UNCHANGED <<hcFirst, hcLast, hcFate, hcDelivered, hcFloor, hcMoved, hcConfig>>

LEMMA HcKinds ==
    ASSUME [HcNext]_hcVars
    PROVE  \/ HcPublish \/ HcDeliver \/ HcChangeFilter \/ HcStands
           \/ \E m \in HcMessages : HcAck(m) \/ HcAckWaitEnds(m)
           \/ \E s \in 1 .. HcMax + 1 : HcReset(s)
<1>1. CASE HcClientComes
  BY <1>1 DEF HcClientComes, HcStands, hcStreamVars, hcPosition, hcSwitches
<1>2. CASE HcPause
  BY <1>2 DEF HcPause, HcAdministers, HcStands, hcStreamVars, hcPosition
<1>3. CASE HcListStreams
  BY <1>3 DEF HcListStreams, HcStands, hcStreamVars, hcPosition, hcSwitches
<1>4. CASE \E quiet \in HcQuiet : HcListConsumers(quiet) \/ HcTabReadsConsumers(quiet)
  BY <1>4 DEF HcListConsumers, HcTabReadsConsumers, HcStands, hcStreamVars, hcPosition, hcSwitches
<1>5. CASE HcTabReadsStream
  BY <1>5 DEF HcTabReadsStream, HcStands, hcStreamVars, hcPosition, hcSwitches
<1>6. CASE HcLookUp
  BY <1>6 DEF HcLookUp, HcStands, hcStreamVars, hcPosition, hcSwitches
<1>7. CASE HcProblemsOnly
  BY <1>7 DEF HcProblemsOnly, HcStands, hcStreamVars, hcPosition, hcSwitches
<1>8. CASE HcOpen
  BY <1>8 DEF HcOpen, HcStands, hcStreamVars, hcPosition, hcSwitches
<1>9. CASE UNCHANGED hcVars
  BY <1>9 DEF hcVars, HcStands, hcStreamVars, hcPosition, hcSwitches
<1> QED BY <1>1, <1>2, <1>3, <1>4, <1>5, <1>6, <1>7, <1>8, <1>9 DEF HcNext

\* What each of the six does.
LEMMA HcPublishDoes ==
    ASSUME HcTypes, HcPublish
    PROVE  /\ hcFirst' \in 1 .. HcMax /\ hcLast' \in 1 .. HcMax /\ hcLast' = hcLast + 1
           /\ hcFirst <= hcFirst' /\ hcFirst' <= hcLast' /\ hcLast' - hcFirst' < HcKeep
           /\ hcFate' \in [HcMessages -> HcFates]
           /\ \A m \in HcMessages :
                 hcFate'[m] = IF m < hcFirst' /\ hcFate[m] = "ahead" THEN "missed"
                              ELSE IF m < hcFirst' /\ hcFate[m] = "out" THEN "dropped" ELSE hcFate[m]
           /\ UNCHANGED <<hcDelivered, hcFloor, hcMoved, hcConfig, hcPage, hcListing, hcShown>>
<1>1. /\ hcFirst' \in 1 .. HcMax /\ hcLast' \in 1 .. HcMax /\ hcLast' = hcLast + 1
      /\ hcFirst <= hcFirst' /\ hcFirst' <= hcLast' /\ hcLast' - hcFirst' < HcKeep
  BY HcConstants DEF HcTypes, HcPublish
<1>2. hcFate' = [m \in HcMessages |->
          IF m < hcFirst' THEN CASE hcFate[m] = "ahead" -> "missed" [] hcFate[m] = "out" -> "dropped" [] OTHER -> hcFate[m]
          ELSE hcFate[m]]
  BY DEF HcPublish
<1>3. hcFate \in [HcMessages -> HcFates]
  BY DEF HcTypes
<1>4. ASSUME NEW m \in HcMessages
      PROVE  /\ hcFate'[m] = IF m < hcFirst' /\ hcFate[m] = "ahead" THEN "missed"
                             ELSE IF m < hcFirst' /\ hcFate[m] = "out" THEN "dropped" ELSE hcFate[m]
             /\ hcFate'[m] \in HcFates
  BY <1>2, <1>3 DEF HcFates
<1>5. hcFate' \in [HcMessages -> HcFates]
  <2>1. hcFate' = [m \in HcMessages |-> hcFate'[m]]
    BY <1>2
  <2> QED BY <2>1, <1>4
<1>6. UNCHANGED <<hcDelivered, hcFloor, hcMoved, hcConfig, hcPage, hcListing, hcShown>>
  BY DEF HcPublish, hcSwitches, hcClientVars
<1> QED BY <1>1, <1>4, <1>5, <1>6

LEMMA HcLineIs ==
    ASSUME HcTypes
    PROVE  \A m \in HcLine(hcDelivered, hcConfig.filter) :
              m \in HcMessages /\ m \in HcHeld /\ m > hcDelivered /\ HcTakes(hcConfig.filter, m)
BY HcConstants DEF HcLine, HcHeld, HcTypes, HcMessages

LEMMA HcDeliverDoes ==
    ASSUME HcTypes, HcDeliver
    PROVE  \E m \in HcMessages :
              /\ m \in HcHeld /\ m > hcDelivered /\ hcDelivered' = m
              /\ \A n \in HcHeld : n > hcDelivered /\ HcTakes(hcConfig.filter, n) => m <= n
              /\ hcFate' = [hcFate EXCEPT ![m] = IF hcConfig.ack = "none" THEN "sent" ELSE "out"]
              /\ UNCHANGED <<hcFirst, hcLast, hcFloor, hcMoved, hcConfig, hcPage, hcListing, hcShown>>
<1> DEFINE line == HcLine(hcDelivered, hcConfig.filter)
           m == HcLeast(line)
<1>1. line \in SUBSET HcMessages /\ line # {}
  BY HcLineIs DEF HcDeliver
<1>2. m \in line /\ \A n \in line : m <= n
  BY <1>1, HcLeastIs
<1>3. m \in HcMessages /\ m \in HcHeld /\ m > hcDelivered
  BY <1>2, HcLineIs
<1>4. \A n \in HcHeld : n > hcDelivered /\ HcTakes(hcConfig.filter, n) => n \in line
  BY DEF HcLine
<1>5. hcDelivered' = m /\ hcFate' = [hcFate EXCEPT ![m] = IF hcConfig.ack = "none" THEN "sent" ELSE "out"]
  BY DEF HcDeliver
<1>6. UNCHANGED <<hcFirst, hcLast, hcFloor, hcMoved, hcConfig, hcPage, hcListing, hcShown>>
  BY DEF HcDeliver, hcStreamVars, hcSwitches, hcClientVars
<1> HIDE DEF line, m
<1> QED BY <1>2, <1>3, <1>4, <1>5, <1>6

LEMMA HcAckDoes ==
    ASSUME HcTypes, HcStartInv, HcAheadInv, NEW m \in HcMessages, HcAck(m)
    PROVE  /\ hcFate' \in [HcMessages -> HcFates] /\ m \in HcOut
           /\ \A n \in HcMessages :
                 hcFate'[n] = IF n = m \/ (hcConfig.ack = "all" /\ n <= m /\ n \in HcOut) THEN "acked" ELSE hcFate[n]
           /\ hcFloor' \in 0 .. hcDelivered /\ hcFloor' >= HcStartNow - 1
           /\ \A n \in HcMessages : hcFate'[n] = "out" => n > hcFloor'
           /\ hcFloor' = hcDelivered \/ \E n \in HcMessages : hcFate'[n] = "out" /\ hcFloor' = n - 1
           /\ UNCHANGED <<hcFirst, hcLast, hcDelivered, hcMoved, hcConfig, hcPage, hcListing, hcShown>>
<1> DEFINE left == {n \in HcOut : hcFate'[n] = "out"}
<1>1. /\ m \in HcOut
      /\ hcFate' = [n \in HcMessages |->
             IF n = m \/ (hcConfig.ack = "all" /\ n <= m /\ n \in HcOut) THEN "acked" ELSE hcFate[n]]
      /\ hcFloor' = IF left = {} THEN hcDelivered ELSE HcLeast(left) - 1
      /\ UNCHANGED <<hcFirst, hcLast, hcDelivered, hcMoved, hcConfig, hcPage, hcListing, hcShown>>
  BY DEF HcAck, hcStreamVars, hcSwitches, hcClientVars
<1>2. \A n \in HcMessages :
          hcFate'[n] = IF n = m \/ (hcConfig.ack = "all" /\ n <= m /\ n \in HcOut) THEN "acked" ELSE hcFate[n]
  BY <1>1
<1>3. hcFate' \in [HcMessages -> HcFates]
  BY <1>1 DEF HcTypes, HcFates
<1>4. left \in SUBSET HcMessages /\ \A n \in HcMessages : hcFate'[n] = "out" => n \in left
  BY <1>2 DEF HcOut
<1>5. \A n \in left : n >= HcStartNow /\ n <= hcDelivered
  <2> SUFFICES ASSUME NEW n \in left PROVE n >= HcStartNow /\ n <= hcDelivered
    OBVIOUS
  <2>1. n \in HcMessages /\ hcFate[n] = "out"
    BY DEF HcOut
  <2>2. ~ (n < HcStartNow) /\ ~ (n > hcDelivered)
    BY <2>1 DEF HcStartInv, HcAheadInv
  <2> QED BY <2>1, <2>2, HcStartIs, HcConstants DEF HcMessages, HcTypes
<1>6. CASE left = {}
  <2>1. hcFloor' = hcDelivered
    BY <1>1, <1>6
  <2>2. hcFloor' \in 0 .. hcDelivered /\ hcFloor' >= HcStartNow - 1
    BY <2>1, HcStartIs, HcConstants DEF HcTypes, HcStartInv
  <2> QED BY <1>1, <1>2, <1>3, <1>4, <1>6, <2>1, <2>2
<1>7. CASE left # {}
  <2>1. PICK l \in left : l = HcLeast(left) /\ \A n \in left : l <= n
    BY <1>4, <1>7, HcLeastIs
  <2>2. hcFloor' = l - 1
    BY <1>1, <1>7, <2>1
  <2>3. l \in HcMessages /\ hcFate'[l] = "out"
    BY <1>4
  <2>4. hcFloor' \in 0 .. hcDelivered /\ hcFloor' >= HcStartNow - 1
    BY <1>5, <2>1, <2>2, <2>3, HcStartIs, HcConstants DEF HcTypes, HcMessages
  <2>5. ASSUME NEW n \in HcMessages, hcFate'[n] = "out" PROVE n > hcFloor'
    BY <1>4, <2>1, <2>2, <2>3, <2>5, HcConstants DEF HcMessages
  <2> QED BY <1>1, <1>2, <1>3, <2>2, <2>3, <2>4, <2>5
<1> QED BY <1>6, <1>7

LEMMA HcAckWaitEndsDoes ==
    ASSUME HcTypes, NEW m \in HcMessages, HcAckWaitEnds(m)
    PROVE  /\ hcFate[m] = "out" /\ hcFate' \in [HcMessages -> HcFates]
           /\ \A n \in HcMessages : hcFate'[n] = hcFate[n] \/ (n = m /\ hcFate'[n] = "dropped")
           /\ UNCHANGED <<hcFirst, hcLast, hcDelivered, hcFloor, hcMoved, hcConfig, hcPage, hcListing, hcShown>>
<1>1. /\ m \in HcOut
      /\ (hcFate' = hcFate \/ hcFate' = [hcFate EXCEPT ![m] = "dropped"])
      /\ UNCHANGED <<hcFirst, hcLast, hcDelivered, hcFloor, hcMoved, hcConfig, hcPage, hcListing, hcShown>>
  BY DEF HcAckWaitEnds, hcStreamVars, hcSwitches, hcClientVars
<1>2. hcFate[m] = "out" /\ hcFate \in [HcMessages -> HcFates]
  BY <1>1 DEF HcOut, HcTypes
<1>3. CASE hcFate' = hcFate
  BY <1>1, <1>2, <1>3
<1>4. CASE hcFate' = [hcFate EXCEPT ![m] = "dropped"]
  BY <1>1, <1>2, <1>4 DEF HcFates
<1> QED BY <1>1, <1>3, <1>4

LEMMA HcChangeFilterDoes ==
    ASSUME HcTypes, HcChangeFilter
    PROVE  /\ hcConfig' = [hcConfig EXCEPT !.filter = hcConfig'.filter] /\ hcConfig'.filter \in {"all", "odd"}
           /\ hcMoved' = hcMoved \cup {m \in HcMessages : m <= hcDelivered /\ hcFate[m] = "ahead"}
           /\ UNCHANGED <<hcFirst, hcLast, hcFate, hcDelivered, hcFloor, hcPage, hcListing, hcShown>>
BY DEF HcTypes, HcChangeFilter, HcAdministers, hcStreamVars, hcClientVars

LEMMA HcResetDoes ==
    ASSUME HcTypes, HcStartInv, NEW s \in 1 .. HcMax + 1, HcReset(s)
    PROVE  /\ s >= HcStartNow /\ s <= hcLast + 1 /\ hcDelivered' = s - 1 /\ hcFloor' = s - 1
           /\ hcFate' \in [HcMessages -> HcFates]
           /\ \A m \in HcMessages :
                 hcFate'[m] = IF m < s THEN hcFate[m] ELSE IF m < hcFirst THEN "missed" ELSE "ahead"
           /\ hcMoved' = (hcMoved \cap 1 .. s - 1) \cup {m \in HcMessages : m < s /\ hcFate[m] \in {"ahead", "out"}}
           /\ UNCHANGED <<hcFirst, hcLast, hcConfig, hcPage, hcListing, hcShown>>
<1>1. /\ s \in HcResetTo /\ hcDelivered' = s - 1 /\ hcFloor' = s - 1
      /\ hcFate' = [m \in HcMessages |-> IF m < s THEN hcFate[m] ELSE IF m < hcFirst THEN "missed" ELSE "ahead"]
      /\ hcMoved' = (hcMoved \cap 1 .. s - 1) \cup {m \in HcMessages : m < s /\ hcFate[m] \in {"ahead", "out"}}
      /\ UNCHANGED <<hcFirst, hcLast, hcConfig, hcPage, hcListing, hcShown>>
  BY DEF HcReset, HcAdministers, hcStreamVars, hcClientVars
<1>2. s >= HcStartNow /\ s <= hcLast + 1
  <2>1. CASE s = hcFloor + 1
    BY <2>1, HcStartIs, HcConstants DEF HcStartInv, HcTypes
  <2>2. CASE s \in HcHeld /\ s >= HcStart(hcConfig.policy)
    BY <2>2, HcConstants DEF HcStartNow, HcHeld, HcTypes
  <2> QED BY <1>1, <2>1, <2>2 DEF HcResetTo
<1>3. hcFate' \in [HcMessages -> HcFates]
  BY <1>1 DEF HcTypes, HcFates
<1> QED BY <1>1, <1>2, <1>3

\* What the overview shows comes of the reads.
LEMMA HcShowing ==
    ASSUME [HcNext]_hcVars
    PROVE  \/ UNCHANGED <<hcPage, hcListing, hcShown>>
           \/ HcListStreams \/ (\E quiet \in HcQuiet : HcListConsumers(quiet))
           \/ hcPage' = "tab" /\ hcShown'.consumer.delivered \in {0, hcDelivered, hcShown.consumer.delivered}
<1>1. CASE HcClientComes \/ HcPause \/ HcPublish \/ HcDeliver \/ HcChangeFilter \/ HcProblemsOnly \/ HcLookUp
  BY <1>1 DEF HcClientComes, HcPause, HcPublish, HcDeliver, HcChangeFilter, HcProblemsOnly, HcLookUp, HcAdministers,
              hcClientVars
<1>2. CASE \E m \in HcMessages : HcAck(m) \/ HcAckWaitEnds(m)
  BY <1>2 DEF HcAck, HcAckWaitEnds, hcClientVars
<1>3. CASE \E s \in 1 .. HcMax + 1 : HcReset(s)
  BY <1>3 DEF HcReset, HcAdministers, hcClientVars
<1>4. CASE \E quiet \in HcQuiet : HcTabReadsConsumers(quiet)
  <2>1. PICK quiet \in HcQuiet : HcTabReadsConsumers(quiet)
    BY <1>4
  <2>2. /\ hcPage' = "tab"
        /\ hcShown' = [hcShown EXCEPT !.consumer = HcConsumerRead(quiet)]
    BY <2>1 DEF HcTabReadsConsumers
  <2> QED BY <2>2 DEF HcConsumerRead
<1>5. CASE HcTabReadsStream
  BY <1>5 DEF HcTabReadsStream
<1>8. CASE HcOpen
  BY <1>8 DEF HcOpen, HcNoInfo
<1>9. CASE UNCHANGED hcVars
  BY <1>9 DEF hcVars, hcClientVars
<1> QED BY <1>1, <1>2, <1>3, <1>4, <1>5, <1>8, <1>9 DEF HcNext

\* The steps of the invariant, part by part.
LEMMA HcPolicyKept ==
    ASSUME HcTypes, [HcNext]_hcVars
    PROVE  /\ HcStartNow' = HcStartNow /\ hcConfig'.ack = hcConfig.ack /\ hcConfig'.policy = hcConfig.policy
           /\ hcConfig' \in [policy : {"all", "by_start_sequence", "new", "last"}, ack : {"explicit", "all", "none"},
                             maxDeliver : {0, 1}, maxOut : {0, 2}, push : BOOLEAN, filter : {"all", "odd"}]
<1>1. hcConfig' = hcConfig \/ (hcConfig' = [hcConfig EXCEPT !.filter = hcConfig'.filter] /\ hcConfig'.filter \in {"all", "odd"})
  <2>1. CASE HcStands \/ HcPublish \/ HcDeliver \/ \E m \in HcMessages : HcAck(m) \/ HcAckWaitEnds(m)
    BY <2>1 DEF HcStands, HcPublish, HcDeliver, HcAck, HcAckWaitEnds, hcSwitches
  <2>2. CASE HcChangeFilter
    BY <2>2, HcChangeFilterDoes
  <2>3. CASE \E s \in 1 .. HcMax + 1 : HcReset(s)
    BY <2>3 DEF HcReset
  <2> QED BY <2>1, <2>2, <2>3, HcKinds
<1>2. hcConfig'.ack = hcConfig.ack /\ hcConfig'.policy = hcConfig.policy
  BY <1>1 DEF HcTypes
<1>3. hcConfig' \in [policy : {"all", "by_start_sequence", "new", "last"}, ack : {"explicit", "all", "none"},
                     maxDeliver : {0, 1}, maxOut : {0, 2}, push : BOOLEAN, filter : {"all", "odd"}]
  BY <1>1 DEF HcTypes
<1> QED BY <1>2, <1>3 DEF HcStartNow, HcStart

LEMMA HcTypesStep == HcTypes /\ HcStartInv /\ HcAheadInv /\ [HcNext]_hcVars => HcTypes'
<1> SUFFICES ASSUME HcTypes, HcStartInv, HcAheadInv, [HcNext]_hcVars PROVE HcTypes'
  OBVIOUS
<1>1. hcShown'.consumer.delivered \in 0 .. HcMax
  <2>1. CASE UNCHANGED <<hcPage, hcListing, hcShown>>
    BY <2>1 DEF HcTypes
  <2>2. CASE HcListStreams
    BY <2>2 DEF HcListStreams, HcTypes
  <2>3. CASE \E quiet \in HcQuiet : HcListConsumers(quiet)
    <3>1. PICK quiet \in HcQuiet : HcListConsumers(quiet)
      BY <2>3
    <3>2. hcShown' = [stream |-> hcListing, consumer |-> HcConsumerRead(quiet)]
      BY <3>1 DEF HcListConsumers
    <3>3. hcShown'.consumer.delivered = hcDelivered
      BY <3>2 DEF HcConsumerRead
    <3> QED BY <3>3, HcConstants DEF HcTypes
  <2>4. CASE hcShown'.consumer.delivered \in {0, hcDelivered, hcShown.consumer.delivered}
    BY <2>4, HcConstants DEF HcTypes
  <2> QED BY <2>1, <2>2, <2>3, <2>4, HcShowing
<1>2. /\ hcFirst' \in 1 .. HcMax /\ hcLast' \in 1 .. HcMax /\ hcFirst' <= hcLast' /\ hcLast' - hcFirst' < HcKeep
      /\ hcFate' \in [HcMessages -> HcFates]
      /\ hcDelivered' \in 0 .. hcLast' /\ hcFloor' \in 0 .. hcDelivered'
  <2>1. CASE HcStands \/ HcChangeFilter
    BY <2>1, HcChangeFilterDoes DEF HcStands, HcTypes
  <2>2. CASE HcPublish
    BY <2>2, HcPublishDoes DEF HcTypes
  <2>3. CASE HcDeliver
    <3>1. PICK m \in HcMessages :
              /\ m \in HcHeld /\ m > hcDelivered /\ hcDelivered' = m
              /\ hcFate' = [hcFate EXCEPT ![m] = IF hcConfig.ack = "none" THEN "sent" ELSE "out"]
              /\ UNCHANGED <<hcFirst, hcLast, hcFloor>>
      BY <2>3, HcDeliverDoes
    <3>2. hcFate' \in [HcMessages -> HcFates]
      BY <3>1 DEF HcTypes, HcFates
    <3>3. hcDelivered' \in 0 .. hcLast' /\ hcFloor' \in 0 .. hcDelivered'
      BY <3>1, HcConstants DEF HcTypes, HcHeld
    <3> QED BY <3>1, <3>2, <3>3 DEF HcTypes
  <2>4. CASE \E m \in HcMessages : HcAck(m)
    BY <2>4, HcAckDoes DEF HcTypes
  <2>5. CASE \E m \in HcMessages : HcAckWaitEnds(m)
    BY <2>5, HcAckWaitEndsDoes DEF HcTypes
  <2>6. CASE \E s \in 1 .. HcMax + 1 : HcReset(s)
    <3>1. PICK s \in 1 .. HcMax + 1 : HcReset(s)
      BY <2>6
    <3> QED BY <3>1, HcResetDoes, HcConstants DEF HcTypes
  <2> QED BY <2>1, <2>2, <2>3, <2>4, <2>5, <2>6, HcKinds
<1> QED BY <1>1, <1>2, HcPolicyKept DEF HcTypes

LEMMA HcStartStep == HcTypes /\ HcStartInv /\ HcAheadInv /\ [HcNext]_hcVars => HcStartInv'
<1> SUFFICES ASSUME HcTypes, HcStartInv, HcAheadInv, [HcNext]_hcVars PROVE HcStartInv'
  OBVIOUS
<1>1. hcFloor' >= HcStartNow - 1 /\ \A m \in HcMessages : hcFate'[m] = "before" <=> m < HcStartNow
  <2>1. CASE HcStands \/ HcChangeFilter
    BY <2>1, HcChangeFilterDoes DEF HcStands, HcStartInv
  <2>2. CASE HcPublish
    BY <2>2, HcPublishDoes DEF HcStartInv
  <2>3. CASE HcDeliver
    <3>1. PICK m \in HcMessages :
              /\ m > hcDelivered
              /\ hcFate' = [hcFate EXCEPT ![m] = IF hcConfig.ack = "none" THEN "sent" ELSE "out"]
              /\ hcFloor' = hcFloor
      BY <2>3, HcDeliverDoes
    <3>2. ~ (m < HcStartNow)
      BY <3>1, HcStartIs, HcConstants DEF HcStartInv, HcTypes, HcMessages
    <3>3. \A n \in HcMessages : hcFate'[n] = "before" <=> hcFate[n] = "before"
      BY <3>1, <3>2 DEF HcTypes, HcStartInv
    <3> QED BY <3>1, <3>3 DEF HcStartInv
  <2>4. CASE \E m \in HcMessages : HcAck(m)
    <3>1. PICK m \in HcMessages : HcAck(m)
      BY <2>4
    <3> QED BY <3>1, HcAckDoes DEF HcStartInv, HcOut
  <2>5. CASE \E m \in HcMessages : HcAckWaitEnds(m)
    BY <2>5, HcAckWaitEndsDoes DEF HcStartInv
  <2>6. CASE \E s \in 1 .. HcMax + 1 : HcReset(s)
    <3>1. PICK s \in 1 .. HcMax + 1 : HcReset(s)
      BY <2>6
    <3>2. \A m \in HcMessages : m >= s => ~ (m < HcStartNow)
      BY <3>1, HcResetDoes, HcStartIs, HcConstants DEF HcMessages
    <3>3. \A m \in HcMessages : m < s \/ m >= s
      BY <3>1, HcConstants DEF HcMessages
    <3>4. hcFloor' >= HcStartNow - 1
      BY <3>1, HcResetDoes, HcStartIs, HcConstants
    <3> QED BY <3>1, <3>2, <3>3, <3>4, HcResetDoes DEF HcStartInv
  <2> QED BY <2>1, <2>2, <2>3, <2>4, <2>5, <2>6, HcKinds
<1> QED BY <1>1, HcPolicyKept DEF HcStartInv

LEMMA HcAheadStep == HcTypes /\ HcStartInv /\ HcAheadInv /\ [HcNext]_hcVars => HcAheadInv'
<1> SUFFICES ASSUME HcTypes, HcStartInv, HcAheadInv, [HcNext]_hcVars, NEW m \in HcMessages
             PROVE  /\ m > hcDelivered' => hcFate'[m] = IF m < hcFirst' THEN "missed" ELSE "ahead"
                    /\ hcFate'[m] = "missed" => m < hcFirst'
  BY DEF HcAheadInv
<1>a. m \in Nat /\ hcDelivered \in Nat /\ hcFirst \in Nat /\ HcMax \in Nat
  BY HcConstants DEF HcMessages, HcTypes
<1>b. /\ m > hcDelivered => hcFate[m] = IF m < hcFirst THEN "missed" ELSE "ahead"
      /\ hcFate[m] = "missed" => m < hcFirst
  BY DEF HcAheadInv
<1>1. CASE HcStands \/ HcChangeFilter
  BY <1>1, <1>b, HcChangeFilterDoes DEF HcStands
<1>2. CASE HcPublish
  <2>1. hcFirst' \in Nat /\ hcFirst <= hcFirst' /\ hcDelivered' = hcDelivered
    BY <1>2, HcPublishDoes
  <2>2. hcFate'[m] = IF m < hcFirst' /\ hcFate[m] = "ahead" THEN "missed"
                     ELSE IF m < hcFirst' /\ hcFate[m] = "out" THEN "dropped" ELSE hcFate[m]
    BY <1>2, HcPublishDoes
  <2> QED BY <1>a, <1>b, <2>1, <2>2
<1>3. CASE HcDeliver
  <2>1. PICK n \in HcMessages :
            /\ n > hcDelivered /\ hcDelivered' = n /\ hcFirst' = hcFirst
            /\ hcFate' = [hcFate EXCEPT ![n] = IF hcConfig.ack = "none" THEN "sent" ELSE "out"]
    BY <1>3, HcDeliverDoes
  <2>2. hcFate'[m] = hcFate[m] \/ (m = n /\ hcFate'[m] \in {"sent", "out"})
    BY <2>1 DEF HcTypes
  <2>3. n \in Nat
    BY DEF HcMessages
  <2>4. m > hcDelivered' => m > hcDelivered /\ m # n
    BY <1>a, <2>1, <2>3
  <2> QED BY <1>b, <2>1, <2>2, <2>4
<1>4. CASE \E n \in HcMessages : HcAck(n)
  <2>1. PICK n \in HcMessages : HcAck(n)
    BY <1>4
  <2>2. (hcFate'[m] = hcFate[m] \/ (hcFate[m] = "out" /\ hcFate'[m] = "acked"))
        /\ UNCHANGED <<hcDelivered, hcFirst>>
    BY <2>1, HcAckDoes DEF HcOut
  <2>3. hcFate[m] = "out" => ~ (m > hcDelivered)
    BY <1>b
  <2> QED BY <1>b, <2>2, <2>3
<1>5. CASE \E n \in HcMessages : HcAckWaitEnds(n)
  <2>1. PICK n \in HcMessages : HcAckWaitEnds(n)
    BY <1>5
  <2>2. (hcFate'[m] = hcFate[m] \/ (hcFate[m] = "out" /\ hcFate'[m] = "dropped"))
        /\ UNCHANGED <<hcDelivered, hcFirst>>
    BY <2>1, HcAckWaitEndsDoes
  <2>3. hcFate[m] = "out" => ~ (m > hcDelivered)
    BY <1>b
  <2> QED BY <1>b, <2>2, <2>3
<1>6. CASE \E s \in 1 .. HcMax + 1 : HcReset(s)
  <2>1. PICK s \in 1 .. HcMax + 1 : HcReset(s)
    BY <1>6
  <2>2. /\ hcDelivered' = s - 1 /\ hcFirst' = hcFirst
        /\ hcFate'[m] = IF m < s THEN hcFate[m] ELSE IF m < hcFirst THEN "missed" ELSE "ahead"
    BY <2>1, HcResetDoes
  <2>3. m > hcDelivered' <=> ~ (m < s)
    BY <1>a, <2>2
  <2> QED BY <1>b, <2>2, <2>3
<1> QED BY <1>1, <1>2, <1>3, <1>4, <1>5, <1>6, HcKinds

LEMMA HcPassedStep ==
    HcTypes /\ HcStartInv /\ HcAheadInv /\ HcPassedInv /\ [HcNext]_hcVars => HcPassedInv'
<1> SUFFICES ASSUME HcTypes, HcStartInv, HcAheadInv, HcPassedInv, [HcNext]_hcVars,
                    NEW m \in HcMessages, m \notin hcMoved'
             PROVE  /\ m >= HcStartNow' /\ m \in HcHeld' /\ m <= hcDelivered' /\ HcTakes(hcConfig'.filter, m)
                       => hcFate'[m] \in {"out", "sent", "acked", "dropped"}
                    /\ hcFate'[m] = "out" => m > hcFloor'
  BY DEF HcPassedInv
<1>a. m \in Nat /\ hcDelivered \in Nat /\ hcFloor \in Nat /\ hcFirst \in Nat /\ HcMax \in Nat /\ hcLast \in Nat
      /\ HcStartNow \in Nat
  BY HcConstants, HcStartIs DEF HcMessages, HcTypes
<1>b. HcStartNow' = HcStartNow
  BY HcPolicyKept
<1>c. m \notin hcMoved =>
          /\ m >= HcStartNow /\ m \in HcHeld /\ m <= hcDelivered /\ HcTakes(hcConfig.filter, m)
             => hcFate[m] \in {"out", "sent", "acked", "dropped"}
          /\ hcFate[m] = "out" => m > hcFloor
  BY DEF HcPassedInv
<1>d. /\ m > hcDelivered => hcFate[m] = IF m < hcFirst THEN "missed" ELSE "ahead"
      /\ hcFate[m] = "missed" => m < hcFirst
      /\ hcFate[m] = "before" <=> m < HcStartNow
      /\ hcFate[m] \in HcFates
  BY DEF HcAheadInv, HcStartInv, HcTypes
<1>1. CASE HcStands
  BY <1>1, <1>b, <1>c DEF HcStands, HcHeld
<1>2. CASE HcPublish
  <2>1. /\ hcFirst' \in Nat /\ hcFirst <= hcFirst' /\ hcLast' = hcLast + 1 /\ hcLast' \in Nat
        /\ UNCHANGED <<hcDelivered, hcFloor, hcMoved, hcConfig>>
    BY <1>2, HcPublishDoes
  <2>2. hcFate'[m] = IF m < hcFirst' /\ hcFate[m] = "ahead" THEN "missed"
                     ELSE IF m < hcFirst' /\ hcFate[m] = "out" THEN "dropped" ELSE hcFate[m]
    BY <1>2, HcPublishDoes
  <2>3. m \in HcHeld' => ~ (m < hcFirst') /\ hcFate'[m] = hcFate[m]
    BY <1>a, <2>1, <2>2 DEF HcHeld
  <2>4. m \in HcHeld' /\ m <= hcDelivered => m \in HcHeld
    <3>1. hcDelivered <= hcLast
      BY DEF HcTypes
    <3> QED BY <1>a, <2>1, <3>1 DEF HcHeld
  <2>5. hcFate'[m] = "out" => hcFate[m] = "out"
    BY <2>2
  <2> QED BY <1>b, <1>c, <2>1, <2>3, <2>4, <2>5
<1>3. CASE HcDeliver
  <2>1. PICK n \in HcMessages :
            /\ n \in HcHeld /\ n > hcDelivered /\ hcDelivered' = n
            /\ \A k \in HcHeld : k > hcDelivered /\ HcTakes(hcConfig.filter, k) => n <= k
            /\ hcFate' = [hcFate EXCEPT ![n] = IF hcConfig.ack = "none" THEN "sent" ELSE "out"]
            /\ UNCHANGED <<hcFirst, hcLast, hcFloor, hcMoved, hcConfig>>
    BY <1>3, HcDeliverDoes
  <2>2. n \in Nat /\ hcFloor <= hcDelivered
    BY <1>a DEF HcMessages, HcTypes
  <2>3. CASE m = n
    <3>1. hcFate'[m] \in {"sent", "out"}
      BY <2>1, <2>3 DEF HcTypes
    <3>2. m > hcFloor'
      BY <1>a, <2>1, <2>2, <2>3
    <3> QED BY <3>1, <3>2
  <2>4. CASE m # n
    <3>1. hcFate'[m] = hcFate[m]
      BY <2>1, <2>4 DEF HcTypes
    <3>2. HcHeld' = HcHeld
      BY <2>1 DEF HcHeld
    <3>3. m \in HcHeld /\ m <= hcDelivered' /\ HcTakes(hcConfig.filter, m) => m <= hcDelivered
      BY <1>a, <2>1, <2>2, <2>4
    <3> QED BY <1>b, <1>c, <2>1, <3>1, <3>2, <3>3
  <2> QED BY <2>3, <2>4
<1>4. CASE \E n \in HcMessages : HcAck(n)
  <2>1. PICK n \in HcMessages : HcAck(n)
    BY <1>4
  <2>2. /\ hcFate'[m] = hcFate[m] \/ hcFate'[m] = "acked"
        /\ hcFate'[m] = "out" => m > hcFloor'
        /\ UNCHANGED <<hcFirst, hcLast, hcDelivered, hcMoved, hcConfig>>
    BY <2>1, HcAckDoes
  <2> QED BY <1>b, <1>c, <2>2 DEF HcHeld
<1>5. CASE \E n \in HcMessages : HcAckWaitEnds(n)
  <2>1. PICK n \in HcMessages : HcAckWaitEnds(n)
    BY <1>5
  <2>2. /\ hcFate'[m] = hcFate[m] \/ hcFate'[m] = "dropped"
        /\ UNCHANGED <<hcFirst, hcLast, hcDelivered, hcFloor, hcMoved, hcConfig>>
    BY <2>1, HcAckWaitEndsDoes
  <2> QED BY <1>b, <1>c, <2>2 DEF HcHeld
<1>6. CASE HcChangeFilter
  <2>1. /\ hcMoved' = hcMoved \cup {n \in HcMessages : n <= hcDelivered /\ hcFate[n] = "ahead"}
        /\ UNCHANGED <<hcFirst, hcLast, hcFate, hcDelivered, hcFloor>>
    BY <1>6, HcChangeFilterDoes
  <2>2. m \notin hcMoved /\ (m <= hcDelivered => hcFate[m] # "ahead")
    BY <2>1
  <2>3. m \in HcHeld => ~ (m < hcFirst)
    BY <1>a DEF HcHeld
  <2>4. m >= HcStartNow => ~ (m < HcStartNow)
    BY <1>a
  <2>5. m >= HcStartNow /\ m \in HcHeld /\ m <= hcDelivered => hcFate[m] \in {"out", "sent", "acked", "dropped"}
    BY <1>d, <2>2, <2>3, <2>4 DEF HcFates
  <2> QED BY <1>b, <1>c, <2>1, <2>2, <2>5 DEF HcHeld
<1>7. CASE \E s \in 1 .. HcMax + 1 : HcReset(s)
  <2>1. PICK s \in 1 .. HcMax + 1 : HcReset(s)
    BY <1>7
  <2>2. /\ s >= HcStartNow /\ hcDelivered' = s - 1 /\ hcFloor' = s - 1
        /\ hcFate'[m] = IF m < s THEN hcFate[m] ELSE IF m < hcFirst THEN "missed" ELSE "ahead"
        /\ hcMoved' = (hcMoved \cap 1 .. s - 1) \cup {n \in HcMessages : n < s /\ hcFate[n] \in {"ahead", "out"}}
        /\ UNCHANGED <<hcFirst, hcLast, hcConfig>>
    BY <2>1, HcResetDoes
  <2>3. s \in Nat /\ (m <= hcDelivered' => m < s) /\ (m < s => m \in 1 .. s - 1)
    BY <1>a, <2>1, <2>2 DEF HcMessages
  <2>4. CASE m < s
    <3>1. m \notin hcMoved /\ hcFate[m] \notin {"ahead", "out"}
      BY <2>2, <2>3, <2>4
    <3>2. m \in HcHeld => ~ (m < hcFirst)
      BY <1>a DEF HcHeld
    <3>3. m >= HcStartNow => ~ (m < HcStartNow)
      BY <1>a
    <3>4. hcFate'[m] = hcFate[m]
      BY <2>2, <2>4
    <3>5. HcHeld' = HcHeld
      BY <2>2 DEF HcHeld
    <3>6. m >= HcStartNow /\ m \in HcHeld => hcFate[m] \in {"out", "sent", "acked", "dropped"}
      BY <1>d, <3>1, <3>2, <3>3 DEF HcFates
    <3> QED BY <1>b, <3>1, <3>4, <3>5, <3>6
  <2>5. CASE ~ (m < s)
    BY <2>2, <2>3, <2>5
  <2> QED BY <2>4, <2>5
<1> QED BY <1>1, <1>2, <1>3, <1>4, <1>5, <1>6, <1>7, HcKinds

LEMMA HcSentStep == HcTypes /\ HcSentInv /\ [HcNext]_hcVars => HcSentInv'
<1> SUFFICES ASSUME HcTypes, HcSentInv, [HcNext]_hcVars, NEW m \in HcMessages
             PROVE  /\ hcFate'[m] = "sent" => hcConfig.ack = "none"
                    /\ hcFate'[m] \in {"out", "acked", "dropped"} => hcConfig.ack # "none"
  BY HcPolicyKept DEF HcSentInv
<1>a. /\ hcFate[m] = "sent" => hcConfig.ack = "none"
      /\ hcFate[m] \in {"out", "acked", "dropped"} => hcConfig.ack # "none"
  BY DEF HcSentInv
<1>1. CASE HcStands \/ HcChangeFilter
  BY <1>1, <1>a, HcChangeFilterDoes DEF HcStands
<1>2. CASE HcPublish
  BY <1>2, <1>a, HcPublishDoes
<1>3. CASE HcDeliver
  BY <1>3, <1>a, HcDeliverDoes DEF HcTypes
<1>4. CASE \E n \in HcMessages : HcAck(n)
  <2>1. PICK n \in HcMessages : HcAck(n)
    BY <1>4
  <2>2. n \in HcOut
        /\ hcFate' = [k \in HcMessages |->
               IF k = n \/ (hcConfig.ack = "all" /\ k <= n /\ k \in HcOut) THEN "acked" ELSE hcFate[k]]
    BY <2>1 DEF HcAck
  <2>3. hcFate'[m] = hcFate[m] \/ (hcFate[m] = "out" /\ hcFate'[m] = "acked")
    BY <2>2 DEF HcOut
  <2> QED BY <1>a, <2>3
<1>5. CASE \E n \in HcMessages : HcAckWaitEnds(n)
  BY <1>5, <1>a, HcAckWaitEndsDoes
<1>6. CASE \E s \in 1 .. HcMax + 1 : HcReset(s)
  <2>1. hcFate'[m] = hcFate[m] \/ hcFate'[m] \in {"missed", "ahead"}
    BY <1>6 DEF HcReset
  <2> QED BY <1>a, <2>1
<1> QED BY <1>1, <1>2, <1>3, <1>4, <1>5, <1>6, HcKinds

LEMMA HcAckedStep ==
    HcTypes /\ HcStartInv /\ HcAheadInv /\ HcAckedInv /\ [HcNext]_hcVars => HcAckedInv'
<1> SUFFICES ASSUME HcTypes, HcStartInv, HcAheadInv, HcAckedInv, [HcNext]_hcVars, hcConfig.ack = "all",
                    NEW a \in HcMessages, hcFate'[a] = "acked"
             PROVE  a <= hcFloor' /\ \A o \in HcMessages : hcFate'[o] = "out" => a < o
  BY HcPolicyKept DEF HcAckedInv, HcOut
<1>a. a \in Nat /\ hcDelivered \in Nat /\ hcFloor \in Nat /\ hcFloor <= hcDelivered
  BY HcConstants DEF HcMessages, HcTypes
<1>b. hcFate[a] = "acked" => a <= hcFloor /\ \A o \in HcMessages : hcFate[o] = "out" => a < o
  BY DEF HcAckedInv, HcOut
<1>1. CASE HcStands \/ HcChangeFilter
  BY <1>1, <1>b, HcChangeFilterDoes DEF HcStands
<1>2. CASE HcPublish
  BY <1>2, <1>b, HcPublishDoes
<1>3. CASE HcDeliver
  <2>1. PICK n \in HcMessages :
            /\ n > hcDelivered
            /\ hcFate' = [hcFate EXCEPT ![n] = IF hcConfig.ack = "none" THEN "sent" ELSE "out"]
            /\ hcFloor' = hcFloor
    BY <1>3, HcDeliverDoes
  <2>2. hcFate[a] = "acked" /\ \A o \in HcMessages : o # n => hcFate'[o] = hcFate[o]
    BY <2>1 DEF HcTypes
  <2>3. n \in Nat /\ a < n
    BY <1>a, <1>b, <2>1, <2>2 DEF HcMessages
  <2> QED BY <1>b, <2>1, <2>2, <2>3
<1>4. CASE \E n \in HcMessages : HcAck(n)
  <2>1. PICK n \in HcMessages : HcAck(n)
    BY <1>4
  <2>2. /\ n \in HcOut
        /\ \A k \in HcMessages :
              hcFate'[k] = IF k = n \/ (k <= n /\ k \in HcOut) THEN "acked" ELSE hcFate[k]
    BY <2>1, HcAckDoes
  <2>3. hcFate[n] = "out" /\ n \in Nat /\ n <= hcDelivered
    <3>1. hcFate[n] = "out" /\ ~ (n > hcDelivered)
      BY <2>2 DEF HcOut, HcAheadInv
    <3> QED BY <3>1, <1>a DEF HcMessages
  <2>4. hcFate[a] = "acked" \/ a <= n
    BY <1>a, <2>2, <2>3
  <2>5. ASSUME NEW o \in HcMessages, hcFate'[o] = "out" PROVE a < o
    <3>1. o \in Nat /\ hcFate[o] = "out" /\ o # n /\ ~ (o <= n)
      BY <2>2, <2>5 DEF HcMessages, HcOut
    <3> QED BY <1>a, <1>b, <2>3, <2>4, <3>1
  <2>6. a <= hcFloor'
    <3>1. CASE hcFloor' = hcDelivered
      BY <1>a, <1>b, <2>3, <2>4, <3>1
    <3>2. CASE \E l \in HcMessages : hcFate'[l] = "out" /\ hcFloor' = l - 1
      BY <1>a, <2>5, <3>2 DEF HcMessages
    <3> QED BY <2>1, <3>1, <3>2, HcAckDoes
  <2> QED BY <2>5, <2>6
<1>5. CASE \E n \in HcMessages : HcAckWaitEnds(n)
  <2>1. PICK n \in HcMessages : HcAckWaitEnds(n)
    BY <1>5
  <2>2. /\ \A k \in HcMessages : hcFate'[k] = hcFate[k] \/ (k = n /\ hcFate'[k] = "dropped")
        /\ hcFloor' = hcFloor
    BY <2>1, HcAckWaitEndsDoes
  <2>3. hcFate[a] = "acked" /\ \A o \in HcMessages : hcFate'[o] = "out" => hcFate[o] = "out"
    BY <2>2
  <2> QED BY <1>b, <2>2, <2>3
<1>6. CASE \E s \in 1 .. HcMax + 1 : HcReset(s)
  <2>1. PICK s \in 1 .. HcMax + 1 : HcReset(s)
    BY <1>6
  <2>2. /\ hcFloor' = s - 1
        /\ \A m \in HcMessages :
              hcFate'[m] = IF m < s THEN hcFate[m] ELSE IF m < hcFirst THEN "missed" ELSE "ahead"
    BY <2>1, HcResetDoes
  <2>3. a < s /\ hcFate[a] = "acked" /\ \A o \in HcMessages : hcFate'[o] = "out" => hcFate[o] = "out"
    BY <2>2
  <2>4. a <= hcFloor'
    BY <1>a, <2>1, <2>2, <2>3, HcConstants
  <2> QED BY <1>b, <2>3, <2>4
<1> QED BY <1>1, <1>2, <1>3, <1>4, <1>5, <1>6, HcKinds

\* A message that left the stream before it was delivered stays missed.
LEMMA HcMissedStays ==
    ASSUME HcTypes, HcStartInv, HcAheadInv, [HcNext]_hcVars, NEW m \in HcMessages, hcFate[m] = "missed"
    PROVE  hcFate'[m] = "missed" /\ m < hcFirst' /\ hcFirst <= hcFirst'
<1>a. m \in Nat /\ hcFirst \in Nat /\ m < hcFirst
  BY HcConstants DEF HcMessages, HcTypes, HcAheadInv
<1>1. CASE HcStands \/ HcChangeFilter
  BY <1>1, <1>a, HcChangeFilterDoes DEF HcStands
<1>2. CASE HcPublish
  BY <1>2, <1>a, HcPublishDoes
<1>3. CASE HcDeliver
  <2>1. PICK n \in HcMessages :
            /\ n \in HcHeld /\ hcFirst' = hcFirst
            /\ hcFate' = [hcFate EXCEPT ![n] = IF hcConfig.ack = "none" THEN "sent" ELSE "out"]
    BY <1>3, HcDeliverDoes
  <2>2. m # n
    BY <1>a, <2>1 DEF HcHeld, HcTypes
  <2> QED BY <1>a, <2>1, <2>2 DEF HcTypes
<1>4. CASE \E n \in HcMessages : HcAck(n)
  <2>1. PICK n \in HcMessages : HcAck(n)
    BY <1>4
  <2>2. /\ n \in HcOut /\ hcFirst' = hcFirst
        /\ hcFate'[m] = IF m = n \/ (hcConfig.ack = "all" /\ m <= n /\ m \in HcOut) THEN "acked" ELSE hcFate[m]
    BY <2>1, HcAckDoes
  <2>3. m \notin HcOut
    BY DEF HcOut
  <2> QED BY <1>a, <2>2, <2>3
<1>5. CASE \E n \in HcMessages : HcAckWaitEnds(n)
  <2>1. PICK n \in HcMessages : HcAckWaitEnds(n)
    BY <1>5
  <2>2. hcFate[n] = "out" /\ hcFirst' = hcFirst /\ (hcFate'[m] = hcFate[m] \/ m = n)
    BY <2>1, HcAckWaitEndsDoes
  <2> QED BY <1>a, <2>2
<1>6. CASE \E s \in 1 .. HcMax + 1 : HcReset(s)
  <2>1. PICK s \in 1 .. HcMax + 1 : HcReset(s)
    BY <1>6
  <2>2. /\ hcFate'[m] = IF m < s THEN hcFate[m] ELSE IF m < hcFirst THEN "missed" ELSE "ahead"
        /\ hcFirst' = hcFirst
    BY <2>1, HcResetDoes
  <2> QED BY <1>a, <2>2
<1> QED BY <1>1, <1>2, <1>3, <1>4, <1>5, <1>6, HcKinds

LEMMA HcFirstGrows ==
    ASSUME HcTypes, HcStartInv, HcAheadInv, [HcNext]_hcVars
    PROVE  hcFirst <= hcFirst'
<1>1. CASE HcStands \/ HcDeliver \/ HcChangeFilter \/ (\E s \in 1 .. HcMax + 1 : HcReset(s))
           \/ \E m \in HcMessages : HcAck(m) \/ HcAckWaitEnds(m)
  <2>1. hcFirst' = hcFirst
    BY <1>1 DEF HcStands, HcDeliver, HcChangeFilter, HcReset, HcAck, HcAckWaitEnds, HcAdministers, hcStreamVars
  <2> QED BY <2>1, HcConstants DEF HcTypes
<1>2. CASE HcPublish
  BY <1>2, HcPublishDoes
<1> QED BY <1>1, <1>2, HcKinds

\* A consumer's loss names messages.
LEMMA HcLosesMessages ==
    ASSUME NEW s, NEW c, s.first \in Int, s.first <= HcMax, c.delivered \in Nat
    PROVE  \A m \in HcLoses(s, c) : m \in HcMessages /\ m > c.delivered /\ m < s.first
BY HcConstants DEF HcLoses, HcNextSeq, HcMessages

LEMMA HcLostStep ==
    HcTypes /\ HcStartInv /\ HcAheadInv /\ HcLostInv /\ [HcNext]_hcVars => HcLostInv'
<1> SUFFICES ASSUME HcTypes, HcStartInv, HcAheadInv, HcLostInv, [HcNext]_hcVars, hcPage' = "overview"
             PROVE  /\ hcListing'.first \in 0 .. hcFirst' /\ hcShown'.stream.first \in 0 .. hcFirst'
                    /\ \A m \in HcLoses(hcShown.stream, hcShown.consumer)' : m < hcFirst' /\ hcFate'[m] = "missed"
  BY DEF HcLostInv
<1>a. hcFirst \in 1 .. HcMax /\ hcFirst' \in 1 .. HcMax /\ hcFirst <= hcFirst' /\ HcMax \in Nat /\ hcDelivered \in Nat
  BY HcFirstGrows, HcTypesStep, HcConstants DEF HcTypes
<1>b. ASSUME hcPage = "overview"
      PROVE  /\ hcListing.first \in 0 .. hcFirst /\ hcShown.stream.first \in 0 .. hcFirst
             /\ \A m \in HcLoses(hcShown.stream, hcShown.consumer) : m < hcFirst /\ hcFate[m] = "missed"
  BY <1>b DEF HcLostInv
<1>1. CASE UNCHANGED <<hcPage, hcListing, hcShown>> \/ HcListStreams
  <2>1. hcPage = "overview" /\ hcShown' = hcShown /\ (hcListing' = hcListing \/ hcListing' = HcStreamRead)
    BY <1>1 DEF HcListStreams
  <2>2. hcListing'.first \in 0 .. hcFirst'
    <3>1. CASE hcListing' = hcListing
      BY <1>a, <1>b, <2>1, <3>1
    <3>2. CASE hcListing' = HcStreamRead
      BY <1>a, <3>2 DEF HcStreamRead
    <3> QED BY <2>1, <3>1, <3>2
  <2>3. hcShown'.stream.first \in 0 .. hcFirst'
    BY <1>a, <1>b, <2>1
  <2>4. ASSUME NEW m \in HcLoses(hcShown.stream, hcShown.consumer) PROVE m < hcFirst' /\ hcFate'[m] = "missed"
    <3>1. m \in HcMessages
      <4>1. hcShown.stream.first \in Int /\ hcShown.stream.first <= HcMax /\ hcShown.consumer.delivered \in Nat
        BY <1>a, <1>b, <2>1 DEF HcTypes
      <4> QED BY <4>1, <2>4, HcLosesMessages
    <3> QED BY <1>b, <2>1, <2>4, <3>1, HcMissedStays
  <2>5. HcLoses(hcShown.stream, hcShown.consumer)' = HcLoses(hcShown.stream, hcShown.consumer)
    BY <2>1 DEF HcLoses, HcStreamFull, HcNextSeq, HcTakes
  <2> QED BY <2>2, <2>3, <2>4, <2>5
<1>2. CASE \E quiet \in HcQuiet : HcListConsumers(quiet)
  <2>1. PICK quiet \in HcQuiet : HcListConsumers(quiet)
    BY <1>2
  <2>2. /\ hcPage = "overview" /\ hcListing' = HcNothing
        /\ hcShown' = [stream |-> hcListing, consumer |-> HcConsumerRead(quiet)]
        /\ UNCHANGED <<hcFirst, hcFate>>
    BY <2>1 DEF HcListConsumers, hcStreamVars, hcPosition
  <2>3. hcShown'.stream = hcListing /\ hcShown'.consumer = HcConsumerRead(quiet)
    BY <2>2
  <2>4. hcListing'.first \in 0 .. hcFirst' /\ hcShown'.stream.first \in 0 .. hcFirst'
    BY <1>a, <1>b, <2>2, <2>3 DEF HcNothing
  <2>5. ASSUME NEW m \in HcLoses(hcListing, HcConsumerRead(quiet)) PROVE m < hcFirst' /\ hcFate'[m] = "missed"
    <3>1. hcListing.first \in Int /\ hcListing.first <= HcMax /\ HcConsumerRead(quiet).delivered = hcDelivered
      BY <1>a, <1>b, <2>2 DEF HcConsumerRead
    <3>2. m \in HcMessages /\ m > hcDelivered /\ m < hcListing.first
      BY <1>a, <2>5, <3>1, HcLosesMessages
    <3>3. m < hcFirst
      BY <1>a, <1>b, <2>2, <3>2 DEF HcMessages
    <3> QED BY <2>2, <3>2, <3>3 DEF HcAheadInv
  <2>6. HcLoses(hcShown.stream, hcShown.consumer)' = HcLoses(hcListing, HcConsumerRead(quiet))
    BY <2>3 DEF HcLoses, HcStreamFull, HcNextSeq, HcTakes
  <2> QED BY <2>4, <2>5, <2>6
<1> QED BY <1>1, <1>2, HcShowing

LEMMA HcInvariant == HcSpec => []HcInv
<1>1. HcInit => HcInv
  <2> SUFFICES ASSUME HcInit PROVE HcInv
    OBVIOUS
  <2>1. /\ hcConfig \in [policy : {"all", "by_start_sequence", "new", "last"}, ack : {"explicit", "all", "none"},
                          maxDeliver : {0, 1}, maxOut : {0, 2}, push : BOOLEAN, filter : {"all", "odd"}]
        /\ hcFirst = 1 /\ hcLast = HcStored /\ hcDelivered = HcStartNow - 1 /\ hcFloor = hcDelivered
        /\ hcFate = [m \in HcMessages |-> IF m < HcStartNow THEN "before" ELSE "ahead"]
        /\ hcListing = HcNothing /\ hcShown = [stream |-> HcNothing, consumer |-> HcNoInfo]
    BY DEF HcInit, HcStartNow
  <2>2. HcStartNow \in 1 .. HcStored + 1
    BY <2>1, HcConstants DEF HcStartNow, HcStart
  <2>3. HcTypes
    <3>1. hcFate \in [HcMessages -> HcFates]
      BY <2>1 DEF HcFates
    <3>2. hcShown.consumer.delivered = 0
      BY <2>1 DEF HcNoInfo
    <3>3. /\ hcFirst \in 1 .. HcMax /\ hcLast \in 1 .. HcMax /\ hcFirst <= hcLast /\ hcLast - hcFirst < HcKeep
          /\ hcDelivered \in 0 .. hcLast /\ hcFloor \in 0 .. hcDelivered
      <4>1. HcStored <= HcKeep
        BY HcAssumption DEF HcAssumption
      <4> QED BY <2>1, <2>2, <4>1, HcConstants
    <3> QED BY <2>1, <3>1, <3>2, <3>3, HcConstants DEF HcTypes
  <2>4. HcStartInv /\ HcSentInv /\ HcAckedInv
    BY <2>1, <2>2, HcConstants DEF HcStartInv, HcSentInv, HcAckedInv, HcOut
  <2>5. HcAheadInv /\ HcPassedInv
    <3> SUFFICES ASSUME NEW m \in HcMessages
                 PROVE  /\ hcFate[m] \notin {"missed", "out"} /\ ~ (m < hcFirst)
                        /\ m > hcDelivered => hcFate[m] = "ahead"
                        /\ ~ (m >= HcStartNow /\ m <= hcDelivered)
      BY DEF HcAheadInv, HcPassedInv
    <3>1. m \in Nat /\ m >= 1
      BY HcConstants DEF HcMessages
    <3>2. m > hcDelivered <=> ~ (m < HcStartNow)
      BY <2>1, <2>2, <3>1, HcConstants
    <3> QED BY <2>1, <2>2, <3>1, <3>2, HcConstants
  <2>6. HcLostInv
    <3>1. HcLoses(hcShown.stream, hcShown.consumer) = {}
      BY <2>1 DEF HcLoses, HcStreamFull, HcNoInfo
    <3>2. hcListing.first = 0 /\ hcShown.stream.first = 0
      BY <2>1 DEF HcNothing
    <3> QED BY <2>1, <3>1, <3>2 DEF HcLostInv
  <2> QED BY <2>3, <2>4, <2>5, <2>6 DEF HcInv
<1>2. HcInv /\ [HcNext]_hcVars => HcInv'
  BY HcTypesStep, HcStartStep, HcAheadStep, HcPassedStep, HcSentStep, HcAckedStep, HcLostStep DEF HcInv
<1> QED BY <1>1, <1>2, PTL DEF HcSpec

\* What the page says became of a message is what became of it, and the messages
\* it calls lost are.
THEOREM VerdictsAreTrue == HcSpec => []HcVerdictsTrue
<1>1. HcInv => HcFateTrue
  <2> SUFFICES ASSUME HcInv, NEW m \in HcHeld \ hcMoved, HcFateShown(m)
               PROVE  hcFate[m] \in HcFateOf(m, HcConsumerRead(FALSE))
    BY DEF HcFateTrue
  <2> DEFINE c == HcConsumerRead(FALSE)
  <2>1. c.delivered = hcDelivered /\ c.floor = hcFloor /\ c.out = Cardinality(HcOut)
    BY DEF HcConsumerRead
  <2>2. m \in HcMessages /\ m \in Nat /\ m >= 1 /\ ~ (m < hcFirst)
    BY HcConstants DEF HcInv, HcTypes, HcHeld, HcMessages
  <2>3. HcOut = {} <=> c.out = 0
    <3>1. IsFiniteSet(HcOut)
      <4>1. IsFiniteSet(HcMessages)
        BY HcConstants, FS_Interval DEF HcMessages
      <4> QED BY <4>1, FS_Subset DEF HcOut
    <3> QED BY <2>1, <3>1, FS_EmptySet
  <2>4. hcConfig.policy \in {"all", "by_start_sequence", "new", "last"} /\ hcConfig.ack \in {"explicit", "all", "none"}
        /\ hcFate[m] \in HcFates
    BY <2>2 DEF HcInv, HcTypes
  <2>5. hcFate[m] = "before" <=> m < HcStartNow
    BY <2>2 DEF HcInv, HcStartInv
  <2>6. CASE m < HcStartNow
    <3>1. HcStartedAfter(m) \in {"yes", "maybe"}
      BY <2>2, <2>4, <2>6, HcConstants DEF HcStartedAfter, HcStartNow, HcStart
    <3> QED BY <2>5, <2>6, <3>1 DEF HcFateOf
  <2>7. CASE ~ (m < HcStartNow)
    <3>1. HcStartedAfter(m) # "yes"
      BY <2>2, <2>4, <2>7, HcConstants DEF HcStartedAfter, HcStartNow, HcStart
    <3>2. SUFFICES hcFate[m] \in
               IF m > c.delivered THEN {"ahead"}
               ELSE IF hcConfig.ack = "none" THEN {"sent"}
               ELSE IF m <= c.floor \/ c.out = 0 THEN {"acked", "dropped"}
               ELSE {"out", "dropped"} \cup (IF hcConfig.ack = "all" THEN {} ELSE {"acked"})
      BY <3>1 DEF HcFateOf
    <3>3. CASE m > hcDelivered
      BY <2>1, <2>2, <3>3 DEF HcInv, HcAheadInv
    <3>4. CASE ~ (m > hcDelivered)
      <4>1. hcDelivered \in Nat /\ hcFloor \in Nat /\ HcStartNow \in Nat
        BY HcStartIs, HcConstants DEF HcInv, HcTypes
      <4>2. m >= HcStartNow /\ m <= hcDelivered /\ m \in HcMessages \ hcMoved
        BY <2>2, <2>7, <3>4, <4>1
      <4>3. hcFate[m] \in {"out", "sent", "acked", "dropped"} /\ (hcFate[m] = "out" => m > hcFloor)
        BY <4>2 DEF HcInv, HcPassedInv, HcFateShown
      <4>4. /\ hcFate[m] = "sent" => hcConfig.ack = "none"
            /\ hcFate[m] \in {"out", "acked", "dropped"} => hcConfig.ack # "none"
        BY <2>2 DEF HcInv, HcSentInv
      <4>5. hcConfig.ack = "all" /\ hcFate[m] = "acked" => m <= hcFloor
        BY <2>2 DEF HcInv, HcAckedInv
      <4>6. hcFate[m] = "out" => c.out # 0
        BY <2>2, <2>3 DEF HcOut
      <4>7. hcFate[m] = "out" => ~ (m <= hcFloor)
        BY <2>2, <4>1, <4>3
      <4> QED BY <2>1, <3>4, <4>3, <4>4, <4>5, <4>6, <4>7
    <3> QED BY <3>3, <3>4
  <2> QED BY <2>6, <2>7
<1>2. HcInv => HcLossReal
  BY DEF HcInv, HcLostInv, HcLossReal
<1> QED BY <1>1, <1>2, HcInvariant, PTL DEF HcVerdictsTrue

\* What the types of the page rest on, besides the consumer's own.
HcPageTypes ==
    /\ hcMoved \subseteq HcMessages
    /\ hcBegun \in BOOLEAN /\ hcPaused \in BOOLEAN /\ hcWaits \in BOOLEAN /\ hcAgain \in BOOLEAN /\ hcFilter \in BOOLEAN
    /\ hcAdmin \in 0 .. HcMaxAdmin /\ hcPage \in {"overview", "tab"}
    /\ hcSpot.oldest \in 0 .. HcMax /\ hcSpot.next \in 0 .. HcMax /\ hcListing.first \in 0 .. HcMax
    /\ {"stream", "consumer"} \subseteq DOMAIN hcShown /\ hcShown.stream.first \in 0 .. HcMax

\* A message looked up is one of the stream, or none.
LEMMA HcNextMessageIs ==
    ASSUME HcInv, NEW from, NEW filter
    PROVE  HcNextMessage(from, filter) \in 0 .. HcMax
<1> DEFINE found == {m \in HcHeld : m >= from /\ HcTakes(filter, m)}
<1>1. HcMax \in Nat /\ hcFirst \in 1 .. HcMax /\ hcLast \in 1 .. HcMax
  BY HcConstants DEF HcInv, HcTypes
<1>2. found \in SUBSET (0 .. HcMax)
  BY <1>1 DEF HcHeld
<1>3. HcNextMessage(from, filter) = IF found = {} THEN 0 ELSE HcLeast(found)
  BY DEF HcNextMessage
<1> HIDE DEF found
<1>4. CASE found = {}
  BY <1>1, <1>3, <1>4
<1>5. CASE found # {}
  <2>1. PICK l \in found : \A n \in found : l <= n
    <3>1. found \in SUBSET (1 .. HcMax)
      BY <1>1 DEF found, HcHeld
    <3> QED BY <1>1, <1>5, <3>1, LeastOf
  <2>2. HcLeast(found) \in found
    BY <2>1 DEF HcLeast
  <2> QED BY <1>2, <1>3, <1>5, <2>2
<1> QED BY <1>4, <1>5

LEMMA HcPageTypesStep == HcInv /\ HcPageTypes /\ [HcNext]_hcVars => HcPageTypes'
<1> SUFFICES ASSUME HcInv, HcPageTypes, [HcNext]_hcVars PROVE HcPageTypes'
  OBVIOUS
<1> USE DEF HcPageTypes
<1>n. HcMax \in Nat /\ HcMaxAdmin \in Nat /\ 0 \in 0 .. HcMax
  BY HcConstants
<1>f. hcFirst \in 0 .. HcMax
  BY <1>n DEF HcInv, HcTypes
<1>1. hcMoved' \subseteq HcMessages
  <2>1. hcMoved' = hcMoved \/ HcChangeFilter \/ \E s \in 1 .. HcMax + 1 : HcReset(s)
    BY Zenon DEF HcNext, HcPublish, HcDeliver, HcClientComes, HcPause, HcAck, HcAckWaitEnds,
       HcListConsumers, HcTabReadsConsumers, HcListStreams, HcTabReadsStream, HcLookUp, HcProblemsOnly,
       HcOpen, HcAdministers, hcSwitches, hcClientVars, hcStreamVars, hcPosition, hcVars
  <2>2. CASE HcChangeFilter
    BY <2>2 DEF HcChangeFilter
  <2>3. CASE \E s \in 1 .. HcMax + 1 : HcReset(s)
    BY <2>3 DEF HcReset
  <2> QED BY <2>1, <2>2, <2>3
<1>2. hcBegun' \in BOOLEAN /\ hcPaused' \in BOOLEAN /\ hcWaits' \in BOOLEAN /\ hcAgain' \in BOOLEAN /\ hcFilter' \in BOOLEAN
  <2>1. hcBegun' = hcBegun \/ hcBegun' = TRUE
    BY Zenon DEF HcNext, HcPublish, HcDeliver, HcClientComes, HcPause, HcChangeFilter, HcAck, HcAckWaitEnds,
       HcReset, HcListConsumers, HcTabReadsConsumers, HcListStreams, HcTabReadsStream, HcLookUp,
       HcProblemsOnly, HcOpen, HcAdministers, hcSwitches, hcClientVars, hcStreamVars, hcPosition, hcVars
  <2>2. hcPaused' = hcPaused \/ hcPaused' = ~hcPaused
    BY Zenon DEF HcNext, HcPublish, HcDeliver, HcClientComes, HcPause, HcChangeFilter, HcAck, HcAckWaitEnds,
       HcReset, HcListConsumers, HcTabReadsConsumers, HcListStreams, HcTabReadsStream, HcLookUp,
       HcProblemsOnly, HcOpen, HcAdministers, hcSwitches, hcClientVars, hcStreamVars, hcPosition, hcVars
  <2>3. hcWaits' = hcWaits \/ hcWaits' = TRUE
    BY Zenon DEF HcNext, HcPublish, HcDeliver, HcClientComes, HcPause, HcChangeFilter, HcAck, HcAckWaitEnds,
       HcReset, HcListConsumers, HcTabReadsConsumers, HcListStreams, HcTabReadsStream, HcLookUp,
       HcProblemsOnly, HcOpen, HcAdministers, hcSwitches, hcClientVars, hcStreamVars, hcPosition, hcVars
  <2>4. hcAgain' = hcAgain \/ hcAgain' = TRUE \/ hcAgain' = FALSE \/ \E b : hcAgain' = (hcAgain /\ b)
    BY Zenon DEF HcNext, HcPublish, HcDeliver, HcClientComes, HcPause, HcChangeFilter, HcAck, HcAckWaitEnds,
       HcReset, HcListConsumers, HcTabReadsConsumers, HcListStreams, HcTabReadsStream, HcLookUp,
       HcProblemsOnly, HcOpen, HcAdministers, hcSwitches, hcClientVars, hcStreamVars, hcPosition, hcVars
  <2>5. hcFilter' = hcFilter \/ hcFilter' = FALSE \/ hcFilter' = ~hcFilter
    BY Zenon DEF HcNext, HcPublish, HcDeliver, HcClientComes, HcPause, HcChangeFilter, HcAck, HcAckWaitEnds,
       HcReset, HcListConsumers, HcTabReadsConsumers, HcListStreams, HcTabReadsStream, HcLookUp,
       HcProblemsOnly, HcOpen, HcAdministers, hcSwitches, hcClientVars, hcStreamVars, hcPosition, hcVars
  <2> QED BY <2>1, <2>2, <2>3, <2>4, <2>5, Zenon
<1>3. hcAdmin' \in 0 .. HcMaxAdmin
  <2>1. hcAdmin' = hcAdmin \/ HcAdministers
    BY Zenon DEF HcNext, HcPublish, HcDeliver, HcClientComes, HcPause, HcChangeFilter, HcAck, HcAckWaitEnds,
       HcReset, HcListConsumers, HcTabReadsConsumers, HcListStreams, HcTabReadsStream, HcLookUp,
       HcProblemsOnly, HcOpen, hcSwitches, hcClientVars, hcStreamVars, hcPosition, hcVars
  <2>2. CASE HcAdministers
    BY <1>n, <2>2 DEF HcAdministers
  <2> QED BY <2>1, <2>2
<1>4. hcPage' \in {"overview", "tab"}
  <2>1. hcPage' = hcPage \/ hcPage' = "tab"
    BY Zenon DEF HcNext, HcPublish, HcDeliver, HcClientComes, HcPause, HcChangeFilter, HcAck, HcAckWaitEnds,
       HcReset, HcListConsumers, HcTabReadsConsumers, HcListStreams, HcTabReadsStream, HcLookUp,
       HcProblemsOnly, HcOpen, HcAdministers, hcSwitches, hcClientVars, hcStreamVars, hcPosition, hcVars
  <2> QED BY <2>1
<1>5. hcSpot'.oldest \in 0 .. HcMax /\ hcSpot'.next \in 0 .. HcMax
  <2>1. hcSpot' = hcSpot \/ hcSpot' = HcNoSpot \/ HcLookUp
    BY Zenon DEF HcNext, HcPublish, HcDeliver, HcClientComes, HcPause, HcChangeFilter, HcAck, HcAckWaitEnds,
       HcReset, HcListConsumers, HcTabReadsConsumers, HcListStreams, HcTabReadsStream, HcProblemsOnly,
       HcOpen, HcAdministers, hcSwitches, hcClientVars, hcStreamVars, hcPosition, hcVars
  <2>2. CASE hcSpot' = HcNoSpot
    BY <1>n, <2>2 DEF HcNoSpot
  <2>3. CASE HcLookUp
    <3> DEFINE c == hcShown.consumer
               oldest == IF c.out = 0 \/ HcNextMessage(c.floor + 1, c.filter) > c.delivered THEN 0
                         ELSE HcNextMessage(c.floor + 1, c.filter)
               next == IF c.pending = 0 THEN 0 ELSE HcNextMessage(c.delivered + 1, c.filter)
    <3>1. hcSpot' = [oldest |-> oldest, next |-> next]
      BY <2>3, Zenon DEF HcLookUp
    <3>2. oldest \in 0 .. HcMax /\ next \in 0 .. HcMax
      BY <1>n, HcNextMessageIs, Zenon
    <3> HIDE DEF oldest, next
    <3> QED BY <3>1, <3>2
  <2> QED BY <2>1, <2>2, <2>3
<1>6. /\ hcListing'.first \in 0 .. HcMax
      /\ {"stream", "consumer"} \subseteq DOMAIN hcShown' /\ hcShown'.stream.first \in 0 .. HcMax
  <2>0. HcNothing.first \in 0 .. HcMax /\ HcStreamRead.first \in 0 .. HcMax
    BY <1>n, <1>f DEF HcNothing, HcStreamRead
  <2>1. hcListing' = hcListing \/ hcListing' = HcStreamRead \/ hcListing' = HcNothing
    BY Zenon DEF HcNext, HcPublish, HcDeliver, HcClientComes, HcPause, HcChangeFilter, HcAck, HcAckWaitEnds,
       HcReset, HcListConsumers, HcTabReadsConsumers, HcListStreams, HcTabReadsStream, HcLookUp,
       HcProblemsOnly, HcOpen, HcAdministers, hcSwitches, hcClientVars, hcStreamVars, hcPosition, hcVars
  <2>2. \/ hcShown' = hcShown
        \/ \E quiet : hcShown' = [stream |-> hcListing, consumer |-> HcConsumerRead(quiet)]
        \/ hcShown' = [hcShown EXCEPT !.stream = HcStreamRead]
        \/ \E quiet : hcShown' = [hcShown EXCEPT !.consumer = HcConsumerRead(quiet)]
        \/ hcShown' = [stream |-> HcNothing, consumer |-> HcNoInfo]
    BY Zenon DEF HcNext, HcPublish, HcDeliver, HcClientComes, HcPause, HcChangeFilter, HcAck, HcAckWaitEnds,
       HcReset, HcListConsumers, HcTabReadsConsumers, HcListStreams, HcTabReadsStream, HcLookUp,
       HcProblemsOnly, HcOpen, HcAdministers, hcSwitches, hcClientVars, hcStreamVars, hcPosition, hcVars
  <2>3. hcListing'.first \in 0 .. HcMax
    BY <2>0, <2>1
  <2>4. {"stream", "consumer"} \subseteq DOMAIN hcShown' /\ hcShown'.stream.first \in 0 .. HcMax
    BY <2>0, <2>2
  <2> QED BY <2>3, <2>4
<1> QED BY <1>1, <1>2, <1>3, <1>4, <1>5, <1>6

\* Every reachable state of a consumer and of its page has its type: no place, floor
\* or frontier beyond the messages there are (ConsumerPosition.tsx, messageFate.ts).
THEOREM HcTypeCorrect == HcSpec => []HcTypeOK
<1>1. HcInit => HcPageTypes
  <2> SUFFICES ASSUME HcInit PROVE HcPageTypes
    OBVIOUS
  <2>1. HcMax \in Nat /\ HcMaxAdmin \in Nat /\ 0 \in 0 .. HcMax /\ 0 \in 0 .. HcMaxAdmin
    BY HcConstants
  <2>2. hcSpot.oldest = 0 /\ hcSpot.next = 0 /\ hcListing.first = 0
    BY DEF HcInit, HcNoSpot, HcNothing
  <2>3. {"stream", "consumer"} \subseteq DOMAIN hcShown /\ hcShown.stream.first = 0
    BY DEF HcInit, HcNothing
  <2>4. /\ hcBegun = FALSE /\ hcPaused = FALSE /\ hcWaits = FALSE /\ hcAgain = FALSE /\ hcFilter = FALSE
        /\ hcMoved = {} /\ hcAdmin = 0 /\ hcPage \in {"overview", "tab"}
    BY Zenon DEF HcInit
  <2> QED BY <2>1, <2>2, <2>3, <2>4 DEF HcPageTypes
<1>2. HcInv /\ HcPageTypes => HcTypeOK
  <2> SUFFICES ASSUME HcInv, HcPageTypes PROVE HcTypeOK
    OBVIOUS
  <2>1. /\ HcMax \in Nat
        /\ hcFirst \in 1 .. HcMax /\ hcLast \in 1 .. HcMax /\ hcLast - hcFirst < HcKeep
        /\ hcFate \in [HcMessages -> HcFates] /\ hcDelivered \in 0 .. hcLast /\ hcFloor \in 0 .. hcDelivered
    BY HcConstants DEF HcInv, HcTypes
  <2>2. hcDelivered \in 0 .. HcMax /\ hcFloor \in 0 .. HcMax /\ hcFloor <= hcDelivered
    BY <2>1
  <2> QED BY <2>1, <2>2 DEF HcPageTypes, HcTypeOK
<1> QED BY <1>1, <1>2, HcPageTypesStep, HcInvariant, PTL DEF HcSpec

---------------------------------------------------------------------------
(***************************************************************************)
(* The live feed.  What the page says is so because the client of the feed *)
(* follows what the effects last ran with: the stream it has open, or the  *)
(* timer that will open one, is for that, until it gave up and says so.    *)
(* The feed is in order because what waits is later than what is shown.    *)
(***************************************************************************)

LvStatuses == {"disconnected", "connecting", "connected", "reconnecting"}
LvMessages == [id : Nat, batch : Nat, conn : LvConns, subject : LvSubjects]
LvClients ==
    [on : {TRUE}, conn : LvConns, key : LvTargets, attempts : Nat, timer : LvTargets, stream : Nat,
     paused : BOOLEAN, held : SUBSET LvMessages]

LvTypes ==
    /\ lvConn \in LvConns /\ lvRun \in BOOLEAN /\ lvVisible \in BOOLEAN
    /\ lvDraft \subseteq LvSubjects /\ lvMuted \subseteq LvSubjects
    /\ lvStatus \in LvStatuses /\ lvSent \in Nat
    /\ lvRan \in [conn : LvConns, active : BOOLEAN, target : LvTargets, status : LvStatuses]
    /\ lvClient \in LvClients \cup {LvNoClient}
    /\ lvWire \subseteq [n : Nat, conn : LvConns, target : LvTargets, est : BOOLEAN]

\* What is asked for is not nothing, and one stream is open for it at most.
LvAskedInv ==
    /\ \A s, t \in lvWire : s = t
    /\ lvRun => lvDraft # {}
    /\ lvRan.active => lvRan.target.subjects # {}

LvClientInv ==
    IF lvClient.on
    THEN /\ lvRan.active /\ lvClient.conn = lvRan.conn
         /\ \A s \in lvWire : s.n = lvClient.stream /\ s.target = lvClient.key /\ s.conn = lvClient.conn
         /\ lvClient.key = IF lvStatus = "disconnected" THEN LvNoTarget ELSE lvRan.target
         /\ lvStatus = "disconnected" => lvErr = TRUE /\ lvWire = {} /\ lvClient.timer = LvNoTarget
         /\ lvStatus # "disconnected" => lvWire # {} \/ lvClient.timer = lvClient.key
         /\ lvClient.timer # LvNoTarget => lvClient.timer = lvClient.key /\ lvWire = {} /\ lvStatus = "reconnecting"
    ELSE ~lvRan.active /\ lvWire = {}

LvLinkInv == LvTypes /\ LvAskedInv /\ LvClientInv

LEMMA LvTargetIs ==
    ASSUME LvTypes
    PROVE  /\ LvTarget \in LvTargets /\ LvNoTarget \in LvTargets
           /\ LvWanted = [conn |-> lvConn, active |-> lvRun /\ lvVisible, target |-> LvTarget, status |-> lvStatus]
           /\ LvWanted \in [conn : LvConns, active : BOOLEAN, target : LvTargets, status : LvStatuses]
<1>1. LvTarget \in LvTargets /\ LvNoTarget \in LvTargets
  BY DEF LvTypes, LvTarget, LvTargets, LvNoTarget
<1>2. (lvRun /\ lvVisible) \in BOOLEAN
  BY DEF LvTypes
<1> QED BY <1>1, <1>2 DEF LvWanted, LvTypes

\* The streams the client opens.
LvOpened(n, conn, target) == {[n |-> n, conn |-> conn, target |-> target, est |-> FALSE]}

LEMMA LvStarts ==
    ASSUME NEW client, NEW target
    PROVE  \E n \in Nat : LvStartStream(client, {}, target) =
               <<[client EXCEPT !.stream = n], LvOpened(n, client.conn, target)>>
<1> DEFINE n == CHOOSE n \in LvStreams : \A s \in {} : s.n # n
<1>1. n \in Nat
  BY DEF LvStreams
<1>2. LvStartStream(client, {}, target) = <<[client EXCEPT !.stream = n], LvOpened(n, client.conn, target)>>
  BY DEF LvStartStream, LvOpened
<1> HIDE DEF n
<1> QED BY <1>1, <1>2

LEMMA LvSubscribes ==
    ASSUME NEW client, NEW wire, NEW target, client \in LvClients,
           \A s \in wire : s.n = client.stream,
           client.key # target
    PROVE  \E n \in Nat : LvSubscribeTarget(client, wire, target) =
               <<[client EXCEPT !.key = target, !.attempts = 0, !.timer = LvNoTarget, !.stream = n],
                 LvOpened(n, client.conn, target)>>
<1> DEFINE c == [client EXCEPT !.key = target, !.attempts = 0, !.timer = LvNoTarget]
<1>1. LvCancel(client, wire) = {}
  BY DEF LvCancel
<1>2. LvSubscribeTarget(client, wire, target) = LvStartStream(c, {}, target)
  BY <1>1 DEF LvSubscribeTarget
<1>3. c.conn = client.conn /\ \A n \in Nat : [c EXCEPT !.stream = n] =
          [client EXCEPT !.key = target, !.attempts = 0, !.timer = LvNoTarget, !.stream = n]
  BY DEF LvClients
<1> HIDE DEF c
<1>4. PICK n \in Nat : LvStartStream(c, {}, target) = <<[c EXCEPT !.stream = n], LvOpened(n, c.conn, target)>>
  BY LvStarts
<1>5. [c EXCEPT !.stream = n] =
          [client EXCEPT !.key = target, !.attempts = 0, !.timer = LvNoTarget, !.stream = n]
  BY <1>3
<1> QED BY <1>2, <1>3, <1>4, <1>5

\* A client and its stream that fit what the effects run with.
LvFits(client, wire) ==
    \E n \in Nat :
        /\ client \in LvClients /\ client.conn = lvConn /\ client.key = LvTarget
        /\ client.timer = LvNoTarget /\ client.stream = n
        /\ wire = LvOpened(n, lvConn, LvTarget)

LEMMA LvReopens ==
    ASSUME LvLinkInv, LvReopen
    PROVE  IF LvWanted.active
           THEN LvFits(lvClient', lvWire') /\ lvStatus' = "connecting" /\ lvClient'.held = {} /\ lvClient'.paused = FALSE
                /\ lvClient'.attempts = 0
           ELSE lvClient' = LvNoClient /\ lvWire' = {} /\ lvStatus' = "disconnected"
<1> DEFINE was == IF lvClient.on THEN LvCancel(lvClient, lvWire) ELSE lvWire
<1>1. was = {}
  BY DEF LvLinkInv, LvClientInv, LvCancel
<1>2. CASE ~LvWanted.active
  BY <1>1, <1>2 DEF LvReopen
<1>3. CASE LvWanted.active
  <2>1. lvRun /\ LvTarget.subjects # {} /\ LvTarget # LvNoTarget
    BY <1>3, LvTargetIs DEF LvLinkInv, LvAskedInv, LvTarget, LvNoTarget
  <2>2. LvNewClient \in LvClients /\ LvNewClient.conn = lvConn /\ LvNewClient.key = LvNoTarget
        /\ LvNewClient.held = {} /\ LvNewClient.paused = FALSE
    BY LvTargetIs DEF LvNewClient, LvClients, LvLinkInv, LvTypes
  <2>3. PICK n \in Nat : LvSubscribeTarget(LvNewClient, {}, LvTarget) =
            <<[LvNewClient EXCEPT !.key = LvTarget, !.attempts = 0, !.timer = LvNoTarget, !.stream = n],
              LvOpened(n, LvNewClient.conn, LvTarget)>>
    BY <2>1, <2>2, LvSubscribes
  <2>4. /\ lvClient' = [LvNewClient EXCEPT !.key = LvTarget, !.attempts = 0, !.timer = LvNoTarget, !.stream = n]
        /\ lvWire' = LvOpened(n, lvConn, LvTarget) /\ lvStatus' = "connecting"
    BY <1>1, <1>3, <2>1, <2>2, <2>3 DEF LvReopen
  <2>5. /\ lvClient' \in LvClients /\ lvClient'.conn = lvConn /\ lvClient'.key = LvTarget
        /\ lvClient'.timer = LvNoTarget /\ lvClient'.stream = n /\ lvClient'.held = {} /\ lvClient'.paused = FALSE
        /\ lvClient'.attempts = 0
    BY <2>2, <2>4, LvTargetIs DEF LvClients, LvLinkInv
  <2> QED BY <1>3, <2>4, <2>5 DEF LvFits
<1> QED BY <1>2, <1>3

LEMMA LvResubscribes ==
    ASSUME LvLinkInv, LvResubscribe, lvRan.conn = lvConn, lvRan.active = LvWanted.active
    PROVE  /\ lvStatus' = lvStatus /\ lvErr' = lvErr /\ lvPaused' = lvPaused
           /\ \/ lvClient.on /\ lvStatus # "disconnected" /\ LvFits(lvClient', lvWire')
                 /\ lvClient'.held = lvClient.held /\ lvClient'.paused = lvClient.paused /\ lvClient'.attempts = 0
              \/ (lvClient.on => lvStatus = "disconnected" \/ lvClient.key = LvTarget) /\ UNCHANGED <<lvClient, lvWire>>
<1>1. CASE ~lvClient.on \/ lvStatus = "disconnected"
  BY <1>1 DEF LvResubscribe
<1>2. CASE lvClient.on /\ lvStatus # "disconnected"
  <2>1. LvWanted.active /\ lvClient.conn = lvConn /\ lvClient \in LvClients
    BY <1>2 DEF LvLinkInv, LvClientInv, LvTypes, LvNoClient
  <2>2. lvRun /\ LvTarget.subjects # {}
    BY <2>1, LvTargetIs DEF LvLinkInv, LvAskedInv, LvTarget, LvNoTarget
  <2>3. /\ lvClient' = LvSubscribeTarget(lvClient, lvWire, LvTarget)[1]
        /\ lvWire' = LvSubscribeTarget(lvClient, lvWire, LvTarget)[2]
        /\ UNCHANGED <<lvStatus, lvErr, lvPaused>>
    BY <1>2, <2>2 DEF LvResubscribe
  <2>4. CASE lvClient.key = LvTarget
    BY <2>3, <2>4 DEF LvSubscribeTarget
  <2>5. CASE lvClient.key # LvTarget
    <3>1. \A s \in lvWire : s.n = lvClient.stream
      BY <1>2 DEF LvLinkInv, LvClientInv
    <3>2. PICK n \in Nat : LvSubscribeTarget(lvClient, lvWire, LvTarget) =
              <<[lvClient EXCEPT !.key = LvTarget, !.attempts = 0, !.timer = LvNoTarget, !.stream = n],
                LvOpened(n, lvClient.conn, LvTarget)>>
      BY <2>1, <2>5, <3>1, LvSubscribes
    <3>3. /\ lvClient' = [lvClient EXCEPT !.key = LvTarget, !.attempts = 0, !.timer = LvNoTarget, !.stream = n]
          /\ lvWire' = LvOpened(n, lvConn, LvTarget)
      BY <2>1, <2>3, <3>2
    <3>4. /\ lvClient' \in LvClients /\ lvClient'.conn = lvConn /\ lvClient'.key = LvTarget
          /\ lvClient'.timer = LvNoTarget /\ lvClient'.stream = n
          /\ lvClient'.held = lvClient.held /\ lvClient'.paused = lvClient.paused /\ lvClient'.attempts = 0
      BY <2>1, <3>3, LvTargetIs DEF LvClients, LvLinkInv
    <3> QED BY <1>2, <2>3, <3>3, <3>4 DEF LvFits
  <2> QED BY <2>4, <2>5
<1> QED BY <1>1, <1>2

\* The messages of a batch are new, and each has an id of its own.
LvIds == lvSent * Cardinality(LvSubjects)
LvArrive(s, batch) ==
    {[id |-> lvSent * Cardinality(LvSubjects) + i, batch |-> lvSent, conn |-> s.conn, subject |-> batch[i]] :
         i \in DOMAIN batch}

LEMMA LvSeqIs ==
    ASSUME NEW S, IsFiniteSet(S)
    PROVE  Cardinality(S) \in Nat /\ SetToSeq(S) \in [1 .. Cardinality(S) -> S]
<1>1. Cardinality(S) \in Nat /\ ExistsBijection(1 .. Cardinality(S), S)
  BY FS_CardinalityType
<1>2. PICK f \in [1 .. Cardinality(S) -> S] : IsInjective(f)
  BY <1>1 DEF ExistsBijection, Bijection, Injection, IsInjective
<1> QED BY <1>1, <1>2 DEF SetToSeq

LEMMA LvArrives ==
    ASSUME LvTypes, NEW s \in lvWire, NEW batch \in LvBatchesOf(s.target.subjects \ s.target.exclude)
    PROVE  /\ LvIds \in Nat /\ Cardinality(LvSubjects) \in Nat
           /\ (lvSent + 1) * Cardinality(LvSubjects) = LvIds + Cardinality(LvSubjects)
           /\ LvArrive(s, batch) \subseteq LvMessages /\ IsFiniteSet(LvArrive(s, batch))
           /\ \A m \in LvArrive(s, batch) :
                 m.conn = s.conn /\ m.id > LvIds /\ m.id <= LvIds + Cardinality(LvSubjects)
           /\ \A m, n \in LvArrive(s, batch) : m.id = n.id => m = n
<1>1. s.target.subjects \subseteq LvSubjects /\ s.conn \in LvConns /\ IsFiniteSet(LvSubjects)
  BY LvAssumption DEF LvTypes, LvTargets, LvAssumption
<1>2. PICK S \in SUBSET LvSubjects : batch = SetToSeq(S)
  BY <1>1 DEF LvBatchesOf
<1>3. IsFiniteSet(S) /\ Cardinality(S) <= Cardinality(LvSubjects) /\ Cardinality(LvSubjects) \in Nat
  BY <1>1, FS_Subset, FS_CardinalityType
<1>4. DOMAIN batch = 1 .. Cardinality(S) /\ Cardinality(S) \in Nat /\ \A i \in DOMAIN batch : batch[i] \in LvSubjects
  BY <1>2, <1>3, LvSeqIs
<1>5. lvSent \in Nat /\ LvIds \in Nat
  BY <1>3 DEF LvTypes, LvIds
<1>6. (lvSent + 1) * Cardinality(LvSubjects) = LvIds + Cardinality(LvSubjects)
  BY <1>3, <1>5 DEF LvIds
<1> DEFINE at(i) == [id |-> LvIds + i, batch |-> lvSent, conn |-> s.conn, subject |-> batch[i]]
<1>7. LvArrive(s, batch) = {at(i) : i \in DOMAIN batch}
  BY DEF LvArrive, LvIds
<1>8. \A i \in DOMAIN batch :
          /\ at(i) \in LvMessages /\ at(i).conn = s.conn /\ at(i).id = LvIds + i
          /\ LvIds + i > LvIds /\ LvIds + i <= LvIds + Cardinality(LvSubjects)
  BY <1>1, <1>3, <1>4, <1>5 DEF LvMessages
<1>9. IsFiniteSet(LvArrive(s, batch))
  <2>1. DOMAIN batch = 1 .. Cardinality(S) /\ IsFiniteSet(DOMAIN batch)
    BY <1>4, FS_Interval
  <2>2. [i \in DOMAIN batch |-> at(i)] \in Surjection(DOMAIN batch, LvArrive(s, batch))
    BY <1>7 DEF Surjection
  <2> HIDE DEF at
  <2> QED BY <2>1, <2>2, FS_Surjection
<1>10. \A i, j \in DOMAIN batch : LvIds + i = LvIds + j => i = j
  BY <1>4, <1>5
<1>11. ASSUME NEW m \in LvArrive(s, batch), NEW n \in LvArrive(s, batch), m.id = n.id PROVE m = n
  <2>1. PICK i \in DOMAIN batch : m = at(i)
    BY <1>7
  <2>2. PICK j \in DOMAIN batch : n = at(j)
    BY <1>7
  <2>3. LvIds + i = LvIds + j
    BY <1>8, <1>11, <2>1, <2>2
  <2> QED BY <1>10, <2>1, <2>2, <2>3
<1>12. LvArrive(s, batch) \subseteq LvMessages
       /\ \A m \in LvArrive(s, batch) :
             m.conn = s.conn /\ m.id > LvIds /\ m.id <= LvIds + Cardinality(LvSubjects)
  <2> HIDE DEF at
  <2> QED BY <1>7, <1>8
<1> QED BY <1>3, <1>5, <1>6, <1>9, <1>11, <1>12

\* An event of the stream: the client hears of it, whatever waits.
LvSameLink(client) ==
    /\ client \in LvClients /\ client.conn = lvClient.conn /\ client.key = lvClient.key
    /\ client.timer = lvClient.timer /\ client.stream = lvClient.stream

LEMMA LvHears ==
    ASSUME LvLinkInv, NEW s \in lvWire, NEW client, LvSameLink(client), LvHear(s, client),
           UNCHANGED <<lvUser, lvRan>>, lvSent' \in Nat
    PROVE  LvLinkInv'
<1>1. /\ lvWire = {s} /\ s \in [n : Nat, conn : LvConns, target : LvTargets, est : BOOLEAN]
      /\ lvClient \in LvClients /\ lvClient.on = TRUE
  <2>1. lvWire = {s}
    BY DEF LvLinkInv, LvAskedInv
  <2>2. lvClient \in LvClients
    BY DEF LvLinkInv, LvTypes, LvClientInv, LvNoClient
  <2> QED BY <2>1, <2>2 DEF LvLinkInv, LvTypes, LvClients
<1>2. lvStatus # "disconnected" /\ lvClient.timer = LvNoTarget
  BY <1>1 DEF LvLinkInv, LvClientInv
<1>3. lvWire' = {[s EXCEPT !.est = TRUE]}
  BY <1>1 DEF LvHear
<1>4. /\ [s EXCEPT !.est = TRUE] \in [n : Nat, conn : LvConns, target : LvTargets, est : BOOLEAN]
      /\ [s EXCEPT !.est = TRUE].n = s.n /\ [s EXCEPT !.est = TRUE].target = s.target
      /\ [s EXCEPT !.est = TRUE].conn = s.conn
  BY <1>1
<1>5. /\ lvClient' \in LvClients /\ lvClient'.on = TRUE /\ lvClient'.conn = lvClient.conn
      /\ lvClient'.key = lvClient.key /\ lvClient'.timer = lvClient.timer /\ lvClient'.stream = lvClient.stream
  <2>1. lvClient' = client \/ lvClient' = [client EXCEPT !.attempts = 0]
    BY DEF LvHear
  <2>2. client \in LvClients
    BY DEF LvSameLink
  <2>3. /\ lvClient' \in LvClients /\ lvClient'.on = TRUE /\ lvClient'.conn = client.conn
        /\ lvClient'.key = client.key /\ lvClient'.timer = client.timer /\ lvClient'.stream = client.stream
    <3>1. CASE lvClient' = client
      BY <2>2, <3>1 DEF LvClients
    <3>2. CASE lvClient' = [client EXCEPT !.attempts = 0]
      BY <2>2, <3>2 DEF LvClients
    <3> QED BY <2>1, <3>1, <3>2
  <2> QED BY <2>3 DEF LvSameLink
<1>6. lvStatus' \in LvStatuses /\ lvStatus' # "disconnected"
  BY <1>2 DEF LvHear, LvStatuses, LvLinkInv, LvTypes
<1>7. UNCHANGED <<lvConn, lvRun, lvDraft, lvMuted, lvVisible, lvRan>>
  BY DEF lvUser
<1>8. LvTypes'
  BY <1>3, <1>4, <1>5, <1>6, <1>7 DEF LvLinkInv, LvTypes
<1>9. LvAskedInv'
  BY <1>3, <1>7 DEF LvLinkInv, LvAskedInv
<1>10. LvClientInv'
  BY <1>1, <1>2, <1>3, <1>4, <1>5, <1>6, <1>7 DEF LvLinkInv, LvClientInv
<1> QED BY <1>8, <1>9, <1>10 DEF LvLinkInv

LEMMA LvBatchStep ==
    ASSUME LvLinkInv, NEW s \in lvWire, LvBatch(s)
    PROVE  LvLinkInv'
<1>1. PICK batch \in LvBatchesOf(s.target.subjects \ s.target.exclude) :
          IF lvClient.paused
          THEN LvHear(s, [lvClient EXCEPT !.held = LvTrimmed(@ \cup LvArrive(s, batch))])
          ELSE LvHear(s, lvClient)
  BY DEF LvBatch, LvArrive
<1>2. lvClient \in LvClients
  BY DEF LvLinkInv, LvTypes, LvClientInv, LvNoClient
<1>3. LvTrimmed(lvClient.held \cup LvArrive(s, batch)) \subseteq LvMessages
  BY <1>2, LvArrives DEF LvLinkInv, LvTrimmed, LvClients
<1>4. LvSameLink([lvClient EXCEPT !.held = LvTrimmed(@ \cup LvArrive(s, batch))]) /\ LvSameLink(lvClient)
  BY <1>2, <1>3 DEF LvSameLink, LvClients
<1>5. UNCHANGED <<lvUser, lvRan>> /\ lvSent' \in Nat
  BY DEF LvBatch, LvLinkInv, LvTypes
<1> QED BY <1>1, <1>4, <1>5, LvHears

LEMMA LvOtherEventStep ==
    ASSUME LvLinkInv, NEW s \in lvWire, LvRefused(s) \/ LvTick(s)
    PROVE  LvLinkInv'
<1>1. LvHear(s, lvClient) /\ UNCHANGED <<lvUser, lvRan>> /\ lvSent' \in Nat
  BY DEF LvRefused, LvTick, LvLinkInv, LvTypes
<1>2. LvSameLink(lvClient)
  BY DEF LvSameLink, LvLinkInv, LvTypes, LvClientInv, LvNoClient
<1> QED BY <1>1, <1>2, LvHears

LEMMA LvBreakStep ==
    ASSUME LvLinkInv, NEW s \in lvWire, LvEnd(s) \/ LvFatal(s)
    PROVE  LvLinkInv'
<1>1. /\ lvWire = {s} /\ lvClient \in LvClients /\ lvClient.on = TRUE /\ lvClient.key = s.target
      /\ lvStatus # "disconnected" /\ lvClient.timer = LvNoTarget
  <2>1. lvWire = {s}
    BY DEF LvLinkInv, LvAskedInv
  <2>2. lvClient \in LvClients
    BY DEF LvLinkInv, LvTypes, LvClientInv, LvNoClient
  <2> QED BY <2>1, <2>2 DEF LvLinkInv, LvClientInv, LvClients
<1>2. lvWire' = {} /\ UNCHANGED <<lvConn, lvRun, lvDraft, lvMuted, lvVisible, lvRan, lvSent>>
  BY <1>1 DEF LvEnd, LvFatal, lvUser
<1>3. \/ /\ lvClient' = [lvClient EXCEPT !.key = LvNoTarget] /\ lvStatus' = "disconnected" /\ lvErr' = TRUE
      \/ /\ lvClient' = [lvClient EXCEPT !.attempts = @ + 1, !.timer = s.target] /\ lvStatus' = "reconnecting"
  <2>1. CASE LvFatal(s)
    BY <2>1 DEF LvFatal
  <2>2. CASE LvEnd(s)
    BY <1>1, <2>2 DEF LvEnd, LvScheduleReconnect
  <2> QED BY <2>1, <2>2
<1>4. /\ lvClient' \in LvClients /\ lvClient'.on = TRUE /\ lvClient'.conn = lvClient.conn
      /\ \/ lvClient'.key = LvNoTarget /\ lvClient'.timer = LvNoTarget /\ lvStatus' = "disconnected" /\ lvErr' = TRUE
         \/ lvClient'.key = lvClient.key /\ lvClient'.timer = lvClient.key /\ lvStatus' = "reconnecting"
  <2>1. s.target \in LvTargets /\ LvNoTarget \in LvTargets
    BY LvTargetIs DEF LvLinkInv, LvTypes
  <2>2. CASE lvClient' = [lvClient EXCEPT !.key = LvNoTarget] /\ lvStatus' = "disconnected" /\ lvErr' = TRUE
    BY <1>1, <2>1, <2>2 DEF LvClients
  <2>3. CASE lvClient' = [lvClient EXCEPT !.attempts = @ + 1, !.timer = s.target] /\ lvStatus' = "reconnecting"
    <3>1. lvClient.attempts + 1 \in Nat
      BY <1>1 DEF LvClients
    <3>2. lvClient' \in LvClients /\ lvClient'.on = TRUE /\ lvClient'.conn = lvClient.conn
      BY <1>1, <2>1, <2>3, <3>1 DEF LvClients
    <3>3. lvClient'.key = lvClient.key /\ lvClient'.timer = s.target
      BY <1>1, <2>3 DEF LvClients
    <3> QED BY <1>1, <2>3, <3>2, <3>3
  <2> QED BY <1>3, <2>2, <2>3
<1>5. LvTypes'
  BY <1>2, <1>4 DEF LvLinkInv, LvTypes, LvStatuses
<1>6. LvAskedInv'
  BY <1>2 DEF LvLinkInv, LvAskedInv
<1>7. LvClientInv'
  BY <1>1, <1>2, <1>4 DEF LvLinkInv, LvClientInv
<1> QED BY <1>5, <1>6, <1>7 DEF LvLinkInv

LEMMA LvTimerStep == LvLinkInv /\ LvTimer => LvLinkInv'
<1> SUFFICES ASSUME LvLinkInv, LvTimer PROVE LvLinkInv'
  OBVIOUS
<1>1. /\ lvClient \in LvClients /\ lvClient.on = TRUE /\ lvClient.timer = lvClient.key /\ lvWire = {}
      /\ lvStatus = "reconnecting" /\ lvClient.key = lvRan.target
  <2>1. lvClient.on /\ lvClient.timer # LvNoTarget
    BY DEF LvTimer
  <2>2. lvClient \in LvClients
    BY <2>1 DEF LvLinkInv, LvTypes, LvNoClient
  <2> QED BY <2>1, <2>2 DEF LvLinkInv, LvClientInv, LvClients
<1> DEFINE c == [lvClient EXCEPT !.timer = LvNoTarget]
<1>2. PICK n \in Nat : LvStartStream(c, {}, lvClient.timer) =
          <<[c EXCEPT !.stream = n], LvOpened(n, c.conn, lvClient.timer)>>
  BY LvStarts
<1>3. /\ c \in LvClients /\ c.conn = lvClient.conn /\ c.key = lvClient.key /\ c.timer = LvNoTarget
  BY <1>1, LvTargetIs DEF LvLinkInv, LvClients
<1>4. lvClient' = [c EXCEPT !.stream = n] /\ lvWire' = LvOpened(n, c.conn, lvClient.timer)
  BY <1>1, <1>2 DEF LvTimer
<1> HIDE DEF c
<1>5. /\ lvClient' \in LvClients /\ lvClient'.on = TRUE /\ lvClient'.conn = lvClient.conn
      /\ lvClient'.key = lvClient.key /\ lvClient'.timer = LvNoTarget /\ lvClient'.stream = n
      /\ lvClient'.held = c.held /\ lvClient'.paused = c.paused
  BY <1>3, <1>4 DEF LvClients
<1>6. lvWire' = LvOpened(n, lvClient.conn, lvClient.key)
  BY <1>1, <1>3, <1>4
<1>7. UNCHANGED <<lvConn, lvRun, lvDraft, lvMuted, lvVisible, lvRan, lvStatus, lvErr, lvSent>>
  BY DEF LvTimer, lvUser
<1>8. LvTypes'
  <2>1. LvOpened(n, lvClient.conn, lvClient.key) \subseteq [n : Nat, conn : LvConns, target : LvTargets, est : BOOLEAN]
    BY <1>1 DEF LvOpened, LvClients
  <2> QED BY <1>5, <1>6, <1>7, <2>1 DEF LvLinkInv, LvTypes
<1>9. LvAskedInv'
  BY <1>6, <1>7 DEF LvLinkInv, LvAskedInv, LvOpened
<1>10. LvClientInv'
  BY <1>1, <1>5, <1>6, <1>7 DEF LvLinkInv, LvClientInv, LvOpened
<1> QED BY <1>8, <1>9, <1>10 DEF LvLinkInv

LEMMA LvEffectsStep == LvLinkInv /\ LvEffects => LvLinkInv'
<1> SUFFICES ASSUME LvLinkInv, LvEffects PROVE LvLinkInv'
  OBVIOUS
<1>1. /\ lvRan' = LvWanted /\ UNCHANGED <<lvConn, lvRun, lvDraft, lvMuted, lvVisible, lvSent>>
      /\ lvRan'.conn = lvConn /\ lvRan'.active = LvWanted.active /\ lvRan'.target = LvTarget
  BY LvTargetIs DEF LvEffects, lvUser, LvLinkInv
<1>2. lvRan' \in [conn : LvConns, active : BOOLEAN, target : LvTargets, status : LvStatuses]
  BY <1>1, LvTargetIs DEF LvLinkInv
<1>3. LvWanted.active => lvRun /\ LvTarget.subjects # {} /\ LvTarget # LvNoTarget
  BY LvTargetIs DEF LvLinkInv, LvAskedInv, LvTarget, LvNoTarget
<1>4. ASSUME LvFits(lvClient', lvWire'), LvWanted.active = TRUE, lvStatus' \in LvStatuses \ {"disconnected"}
      PROVE  LvLinkInv'
  <2>1. PICK n \in Nat :
            /\ lvClient' \in LvClients /\ lvClient'.conn = lvConn /\ lvClient'.key = LvTarget
            /\ lvClient'.timer = LvNoTarget /\ lvClient'.stream = n
            /\ lvWire' = LvOpened(n, lvConn, LvTarget)
    BY <1>4 DEF LvFits
  <2>2. lvClient'.on = TRUE
    BY <2>1 DEF LvClients
  <2>3. LvTypes'
    <3>1. LvOpened(n, lvConn, LvTarget) \subseteq [n : Nat, conn : LvConns, target : LvTargets, est : BOOLEAN]
      BY LvTargetIs DEF LvOpened, LvLinkInv, LvTypes
    <3> QED BY <1>1, <1>2, <1>4, <2>1, <3>1 DEF LvLinkInv, LvTypes
  <2>4. LvAskedInv'
    BY <1>1, <1>3, <1>4, <2>1 DEF LvLinkInv, LvAskedInv, LvOpened
  <2>5. LvClientInv'
    BY <1>1, <1>3, <1>4, <2>1, <2>2 DEF LvClientInv, LvOpened
  <2> QED BY <2>3, <2>4, <2>5 DEF LvLinkInv
<1>5. CASE LvReopen
  <2>1. CASE LvWanted.active
    <3>1. LvFits(lvClient', lvWire') /\ lvStatus' \in LvStatuses \ {"disconnected"} /\ LvWanted.active = TRUE
      BY <1>5, <2>1, LvReopens, LvTargetIs DEF LvStatuses, LvLinkInv
    <3> QED BY <1>4, <3>1
  <2>2. CASE ~LvWanted.active
    <3>1. lvClient' = LvNoClient /\ lvWire' = {} /\ lvStatus' \in LvStatuses
      BY <1>5, <2>2, LvReopens DEF LvStatuses
    <3>2. LvTypes'
      BY <1>1, <1>2, <3>1 DEF LvLinkInv, LvTypes
    <3>3. LvAskedInv' /\ LvClientInv'
      BY <1>1, <2>2, <3>1 DEF LvLinkInv, LvAskedInv, LvClientInv, LvNoClient
    <3> QED BY <3>2, <3>3 DEF LvLinkInv
  <2> QED BY <2>1, <2>2
<1>6. CASE LvResubscribe /\ <<lvRan.conn, lvRan.active>> = <<lvConn, LvWanted.active>>
  <2>1. lvRan.conn = lvConn /\ lvRan.active = LvWanted.active
    BY <1>6
  <2>2. lvStatus' = lvStatus /\ lvErr' = lvErr
    BY <1>6, <2>1, LvResubscribes
  <2>3. CASE lvClient.on /\ lvStatus # "disconnected" /\ LvFits(lvClient', lvWire')
    <3>1. LvWanted.active = TRUE
      BY <2>1, <2>3 DEF LvLinkInv, LvClientInv, LvTypes
    <3>2. lvStatus' \in LvStatuses \ {"disconnected"}
      BY <2>2, <2>3 DEF LvLinkInv, LvTypes
    <3> QED BY <1>4, <2>3, <3>1, <3>2
  <2>4. CASE /\ lvClient.on => lvStatus = "disconnected" \/ lvClient.key = LvTarget
             /\ UNCHANGED <<lvClient, lvWire>>
    <3>1. LvTypes'
      BY <1>1, <1>2, <2>2, <2>4 DEF LvLinkInv, LvTypes
    <3>2. LvAskedInv'
      BY <1>1, <1>3, <2>4 DEF LvLinkInv, LvAskedInv
    <3>3. LvClientInv'
      BY <1>1, <2>1, <2>2, <2>4 DEF LvLinkInv, LvClientInv
    <3> QED BY <3>1, <3>2, <3>3 DEF LvLinkInv
  <2> QED BY <1>6, <2>1, <2>3, <2>4, LvResubscribes
<1> QED BY <1>5, <1>6 DEF LvEffects

\* What the user does leaves the stream as it is, and what the effects ran with.
LvUserDoes ==
    /\ UNCHANGED <<lvRan, lvWire, lvStatus, lvErr, lvSent>>
    /\ lvConn' \in LvConns /\ lvRun' \in BOOLEAN /\ lvVisible' \in BOOLEAN
    /\ lvDraft' \subseteq LvSubjects /\ lvMuted' \subseteq LvSubjects /\ (lvRun' => lvDraft' # {})
    /\ \/ lvClient' = lvClient
       \/ lvClient.on /\ \E p \in BOOLEAN, H \in SUBSET lvClient.held :
             lvClient' = [lvClient EXCEPT !.paused = p, !.held = H]

LEMMA LvUserStep == LvLinkInv /\ LvUserDoes => LvLinkInv'
<1> SUFFICES ASSUME LvLinkInv, LvUserDoes PROVE LvLinkInv'
  OBVIOUS
<1>1. \/ lvClient' = lvClient
      \/ /\ lvClient' \in LvClients /\ lvClient'.on = lvClient.on /\ lvClient'.conn = lvClient.conn
         /\ lvClient'.key = lvClient.key /\ lvClient'.timer = lvClient.timer /\ lvClient'.stream = lvClient.stream
  <2> SUFFICES ASSUME lvClient' # lvClient
               PROVE  /\ lvClient' \in LvClients /\ lvClient'.on = lvClient.on /\ lvClient'.conn = lvClient.conn
                      /\ lvClient'.key = lvClient.key /\ lvClient'.timer = lvClient.timer
                      /\ lvClient'.stream = lvClient.stream
    OBVIOUS
  <2>1. PICK p \in BOOLEAN, H \in SUBSET lvClient.held : lvClient' = [lvClient EXCEPT !.paused = p, !.held = H]
    BY DEF LvUserDoes
  <2>2. lvClient \in LvClients
    BY DEF LvUserDoes, LvLinkInv, LvTypes, LvNoClient
  <2>3. H \in SUBSET LvMessages
    BY <2>2 DEF LvClients
  <2>4. lvClient' \in LvClients
    BY <2>1, <2>2, <2>3 DEF LvClients
  <2> QED BY <2>1, <2>2, <2>4 DEF LvClients
<1>2. LvTypes'
  BY <1>1 DEF LvLinkInv, LvTypes, LvUserDoes
<1>3. LvAskedInv'
  BY DEF LvLinkInv, LvAskedInv, LvUserDoes
<1>4. LvClientInv'
  BY <1>1 DEF LvLinkInv, LvClientInv, LvUserDoes
<1> QED BY <1>2, <1>3, <1>4 DEF LvLinkInv

\* The ten things a user does.
LvPresses ==
    \/ \E x \in LvSubjects : LvAdd(x) \/ LvRemove(x) \/ LvMute(x) \/ LvUnmute(x)
    \/ LvStart \/ LvStop \/ LvVisibility \/ \E c \in LvConns : LvSwitch(c)

LEMMA LvPressesAre ==
    ASSUME LvLinkInv, LvPresses \/ LvTogglePause \/ LvClear \/ UNCHANGED lvVars
    PROVE  LvUserDoes
<1>a. /\ lvConn \in LvConns /\ lvRun \in BOOLEAN /\ lvVisible \in BOOLEAN
      /\ lvDraft \subseteq LvSubjects /\ lvMuted \subseteq LvSubjects /\ (lvRun => lvDraft # {})
  BY DEF LvLinkInv, LvTypes, LvAskedInv
<1>1. ASSUME NEW x \in LvSubjects, LvAdd(x) PROVE LvUserDoes
  BY <1>1, <1>a DEF LvAdd, LvUserDoes, lvRest, lvLink
<1>2. ASSUME NEW x \in LvSubjects, LvRemove(x) PROVE LvUserDoes
  <2>1. lvRun' \in BOOLEAN /\ (lvRun' => lvDraft' # {})
    BY <1>2 DEF LvRemove
  <2> QED BY <1>2, <1>a, <2>1 DEF LvRemove, LvUserDoes, lvRest, lvLink
<1>3. ASSUME NEW x \in LvSubjects, LvMute(x) \/ LvUnmute(x) PROVE LvUserDoes
  <2>1. /\ lvMuted' \subseteq LvSubjects
        /\ UNCHANGED <<lvConn, lvRun, lvDraft, lvVisible, lvRan, lvClient, lvWire, lvStatus, lvErr, lvSent>>
    BY <1>3, <1>a DEF LvMute, LvUnmute, lvRest, lvLink
  <2> QED BY <1>a, <2>1 DEF LvUserDoes
<1>4. CASE LvStart \/ LvStop \/ LvVisibility
  <2>1. /\ lvRun' \in BOOLEAN /\ lvVisible' \in BOOLEAN /\ (lvRun' => lvDraft' # {})
    <3>1. CASE LvStart
      BY <1>a, <3>1 DEF LvStart
    <3>2. CASE LvStop
      BY <1>a, <3>2 DEF LvStop
    <3>3. CASE LvVisibility
      BY <1>a, <3>3 DEF LvVisibility
    <3> QED BY <1>4, <3>1, <3>2, <3>3
  <2>2. UNCHANGED <<lvConn, lvDraft, lvMuted, lvRan, lvClient, lvWire, lvStatus, lvErr, lvSent>>
    BY <1>4 DEF LvStart, LvStop, LvVisibility, lvRest, lvLink
  <2> QED BY <1>a, <2>1, <2>2 DEF LvUserDoes
<1>5. ASSUME NEW c \in LvConns, LvSwitch(c) PROVE LvUserDoes
  <2>1. /\ lvConn' = c /\ lvRun' = FALSE /\ lvDraft' = {} /\ lvMuted' = {}
        /\ UNCHANGED <<lvVisible, lvRan, lvClient, lvWire, lvStatus, lvErr, lvSent>>
    BY <1>5 DEF LvSwitch, lvLink
  <2> QED BY <1>a, <2>1 DEF LvUserDoes
<1>6. CASE LvTogglePause
  <2>1. (~lvPaused) \in BOOLEAN
    OBVIOUS
  <2>2. lvClient' = [lvClient EXCEPT !.paused = ~lvPaused, !.held = IF lvPaused THEN {} ELSE lvClient.held] /\ lvClient.on
    BY <1>6 DEF LvTogglePause
  <2>3. \E p \in BOOLEAN, H \in SUBSET lvClient.held : lvClient' = [lvClient EXCEPT !.paused = p, !.held = H]
    BY <2>1, <2>2
  <2> QED BY <1>6, <1>a, <2>2, <2>3 DEF LvTogglePause, LvUserDoes, lvUser
<1>7. CASE LvClear
  <2>1. CASE lvClient.on
    <3>1. lvClient \in LvClients
      BY <2>1 DEF LvLinkInv, LvTypes, LvNoClient
    <3>2. lvClient.paused \in BOOLEAN /\ lvClient' = [lvClient EXCEPT !.paused = lvClient.paused, !.held = {}]
      BY <1>7, <2>1, <3>1 DEF LvClear, LvClients
    <3> QED BY <1>7, <1>a, <2>1, <3>2 DEF LvClear, LvUserDoes, lvUser
  <2>2. CASE ~lvClient.on
    BY <1>7, <1>a, <2>2 DEF LvClear, LvUserDoes, lvUser
  <2> QED BY <2>1, <2>2
<1>8. CASE UNCHANGED lvVars
  BY <1>8, <1>a DEF lvVars, lvUser, lvLink, LvUserDoes
<1> QED BY <1>1, <1>2, <1>3, <1>4, <1>5, <1>6, <1>7, <1>8 DEF LvPresses

LEMMA LvLinkStep == LvLinkInv /\ [LvNext]_lvVars => LvLinkInv'
<1> SUFFICES ASSUME LvLinkInv, [LvNext]_lvVars PROVE LvLinkInv'
  OBVIOUS
<1>1. CASE LvPresses \/ LvTogglePause \/ LvClear \/ UNCHANGED lvVars
  BY <1>1, LvPressesAre, LvUserStep
<1>2. CASE \E s \in lvWire : LvBatch(s) \/ LvRefused(s) \/ LvTick(s) \/ LvEnd(s) \/ LvFatal(s)
  BY <1>2, LvBatchStep, LvOtherEventStep, LvBreakStep
<1>3. CASE LvTimer \/ LvEffects
  BY <1>3, LvTimerStep, LvEffectsStep
<1> QED BY <1>1, <1>2, <1>3 DEF LvNext, LvPresses

LEMMA LvLinkInvariant == LvSpec => []LvLinkInv
<1>1. LvInit => LvLinkInv
  <2> SUFFICES ASSUME LvInit PROVE LvLinkInv
    OBVIOUS
  <2>1. /\ lvConn \in LvConns /\ lvRun = FALSE /\ lvDraft = {} /\ lvMuted = {} /\ lvVisible = TRUE
        /\ lvClient = LvNoClient /\ lvWire = {} /\ lvStatus = "disconnected" /\ lvSent = 0
        /\ lvRan = [conn |-> lvConn, active |-> FALSE, target |-> LvNoTarget, status |-> "disconnected"]
    BY DEF LvInit, LvWanted, LvTarget
  <2>2. LvTypes
    BY <2>1 DEF LvTypes, LvStatuses, LvTargets, LvNoTarget
  <2>3. LvAskedInv /\ LvClientInv
    BY <2>1 DEF LvAskedInv, LvClientInv, LvNoClient
  <2> QED BY <2>2, <2>3 DEF LvLinkInv
<1> QED BY <1>1, LvLinkStep, PTL DEF LvSpec

\* The page never claims a feed that nothing feeds, whatever broke and whatever
\* was pressed meanwhile.
THEOREM FeedNeverSilent == LvSpec => []LvNeverSilent
<1>1. LvLinkInv => LvNeverSilent
  <2> SUFFICES ASSUME LvLinkInv PROVE LvNeverSilent
    OBVIOUS
  <2>1. Cardinality(lvWire) <= 1
    <3>1. CASE lvWire = {}
      BY <3>1, FS_EmptySet
    <3>2. CASE lvWire # {}
      <4>1. PICK s \in lvWire : lvWire = {s}
        BY <3>2 DEF LvLinkInv, LvAskedInv
      <4>2. Cardinality({s}) = 1
        BY FS_Singleton
      <4> QED BY <4>1, <4>2
    <3> QED BY <3>1, <3>2
  <2>2. ASSUME lvRan = LvWanted, ~LvWanted.active PROVE ~lvClient.on /\ lvWire = {}
    BY <2>2 DEF LvLinkInv, LvClientInv
  <2>3. ASSUME lvRan = LvWanted, LvWanted.active
        PROVE  /\ lvRun = TRUE /\ lvClient.on /\ LvTarget # LvNoTarget /\ lvRan.conn = lvConn /\ lvRan.target = LvTarget
               /\ lvStatus = "disconnected" => lvErr = TRUE
               /\ lvStatus # "disconnected" => lvClient.key = LvTarget
               /\ lvStatus # "disconnected" /\ lvClient.timer # LvTarget =>
                     lvWire # {} /\ \A s \in lvWire : s.target = LvTarget /\ s.conn = lvConn
               /\ lvStatus = "connected" => lvClient.timer # LvTarget
    <3>1. lvRan.conn = lvConn /\ lvRan.target = LvTarget /\ lvRan.active
      BY <2>3, LvTargetIs DEF LvLinkInv
    <3>2. lvRun = TRUE /\ LvTarget # LvNoTarget
      <4>1. lvRun \in BOOLEAN /\ lvRun
        BY <2>3, LvTargetIs DEF LvLinkInv, LvTypes
      <4>2. LvTarget.subjects # {}
        BY <3>1 DEF LvLinkInv, LvAskedInv
      <4> QED BY <4>1, <4>2 DEF LvNoTarget
    <3> QED BY <3>1, <3>2 DEF LvLinkInv, LvClientInv
  <2>4. ASSUME lvRan = LvWanted, LvWanted.active, LvPill \in {"Live", "Paused"} PROVE lvStatus = "connected"
    BY <2>3, <2>4 DEF LvPill
  <2>5. ASSUME lvRan = LvWanted, LvWanted.active, LvPill = "Connecting" PROVE lvStatus # "disconnected"
    BY <2>3, <2>5 DEF LvPill
  <2>6. ASSUME lvRan = LvWanted, LvWanted.active, LvPill \in {"Live", "Paused"}
        PROVE  \E s \in lvWire : s.target = LvTarget /\ s.conn = lvConn /\ lvClient.key = LvTarget
    BY <2>3, <2>4, <2>6
  <2>7. ASSUME lvRan = LvWanted, LvWanted.active, LvPill = "Connecting"
        PROVE  (\E s \in lvWire : s.target = LvTarget /\ s.conn = lvConn /\ lvClient.key = LvTarget)
               \/ lvClient.timer = LvTarget
    BY <2>3, <2>5, <2>7
  <2> QED BY <2>1, <2>2, <2>6, <2>7 DEF LvNeverSilent
<1> QED BY <1>1, LvLinkInvariant, PTL

\* Messages with ids of their own can be put in order.
LEMMA LvNewestFirstIs ==
    ASSUME NEW S \in SUBSET LvMessages, IsFiniteSet(S), \A m, n \in S : m.id = n.id => m = n
    PROVE  /\ Cardinality(S) \in Nat /\ LvNewestFirst(S) \in [1 .. Cardinality(S) -> S]
           /\ \A i, j \in 1 .. Cardinality(S) : i < j => LvNewestFirst(S)[i].id > LvNewestFirst(S)[j].id
<1> DEFINE N == Cardinality(S)
           later(m) == {n \in S : n.id >= m.id}
           P == [m \in S |-> Cardinality(later(m))]
<1>1. N \in Nat /\ \A m \in S : m.id \in Nat
  BY FS_CardinalityType DEF LvMessages
<1>2. ASSUME NEW m \in S PROVE IsFiniteSet(later(m)) /\ Cardinality(later(m)) \in 1 .. N /\ P[m] = Cardinality(later(m))
  <2>1. later(m) \in SUBSET S /\ m \in later(m)
    BY <1>1
  <2>2. IsFiniteSet(later(m)) /\ Cardinality(later(m)) <= N
    BY <2>1, FS_Subset
  <2>3. Cardinality(later(m)) \in Nat /\ Cardinality(later(m)) # 0
    BY <2>1, <2>2, FS_CardinalityType, FS_EmptySet
  <2> QED BY <1>1, <2>2, <2>3
<1>3. ASSUME NEW m \in S, NEW n \in S, m.id > n.id PROVE P[m] < P[n]
  <2>1. later(m) \subseteq later(n) /\ n \in later(n) /\ n \notin later(m)
    BY <1>1, <1>3
  <2>2. Cardinality(later(m)) <= Cardinality(later(n)) /\ Cardinality(later(m)) # Cardinality(later(n))
    BY <1>2, <2>1, FS_Subset
  <2>3. P[m] = Cardinality(later(m)) /\ P[n] = Cardinality(later(n)) /\ P[m] \in Int /\ P[n] \in Int
    BY <1>1, <1>2
  <2> HIDE DEF P, later
  <2> QED BY <2>2, <2>3
<1>4. ASSUME NEW m \in S, NEW n \in S, m # n PROVE P[m] # P[n]
  <2>1. m.id > n.id \/ n.id > m.id
    BY <1>1, <1>4
  <2>2. P[m] < P[n] \/ P[n] < P[m]
    BY <1>3, <2>1
  <2> QED BY <1>1, <1>2, <2>2
<1>5. \A k \in 1 .. N : \E m \in S : P[m] = k
  <2>1. P \in [S -> 1 .. N]
    BY <1>2
  <2>2. P \in Injection(S, 1 .. N)
    <3>1. \A m, n \in S : P[m] = P[n] => m = n
      BY <1>4
    <3> HIDE DEF P
    <3> QED BY <2>1, <3>1 DEF Injection, IsInjective
  <2>3. IsFiniteSet(1 .. N) /\ Cardinality(1 .. N) = N
    BY <1>1, FS_Interval
  <2>4. P \in Surjection(S, 1 .. N)
    <3> HIDE DEF P
    <3> QED BY <2>2, <2>3, FS_Injection
  <2> HIDE DEF P
  <2> QED BY <2>4 DEF Surjection
<1> DEFINE q == [k \in 1 .. N |-> CHOOSE m \in S : P[m] = k]
<1>6. ASSUME NEW k \in 1 .. N PROVE q[k] \in S /\ P[q[k]] = k
  <2> HIDE DEF P
  <2> QED BY <1>5
<1>7. ASSUME NEW i \in 1 .. N, NEW j \in 1 .. N, i < j PROVE q[i].id > q[j].id
  <2>1. /\ q[i] \in S /\ q[j] \in S /\ P[q[i]] = i /\ P[q[j]] = j
        /\ i \in Int /\ j \in Int /\ q[i].id \in Nat /\ q[j].id \in Nat
    <3>1. i \in Int /\ j \in Int
      BY <1>1
    <3> HIDE DEF P, q
    <3> QED BY <1>1, <1>6, <3>1
  <2>2. q[i].id # q[j].id
    <3> HIDE DEF P, q
    <3> QED BY <1>7, <2>1
  <2>3. ~ (q[j].id > q[i].id)
    <3>1. ASSUME q[j].id > q[i].id PROVE FALSE
      <4>1. P[q[j]] < P[q[i]]
        <5> HIDE DEF P, q
        <5> QED BY <1>3, <2>1, <3>1
      <4> HIDE DEF P, q
      <4> QED BY <1>7, <2>1, <4>1
    <3> QED BY <3>1
  <2> HIDE DEF P, q
  <2> QED BY <2>1, <2>2, <2>3
<1>8. q \in [1 .. N -> S] /\ DOMAIN q = 1 .. N
  <2>1. \A k \in 1 .. N : q[k] \in S
    BY <1>6
  <2> QED BY <2>1
<1>9. \E f \in [1 .. N -> S] : \A i, j \in DOMAIN f : i < j => f[i].id > f[j].id
  <2> HIDE DEF q
  <2> QED BY <1>7, <1>8
<1> QED BY <1>1, <1>9 DEF LvNewestFirst

LvDecreasing(feed) == \A i, j \in DOMAIN feed : i < j => feed[i].id > feed[j].id

\* What is shown is of the new messages and of what was shown, and in order.
LEMMA LvShows ==
    ASSUME NEW feed \in Seq(LvMessages), LvDecreasing(feed),
           NEW S \in SUBSET LvMessages, IsFiniteSet(S), \A m, n \in S : m.id = n.id => m = n,
           \A m \in S : \A i \in DOMAIN feed : feed[i].id < m.id
    PROVE  /\ LvShow(feed, S) \in Seq(LvMessages) /\ LvDecreasing(LvShow(feed, S))
           /\ \A i \in DOMAIN LvShow(feed, S) :
                 LvShow(feed, S)[i] \in S \/ \E j \in DOMAIN feed : LvShow(feed, S)[i] = feed[j]
<1> DEFINE T == {m \in S : m.subject \notin lvRan.target.exclude}
           q == LvNewestFirst(T)
           N == Cardinality(T)
           all == q \o feed
           L == IF Len(all) < LvKeep THEN Len(all) ELSE LvKeep
<1>1. T \in SUBSET LvMessages /\ IsFiniteSet(T) /\ T \subseteq S
  BY FS_Subset
<1>2. N \in Nat /\ q \in [1 .. N -> T] /\ \A i, j \in 1 .. N : i < j => q[i].id > q[j].id
  <2> HIDE DEF T
  <2> QED BY <1>1, LvNewestFirstIs
<1>3. q \in Seq(LvMessages) /\ Len(q) = N
  <2> HIDE DEF T, q
  <2> QED BY <1>1, <1>2
<1>4. LvShow(feed, S) = SubSeq(all, 1, L)
  BY DEF LvShow
<1>5. LvKeep \in Nat
  BY LvAssumption DEF LvAssumption
<1> HIDE DEF T, q, N
<1>6. all \in Seq(LvMessages) /\ Len(all) = N + Len(feed) /\ L \in 0 .. Len(all)
  BY <1>2, <1>3, <1>5
<1>7. ASSUME NEW i \in 1 .. Len(all) PROVE all[i] = IF i <= N THEN q[i] ELSE feed[i - N]
  BY <1>2, <1>3, <1>7
<1>a. \A m \in LvMessages : m.id \in Nat
  BY DEF LvMessages
<1>8. ASSUME NEW i \in 1 .. Len(all), NEW j \in 1 .. Len(all), i < j PROVE all[i].id > all[j].id
  <2>1. CASE j <= N
    <3>1. all[i] = q[i] /\ all[j] = q[j] /\ i \in 1 .. N /\ j \in 1 .. N
      BY <1>2, <1>6, <1>7, <1>8, <2>1
    <3> QED BY <1>2, <1>8, <3>1
  <2>2. CASE i <= N /\ ~ (j <= N)
    <3>1. all[i] = q[i] /\ i \in 1 .. N
      BY <1>2, <1>6, <1>7, <2>2
    <3>2. all[j] = feed[j - N] /\ j - N \in DOMAIN feed
      BY <1>2, <1>6, <1>7, <2>2
    <3>3. q[i] \in S /\ q[i].id \in Nat
      BY <1>a, <1>1, <1>2, <3>1
    <3>4. feed[j - N].id \in Nat
      BY <1>a, <3>2
    <3> QED BY <3>1, <3>2, <3>3, <3>4
  <2>3. CASE ~ (i <= N)
    <3>1. /\ all[i] = feed[i - N] /\ all[j] = feed[j - N] /\ i - N < j - N
          /\ i - N \in DOMAIN feed /\ j - N \in DOMAIN feed
      BY <1>2, <1>6, <1>7, <1>8, <2>3
    <3> QED BY <3>1 DEF LvDecreasing
  <2> QED BY <2>1, <2>2, <2>3
<1>9. ASSUME NEW i \in 1 .. Len(all) PROVE all[i] \in S \/ \E j \in DOMAIN feed : all[i] = feed[j]
  <2>1. CASE i <= N
    BY <1>1, <1>2, <1>6, <1>7, <2>1
  <2>2. CASE ~ (i <= N)
    BY <1>2, <1>6, <1>7, <2>2
  <2> QED BY <2>1, <2>2
<1> HIDE DEF all, L
<1>10. SubSeq(all, 1, L) \in Seq(LvMessages) /\ DOMAIN SubSeq(all, 1, L) = 1 .. L
       /\ \A i \in 1 .. L : SubSeq(all, 1, L)[i] = all[i] /\ i \in 1 .. Len(all)
  BY <1>6
<1> QED BY <1>4, <1>8, <1>9, <1>10 DEF LvDecreasing

LvFeedInv ==
    /\ lvFeed \in Seq(LvMessages) /\ LvDecreasing(lvFeed) /\ lvPaused \in BOOLEAN
    /\ \A i \in DOMAIN lvFeed : lvFeed[i].conn = lvRan.conn /\ lvFeed[i].id <= LvIds
    /\ lvClient.on =>
         /\ lvClient.paused = lvPaused /\ (~lvPaused => lvClient.held = {})
         /\ IsFiniteSet(lvClient.held) /\ \A m, n \in lvClient.held : m.id = n.id => m = n
         /\ \A m \in lvClient.held : /\ m.conn = lvRan.conn /\ m.id <= LvIds
                                     /\ \A i \in DOMAIN lvFeed : lvFeed[i].id < m.id

LEMMA LvFeedStep == LvLinkInv /\ LvFeedInv /\ [LvNext]_lvVars => LvFeedInv'
<1> SUFFICES ASSUME LvLinkInv, LvFeedInv, [LvNext]_lvVars PROVE LvFeedInv'
  OBVIOUS
<1>a. \A m \in LvMessages : m.id \in Nat
  BY DEF LvMessages
<1>b. IsFiniteSet({}) /\ <<>> \in Seq(LvMessages) /\ DOMAIN <<>> = {}
  BY FS_EmptySet
<1>c. lvClient.on => lvClient \in LvClients
  BY DEF LvLinkInv, LvTypes, LvNoClient
<1>d. lvSent' = lvSent => LvIds' = LvIds
  BY DEF LvIds
\* The feed and what waits stay.
<1>e. ASSUME UNCHANGED <<lvFeed, lvPaused>>, lvRan'.conn = lvRan.conn, LvIds' = LvIds,
             lvClient'.on => lvClient.on /\ lvClient'.held = lvClient.held /\ lvClient'.paused = lvClient.paused
      PROVE  LvFeedInv'
  BY <1>e DEF LvFeedInv, LvDecreasing
<1>1. ASSUME NEW s \in lvWire, LvBatch(s) PROVE LvFeedInv'
  <2>1. PICK batch \in LvBatchesOf(s.target.subjects \ s.target.exclude) :
            IF lvClient.paused
            THEN LvHear(s, [lvClient EXCEPT !.held = LvTrimmed(@ \cup LvArrive(s, batch))]) /\ UNCHANGED lvFeed
            ELSE lvFeed' = LvShow(lvFeed, LvArrive(s, batch)) /\ LvHear(s, lvClient)
    BY <1>1 DEF LvBatch, LvArrive
  <2> DEFINE A == LvArrive(s, batch)
             C == Cardinality(LvSubjects)
  <2>2. /\ LvIds \in Nat /\ C \in Nat /\ A \in SUBSET LvMessages /\ IsFiniteSet(A)
        /\ \A m \in A : m.conn = s.conn /\ m.id > LvIds /\ m.id <= LvIds + C
        /\ \A m, n \in A : m.id = n.id => m = n
    BY LvArrives DEF LvLinkInv
  <2>3. lvSent' = lvSent + 1 /\ LvIds' = LvIds + C /\ lvRan' = lvRan /\ lvPaused' = lvPaused
    <3>1. lvSent' = lvSent + 1 /\ lvRan' = lvRan /\ lvPaused' = lvPaused
      BY <1>1 DEF LvBatch
    <3> QED BY <3>1, LvArrives DEF LvLinkInv, LvIds
  <2>4. lvClient.on /\ lvClient \in LvClients /\ s.conn = lvRan.conn
    BY <1>c DEF LvLinkInv, LvClientInv
  <2>5. /\ \A m \in A : m \in LvMessages /\ m.conn = lvRan.conn /\ m.id <= LvIds'
        /\ \A m \in A, i \in DOMAIN lvFeed : lvFeed[i].id < m.id
        /\ \A i \in DOMAIN lvFeed : lvFeed[i].id <= LvIds'
    <3>1. \A i \in DOMAIN lvFeed : lvFeed[i].id \in Nat /\ lvFeed[i].id <= LvIds
      BY <1>a DEF LvFeedInv
    <3> HIDE DEF A, C
    <3> QED BY <1>a, <2>2, <2>3, <2>4, <3>1
  <2> HIDE DEF A, C
  <2>6. CASE lvClient.paused
    <3> DEFINE H == LvTrimmed(lvClient.held \cup A)
    <3>1. lvFeed' = lvFeed /\ LvHear(s, [lvClient EXCEPT !.held = H])
      BY <2>1, <2>6 DEF A
    <3>2. H \subseteq lvClient.held \cup A
      BY DEF LvTrimmed
    <3>3. IsFiniteSet(H)
      <4>1. IsFiniteSet(lvClient.held \cup A)
        BY <2>2, <2>4, FS_Union DEF LvFeedInv
      <4> QED BY <3>2, <4>1, FS_Subset
    <3>4. lvClient'.held = H /\ lvClient'.paused = lvClient.paused
      <4>1. \/ lvClient' = [lvClient EXCEPT !.held = H]
            \/ lvClient' = [[lvClient EXCEPT !.held = H] EXCEPT !.attempts = 0]
        BY <3>1 DEF LvHear
      <4> HIDE DEF H
      <4> QED BY <2>4, <4>1 DEF LvClients
    <3>5. ASSUME NEW m \in H
          PROVE  /\ m.conn = lvRan.conn /\ m.id <= LvIds' /\ m.id \in Nat
                 /\ \A i \in DOMAIN lvFeed : lvFeed[i].id < m.id
      <4>1. CASE m \in A
        BY <1>a, <2>5, <4>1
      <4>2. CASE m \in lvClient.held
        <5>1. m \in LvMessages /\ m.conn = lvRan.conn /\ m.id <= LvIds /\ \A i \in DOMAIN lvFeed : lvFeed[i].id < m.id
          BY <2>4, <4>2 DEF LvFeedInv, LvClients
        <5> QED BY <1>a, <2>2, <2>3, <5>1
      <4> QED BY <3>2, <3>5, <4>1, <4>2
    <3>6. ASSUME NEW m \in H, NEW n \in H, m.id = n.id PROVE m = n
      <4>1. ASSUME NEW k \in lvClient.held PROVE k.id \in Nat /\ k.id <= LvIds
        BY <1>a, <2>4, <4>1 DEF LvFeedInv, LvClients
      <4>2. ASSUME NEW k \in A PROVE k.id \in Nat /\ ~ (k.id <= LvIds)
        BY <1>a, <2>2, <4>2
      <4>3. CASE m \in A /\ n \in A
        BY <2>2, <3>6, <4>3
      <4>4. CASE m \in lvClient.held /\ n \in lvClient.held
        BY <2>4, <3>6, <4>4 DEF LvFeedInv
      <4> QED BY <3>2, <3>6, <4>1, <4>2, <4>3, <4>4
    <3> HIDE DEF H
    <3>7. lvPaused = TRUE /\ lvClient'.paused = lvPaused'
      BY <2>3, <2>4, <2>6, <3>4 DEF LvFeedInv
    <3> QED BY <2>3, <2>5, <3>1, <3>3, <3>4, <3>5, <3>6, <3>7 DEF LvFeedInv
  <2>7. CASE ~lvClient.paused
    <3>1. lvFeed' = LvShow(lvFeed, A) /\ LvHear(s, lvClient)
      BY <2>1, <2>7 DEF A
    <3>2. lvClient.held = {} /\ lvPaused = FALSE
      BY <2>4, <2>7 DEF LvFeedInv
    <3>3. lvClient'.held = {} /\ lvClient'.paused = lvPaused'
      <4>1. lvClient' = lvClient \/ lvClient' = [lvClient EXCEPT !.attempts = 0]
        BY <3>1 DEF LvHear
      <4>2. lvClient.paused = lvPaused
        BY <2>4 DEF LvFeedInv
      <4> QED BY <2>3, <2>4, <3>2, <4>1, <4>2 DEF LvClients
    <3>4. /\ lvFeed' \in Seq(LvMessages) /\ LvDecreasing(lvFeed')
          /\ \A i \in DOMAIN lvFeed' : lvFeed'[i] \in A \/ \E j \in DOMAIN lvFeed : lvFeed'[i] = lvFeed[j]
      BY <2>2, <2>5, <3>1, LvShows DEF LvFeedInv
    <3>5. ASSUME NEW i \in DOMAIN lvFeed' PROVE lvFeed'[i].conn = lvRan.conn /\ lvFeed'[i].id <= LvIds'
      BY <2>5, <3>4 DEF LvFeedInv
    <3> QED BY <1>b, <2>3, <3>2, <3>3, <3>4, <3>5 DEF LvFeedInv, LvDecreasing
  <2> QED BY <2>6, <2>7
<1>2. ASSUME NEW s \in lvWire, LvRefused(s) \/ LvTick(s) PROVE LvFeedInv'
  <2>1. LvHear(s, lvClient) /\ UNCHANGED <<lvFeed, lvPaused, lvRan, lvSent>>
    BY <1>2 DEF LvRefused, LvTick, lvShown
  <2>2. lvClient.on /\ lvClient \in LvClients
    BY <1>c DEF LvLinkInv, LvClientInv
  <2>3. lvClient'.held = lvClient.held /\ lvClient'.paused = lvClient.paused
    <3>1. lvClient' = lvClient \/ lvClient' = [lvClient EXCEPT !.attempts = 0]
      BY <2>1 DEF LvHear
    <3> QED BY <2>2, <3>1 DEF LvClients
  <2> QED BY <1>d, <1>e, <2>1, <2>2, <2>3
<1>3. ASSUME NEW s \in lvWire, LvEnd(s) \/ LvFatal(s) PROVE LvFeedInv'
  <2>1. UNCHANGED <<lvFeed, lvPaused, lvRan, lvSent>>
    BY <1>3 DEF LvEnd, LvFatal, lvShown
  <2>2. lvClient.on /\ lvClient \in LvClients
    BY <1>c DEF LvLinkInv, LvClientInv
  <2>3. lvClient'.held = lvClient.held /\ lvClient'.paused = lvClient.paused
    <3>1. \/ lvClient' = lvClient \/ lvClient' = [lvClient EXCEPT !.key = LvNoTarget]
          \/ lvClient' = [lvClient EXCEPT !.attempts = @ + 1, !.timer = s.target]
      BY <1>3 DEF LvEnd, LvFatal, LvScheduleReconnect
    <3> QED BY <2>2, <3>1 DEF LvClients
  <2> QED BY <1>d, <1>e, <2>1, <2>2, <2>3
<1>4. CASE LvTimer
  <2>1. UNCHANGED <<lvFeed, lvPaused, lvRan, lvSent>> /\ lvClient.on
    BY <1>4 DEF LvTimer, lvShown
  <2>2. lvClient'.held = lvClient.held /\ lvClient'.paused = lvClient.paused
    <3> DEFINE n == CHOOSE n \in LvStreams : \A s \in lvWire : s.n # n
    <3>1. lvClient' = [[lvClient EXCEPT !.timer = LvNoTarget] EXCEPT !.stream = n]
      BY <1>4 DEF LvTimer, LvStartStream
    <3> HIDE DEF n
    <3> QED BY <1>c, <2>1, <3>1 DEF LvClients
  <2> QED BY <1>d, <1>e, <2>1, <2>2
<1>5. CASE LvEffects
  <2>1. /\ lvSent' = lvSent /\ lvConn' = lvConn /\ lvRan' = LvWanted /\ lvRan'.conn = lvConn
        /\ lvFeed' = LvFeedAfter /\ lvConn \in LvConns
    BY <1>5, LvTargetIs DEF LvEffects, lvUser, LvLinkInv, LvTypes
  <2>2. /\ lvFeed' \in Seq(LvMessages) /\ LvDecreasing(lvFeed')
        /\ \A i \in DOMAIN lvFeed' : lvFeed'[i].conn = lvRan'.conn /\ lvFeed'[i].id <= LvIds
    <3>1. CASE lvRan.conn # lvConn
      BY <1>b, <2>1, <3>1 DEF LvFeedAfter, LvDecreasing
    <3>2. CASE lvRan.conn = lvConn
      BY <2>1, <3>2 DEF LvFeedAfter, LvFeedInv
    <3> QED BY <3>1, <3>2
  <2>3. CASE LvReopen
    <3>1. lvPaused' = FALSE
      BY <2>3 DEF LvReopen
    <3>2. lvClient'.on => lvClient'.held = {} /\ lvClient'.paused = FALSE
      <4>1. CASE LvWanted.active
        BY <2>3, <4>1, LvReopens
      <4>2. CASE ~LvWanted.active
        <5>1. lvClient' = LvNoClient
          BY <2>3, <4>2, LvReopens
        <5> QED BY <5>1 DEF LvNoClient
      <4> QED BY <4>1, <4>2
    <3> QED BY <1>b, <1>d, <2>1, <2>2, <3>1, <3>2 DEF LvFeedInv, LvDecreasing
  <2>4. CASE LvResubscribe /\ <<lvRan.conn, lvRan.active>> = <<lvConn, LvWanted.active>>
    <3>1. lvRan.conn = lvConn /\ lvRan.active = LvWanted.active
      BY <2>4
    <3>2. lvPaused' = lvPaused
      BY <2>4, <3>1, LvResubscribes
    <3>3. lvClient'.on => lvClient.on /\ lvClient'.held = lvClient.held /\ lvClient'.paused = lvClient.paused
      BY <2>4, <3>1, LvResubscribes
    <3>4. lvFeed' = lvFeed /\ lvRan'.conn = lvRan.conn
      BY <2>1, <3>1 DEF LvFeedAfter
    <3> QED BY <1>d, <1>e, <2>1, <3>2, <3>3, <3>4
  <2> QED BY <1>5, <2>3, <2>4 DEF LvEffects
<1>6. ASSUME NEW x \in LvSubjects, LvAdd(x) \/ LvRemove(x) \/ LvMute(x) \/ LvUnmute(x) PROVE LvFeedInv'
  <2>1. UNCHANGED lvRest
    BY <1>6 DEF LvAdd, LvRemove, LvMute, LvUnmute
  <2> QED BY <1>d, <1>e, <2>1 DEF lvRest, lvLink, lvShown
<1>7. CASE LvStart \/ LvStop \/ LvVisibility \/ UNCHANGED lvVars
  <2>1. UNCHANGED lvRest
    BY <1>7 DEF LvStart, LvStop, LvVisibility, lvVars, lvRest
  <2> QED BY <1>d, <1>e, <2>1 DEF lvRest, lvLink, lvShown
<1>8. ASSUME NEW c \in LvConns, LvSwitch(c) PROVE LvFeedInv'
  <2>1. lvFeed' = <<>> /\ UNCHANGED <<lvRan, lvClient, lvPaused, lvSent>>
    BY <1>8 DEF LvSwitch, lvLink
  <2> QED BY <1>b, <1>d, <2>1 DEF LvFeedInv, LvDecreasing
<1>9. CASE LvTogglePause
  <2>1. /\ lvClient.on /\ lvClient \in LvClients /\ UNCHANGED <<lvRan, lvSent>> /\ lvPaused' = ~lvPaused
        /\ lvClient' = [lvClient EXCEPT !.paused = ~lvPaused, !.held = IF lvPaused THEN {} ELSE lvClient.held]
        /\ lvFeed' = IF lvPaused THEN LvShow(lvFeed, lvClient.held) ELSE lvFeed
    BY <1>c, <1>9 DEF LvTogglePause
  <2>2. (~lvPaused) \in BOOLEAN
    OBVIOUS
  <2>3. lvClient'.paused = lvPaused' /\ lvClient'.held = IF lvPaused THEN {} ELSE lvClient.held
    BY <2>1 DEF LvClients
  <2>4. CASE lvPaused
    <3>1. /\ lvClient.held \in SUBSET LvMessages /\ IsFiniteSet(lvClient.held)
          /\ \A m, n \in lvClient.held : m.id = n.id => m = n
          /\ \A m \in lvClient.held : /\ m.conn = lvRan.conn /\ m.id <= LvIds
                                      /\ \A i \in DOMAIN lvFeed : lvFeed[i].id < m.id
      BY <2>1 DEF LvFeedInv, LvClients
    <3>2. /\ lvFeed' \in Seq(LvMessages) /\ LvDecreasing(lvFeed')
          /\ \A i \in DOMAIN lvFeed' : lvFeed'[i] \in lvClient.held \/ \E j \in DOMAIN lvFeed : lvFeed'[i] = lvFeed[j]
      BY <2>1, <2>4, <3>1, LvShows DEF LvFeedInv
    <3>3. ASSUME NEW i \in DOMAIN lvFeed' PROVE lvFeed'[i].conn = lvRan.conn /\ lvFeed'[i].id <= LvIds
      BY <3>1, <3>2 DEF LvFeedInv
    <3> QED BY <1>b, <1>d, <2>1, <2>2, <2>3, <2>4, <3>2, <3>3 DEF LvFeedInv, LvDecreasing
  <2>5. CASE ~lvPaused
    <3>1. lvFeed' = lvFeed /\ lvClient'.held = {}
      BY <2>1, <2>3, <2>5 DEF LvFeedInv
    <3> QED BY <1>b, <1>d, <2>1, <2>2, <2>3, <3>1 DEF LvFeedInv, LvDecreasing
  <2> QED BY <2>4, <2>5
<1>10. CASE LvClear
  <2>1. lvFeed' = <<>> /\ UNCHANGED <<lvRan, lvPaused, lvSent>>
    BY <1>10 DEF LvClear
  <2>2. lvClient'.on => lvClient.on /\ lvClient'.held = {} /\ lvClient'.paused = lvClient.paused
    BY <1>c, <1>10 DEF LvClear, LvClients
  <2> QED BY <1>b, <1>d, <2>1, <2>2 DEF LvFeedInv, LvDecreasing
<1> QED BY <1>1, <1>2, <1>3, <1>4, <1>5, <1>6, <1>7, <1>8, <1>9, <1>10 DEF LvNext

LEMMA LvFeedInvariant == LvSpec => [](LvLinkInv /\ LvFeedInv)
<1>1. LvInit => LvFeedInv
  <2> SUFFICES ASSUME LvInit PROVE LvFeedInv
    OBVIOUS
  <2>1. lvFeed = <<>> /\ lvPaused = FALSE /\ ~lvClient.on
    BY DEF LvInit, LvNoClient
  <2>2. <<>> \in Seq(LvMessages) /\ DOMAIN <<>> = {}
    OBVIOUS
  <2>3. lvFeed \in Seq(LvMessages) /\ lvPaused \in BOOLEAN /\ DOMAIN lvFeed = {}
    BY <2>1, <2>2
  <2> QED BY <2>1, <2>3 DEF LvFeedInv, LvDecreasing
<1> QED BY <1>1, LvLinkInvariant, LvFeedStep, PTL DEF LvSpec

\* The feed, once the effects of the last render ran, holds messages of the
\* shown connection only, each once, newest first: processBatch and the replay
\* on resuming keep the order, and the provider drops the feed of a connection
\* that went (useLiveSubscription, SubscribeSessionProvider).
THEOREM FeedIsHonest == LvSpec => []LvFeedHonest
<1>1. LvLinkInv /\ LvFeedInv => LvFeedHonest
  <2> SUFFICES ASSUME LvLinkInv, LvFeedInv PROVE LvFeedHonest
    OBVIOUS
  <2>1. lvRan = LvWanted => lvRan.conn = lvConn
    BY LvTargetIs DEF LvLinkInv
  <2> QED BY <2>1 DEF LvFeedHonest, LvFeedInv, LvDecreasing
<1> QED BY <1>1, LvFeedInvariant, PTL

\* What the bounds of the feed rest on: what waits holds more than its cap only
\* while it is one batch.
LvHeldFits(held) == (\E m, n \in held : m.batch # n.batch) => Cardinality(held) <= LvPausedCap

LvClientFits(client) == client.on => client.attempts <= LvMaxRetries /\ LvHeldFits(client.held)

LvBoundsInv ==
    /\ lvDenied \subseteq LvSubjects /\ lvErr \in BOOLEAN /\ Len(lvFeed) <= LvKeep /\ LvClientFits(lvClient)

LEMMA LvCaps == LvMaxRetries \in Nat /\ LvKeep \in Nat /\ LvPausedCap \in Nat /\ 0 <= LvKeep /\ 0 <= LvMaxRetries
<1>1. LvMaxRetries \in Nat /\ LvKeep \in Nat /\ LvPausedCap \in Nat
  BY LvAssumption DEF LvAssumption
<1> QED BY <1>1

\* What is trimmed fits (trimPausedBatches): the oldest batch that is left is one of
\* those the cap has room for.
LEMMA LvTrims ==
    ASSUME NEW S \in SUBSET LvMessages, IsFiniteSet(S)
    PROVE  LvHeldFits(LvTrimmed(S))
<1> DEFINE T == LvTrimmed(S)
           since(m) == {n \in S : n.batch >= m.batch}
<1>1. T \subseteq S /\ \A m \in S : m.batch \in Nat
  BY DEF LvTrimmed, LvMessages
<1>t. \A m \in T : (\A n \in S : n.batch <= m.batch) \/ Cardinality(since(m)) <= LvPausedCap
  BY DEF LvTrimmed
<1>2. ASSUME NEW m \in T, NEW n \in T, m.batch # n.batch PROVE Cardinality(T) <= LvPausedCap
  <2> DEFINE later(k) == {o \in T : o.batch >= k.batch}
             N == Cardinality(T)
             sizes == {Cardinality(later(k)) : k \in T}
  <2>1. IsFiniteSet(T) /\ N \in Nat
    BY <1>1, FS_Subset, FS_CardinalityType
  <2>a. \A k \in T : k.batch \in Nat
    BY <1>1
  <2> HIDE DEF T
  <2>b. ASSUME NEW k \in T PROVE IsFiniteSet(later(k)) /\ Cardinality(later(k)) \in 1 .. N /\ Cardinality(later(k)) \in Nat
    <3>1. later(k) \in SUBSET T /\ k \in later(k)
      BY <2>a
    <3>2. IsFiniteSet(later(k)) /\ Cardinality(later(k)) <= N
      BY <2>1, <3>1, FS_Subset
    <3>3. Cardinality(later(k)) \in Nat /\ Cardinality(later(k)) # 0
      BY <3>1, <3>2, FS_CardinalityType, FS_EmptySet
    <3> QED BY <2>1, <3>2, <3>3
  <2>2. PICK l \in T : \A k \in T : l.batch <= k.batch
    <3>1. sizes \in SUBSET (1 .. N) /\ sizes # {}
      BY <1>2, <2>b
    <3>2. PICK most \in sizes : \A c \in sizes : most >= c
      <4> HIDE DEF sizes
      <4> QED BY <2>1, <3>1, GreatestOf
    <3>3. PICK l \in T : \A k \in T : Cardinality(later(l)) >= Cardinality(later(k))
      BY <3>2
    <3>4. ASSUME NEW k \in T, ~(l.batch <= k.batch) PROVE FALSE
      <4>1. later(l) \subseteq later(k) /\ k \in later(k) /\ k \notin later(l)
        BY <2>a, <3>4
      <4>2. Cardinality(later(l)) <= Cardinality(later(k)) /\ Cardinality(later(l)) # Cardinality(later(k))
        BY <2>b, <4>1, FS_Subset
      <4>3. Cardinality(later(l)) \in Nat /\ Cardinality(later(k)) \in Nat
        BY <2>b
      <4>4. Cardinality(later(l)) >= Cardinality(later(k))
        BY <3>3
      <4> HIDE DEF later
      <4> QED BY <4>2, <4>3, <4>4
    <3> QED BY <3>4
  <2>3. T \subseteq since(l)
    BY <1>1, <2>2
  <2>4. l \in S /\ l.batch \in Nat /\ m \in S /\ n \in S /\ m.batch \in Nat /\ n.batch \in Nat
    BY <1>1, <1>2, <2>2
  <2>5. ~(\A k \in S : k.batch <= l.batch)
    <3>1. l.batch <= m.batch /\ l.batch <= n.batch
      BY <1>2, <2>2
    <3>2. ~(m.batch <= l.batch) \/ ~(n.batch <= l.batch)
      BY <1>2, <2>4, <3>1
    <3> QED BY <2>4, <3>2
  <2>6. Cardinality(since(l)) <= LvPausedCap
    BY <1>t, <2>2, <2>5
  <2>7. IsFiniteSet(since(l)) /\ Cardinality(since(l)) \in Nat
    <3>1. since(l) \subseteq S
      OBVIOUS
    <3> QED BY <3>1, FS_Subset, FS_CardinalityType
  <2>8. Cardinality(T) <= Cardinality(since(l))
    BY <2>3, <2>7, FS_Subset
  <2> HIDE DEF since
  <2> QED BY <2>1, <2>6, <2>7, <2>8, LvCaps
<1> HIDE DEF T
<1>3. (\E m, n \in T : m.batch # n.batch) => Cardinality(T) <= LvPausedCap
  BY <1>2
<1> QED BY <1>3 DEF LvHeldFits, T

\* What is shown is no more than is kept.
LEMMA LvShowsNoMore ==
    ASSUME NEW feed \in Seq(LvMessages),
           NEW S \in SUBSET LvMessages, IsFiniteSet(S), \A m, n \in S : m.id = n.id => m = n
    PROVE  Len(LvShow(feed, S)) <= LvKeep
<1> DEFINE T == {m \in S : m.subject \notin lvRan.target.exclude}
           q == LvNewestFirst(T)
           all == q \o feed
           L == IF Len(all) < LvKeep THEN Len(all) ELSE LvKeep
<1>1. T \in SUBSET LvMessages /\ IsFiniteSet(T) /\ \A m, n \in T : m.id = n.id => m = n
  BY FS_Subset
<1>2. q \in Seq(LvMessages)
  <2> HIDE DEF T
  <2>1. Cardinality(T) \in Nat /\ q \in [1 .. Cardinality(T) -> T]
    BY <1>1, LvNewestFirstIs
  <2> HIDE DEF q
  <2> QED BY <1>1, <2>1
<1>3. LvShow(feed, S) = SubSeq(all, 1, L)
  BY DEF LvShow
<1> HIDE DEF q
<1>4. all \in Seq(LvMessages) /\ Len(all) \in Nat
  BY <1>2
<1> HIDE DEF all
<1>5. L \in 0 .. Len(all) /\ L <= LvKeep
  BY <1>4, LvCaps
<1> HIDE DEF L
<1>6. Len(SubSeq(all, 1, L)) = L
  BY <1>4, <1>5
<1> QED BY <1>3, <1>5, <1>6

LEMMA LvBoundsStep == LvLinkInv /\ LvFeedInv /\ LvBoundsInv /\ [LvNext]_lvVars => LvBoundsInv'
<1> SUFFICES ASSUME LvLinkInv, LvFeedInv, LvBoundsInv, [LvNext]_lvVars PROVE LvBoundsInv'
  OBVIOUS
<1>a. /\ lvDenied \subseteq LvSubjects /\ lvErr \in BOOLEAN /\ Len(lvFeed) <= LvKeep /\ LvClientFits(lvClient)
      /\ lvFeed \in Seq(LvMessages)
  BY DEF LvBoundsInv, LvFeedInv
<1>b. lvClient.on => lvClient \in LvClients /\ lvClient.attempts \in Nat
  <2>1. lvClient.on => lvClient \in LvClients
    BY DEF LvLinkInv, LvTypes, LvNoClient
  <2> QED BY <2>1 DEF LvClients
<1>c. \A s \in lvWire : lvClient.on
  BY DEF LvLinkInv, LvClientInv
<1>d. lvDenied' \subseteq LvSubjects
  <2>1. lvDenied' = lvDenied \/ lvDenied' = {} \/ \E s \in lvWire : LvRefused(s)
    BY Zenon DEF LvNext, LvEffects, LvTimer, LvBatch, LvTick, LvEnd, LvFatal, LvAdd, LvRemove, LvMute,
       LvUnmute, LvStart, LvStop, LvTogglePause, LvClear, LvVisibility, LvSwitch, LvReopen, LvResubscribe,
       LvHear, LvScheduleReconnect, lvUser, lvShown, lvRest, lvLink, lvVars
  <2>2. ASSUME NEW s \in lvWire, LvRefused(s) PROVE lvDenied' \subseteq LvSubjects
    <3>1. PICK x \in s.target.subjects : lvDenied' = lvDenied \cup {x}
      BY <2>2 DEF LvRefused
    <3>2. s.target.subjects \subseteq LvSubjects
      BY DEF LvLinkInv, LvTypes, LvTargets
    <3> QED BY <1>a, <3>1, <3>2
  <2> QED BY <1>a, <2>1, <2>2
<1>e. lvErr' \in BOOLEAN
  <2>1. \/ lvErr' = lvErr \/ lvErr' = TRUE \/ \E x, y : lvErr' = (x /\ y)
        \/ \E s \in lvWire : LvEnd(s)
    BY Zenon DEF LvNext, LvEffects, LvTimer, LvBatch, LvRefused, LvTick, LvFatal, LvAdd, LvRemove, LvMute,
       LvUnmute, LvStart, LvStop, LvTogglePause, LvClear, LvVisibility, LvSwitch, LvReopen, LvResubscribe,
       LvHear, LvScheduleReconnect, lvUser, lvShown, lvRest, lvLink, lvVars
  <2>2. ASSUME NEW s \in lvWire, LvEnd(s) PROVE lvErr' = lvErr \/ lvErr' = TRUE
    <3>1. lvClient.attempts >= LvMaxRetries \/ lvClient.attempts < LvMaxRetries
      BY <1>b, <1>c, LvCaps
    <3> QED BY <2>2, <3>1, Zenon DEF LvEnd, LvScheduleReconnect
  <2> QED BY <1>a, <2>1, <2>2, Zenon
<1>f. Len(lvFeed') <= LvKeep
  <2>0. Len(<<>>) <= LvKeep
    BY LvCaps
  <2>1. \/ lvFeed' = lvFeed \/ lvFeed' = <<>> \/ lvFeed' = LvFeedAfter
        \/ \E s \in lvWire : LvBatch(s)
        \/ LvTogglePause
    BY Zenon DEF LvNext, LvEffects, LvTimer, LvRefused, LvTick, LvEnd, LvFatal, LvAdd, LvRemove, LvMute,
       LvUnmute, LvStart, LvStop, LvClear, LvVisibility, LvSwitch, lvUser, lvShown, lvRest, lvLink, lvVars
  <2>2. ASSUME NEW s \in lvWire, LvBatch(s) PROVE Len(lvFeed') <= LvKeep
    <3>1. PICK batch \in LvBatchesOf(s.target.subjects \ s.target.exclude) :
              lvFeed' = lvFeed \/ lvFeed' = LvShow(lvFeed, LvArrive(s, batch))
      BY <2>2 DEF LvBatch, LvArrive
    <3>2. /\ LvArrive(s, batch) \in SUBSET LvMessages /\ IsFiniteSet(LvArrive(s, batch))
          /\ \A m, n \in LvArrive(s, batch) : m.id = n.id => m = n
      BY LvArrives DEF LvLinkInv
    <3> QED BY <1>a, <3>1, <3>2, LvShowsNoMore
  <2>3. CASE LvTogglePause
    <3>1. lvClient.on /\ (lvFeed' = lvFeed \/ lvFeed' = LvShow(lvFeed, lvClient.held))
      BY <2>3 DEF LvTogglePause
    <3>2. /\ lvClient.held \in SUBSET LvMessages /\ IsFiniteSet(lvClient.held)
          /\ \A m, n \in lvClient.held : m.id = n.id => m = n
      BY <1>b, <3>1 DEF LvFeedInv, LvClients
    <3> QED BY <1>a, <3>1, <3>2, LvShowsNoMore
  <2>4. lvFeed' = LvFeedAfter => lvFeed' = lvFeed \/ lvFeed' = <<>>
    BY DEF LvFeedAfter
  <2> QED BY <1>a, <2>0, <2>1, <2>2, <2>3, <2>4
<1>g. LvClientFits(lvClient')
  <2>0. LvHeldFits({}) /\ 0 <= LvMaxRetries /\ LvMaxRetries \in Nat
    BY LvCaps DEF LvHeldFits
  \* The client goes on, starts its attempts anew, or drops what waits.
  <2>1. ASSUME lvClient'.on => \/ lvClient'.attempts = 0
                               \/ lvClient.on /\ lvClient'.attempts = lvClient.attempts,
               lvClient'.on => \/ lvClient'.held = {}
                               \/ lvClient.on /\ lvClient'.held = lvClient.held
        PROVE  LvClientFits(lvClient')
    BY <1>a, <2>0, <2>1 DEF LvClientFits
  <2>2. ASSUME NEW s \in lvWire, LvBatch(s) PROVE LvClientFits(lvClient')
    <3>1. PICK batch \in LvBatchesOf(s.target.subjects \ s.target.exclude) :
              \/ LvHear(s, lvClient)
              \/ LvHear(s, [lvClient EXCEPT !.held = LvTrimmed(lvClient.held \cup LvArrive(s, batch))])
      BY <2>2 DEF LvBatch, LvArrive
    <3> DEFINE H == LvTrimmed(lvClient.held \cup LvArrive(s, batch))
    <3>2. LvHeldFits(H)
      <4>1. LvArrive(s, batch) \in SUBSET LvMessages /\ IsFiniteSet(LvArrive(s, batch))
        BY LvArrives DEF LvLinkInv
      <4>2. lvClient.held \in SUBSET LvMessages /\ IsFiniteSet(lvClient.held)
        BY <1>b, <1>c DEF LvFeedInv, LvClients
      <4> QED BY <4>1, <4>2, FS_Union, LvTrims
    <3>3. \/ lvClient' = lvClient \/ lvClient' = [lvClient EXCEPT !.attempts = 0]
          \/ lvClient' = [lvClient EXCEPT !.held = H] \/ lvClient' = [[lvClient EXCEPT !.held = H] EXCEPT !.attempts = 0]
      BY <3>1 DEF LvHear
    <3> HIDE DEF H
    <3>4. /\ lvClient'.attempts = 0 \/ lvClient'.attempts = lvClient.attempts
          /\ lvClient'.held = H \/ lvClient'.held = lvClient.held
      BY <1>b, <1>c, <3>3 DEF LvClients
    <3> QED BY <1>a, <1>c, <2>0, <3>2, <3>4 DEF LvClientFits
  <2>3. ASSUME NEW s \in lvWire, LvRefused(s) \/ LvTick(s) PROVE LvClientFits(lvClient')
    <3>1. lvClient' = lvClient \/ lvClient' = [lvClient EXCEPT !.attempts = 0]
      BY <2>3 DEF LvRefused, LvTick, LvHear
    <3>2. (lvClient'.attempts = 0 \/ lvClient'.attempts = lvClient.attempts) /\ lvClient'.held = lvClient.held
      BY <1>b, <1>c, <3>1 DEF LvClients
    <3> QED BY <1>c, <2>1, <3>2
  <2>4. ASSUME NEW s \in lvWire, LvEnd(s) \/ LvFatal(s) PROVE LvClientFits(lvClient')
    <3>1. \/ lvClient' = lvClient \/ lvClient' = [lvClient EXCEPT !.key = LvNoTarget]
          \/ /\ ~(lvClient.attempts >= LvMaxRetries)
             /\ lvClient' = [lvClient EXCEPT !.attempts = @ + 1, !.timer = s.target]
      BY <2>4 DEF LvEnd, LvFatal, LvScheduleReconnect
    <3>2. CASE /\ ~(lvClient.attempts >= LvMaxRetries)
               /\ lvClient' = [lvClient EXCEPT !.attempts = @ + 1, !.timer = s.target]
      <4>1. lvClient'.attempts = lvClient.attempts + 1 /\ lvClient'.held = lvClient.held
        BY <1>b, <1>c, <3>2 DEF LvClients
      <4>2. lvClient'.attempts <= LvMaxRetries
        BY <1>b, <1>c, <2>0, <3>2, <4>1
      <4> QED BY <1>a, <1>c, <4>1, <4>2 DEF LvClientFits
    <3>3. CASE lvClient' = lvClient \/ lvClient' = [lvClient EXCEPT !.key = LvNoTarget]
      <4>1. lvClient'.attempts = lvClient.attempts /\ lvClient'.held = lvClient.held
        BY <1>b, <1>c, <3>3 DEF LvClients
      <4> QED BY <1>c, <2>1, <4>1
    <3> QED BY <3>1, <3>2, <3>3
  <2>5. CASE LvTimer
    <3> DEFINE n == CHOOSE n \in LvStreams : \A s \in lvWire : s.n # n
    <3>1. lvClient.on /\ lvClient' = [[lvClient EXCEPT !.timer = LvNoTarget] EXCEPT !.stream = n]
      BY <2>5 DEF LvTimer, LvStartStream
    <3> HIDE DEF n
    <3>2. lvClient'.attempts = lvClient.attempts /\ lvClient'.held = lvClient.held
      BY <1>b, <3>1 DEF LvClients
    <3> QED BY <2>1, <3>1, <3>2
  <2>6. CASE LvEffects
    <3>1. CASE LvReopen
      <4>1. CASE LvWanted.active
        BY <2>1, <3>1, <4>1, LvReopens
      <4>2. CASE ~LvWanted.active
        <5>1. lvClient' = LvNoClient
          BY <3>1, <4>2, LvReopens
        <5> QED BY <5>1 DEF LvNoClient, LvClientFits
      <4> QED BY <4>1, <4>2
    <3>2. CASE LvResubscribe /\ <<lvRan.conn, lvRan.active>> = <<lvConn, LvWanted.active>>
      <4>1. lvRan.conn = lvConn /\ lvRan.active = LvWanted.active
        BY <3>2
      <4>2. \/ lvClient.on /\ lvClient'.held = lvClient.held /\ lvClient'.attempts = 0
            \/ lvClient' = lvClient
        BY <3>2, <4>1, LvResubscribes
      <4> QED BY <1>a, <2>1, <4>2
    <3> QED BY <2>6, <3>1, <3>2 DEF LvEffects
  <2>7. CASE LvTogglePause
    <3>1. /\ lvClient.on
          /\ lvClient' = [lvClient EXCEPT !.paused = ~lvPaused, !.held = IF lvPaused THEN {} ELSE lvClient.held]
      BY <2>7 DEF LvTogglePause
    <3>2. lvClient'.attempts = lvClient.attempts /\ (lvClient'.held = {} \/ lvClient'.held = lvClient.held)
      BY <1>b, <3>1 DEF LvClients
    <3> QED BY <2>1, <3>1, <3>2
  <2>8. CASE LvClear
    <3>1. IF lvClient.on THEN lvClient' = [lvClient EXCEPT !.held = {}] ELSE lvClient' = lvClient
      BY <2>8 DEF LvClear
    <3>2. lvClient'.on => lvClient.on /\ lvClient'.attempts = lvClient.attempts /\ lvClient'.held = {}
      BY <1>b, <3>1 DEF LvClients
    <3> QED BY <2>1, <3>2
  <2>9. CASE lvClient' = lvClient
    BY <1>a, <2>9
  <2>10. \/ lvClient' = lvClient
         \/ \E s \in lvWire : LvBatch(s) \/ LvRefused(s) \/ LvTick(s) \/ LvEnd(s) \/ LvFatal(s)
         \/ LvTimer \/ LvEffects \/ LvTogglePause \/ LvClear
    BY Zenon DEF LvNext, LvAdd, LvRemove, LvMute, LvUnmute, LvStart, LvStop, LvVisibility, LvSwitch,
       LvReopen, LvResubscribe, LvHear, LvScheduleReconnect, lvUser, lvShown, lvRest, lvLink, lvVars
  <2> QED BY <2>2, <2>3, <2>4, <2>5, <2>6, <2>7, <2>8, <2>9, <2>10, Zenon
<1> QED BY <1>d, <1>e, <1>f, <1>g DEF LvBoundsInv

\* Every reachable state of the live feed has its type, and stays in its bounds: what
\* is shown, what waits while paused, the attempts (useLiveSubscription).
THEOREM LvTypeCorrect == LvSpec => []LvTypeOK
<1>1. LvInit => LvBoundsInv
  <2> SUFFICES ASSUME LvInit PROVE LvBoundsInv
    OBVIOUS
  <2>1. lvFeed = <<>> /\ lvErr = FALSE /\ lvDenied = {} /\ ~lvClient.on
    BY DEF LvInit, LvNoClient
  <2>2. Len(lvFeed) <= LvKeep
    BY <2>1, LvCaps
  <2> QED BY <2>1, <2>2 DEF LvBoundsInv, LvClientFits
<1>2. LvLinkInv /\ LvFeedInv /\ LvBoundsInv => LvTypeOK
  <2> SUFFICES ASSUME LvLinkInv, LvFeedInv, LvBoundsInv PROVE LvTypeOK
    OBVIOUS
  <2>1. /\ lvConn \in LvConns /\ lvRun \in BOOLEAN /\ lvVisible \in BOOLEAN
        /\ lvDraft \subseteq LvSubjects /\ lvMuted \subseteq LvSubjects
        /\ lvStatus \in {"disconnected", "connecting", "connected", "reconnecting"}
    BY DEF LvLinkInv, LvTypes, LvStatuses
  <2>2. lvPaused \in BOOLEAN
    BY DEF LvFeedInv
  <2> QED BY <2>1, <2>2, Zenon DEF LvBoundsInv, LvClientFits, LvHeldFits, LvTypeOK
<1> QED BY <1>1, <1>2, LvFeedInvariant, LvBoundsStep, PTL DEF LvSpec

---------------------------------------------------------------------------
(*************************************************************************)
(* The details panel: what the arrows select and what is sent again.     *)
(*************************************************************************)

\* What the answer of an arrow ends has a step to end.
VwNavInv ==
    /\ {"step", "edges"} \subseteq DOMAIN vwNav

LEMMA VwNavStep == VwNavInv /\ [VwNext]_vwVars => VwNavInv'
<1> SUFFICES ASSUME VwNavInv, [VwNext]_vwVars PROVE DOMAIN vwNav' = DOMAIN vwNav
  BY DEF VwNavInv
<1>1. CASE vwNav' = vwNav
  BY <1>1
<1>2. CASE \E edges : vwNav' = [vwNav EXCEPT !.edges = edges]
  BY <1>2
<1>3. CASE \E up \in BOOLEAN : VwStep(up)
  BY <1>3 DEF VwStep
<1>4. CASE \E ok \in BOOLEAN : VwStepAnswer(ok)
  BY <1>4 DEF VwStepAnswer
<1>5. CASE VwLinked
  BY <1>5 DEF VwLinked
<1>6. CASE \E c \in vwCalls, ok \in BOOLEAN : VwDeleteAnswer(c, ok)
  BY <1>6 DEF VwDeleteAnswer
<1>7. CASE \E m \in VwSeqs \cup {0} : VwSelect(m)
  BY <1>7 DEF VwSelect
<1> QED
  BY <1>1, <1>3, <1>4, <1>5, <1>6, <1>7 DEF VwNext, VwUse, VwAnswer, vwVars, VwLoadFull, VwOpenDetect, VwCloseDetect,
     VwSaveGuess, VwRequestDelete, VwCancelDelete, VwResend, VwLeaveTab, VwBackToMessages, VwUseDetected,
     VwConfirmDelete, VwLoadAnswer, VwSaveAnswer, VwResendAnswer, VwDecodeAnswer

LEMMA VwNavInvariant == VwSpec => []VwNavInv
<1>1. VwInit => VwNavInv
  <2> SUFFICES ASSUME VwInit PROVE VwNavInv
    OBVIOUS
  <2>1. PICK search \in BOOLEAN : vwNav = [matches |-> search, backward |-> search, step |-> VwNoStep, edges |-> {}]
    BY DEF VwInit
  <2> QED BY <2>1 DEF VwNavInv
<1> QED BY <1>1, VwNavStep, PTL DEF VwSpec

\* The next message is the nearest of those it can reach.
LEMMA VwNearest ==
    ASSUME NEW m, NEW up, VwReachable(m, up) # {}
    PROVE  \A n \in VwReachable(m, up) \ {VwNeighbour(m, up)} :
              IF VwNewer(up) THEN n > VwNeighbour(m, up) ELSE n < VwNeighbour(m, up)
<1> DEFINE S == VwReachable(m, up)
<1>1. Len(VwKind) \in Nat /\ S \in SUBSET (1 .. Len(VwKind))
  BY VwAssumption DEF VwAssumption, VwSeqs, VwReachable
<1>2. CASE VwNewer(up)
  <2>1. PICK l \in S : \A n \in S : l <= n
    BY <1>1, LeastOf
  <2>2. Min(S) \in S /\ \A n \in S : Min(S) <= n
    BY <2>1 DEF Min
  <2>3. VwNeighbour(m, up) = Min(S)
    BY <1>2 DEF VwNeighbour
  <2> HIDE DEF S
  <2>5. S \subseteq Nat
    BY <1>1
  <2>4. ASSUME NEW n \in S \ {Min(S)} PROVE n > Min(S)
    <3>1. n \in Nat /\ Min(S) \in Nat /\ n # Min(S)
      BY <2>2, <2>5
    <3> QED BY <2>2, <3>1
  <2> QED BY <1>2, <2>3, <2>4 DEF S
<1>3. CASE ~VwNewer(up)
  <2>1. PICK l \in S : \A n \in S : l >= n
    BY <1>1, GreatestOf
  <2>2. Max(S) \in S /\ \A n \in S : Max(S) >= n
    BY <2>1 DEF Max
  <2>3. VwNeighbour(m, up) = Max(S)
    BY <1>3 DEF VwNeighbour
  <2> HIDE DEF S
  <2>5. S \subseteq Nat
    BY <1>1
  <2>4. ASSUME NEW n \in S \ {Max(S)} PROVE n < Max(S)
    <3>1. n \in Nat /\ Max(S) \in Nat /\ n # Max(S)
      BY <2>2, <2>5
    <3> QED BY <2>2, <3>1
  <2> QED BY <1>3, <2>3, <2>4 DEF S
<1> QED BY <1>2, <1>3

\* The answer of an arrow moves the selection only if the selection is still the one
\* it was asked from, and then to the nearest message it can reach.
THEOREM StepsToNeighbour == VwSpec => VwStepsToNeighbour
<1> DEFINE Steps == vwNav.step.on /\ ~vwNav'.step.on /\ vwSel' # vwSel =>
         /\ vwSel = vwNav.step.at
         /\ \A n \in VwReachable(vwSel, vwNav.step.up) \ {vwSel'} :
               IF VwNewer(vwNav.step.up) THEN n > vwSel' ELSE n < vwSel'
<1>1. VwNavInv /\ [VwNext]_vwVars => Steps
  <2> SUFFICES ASSUME VwNavInv, [VwNext]_vwVars, vwNav.step.on, ~vwNav'.step.on, vwSel' # vwSel
               PROVE  /\ vwSel = vwNav.step.at
                      /\ \A n \in VwReachable(vwSel, vwNav.step.up) \ {vwSel'} :
                            IF VwNewer(vwNav.step.up) THEN n > vwSel' ELSE n < vwSel'
    OBVIOUS
  <2>1. vwNav' # vwNav /\ ~ \E edges : vwNav' = [vwNav EXCEPT !.edges = edges]
    BY DEF VwNavInv
  <2>2. PICK ok \in BOOLEAN : VwStepAnswer(ok)
    <3>1. ~ \E up \in BOOLEAN : VwStep(up)
      BY DEF VwStep
    <3>2. ~VwLinked /\ ~ (\E m \in VwSeqs \cup {0} : VwSelect(m)) /\ ~ \E c \in vwCalls, ok \in BOOLEAN : VwDeleteAnswer(c, ok)
      BY <2>1 DEF VwLinked, VwSelect, VwDeleteAnswer
    <3> QED
      BY <2>1, <3>1, <3>2 DEF VwNext, VwUse, VwAnswer, vwVars, VwLoadFull, VwOpenDetect, VwCloseDetect,
         VwSaveGuess, VwRequestDelete, VwCancelDelete, VwResend, VwLeaveTab, VwBackToMessages, VwUseDetected,
         VwConfirmDelete, VwLoadAnswer, VwSaveAnswer, VwResendAnswer, VwDecodeAnswer
  <2>3. /\ vwSel = vwNav.step.at /\ VwReachable(vwNav.step.at, vwNav.step.up) # {}
        /\ vwSel' = VwNeighbour(vwNav.step.at, vwNav.step.up)
    BY <2>2 DEF VwStepAnswer, VwSelectMessage, VwShow
  <2> QED BY <2>3, VwNearest
<1> QED BY <1>1, VwNavInvariant, PTL DEF VwSpec, VwStepsToNeighbour

\* Every draft is made of a whole payload that decoded whole.
LEMMA VwBuildsWhole ==
    ASSUME NEW msg, NEW part, msg.whole, ~part
    PROVE  VwBuildDraft(msg, part).whole /\ ~VwBuildDraft(msg, part).part
BY DEF VwBuildDraft

\* A draft to send again is never made of a payload that was cut or decoded in part.
THEOREM ResendIsWhole == VwSpec => []VwResendWhole
<1>1. VwInit => VwResendWhole
  BY DEF VwInit, VwResendWhole, VwNoDraft
<1>2. VwResendWhole /\ [VwNext]_vwVars => VwResendWhole'
  <2> SUFFICES ASSUME VwResendWhole, [VwNext]_vwVars PROVE VwResendWhole'
    OBVIOUS
  <2>1. CASE vwDraft' = vwDraft
    BY <2>1 DEF VwResendWhole
  <2>2. CASE VwResend
    <3>1. CASE vwDraft' = vwDraft
      BY <3>1 DEF VwResendWhole
    <3>2. CASE vwDraft' # vwDraft
      <4>1. /\ vwDraft' = VwBuildDraft(VwMessage(vwSel, vwView), vwView.part)
            /\ ~VwTruncated(vwSel, vwView) /\ ~vwView.part
        BY <2>2, <3>2 DEF VwResend, VwFetchesFirst, VwRefused
      <4>2. VwMessage(vwSel, vwView).whole
        BY <4>1 DEF VwMessage, VwListed, VwTruncated
      <4> QED BY <4>1, <4>2, VwBuildsWhole DEF VwResendWhole
    <3> QED BY <3>1, <3>2
  <2>3. CASE \E c \in vwCalls, ok \in BOOLEAN : VwResendAnswer(c, ok)
    <3>1. PICK c \in vwCalls, ok \in BOOLEAN : VwResendAnswer(c, ok)
      BY <2>3
    <3>2. vwDraft' = vwDraft \/ vwDraft' = VwBuildDraft([seq |-> c.at, whole |-> TRUE], FALSE)
      BY <3>1 DEF VwResendAnswer
    <3>3. CASE vwDraft' = VwBuildDraft([seq |-> c.at, whole |-> TRUE], FALSE)
      BY <3>3 DEF VwBuildDraft, VwResendWhole
    <3>4. CASE vwDraft' = vwDraft
      BY <3>4 DEF VwResendWhole
    <3> QED BY <3>2, <3>3, <3>4
  <2> QED
    BY <2>1, <2>2, <2>3 DEF VwNext, VwUse, VwAnswer, vwVars, VwLoadFull, VwOpenDetect, VwCloseDetect, VwSelect, VwStep,
       VwSaveGuess, VwRequestDelete, VwCancelDelete, VwLeaveTab, VwBackToMessages, VwUseDetected, VwLinked,
       VwStepAnswer, VwConfirmDelete, VwLoadAnswer, VwSaveAnswer, VwDeleteAnswer, VwDecodeAnswer
<1> QED BY <1>1, <1>2, PTL DEF VwSpec

\* What the types of the panel rest on: what is shown and what is asked is a message.
VwViewOK(v) ==
    /\ {"from", "full"} \subseteq DOMAIN v
    /\ v.from \in {"none", "cut", "whole"} /\ v.full \in VwSeqs \cup {0}

VwCallsOK(calls) ==
    \A c \in calls : {"op", "at", "msg", "live"} \subseteq DOMAIN c /\ c.at \in VwSeqs /\ c.msg.seq \in VwSeqs

VwTypeInv ==
    /\ vwSel \in VwSeqs \cup {0} /\ vwParam \in VwSeqs \cup {0}
    /\ vwGone \subseteq VwSeqs /\ vwMapped \subseteq VwSeqs
    /\ VwViewOK(vwView) /\ VwCallsOK(vwCalls)
    /\ {"step", "edges"} \subseteq DOMAIN vwNav
    /\ vwNav.edges \subseteq BOOLEAN /\ vwNav.step.up \in BOOLEAN

LEMMA VwMessageIs ==
    ASSUME NEW sel \in VwSeqs, NEW v, VwViewOK(v)
    PROVE  VwMessage(sel, v).seq \in VwSeqs
BY DEF VwMessage, VwListed, VwViewOK

LEMMA VwBlankIs == VwViewOK(VwBlank) /\ VwViewOK([VwBlank EXCEPT !.mounted = FALSE])
BY DEF VwViewOK, VwBlank

LEMMA VwDecodeStateIs ==
    ASSUME NEW msg, NEW v, VwViewOK(v)
    PROVE  VwViewOK(VwDecodeState(msg, v))
BY DEF VwViewOK, VwDecodeState

LEMMA VwFreshIs ==
    ASSUME NEW sel, NEW saving
    PROVE  VwViewOK(VwFresh(sel, saving))
<1> DEFINE v == IF sel = 0 THEN VwBlank ELSE VwDecodeState(VwListed(sel), VwBlank)
<1>1. VwViewOK(v)
  BY VwBlankIs, VwDecodeStateIs
<1>2. VwFresh(sel, saving) = [v EXCEPT !.saving = saving]
  BY DEF VwFresh
<1> QED BY <1>1, <1>2 DEF VwViewOK

LEMMA VwDecodeCallIs ==
    ASSUME NEW sel \in VwSeqs, NEW v, VwViewOK(v), NEW calls, VwCallsOK(calls)
    PROVE  VwCallsOK(calls \cup {VwDecodeCall(sel, v)})
<1> DEFINE msg == VwMessage(sel, v)
<1>1. msg.seq \in VwSeqs
  BY VwMessageIs
<1>2. VwDecodeCall(sel, v) = [op |-> "decode", at |-> sel, msg |-> msg, live |-> TRUE]
  BY DEF VwDecodeCall
<1> HIDE DEF msg
<1> QED BY <1>1, <1>2 DEF VwCallsOK

LEMMA VwSettleIs ==
    ASSUME NEW sel \in VwSeqs \cup {0}, NEW v, VwViewOK(v), NEW calls, VwCallsOK(calls), VwSettle(sel, v, calls)
    PROVE  VwViewOK(vwView') /\ VwCallsOK(vwCalls')
<1>1. CASE VwDecodes(sel, v)
  <2>1. sel \in VwSeqs /\ vwView' = VwRunDecode(v) /\ vwCalls' = calls \cup {VwDecodeCall(sel, v)}
    BY <1>1 DEF VwSettle, VwDecodes
  <2>2. VwViewOK(VwRunDecode(v))
    BY DEF VwViewOK, VwRunDecode
  <2> QED BY <2>1, <2>2, VwDecodeCallIs
<1>2. CASE ~VwDecodes(sel, v)
  BY <1>2 DEF VwSettle
<1> QED BY <1>1, <1>2

LEMMA VwShowIs ==
    ASSUME NEW sel \in VwSeqs \cup {0}, NEW calls, VwCallsOK(calls), VwViewOK(vwView), VwShow(sel, calls)
    PROVE  VwViewOK(vwView') /\ VwCallsOK(vwCalls') /\ vwSel' = sel
<1>1. vwSel' = sel
  BY DEF VwShow
<1>2. CASE VwSettle(sel, VwFresh(sel, vwView.saving), calls)
  BY <1>1, <1>2, VwFreshIs, VwSettleIs
<1>3. CASE vwView' = vwView /\ vwCalls' = calls
  BY <1>1, <1>3
<1> QED BY <1>2, <1>3 DEF VwShow

LEMMA VwSetFullIs ==
    ASSUME NEW m \in VwSeqs, NEW v, VwViewOK(v), NEW calls, VwCallsOK(calls), vwSel \in VwSeqs \cup {0},
           VwSetFull(m, v, calls)
    PROVE  VwViewOK(vwView') /\ VwCallsOK(vwCalls')
<1> DEFINE now == [v EXCEPT !.full = m]
           next == IF VwServer(VwMessage(vwSel, v).seq) \/ VwServer(m)
                   THEN VwDecodeState([seq |-> m, whole |-> TRUE], now) ELSE now
<1>1. VwViewOK(now)
  BY DEF VwViewOK
<1>2. VwSettle(vwSel, next, calls)
  BY DEF VwSetFull
<1> HIDE DEF now
<1>3. VwViewOK(next)
  BY <1>1, VwDecodeStateIs
<1> HIDE DEF next
<1> QED BY <1>2, <1>3, VwSettleIs

LEMMA VwAskIs ==
    ASSUME NEW op, VwAsk(op), vwSel \in VwSeqs, VwViewOK(vwView), VwCallsOK(vwCalls)
    PROVE  VwCallsOK(vwCalls')
<1> DEFINE msg == VwMessage(vwSel, vwView)
<1>1. msg.seq \in VwSeqs
  BY VwMessageIs
<1>2. vwCalls' = vwCalls \cup {[op |-> op, at |-> vwSel, msg |-> msg, live |-> TRUE]}
  BY DEF VwAsk
<1> HIDE DEF msg
<1> QED BY <1>1, <1>2 DEF VwCallsOK

LEMMA VwUnmountIs ==
    ASSUME NEW calls, VwCallsOK(calls), VwUnmount(calls)
    PROVE  VwViewOK(vwView') /\ VwCallsOK(vwCalls')
<1>1. vwView' = [VwBlank EXCEPT !.mounted = FALSE] /\ vwCalls' = {[c EXCEPT !.live = FALSE] : c \in calls}
  BY DEF VwUnmount
<1>2. ASSUME NEW d \in vwCalls'
      PROVE  {"op", "at", "msg", "live"} \subseteq DOMAIN d /\ d.at \in VwSeqs /\ d.msg.seq \in VwSeqs
  <2>1. PICK c \in calls : d = [c EXCEPT !.live = FALSE]
    BY <1>1
  <2> QED BY <2>1 DEF VwCallsOK
<1> QED BY <1>1, <1>2, VwBlankIs DEF VwCallsOK

\* The next message is one of those it can reach.
LEMMA VwNeighbourIs ==
    ASSUME NEW m, NEW up, VwReachable(m, up) # {}
    PROVE  VwNeighbour(m, up) \in VwSeqs
<1> DEFINE S == VwReachable(m, up)
<1>1. Len(VwKind) \in Nat /\ S \in SUBSET (1 .. Len(VwKind)) /\ S \subseteq VwSeqs
  BY VwAssumption DEF VwAssumption, VwSeqs, VwReachable
<1>2. (\E l \in S : \A n \in S : l <= n) /\ (\E l \in S : \A n \in S : l >= n)
  BY <1>1, LeastOf, GreatestOf
<1>3. Min(S) \in S /\ Max(S) \in S
  BY <1>2 DEF Min, Max
<1> QED BY <1>1, <1>3 DEF VwNeighbour

\* What the panel offers, it offers for a message that is selected.
LEMMA VwOffers ==
    ASSUME vwSel \in VwSeqs \cup {0}, VwHeader # {} \/ VwTypeRow # {}
    PROVE  vwSel \in VwSeqs
BY DEF VwHeader, VwTypeRow

LEMMA VwTypeStep == VwTypeInv /\ [VwNext]_vwVars => VwTypeInv'
<1> SUFFICES ASSUME VwTypeInv, [VwNext]_vwVars PROVE VwTypeInv'
  OBVIOUS
<1> USE DEF VwTypeInv
<1>n. vwSel = 0 \/ vwSel \in VwSeqs
  OBVIOUS
<1>g. vwGone' \subseteq VwSeqs
  <2>1. vwGone' = vwGone \/ \E c \in vwCalls, ok \in BOOLEAN : VwDeleteAnswer(c, ok)
    BY Zenon DEF VwNext, VwUse, VwAnswer, VwSelect, VwStep, VwUseDetected, VwConfirmDelete, VwLoadFull,
       VwOpenDetect, VwCloseDetect, VwSaveGuess, VwRequestDelete, VwCancelDelete, VwResend, VwLeaveTab,
       VwBackToMessages, VwLinked, VwStepAnswer, VwLoadAnswer, VwSaveAnswer, VwResendAnswer, VwDecodeAnswer,
       VwSelectMessage, VwPerformDelete, VwAsk, VwUnmount, VwSettle, VwShow, VwSetFull, vwShared, vwVars
  <2>2. CASE \E c \in vwCalls, ok \in BOOLEAN : VwDeleteAnswer(c, ok)
    BY <2>2 DEF VwDeleteAnswer, VwCallsOK
  <2> QED BY <2>1, <2>2
<1>m. vwMapped' \subseteq VwSeqs
  <2>1. vwMapped' = vwMapped \/ \E c \in vwCalls, ok \in BOOLEAN : VwSaveAnswer(c, ok)
    BY Zenon DEF VwNext, VwUse, VwAnswer, VwSelect, VwStep, VwUseDetected, VwConfirmDelete, VwLoadFull,
       VwOpenDetect, VwCloseDetect, VwSaveGuess, VwRequestDelete, VwCancelDelete, VwResend, VwLeaveTab,
       VwBackToMessages, VwLinked, VwStepAnswer, VwLoadAnswer, VwDeleteAnswer, VwResendAnswer,
       VwDecodeAnswer, VwSelectMessage, VwPerformDelete, VwAsk, VwUnmount, VwSettle, VwShow, VwSetFull,
       vwShared, vwVars
  <2>2. CASE \E c \in vwCalls, ok \in BOOLEAN : VwSaveAnswer(c, ok)
    BY <2>2 DEF VwSaveAnswer, VwCallsOK
  <2> QED BY <2>1, <2>2
<1>s. /\ vwSel' \in VwSeqs \cup {0} /\ vwParam' \in VwSeqs \cup {0}
      /\ VwViewOK(vwView') /\ VwCallsOK(vwCalls')
  <2> DEFINE Goal == /\ vwSel' \in VwSeqs \cup {0} /\ vwParam' \in VwSeqs \cup {0}
                     /\ VwViewOK(vwView') /\ VwCallsOK(vwCalls')
  <2>1. ASSUME NEW sel \in VwSeqs \cup {0}, VwSelectMessage(sel) PROVE Goal
    BY <2>1, VwShowIs DEF VwSelectMessage
  <2>2. ASSUME vwSel' = vwSel, vwParam' = vwParam, vwView' = vwView, vwCalls' = vwCalls PROVE Goal
    BY <2>2
  <2>3. ASSUME UNCHANGED <<vwSel, vwParam>>, VwViewOK(vwView'), VwCallsOK(vwCalls') PROVE Goal
    BY <2>3
  <2>c. ASSUME NEW c \in vwCalls
        PROVE  c.at \in VwSeqs /\ c.msg.seq \in VwSeqs /\ VwCallsOK(vwCalls \ {c})
    BY <2>c DEF VwCallsOK
  <2> SUFFICES Goal
    OBVIOUS
  <2> HIDE DEF Goal
  <2>4. CASE \E m \in VwSeqs \cup {0} : VwSelect(m)
    <3>1. PICK m \in VwSeqs \cup {0} : VwSelectMessage(m)
      BY <2>4 DEF VwSelect
    <3> QED BY <2>1, <3>1, Zenon
  <2>5. CASE VwLinked
    <3> DEFINE sel == IF vwParam \in vwGone THEN 0 ELSE vwParam
    <3>1. VwSelectMessage(sel)
      BY <2>5 DEF VwLinked, VwSelectMessage
    <3>2. sel \in VwSeqs \cup {0}
      OBVIOUS
    <3> HIDE DEF sel
    <3> QED BY <2>1, <3>1, <3>2, Zenon
  <2>6. CASE \E up \in BOOLEAN : VwStep(up)
    BY <2>6, <2>2 DEF VwStep
  <2>7. CASE \E ok \in BOOLEAN : VwStepAnswer(ok)
    <3>1. \/ UNCHANGED <<vwSel, vwParam, vwView, vwCalls>>
          \/ /\ VwReachable(vwNav.step.at, vwNav.step.up) # {}
             /\ VwSelectMessage(VwNeighbour(vwNav.step.at, vwNav.step.up))
      BY <2>7 DEF VwStepAnswer
    <3>2. CASE /\ VwReachable(vwNav.step.at, vwNav.step.up) # {}
               /\ VwSelectMessage(VwNeighbour(vwNav.step.at, vwNav.step.up))
      <4> DEFINE sel == VwNeighbour(vwNav.step.at, vwNav.step.up)
      <4>1. sel \in VwSeqs \cup {0} /\ VwSelectMessage(sel)
        BY <3>2, VwNeighbourIs
      <4> HIDE DEF sel
      <4> QED BY <2>1, <4>1, Zenon
    <3> QED BY Zenon, <2>2, <3>1, <3>2
  <2>8. CASE VwLoadFull
    <3>1. "full" \in VwHeader /\ VwAsk("load") /\ vwView' = [vwView EXCEPT !.loading = TRUE] /\ UNCHANGED <<vwSel, vwParam>>
      BY <2>8 DEF VwLoadFull
    <3>2. VwCallsOK(vwCalls')
      BY <3>1, VwOffers, VwAskIs
    <3>3. VwViewOK(vwView')
      BY <3>1 DEF VwViewOK
    <3> QED BY Zenon, <2>3, <3>1, <3>2, <3>3
  <2>9. ASSUME NEW c \in vwCalls, NEW ok \in BOOLEAN, VwLoadAnswer(c, ok) PROVE Goal
    <3> DEFINE v == [vwView EXCEPT !.loading = FALSE]
    <3>1. VwViewOK(v)
      BY DEF VwViewOK
    <3>2. \/ VwSetFull(c.at, v, vwCalls \ {c})
          \/ (vwView' = v \/ vwView' = vwView) /\ vwCalls' = vwCalls \ {c}
      BY <2>9 DEF VwLoadAnswer
    <3>3. UNCHANGED <<vwSel, vwParam>>
      BY <2>9 DEF VwLoadAnswer
    <3> HIDE DEF v
    <3>4. VwViewOK(vwView') /\ VwCallsOK(vwCalls')
      BY <2>c, <3>1, <3>2, VwSetFullIs
    <3> QED BY Zenon, <2>3, <3>3, <3>4
  <2>10. ASSUME NEW c \in vwCalls, NEW outcome, VwDecodeAnswer(c, outcome) PROVE Goal
    <3> DEFINE done == [vwView EXCEPT !.decoding = FALSE]
               lost == [done EXCEPT !.has = FALSE]
               from == IF c.msg.whole THEN "whole" ELSE "cut"
               read == [done EXCEPT !.from = from, !.part = (outcome = "part"), !.has = TRUE]
    <3>1. VwViewOK(done) /\ VwViewOK(lost) /\ VwViewOK(read)
      BY DEF VwViewOK
    <3>2. \/ VwSettle(vwSel, lost, vwCalls \ {c})
          \/ (vwView' = vwView \/ vwView' = done \/ vwView' = read) /\ vwCalls' = vwCalls \ {c}
      BY <2>10 DEF VwDecodeAnswer
    <3>3. UNCHANGED <<vwSel, vwParam>>
      BY <2>10 DEF VwDecodeAnswer
    <3> HIDE DEF done, lost, read
    <3>4. VwViewOK(vwView') /\ VwCallsOK(vwCalls')
      BY <2>c, <3>1, <3>2, VwSettleIs
    <3> QED BY Zenon, <2>3, <3>3, <3>4
  <2>11. CASE VwOpenDetect \/ VwCloseDetect
    <3>1. /\ vwView' = [vwView EXCEPT !.detect = TRUE] \/ vwView' = [vwView EXCEPT !.detect = FALSE]
          /\ vwCalls' = vwCalls /\ UNCHANGED <<vwSel, vwParam>>
      BY <2>11 DEF VwOpenDetect, VwCloseDetect
    <3>2. VwViewOK(vwView')
      BY <3>1 DEF VwViewOK
    <3> QED BY Zenon, <2>3, <3>1, <3>2
  <2>12. CASE \E save \in BOOLEAN : VwUseDetected(save)
    <3>1. PICK save \in BOOLEAN : VwUseDetected(save)
      BY <2>12
    <3> DEFINE call == VwDecodeCall(vwSel, vwView)
               msg == VwMessage(vwSel, vwView)
               kept == IF save THEN {[call EXCEPT !.op = "save"]} ELSE {}
    <3>2. /\ "use" \in VwTypeRow /\ UNCHANGED <<vwSel, vwParam>>
          /\ vwView' = [VwDecodeAs(vwView) EXCEPT !.saving = @ \/ save]
          /\ vwCalls' = vwCalls \cup {call} \cup kept
      BY <3>1 DEF VwUseDetected
    <3>3. VwViewOK(VwDecodeAs(vwView))
      BY DEF VwViewOK, VwDecodeAs, VwRunDecode
    <3>4. VwViewOK(vwView')
      BY <3>2, <3>3 DEF VwViewOK
    <3>5. VwCallsOK(vwCalls \cup {call}) /\ msg.seq \in VwSeqs /\ vwSel \in VwSeqs
      BY <3>2, VwOffers, VwDecodeCallIs, VwMessageIs
    <3>6. call = [op |-> "decode", at |-> vwSel, msg |-> msg, live |-> TRUE]
      BY DEF VwDecodeCall
    <3> HIDE DEF msg, call
    <3>7. VwCallsOK(kept)
      BY <3>5, <3>6 DEF VwCallsOK
    <3>8. VwCallsOK(vwCalls')
      BY <3>2, <3>5, <3>7, Zenon DEF VwCallsOK
    <3> QED BY Zenon, <2>3, <3>2, <3>4, <3>8
  <2>13. CASE VwSaveGuess
    <3>1. "save" \in VwTypeRow /\ VwAsk("save") /\ vwView' = [vwView EXCEPT !.saving = TRUE] /\ UNCHANGED <<vwSel, vwParam>>
      BY <2>13 DEF VwSaveGuess
    <3>2. VwCallsOK(vwCalls')
      BY <3>1, VwOffers, VwAskIs
    <3>3. VwViewOK(vwView')
      BY <3>1 DEF VwViewOK
    <3> QED BY Zenon, <2>3, <3>1, <3>2, <3>3
  <2>14. ASSUME NEW c \in vwCalls, NEW ok \in BOOLEAN, VwSaveAnswer(c, ok) PROVE Goal
    <3> DEFINE done == [vwView EXCEPT !.saving = FALSE, !.saved = @ \/ ok, !.detect = @ /\ ~ok]
               shown == VwMessage(vwSel, vwView).seq
               typed == vwSel # 0 /\ (vwView.typed \/ (~VwServer(shown) /\ shown \in vwMapped'))
               given == [done EXCEPT !.typed = typed]
    <3>1. VwViewOK(done)
      BY DEF VwViewOK
    <3>2. \/ VwSettle(vwSel, given, vwCalls \ {c})
          \/ (vwView' = vwView \/ vwView' = done) /\ vwCalls' = vwCalls \ {c}
      BY <2>14, Zenon DEF VwSaveAnswer
    <3>3. UNCHANGED <<vwSel, vwParam>>
      BY <2>14 DEF VwSaveAnswer
    <3> HIDE DEF done, typed
    <3>5. VwViewOK(given)
      BY <3>1 DEF VwViewOK
    <3> HIDE DEF given
    <3>4. VwViewOK(vwView') /\ VwCallsOK(vwCalls')
      BY <2>c, <3>1, <3>2, <3>5, VwSettleIs
    <3> QED BY Zenon, <2>3, <3>3, <3>4
  <2>15. CASE VwRequestDelete
    <3>1. "delete" \in VwHeader /\ (vwCalls' = vwCalls \/ VwAsk("delete")) /\ UNCHANGED <<vwSel, vwParam, vwView>>
      BY <2>15 DEF VwRequestDelete, VwPerformDelete
    <3>2. VwCallsOK(vwCalls')
      BY <3>1, VwOffers, VwAskIs
    <3> QED BY Zenon, <2>3, <3>1, <3>2
  <2>16. CASE \E dontAsk \in BOOLEAN : VwConfirmDelete(dontAsk)
    <3>1. "confirm" \in VwTypeRow /\ VwAsk("delete") /\ UNCHANGED <<vwSel, vwParam, vwView>>
      BY <2>16 DEF VwConfirmDelete, VwPerformDelete
    <3>2. VwCallsOK(vwCalls')
      BY <3>1, VwOffers, VwAskIs
    <3> QED BY Zenon, <2>3, <3>1, <3>2
  <2>17. CASE VwCancelDelete
    BY <2>17, <2>2 DEF VwCancelDelete
  <2>18. ASSUME NEW c \in vwCalls, NEW ok \in BOOLEAN, VwDeleteAnswer(c, ok) PROVE Goal
    <3>1. \/ VwShow(0, vwCalls \ {c}) /\ vwParam' = 0
          \/ vwCalls' = vwCalls \ {c} /\ UNCHANGED <<vwSel, vwParam, vwView>>
      BY <2>18 DEF VwDeleteAnswer
    <3>2. CASE VwShow(0, vwCalls \ {c}) /\ vwParam' = 0
      BY <2>c, <3>2, VwShowIs DEF Goal
    <3> QED BY Zenon, <2>3, <2>c, <3>1, <3>2
  <2>19. CASE VwResend
    <3> DEFINE msg == VwMessage(vwSel, vwView)
    <3>1. /\ "resend" \in VwHeader /\ UNCHANGED <<vwSel, vwParam>>
          /\ \/ /\ vwCalls' = vwCalls \cup {[op |-> "resend", at |-> vwSel, msg |-> msg, live |-> TRUE, held |-> vwView]}
                /\ vwView' = vwView
             \/ UNCHANGED <<vwView, vwCalls>>
             \/ VwUnmount(vwCalls)
      BY <2>19 DEF VwResend
    <3>2. vwSel \in VwSeqs /\ msg.seq \in VwSeqs
      BY <3>1, VwOffers, VwMessageIs
    <3> HIDE DEF msg
    <3>3. CASE /\ vwCalls' = vwCalls \cup {[op |-> "resend", at |-> vwSel, msg |-> msg, live |-> TRUE, held |-> vwView]}
               /\ vwView' = vwView
      <4>1. VwCallsOK(vwCalls')
        BY <3>2, <3>3 DEF VwCallsOK
      <4> QED BY Zenon, <2>3, <3>1, <3>3, <4>1
    <3>4. CASE VwUnmount(vwCalls)
      BY Zenon, <2>3, <3>1, <3>4, VwUnmountIs
    <3> QED BY Zenon, <2>2, <3>1, <3>3, <3>4
  <2>20. ASSUME NEW c \in vwCalls, NEW ok \in BOOLEAN, VwResendAnswer(c, ok) PROVE Goal
    <3>1. \/ VwSetFull(c.at, vwView, vwCalls \ {c})
          \/ vwView' = vwView /\ vwCalls' = vwCalls \ {c}
          \/ VwUnmount(vwCalls \ {c})
      BY <2>20 DEF VwResendAnswer
    <3>2. UNCHANGED <<vwSel, vwParam>>
      BY <2>20 DEF VwResendAnswer
    <3>3. VwViewOK(vwView') /\ VwCallsOK(vwCalls')
      BY <2>c, <3>1, VwSetFullIs, VwUnmountIs
    <3> QED BY Zenon, <2>3, <3>2, <3>3
  <2>21. CASE VwLeaveTab
    BY <2>21, <2>3, VwUnmountIs DEF VwLeaveTab
  <2>22. CASE VwBackToMessages
    BY <2>22, <2>3, VwFreshIs, VwSettleIs DEF VwBackToMessages
  <2> QED
    <3>1. CASE VwUse
      BY <3>1, <2>4, <2>6, <2>8, <2>11, <2>12, <2>13, <2>15, <2>16, <2>17, <2>19, <2>21, <2>22, Zenon DEF VwUse
    <3>2. CASE VwAnswer
      BY <3>2, <2>5, <2>7, <2>9, <2>10, <2>14, <2>18, <2>20, Zenon DEF VwAnswer
    <3>3. CASE UNCHANGED vwVars
      BY <3>3, <2>2 DEF vwVars
    <3> QED BY <3>1, <3>2, <3>3, Zenon DEF VwNext
<1>e. {"step", "edges"} \subseteq DOMAIN vwNav' /\ vwNav'.edges \subseteq BOOLEAN /\ vwNav'.step.up \in BOOLEAN
  <2>1. \/ vwNav' = vwNav
        \/ \E sel : vwNav' = [vwNav EXCEPT !.edges = VwNewEdges(sel)]
        \/ \E up \in BOOLEAN : VwStep(up)
        \/ \E ok \in BOOLEAN : VwStepAnswer(ok)
        \/ \E c \in vwCalls, ok \in BOOLEAN : VwDeleteAnswer(c, ok)
    BY Zenon DEF VwNext, VwUse, VwAnswer, VwSelect, VwUseDetected, VwConfirmDelete, VwLoadFull,
       VwOpenDetect, VwCloseDetect, VwSaveGuess, VwRequestDelete, VwCancelDelete, VwResend, VwLeaveTab,
       VwBackToMessages, VwLinked, VwLoadAnswer, VwSaveAnswer, VwResendAnswer, VwDecodeAnswer,
       VwSelectMessage, VwPerformDelete, VwAsk, VwUnmount, VwSettle, VwShow, VwSetFull, vwShared, vwVars
  <2>2. ASSUME NEW sel PROVE VwNewEdges(sel) \subseteq BOOLEAN
    BY DEF VwNewEdges
  <2>3. CASE \E sel : vwNav' = [vwNav EXCEPT !.edges = VwNewEdges(sel)]
    BY Zenon, <2>2, <2>3
  <2>4. CASE \E up \in BOOLEAN : VwStep(up)
    <3>1. PICK up \in BOOLEAN : VwStep(up)
      BY <2>4
    <3>2. \/ vwNav' = [vwNav EXCEPT !.edges = @ \cup {up}]
          \/ vwNav' = [vwNav EXCEPT !.step = [on |-> TRUE, at |-> vwSel, up |-> up]]
      BY <3>1 DEF VwStep
    <3> QED BY <3>2
  <2>5. CASE \E ok \in BOOLEAN : VwStepAnswer(ok)
    <3>1. \E edges \in SUBSET BOOLEAN : vwNav' = [vwNav EXCEPT !.step = VwNoStep, !.edges = edges]
      <4>1. PICK ok \in BOOLEAN : VwStepAnswer(ok)
        BY <2>5
      <4> DEFINE step == vwNav.step
                 moves == ok /\ vwSel = step.at /\ VwReachable(step.at, step.up) # {}
                 sel == IF moves THEN VwNeighbour(step.at, step.up) ELSE vwSel
                 edge == ok /\ vwSel = step.at /\ ~moves
                 edges == IF edge THEN vwNav.edges \cup {step.up} ELSE VwNewEdges(sel)
      <4>2. vwNav' = [vwNav EXCEPT !.step = VwNoStep, !.edges = edges]
        BY <4>1 DEF VwStepAnswer
      <4>3. VwNewEdges(sel) \subseteq BOOLEAN
        BY <2>2
      <4>4. edges \subseteq BOOLEAN
        BY <4>3
      <4> HIDE DEF edges
      <4> QED BY <4>2, <4>4
    <3>2. PICK edges \in SUBSET BOOLEAN : vwNav' = [vwNav EXCEPT !.step = VwNoStep, !.edges = edges]
      BY <3>1
    <3>3. DOMAIN vwNav' = DOMAIN vwNav /\ vwNav'.step = VwNoStep /\ vwNav'.edges = edges
      BY <3>2
    <3>4. VwNoStep.up \in BOOLEAN
      BY DEF VwNoStep
    <3> QED BY <3>2, <3>3, <3>4, Zenon
  <2>6. CASE \E c \in vwCalls, ok \in BOOLEAN : VwDeleteAnswer(c, ok)
    <3>1. PICK edges : vwNav' = [vwNav EXCEPT !.edges = edges] /\ (edges = vwNav.edges \/ edges = VwNewEdges(0))
      BY <2>6 DEF VwDeleteAnswer
    <3>2. edges \subseteq BOOLEAN
      BY Zenon, <2>2, <3>1
    <3> QED BY <3>1, <3>2
  <2> QED BY <2>1, <2>3, <2>4, <2>5, <2>6
<1> QED BY <1>g, <1>m, <1>s, <1>e

\* Every reachable state of the panel of a message has its type (UnifiedMessageViewer.tsx).
THEOREM VwTypeCorrect == VwSpec => []VwTypeOK
<1>1. VwInit => VwTypeInv
  <2> SUFFICES ASSUME VwInit PROVE VwTypeInv
    OBVIOUS
  <2>1. PICK search \in BOOLEAN : vwNav = [matches |-> search, backward |-> search, step |-> VwNoStep, edges |-> {}]
    BY DEF VwInit
  <2>2. vwNav.edges \subseteq BOOLEAN /\ vwNav.step.up \in BOOLEAN /\ {"step", "edges"} \subseteq DOMAIN vwNav
    BY <2>1 DEF VwNoStep
  <2>3. VwViewOK(vwView) /\ VwCallsOK(vwCalls)
    BY VwBlankIs DEF VwInit, VwCallsOK
  <2> QED BY Zenon, <2>2, <2>3 DEF VwInit, VwTypeInv
<1>2. VwTypeInv => VwTypeOK
  BY DEF VwTypeInv, VwTypeOK, VwViewOK
<1> QED BY <1>1, <1>2, VwTypeStep, PTL DEF VwSpec

---------------------------------------------------------------------------
(*************************************************************************)
(* The table of messages: the row that is read stays where it is.        *)
(*************************************************************************)

\* Rows and the offset are counted.
MtInv ==
    /\ DOMAIN mtRows = {"new", "old"} /\ mtRows.new \in Nat /\ mtRows.old \in Nat
    /\ mtTop \in Nat /\ mtFocused \in Nat /\ mtPicked \in [id : Nat, shown : Nat]

LEMMA MtConstants == MtMax \in Nat /\ MtCap \in Nat /\ MtView \in Nat /\ MtJump \in Nat /\ MtView > 0
BY MtAssumption DEF MtAssumption

LEMMA MtMinIs ==
    ASSUME NEW a \in Nat, NEW b \in Nat
    PROVE  Min({a, b}) = IF a <= b THEN a ELSE b
<1>1. Min({a, b}) \in {a, b} /\ \A n \in {a, b} : Min({a, b}) <= n
  <2>1. \E m \in {a, b} : \A n \in {a, b} : m <= n
    OBVIOUS
  <2> QED BY <2>1 DEF Min
<1> QED BY <1>1

LEMMA MtMaxIs ==
    ASSUME NEW a \in Nat, NEW b \in Nat
    PROVE  Max({a, b}) = IF a >= b THEN a ELSE b
<1>1. Max({a, b}) \in {a, b} /\ \A n \in {a, b} : Max({a, b}) >= n
  <2>1. \E m \in {a, b} : \A n \in {a, b} : m >= n
    OBVIOUS
  <2> QED BY <2>1 DEF Max
<1> QED BY <1>1

LEMMA MtCounts ==
    ASSUME NEW rows, rows.new \in Nat, rows.old \in Nat
    PROVE  MtCount(rows) \in Nat
BY DEF MtCount

LEMMA MtClamps ==
    ASSUME NEW rows, rows.new \in Nat, rows.old \in Nat, NEW top \in Nat
    PROVE  /\ MtClamp(rows, top) \in Nat
           /\ \/ MtClamp(rows, top) = top
              \/ /\ MtClamp(rows, top) <= top
                 /\ MtClamp(rows, top) = IF MtCount(rows) > MtView THEN MtCount(rows) - MtView ELSE 0
<1> DEFINE last == IF MtCount(rows) > MtView THEN MtCount(rows) - MtView ELSE 0
<1>1. last \in Nat
  BY MtCounts, MtConstants
<1>2. MtClamp(rows, top) = Min({top, last})
  BY DEF MtClamp
<1> HIDE DEF last
<1>3. MtClamp(rows, top) = IF top <= last THEN top ELSE last
  BY <1>1, <1>2, MtMinIs
<1>4. MtClamp(rows, top) \in Nat /\ (MtClamp(rows, top) = top \/ (MtClamp(rows, top) <= top /\ MtClamp(rows, top) = last))
  BY <1>1, <1>3
<1> QED BY <1>4 DEF last

LEMMA MtReveals ==
    ASSUME NEW rows, NEW top \in Nat, NEW m, MtIndex(rows, m) \in Nat
    PROVE  MtReveal(rows, top, m) \in Nat
<1> DEFINE i == MtIndex(rows, m)
<1>1. MtReveal(rows, top, m) = IF i < top THEN i ELSE IF i >= top + MtView THEN i - MtView + 1 ELSE top
  BY DEF MtReveal
<1> HIDE DEF i
<1>2. i \in Nat
  BY DEF i
<1> QED BY <1>1, <1>2, MtConstants

LEMMA MtHere ==
    ASSUME NEW rows, rows.new \in Nat, rows.old \in Nat, NEW m \in Nat, MtHas(rows, m)
    PROVE  MtIndex(rows, m) \in Nat
BY DEF MtHas, MtIndex

\* What arrives goes before the rows there are, and the cap drops the last.
LEMMA MtArriveDoes ==
    ASSUME MtInv, NEW n \in 1 .. MtCap, MtArrive(n)
    PROVE  /\ DOMAIN mtRows' = {"new", "old"} /\ mtRows'.new = mtRows.new + n
           /\ mtRows'.old \in Nat /\ mtRows'.old >= mtRows.old
           /\ MtTopAfter(mtRows', n) \in Nat
           /\ \/ mtTop' = MtTopAfter(mtRows', n) /\ mtPicked' = mtPicked
              \/ /\ MtHas(mtRows', mtPicked.id) /\ mtPicked.id # mtPicked.shown
                 /\ mtTop' = MtReveal(mtRows', MtTopAfter(mtRows', n), mtPicked.id)
                 /\ mtPicked' = [mtPicked EXCEPT !.shown = mtPicked.id]
<1> DEFINE new == mtRows.new + n
           first == IF new > MtCap THEN new - MtCap + 1 ELSE 1
<1>1. mtRows.old \in Nat /\ first \in Nat /\ mtRows.new \in Nat /\ mtTop \in Nat /\ n \in Nat
  BY MtConstants DEF MtInv
<1>2. mtRows' = [new |-> new, old |-> Max({mtRows.old, first})]
  BY DEF MtArrive
<1>3. mtRows'.new = new /\ mtRows'.old = Max({mtRows.old, first}) /\ DOMAIN mtRows' = {"new", "old"}
  BY <1>2
<1> HIDE DEF first
<1>4. mtRows'.old \in Nat /\ mtRows'.old >= mtRows.old
  BY <1>1, <1>3, MtMaxIs
<1>5. MtTopAfter(mtRows', n) \in Nat
  <2>1. mtRows'.new \in Nat /\ mtTop + n \in Nat
    BY <1>1, <1>3
  <2>2. MtClamp(mtRows', mtTop + n) \in Nat /\ MtClamp(mtRows', mtTop) \in Nat
    BY <1>1, <1>4, <2>1, MtClamps
  <2> QED BY <2>2 DEF MtTopAfter
<1>6. \/ mtTop' = MtTopAfter(mtRows', n) /\ mtPicked' = mtPicked
      \/ /\ MtHas(mtRows', mtPicked.id) /\ mtPicked.id # mtPicked.shown
         /\ mtTop' = MtReveal(mtRows', MtTopAfter(mtRows', n), mtPicked.id)
         /\ mtPicked' = [mtPicked EXCEPT !.shown = mtPicked.id]
  BY DEF MtArrive, MtScrolled
<1> QED BY <1>3, <1>4, <1>5, <1>6

LEMMA MtPicks ==
    ASSUME MtInv, NEW m \in Nat, MtPick(m)
    PROVE  mtTop' \in Nat /\ mtPicked' \in [id : Nat, shown : Nat]
<1>0. mtPicked' \in [id : Nat, shown : Nat]
  BY DEF MtPick, MtInv
<1>1. CASE mtTop' = mtTop
  <2>1. mtTop' \in Nat
    BY <1>1 DEF MtInv
  <2> QED BY <1>0, <2>1
<1>2. CASE MtHas(mtRows, m) /\ mtTop' = MtReveal(mtRows, mtTop, m)
  <2>1. mtTop' \in Nat
    BY <1>2, MtHere, MtReveals DEF MtInv
  <2> QED BY <1>0, <2>1
<1> QED BY <1>1, <1>2 DEF MtPick, MtScrolled

LEMMA MtFocuses ==
    ASSUME MtInv, NEW key \in DOMAIN MtKeys, MtMoveFocus(key)
    PROVE  mtTop' \in Nat /\ mtFocused' \in Nat
<1>1. MtCount(mtRows) \in Nat /\ MtCount(mtRows) > 0 /\ mtRows.new \in Nat /\ mtTop \in Nat
  BY MtCounts DEF MtInv, MtMoveFocus
<1>2. MtFocusIndex \in Nat
  BY MtHere DEF MtFocusIndex, MtInv
<1>3. MtKeys[key] \in Nat
  BY <1>1, <1>2, MtConstants DEF MtKeys
<1> DEFINE i == Min({MtKeys[key], MtCount(mtRows) - 1})
<1>4. i \in Nat
  BY <1>1, <1>3, MtMinIs
<1>5. mtTop' = MtReveal(mtRows, mtTop, mtRows.new - i)
  BY DEF MtMoveFocus, MtScrolled
<1> HIDE DEF i
<1>6. MtIndex(mtRows, mtRows.new - i) \in Nat
  BY <1>1, <1>4 DEF MtIndex
<1>7. i <= MtCount(mtRows) - 1
  BY <1>1, <1>3, MtMinIs DEF i
<1>8. mtFocused' = mtRows.new - i
  BY DEF MtMoveFocus, i
<1>9. mtFocused' \in Nat
  BY <1>1, <1>4, <1>7, <1>8 DEF MtCount, MtInv
<1> QED BY <1>1, <1>5, <1>6, <1>9, MtReveals

LEMMA MtStep == MtInv /\ [MtNext]_mtVars => MtInv'
<1> SUFFICES ASSUME MtInv, [MtNext]_mtVars PROVE MtInv'
  OBVIOUS
<1>1. CASE \E n \in 1 .. MtCap : MtArrive(n)
  <2>1. PICK n \in 1 .. MtCap : MtArrive(n)
    BY <1>1
  <2>2. mtRows'.new \in Nat /\ mtRows'.old \in Nat /\ DOMAIN mtRows' = {"new", "old"}
    BY <2>1, MtArriveDoes, MtConstants DEF MtInv
  <2>3. MtTopAfter(mtRows', n) \in Nat
    BY <2>1, MtArriveDoes
  <2>4. ASSUME MtHas(mtRows', mtPicked.id) PROVE MtIndex(mtRows', mtPicked.id) \in Nat
    BY <2>2, <2>4, MtHere DEF MtInv
  <2>6. mtPicked' \in [id : Nat, shown : Nat] /\ mtFocused' \in Nat
    BY <2>1, MtArriveDoes DEF MtInv, MtArrive
  <2>5. mtTop' \in Nat
    BY <2>1, <2>2, <2>3, <2>4, MtArriveDoes, MtReveals
  <2> QED BY <2>2, <2>5, <2>6 DEF MtInv
<1>2. CASE MtClear
  <2>1. mtRows' = [mtRows EXCEPT !.old = mtRows.new + 1] /\ mtTop' = 0 /\ UNCHANGED <<mtFocused, mtPicked>>
    BY <1>2 DEF MtClear, MtScrolled
  <2> QED BY <2>1 DEF MtInv
<1>3. CASE \E top \in 0 .. MtMax : MtScroll(top)
  BY <1>3, MtConstants DEF MtScroll, MtScrolled, MtInv
<1>4. CASE MtScrollToTop
  BY <1>4 DEF MtScrollToTop, MtScrolled, MtInv
<1>5. CASE \E m \in MtIds \cup {0} : MtSelected(m) \/ MtActivate(m)
  <2>1. PICK m \in MtIds \cup {0} : MtPick(m) /\ mtRows' = mtRows
    BY <1>5 DEF MtSelected, MtActivate
  <2>2. m \in Nat
    BY MtConstants DEF MtIds
  <2>3. mtFocused' \in Nat
    BY <1>5, MtConstants DEF MtSelected, MtActivate, MtInv, MtDrawn, MtIds
  <2> QED BY <2>1, <2>2, <2>3, MtPicks DEF MtInv
<1>6. CASE \E key \in DOMAIN MtKeys : MtMoveFocus(key)
  <2>1. mtRows' = mtRows /\ mtPicked' = mtPicked
    BY <1>6 DEF MtMoveFocus
  <2> QED BY <1>6, <2>1, MtFocuses DEF MtInv
<1>8. CASE \E m \in MtIds : MtFocus(m)
  <2>1. mtFocused' \in Nat
    BY <1>8, MtConstants DEF MtFocus, MtIds
  <2> QED BY <1>8, <2>1 DEF MtFocus, MtInv
<1>9. CASE UNCHANGED <<mtRows, mtTop, mtPicked, mtFocused>>
  BY <1>9 DEF MtInv
<1> QED
  BY <1>1, <1>2, <1>3, <1>4, <1>5, <1>6, <1>8, <1>9 DEF MtNext, mtVars, MtBookmark

LEMMA MtInvariant == MtSpec => []MtInv
<1>1. MtInit => MtInv
  BY MtConstants DEF MtInit, MtInv
<1> QED BY <1>1, MtStep, PTL DEF MtSpec

\* The row at the top of the view, pushed down by the rows that arrived, is in
\* view wherever the cap lets the view go.
LEMMA MtHolds ==
    ASSUME NEW count \in Nat, NEW index \in Nat, index < count, NEW top \in Nat,
           \/ top = index
           \/ top <= index /\ top = IF count > MtView THEN count - MtView ELSE 0
    PROVE  index \in top .. top + MtView - 1
BY MtConstants

LEMMA MtReadingStep ==
    ASSUME MtInv, [MtNext]_mtVars, mtRows'.new > mtRows.new, ~mtAuto, MtCount(mtRows) > 0, mtPicked' = mtPicked,
           MtHas(mtRows', mtRows.new - mtTop)
    PROVE  MtInView(mtRows', mtTop', mtRows.new - mtTop)
<1>1. mtRows.new \in Nat /\ mtRows.old \in Nat /\ mtTop \in Nat
  BY DEF MtInv
<1>2. PICK n \in 1 .. MtCap : MtArrive(n)
  <2>1. mtRows' # mtRows /\ mtRows' # [mtRows EXCEPT !.old = mtRows.new + 1]
    BY <1>1 DEF MtInv
  <2> QED BY <2>1 DEF MtNext, mtVars, MtFocus, MtBookmark, MtClear, MtScroll, MtScrollToTop, MtSelected, MtActivate, MtMoveFocus
<1>3. n \in Nat /\ mtRows'.new = mtRows.new + n /\ mtRows'.old \in Nat /\ mtRows'.old >= mtRows.old
  BY <1>2, MtArriveDoes, MtConstants
<1>4. mtTop' = MtTopAfter(mtRows', n)
  <2>1. CASE mtTop' = MtTopAfter(mtRows', n)
    BY <2>1
  <2>2. CASE mtPicked.id # mtPicked.shown /\ mtPicked' = [mtPicked EXCEPT !.shown = mtPicked.id]
    BY <2>2
  <2> QED BY <1>2, <2>1, <2>2, MtArriveDoes
<1>5. MtHas(mtRows', mtRows.new)
  BY <1>1, <1>3 DEF MtHas
<1>6. mtTop' = MtClamp(mtRows', mtTop + n)
  BY <1>4, <1>5 DEF MtTopAfter
<1>7. /\ mtTop' \in Nat
      /\ \/ mtTop' = mtTop + n
         \/ mtTop' <= mtTop + n /\ mtTop' = IF MtCount(mtRows') > MtView THEN MtCount(mtRows') - MtView ELSE 0
  <2>1. mtTop + n \in Nat /\ mtRows'.new \in Nat
    BY <1>1, <1>3
  <2> QED BY <1>3, <1>6, <2>1, MtClamps
<1>8. MtIndex(mtRows', mtRows.new - mtTop) = mtTop + n /\ MtCount(mtRows') \in Nat /\ mtTop + n < MtCount(mtRows')
  BY <1>1, <1>3 DEF MtIndex, MtCount, MtHas
<1>9. mtTop + n \in mtTop' .. mtTop' + MtView - 1
  <2>1. mtTop + n \in Nat
    BY <1>1, <1>3
  <2> QED BY <1>7, <1>8, <2>1, MtHolds
<1> QED BY <1>8, <1>9 DEF MtInView

\* Rows that arrive while the feed is not followed leave the row at the top of the
\* view in view, unless the cap dropped it.
THEOREM ReadingIsKept == MtSpec => MtReadingKept
<1> DEFINE reading == mtRows.new - mtTop
           Kept == (mtRows'.new > mtRows.new /\ ~mtAuto /\ MtCount(mtRows) > 0 /\ mtPicked' = mtPicked)
                      => (MtHas(mtRows', reading) => MtInView(mtRows', mtTop', reading))
<1>1. MtInv /\ [MtNext]_mtVars => Kept
  BY MtReadingStep
<1> QED BY <1>1, MtInvariant, PTL DEF MtSpec, MtReadingKept

\* The offset at which the last row is in view.
MtEnd(rows) == IF MtCount(rows) > MtView THEN MtCount(rows) - MtView ELSE 0

\* The rows are within the cap, and the offset within the rows.
MtBounds ==
    /\ mtMode \in {"history", "realtime"} /\ mtAuto \in BOOLEAN /\ mtFocused <= MtMax
    /\ mtRows.new <= MtMax /\ 1 <= mtRows.old /\ mtRows.old <= mtRows.new + 1
    /\ mtMode = "realtime" => mtRows.new < mtRows.old + MtCap
    /\ mtTop <= MtEnd(mtRows)

LEMMA MtEndIs ==
    ASSUME NEW rows, rows.new \in Nat, rows.old \in Nat
    PROVE  /\ MtEnd(rows) \in Nat
           /\ \A top \in Nat : MtClamp(rows, top) <= MtEnd(rows) /\ (top <= MtClamp(rows, top) <=> top <= MtEnd(rows))
<1>1. MtEnd(rows) \in Nat
  BY MtCounts, MtConstants DEF MtEnd
<1>2. ASSUME NEW top \in Nat PROVE MtClamp(rows, top) = IF top <= MtEnd(rows) THEN top ELSE MtEnd(rows)
  BY <1>1, MtMinIs DEF MtClamp, MtEnd
<1> QED BY <1>1, <1>2

\* A row that is listed is shown at an offset within the rows.
LEMMA MtRevealFits ==
    ASSUME NEW rows, rows.new \in Nat, rows.old \in Nat, NEW top \in Nat, top <= MtEnd(rows), NEW m \in Nat, MtHas(rows, m)
    PROVE  MtReveal(rows, top, m) <= MtEnd(rows)
<1> DEFINE i == MtIndex(rows, m)
           c == MtCount(rows)
<1>1. i \in Nat /\ c \in Nat /\ i < c
  BY DEF MtHas, MtIndex, MtCount
<1>2. MtReveal(rows, top, m) = IF i < top THEN i ELSE IF i >= top + MtView THEN i - MtView + 1 ELSE top
  BY DEF MtReveal
<1>3. MtEnd(rows) = IF c > MtView THEN c - MtView ELSE 0
  BY DEF MtEnd
<1> HIDE DEF i, c
<1>4. MtView \in Nat
  BY MtConstants
<1> QED BY <1>1, <1>2, <1>3, <1>4

LEMMA MtScrolls ==
    ASSUME NEW top, MtScrolled(top), mtAuto \in BOOLEAN
    PROVE  mtTop' = top /\ mtAuto' \in BOOLEAN
BY DEF MtScrolled

LEMMA MtPickFits ==
    ASSUME MtInv, MtBounds, NEW m \in Nat, MtPick(m)
    PROVE  mtTop' <= MtEnd(mtRows) /\ mtAuto' \in BOOLEAN
<1>1. CASE mtTop' = mtTop /\ mtAuto' = mtAuto
  BY <1>1 DEF MtBounds
<1>2. CASE MtHas(mtRows, m) /\ MtScrolled(MtReveal(mtRows, mtTop, m))
  BY <1>2, MtScrolls, MtRevealFits DEF MtInv, MtBounds
<1> QED BY <1>1, <1>2 DEF MtPick

LEMMA MtArriveFits ==
    ASSUME MtInv, MtBounds, NEW n \in 1 .. MtCap, MtArrive(n)
    PROVE  MtBounds'
<1> DEFINE new == mtRows.new + n
           first == IF new > MtCap THEN new - MtCap + 1 ELSE 1
<1>1. /\ mtRows.old \in Nat /\ first \in Nat /\ mtRows.new \in Nat /\ mtTop \in Nat /\ n \in Nat /\ new \in Nat
      /\ mtRows.old <= mtRows.new + 1 /\ 1 <= mtRows.old /\ MtCap \in Nat /\ mtRows.new <= new /\ first <= new + 1
      /\ 1 <= first /\ new < first + MtCap
  BY MtConstants DEF MtInv, MtBounds
<1>2. mtRows' = [new |-> new, old |-> Max({mtRows.old, first})] /\ new <= MtMax /\ mtMode = "realtime"
      /\ UNCHANGED <<mtMode, mtFocused>>
  BY DEF MtArrive
<1>3. mtRows'.new = new /\ mtRows'.old = Max({mtRows.old, first})
  BY <1>2
<1> HIDE DEF first
<1>4. mtRows'.old = IF mtRows.old >= first THEN mtRows.old ELSE first
  BY <1>1, <1>3, MtMaxIs
<1>5. mtRows'.old \in Nat /\ 1 <= mtRows'.old /\ mtRows'.old <= mtRows'.new + 1 /\ mtRows'.new < mtRows'.old + MtCap
  BY <1>1, <1>3, <1>4
<1>6. mtRows'.new \in Nat /\ mtRows'.new <= MtMax
  BY <1>1, <1>2, <1>3
<1> DEFINE top == MtTopAfter(mtRows', n)
<1>7. top \in Nat /\ top <= MtEnd(mtRows')
  <2>1. MtEnd(mtRows') \in Nat /\ \A t \in Nat : MtClamp(mtRows', t) <= MtEnd(mtRows')
    BY <1>5, <1>6, MtEndIs
  <2>2. top = 0 \/ top = MtClamp(mtRows', mtTop + n) \/ top = MtClamp(mtRows', mtTop)
    BY DEF MtTopAfter
  <2>3. mtTop + n \in Nat
    BY <1>1
  <2>4. top \in Nat
    BY MtArriveDoes
  <2> QED BY <1>1, <2>1, <2>2, <2>3, <2>4
<1>8. \/ MtScrolled(top)
      \/ MtHas(mtRows', mtPicked.id) /\ MtScrolled(MtReveal(mtRows', top, mtPicked.id))
  BY DEF MtArrive
<1> HIDE DEF top
<1>9. mtTop' <= MtEnd(mtRows') /\ mtAuto' \in BOOLEAN
  <2>1. CASE MtScrolled(top)
    BY <1>7, <2>1, MtScrolls DEF MtBounds
  <2>2. CASE MtHas(mtRows', mtPicked.id) /\ MtScrolled(MtReveal(mtRows', top, mtPicked.id))
    <3>1. mtPicked.id \in Nat
      BY DEF MtInv
    <3>2. MtReveal(mtRows', top, mtPicked.id) <= MtEnd(mtRows')
      BY <1>5, <1>6, <1>7, <2>2, <3>1, MtRevealFits
    <3> QED BY <2>2, <3>2, MtScrolls DEF MtBounds
  <2> QED BY <1>8, <2>1, <2>2
<1> QED BY <1>2, <1>5, <1>6, <1>9 DEF MtBounds

LEMMA MtFocusFits ==
    ASSUME MtInv, MtBounds, NEW key \in DOMAIN MtKeys, MtMoveFocus(key)
    PROVE  mtTop' <= MtEnd(mtRows) /\ mtAuto' \in BOOLEAN /\ mtFocused' <= MtMax
<1>1. MtCount(mtRows) \in Nat /\ MtCount(mtRows) > 0 /\ mtRows.new \in Nat /\ mtRows.old \in Nat /\ mtTop \in Nat
  BY MtCounts DEF MtInv, MtMoveFocus
<1>2. MtFocusIndex \in Nat
  BY MtHere DEF MtFocusIndex, MtInv
<1>3. MtKeys[key] \in Nat
  BY <1>1, <1>2, MtConstants DEF MtKeys
<1> DEFINE i == Min({MtKeys[key], MtCount(mtRows) - 1})
<1>4. i \in Nat /\ i <= MtCount(mtRows) - 1
  BY <1>1, <1>3, MtMinIs
<1>5. MtScrolled(MtReveal(mtRows, mtTop, mtRows.new - i)) /\ mtFocused' = mtRows.new - i
  BY DEF MtMoveFocus
<1> HIDE DEF i
<1>6. mtRows.new - i \in Nat /\ MtHas(mtRows, mtRows.new - i) /\ mtRows.new - i <= mtRows.new
  BY <1>1, <1>4 DEF MtHas, MtCount
<1>7. MtReveal(mtRows, mtTop, mtRows.new - i) <= MtEnd(mtRows)
  BY <1>1, <1>6, MtRevealFits DEF MtBounds
<1>8. mtFocused' <= MtMax
  BY <1>1, <1>5, <1>6, MtConstants DEF MtBounds
<1> QED BY <1>5, <1>7, <1>8, MtScrolls DEF MtBounds

LEMMA MtBoundsStep == MtInv /\ MtBounds /\ [MtNext]_mtVars => MtBounds'
<1> SUFFICES ASSUME MtInv, MtBounds, [MtNext]_mtVars PROVE MtBounds'
  OBVIOUS
<1>0. mtRows.new \in Nat /\ mtRows.old \in Nat /\ MtEnd(mtRows) \in Nat /\ MtMax \in Nat /\ mtAuto \in BOOLEAN
      /\ mtFocused \in Nat
  BY MtEndIs, MtConstants DEF MtInv, MtBounds
<1>1. CASE \E n \in 1 .. MtCap : MtArrive(n)
  BY <1>1, MtArriveFits
<1>2. CASE MtClear
  <2>1. mtRows' = [mtRows EXCEPT !.old = mtRows.new + 1] /\ MtScrolled(0) /\ UNCHANGED <<mtMode, mtFocused>>
    BY <1>2 DEF MtClear
  <2>2. mtRows'.new = mtRows.new /\ mtRows'.old = mtRows.new + 1
    BY <2>1 DEF MtInv
  <2>3. MtEnd(mtRows') \in Nat
    BY <1>0, <2>2, MtEndIs
  <2>4. mtTop' = 0 /\ mtAuto' \in BOOLEAN
    BY <1>0, <2>1, MtScrolls
  <2>5. 1 <= mtRows'.old /\ mtRows'.old <= mtRows'.new + 1 /\ mtRows'.new < mtRows'.old + MtCap
    BY <1>0, <2>2, MtConstants
  <2> QED BY <2>1, <2>2, <2>3, <2>4, <2>5 DEF MtBounds
<1>3. ASSUME UNCHANGED <<mtMode, mtRows>>, mtTop' <= MtEnd(mtRows), mtAuto' \in BOOLEAN, mtFocused' <= MtMax PROVE MtBounds'
  BY <1>3 DEF MtBounds
<1>4. ASSUME NEW top \in 0 .. MtMax, MtScroll(top) PROVE MtBounds'
  <2>1. top \in Nat /\ top <= MtClamp(mtRows, top) /\ MtScrolled(top) /\ UNCHANGED <<mtMode, mtRows, mtFocused>>
    BY <1>0, <1>4 DEF MtScroll
  <2>2. top <= MtEnd(mtRows)
    BY <1>0, <2>1, MtEndIs
  <2> QED BY <1>0, <1>3, <2>1, <2>2, MtScrolls DEF MtBounds
<1>5. CASE MtScrollToTop
  <2>1. mtTop' = 0 /\ mtAuto' \in BOOLEAN /\ UNCHANGED <<mtMode, mtRows, mtFocused>>
    BY <1>0, <1>5, MtScrolls DEF MtScrollToTop
  <2>2. 0 <= MtEnd(mtRows)
    BY <1>0
  <2> QED BY <1>3, <2>1, <2>2 DEF MtBounds
<1>6. ASSUME NEW m \in MtIds \cup {0}, MtSelected(m) \/ MtActivate(m) PROVE MtBounds'
  <2>1. m \in Nat /\ m <= MtMax
    BY <1>0 DEF MtIds
  <2>2. MtPick(m) /\ UNCHANGED <<mtMode, mtRows>> /\ (mtFocused' = mtFocused \/ mtFocused' = m)
    BY <1>6 DEF MtSelected, MtActivate
  <2> QED BY <1>3, <2>1, <2>2, MtPickFits DEF MtBounds
<1>7. ASSUME NEW key \in DOMAIN MtKeys, MtMoveFocus(key) PROVE MtBounds'
  <2>1. UNCHANGED <<mtMode, mtRows>>
    BY <1>7 DEF MtMoveFocus
  <2> QED BY <1>3, <1>7, <2>1, MtFocusFits
<1>8. ASSUME NEW m \in MtIds, MtFocus(m) PROVE MtBounds'
  <2>1. UNCHANGED <<mtMode, mtRows, mtTop, mtAuto>> /\ mtFocused' = m /\ m <= MtMax
    BY <1>0, <1>8 DEF MtFocus, MtIds
  <2> QED BY <1>3, <2>1 DEF MtBounds
<1>9. CASE UNCHANGED <<mtMode, mtRows, mtTop, mtAuto, mtFocused>>
  BY <1>3, <1>9 DEF MtBounds
<1> QED
  BY <1>1, <1>2, <1>4, <1>5, <1>6, <1>7, <1>8, <1>9 DEF MtNext, mtVars, MtBookmark

\* Every reachable state of the table of messages has its type (MessageVirtualTable).
THEOREM MtTypeCorrect == MtSpec => []MtTypeOK
<1>1. MtInit => MtBounds
  <2> SUFFICES ASSUME MtInit PROVE MtBounds
    OBVIOUS
  <2>1. mtRows.new \in Nat /\ mtRows.old = 1 /\ (mtMode = "history" => mtRows.new = MtMax) /\ (mtMode = "realtime" => mtRows.new = 0)
    BY MtConstants DEF MtInit
  <2>2. MtEnd(mtRows) \in Nat
    BY <2>1, MtEndIs
  <2> QED BY <2>1, <2>2, MtConstants DEF MtInit, MtBounds
<1>2. MtInv /\ MtBounds => MtTypeOK
  <2> SUFFICES ASSUME MtInv, MtBounds PROVE MtTypeOK
    OBVIOUS
  <2>1. /\ mtRows.new \in Nat /\ mtRows.old \in Nat /\ mtTop \in Nat /\ MtMax \in Nat /\ MtCap \in Nat /\ MtView \in Nat
        /\ mtRows.new <= MtMax /\ 1 <= mtRows.old /\ (mtMode = "realtime" => mtRows.new < mtRows.old + MtCap)
        /\ mtTop <= MtEnd(mtRows)
    BY MtConstants DEF MtInv, MtBounds
  <2>2. MtCount(mtRows) <= MtMax /\ (mtMode = "realtime" => MtCount(mtRows) <= MtCap) /\ MtCount(mtRows) \in Nat
    BY <2>1 DEF MtCount
  <2>3. MtEnd(mtRows) <= MtCount(mtRows)
    BY <2>1, <2>2 DEF MtEnd
  <2>4. mtTop \in 0 .. MtMax
    <3>1. MtEnd(mtRows) \in Nat
      BY <2>1, MtEndIs
    <3> QED BY <2>1, <2>2, <2>3, <3>1
  <2>5. mtTop <= MtClamp(mtRows, mtTop)
    BY <2>1, MtEndIs
  <2>6. mtFocused \in MtIds \cup {0}
    BY <2>1 DEF MtInv, MtBounds, MtIds
  <2> QED BY <2>2, <2>4, <2>5, <2>6 DEF MtTypeOK, MtBounds
<1> QED BY <1>1, <1>2, MtInvariant, MtBoundsStep, PTL DEF MtSpec

---------------------------------------------------------------------------
(*************************************************************************)
(* The key list and its watch: a list that is followed is true.          *)
(*************************************************************************)

\* The function that FoldLeft reads its result from, on the first n changes.
KwFolds(g, list, frames, n) ==
    g = [s \in SUBSET (1 .. n) |-> IF s = {} THEN list ELSE KwApply(g[s \ {Max(s)}], frames[Max(s)])]

LEMMA KwGreatest ==
    ASSUME NEW n \in Nat, NEW s \in SUBSET (1 .. n), s # {}
    PROVE  Max(s) \in s /\ \A m \in s : m <= Max(s)
<1>1. \E x \in s : \A y \in s : x >= y
  BY GreatestOf
<1> QED BY <1>1 DEF Max

LEMMA KwFoldsNone == \A list, frames : \E g : KwFolds(g, list, frames, 0)
<1> TAKE list, frames
<1> DEFINE g == [s \in SUBSET (1 .. 0) |-> list]
<1>1. \A s \in SUBSET (1 .. 0) : s = {}
  OBVIOUS
<1>2. KwFolds(g, list, frames, 0)
  BY <1>1 DEF KwFolds
<1> QED BY <1>2

LEMMA KwFoldsOneMore ==
    ASSUME NEW list, NEW frames, NEW n \in Nat, NEW g, KwFolds(g, list, frames, n)
    PROVE  \E h : KwFolds(h, list, frames, n + 1)
<1> DEFINE h == [s \in SUBSET (1 .. (n + 1)) |->
                    IF n + 1 \in s THEN KwApply(g[s \ {n + 1}], frames[n + 1]) ELSE g[s]]
<1>1. ASSUME NEW s \in SUBSET (1 .. (n + 1)), n + 1 \in s
      PROVE  Max(s) = n + 1 /\ s # {} /\ s \ {n + 1} \in SUBSET (1 .. n) /\ h[s \ {n + 1}] = g[s \ {n + 1}]
             /\ h[s] = KwApply(g[s \ {n + 1}], frames[n + 1])
  <2>1. n + 1 \in Nat /\ s # {}
    BY <1>1
  <2>2. Max(s) \in s /\ n + 1 <= Max(s)
    BY <1>1, <2>1, KwGreatest
  <2>3. Max(s) \in 1 .. (n + 1)
    BY <2>2
  <2>4. Max(s) = n + 1
    BY <2>2, <2>3
  <2>5. s \ {n + 1} \in SUBSET (1 .. n) /\ s \ {n + 1} \in SUBSET (1 .. (n + 1))
    BY <1>1
  <2> QED BY <1>1, <2>1, <2>4, <2>5
<1>2. ASSUME NEW s \in SUBSET (1 .. n)
      PROVE  s \in SUBSET (1 .. (n + 1)) /\ n + 1 \notin s /\ h[s] = g[s]
  OBVIOUS
<1>3. ASSUME NEW s \in SUBSET (1 .. n)
      PROVE  g[s] = IF s = {} THEN list ELSE KwApply(g[s \ {Max(s)}], frames[Max(s)])
  BY DEF KwFolds
<1>4. ASSUME NEW s \in SUBSET (1 .. (n + 1))
      PROVE  h[s] = IF s = {} THEN list ELSE KwApply(h[s \ {Max(s)}], frames[Max(s)])
  <2> HIDE DEF h
  <2>1. CASE n + 1 \in s
    BY <1>1, <2>1
  <2>2. CASE n + 1 \notin s
    <3>1. s \in SUBSET (1 .. n)
      BY <2>2
    <3>2. s \ {Max(s)} \in SUBSET (1 .. n)
      BY <3>1
    <3> QED BY <1>2, <1>3, <3>1, <3>2
  <2> QED BY <2>1, <2>2
<1>5. h = [s \in SUBSET (1 .. (n + 1)) |-> h[s]]
  OBVIOUS
<1>6. KwFolds(h, list, frames, n + 1)
  <2> HIDE DEF h
  <2> QED BY <1>4, <1>5 DEF KwFolds
<1> QED BY <1>6

LEMMA KwFoldsAll ==
    ASSUME NEW list, NEW frames, NEW N \in Nat
    PROVE  \E g : KwFolds(g, list, frames, N)
<1> DEFINE bad == {n \in 1 .. N : ~\E g : KwFolds(g, list, frames, n)}
<1> SUFFICES ASSUME bad # {} PROVE FALSE
  BY KwFoldsNone
<1>1. PICK n \in bad : \A m \in bad : n <= m
  BY LeastOf
<1>2. n - 1 \in Nat /\ (n - 1 = 0 \/ n - 1 \in 1 .. N) /\ ~(n <= n - 1) /\ n = (n - 1) + 1
  BY <1>1
<1>3. PICK g : KwFolds(g, list, frames, n - 1)
  BY <1>1, <1>2, KwFoldsNone
<1>4. \E h : KwFolds(h, list, frames, n)
  BY <1>2, <1>3, KwFoldsOneMore
<1> QED BY <1>1, <1>4

LEMMA KwFoldLeft ==
    ASSUME NEW list, NEW C, NEW frames \in Seq(C)
    PROVE  \E g : KwFolds(g, list, frames, Len(frames)) /\ FoldLeft(KwApply, list, frames) = g[1 .. Len(frames)]
<1>1. DOMAIN frames = 1 .. Len(frames) /\ Len(frames) \in Nat
  OBVIOUS
<1> DEFINE g == CHOOSE g : KwFolds(g, list, frames, Len(frames))
<1>2. KwFolds(g, list, frames, Len(frames))
  BY <1>1, KwFoldsAll
<1>3. FoldLeft(KwApply, list, frames) = g[1 .. Len(frames)]
  BY <1>1 DEF FoldLeft, MapThenFoldSet, KwFolds
<1> QED BY <1>2, <1>3

KwLists == [of : SUBSET KwKeys, keys : SUBSET KwKeys, truncated : BOOLEAN]
KwChanges == [op : {"put", "delete"}, key : KwKeys]

\* The last of the first n changes of a key, and a key none of them is of.
KwLast(frames, n, i, k) == i <= n /\ frames[i].key = k /\ \A j \in (i + 1) .. n : frames[j].key # k
KwUntouched(frames, n, k) == \A j \in 1 .. n : frames[j].key # k

\* What the first n changes make of a list: a key is as its last change says,
\* unless there was no room for it, and one without a change is as it was.
KwFollows(result, list, frames, n) ==
    /\ result \in KwLists /\ result.of = list.of /\ (list.truncated => result.truncated)
    /\ \A k \in KwKeys : KwUntouched(frames, n, k) => (k \in result.keys <=> k \in list.keys)
    /\ \A k \in KwKeys, i \in 1 .. n : KwLast(frames, n, i, k) =>
          /\ frames[i].op = "delete" => k \notin result.keys
          /\ frames[i].op = "put" => k \in result.keys \/ result.truncated

LEMMA KwApplies ==
    ASSUME NEW list \in KwLists, NEW c \in KwChanges
    PROVE  /\ KwApply(list, c) \in KwLists /\ KwApply(list, c).of = list.of /\ (list.truncated => KwApply(list, c).truncated)
           /\ \A k \in KwKeys \ {c.key} : k \in KwApply(list, c).keys <=> k \in list.keys
           /\ c.op = "delete" => c.key \notin KwApply(list, c).keys
           /\ c.op = "put" => c.key \in KwApply(list, c).keys \/ KwApply(list, c).truncated
<1>1. CASE KwApply(list, c) = [list EXCEPT !.keys = @ \ {c.key}] /\ c.op # "put"
  BY <1>1 DEF KwLists, KwChanges
<1>2. CASE KwApply(list, c) = list /\ c.key \in list.keys /\ c.op = "put"
  BY <1>2 DEF KwLists, KwChanges
<1>3. CASE KwApply(list, c) = [list EXCEPT !.truncated = TRUE] /\ c.op = "put"
  BY <1>3 DEF KwLists, KwChanges
<1>4. CASE KwApply(list, c) = [list EXCEPT !.keys = @ \cup {c.key}] /\ c.op = "put"
  BY <1>4 DEF KwLists, KwChanges
<1> QED BY <1>1, <1>2, <1>3, <1>4 DEF KwApply

LEMMA KwFollowsOneMore ==
    ASSUME NEW list \in KwLists, NEW frames \in Seq(KwChanges), NEW n \in Nat, n + 1 \in 1 .. Len(frames),
           NEW result, KwFollows(result, list, frames, n)
    PROVE  KwFollows(KwApply(result, frames[n + 1]), list, frames, n + 1)
<1> DEFINE c == frames[n + 1]
           r == KwApply(result, frames[n + 1])
<1>1. c \in KwChanges /\ result \in KwLists
  BY DEF KwFollows
<1>2. /\ r \in KwLists /\ r.of = result.of /\ (result.truncated => r.truncated)
      /\ \A k \in KwKeys \ {c.key} : k \in r.keys <=> k \in result.keys
      /\ c.op = "delete" => c.key \notin r.keys
      /\ c.op = "put" => c.key \in r.keys \/ r.truncated
  BY <1>1, KwApplies
<1> HIDE DEF r
<1>3. r.of = list.of /\ (list.truncated => r.truncated)
  BY <1>2 DEF KwFollows
<1>4. ASSUME NEW k \in KwKeys, KwUntouched(frames, n + 1, k) PROVE k \in r.keys <=> k \in list.keys
  <2>1. KwUntouched(frames, n, k) /\ c.key # k
    BY <1>4 DEF KwUntouched
  <2> QED BY <1>2, <2>1 DEF KwFollows
<1>5. ASSUME NEW k \in KwKeys, NEW i \in 1 .. (n + 1), KwLast(frames, n + 1, i, k)
      PROVE  /\ frames[i].op = "delete" => k \notin r.keys
             /\ frames[i].op = "put" => k \in r.keys \/ r.truncated
  <2>1. CASE i = n + 1
    <3>1. c.key = k
      BY <1>5, <2>1 DEF KwLast
    <3> QED BY <1>2, <2>1, <3>1
  <2>2. CASE i # n + 1
    <3>1. i \in 1 .. n /\ n + 1 \in (i + 1) .. (n + 1)
      BY <2>2
    <3>2. KwLast(frames, n, i, k) /\ c.key # k
      BY <1>5, <3>1 DEF KwLast
    <3> QED BY <1>2, <3>1, <3>2 DEF KwFollows
  <2> QED BY <2>1, <2>2
<1> QED BY <1>2, <1>3, <1>4, <1>5 DEF KwFollows, r

\* What a frame's changes make of the list.
LEMMA KwFrameFollows ==
    ASSUME NEW list \in KwLists, NEW frames \in Seq(KwChanges)
    PROVE  KwFollows(FoldLeft(KwApply, list, frames), list, frames, Len(frames))
<1> DEFINE N == Len(frames)
<1>1. N \in Nat
  OBVIOUS
<1>2. PICK g : KwFolds(g, list, frames, N) /\ FoldLeft(KwApply, list, frames) = g[1 .. N]
  BY KwFoldLeft
<1>3. \A s \in SUBSET (1 .. N) : g[s] = IF s = {} THEN list ELSE KwApply(g[s \ {Max(s)}], frames[Max(s)])
  BY <1>2 DEF KwFolds
<1>4. KwFollows(g[1 .. 0], list, frames, 0)
  <2>1. 1 .. 0 = {} /\ {} \in SUBSET (1 .. N)
    OBVIOUS
  <2>2. g[1 .. 0] = list
    BY <1>3, <2>1
  <2> QED BY <2>2 DEF KwFollows, KwUntouched, KwLast
<1>5. ASSUME NEW n \in Nat, n + 1 \in 1 .. N, KwFollows(g[1 .. n], list, frames, n)
      PROVE  KwFollows(g[1 .. (n + 1)], list, frames, n + 1)
  <2>1. 1 .. (n + 1) \in SUBSET (1 .. N) /\ 1 .. (n + 1) # {} /\ n + 1 \in Nat
    BY <1>1, <1>5
  <2>2. Max(1 .. (n + 1)) \in 1 .. (n + 1) /\ n + 1 <= Max(1 .. (n + 1))
    <3>1. n + 1 \in 1 .. (n + 1) /\ 1 .. (n + 1) \in SUBSET (1 .. (n + 1))
      BY <1>5
    <3> QED BY <2>1, <3>1, KwGreatest
  <2>3. Max(1 .. (n + 1)) = n + 1
    BY <2>2
  <2>4. (1 .. (n + 1)) \ {n + 1} = 1 .. n
    BY <1>5
  <2>5. g[1 .. (n + 1)] = KwApply(g[1 .. n], frames[n + 1])
    BY <1>3, <2>1, <2>3, <2>4
  <2> QED BY <1>5, <2>5, KwFollowsOneMore
<1> DEFINE bad == {n \in 1 .. N : ~KwFollows(g[1 .. n], list, frames, n)}
<1> HIDE DEF N
<1>6. bad = {}
  <2> SUFFICES ASSUME bad # {} PROVE FALSE
    OBVIOUS
  <2>1. PICK n \in bad : \A m \in bad : n <= m
    BY <1>1, LeastOf
  <2>2. n - 1 \in Nat /\ (n - 1 = 0 \/ n - 1 \in 1 .. N) /\ ~(n <= n - 1) /\ n = (n - 1) + 1 /\ n \in 1 .. N
    BY <1>1, <2>1
  <2>3. KwFollows(g[1 .. (n - 1)], list, frames, n - 1)
    <3>1. CASE n - 1 = 0
      BY <1>4, <3>1
    <3>2. CASE n - 1 \in 1 .. N
      BY <2>1, <2>2, <3>2
    <3> QED BY <2>2, <3>1, <3>2
  <2>4. KwFollows(g[1 .. n], list, frames, n)
    BY <1>5, <2>2, <2>3
  <2> QED BY <2>1, <2>4
<1>7. KwFollows(g[1 .. N], list, frames, N)
  <2>1. CASE N = 0
    BY <1>4, <2>1
  <2>2. CASE N # 0
    <3>1. N \in 1 .. N
      BY <1>1, <2>2
    <3> QED BY <1>6, <3>1
  <2> QED BY <2>1, <2>2
<1> QED BY <1>2, <1>7 DEF N

KwTypes ==
    /\ kwHeld \in SUBSET KwKeys /\ kwList \in KwLists /\ kwFetch \in KwLists /\ kwPattern \in KwPatterns
    /\ kwFrames \in Seq(KwChanges) /\ "status" \in DOMAIN kwWatch

\* A watch that runs reports the changes of the keys it is of, to the last.
KwFramesInv ==
    /\ kwWatch.status \notin {"live", "offline"} => kwFrames = <<>>
    /\ \A i \in 1 .. Len(kwFrames) : kwFrames[i].key \in kwPattern
    /\ \A k \in KwKeys, i \in 1 .. Len(kwFrames) :
          KwLast(kwFrames, Len(kwFrames), i, k) => (kwFrames[i].op = "put" <=> k \in kwHeld)

\* Of the keys no report is on its way of, the list has those the bucket holds.
KwCurrent(list) ==
    /\ list.of = kwPattern /\ list.keys \subseteq kwPattern
    /\ \A k \in KwKeys : KwUntouched(kwFrames, Len(kwFrames), k) =>
          /\ k \in list.keys => k \in kwHeld
          /\ k \in kwHeld \cap kwPattern /\ ~list.truncated => k \in list.keys

KwListInv ==
    kwWatch.status \in {"live", "offline"} /\ ~kwRaced =>
        /\ kwFetch = KwNoFetch => KwCurrent(kwList)
        /\ kwFetch # KwNoFetch => KwCurrent(kwFetch)

KwInv == KwTypes /\ KwFramesInv /\ KwListInv

LEMMA KwPatternIs ==
    ASSUME NEW pattern \in KwPatterns
    PROVE  pattern \in SUBSET KwKeys /\ pattern # {}
BY KwAssumption DEF KwAssumption, KwPatterns

LEMMA KwAnswerIs ==
    ASSUME KwTypes, NEW pattern \in KwPatterns, NEW l \in KwAnswers(pattern)
    PROVE  /\ l \in KwLists /\ l.of = pattern /\ l # KwNoFetch /\ l.keys \subseteq kwHeld \cap pattern
           /\ ~l.truncated => l.keys = kwHeld \cap pattern
<1> DEFINE keys == kwHeld \cap pattern
           whole == Cardinality(keys) <= KwListLimit
<1>1. PICK some \in IF whole THEN {keys} ELSE kSubset(KwListLimit, keys) : l = [of |-> pattern, keys |-> some, truncated |-> ~whole]
  BY DEF KwAnswers
<1>2. some \subseteq keys /\ (whole => some = keys)
  <2>1. CASE whole
    BY <1>1, <2>1
  <2>2. CASE ~whole
    BY <1>1, <2>2 DEF kSubset
  <2> QED BY <2>1, <2>2
<1>3. pattern \in SUBSET KwKeys /\ pattern # {}
  BY KwPatternIs
<1>4. l.of = pattern /\ l.keys = some /\ l.truncated = ~whole
  BY <1>1
<1>5. keys \in SUBSET KwKeys /\ keys \subseteq kwHeld \cap pattern
  BY <1>3
<1>6. l \in KwLists
  <2>1. PICK b \in BOOLEAN : b = ~whole
    OBVIOUS
  <2> HIDE DEF whole
  <2> QED BY <1>1, <1>2, <1>3, <1>5, <2>1 DEF KwLists
<1>7. l # KwNoFetch
  BY <1>3, <1>4 DEF KwNoFetch
<1> HIDE DEF whole
<1> QED BY <1>2, <1>4, <1>5, <1>6, <1>7

\* What a bucket that does not change and frames that do not change leave true.
LEMMA KwStays ==
    ASSUME KwInv, UNCHANGED <<kwHeld, kwPattern>>, kwList' \in KwLists, kwFetch' \in KwLists,
           "status" \in DOMAIN kwWatch', kwFrames' = <<>> \/ UNCHANGED <<kwFrames, kwRaced>>,
           kwWatch'.status \in {"live", "offline"} =>
               /\ kwWatch.status \in {"live", "offline"} /\ UNCHANGED <<kwFrames, kwRaced>>
               /\ kwFetch' = KwNoFetch => kwList' = IF kwFetch = KwNoFetch THEN kwList ELSE kwFetch
               /\ kwFetch' # KwNoFetch => kwFetch' = kwFetch \/ kwFetch' \in KwAnswers(kwPattern),
           kwWatch'.status \notin {"live", "offline"} => kwFrames' = <<>>
    PROVE  KwInv'
<1>1. KwTypes'
  <2>1. <<>> \in Seq(KwChanges)
    OBVIOUS
  <2>2. kwFrames' \in Seq(KwChanges)
    BY <2>1 DEF KwInv, KwTypes
  <2> QED BY <2>2 DEF KwInv, KwTypes
<1>2. KwFramesInv'
  BY DEF KwInv, KwFramesInv, KwLast
<1>3. ASSUME kwWatch'.status \in {"live", "offline"}, ~kwRaced'
      PROVE  /\ kwFetch' = KwNoFetch => KwCurrent(kwList)'
             /\ kwFetch' # KwNoFetch => KwCurrent(kwFetch)'
  <2>1. /\ UNCHANGED kwFrames
        /\ kwFetch = KwNoFetch => KwCurrent(kwList)
        /\ kwFetch # KwNoFetch => KwCurrent(kwFetch)
    BY <1>3 DEF KwInv, KwListInv
  <2>2. \A l : KwCurrent(l) => KwCurrent(l)'
    BY <2>1 DEF KwCurrent
  <2>3. \A l \in KwAnswers(kwPattern) : KwCurrent(l)
    BY KwAnswerIs DEF KwInv, KwTypes, KwCurrent
  <2>4. CASE kwFetch' = KwNoFetch
    <3>1. KwCurrent(kwList')
      BY <1>3, <2>1, <2>4
    <3> QED BY <2>1, <2>4, <3>1 DEF KwCurrent
  <2>5. CASE kwFetch' # KwNoFetch
    <3>1. KwCurrent(kwFetch')
      BY <1>3, <2>1, <2>3, <2>5
    <3> QED BY <2>1, <2>5, <3>1 DEF KwCurrent
  <2> QED BY <2>4, <2>5
<1> QED BY <1>1, <1>2, <1>3 DEF KwInv, KwListInv

\* A change is reported to a watch of its key.
LEMMA KwWriteKeeps ==
    ASSUME KwInv, NEW op \in {"put", "delete"}, NEW k \in KwKeys, KwWrite(op, k)
    PROVE  KwInv'
<1>1. /\ UNCHANGED <<kwList, kwFetch, kwWatch, kwPattern, kwRaced>>
      /\ kwHeld' = IF op = "put" THEN kwHeld \cup {k} ELSE kwHeld \ {k}
  BY DEF KwWrite
<1>2. /\ kwHeld' \in SUBSET KwKeys /\ (k \in kwHeld' <=> op = "put")
      /\ \A m \in KwKeys \ {k} : m \in kwHeld' <=> m \in kwHeld
  BY <1>1 DEF KwInv, KwTypes
<1>3. CASE kwFrames' = kwFrames /\ (kwWatch.status \in {"live", "offline"} => k \notin kwPattern)
  <2>1. KwTypes'
    BY <1>1, <1>2, <1>3 DEF KwInv, KwTypes
  <2>2. kwWatch.status \notin {"live", "offline"} => kwFrames = <<>>
    BY DEF KwInv, KwFramesInv
  <2>3. \A i \in 1 .. Len(kwFrames) : kwFrames[i].key \in kwPattern /\ kwFrames[i].key # k
    BY <1>3, <2>2 DEF KwInv, KwFramesInv
  <2>4. KwFramesInv'
    <3>1. ASSUME NEW m \in KwKeys, NEW i \in 1 .. Len(kwFrames), KwLast(kwFrames, Len(kwFrames), i, m)
          PROVE  kwFrames[i].op = "put" <=> m \in kwHeld'
      <4>1. m # k
        BY <2>3, <3>1 DEF KwLast
      <4> QED BY <1>2, <3>1, <4>1 DEF KwInv, KwFramesInv
    <3> QED BY <1>1, <1>3, <2>2, <2>3, <3>1 DEF KwFramesInv, KwLast
  <2>5. ASSUME NEW l, KwCurrent(l), kwWatch.status \in {"live", "offline"} PROVE KwCurrent(l)'
    BY <1>1, <1>2, <1>3, <2>5 DEF KwCurrent
  <2>6. KwListInv'
    BY <1>1, <2>5 DEF KwInv, KwListInv
  <2> QED BY <2>1, <2>4, <2>6 DEF KwInv
<1>4. CASE kwFrames' = Append(kwFrames, [op |-> op, key |-> k]) /\ k \in kwPattern /\ kwWatch.status \in {"live", "offline"}
  <2> DEFINE c == [op |-> op, key |-> k]
             n == Len(kwFrames)
  <2>1. c \in KwChanges /\ kwFrames \in Seq(KwChanges) /\ c.key = k /\ c.op = op
    BY DEF KwChanges, KwInv, KwTypes
  <2> HIDE DEF c
  <2>2. kwFrames' = Append(kwFrames, c) /\ n \in Nat
    BY <1>4, <2>1 DEF c
  <2>3. kwFrames' \in Seq(KwChanges) /\ Len(kwFrames') = n + 1 /\ kwFrames'[n + 1] = c /\ \A i \in 1 .. n : kwFrames'[i] = kwFrames[i]
    BY <2>1, <2>2
  <2>4. KwTypes'
    BY <1>1, <1>2, <2>3 DEF KwInv, KwTypes
  <2> HIDE DEF n
  <2>5. \A i \in 1 .. (n + 1) : kwFrames'[i].key \in kwPattern
    <3>1. \A i \in 1 .. n : kwFrames[i].key \in kwPattern
      BY DEF n, KwInv, KwFramesInv
    <3>2. \A i \in 1 .. (n + 1) : i = n + 1 \/ i \in 1 .. n
      BY <2>2
    <3> QED BY <1>4, <2>1, <2>3, <3>1, <3>2
  <2>6. ASSUME NEW m \in KwKeys, NEW i \in 1 .. (n + 1), KwLast(kwFrames', n + 1, i, m)
        PROVE  kwFrames'[i].op = "put" <=> m \in kwHeld'
    <3>1. CASE i = n + 1
      <4>1. m = k
        BY <2>1, <2>3, <2>6, <3>1 DEF KwLast
      <4> QED BY <1>2, <2>1, <2>3, <3>1, <4>1
    <3>2. CASE i # n + 1
      <4>1. i \in 1 .. n /\ n + 1 \in (i + 1) .. (n + 1) /\ \A j \in (i + 1) .. n : j \in (i + 1) .. (n + 1) /\ j \in 1 .. n
        BY <2>2, <3>2
      <4>2. m # k /\ KwLast(kwFrames, n, i, m)
        BY <2>1, <2>3, <2>6, <4>1 DEF KwLast
      <4>3. kwFrames[i].op = "put" <=> m \in kwHeld
        BY <4>1, <4>2 DEF n, KwInv, KwFramesInv
      <4> QED BY <1>2, <2>3, <4>1, <4>2, <4>3
    <3> QED BY <3>1, <3>2
  <2>7. KwFramesInv'
    BY <1>1, <1>4, <2>3, <2>5, <2>6 DEF KwFramesInv
  <2>8. ASSUME NEW l, KwCurrent(l) PROVE KwCurrent(l)'
    <3>1. ASSUME NEW m \in KwKeys, KwUntouched(kwFrames', n + 1, m) PROVE m # k /\ KwUntouched(kwFrames, n, m)
      <4>1. n + 1 \in 1 .. (n + 1) /\ \A i \in 1 .. n : i \in 1 .. (n + 1)
        BY <2>2
      <4> QED BY <2>1, <2>3, <3>1, <4>1 DEF KwUntouched
    <3> QED BY <1>1, <1>2, <2>3, <2>8, <3>1 DEF KwCurrent, n
  <2>9. KwListInv'
    BY <1>1, <2>8 DEF KwInv, KwListInv
  <2> QED BY <2>4, <2>7, <2>9 DEF KwInv
<1> QED BY <1>3, <1>4 DEF KwWrite

\* A frame brings the list up to date.
LEMMA KwFrameKeeps ==
    ASSUME KwInv, KwFrame
    PROVE  KwInv'
<1> DEFINE n == Len(kwFrames)
           list == FoldLeft(KwApply, kwList, kwFrames)
<1>1. /\ UNCHANGED <<kwHeld, kwFetch, kwPattern>> /\ kwFrames' = <<>> /\ kwWatch.status \in {"live", "offline"}
      /\ kwList' = IF kwList.of = kwPattern THEN list ELSE kwList
      /\ "status" \in DOMAIN kwWatch'
      /\ ~kwRaced' => ~kwRaced /\ (kwFetch = KwNoFetch \/ kwFrames = <<>>)
  BY DEF KwFrame, KwInv, KwTypes, kwServer
<1>2. kwFrames \in Seq(KwChanges) /\ kwList \in KwLists /\ n \in Nat /\ kwPattern \in SUBSET KwKeys
  BY KwPatternIs DEF KwInv, KwTypes
<1>3. KwFollows(list, kwList, kwFrames, n)
  BY <1>2, KwFrameFollows
<1> HIDE DEF list
<1>4. KwTypes'
  <2>1. list \in KwLists
    BY <1>3 DEF KwFollows
  <2>2. <<>> \in Seq(KwChanges)
    OBVIOUS
  <2> QED BY <1>1, <2>1, <2>2 DEF KwInv, KwTypes
<1>5. KwFramesInv'
  BY <1>1 DEF KwFramesInv
<1>6. ASSUME ~kwRaced', kwFetch # KwNoFetch PROVE KwCurrent(kwFetch)'
  <2>1. KwCurrent(kwFetch) /\ UNCHANGED kwFrames
    BY <1>1, <1>6 DEF KwInv, KwListInv
  <2> QED BY <1>1, <2>1 DEF KwCurrent
<1>7. ASSUME ~kwRaced', kwFetch = KwNoFetch PROVE KwCurrent(kwList)'
  <2>1. KwCurrent(kwList) /\ kwList' = list
    BY <1>1, <1>7 DEF KwInv, KwListInv, KwCurrent
  <2>2. ASSUME NEW k \in KwKeys, ~KwUntouched(kwFrames, n, k)
        PROVE  \E i \in 1 .. n : KwLast(kwFrames, n, i, k)
    <3> DEFINE T == {i \in 1 .. n : kwFrames[i].key = k}
    <3> HIDE DEF n
    <3>1. T # {} /\ T \in SUBSET (1 .. n)
      BY <2>2 DEF KwUntouched
    <3>2. PICK i \in T : \A j \in T : i >= j
      BY <1>2, <3>1, GreatestOf
    <3>3. \A j \in (i + 1) .. n : j \in 1 .. n /\ ~(i >= j)
      BY <1>2, <3>2
    <3> QED BY <1>2, <3>2, <3>3 DEF KwLast
  <2>3. ASSUME NEW k \in KwKeys
        PROVE  /\ k \in list.keys => k \in kwHeld /\ k \in kwPattern
               /\ k \in kwHeld \cap kwPattern /\ ~list.truncated => k \in list.keys
    <3>1. CASE KwUntouched(kwFrames, n, k)
      BY <1>3, <2>1, <3>1 DEF KwFollows, KwCurrent
    <3>2. CASE ~KwUntouched(kwFrames, n, k)
      <4>1. PICK i \in 1 .. n : KwLast(kwFrames, n, i, k)
        BY <2>2, <3>2
      <4>2. kwFrames[i] \in KwChanges
        BY <1>2
      <4>3. kwFrames[i].op \in {"put", "delete"} /\ kwFrames[i].key = k
        BY <4>1, <4>2 DEF KwChanges, KwLast
      <4>4. k \in kwPattern /\ (kwFrames[i].op = "put" <=> k \in kwHeld)
        BY <4>1, <4>3 DEF KwInv, KwFramesInv
      <4>5. /\ kwFrames[i].op = "delete" => k \notin list.keys
            /\ kwFrames[i].op = "put" => k \in list.keys \/ list.truncated
        BY <1>3, <4>1 DEF KwFollows
      <4> QED BY <4>3, <4>4, <4>5
    <3> QED BY <3>1, <3>2
  <2>4. list.of = kwPattern /\ list.keys \subseteq KwKeys
    BY <1>3, <2>1 DEF KwFollows, KwCurrent, KwLists
  <2>5. list.keys \subseteq kwPattern
    BY <2>3, <2>4
  <2> QED BY <1>1, <2>1, <2>3, <2>4, <2>5 DEF KwCurrent
<1> QED BY <1>1, <1>4, <1>5, <1>6, <1>7 DEF KwInv, KwListInv

\* What the watch starts with, and what its list is then of.
LEMMA KwWatchStartsKeeps ==
    ASSUME KwInv, NEW s \in {"live", "offline"}, KwWatchStarts(s)
    PROVE  KwInv'
<1>1. /\ UNCHANGED <<kwHeld, kwFrames, kwList, kwPattern>> /\ kwWatch.status = "starting" /\ "status" \in DOMAIN kwWatch'
      /\ kwFetch' \in KwAnswers(kwPattern)
  BY DEF KwWatchStarts, KwBeginFetch, KwInv, KwTypes, kwServer
<1>2. kwFrames = <<>>
  BY <1>1 DEF KwInv, KwFramesInv
<1>3. /\ kwFetch' \in KwLists /\ kwFetch'.of = kwPattern /\ kwFetch' # KwNoFetch /\ kwFetch'.keys \subseteq kwHeld \cap kwPattern
      /\ ~kwFetch'.truncated => kwFetch'.keys = kwHeld \cap kwPattern
  BY <1>1, KwAnswerIs DEF KwInv, KwTypes
<1>4. KwTypes'
  BY <1>1, <1>3 DEF KwInv, KwTypes
<1>5. KwFramesInv'
  BY <1>1, <1>2 DEF KwFramesInv
<1>6. KwCurrent(kwFetch)'
  BY <1>1, <1>3 DEF KwCurrent
<1> QED BY <1>3, <1>4, <1>5, <1>6 DEF KwInv, KwListInv

LEMMA KwStep == KwInv /\ [KwNext]_kwVars => KwInv'
<1> SUFFICES ASSUME KwInv, [KwNext]_kwVars PROVE KwInv'
  OBVIOUS
<1>0. /\ "status" \in DOMAIN kwWatch /\ kwList \in KwLists /\ kwFetch \in KwLists /\ kwPattern \in KwPatterns
      /\ kwWatch.status \notin {"live", "offline"} => kwFrames = <<>>
      /\ KwNoFetch \in KwLists
  <2>1. KwNoFetch \in KwLists
    BY DEF KwNoFetch, KwLists
  <2> QED BY <2>1 DEF KwInv, KwTypes, KwFramesInv
<1>1. CASE KwFetchList
  <2>1. kwFetch' \in KwLists /\ kwFetch' # KwNoFetch /\ kwFetch' \in KwAnswers(kwPattern)
    BY <1>1, KwAnswerIs DEF KwFetchList, KwBeginFetch, KwInv, KwTypes
  <2>2. UNCHANGED <<kwHeld, kwFrames, kwList, kwWatch, kwPattern, kwRaced>>
    BY <1>1 DEF KwFetchList, kwServer
  <2> QED BY <1>0, <2>1, <2>2, KwStays
<1>2. CASE KwListFetched
  <2>1. kwFetch # KwNoFetch /\ kwFetch' = KwNoFetch /\ kwList' = kwFetch
        /\ UNCHANGED <<kwHeld, kwFrames, kwWatch, kwPattern, kwRaced>>
    BY <1>2 DEF KwListFetched, kwServer
  <2> QED BY <1>0, <2>1, KwStays
<1>3. ASSUME NEW live, NEW visible, kwWatch' = KwRestarted(live, visible)
      PROVE  "status" \in DOMAIN kwWatch' /\ kwWatch'.status \notin {"live", "offline"}
  <2> DEFINE status == IF live /\ visible THEN "starting" ELSE "off"
  <2>1. kwWatch' = [kwWatch EXCEPT !.live = live, !.visible = visible, !.changes = <<>>, !.view = IF live THEN @ ELSE "keys",
                    !.status = status]
    BY <1>3 DEF KwRestarted
  <2>2. status \notin {"live", "offline"}
    OBVIOUS
  <2> HIDE DEF status
  <2> QED BY <1>0, <2>1, <2>2
<1>4. CASE KwToggleLive \/ KwTurn
  <2>1. kwFrames' = <<>> /\ UNCHANGED <<kwHeld, kwList, kwFetch, kwPattern>>
    BY <1>4 DEF KwToggleLive, KwTurn, kwServer
  <2>2. "status" \in DOMAIN kwWatch' /\ kwWatch'.status \notin {"live", "offline"}
    BY <1>3, <1>4 DEF KwToggleLive, KwTurn
  <2> QED BY <1>0, <2>1, <2>2, KwStays
<1>5. ASSUME NEW keys \in KwPatterns, KwSearchPattern(keys) PROVE KwInv'
  <2>1. kwFrames' = <<>> /\ UNCHANGED <<kwHeld, kwList>> /\ kwPattern' = keys /\ kwFetch' \in KwAnswers(keys)
    BY <1>5 DEF KwSearchPattern, KwBeginFetch, kwServer
  <2>2. "status" \in DOMAIN kwWatch' /\ kwWatch'.status \notin {"live", "offline"}
    BY <1>3, <1>5 DEF KwSearchPattern
  <2>3. kwFetch' \in KwLists
    BY <2>1, KwAnswerIs DEF KwInv
  <2>4. <<>> \in Seq(KwChanges)
    OBVIOUS
  <2>5. KwTypes'
    BY <2>1, <2>2, <2>3, <2>4 DEF KwInv, KwTypes
  <2> QED BY <2>1, <2>2, <2>5 DEF KwInv, KwFramesInv, KwListInv
<1>6. ASSUME NEW final \in BOOLEAN, KwWatchEnds(final) PROVE KwInv'
  <2> DEFINE status == IF final THEN "stopped" ELSE "reconnecting"
  <2>1. kwFrames' = <<>> /\ UNCHANGED <<kwHeld, kwList, kwFetch, kwPattern>>
        /\ kwWatch' = [kwWatch EXCEPT !.fails = @ + 1, !.status = status]
    BY <1>6 DEF KwWatchEnds, kwServer
  <2>2. status \notin {"live", "offline"}
    OBVIOUS
  <2> HIDE DEF status
  <2>3. "status" \in DOMAIN kwWatch' /\ kwWatch'.status \notin {"live", "offline"}
    BY <1>0, <2>1, <2>2
  <2> QED BY <1>0, <2>1, <2>3, KwStays
<1>7. CASE KwAttempt
  <2>1. UNCHANGED <<kwHeld, kwFrames, kwList, kwFetch, kwPattern, kwRaced>> /\ kwWatch.status \in {"reconnecting", "stopped"}
        /\ kwWatch' = [kwWatch EXCEPT !.status = "starting", !.changes = <<>>]
    BY <1>7 DEF KwAttempt, kwServer
  <2>2. "status" \in DOMAIN kwWatch' /\ kwWatch'.status = "starting"
    BY <1>0, <2>1
  <2> QED BY <1>0, <2>1, <2>2, KwStays
<1>8. CASE KwShowChanges
  <2>1. UNCHANGED <<kwHeld, kwFrames, kwList, kwFetch, kwPattern, kwRaced>>
        /\ \E view : kwWatch' = [kwWatch EXCEPT !.view = view]
    BY <1>8 DEF KwShowChanges, kwServer
  <2>2. "status" \in DOMAIN kwWatch' /\ kwWatch'.status = kwWatch.status
    BY <1>0, <2>1
  <2> QED BY <1>0, <2>1, <2>2, KwStays
<1>9. CASE UNCHANGED kwVars
  <2>1. UNCHANGED <<kwHeld, kwFrames, kwList, kwFetch, kwWatch, kwPattern, kwRaced>>
    BY <1>9 DEF kwVars, kwServer
  <2> QED BY <1>0, <2>1, KwStays
<1> QED BY <1>1, <1>2, <1>4, <1>5, <1>6, <1>7, <1>8, <1>9, KwWriteKeeps, KwFrameKeeps, KwWatchStartsKeeps DEF KwNext

LEMMA KwInvariant == KwSpec => []KwInv
<1>1. KwInit => KwInv
  <2> SUFFICES ASSUME KwInit PROVE KwInv
    OBVIOUS
  <2>1. KwNoFetch \in KwLists /\ <<>> \in Seq(KwChanges) /\ "status" \in DOMAIN KwOff /\ KwOff.status = "off"
    BY DEF KwNoFetch, KwLists, KwOff
  <2> QED BY <2>1 DEF KwInit, KwInv, KwTypes, KwFramesInv, KwListInv, KwPatterns
<1> QED BY <1>1, KwStep, PTL DEF KwSpec

\* A list that followed its watch from the start is the list of the keys the
\* bucket holds.
THEOREM LiveListIsTrue == KwSpec => []KwLiveListTrue
<1>1. KwInv => KwLiveListTrue
  <2> SUFFICES ASSUME KwInv, kwWatch.status = "live", kwFrames = <<>>, kwFetch = KwNoFetch, ~kwRaced
               PROVE  /\ kwList.keys \subseteq kwHeld
                      /\ ~kwList.truncated => kwHeld \cap kwPattern \subseteq kwList.keys
    BY DEF KwLiveListTrue
  <2>1. KwCurrent(kwList) /\ kwPattern \in SUBSET KwKeys
    BY KwPatternIs DEF KwInv, KwListInv, KwTypes
  <2>2. \A k \in KwKeys : KwUntouched(kwFrames, Len(kwFrames), k)
    BY DEF KwUntouched
  <2> QED BY <2>1, <2>2 DEF KwCurrent
<1> QED BY <1>1, KwInvariant, PTL

\* As many keys as a list may hold.
KwFits(list) == Cardinality(list.keys) <= KwListLimit

KwStatuses == {"off", "starting", "live", "offline", "reconnecting", "stopped"}

KwBounds ==
    /\ KwFits(kwList) /\ KwFits(kwFetch)
    /\ {"status", "changes"} \subseteq DOMAIN kwWatch /\ kwWatch.status \in KwStatuses
    /\ kwWatch.changes \in Seq(KwChanges) /\ Len(kwWatch.changes) <= KwMaxChanges

LEMMA KwConstants == IsFiniteSet(KwKeys) /\ KwListLimit \in Nat /\ KwMaxChanges \in Nat /\ 1 <= KwListLimit
<1>1. KwListLimit \in Nat \ {0} /\ KwMaxChanges \in Nat \ {0} /\ IsFiniteSet(KwKeys)
  BY KwAssumption DEF KwAssumption
<1> QED BY <1>1

LEMMA KwKeysAre ==
    ASSUME NEW list \in KwLists
    PROVE  IsFiniteSet(list.keys) /\ Cardinality(list.keys) \in Nat
<1>1. list.keys \subseteq KwKeys
  BY DEF KwLists
<1> QED BY <1>1, KwConstants, FS_Subset, FS_CardinalityType

\* A change puts no key in a list that is full.
LEMMA KwApplyFits ==
    ASSUME NEW list \in KwLists, NEW c \in KwChanges, KwFits(list)
    PROVE  KwFits(KwApply(list, c))
<1>1. IsFiniteSet(list.keys) /\ Cardinality(list.keys) \in Nat /\ Cardinality(list.keys) <= KwListLimit /\ KwListLimit \in Nat
  BY KwKeysAre, KwConstants DEF KwFits
<1>2. CASE c.op # "put"
  <2>1. KwApply(list, c).keys = list.keys \ {c.key}
    BY <1>2 DEF KwApply, KwLists
  <2>2. list.keys \ {c.key} \subseteq list.keys
    OBVIOUS
  <2>3. Cardinality(list.keys \ {c.key}) <= Cardinality(list.keys) /\ Cardinality(list.keys \ {c.key}) \in Nat
    BY <1>1, <2>2, FS_Subset, FS_CardinalityType
  <2> QED BY <1>1, <2>1, <2>3 DEF KwFits
<1>3. CASE c.op = "put" /\ KwApply(list, c).keys = list.keys
  BY <1>3 DEF KwFits
<1>4. CASE c.op = "put" /\ KwApply(list, c).keys # list.keys
  <2>1. KwApply(list, c) = [list EXCEPT !.keys = @ \cup {c.key}] /\ c.key \notin list.keys /\ ~(Cardinality(list.keys) >= KwListLimit)
    BY <1>4 DEF KwApply, KwLists
  <2>2. KwApply(list, c).keys = list.keys \cup {c.key}
    BY <2>1 DEF KwLists
  <2>3. Cardinality(list.keys \cup {c.key}) = Cardinality(list.keys) + 1
    BY <1>1, <2>1, FS_AddElement
  <2> QED BY <1>1, <2>1, <2>2, <2>3 DEF KwFits
<1> QED BY <1>2, <1>3, <1>4

\* Nor do the changes of a frame.
LEMMA KwFrameFits ==
    ASSUME NEW list \in KwLists, NEW frames \in Seq(KwChanges), KwFits(list)
    PROVE  KwFits(FoldLeft(KwApply, list, frames))
<1> DEFINE N == Len(frames)
<1>1. N \in Nat
  OBVIOUS
<1>2. PICK g : KwFolds(g, list, frames, N) /\ FoldLeft(KwApply, list, frames) = g[1 .. N]
  BY KwFoldLeft
<1>3. \A s \in SUBSET (1 .. N) : g[s] = IF s = {} THEN list ELSE KwApply(g[s \ {Max(s)}], frames[Max(s)])
  BY <1>2 DEF KwFolds
<1> DEFINE Good(n) == g[1 .. n] \in KwLists /\ KwFits(g[1 .. n])
<1>4. Good(0)
  <2>1. 1 .. 0 = {} /\ {} \in SUBSET (1 .. N)
    OBVIOUS
  <2>2. g[1 .. 0] = list
    BY <1>3, <2>1
  <2> QED BY <2>2
<1>5. ASSUME NEW n \in Nat, n + 1 \in 1 .. N, Good(n) PROVE Good(n + 1)
  <2>1. 1 .. (n + 1) \in SUBSET (1 .. N) /\ 1 .. (n + 1) # {} /\ n + 1 \in Nat
    BY <1>1, <1>5
  <2>2. Max(1 .. (n + 1)) \in 1 .. (n + 1) /\ n + 1 <= Max(1 .. (n + 1))
    <3>1. n + 1 \in 1 .. (n + 1) /\ 1 .. (n + 1) \in SUBSET (1 .. (n + 1))
      BY <1>5
    <3> QED BY <2>1, <3>1, KwGreatest
  <2>3. Max(1 .. (n + 1)) = n + 1
    BY <2>2
  <2>4. (1 .. (n + 1)) \ {n + 1} = 1 .. n
    BY <1>5
  <2>5. g[1 .. (n + 1)] = KwApply(g[1 .. n], frames[n + 1])
    BY <1>3, <2>1, <2>3, <2>4
  <2>6. frames[n + 1] \in KwChanges
    BY <1>5
  <2>7. KwApply(g[1 .. n], frames[n + 1]) \in KwLists
    BY <1>5, <2>6, KwApplies
  <2> QED BY <1>5, <2>5, <2>6, <2>7, KwApplyFits
<1> HIDE DEF Good
<1> DEFINE bad == {n \in 1 .. N : ~Good(n)}
<1> HIDE DEF N
<1>6. bad = {}
  <2> SUFFICES ASSUME bad # {} PROVE FALSE
    OBVIOUS
  <2>1. PICK n \in bad : \A m \in bad : n <= m
    BY <1>1, LeastOf
  <2>2. n - 1 \in Nat /\ (n - 1 = 0 \/ n - 1 \in 1 .. N) /\ ~(n <= n - 1) /\ n = (n - 1) + 1 /\ n \in 1 .. N
    BY <1>1, <2>1
  <2>3. Good(n - 1)
    <3>1. CASE n - 1 = 0
      BY <1>4, <3>1
    <3>2. CASE n - 1 \in 1 .. N
      BY <2>1, <2>2, <3>2
    <3> QED BY <2>2, <3>1, <3>2
  <2>4. Good(n)
    BY <1>5, <2>2, <2>3
  <2> QED BY <2>1, <2>4
<1>7. Good(N)
  <2>1. CASE N = 0
    BY <1>4, <2>1
  <2>2. CASE N # 0
    <3>1. N \in 1 .. N
      BY <1>1, <2>2
    <3> QED BY <1>6, <3>1
  <2> QED BY <2>1, <2>2
<1> QED BY <1>2, <1>7 DEF N, Good

LEMMA KwAnswerFits ==
    ASSUME KwTypes, NEW pattern, NEW l \in KwAnswers(pattern)
    PROVE  KwFits(l)
<1> DEFINE keys == kwHeld \cap pattern
           whole == Cardinality(keys) <= KwListLimit
<1>1. PICK some \in IF whole THEN {keys} ELSE kSubset(KwListLimit, keys) : l = [of |-> pattern, keys |-> some, truncated |-> ~whole]
  BY DEF KwAnswers
<1>2. CASE whole
  BY <1>1, <1>2 DEF KwFits
<1>3. CASE ~whole
  <2>1. Cardinality(some) = KwListLimit
    BY <1>1, <1>3 DEF kSubset
  <2> QED BY <1>1, <2>1, KwConstants DEF KwFits
<1> QED BY <1>2, <1>3

\* The page keeps the newest changes, no more than it may.
LEMMA KwTimelineIs ==
    ASSUME NEW new \in Seq(KwChanges), NEW old \in Seq(KwChanges)
    PROVE  KwTimeline(new, old) \in Seq(KwChanges) /\ Len(KwTimeline(new, old)) <= KwMaxChanges
<1> DEFINE all == Reverse(new) \o old
           n == IF Len(all) < KwMaxChanges THEN Len(all) ELSE KwMaxChanges
<1>1. Reverse(new) \in Seq(KwChanges)
  <2>1. \A i \in 1 .. Len(new) : new[(Len(new) - i) + 1] \in KwChanges
    OBVIOUS
  <2> QED BY <2>1 DEF Reverse
<1>2. all \in Seq(KwChanges) /\ Len(all) \in Nat
  BY <1>1
<1>3. KwTimeline(new, old) = SubSeq(all, 1, n)
  BY DEF KwTimeline
<1> HIDE DEF all
<1>4. n \in 0 .. Len(all) /\ n <= KwMaxChanges
  BY <1>2, KwConstants
<1> HIDE DEF n
<1>5. SubSeq(all, 1, n) \in Seq(KwChanges) /\ Len(SubSeq(all, 1, n)) = n
  BY <1>2, <1>4
<1> QED BY <1>3, <1>4, <1>5

LEMMA KwBoundsStep == KwInv /\ KwBounds /\ [KwNext]_kwVars => KwBounds'
<1> SUFFICES ASSUME KwTypes, KwBounds, [KwNext]_kwVars PROVE KwBounds'
  BY DEF KwInv
<1>1. KwFits(kwFetch')
  <2>1. CASE kwFetch' = kwFetch
    BY <2>1 DEF KwBounds
  <2>2. CASE kwFetch' = KwNoFetch
    <3>1. Cardinality({}) = 0
      BY FS_EmptySet
    <3> QED BY <2>2, <3>1, KwConstants DEF KwFits, KwNoFetch
  <2>3. ASSUME NEW pattern, kwFetch' \in KwAnswers(pattern) PROVE KwFits(kwFetch')
    BY <2>3, KwAnswerFits
  <2>4. kwFetch' = kwFetch \/ kwFetch' = KwNoFetch \/ \E pattern : kwFetch' \in KwAnswers(pattern)
    BY DEF KwNext, KwWrite, KwFetchList, KwListFetched, KwToggleLive, KwTurn, KwFrame, KwAttempt,
       KwShowChanges, KwSearchPattern, KwWatchStarts, KwWatchEnds, KwBeginFetch, KwUse, kwServer, kwVars
  <2> QED BY <2>1, <2>2, <2>3, <2>4
<1>2. KwFits(kwList')
  <2>1. kwList \in KwLists /\ kwFrames \in Seq(KwChanges) /\ KwFits(kwList) /\ KwFits(kwFetch)
    BY DEF KwTypes, KwBounds
  <2>2. kwList' = kwList \/ kwList' = kwFetch \/ kwList' = FoldLeft(KwApply, kwList, kwFrames)
    BY DEF KwNext, KwWrite, KwFetchList, KwListFetched, KwToggleLive, KwTurn, KwFrame, KwAttempt,
       KwShowChanges, KwSearchPattern, KwWatchStarts, KwWatchEnds, KwBeginFetch, KwUse, kwServer, kwVars
  <2> QED BY <2>1, <2>2, KwFrameFits
<1>3. {"status", "changes"} \subseteq DOMAIN kwWatch' /\ kwWatch'.status \in KwStatuses
      /\ kwWatch'.changes \in Seq(KwChanges) /\ Len(kwWatch'.changes) <= KwMaxChanges
  <2>0. /\ {"status", "changes"} \subseteq DOMAIN kwWatch /\ kwWatch.status \in KwStatuses
        /\ kwWatch.changes \in Seq(KwChanges) /\ Len(kwWatch.changes) <= KwMaxChanges
        /\ <<>> \in Seq(KwChanges) /\ Len(<<>>) <= KwMaxChanges /\ kwFrames \in Seq(KwChanges)
    BY KwConstants DEF KwBounds, KwTypes
  <2>1. CASE kwWatch' = kwWatch
    BY <2>0, <2>1
  <2>2. ASSUME NEW live, NEW visible, kwWatch' = KwRestarted(live, visible)
        PROVE  DOMAIN kwWatch' = DOMAIN kwWatch /\ kwWatch'.status \in KwStatuses /\ kwWatch'.changes = <<>>
    <3> DEFINE status == IF live /\ visible THEN "starting" ELSE "off"
    <3>1. kwWatch' = [kwWatch EXCEPT !.live = live, !.visible = visible, !.changes = <<>>,
                        !.view = IF live THEN @ ELSE "keys", !.status = status]
      BY <2>2 DEF KwRestarted
    <3>2. status \in KwStatuses
      BY DEF KwStatuses
    <3> HIDE DEF status
    <3> QED BY <2>0, <3>1, <3>2
  <2>3. ASSUME NEW status \in {"live", "offline"}, KwWatchStarts(status)
        PROVE  DOMAIN kwWatch' = DOMAIN kwWatch /\ kwWatch'.status \in KwStatuses /\ kwWatch'.changes = kwWatch.changes
    BY <2>0, <2>3 DEF KwWatchStarts, KwStatuses
  <2>4. CASE KwFrame
    <3>1. kwWatch' = [kwWatch EXCEPT !.status = "live", !.changes = KwTimeline(kwFrames, kwWatch.changes)]
      BY <2>4 DEF KwFrame
    <3>2. KwTimeline(kwFrames, kwWatch.changes) \in Seq(KwChanges) /\ Len(KwTimeline(kwFrames, kwWatch.changes)) <= KwMaxChanges
      BY <2>0, KwTimelineIs
    <3>3. DOMAIN kwWatch' = DOMAIN kwWatch /\ kwWatch'.status = "live" /\ kwWatch'.changes = KwTimeline(kwFrames, kwWatch.changes)
      BY <2>0, <3>1
    <3> QED BY <2>0, <3>2, <3>3 DEF KwStatuses
  <2>5. ASSUME NEW final \in BOOLEAN, KwWatchEnds(final)
        PROVE  DOMAIN kwWatch' = DOMAIN kwWatch /\ kwWatch'.status \in KwStatuses /\ kwWatch'.changes = kwWatch.changes
    <3>1. PICK status \in {"stopped", "reconnecting"} : kwWatch' = [kwWatch EXCEPT !.fails = @ + 1, !.status = status]
      BY <2>5 DEF KwWatchEnds
    <3> QED BY <2>0, <3>1 DEF KwStatuses
  <2>6. CASE KwAttempt
    <3>1. kwWatch' = [kwWatch EXCEPT !.status = "starting", !.changes = <<>>]
      BY <2>6 DEF KwAttempt
    <3>2. DOMAIN kwWatch' = DOMAIN kwWatch /\ kwWatch'.status = "starting" /\ kwWatch'.changes = <<>>
      BY <2>0, <3>1
    <3> QED BY <2>0, <3>2 DEF KwStatuses
  <2>7. CASE KwShowChanges
    <3>1. \E view : kwWatch' = [kwWatch EXCEPT !.view = view]
      BY <2>7 DEF KwShowChanges
    <3>2. DOMAIN kwWatch' = DOMAIN kwWatch /\ kwWatch'.status = kwWatch.status /\ kwWatch'.changes = kwWatch.changes
      BY <2>0, <3>1
    <3> QED BY <2>0, <3>2
  <2>8. \/ kwWatch' = kwWatch \/ \E live, visible : kwWatch' = KwRestarted(live, visible)
        \/ \E status \in {"live", "offline"} : KwWatchStarts(status)
        \/ KwFrame \/ KwAttempt \/ KwShowChanges \/ \E final \in BOOLEAN : KwWatchEnds(final)
    BY DEF KwNext, KwWrite, KwFetchList, KwListFetched, KwToggleLive, KwTurn, KwSearchPattern, KwBeginFetch,
       KwUse, kwServer, kwVars
  <2> QED BY <2>0, <2>1, <2>2, <2>3, <2>4, <2>5, <2>6, <2>7, <2>8
<1> QED BY <1>1, <1>2, <1>3 DEF KwBounds

\* Every reachable state of the key list and its watch has its type (useKVWatch).
THEOREM KwTypeCorrect == KwSpec => []KwTypeOK
<1>1. KwInit => KwBounds
  <2> SUFFICES ASSUME KwInit PROVE KwBounds
    OBVIOUS
  <2>1. Cardinality({}) = 0
    BY FS_EmptySet
  <2>2. KwFits(KwNoFetch)
    BY <2>1, KwConstants DEF KwFits, KwNoFetch
  <2>3. <<>> \in Seq(KwChanges) /\ Len(<<>>) <= KwMaxChanges
    BY KwConstants
  <2> QED BY <2>2, <2>3 DEF KwInit, KwBounds, KwOff, KwStatuses
<1>2. KwInv /\ KwBounds => KwTypeOK
  BY DEF KwInv, KwTypes, KwLists, KwBounds, KwFits, KwStatuses, KwTypeOK
<1> QED BY <1>1, <1>2, KwInvariant, KwBoundsStep, PTL DEF KwSpec

---------------------------------------------------------------------------
(*************************************************************************)
(* Lists in order.                                                       *)
(*************************************************************************)

Rank(S, n) == Cardinality({m \in S : m < n})

LEMMA NumbersUpTo ==
    ASSUME NEW N \in Nat, NEW S \in SUBSET (1 .. N)
    PROVE  IsFiniteSet(S) /\ Cardinality(S) \in Nat /\ \A n \in S : n \in Nat
<1>1. IsFiniteSet(1 .. N)
  BY FS_Interval
<1>2. IsFiniteSet(S)
  BY <1>1, FS_Subset
<1>3. Cardinality(S) \in Nat
  BY <1>2, FS_CardinalityType
<1> QED BY <1>2, <1>3

LEMMA RankGrows ==
    ASSUME NEW N \in Nat, NEW S \in SUBSET (1 .. N), NEW n \in S
    PROVE  /\ IsFiniteSet(S) /\ Cardinality(S) \in Nat
           /\ Rank(S, n) \in 0 .. (Cardinality(S) - 1)
           /\ \A m \in S : m < n => Rank(S, m) < Rank(S, n)
<1>1. IsFiniteSet(S) /\ Cardinality(S) \in Nat /\ \A x \in S : x \in Nat
  BY NumbersUpTo
<1>2. ASSUME NEW m \in S
      PROVE  LET below == {x \in S : x < m}
             IN  /\ IsFiniteSet(below) /\ Cardinality(below) \in Nat /\ Cardinality(below \cup {m}) = Cardinality(below) + 1
                 /\ IsFiniteSet(below \cup {m})
  <2> DEFINE below == {x \in S : x < m}
  <2>1. IsFiniteSet(below) /\ m \notin below
    BY <1>1, FS_Subset
  <2> HIDE DEF below
  <2>2. Cardinality(below) \in Nat /\ Cardinality(below \cup {m}) = Cardinality(below) + 1 /\ IsFiniteSet(below \cup {m})
    BY <2>1, FS_AddElement, FS_CardinalityType
  <2> QED BY <2>1, <2>2 DEF below
<1>3. Rank(S, n) < Cardinality(S)
  <2>1. {x \in S : x < n} \cup {n} \in SUBSET S
    OBVIOUS
  <2>2. Cardinality({x \in S : x < n} \cup {n}) <= Cardinality(S)
    BY <1>1, <2>1, FS_Subset
  <2> QED BY <1>1, <1>2, <2>2 DEF Rank
<1>4. ASSUME NEW m \in S, m < n PROVE Rank(S, m) < Rank(S, n)
  <2>1. {x \in S : x < m} \cup {m} \in SUBSET {x \in S : x < n}
    <3>1. \A x \in S : x < m => x < n
      BY <1>1, <1>4
    <3> QED BY <1>4, <3>1
  <2>2. Cardinality({x \in S : x < m} \cup {m}) <= Cardinality({x \in S : x < n})
    BY <1>2, <2>1, FS_Subset
  <2>3. Cardinality({x \in S : x < m}) < Cardinality({x \in S : x < n})
    <3>1. /\ Cardinality({x \in S : x < m}) \in Nat /\ Cardinality({x \in S : x < n}) \in Nat
          /\ Cardinality({x \in S : x < m} \cup {m}) = Cardinality({x \in S : x < m}) + 1
      BY <1>2
    <3> QED BY <2>2, <3>1
  <2> QED BY <2>3 DEF Rank
<1>5. Rank(S, n) \in Nat
  BY <1>2 DEF Rank
<1> QED BY <1>1, <1>3, <1>4, <1>5

LEMMA RanksAll ==
    ASSUME NEW N \in Nat, NEW S \in SUBSET (1 .. N), NEW k \in 1 .. Cardinality(S)
    PROVE  \E n \in S : Rank(S, n) = k - 1
<1> DEFINE f == [n \in S |-> Rank(S, n)]
           R == {f[n] : n \in S}
           top == 0 .. (Cardinality(S) - 1)
<1>1. IsFiniteSet(S) /\ Cardinality(S) \in Nat /\ \A x \in S : x \in Nat
  BY NumbersUpTo
<1>2. \A n \in S : f[n] \in top
  BY RankGrows
<1>3. \A m, n \in S : m # n => f[m] # f[n]
  <2> SUFFICES ASSUME NEW m \in S, NEW n \in S, m # n PROVE f[m] # f[n]
    OBVIOUS
  <2>1. m \in Nat /\ n \in Nat /\ (m < n \/ n < m)
    BY <1>1
  <2>2. f[m] < f[n] \/ f[n] < f[m]
    BY <2>1, RankGrows
  <2> QED BY <1>1, <1>2, <2>2
<1>4. f \in Bijection(S, R)
  <2> HIDE DEF f
  <2>1. f \in [S -> R]
    BY DEF f
  <2> QED BY <1>3, <2>1 DEF Bijection, Injection, Surjection, IsInjective
<1>5. Cardinality(R) = Cardinality(S)
  <2> HIDE DEF R, f
  <2> QED BY <1>1, <1>4, FS_Bijection DEF ExistsBijection
<1>6. R \in SUBSET top
  BY <1>2
<1>7. IsFiniteSet(top) /\ Cardinality(top) = Cardinality(S)
  <2>1. 0 \in Int /\ Cardinality(S) - 1 \in Int
    BY <1>1
  <2>2. IsFiniteSet(top) /\ Cardinality(top) = IF 0 > Cardinality(S) - 1 THEN 0 ELSE (Cardinality(S) - 1) - 0 + 1
    BY <2>1, FS_Interval
  <2> QED BY <1>1, <2>2
<1>8. top = R
  <2> HIDE DEF R, top
  <2> QED BY <1>5, <1>6, <1>7, FS_Subset
<1>9. k - 1 \in top
  BY <1>1
<1> QED BY <1>8, <1>9

\* A list of numbers that goes up, and all the numbers of a set.
Rising(s) == \A i, j \in 1 .. Len(s) : i < j => s[i] < s[j]

LEMMA AscendingIs ==
    ASSUME NEW N \in Nat, NEW S \in SUBSET (1 .. N)
    PROVE  /\ Ascending(S) \in Seq(S) /\ Len(Ascending(S)) = Cardinality(S) /\ Cardinality(S) \in Nat
           /\ Rising(Ascending(S))
           /\ \A n \in S : \E k \in 1 .. Len(Ascending(S)) : Ascending(S)[k] = n
<1> DEFINE A == Ascending(S)
<1>1. IsFiniteSet(S) /\ Cardinality(S) \in Nat /\ \A x \in S : x \in Nat
  BY NumbersUpTo
<1>2. ASSUME NEW k \in 1 .. Cardinality(S)
      PROVE  A[k] \in S /\ Rank(S, A[k]) = k - 1
  <2>1. A[k] = CHOOSE n \in S : Rank(S, n) = k - 1
    BY DEF Ascending, Rank
  <2> QED BY <2>1, RanksAll
<1>3. A \in [1 .. Cardinality(S) -> S]
  <2>1. \A g : g = [k \in 1 .. Cardinality(S) |-> CHOOSE n \in S : Cardinality({m \in S : m < n}) = k - 1]
              => g = [k \in 1 .. Cardinality(S) |-> g[k]]
    OBVIOUS
  <2>3. A = [k \in 1 .. Cardinality(S) |-> A[k]]
    BY <2>1 DEF Ascending
  <2> HIDE DEF A
  <2> QED BY <1>2, <2>3
<1> HIDE DEF A
<1>4. A \in Seq(S) /\ Len(A) = Cardinality(S)
  BY <1>1, <1>3
<1>5. ASSUME NEW i \in 1 .. Len(A), NEW j \in 1 .. Len(A), i < j PROVE A[i] < A[j]
  <2>1. A[i] \in S /\ A[j] \in S /\ Rank(S, A[i]) = i - 1 /\ Rank(S, A[j]) = j - 1
    BY <1>2, <1>4
  <2>2. A[i] \in Nat /\ A[j] \in Nat
    BY <1>1, <2>1
  <2>3. CASE A[i] = A[j]
    BY <1>5, <2>1, <2>3
  <2>4. CASE A[j] < A[i]
    <3>1. Rank(S, A[j]) < Rank(S, A[i])
      BY <2>1, <2>4, RankGrows
    <3> QED BY <1>5, <2>1, <3>1
  <2> QED BY <2>2, <2>3, <2>4
<1>6. ASSUME NEW n \in S PROVE \E k \in 1 .. Len(A) : A[k] = n
  <2>1. Rank(S, n) \in 0 .. (Cardinality(S) - 1)
    BY RankGrows
  <2>2. PICK k \in 1 .. Len(A) : k = Rank(S, n) + 1
    BY <1>1, <1>4, <2>1
  <2>3. A[k] \in S /\ Rank(S, A[k]) = Rank(S, n)
    BY <1>2, <1>4, <2>1, <2>2
  <2>4. A[k] \in Nat /\ n \in Nat
    BY <1>1, <2>3
  <2>5. ~ (A[k] < n)
    <3>1. A[k] < n => Rank(S, A[k]) < Rank(S, n)
      BY <2>3, RankGrows
    <3> QED BY <1>1, <2>1, <2>3, <3>1
  <2>6. ~ (n < A[k])
    <3>1. n < A[k] => Rank(S, n) < Rank(S, A[k])
      BY <2>3, RankGrows
    <3> QED BY <1>1, <2>1, <2>3, <3>1
  <2> QED BY <2>4, <2>5, <2>6
<1> QED BY <1>1, <1>4, <1>5, <1>6 DEF A, Rising

\* The rows that are left are the rows that were not shown, in their order.
LEMMA UnseenIs ==
    ASSUME NEW C, NEW shown, NEW rows \in Seq(C)
    PROVE  LET u == Unseen(shown, rows) IN
           /\ u \in Seq(C) /\ \A k \in 1 .. Len(u) : u[k] \notin Range(shown)
           /\ \E f \in [1 .. Len(u) -> 1 .. Len(rows)] :
                 /\ \A k \in 1 .. Len(u) : u[k] = rows[f[k]]
                 /\ \A i, j \in 1 .. Len(u) : i < j => f[i] < f[j]
                 /\ \A n \in 1 .. Len(rows) : rows[n] \notin Range(shown) => \E k \in 1 .. Len(u) : f[k] = n
<1> DEFINE S == {i \in DOMAIN rows : rows[i] \notin Range(shown)}
           f == Ascending(S)
           u == Unseen(shown, rows)
<1>1. S \in SUBSET (1 .. Len(rows)) /\ Len(rows) \in Nat /\ DOMAIN rows = 1 .. Len(rows)
  OBVIOUS
<1>2. \A i \in S : rows[i] \in C /\ rows[i] \notin Range(shown) /\ i \in 1 .. Len(rows)
  OBVIOUS
<1>3. u = [k \in DOMAIN f |-> rows[f[k]]]
  BY DEF Unseen
<1>4. \A i \in 1 .. Len(rows) : rows[i] \notin Range(shown) => i \in S
  OBVIOUS
<1> HIDE DEF S, u
<1>5. /\ f \in Seq(S) /\ Len(f) \in Nat /\ Rising(f)
      /\ \A n \in S : \E k \in 1 .. Len(f) : f[k] = n
  BY <1>1, AscendingIs
<1> HIDE DEF f
<1>6. DOMAIN f = 1 .. Len(f) /\ \A k \in 1 .. Len(f) : f[k] \in S
  BY <1>5
<1>7. u \in Seq(C) /\ Len(u) = Len(f) /\ \A k \in 1 .. Len(u) : u[k] = rows[f[k]]
  BY <1>2, <1>3, <1>5, <1>6
<1>8. f \in [1 .. Len(u) -> 1 .. Len(rows)]
  <2>1. f = [k \in 1 .. Len(f) |-> f[k]]
    BY <1>5
  <2> QED BY <1>2, <1>6, <1>7, <2>1
<1>9. \A k \in 1 .. Len(u) : u[k] \notin Range(shown)
  BY <1>2, <1>6, <1>7
<1>10. \A i, j \in 1 .. Len(u) : i < j => f[i] < f[j]
  BY <1>5, <1>7 DEF Rising
<1>11. \A n \in 1 .. Len(rows) : rows[n] \notin Range(shown) => \E k \in 1 .. Len(u) : f[k] = n
  BY <1>4, <1>5, <1>7
<1> HIDE DEF f
<1> QED BY <1>7, <1>8, <1>9, <1>10, <1>11 DEF u

---------------------------------------------------------------------------
(*************************************************************************)
(* The request page: what its draft, its answer and its types hold.      *)
(*************************************************************************)

RqTexts == RqSubjects \cup {"", "bad"}
RqDrafts == [subject : RqTexts, payload : RqPayloads, headers : {"none", "invalid"}, recent : Seq(RqTexts)]
RqStatuses == {"none", "pending", "replied", "no-responders", "timeout", "error"}

RqTyped ==
    /\ rqDraft \in RqDrafts /\ Len(rqDraft.recent) <= RqRecentCap
    /\ {"status", "id"} \subseteq DOMAIN rqLast /\ rqLast.status \in RqStatuses
    /\ rqAs \in [RqSubjects -> RqTypes \cup {"none", "unset"}]

\* The subjects last used are no more than there may be (withRecentSubject).
LEMMA RqRecentIs ==
    ASSUME RqTyped, NEW s \in RqTexts
    PROVE  RqRecent(s) \in Seq(RqTexts) /\ Len(RqRecent(s)) <= RqRecentCap
<1> DEFINE old == Unseen(<<s>>, rqDraft.recent)
           all == <<s>> \o old
           n == IF Len(all) < RqRecentCap THEN Len(all) ELSE RqRecentCap
<1>1. rqDraft.recent \in Seq(RqTexts) /\ RqRecentCap \in Nat
  BY RqAssumption DEF RqAssumption, RqTyped, RqDrafts
<1>2. old \in Seq(RqTexts)
  BY <1>1, UnseenIs
<1> HIDE DEF old
<1>3. all \in Seq(RqTexts) /\ Len(all) \in Nat
  BY <1>2
<1> HIDE DEF all
<1>4. n \in 0 .. Len(all) /\ n <= RqRecentCap
  BY <1>1, <1>3
<1>5. RqRecent(s) = SubSeq(all, 1, n)
  BY DEF RqRecent, all, old
<1> HIDE DEF n
<1>6. SubSeq(all, 1, n) \in Seq(RqTexts) /\ Len(SubSeq(all, 1, n)) = n
  BY <1>3, <1>4
<1> QED BY <1>4, <1>5, <1>6

LEMMA RqTypedStep == RqTyped /\ [RqNext]_rqVars => RqTyped'
<1> SUFFICES ASSUME RqTyped, [RqNext]_rqVars PROVE RqTyped'
  OBVIOUS
<1>0. /\ rqDraft \in RqDrafts /\ Len(rqDraft.recent) <= RqRecentCap
      /\ {"status", "id"} \subseteq DOMAIN rqLast /\ rqLast.status \in RqStatuses
      /\ rqAs \in [RqSubjects -> RqTypes \cup {"none", "unset"}]
  BY DEF RqTyped
<1>1. rqDraft' \in RqDrafts /\ Len(rqDraft'.recent) <= RqRecentCap
  <2>1. ASSUME NEW s \in RqTexts, rqDraft' = [rqDraft EXCEPT !.subject = s]
        PROVE  rqDraft' \in RqDrafts /\ rqDraft'.recent = rqDraft.recent
    BY <1>0, <2>1 DEF RqDrafts
  <2>2. ASSUME NEW p \in RqPayloads, rqDraft' = [rqDraft EXCEPT !.payload = p]
        PROVE  rqDraft' \in RqDrafts /\ rqDraft'.recent = rqDraft.recent
    BY <1>0, <2>2 DEF RqDrafts
  <2>3. ASSUME NEW h \in {"none", "invalid"}, rqDraft' = [rqDraft EXCEPT !.headers = h]
        PROVE  rqDraft' \in RqDrafts /\ rqDraft'.recent = rqDraft.recent
    BY <1>0, <2>3 DEF RqDrafts
  <2>4. CASE rqDraft' = [rqDraft EXCEPT !.recent = RqRecent(rqDraft.subject)]
    <3>1. RqRecent(rqDraft.subject) \in Seq(RqTexts) /\ Len(RqRecent(rqDraft.subject)) <= RqRecentCap
      <4>1. rqDraft.subject \in RqTexts
        BY <1>0 DEF RqDrafts
      <4> QED BY <4>1, RqRecentIs
    <3>2. rqDraft' \in RqDrafts /\ rqDraft'.recent = RqRecent(rqDraft.subject)
      BY <1>0, <2>4, <3>1 DEF RqDrafts
    <3> QED BY <3>1, <3>2
  <2>5. \/ rqDraft' = rqDraft \/ \E s \in RqTexts : rqDraft' = [rqDraft EXCEPT !.subject = s]
        \/ \E p \in RqPayloads : rqDraft' = [rqDraft EXCEPT !.payload = p]
        \/ \E h \in {"none", "invalid"} : rqDraft' = [rqDraft EXCEPT !.headers = h]
        \/ rqDraft' = [rqDraft EXCEPT !.recent = RqRecent(rqDraft.subject)]
    <3>1. "json" \in RqPayloads
      BY DEF RqPayloads
    <3> QED BY <3>1 DEF RqTexts, RqNext, RqEdit, RqEditDialog, RqSetMode, RqAnswer, RqChooseType,
       RqExampleCame, RqDialogAnswer, RqDecodeAnswer, RqOpenDialog, RqSend, RqUseExample, RqLeave, RqReturn,
       RqReload, RqDialogSend, RqCloseDialog, RqUsePage, RqUse, rqVars
  <2> QED BY <1>0, <2>1, <2>2, <2>3, <2>4, <2>5
<1>2. {"status", "id"} \subseteq DOMAIN rqLast' /\ rqLast'.status \in RqStatuses
  <2>1. CASE rqLast' = rqLast
    BY <1>0, <2>1
  <2>2. ASSUME NEW status \in RqStatuses, rqLast' = [rqLast EXCEPT !.status = status]
        PROVE  {"status", "id"} \subseteq DOMAIN rqLast' /\ rqLast'.status \in RqStatuses
    BY <1>0, <2>2
  <2>3. CASE RqSend
    BY <2>3 DEF RqSend, RqStatuses
  <2>4. CASE rqLast' = RqNoRequest
    BY <2>4 DEF RqNoRequest, RqStatuses
  <2>5. \/ rqLast' = rqLast \/ \E status \in RqStatuses : rqLast' = [rqLast EXCEPT !.status = status]
        \/ RqSend \/ rqLast' = RqNoRequest
    BY DEF RqStatuses, RqNext, RqEdit, RqEditDialog, RqSetMode, RqAnswer, RqChooseType, RqExampleCame,
       RqDialogAnswer, RqDecodeAnswer, RqOpenDialog, RqUseExample, RqLeave, RqReturn, RqReload,
       RqDialogSend, RqCloseDialog, RqUsePage, RqUse, rqVars
  <2> QED BY <2>1, <2>2, <2>3, <2>4, <2>5
<1>3. rqAs' \in [RqSubjects -> RqTypes \cup {"none", "unset"}]
  <2>1. rqAs' = rqAs \/ \E as \in RqTypes \cup {"none"} : rqAs' = [rqAs EXCEPT ![RqReplied] = as]
    BY DEF RqNext, RqEdit, RqEditDialog, RqSetMode, RqAnswer, RqChooseType, RqExampleCame, RqDialogAnswer,
       RqDecodeAnswer, RqOpenDialog, RqSend, RqUseExample, RqLeave, RqReturn, RqReload, RqDialogSend,
       RqCloseDialog, RqUsePage, RqUse, rqVars
  <2> QED BY <1>0, <2>1
<1> QED BY <1>1, <1>2, <1>3 DEF RqTyped

\* Every reachable state of the request page has its type (RequestPage.tsx).
THEOREM RqTypeCorrect == RqSpec => []RqTypeOK
<1>1. RqInit => RqTyped
  <2> SUFFICES ASSUME RqInit PROVE RqTyped
    OBVIOUS
  <2>1. <<>> \in Seq(RqTexts) /\ Len(<<>>) = 0
    OBVIOUS
  <2>2. "" \in RqTexts /\ "blank" \in RqPayloads
    BY DEF RqTexts, RqPayloads
  <2>3. rqDraft \in RqDrafts /\ rqDraft.recent = <<>>
    BY <2>1, <2>2 DEF RqInit, RqEmptyDraft, RqDrafts
  <2>4. 0 <= RqRecentCap
    <3>1. RqRecentCap \in Nat
      BY RqAssumption DEF RqAssumption
    <3> QED BY <3>1
  <2> QED BY <2>1, <2>3, <2>4 DEF RqInit, RqTyped, RqNoRequest, RqStatuses
<1>2. RqTyped => RqTypeOK
  BY DEF RqTyped, RqTypeOK, RqDrafts, RqStatuses
<1> QED BY <1>1, <1>2, RqTypedStep, PTL DEF RqSpec

---------------------------------------------------------------------------
(*************************************************************************)
(* The list of a stream: it is unbroken, and an export of it whole.      *)
(*************************************************************************)

MlNumbers == MlMax \in Nat \ {0} /\ MlPage \in Nat \ {0} /\ MlLimit \in Nat \ {0} /\ MlBound \in Nat \ {0}

LEMMA MlConstants == MlNumbers
BY MlAssumption DEF MlAssumption, MlNumbers

MlPages == [seqs : Seq(Nat), more : BOOLEAN, next : Nat]

LEMMA MlPageIs ==
    ASSUME NEW top \in Nat
    PROVE  LET page == MlPageAt(top) IN
           /\ page \in MlPages
           /\ Len(page.seqs) = (IF top < MlPage THEN top ELSE MlPage)
           /\ \A i \in 1 .. Len(page.seqs) : page.seqs[i] = top - i + 1
           /\ page.more <=> top > MlPage
           /\ page.more => page.next = top - MlPage
<1> DEFINE n == IF top < MlPage THEN top ELSE MlPage
           seqs == [i \in 1 .. n |-> top - i + 1]
           next == IF top > MlPage THEN top - MlPage ELSE 0
<1>1. n \in Nat /\ n <= top /\ next \in Nat
  BY MlConstants DEF MlNumbers
<1>2. \A i \in 1 .. n : top - i + 1 \in Nat
  BY <1>1
<1>3. seqs \in Seq(Nat) /\ Len(seqs) = n /\ \A i \in 1 .. n : seqs[i] = top - i + 1
  <2> HIDE DEF n
  <2>1. seqs \in [1 .. n -> Nat]
    BY <1>2
  <2> QED BY <1>1, <2>1
<1> HIDE DEF seqs
<1>4. PICK more \in BOOLEAN : more = (top > MlPage)
  <2>1. (top > MlPage) = TRUE \/ (top > MlPage) = FALSE
    OBVIOUS
  <2> QED BY <2>1
<1>5. MlPageAt(top) = [seqs |-> seqs, more |-> more, next |-> next]
  BY <1>4 DEF MlPageAt, seqs
<1>6. (top > MlPage) => next = top - MlPage
  OBVIOUS
<1> HIDE DEF next
<1>7. MlPageAt(top) \in MlPages
  BY <1>1, <1>3, <1>4, <1>5 DEF MlPages
<1>8. MlPageAt(top).seqs = seqs /\ MlPageAt(top).more = more /\ MlPageAt(top).next = next
  BY <1>5
<1>9. MlPageAt(top).more <=> top > MlPage
  BY <1>4, <1>8
<1> QED BY <1>3, <1>6, <1>7, <1>8, <1>9

\* Rows none of which is shown are all left.
LEMMA UnseenAll ==
    ASSUME NEW shown, NEW rows \in Seq(Nat), \A i \in 1 .. Len(rows) : rows[i] \notin Range(shown)
    PROVE  Unseen(shown, rows) = rows
<1> DEFINE L == Len(rows)
           S == {i \in DOMAIN rows : rows[i] \notin Range(shown)}
<1>1. L \in Nat /\ S = 1 .. L /\ DOMAIN rows = 1 .. L
  OBVIOUS
<1> HIDE DEF L
<1>2. Cardinality(1 .. L) = L
  <2>1. 1 \in Int /\ L \in Int
    BY <1>1
  <2>2. Cardinality(1 .. L) = IF 1 > L THEN 0 ELSE L - 1 + 1
    BY <2>1, FS_Interval
  <2> QED BY <1>1, <2>2
<1>3. ASSUME NEW n \in 1 .. L PROVE Cardinality({m \in 1 .. L : m < n}) = n - 1
  <2>1. {m \in 1 .. L : m < n} = 1 .. (n - 1) /\ 1 \in Int /\ n - 1 \in Int
    BY <1>1
  <2>2. Cardinality(1 .. (n - 1)) = IF 1 > n - 1 THEN 0 ELSE (n - 1) - 1 + 1
    BY <2>1, FS_Interval
  <2>3. Cardinality(1 .. (n - 1)) = n - 1
    BY <1>1, <2>2
  <2> QED BY <2>1, <2>3
<1>4. ASSUME NEW k \in 1 .. L
      PROVE  (CHOOSE n \in 1 .. L : Cardinality({m \in 1 .. L : m < n}) = k - 1) = k
  <2>1. \A n \in 1 .. L : Cardinality({m \in 1 .. L : m < n}) = k - 1 <=> n = k
    BY <1>1, <1>3
  <2> QED BY <2>1
<1>5. Ascending(1 .. L) = [k \in 1 .. L |-> k]
  BY <1>2, <1>4 DEF Ascending
<1>6. Unseen(shown, rows) = [k \in 1 .. L |-> rows[k]]
  BY <1>1, <1>5 DEF Unseen
<1>7. rows = [k \in 1 .. L |-> rows[k]]
  BY <1>1
<1> QED BY <1>6, <1>7

\* The function that FoldLeft reads its result from, on the first n pages.
MlFolds(g, first, pages, n) ==
    g = [s \in SUBSET (1 .. n) |-> IF s = {} THEN first ELSE MlAddPage(g[s \ {Max(s)}], pages[Max(s)])]

LEMMA MlGreatest ==
    ASSUME NEW n \in Nat, NEW s \in SUBSET (1 .. n), s # {}
    PROVE  Max(s) \in s /\ \A m \in s : m <= Max(s)
<1>1. \E x \in s : \A y \in s : x >= y
  BY GreatestOf
<1> QED BY <1>1 DEF Max

LEMMA MlFoldsNone == \A first, pages : \E g : MlFolds(g, first, pages, 0)
<1> TAKE first, pages
<1> DEFINE g == [s \in SUBSET (1 .. 0) |-> first]
<1>1. \A s \in SUBSET (1 .. 0) : s = {}
  OBVIOUS
<1>2. MlFolds(g, first, pages, 0)
  BY <1>1 DEF MlFolds
<1> QED BY <1>2

LEMMA MlFoldsOneMore ==
    ASSUME NEW first, NEW pages, NEW n \in Nat, NEW g, MlFolds(g, first, pages, n)
    PROVE  \E h : MlFolds(h, first, pages, n + 1)
<1> DEFINE h == [s \in SUBSET (1 .. (n + 1)) |->
                    IF n + 1 \in s THEN MlAddPage(g[s \ {n + 1}], pages[n + 1]) ELSE g[s]]
<1>1. ASSUME NEW s \in SUBSET (1 .. (n + 1)), n + 1 \in s
      PROVE  Max(s) = n + 1 /\ s # {} /\ s \ {n + 1} \in SUBSET (1 .. n) /\ h[s \ {n + 1}] = g[s \ {n + 1}]
             /\ h[s] = MlAddPage(g[s \ {n + 1}], pages[n + 1])
  <2>1. n + 1 \in Nat /\ s # {}
    BY <1>1
  <2>2. Max(s) \in s /\ n + 1 <= Max(s)
    BY <1>1, <2>1, MlGreatest
  <2>3. Max(s) \in 1 .. (n + 1)
    BY <2>2
  <2>4. Max(s) = n + 1
    BY <2>2, <2>3
  <2>5. s \ {n + 1} \in SUBSET (1 .. n) /\ s \ {n + 1} \in SUBSET (1 .. (n + 1))
    BY <1>1
  <2> QED BY <1>1, <2>1, <2>4, <2>5
<1>2. ASSUME NEW s \in SUBSET (1 .. n)
      PROVE  s \in SUBSET (1 .. (n + 1)) /\ n + 1 \notin s /\ h[s] = g[s]
  OBVIOUS
<1>3. ASSUME NEW s \in SUBSET (1 .. n)
      PROVE  g[s] = IF s = {} THEN first ELSE MlAddPage(g[s \ {Max(s)}], pages[Max(s)])
  BY DEF MlFolds
<1>4. ASSUME NEW s \in SUBSET (1 .. (n + 1))
      PROVE  h[s] = IF s = {} THEN first ELSE MlAddPage(h[s \ {Max(s)}], pages[Max(s)])
  <2> HIDE DEF h
  <2>1. CASE n + 1 \in s
    BY <1>1, <2>1
  <2>2. CASE n + 1 \notin s
    <3>1. s \in SUBSET (1 .. n)
      BY <2>2
    <3>2. s \ {Max(s)} \in SUBSET (1 .. n)
      BY <3>1
    <3> QED BY <1>2, <1>3, <3>1, <3>2
  <2> QED BY <2>1, <2>2
<1>5. h = [s \in SUBSET (1 .. (n + 1)) |-> h[s]]
  OBVIOUS
<1>6. MlFolds(h, first, pages, n + 1)
  <2> HIDE DEF h
  <2> QED BY <1>4, <1>5 DEF MlFolds
<1> QED BY <1>6

LEMMA MlFoldsAll ==
    ASSUME NEW first, NEW pages, NEW N \in Nat
    PROVE  \E g : MlFolds(g, first, pages, N)
<1> DEFINE bad == {n \in 1 .. N : ~\E g : MlFolds(g, first, pages, n)}
<1> SUFFICES ASSUME bad # {} PROVE FALSE
  BY MlFoldsNone
<1>1. PICK n \in bad : \A m \in bad : n <= m
  BY LeastOf
<1>2. n - 1 \in Nat /\ (n - 1 = 0 \/ n - 1 \in 1 .. N) /\ ~(n <= n - 1) /\ n = (n - 1) + 1
  BY <1>1
<1>3. PICK g : MlFolds(g, first, pages, n - 1)
  BY <1>1, <1>2, MlFoldsNone
<1>4. \E h : MlFolds(h, first, pages, n)
  BY <1>2, <1>3, MlFoldsOneMore
<1> QED BY <1>1, <1>4

\* The list after some of the pages: g[n] after n of them.
MlSteps(g, first, pages) ==
    g[0] = first /\ \A n \in 1 .. Len(pages) : g[n] = MlAddPage(g[n - 1], pages[n])

LEMMA MlFoldSteps ==
    ASSUME NEW first, NEW C, NEW pages \in Seq(C)
    PROVE  \E g : MlSteps(g, first, pages) /\ FoldLeft(MlAddPage, first, pages) = g[Len(pages)]
<1> DEFINE N == Len(pages)
           G == CHOOSE g : MlFolds(g, first, pages, N)
           g == [n \in 0 .. N |-> G[1 .. n]]
<1>1. DOMAIN pages = 1 .. N /\ N \in Nat
  OBVIOUS
<1>2. MlFolds(G, first, pages, N)
  BY <1>1, MlFoldsAll
<1>3. FoldLeft(MlAddPage, first, pages) = G[1 .. N]
  BY <1>1 DEF FoldLeft, MapThenFoldSet, MlFolds
<1> HIDE DEF G, N
<1>4. \A s \in SUBSET (1 .. N) : G[s] = IF s = {} THEN first ELSE MlAddPage(G[s \ {Max(s)}], pages[Max(s)])
  BY <1>2 DEF MlFolds
<1>5. G[1 .. 0] = first
  <2>1. 1 .. 0 = {} /\ {} \in SUBSET (1 .. N)
    OBVIOUS
  <2> QED BY <1>4, <2>1
<1>6. ASSUME NEW n \in 1 .. N PROVE G[1 .. n] = MlAddPage(G[1 .. (n - 1)], pages[n])
  <2>1. 1 .. n \in SUBSET (1 .. N) /\ 1 .. n # {} /\ n \in Nat /\ n \in 1 .. n
    BY <1>1
  <2>2. Max(1 .. n) \in 1 .. n /\ n <= Max(1 .. n)
    <3>1. 1 .. n \in SUBSET (1 .. n)
      OBVIOUS
    <3> QED BY <2>1, <3>1, MlGreatest
  <2>3. Max(1 .. n) = n
    BY <2>1, <2>2
  <2>4. (1 .. n) \ {n} = 1 .. (n - 1)
    BY <2>1
  <2> QED BY <1>4, <2>1, <2>3, <2>4
<1>7. g[0] = first /\ g[N] = G[1 .. N] /\ \A n \in 1 .. N : g[n] = MlAddPage(g[n - 1], pages[n])
  <2>1. 0 \in 0 .. N /\ N \in 0 .. N /\ \A n \in 1 .. N : n \in 0 .. N /\ n - 1 \in 0 .. N
    BY <1>1
  <2> QED BY <1>5, <1>6, <2>1
<1>8. MlSteps(g, first, pages)
  BY <1>7 DEF MlSteps, N
<1> HIDE DEF g
<1> QED BY <1>3, <1>7, <1>8 DEF N

\* A page with the pages after it, each from where the one before it ended.
MlPageBefore(base, extra, i) == IF i = 1 THEN base ELSE extra[i - 1]
MlChain(base, extra) ==
    \A i \in 1 .. Len(extra) :
        MlPageBefore(base, extra, i).more /\ extra[i] = MlPageAt(MlPageBefore(base, extra, i).next)

MlStartsRun(page) == (page.seqs = <<>> /\ ~page.more) \/ \E top \in Nat \ {0} : page = MlPageAt(top)

\* What is shown down to a page is the run down to its last message.
MlRunDown(shown, first, page) ==
    /\ shown \in Seq(Nat) /\ \A i \in 1 .. Len(shown) : shown[i] = first - i + 1
    /\ \E top \in Nat \ {0} :
          page = MlPageAt(top) /\ top <= first /\ Len(shown) = first - top + Len(page.seqs)

LEMMA MlRunGoesOn ==
    ASSUME NEW first \in Nat, NEW shown, NEW page, MlRunDown(shown, first, page), page.more
    PROVE  MlRunDown(MlAddPage(shown, MlPageAt(page.next)), first, MlPageAt(page.next))
<1>1. PICK top \in Nat \ {0} : page = MlPageAt(top) /\ top <= first /\ Len(shown) = first - top + Len(page.seqs)
  BY DEF MlRunDown
<1>2. top > MlPage /\ page.next = top - MlPage /\ Len(page.seqs) = MlPage
  <2>1. /\ Len(page.seqs) = IF top < MlPage THEN top ELSE MlPage
        /\ top > MlPage /\ page.next = top - MlPage
    BY <1>1, MlPageIs
  <2> QED BY <2>1, MlConstants DEF MlNumbers
<1> DEFINE next == page.next
           rows == MlPageAt(next).seqs
<1>3. next \in Nat \ {0} /\ next <= first /\ Len(shown) = first - next
  BY <1>1, <1>2, MlConstants DEF MlNumbers
<1>4. /\ rows \in Seq(Nat) /\ \A i \in 1 .. Len(rows) : rows[i] = next - i + 1
  BY <1>3, MlPageIs DEF MlPages
<1> HIDE DEF rows, next
<1>5. shown \in Seq(Nat) /\ \A i \in 1 .. Len(shown) : shown[i] = first - i + 1
  BY DEF MlRunDown
<1>6. ASSUME NEW i \in 1 .. Len(rows) PROVE rows[i] \notin Range(shown)
  <2>1. \A j \in DOMAIN shown : shown[j] # rows[i]
    BY <1>3, <1>4, <1>5
  <2> QED BY <2>1 DEF Range
<1>7. Unseen(shown, rows) = rows
  BY <1>4, <1>6, UnseenAll
<1>8. MlAddPage(shown, MlPageAt(next)) = shown \o rows
  BY <1>7 DEF MlAddPage, rows
<1>9. /\ shown \o rows \in Seq(Nat) /\ Len(shown \o rows) = Len(shown) + Len(rows)
      /\ \A i \in 1 .. Len(shown \o rows) : (shown \o rows)[i] = IF i <= Len(shown) THEN shown[i] ELSE rows[i - Len(shown)]
  BY <1>4, <1>5
<1>10. ASSUME NEW i \in 1 .. Len(shown \o rows) PROVE (shown \o rows)[i] = first - i + 1
  <2>1. CASE i <= Len(shown)
    <3>1. i \in 1 .. Len(shown) /\ (shown \o rows)[i] = shown[i]
      BY <1>5, <1>9, <2>1
    <3> QED BY <1>5, <3>1
  <2>2. CASE ~ (i <= Len(shown))
    <3>1. i - Len(shown) \in 1 .. Len(rows) /\ (shown \o rows)[i] = rows[i - Len(shown)]
      BY <1>4, <1>5, <1>9, <2>2
    <3>2. (shown \o rows)[i] = next - (i - Len(shown)) + 1
      BY <1>4, <3>1
    <3> QED BY <1>3, <1>5, <3>1, <3>2
  <2> QED BY <2>1, <2>2
<1>11. Len(shown \o rows) = first - next + Len(rows)
  BY <1>3, <1>9
<1>12. MlRunDown(shown \o rows, first, MlPageAt(next))
  BY <1>3, <1>9, <1>10, <1>11 DEF MlRunDown, rows
<1> QED BY <1>8, <1>12 DEF next

LEMMA MlShownIs ==
    ASSUME NEW base \in MlPages, MlStartsRun(base), NEW extra \in Seq(MlPages), MlChain(base, extra)
    PROVE  LET shown == FoldLeft(MlAddPage, base.seqs, extra)
           IN  \A i \in DOMAIN shown : shown[i] = shown[1] - i + 1
<1> DEFINE N == Len(extra)
           shown == FoldLeft(MlAddPage, base.seqs, extra)
<1>1. PICK g : MlSteps(g, base.seqs, extra) /\ shown = g[N]
  BY MlFoldSteps
<1>a. g[0] = base.seqs /\ \A n \in 1 .. N : g[n] = MlAddPage(g[n - 1], extra[n])
  BY <1>1 DEF MlSteps
<1>2. N \in Nat
  OBVIOUS
<1> HIDE DEF shown, N
<1>3. CASE base.seqs = <<>> /\ ~base.more
  <2>1. N = 0
    <3>1. 1 \in 1 .. N => base.more
      BY DEF MlChain, MlPageBefore, N
    <3> QED BY <1>2, <1>3, <3>1
  <2>2. shown = <<>>
    BY <1>1, <1>a, <1>3, <2>1
  <2> QED BY <2>2 DEF shown
<1>4. ASSUME NEW first \in Nat \ {0}, base = MlPageAt(first)
      PROVE  \A i \in DOMAIN shown : shown[i] = shown[1] - i + 1
  <2> DEFINE At(n) == IF n = 0 THEN base ELSE extra[n]
             bad == {n \in 1 .. N : ~MlRunDown(g[n], first, At(n))}
  <2>1. MlRunDown(g[0], first, At(0))
    <3>1. /\ base.seqs \in Seq(Nat) /\ \A i \in 1 .. Len(base.seqs) : base.seqs[i] = first - i + 1
      BY <1>4, MlPageIs DEF MlPages
    <3>2. Len(base.seqs) = first - first + Len(base.seqs)
      BY <3>1
    <3> QED BY <1>a, <1>4, <3>1, <3>2 DEF MlRunDown
  <2>2. ASSUME NEW n \in 1 .. N, MlRunDown(g[n - 1], first, At(n - 1)) PROVE MlRunDown(g[n], first, At(n))
    <3>1. At(n - 1) = MlPageBefore(base, extra, n) /\ At(n) = extra[n]
      BY <1>2 DEF MlPageBefore
    <3>2. At(n - 1).more /\ extra[n] = MlPageAt(At(n - 1).next)
      BY <3>1 DEF MlChain, N
    <3>3. g[n] = MlAddPage(g[n - 1], extra[n])
      BY <1>a
    <3> HIDE DEF At
    <3> QED BY <2>2, <3>1, <3>2, <3>3, MlRunGoesOn
  <2> HIDE DEF At
  <2>3. bad = {}
    <3> SUFFICES ASSUME bad # {} PROVE FALSE
      OBVIOUS
    <3>1. PICK n \in bad : \A m \in bad : n <= m
      BY <1>2, LeastOf
    <3>2. n \in 1 .. N /\ (n - 1 = 0 \/ n - 1 \in 1 .. N) /\ ~(n <= n - 1)
      BY <1>2, <3>1
    <3>3. MlRunDown(g[n - 1], first, At(n - 1))
      BY <2>1, <3>1, <3>2
    <3> QED BY <2>2, <3>1, <3>2, <3>3
  <2>4. MlRunDown(shown, first, At(N))
    <3>1. N = 0 \/ N \in 1 .. N
      BY <1>2
    <3> QED BY <1>1, <2>1, <2>3, <3>1
  <2>5. shown \in Seq(Nat) /\ \A i \in 1 .. Len(shown) : shown[i] = first - i + 1
    BY <2>4 DEF MlRunDown
  <2>6. ASSUME NEW i \in DOMAIN shown PROVE shown[i] = shown[1] - i + 1
    <3>1. i \in 1 .. Len(shown) /\ 1 \in 1 .. Len(shown) /\ first - 1 + 1 = first
      BY <2>5
    <3>2. shown[i] = first - i + 1 /\ shown[1] = first
      BY <2>5, <3>1
    <3> QED BY <3>2
  <2> QED BY <2>6
<1> QED BY <1>3, <1>4 DEF MlStartsRun, shown

---------------------------------------------------------------------------
MlTypes ==
    /\ mlLast \in Nat \ {0} /\ mlBase \in [id : Nat, page : MlPages] /\ mlExtra \in Seq(MlPages)
    /\ mlGen \in Nat /\ mlRan \in Nat /\ mlRan <= mlBase.id

\* The pages after the base page it ran for follow one another, and the page
\* asked for in its name, if any, follows the last of them.
MlPagesInv ==
    /\ MlStartsRun(mlBase.page)
    /\ mlRan = mlBase.id => MlChain(mlBase.page, mlExtra)

MlAsksInv ==
    /\ \A a \in mlAsks : a \in [gen : 0 .. mlGen, start : Nat]
    /\ \A a \in mlAsks : a.gen = mlGen =>
          /\ mlLoading
          /\ mlRan = mlBase.id => MlLastPage.more /\ a.start = MlLastPage.next
    /\ \A a, b \in mlAsks : a.gen = mlGen /\ b.gen = mlGen => a = b

MlListInv == MlTypes /\ MlPagesInv /\ MlAsksInv

LEMMA MlLastIs ==
    ASSUME MlTypes
    PROVE  /\ MlLastPage \in MlPages /\ MlLastPage = MlPageBefore(mlBase.page, mlExtra, Len(mlExtra) + 1)
           /\ Len(mlExtra) \in Nat
<1>1. Len(mlExtra) \in Nat /\ mlExtra \in Seq(MlPages) /\ mlBase.page \in MlPages
  BY DEF MlTypes
<1>2. CASE mlExtra = <<>>
  BY <1>1, <1>2 DEF MlLastPage, MlPageBefore
<1>3. CASE mlExtra # <<>>
  <2>1. Len(mlExtra) \in 1 .. Len(mlExtra) /\ MlLastPage = mlExtra[Len(mlExtra)]
    BY <1>1, <1>3 DEF MlLastPage, Last
  <2> QED BY <1>1, <2>1 DEF MlPageBefore
<1> QED BY <1>1, <1>2, <1>3

LEMMA MlListStep == MlListInv /\ [MlNext]_mlVars => MlListInv'
<1> SUFFICES ASSUME MlListInv, [MlNext]_mlVars PROVE MlListInv'
  OBVIOUS
<1>0. MlTypes /\ MlPagesInv /\ MlAsksInv
  BY DEF MlListInv
<1>1. ASSUME UNCHANGED <<mlBase, mlExtra, mlLoading, mlGen, mlRan, mlAsks>>, mlLast' \in Nat \ {0} PROVE MlListInv'
  <2>1. MlTypes' /\ MlPagesInv'
    BY <1>0, <1>1 DEF MlTypes, MlPagesInv
  <2>2. MlLastPage' = MlLastPage
    BY <1>1 DEF MlLastPage
  <2>3. MlAsksInv'
    BY <1>0, <1>1, <2>2 DEF MlAsksInv
  <2> QED BY <2>1, <2>3 DEF MlListInv
<1>2. CASE MlPublished
  <2>1. mlLast' \in Nat \ {0}
    BY <1>0, <1>2 DEF MlPublished, MlTypes
  <2> QED BY <1>1, <1>2, <2>1 DEF MlPublished, mlListed
<1>3. CASE MlNewBase
  <2>1. /\ mlRan' = mlBase.id /\ mlGen' = mlGen + 1 /\ mlExtra' = <<>> /\ UNCHANGED <<mlLast, mlBase, mlAsks>>
    BY <1>3 DEF MlNewBase
  <2>2. <<>> \in Seq(MlPages) /\ Len(<<>>) = 0
    OBVIOUS
  <2>3. MlTypes'
    BY <1>0, <2>1, <2>2 DEF MlTypes
  <2>4. MlChain(mlBase.page, <<>>)
    BY DEF MlChain
  <2>5. MlPagesInv'
    BY <1>0, <2>1, <2>4 DEF MlPagesInv
  <2>6. \A a \in mlAsks : a \in [gen : 0 .. (mlGen + 1), start : Nat] /\ a.gen # mlGen + 1
    <3>1. mlGen \in Nat
      BY <1>0 DEF MlTypes
    <3> QED BY <1>0, <3>1 DEF MlAsksInv
  <2>7. MlAsksInv'
    BY <2>1, <2>6 DEF MlAsksInv
  <2> QED BY <2>3, <2>5, <2>7 DEF MlListInv
<1>4. CASE MlLoadMore
  <2> DEFINE ask == [gen |-> mlGen, start |-> MlLastPage.next]
  <2>1. /\ ~mlLoading /\ mlLoading' /\ mlAsks' = mlAsks \cup {ask} /\ MlLastPage.more
        /\ UNCHANGED <<mlLast, mlBase, mlExtra, mlGen, mlRan>>
    BY <1>4 DEF MlLoadMore, MlCanLoadMore
  <2>2. MlTypes' /\ MlPagesInv'
    BY <1>0, <2>1 DEF MlTypes, MlPagesInv
  <2>3. MlLastPage' = MlLastPage
    BY <2>1 DEF MlLastPage
  <2>4. ask \in [gen : 0 .. mlGen, start : Nat] /\ ask.gen = mlGen /\ ask.start = MlLastPage.next
    <3>1. mlGen \in 0 .. mlGen /\ MlLastPage.next \in Nat
      BY <1>0, MlLastIs DEF MlTypes, MlPages
    <3> QED BY <3>1
  <2> HIDE DEF ask
  <2>5. \A a \in mlAsks : a.gen # mlGen
    BY <1>0, <2>1 DEF MlAsksInv
  <2>6. MlAsksInv'
    BY <1>0, <2>1, <2>3, <2>4, <2>5 DEF MlAsksInv
  <2> QED BY <2>2, <2>6 DEF MlListInv
<1>5. ASSUME NEW ok \in BOOLEAN, MlBaseAnswer(ok) PROVE MlListInv'
  <2>1. CASE mlBase' = mlBase
    BY <1>0, <1>1, <1>5, <2>1 DEF MlBaseAnswer, MlTypes
  <2>2. CASE mlBase' = [id |-> mlBase.id + 1, page |-> MlPageAt(mlLast)]
    <3>1. UNCHANGED <<mlLast, mlExtra, mlLoading, mlGen, mlRan, mlAsks>>
      BY <1>5 DEF MlBaseAnswer
    <3>2. MlPageAt(mlLast) \in MlPages /\ mlLast \in Nat \ {0}
      BY <1>0, MlPageIs DEF MlTypes
    <3>3. mlRan # mlBase'.id /\ mlBase' \in [id : Nat, page : MlPages] /\ mlRan <= mlBase'.id
      BY <1>0, <2>2, <3>2 DEF MlTypes
    <3>4. MlTypes'
      BY <1>0, <3>1, <3>3 DEF MlTypes
    <3>5. MlPagesInv'
      BY <2>2, <3>1, <3>2, <3>3 DEF MlPagesInv, MlStartsRun
    <3>6. MlAsksInv'
      BY <1>0, <3>1, <3>3 DEF MlAsksInv
    <3> QED BY <3>4, <3>5, <3>6 DEF MlListInv
  <2> QED BY <1>5, <2>1, <2>2 DEF MlBaseAnswer
<1>6. ASSUME NEW ask \in mlAsks, NEW ok \in BOOLEAN, MlMoreAnswer(ask, ok) PROVE MlListInv'
  <2>1. /\ mlAsks' = mlAsks \ {ask} /\ UNCHANGED <<mlLast, mlBase, mlGen, mlRan>>
        /\ mlLoading' = (mlLoading /\ ask.gen # mlGen)
    BY <1>6 DEF MlMoreAnswer
  <2>2. ask \in [gen : 0 .. mlGen, start : Nat]
    BY <1>0 DEF MlAsksInv
  <2>3. CASE mlExtra' = mlExtra
    <3>1. MlTypes' /\ MlPagesInv' /\ MlLastPage' = MlLastPage
      BY <1>0, <2>1, <2>3 DEF MlTypes, MlPagesInv, MlLastPage
    <3>2. \A a \in mlAsks \ {ask} : a.gen = mlGen => ask.gen # mlGen
      BY <1>0 DEF MlAsksInv
    <3>3. MlAsksInv'
      BY <1>0, <2>1, <3>1, <3>2 DEF MlAsksInv
    <3> QED BY <3>1, <3>3 DEF MlListInv
  <2>4. CASE mlExtra' = Append(mlExtra, MlPageAt(ask.start)) /\ ask.gen = mlGen
    <3> DEFINE page == MlPageAt(ask.start)
               n == Len(mlExtra)
    <3>1. page \in MlPages /\ mlExtra \in Seq(MlPages) /\ n \in Nat
      BY <1>0, <2>2, MlPageIs DEF MlTypes
    <3> HIDE DEF page
    <3>2. /\ mlExtra' = Append(mlExtra, page) /\ mlExtra' \in Seq(MlPages) /\ Len(mlExtra') = n + 1
          /\ mlExtra'[n + 1] = page /\ \A i \in 1 .. n : mlExtra'[i] = mlExtra[i]
      BY <2>4, <3>1 DEF page
    <3>3. MlTypes'
      BY <1>0, <2>1, <3>2 DEF MlTypes
    <3>4. \A a \in mlAsks \ {ask} : a.gen # mlGen
      BY <1>0, <2>4 DEF MlAsksInv
    <3>5. MlAsksInv'
      BY <1>0, <2>1, <3>4 DEF MlAsksInv
    <3>6. ASSUME mlRan = mlBase.id PROVE MlChain(mlBase.page, mlExtra')
      <4>1. MlChain(mlBase.page, mlExtra) /\ MlLastPage.more /\ ask.start = MlLastPage.next
        BY <1>0, <2>4, <3>6 DEF MlPagesInv, MlAsksInv
      <4>2. MlLastPage = MlPageBefore(mlBase.page, mlExtra, n + 1)
        BY <1>0, MlLastIs
      <4> SUFFICES ASSUME NEW i \in 1 .. (n + 1)
                   PROVE  /\ MlPageBefore(mlBase.page, mlExtra', i).more
                          /\ mlExtra'[i] = MlPageAt(MlPageBefore(mlBase.page, mlExtra', i).next)
        BY <3>2 DEF MlChain
      <4>3. MlPageBefore(mlBase.page, mlExtra', i) = MlPageBefore(mlBase.page, mlExtra, i)
        <5> HIDE DEF n
        <5>1. i = 1 \/ i - 1 \in 1 .. n
          BY <3>1
        <5> QED BY <3>2, <5>1 DEF MlPageBefore
      <4>4. CASE i = n + 1
        BY <3>2, <4>1, <4>2, <4>3, <4>4 DEF page
      <4>5. CASE i # n + 1
        <5>1. i \in 1 .. n
          BY <3>1, <4>5
        <5> QED BY <3>2, <4>1, <4>3, <5>1 DEF MlChain
      <4> QED BY <4>4, <4>5
    <3>7. MlPagesInv'
      BY <1>0, <2>1, <3>6 DEF MlPagesInv
    <3> QED BY <3>3, <3>5, <3>7 DEF MlListInv
  <2> QED BY <1>6, <2>3, <2>4 DEF MlMoreAnswer
<1>7. CASE MlRefetch \/ (\E mode \in {"history", "realtime"} : MlSetMode(mode))
  BY <1>0, <1>1, <1>7 DEF MlRefetch, MlSetMode, MlTypes
<1>8. CASE MlToggleCompare \/ MlCancelCompare \/ MlOpenDiff \/ (\E s \in 1 .. MlMax : MlCompare(s)) \/ UNCHANGED mlVars
  BY <1>0, <1>1, <1>8 DEF MlToggleCompare, MlCancelCompare, MlOpenDiff, MlCompare, mlVars, mlListed, MlTypes
<1>9. CASE MlOpenExport \/ MlStartExport \/ MlCancelExport \/ MlCloseExport \/ MlWalk \/ MlSave
  BY <1>0, <1>1, <1>9 DEF MlOpenExport, MlStartExport, MlCancelExport, MlCloseExport, MlWalk, MlSave, mlListed, MlTypes
<1> QED BY <1>2, <1>3, <1>4, <1>5, <1>6, <1>7, <1>8, <1>9 DEF MlNext

\* The list is an unbroken run from the newest message of its base page.
THEOREM ListIsUnbroken == MlSpec => []MlUnbroken
<1>1. MlInit => MlListInv
  <2> SUFFICES ASSUME MlInit PROVE MlListInv
    OBVIOUS
  <2>1. <<>> \in Seq(MlPages) /\ <<>> \in Seq(Nat) /\ Len(<<>>) = 0 /\ MlMax \in Nat
    BY MlConstants DEF MlNumbers
  <2>2. /\ mlLast \in Nat \ {0} /\ mlBase = [id |-> 0, page |-> [seqs |-> <<>>, more |-> FALSE, next |-> 0]]
        /\ mlExtra = <<>> /\ mlGen = 0 /\ mlRan = 0 /\ mlAsks = {}
    BY <2>1 DEF MlInit
  <2>3. MlTypes
    BY <2>1, <2>2 DEF MlTypes, MlPages
  <2>4. MlPagesInv /\ MlAsksInv
    BY <2>1, <2>2 DEF MlPagesInv, MlAsksInv, MlStartsRun, MlChain
  <2> QED BY <2>3, <2>4 DEF MlListInv
<1>2. MlListInv => MlUnbroken
  <2> SUFFICES ASSUME MlListInv, mlRan = mlBase.id
               PROVE  \A i \in DOMAIN MlShown : MlShown[i] = MlShown[1] - i + 1
    BY DEF MlUnbroken
  <2>1. mlBase.page \in MlPages /\ MlStartsRun(mlBase.page) /\ mlExtra \in Seq(MlPages) /\ MlChain(mlBase.page, mlExtra)
    BY DEF MlListInv, MlTypes, MlPagesInv
  <2> QED BY <2>1, MlShownIs DEF MlShown
<1> QED BY <1>1, <1>2, MlListStep, PTL DEF MlSpec

---------------------------------------------------------------------------
MlExports == [on : BOOLEAN, next : Nat, taken : Seq(Nat), seen : Nat, aborted : BOOLEAN,
              result : {"none", "whole", "truncated", "aborted", "failed"}]

\* A walk goes on where what it took ends, with room left and a message to take.
MlExportInv ==
    /\ mlLast \in Nat \ {0} /\ mlExport \in MlExports
    /\ mlExport.on => /\ mlExport.result = "none" /\ mlExport.next = Len(mlExport.taken) + 1
                      /\ mlExport.next <= mlLast /\ Len(mlExport.taken) < MlLimit
    /\ MlExportWhole

LEMMA NumbersAreSeq ==
    ASSUME NEW n \in Nat, NEW f \in [1 .. n -> Nat]
    PROVE  f \in Seq(Nat) /\ Len(f) = n /\ DOMAIN f = 1 .. n
OBVIOUS

LEMMA JoinedIs ==
    ASSUME NEW s \in Seq(Nat), NEW t \in Seq(Nat)
    PROVE  /\ s \o t \in Seq(Nat) /\ Len(s \o t) = Len(s) + Len(t)
           /\ \A i \in 1 .. (Len(s) + Len(t)) : (s \o t)[i] = IF i <= Len(s) THEN s[i] ELSE t[i - Len(s)]
OBVIOUS

LEMMA MlNoExportIs ==
    /\ MlNoExport \in MlExports /\ ~MlNoExport.on /\ MlNoExport.taken = <<>> /\ MlNoExport.result = "none"
    /\ MlNoExport.next = 0
<1>1. <<>> \in Seq(Nat)
  OBVIOUS
<1> QED BY <1>1 DEF MlNoExport, MlExports

\* One page of the walk.
LEMMA MlWalkedIs ==
    ASSUME MlExportInv, mlExport.on
    PROVE  LET e == MlWalked IN
           /\ e \in MlExports /\ Len(e.taken) <= MlLimit /\ \A i \in DOMAIN e.taken : e.taken[i] = i
           /\ e.on => /\ e.result = "none" /\ e.next = Len(e.taken) + 1 /\ e.next <= mlLast /\ Len(e.taken) < MlLimit
           /\ e.result = "whole" => Len(e.taken) = e.seen
<1> DEFINE start == mlExport.next
           stop == IF mlLast < start + MlPage THEN mlLast ELSE start + MlPage - 1
           page == [i \in 1 .. stop - start + 1 |-> start + i - 1]
           room == MlLimit - Len(mlExport.taken)
           part == SubSeq(page, 1, IF Len(page) < room THEN Len(page) ELSE room)
           taken == mlExport.taken \o part
           had == Len(mlExport.taken)
<1>1. /\ mlExport \in MlExports /\ mlExport.taken \in Seq(Nat) /\ had \in Nat /\ start = had + 1 /\ start <= mlLast
      /\ mlExport.result = "none" /\ mlLast \in Nat /\ room \in Nat \ {0} /\ had + room = MlLimit
      /\ \A i \in 1 .. had : mlExport.taken[i] = i
  BY MlConstants DEF MlExportInv, MlExportWhole, MlExports, MlNumbers
<1>2. stop \in Nat /\ start <= stop /\ stop <= mlLast
  BY <1>1, MlConstants DEF MlNumbers
<1> HIDE DEF stop, room, had, start
<1>3. page \in Seq(Nat) /\ Len(page) = stop - had /\ stop - had \in Nat /\ \A i \in 1 .. Len(page) : page[i] = had + i
  <2>1. \A i \in 1 .. stop - start + 1 : start + i - 1 \in Nat /\ start + i - 1 = had + i
    BY <1>1, <1>2
  <2>2. page \in [1 .. stop - start + 1 -> Nat] /\ stop - start + 1 \in Nat /\ stop - start + 1 = stop - had
    BY <1>1, <1>2, <2>1
  <2>3. \A i \in 1 .. stop - start + 1 : page[i] = had + i
    BY <2>1
  <2> HIDE DEF page
  <2>4. page \in Seq(Nat) /\ Len(page) = stop - start + 1
    BY <2>2, NumbersAreSeq
  <2> QED BY <2>2, <2>3, <2>4
<1> HIDE DEF page
<1> DEFINE cut == IF Len(page) < room THEN Len(page) ELSE room
<1>4. part = SubSeq(page, 1, cut) /\ cut \in Nat /\ cut <= Len(page) /\ cut <= room
  BY <1>1, <1>3
<1>5. part \in Seq(Nat) /\ Len(part) = cut /\ \A i \in 1 .. cut : part[i] = had + i
  <2> HIDE DEF cut, part
  <2> QED BY <1>3, <1>4
<1> HIDE DEF part
<1>6. taken \in Seq(Nat) /\ Len(taken) = had + cut /\ Len(taken) <= MlLimit
  <2>1. Len(mlExport.taken) = had
    BY DEF had
  <2> HIDE DEF cut, part
  <2>2. taken \in Seq(Nat) /\ Len(taken) = Len(mlExport.taken) + Len(part)
    BY <1>1, <1>5, JoinedIs
  <2> HIDE DEF taken
  <2>3. MlLimit \in Nat
    BY MlConstants DEF MlNumbers
  <2> QED BY <1>1, <1>4, <1>5, <2>1, <2>2, <2>3
<1>7. \A i \in DOMAIN taken : taken[i] = i
  <2>0. Len(mlExport.taken) = had
    BY DEF had
  <2> HIDE DEF cut, part
  <2>9. \A i \in 1 .. (had + cut) : taken[i] = IF i <= had THEN mlExport.taken[i] ELSE part[i - had]
    BY <1>1, <1>5, <2>0, JoinedIs
  <2>8. DOMAIN taken = 1 .. (had + cut)
    <3> HIDE DEF taken
    <3> QED BY <1>6
  <2> HIDE DEF taken
  <2> SUFFICES ASSUME NEW i \in DOMAIN taken PROVE taken[i] = i
    OBVIOUS
  <2>1. i \in 1 .. (had + cut) /\ taken[i] = IF i <= had THEN mlExport.taken[i] ELSE part[i - had]
    BY <2>8, <2>9
  <2>2. CASE i <= had
    BY <1>1, <2>1, <2>2
  <2>3. CASE ~ (i <= had)
    <3>1. i - had \in 1 .. cut
      BY <1>1, <1>4, <2>1, <2>3
    <3> QED BY <1>1, <1>5, <2>1, <2>3, <3>1
  <2> QED BY <2>2, <2>3
<1> HIDE DEF taken
<1>8. MlLimit \in Nat
  BY MlConstants DEF MlNumbers
<1> DEFINE clipped == MlClipped(page, room)
<1>9. /\ had <= MlLimit
      /\ \/ MlWalked = [mlExport EXCEPT !.on = FALSE, !.result = "aborted"]
         \/ stop = mlLast /\ ~clipped /\ MlWalked = [mlExport EXCEPT !.on = FALSE, !.taken = taken, !.seen = mlLast, !.result = "whole"]
         \/ stop = mlLast /\ MlWalked = [mlExport EXCEPT !.on = FALSE, !.taken = taken, !.seen = mlLast, !.result = "truncated"]
         \/ MlWalked = [mlExport EXCEPT !.on = FALSE, !.taken = taken, !.result = "truncated"]
         \/ stop # mlLast /\ Len(taken) < MlLimit /\ MlWalked = [mlExport EXCEPT !.next = stop + 1, !.taken = taken]
  <2>1. had <= MlLimit
    BY <1>1, <1>8
  <2>2. ~ (Len(taken) >= MlLimit) => Len(taken) < MlLimit
    <3>1. Len(taken) \in Nat
      BY <1>6
    <3> QED BY <1>8, <3>1
  <2>3. MlWalked = IF mlExport.aborted THEN [mlExport EXCEPT !.on = FALSE, !.result = "aborted"]
        ELSE IF stop = mlLast
             THEN [mlExport EXCEPT !.on = FALSE, !.taken = taken, !.seen = mlLast,
                                   !.result = IF clipped THEN "truncated" ELSE "whole"]
        ELSE IF Len(taken) >= MlLimit
             THEN [mlExport EXCEPT !.on = FALSE, !.taken = taken, !.result = "truncated"]
        ELSE [mlExport EXCEPT !.next = stop + 1, !.taken = taken]
    BY DEF MlWalked, taken, part, page, room, had, stop, start
  <2> HIDE DEF clipped
  <2> QED BY <2>1, <2>2, <2>3
<1>10. CASE MlWalked = [mlExport EXCEPT !.on = FALSE, !.result = "aborted"]
  <2>1. DOMAIN mlExport.taken = 1 .. had
    BY <1>1 DEF had
  <2> QED BY <1>1, <1>9, <1>10, <2>1 DEF MlExports, had
<1>11. CASE stop = mlLast /\ ~clipped /\ MlWalked = [mlExport EXCEPT !.on = FALSE, !.taken = taken, !.seen = mlLast, !.result = "whole"]
  <2>1. cut = Len(page)
    BY <1>1, <1>3, <1>11 DEF MlClipped
  <2>2. Len(taken) = mlLast
    BY <1>1, <1>2, <1>3, <1>6, <1>11, <2>1
  <2> QED BY <1>1, <1>6, <1>7, <1>11, <2>2 DEF MlExports
<1>12. CASE stop = mlLast /\ MlWalked = [mlExport EXCEPT !.on = FALSE, !.taken = taken, !.seen = mlLast, !.result = "truncated"]
  BY <1>1, <1>6, <1>7, <1>12 DEF MlExports
<1>13. CASE MlWalked = [mlExport EXCEPT !.on = FALSE, !.taken = taken, !.result = "truncated"]
  BY <1>1, <1>6, <1>7, <1>13 DEF MlExports
<1>14. CASE stop # mlLast /\ Len(taken) < MlLimit /\ MlWalked = [mlExport EXCEPT !.next = stop + 1, !.taken = taken]
  <2>1. stop + 1 \in Nat /\ stop + 1 <= mlLast
    BY <1>1, <1>2, <1>14
  <2>2. Len(taken) = stop
    <3>1. CASE cut = Len(page)
      BY <1>1, <1>2, <1>3, <1>6, <3>1
    <3>2. CASE cut = room
      BY <1>1, <1>6, <1>8, <1>14, <3>2
    <3> QED BY <3>1, <3>2
  <2>3. /\ MlWalked \in MlExports /\ MlWalked.taken = taken /\ MlWalked.next = stop + 1 /\ MlWalked.result = "none"
    BY <1>1, <1>6, <1>14, <2>1 DEF MlExports
  <2> QED BY <1>6, <1>7, <1>14, <2>1, <2>2, <2>3
<1> QED BY <1>9, <1>10, <1>11, <1>12, <1>13, <1>14

LEMMA MlExportStep == MlExportInv /\ [MlNext]_mlVars => MlExportInv'
<1> SUFFICES ASSUME MlExportInv, [MlNext]_mlVars PROVE MlExportInv'
  OBVIOUS
<1>0. mlLast \in Nat \ {0} /\ mlExport \in MlExports /\ MlExportWhole
  BY DEF MlExportInv
<1>1. ASSUME UNCHANGED mlExport, mlLast' \in Nat, mlLast <= mlLast' PROVE MlExportInv'
  BY <1>1 DEF MlExportInv, MlExportWhole, MlExports
<1>2. CASE MlPublished
  BY <1>0, <1>1, <1>2 DEF MlPublished, mlExports
<1>3. ASSUME UNCHANGED mlLast, NEW aborted \in BOOLEAN, mlExport' = [mlExport EXCEPT !.aborted = aborted] PROVE MlExportInv'
  <2>1. /\ mlExport' \in MlExports /\ mlExport'.on = mlExport.on /\ mlExport'.next = mlExport.next
        /\ mlExport'.taken = mlExport.taken /\ mlExport'.seen = mlExport.seen /\ mlExport'.result = mlExport.result
    BY <1>0, <1>3 DEF MlExports
  <2> QED BY <1>3, <2>1 DEF MlExportInv, MlExportWhole
<1>4. CASE MlCancelExport
  BY <1>3, <1>4 DEF MlCancelExport
<1>5. CASE MlCloseExport
  <2>1. UNCHANGED mlLast /\ mlExport' = [mlExport EXCEPT !.aborted = (mlExport.aborted \/ mlDialog = "busy")]
    BY <1>5 DEF MlCloseExport
  <2>2. (mlExport.aborted \/ mlDialog = "busy") \in BOOLEAN
    OBVIOUS
  <2> QED BY <1>3, <2>1, <2>2
<1>6. CASE MlStartExport
  <2>1. mlExport' = [MlNoExport EXCEPT !.on = TRUE, !.next = 1] /\ UNCHANGED mlLast
    BY <1>6 DEF MlStartExport
  <2>2. /\ mlExport' \in MlExports /\ mlExport'.on /\ mlExport'.next = 1 /\ mlExport'.taken = <<>> /\ mlExport'.result = "none"
    BY <2>1, MlNoExportIs DEF MlExports
  <2>3. Len(<<>>) = 0 /\ DOMAIN <<>> = {} /\ 0 < MlLimit /\ 0 <= MlLimit
    BY MlConstants DEF MlNumbers
  <2> QED BY <1>0, <2>1, <2>2, <2>3 DEF MlExportInv, MlExportWhole
<1>7. ASSUME mlExport'.taken = <<>>, ~mlExport'.on, mlExport' \in MlExports, mlExport'.result # "whole", UNCHANGED mlLast PROVE MlExportInv'
  <2>1. Len(<<>>) = 0 /\ DOMAIN <<>> = {} /\ 0 <= MlLimit
    BY MlConstants DEF MlNumbers
  <2> QED BY <1>0, <1>7, <2>1 DEF MlExportInv, MlExportWhole
<1>8. CASE MlSave
  BY <1>7, <1>8, MlNoExportIs DEF MlSave
<1>9. CASE MlWalk
  <2>1. mlExport.on /\ UNCHANGED mlLast
    BY <1>9 DEF MlWalk
  <2>2. CASE mlExport' = MlWalked
    BY <1>0, <2>1, <2>2, MlWalkedIs DEF MlExportInv, MlExportWhole
  <2>3. CASE mlExport' = [mlExport EXCEPT !.on = FALSE, !.taken = <<>>, !.result = "failed"]
    <3>1. <<>> \in Seq(Nat)
      OBVIOUS
    <3>2. mlExport'.taken = <<>> /\ ~mlExport'.on /\ mlExport' \in MlExports /\ mlExport'.result = "failed"
      BY <1>0, <2>3, <3>1 DEF MlExports
    <3> QED BY <1>7, <2>1, <3>2
  <2> QED BY <1>9, <2>2, <2>3 DEF MlWalk
<1>10. CASE \/ MlRefetch \/ MlNewBase \/ MlLoadMore \/ (\E ok \in BOOLEAN : MlBaseAnswer(ok))
            \/ (\E mode \in {"history", "realtime"} : MlSetMode(mode))
            \/ (\E ask \in mlAsks, ok \in BOOLEAN : MlMoreAnswer(ask, ok))
  <2>1. UNCHANGED <<mlLast, mlExport>>
    BY <1>10 DEF MlRefetch, MlNewBase, MlLoadMore, MlBaseAnswer, MlSetMode, MlMoreAnswer, mlExports
  <2> QED BY <1>0, <1>1, <2>1
<1>11. CASE MlToggleCompare \/ MlCancelCompare \/ MlOpenDiff \/ (\E s \in 1 .. MlMax : MlCompare(s)) \/ UNCHANGED mlVars
  <2>1. UNCHANGED <<mlLast, mlExport>>
    BY <1>11 DEF MlToggleCompare, MlCancelCompare, MlOpenDiff, MlCompare, mlVars, mlExports
  <2> QED BY <1>0, <1>1, <2>1
<1>12. CASE MlOpenExport
  BY <1>0, <1>1, <1>12 DEF MlOpenExport
<1> QED BY <1>2, <1>4, <1>5, <1>6, <1>8, <1>9, <1>10, <1>11, <1>12 DEF MlNext

\* An export that does not say it was cut holds the stream from its first
\* message to the last its last page found.
THEOREM ExportIsWhole == MlSpec => []MlExportWhole
<1>1. MlInit => MlExportInv
  <2> SUFFICES ASSUME MlInit PROVE MlExportInv
    OBVIOUS
  <2>1. mlLast \in Nat \ {0} /\ mlExport = MlNoExport
    BY MlConstants DEF MlInit, MlNumbers
  <2>2. Len(<<>>) = 0 /\ DOMAIN <<>> = {} /\ 0 <= MlLimit
    BY MlConstants DEF MlNumbers
  <2> QED BY <2>1, <2>2, MlNoExportIs DEF MlExportInv, MlExportWhole
<1>2. MlExportInv => MlExportWhole
  BY DEF MlExportInv
<1> QED BY <1>1, <1>2, MlExportStep, PTL DEF MlSpec

\* What the types of the list rest on: generations follow the base pages the effect
\* ran for, and the dialog is busy only while a walk is.
MlTypeInv ==
    /\ mlLast \in 1 .. MlMax /\ mlMode \in {"history", "realtime"} /\ mlLoading \in BOOLEAN
    /\ "id" \in DOMAIN mlBase /\ mlBase.id \in 0 .. MlBound /\ mlRan \in 0 .. mlBase.id /\ mlGen \in 0 .. mlRan
    /\ {"on", "two", "diff"} \subseteq DOMAIN mlPair /\ mlPair.two \in Seq(1 .. MlMax) /\ Len(mlPair.two) <= 2
    /\ {"on", "result"} \subseteq DOMAIN mlExport
    /\ mlExport.result \in {"none", "whole", "truncated", "aborted", "failed"}
    /\ mlExport.on => mlExport.result = "none"
    /\ mlDialog \in {"closed", "open", "busy"} /\ (mlDialog = "busy" => mlExport.on)

LEMMA MlBoundsAre == MlMax \in Nat \ {0} /\ MlBound \in Nat \ {0} /\ 0 \in 0 .. MlBound
<1>1. MlMax \in Nat \ {0} /\ MlBound \in Nat \ {0}
  BY MlAssumption DEF MlAssumption
<1> QED BY <1>1

LEMMA MlElement ==
    ASSUME NEW C, NEW s \in Seq(C), NEW i \in 1 .. Len(s)
    PROVE  s[i] \in C
OBVIOUS

\* Of two, no more than two are left.
LEMMA MlLetGo ==
    ASSUME NEW C, NEW two \in Seq(C), Len(two) <= 2, NEW s
    PROVE  Unseen(<<s>>, two) \in Seq(C) /\ Len(Unseen(<<s>>, two)) <= 2
<1> DEFINE u == Unseen(<<s>>, two)
<1>1. u \in Seq(C) /\ \E f \in [1 .. Len(u) -> 1 .. Len(two)] :
                          \A i, j \in 1 .. Len(u) : i < j => f[i] < f[j]
  BY UnseenIs
<1> HIDE DEF u
<1>2. PICK f \in [1 .. Len(u) -> 1 .. Len(two)] : \A i, j \in 1 .. Len(u) : i < j => f[i] < f[j]
  BY <1>1
<1>3. Len(u) \in Nat /\ Len(two) \in Nat
  BY <1>1
<1>4. ASSUME Len(u) > 2 PROVE FALSE
  <2>1. 1 \in 1 .. Len(u) /\ 2 \in 1 .. Len(u) /\ 3 \in 1 .. Len(u)
    BY <1>3, <1>4
  <2>2. f[1] < f[2] /\ f[2] < f[3] /\ f[1] \in 1 .. Len(two) /\ f[2] \in 1 .. Len(two) /\ f[3] \in 1 .. Len(two)
    BY <1>2, <2>1
  <2> QED BY <1>3, <2>2
<1>5. Len(u) <= 2
  BY <1>3, <1>4
<1> QED BY <1>1, <1>5 DEF u

LEMMA MlTypeStep == MlTypeInv /\ [MlNext]_mlVars => MlTypeInv'
<1> SUFFICES ASSUME MlTypeInv, [MlNext]_mlVars PROVE MlTypeInv'
  OBVIOUS
<1> USE DEF MlTypeInv
<1>c. MlMax \in Nat \ {0} /\ MlBound \in Nat \ {0}
  BY MlBoundsAre
<1>1. mlLast' \in 1 .. MlMax
  <2>1. mlLast' = mlLast \/ MlPublished
    BY Zenon DEF MlNext, MlRefetch, MlNewBase, MlLoadMore, MlBaseAnswer, MlSetMode, MlMoreAnswer,
       MlToggleCompare, MlCancelCompare, MlOpenDiff, MlCompare, MlOpenExport, MlStartExport, MlCancelExport,
       MlCloseExport, MlWalk, MlSave, mlListed, mlExports, mlVars
  <2>2. CASE MlPublished
    BY <1>c, <2>2 DEF MlPublished
  <2> QED BY <2>1, <2>2
<1>2. mlMode' \in {"history", "realtime"} /\ mlLoading' \in BOOLEAN
  <2>1. mlMode' = mlMode \/ mlMode' \in {"history", "realtime"}
    BY Zenon DEF MlNext, MlPublished, MlRefetch, MlNewBase, MlLoadMore, MlBaseAnswer, MlSetMode,
       MlMoreAnswer, MlToggleCompare, MlCancelCompare, MlOpenDiff, MlCompare, MlOpenExport, MlStartExport,
       MlCancelExport, MlCloseExport, MlWalk, MlSave, mlListed, mlExports, mlVars
  <2>2. mlLoading' = mlLoading \/ mlLoading' = TRUE \/ mlLoading' = FALSE \/ \E x, y : mlLoading' = (x /\ y)
    BY Zenon DEF MlNext, MlPublished, MlRefetch, MlNewBase, MlLoadMore, MlBaseAnswer, MlSetMode,
       MlMoreAnswer, MlToggleCompare, MlCancelCompare, MlOpenDiff, MlCompare, MlOpenExport, MlStartExport,
       MlCancelExport, MlCloseExport, MlWalk, MlSave, mlListed, mlExports, mlVars
  <2> QED BY <2>1, <2>2, Zenon
<1>3. "id" \in DOMAIN mlBase' /\ mlBase'.id \in 0 .. MlBound /\ mlRan' \in 0 .. mlBase'.id /\ mlGen' \in 0 .. mlRan'
  <2>1. \/ UNCHANGED <<mlBase, mlRan, mlGen>>
        \/ \E ok \in BOOLEAN : MlBaseAnswer(ok)
        \/ MlNewBase
    BY Zenon DEF MlNext, MlPublished, MlRefetch, MlLoadMore, MlSetMode, MlMoreAnswer, MlToggleCompare,
       MlCancelCompare, MlOpenDiff, MlCompare, MlOpenExport, MlStartExport, MlCancelExport, MlCloseExport,
       MlWalk, MlSave, mlListed, mlExports, mlVars
  <2>2. CASE \E ok \in BOOLEAN : MlBaseAnswer(ok)
    <3>1. /\ mlBase.id < MlBound /\ UNCHANGED <<mlRan, mlGen>>
          /\ mlBase' = mlBase \/ mlBase' = [id |-> mlBase.id + 1, page |-> MlPageAt(mlLast)]
      BY <2>2 DEF MlBaseAnswer
    <3>2. CASE mlBase' = [id |-> mlBase.id + 1, page |-> MlPageAt(mlLast)]
      <4>1. "id" \in DOMAIN mlBase' /\ mlBase'.id = mlBase.id + 1
        BY <3>2
      <4> QED BY <1>c, <3>1, <4>1
    <3> QED BY <3>1, <3>2
  <2>3. CASE MlNewBase
    <3>1. mlRan # mlBase.id /\ mlRan' = mlBase.id /\ mlGen' = mlGen + 1 /\ mlBase' = mlBase
      BY <2>3 DEF MlNewBase
    <3> QED BY <1>c, <3>1
  <2> QED BY <2>1, <2>2, <2>3
<1>4. {"on", "two", "diff"} \subseteq DOMAIN mlPair' /\ mlPair'.two \in Seq(1 .. MlMax) /\ Len(mlPair'.two) <= 2
  <2>e. <<>> \in Seq(1 .. MlMax) /\ Len(<<>>) = 0
    OBVIOUS
  <2>1. \/ mlPair' = mlPair \/ MlToggleCompare \/ MlCancelCompare \/ MlOpenDiff
        \/ \E s \in 1 .. MlMax : MlCompare(s)
    BY Zenon DEF MlNext, MlPublished, MlRefetch, MlNewBase, MlLoadMore, MlBaseAnswer, MlSetMode,
       MlMoreAnswer, MlOpenExport, MlStartExport, MlCancelExport, MlCloseExport, MlWalk, MlSave, mlListed,
       mlExports, mlVars
  <2>2. CASE MlToggleCompare
    <3>1. mlPair' = MlNoPair \/ mlPair' = [mlPair EXCEPT !.on = TRUE]
      BY <2>2 DEF MlToggleCompare
    <3>2. {"on", "two", "diff"} \subseteq DOMAIN MlNoPair /\ MlNoPair.two = <<>>
      BY DEF MlNoPair
    <3>3. CASE mlPair' = MlNoPair
      <4>1. {"on", "two", "diff"} \subseteq DOMAIN mlPair' /\ mlPair'.two = <<>>
        BY <3>2, <3>3, Zenon
      <4>2. Len(mlPair'.two) <= 2
        BY <4>1
      <4> QED BY <2>e, <4>1, <4>2, Zenon
    <3> QED BY <3>1, <3>3
  <2>3. CASE MlCancelCompare
    BY <2>e, <2>3 DEF MlCancelCompare
  <2>4. CASE MlOpenDiff
    BY <2>4 DEF MlOpenDiff
  <2>5. ASSUME NEW s \in 1 .. MlMax, MlCompare(s)
        PROVE  {"on", "two", "diff"} \subseteq DOMAIN mlPair' /\ mlPair'.two \in Seq(1 .. MlMax) /\ Len(mlPair'.two) <= 2
    <3> DEFINE two == mlPair.two
               next == IF s \in Range(two) THEN Unseen(<<s>>, two)
                       ELSE IF Len(two) < 2 THEN Append(two, s) ELSE <<two[1], s>>
    <3>1. mlPair' = [mlPair EXCEPT !.two = next]
      BY <2>5 DEF MlCompare
    <3>2. two \in Seq(1 .. MlMax) /\ Len(two) <= 2 /\ Len(two) \in Nat
      OBVIOUS
    <3>3. next \in Seq(1 .. MlMax) /\ Len(next) <= 2
      <4> HIDE DEF two
      <4>1. CASE s \in Range(two)
        BY <3>2, <4>1, MlLetGo
      <4>2. CASE s \notin Range(two) /\ Len(two) < 2
        <5>1. Append(two, s) \in Seq(1 .. MlMax) /\ Len(Append(two, s)) = Len(two) + 1
          BY <3>2
        <5> QED BY <3>2, <4>2, <5>1
      <4>3. CASE s \notin Range(two) /\ ~(Len(two) < 2)
        <5>0. 1 \in 1 .. Len(two)
          BY <3>2, <4>3
        <5>1. two[1] \in 1 .. MlMax
          BY <3>2, <5>0, MlElement
        <5>2. <<two[1], s>> \in Seq(1 .. MlMax) /\ Len(<<two[1], s>>) = 2
          BY <5>1
        <5> QED BY <4>3, <5>2
      <4> QED BY <4>1, <4>2, <4>3
    <3> HIDE DEF next
    <3> QED BY <3>1, <3>3
  <2> QED BY <2>1, <2>2, <2>3, <2>4, <2>5
<1>5. /\ {"on", "result"} \subseteq DOMAIN mlExport'
      /\ mlExport'.result \in {"none", "whole", "truncated", "aborted", "failed"}
      /\ mlExport'.on => mlExport'.result = "none"
      /\ mlDialog' \in {"closed", "open", "busy"} /\ (mlDialog' = "busy" => mlExport'.on)
  <2>1. \/ UNCHANGED <<mlDialog, mlExport>> \/ MlOpenExport \/ MlStartExport \/ MlCancelExport
        \/ MlCloseExport \/ MlWalk \/ MlSave
    BY Zenon DEF MlNext, MlPublished, MlRefetch, MlNewBase, MlLoadMore, MlBaseAnswer, MlSetMode,
       MlMoreAnswer, MlToggleCompare, MlCancelCompare, MlOpenDiff, MlCompare, mlListed, mlExports, mlVars
  <2>2. CASE MlOpenExport
    BY <2>2 DEF MlOpenExport
  <2>3. CASE MlStartExport
    <3>1. mlDialog' = "busy" /\ mlExport' = [MlNoExport EXCEPT !.on = TRUE, !.next = 1]
      BY <2>3 DEF MlStartExport
    <3> QED BY <3>1 DEF MlNoExport
  <2>4. CASE MlCancelExport
    BY <2>4 DEF MlCancelExport
  <2>5. CASE MlCloseExport
    <3>1. mlDialog' = "closed" /\ mlExport' = [mlExport EXCEPT !.aborted = @ \/ mlDialog = "busy"]
      BY <2>5 DEF MlCloseExport
    <3> QED BY <3>1
  <2>6. CASE MlWalk
    <3>1. /\ mlExport.on
          /\ \/ mlExport' = MlWalked
             \/ mlExport' = [mlExport EXCEPT !.on = FALSE, !.taken = <<>>, !.result = "failed"]
          /\ \/ mlExport'.on /\ mlDialog' = mlDialog
             \/ ~mlExport'.on /\ mlDialog' \in {"closed", "open"}
      BY <2>6 DEF MlWalk
    <3>2. \/ \E result \in {"whole", "truncated", "aborted"} :
                \/ mlExport' = [mlExport EXCEPT !.on = FALSE, !.result = result]
                \/ \E taken : mlExport' = [mlExport EXCEPT !.on = FALSE, !.taken = taken, !.result = result]
                \/ \E taken : mlExport' = [mlExport EXCEPT !.on = FALSE, !.taken = taken, !.seen = mlLast, !.result = result]
          \/ \E taken, next : mlExport' = [mlExport EXCEPT !.next = next, !.taken = taken]
          \/ mlExport' = [mlExport EXCEPT !.on = FALSE, !.taken = <<>>, !.result = "failed"]
      BY <3>1 DEF MlWalked
    <3>3. /\ {"on", "result"} \subseteq DOMAIN mlExport'
          /\ mlExport'.result \in {"none", "whole", "truncated", "aborted", "failed"}
          /\ mlExport'.on => mlExport'.result = "none"
      BY <3>2
    <3> QED BY <3>1, <3>3
  <2>7. CASE MlSave
    <3>1. mlExport.result # "none" /\ mlExport' = MlNoExport /\ mlDialog' = mlDialog
      BY <2>7 DEF MlSave
    <3> QED BY <3>1 DEF MlNoExport
  <2> QED BY <2>1, <2>2, <2>3, <2>4, <2>5, <2>6, <2>7
<1> QED BY <1>1, <1>2, <1>3, <1>4, <1>5

\* Every reachable state of the list and the export has its type: no more
\* than two messages are compared, and a busy dialog exports (useLoadMoreMessages,
\* ExportDialog.tsx).
THEOREM MlTypeCorrect == MlSpec => []MlTypeOK
<1>1. MlInit => MlTypeInv
  <2> SUFFICES ASSUME MlInit PROVE MlTypeInv
    OBVIOUS
  <2>1. <<>> \in Seq(1 .. MlMax) /\ Len(<<>>) = 0 /\ 0 \in 0 .. MlBound
    BY MlBoundsAre
  <2>2. mlBase.id = 0 /\ "id" \in DOMAIN mlBase
    BY DEF MlInit
  <2>3. mlRan \in 0 .. mlBase.id /\ mlGen \in 0 .. mlRan
    BY <2>2 DEF MlInit
  <2>4. {"on", "two", "diff"} \subseteq DOMAIN mlPair /\ mlPair.two = <<>>
    BY DEF MlInit, MlNoPair
  <2>5. {"on", "result"} \subseteq DOMAIN mlExport /\ mlExport.result = "none"
    BY DEF MlInit, MlNoExport
  <2>6. /\ mlLast \in 1 .. MlMax /\ mlMode \in {"history", "realtime"} /\ mlLoading \in BOOLEAN
        /\ mlDialog = "closed"
    BY DEF MlInit
  <2> QED BY <2>1, <2>2, <2>3, <2>4, <2>5, <2>6 DEF MlTypeInv
<1>2. MlTypeInv => MlTypeOK
  <2> SUFFICES ASSUME MlTypeInv PROVE MlTypeOK
    OBVIOUS
  <2>1. mlRan \in 0 .. MlBound /\ mlGen \in 0 .. MlBound
    BY MlBoundsAre DEF MlTypeInv
  <2> QED BY <2>1 DEF MlTypeInv, MlTypeOK
<1> QED BY <1>1, <1>2, MlTypeStep, PTL DEF MlSpec

---------------------------------------------------------------------------
(***************************************************************************)
(* What a search shows, as MsSearchWhole states it.                        *)
(***************************************************************************)

MsNumbers == /\ MsLast \in Nat \ {0} /\ MsBatch \in Nat \ {0} /\ MsMaxMatches \in Nat \ {0}
             /\ MsQueries \subseteq [matches : SUBSET (1 .. MsLast), direction : {"forward", "backward"}]

LEMMA MsConstants == MsNumbers
BY MsAssumption DEF MsAssumption, MsNumbers

MsAsked == [matches : SUBSET (1 .. MsLast), direction : {"forward", "backward", "none"}]
MsList == Seq(1 .. MsLast)

\* The order the query lists its matches in.
MsBefore(q, a, b) == IF q.direction = "forward" THEN a < b ELSE b < a

\* The messages of a list.
MsIn(s) == {m \in 1 .. MsLast : \E i \in 1 .. Len(s) : s[i] = m}

\* Matches in order, with every match before one of them told or in the list.
MsFits(q, told, s) ==
    /\ \A i \in 1 .. Len(s) : s[i] \in q.matches
    /\ \A i, j \in 1 .. Len(s) : i < j => MsBefore(q, s[i], s[j])
    /\ \A i \in 1 .. Len(s), m \in q.matches : MsBefore(q, m, s[i]) => m \in told \/ m \in MsIn(s)

\* Every match before the cursor is told, or every match if there is none.
MsCovered(q, told, cursor) == \A m \in q.matches : cursor = 0 \/ MsBefore(q, m, cursor) => m \in told

LEMMA SeqHas ==
    ASSUME NEW C, NEW s \in Seq(C)
    PROVE  Len(s) \in Nat /\ DOMAIN s = 1 .. Len(s) /\ \A i \in 1 .. Len(s) : s[i] \in C
OBVIOUS

LEMMA SeqMade ==
    ASSUME NEW C, NEW n \in Nat, NEW f \in [1 .. n -> C]
    PROVE  f \in Seq(C) /\ Len(f) = n
OBVIOUS

LEMMA SeqWider ==
    ASSUME NEW C, NEW D, C \subseteq D, NEW s \in Seq(C)
    PROVE  s \in Seq(D)
OBVIOUS

LEMMA MsInList ==
    ASSUME NEW s \in MsList
    PROVE  Len(s) \in Nat /\ \A i \in 1 .. Len(s) : s[i] \in 1 .. MsLast /\ s[i] \in MsIn(s)
<1>1. Len(s) \in Nat /\ \A i \in 1 .. Len(s) : s[i] \in 1 .. MsLast
  BY SeqHas DEF MsList
<1> QED BY <1>1 DEF MsIn

LEMMA MsOrder ==
    ASSUME NEW q, NEW a \in Nat, NEW b \in Nat
    PROVE  /\ MsBefore(q, a, b) \/ a = b \/ MsBefore(q, b, a)
           /\ ~ MsBefore(q, a, a) /\ ~ (MsBefore(q, a, b) /\ MsBefore(q, b, a))
           /\ \A c \in Nat : MsBefore(q, a, b) /\ MsBefore(q, b, c) => MsBefore(q, a, c)
BY DEF MsBefore

\* Rows that fit are shown after what is shown.
LEMMA MsShowFits ==
    ASSUME NEW q \in MsAsked, NEW s \in MsList, MsFits(q, {}, s), NEW x \in MsList, MsFits(q, MsIn(s), x)
    PROVE  LET t == s \o Unseen(s, x)
           IN  t \in MsList /\ MsFits(q, {}, t) /\ MsIn(t) = MsIn(s) \cup MsIn(x)
<1> DEFINE u == Unseen(s, x)
           t == s \o u
<1>1. MsLast \in Nat /\ q.matches \in SUBSET (1 .. MsLast) /\ Len(s) \in Nat /\ Len(x) \in Nat
  BY MsConstants, MsInList DEF MsNumbers, MsAsked
<1>2. Range(s) = MsIn(s)
  <2>1. \A m : m \in Range(s) <=> \E i \in 1 .. Len(s) : s[i] = m
    BY DEF MsList, Range
  <2>2. \A m \in Range(s) : m \in 1 .. MsLast
    BY <2>1, MsInList
  <2> QED BY <2>1, <2>2 DEF MsIn
<1>3. u \in MsList /\ \A k \in 1 .. Len(u) : u[k] \notin MsIn(s)
  BY <1>2, UnseenIs DEF MsList
<1>4. PICK f \in [1 .. Len(u) -> 1 .. Len(x)] :
         /\ \A k \in 1 .. Len(u) : u[k] = x[f[k]]
         /\ \A i, j \in 1 .. Len(u) : i < j => f[i] < f[j]
         /\ \A n \in 1 .. Len(x) : x[n] \notin MsIn(s) => \E k \in 1 .. Len(u) : f[k] = n
  <2>1. x \in Seq(1 .. MsLast)
    BY DEF MsList
  <2>2. LET v == Unseen(s, x) IN
         \E f \in [1 .. Len(v) -> 1 .. Len(x)] :
            /\ \A k \in 1 .. Len(v) : v[k] = x[f[k]]
            /\ \A i, j \in 1 .. Len(v) : i < j => f[i] < f[j]
            /\ \A n \in 1 .. Len(x) : x[n] \notin Range(s) => \E k \in 1 .. Len(v) : f[k] = n
    BY <2>1, UnseenIs
  <2> QED BY <1>2, <2>2
<1> HIDE DEF u
<1>5. /\ t \in MsList /\ Len(t) = Len(s) + Len(u) /\ Len(u) \in Nat
      /\ \A i \in 1 .. Len(s) : t[i] = s[i]
      /\ \A i \in 1 .. Len(u) : t[Len(s) + i] = u[i]
      /\ \A i \in 1 .. Len(t) : i <= Len(s) \/ \E k \in 1 .. Len(u) : i = Len(s) + k
  <2>1. t \in MsList /\ Len(t) = Len(s) + Len(u)
    BY <1>3 DEF MsList
  <2>2. \A i \in 1 .. (Len(s) + Len(u)) : t[i] = IF i <= Len(s) THEN s[i] ELSE u[i - Len(s)]
    BY <1>3 DEF MsList
  <2>3. Len(u) \in Nat
    BY <1>3, MsInList
  <2> HIDE DEF t
  <2>4. \A i \in 1 .. Len(s) : t[i] = s[i]
    BY <1>1, <2>2, <2>3
  <2>5. ASSUME NEW i \in 1 .. Len(u) PROVE t[Len(s) + i] = u[i]
    <3>1. Len(s) + i \in 1 .. (Len(s) + Len(u)) /\ ~ (Len(s) + i <= Len(s)) /\ Len(s) + i - Len(s) = i
      BY <1>1, <2>3
    <3> QED BY <2>2, <3>1
  <2>6. ASSUME NEW i \in 1 .. Len(t), ~ (i <= Len(s)) PROVE \E k \in 1 .. Len(u) : i = Len(s) + k
    <3>1. i - Len(s) \in 1 .. Len(u) /\ i = Len(s) + (i - Len(s))
      BY <1>1, <2>1, <2>3, <2>6
    <3> QED BY <3>1
  <2> QED BY <2>1, <2>3, <2>4, <2>5, <2>6
<1> HIDE DEF t
<1>6. MsIn(t) = MsIn(s) \cup MsIn(x)
  <2>1. ASSUME NEW m \in MsIn(t) PROVE m \in MsIn(s) \cup MsIn(x)
    <3>1. PICK i \in 1 .. Len(t) : t[i] = m
      BY <2>1 DEF MsIn
    <3>2. CASE i <= Len(s)
      BY <1>1, <1>5, <2>1, <3>1, <3>2 DEF MsIn
    <3>3. CASE \E k \in 1 .. Len(u) : i = Len(s) + k
      <4>1. PICK k \in 1 .. Len(u) : i = Len(s) + k
        BY <3>3
      <4>2. f[k] \in 1 .. Len(x) /\ x[f[k]] = m
        BY <1>4, <1>5, <3>1, <4>1
      <4> QED BY <2>1, <4>2 DEF MsIn
    <3> QED BY <1>5, <3>2, <3>3
  <2>2. ASSUME NEW m \in MsIn(s) PROVE m \in MsIn(t)
    <3>1. PICK i \in 1 .. Len(s) : s[i] = m
      BY <2>2 DEF MsIn
    <3>2. i \in 1 .. Len(t) /\ t[i] = m
      BY <1>1, <1>5, <3>1
    <3> QED BY <2>2, <3>2 DEF MsIn
  <2>3. ASSUME NEW m \in MsIn(x), m \notin MsIn(s) PROVE m \in MsIn(t)
    <3>1. PICK n \in 1 .. Len(x) : x[n] = m
      BY <2>3 DEF MsIn
    <3>2. PICK k \in 1 .. Len(u) : f[k] = n
      BY <1>4, <2>3, <3>1
    <3>3. Len(s) + k \in 1 .. Len(t) /\ t[Len(s) + k] = m
      BY <1>1, <1>4, <1>5, <3>1, <3>2
    <3> QED BY <2>3, <3>3 DEF MsIn
  <2> QED BY <2>1, <2>2, <2>3
<1>7. \A k \in 1 .. Len(u) : u[k] \in q.matches
  BY <1>4 DEF MsFits
<1>8. ASSUME NEW i \in 1 .. Len(s), NEW k \in 1 .. Len(u) PROVE MsBefore(q, s[i], u[k])
  <2>1. s[i] \in q.matches /\ s[i] \in Nat /\ u[k] \in q.matches /\ u[k] \in Nat
    BY <1>1, <1>7 DEF MsFits
  <2>2. s[i] # u[k]
    BY <1>3, MsInList
  <2>3. MsBefore(q, u[k], s[i]) => u[k] \in MsIn(s)
    BY <2>1 DEF MsFits
  <2> QED BY <1>3, <2>1, <2>2, <2>3, MsOrder
<1>9. ASSUME NEW i \in 1 .. Len(u), NEW j \in 1 .. Len(u), i < j PROVE MsBefore(q, u[i], u[j])
  <2>1. f[i] \in 1 .. Len(x) /\ f[j] \in 1 .. Len(x) /\ f[i] < f[j] /\ u[i] = x[f[i]] /\ u[j] = x[f[j]]
    BY <1>4, <1>9
  <2> QED BY <2>1 DEF MsFits
<1>10. ASSUME NEW i \in 1 .. Len(t) PROVE t[i] \in q.matches
  <2>1. \A j \in 1 .. Len(s) : s[j] \in q.matches
    BY DEF MsFits
  <2>2. CASE i <= Len(s)
    <3>1. i \in 1 .. Len(s)
      BY <1>1, <1>5, <2>2
    <3> QED BY <1>5, <2>1, <3>1
  <2>3. CASE ~ (i <= Len(s))
    <3>1. PICK k \in 1 .. Len(u) : i = Len(s) + k
      BY <1>5, <2>3
    <3> QED BY <1>5, <1>7, <3>1
  <2> QED BY <2>2, <2>3
<1>11. ASSUME NEW i \in 1 .. Len(t), NEW j \in 1 .. Len(t), i < j PROVE MsBefore(q, t[i], t[j])
  <2>1. CASE j <= Len(s)
    <3>1. i \in 1 .. Len(s) /\ j \in 1 .. Len(s)
      BY <1>1, <1>5, <1>11, <2>1
    <3> QED BY <1>5, <1>11, <3>1 DEF MsFits
  <2>2. CASE ~ (j <= Len(s))
    <3>1. PICK k \in 1 .. Len(u) : j = Len(s) + k
      BY <1>5, <2>2
    <3>2. CASE i <= Len(s)
      <4>1. i \in 1 .. Len(s)
        BY <1>1, <1>5, <3>2
      <4> QED BY <1>5, <1>8, <3>1, <4>1
    <3>3. CASE ~ (i <= Len(s))
      <4>1. PICK l \in 1 .. Len(u) : i = Len(s) + l
        BY <1>5, <3>3
      <4>2. l < k
        BY <1>1, <1>5, <1>11, <3>1, <4>1
      <4> QED BY <1>5, <1>9, <3>1, <4>1, <4>2
    <3> QED BY <3>2, <3>3
  <2> QED BY <2>1, <2>2
<1>12. ASSUME NEW i \in 1 .. Len(t), NEW m \in q.matches, MsBefore(q, m, t[i]) PROVE m \in MsIn(t)
  <2>1. CASE i <= Len(s)
    <3>1. i \in 1 .. Len(s) /\ t[i] = s[i]
      BY <1>1, <1>5, <2>1
    <3> QED BY <1>6, <1>12, <3>1 DEF MsFits
  <2>2. CASE ~ (i <= Len(s))
    <3>1. PICK k \in 1 .. Len(u) : i = Len(s) + k
      BY <1>5, <2>2
    <3>2. f[k] \in 1 .. Len(x) /\ t[i] = x[f[k]]
      BY <1>4, <1>5, <3>1
    <3> QED BY <1>6, <1>12, <3>2 DEF MsFits
  <2> QED BY <2>1, <2>2
<1>13. MsFits(q, {}, t)
  BY <1>10, <1>11, <1>12 DEF MsFits
<1> QED BY <1>5, <1>6, <1>13 DEF t, u

\* The matches in their order.
MsAnswerOf(q) == LET up == Ascending(q.matches) IN IF q.direction = "forward" THEN up ELSE Reverse(up)

LEMMA MsReversed ==
    ASSUME NEW s \in MsList
    PROVE  /\ Reverse(s) \in MsList /\ Len(Reverse(s)) = Len(s) /\ Len(s) \in Nat
           /\ \A i \in 1 .. Len(s) : Reverse(s)[i] = s[Len(s) - i + 1] /\ Len(s) - i + 1 \in 1 .. Len(s)
<1>1. Len(s) \in Nat /\ \A i \in 1 .. Len(s) : Len(s) - i + 1 \in 1 .. Len(s) /\ s[Len(s) - i + 1] \in 1 .. MsLast
  BY MsInList
<1>2. Reverse(s) = [i \in 1 .. Len(s) |-> s[Len(s) - i + 1]]
  BY DEF Reverse
<1>3. Reverse(s) \in [1 .. Len(s) -> 1 .. MsLast]
  BY <1>1, <1>2
<1>4. Reverse(s) \in MsList /\ Len(Reverse(s)) = Len(s)
  BY <1>1, <1>3, SeqMade DEF MsList
<1> QED BY <1>1, <1>2, <1>4

\* Some of the matches of a query, in the order it lists them.
LEMMA MsListedIs ==
    ASSUME NEW S \in SUBSET (1 .. MsLast), NEW q
    PROVE  LET a == IF q.direction = "forward" THEN Ascending(S) ELSE Reverse(Ascending(S)) IN
           /\ a \in MsList /\ MsIn(a) = S /\ \A i \in 1 .. Len(a) : a[i] \in S
           /\ \A i, j \in 1 .. Len(a) : i < j => MsBefore(q, a[i], a[j])
<1> DEFINE up == Ascending(S)
<1>1. /\ up \in Seq(S) /\ Rising(up) /\ \A n \in S : \E k \in 1 .. Len(up) : up[k] = n
  BY AscendingIs, MsConstants DEF MsNumbers
<1> HIDE DEF up
<1>2. up \in MsList /\ \A i \in 1 .. Len(up) : up[i] \in S
  BY <1>1, SeqHas, SeqWider DEF MsList
<1>3. MsIn(up) = S
  BY <1>1, <1>2 DEF MsIn
<1>4. CASE q.direction = "forward"
  BY <1>1, <1>2, <1>3, <1>4 DEF Rising, MsBefore, up
<1>5. CASE q.direction # "forward"
  <2> DEFINE a == Reverse(up)
  <2>1. /\ a \in MsList /\ Len(a) = Len(up) /\ Len(up) \in Nat
        /\ \A i \in 1 .. Len(up) : a[i] = up[Len(up) - i + 1] /\ Len(up) - i + 1 \in 1 .. Len(up)
    BY <1>2, MsReversed
  <2> HIDE DEF a
  <2>2. \A i \in 1 .. Len(a) : a[i] \in S
    BY <1>2, <2>1
  <2>3. ASSUME NEW m \in S PROVE m \in MsIn(a)
    <3>1. PICK k \in 1 .. Len(up) : up[k] = m
      BY <1>1
    <3>2. Len(up) - k + 1 \in 1 .. Len(up) /\ Len(up) - (Len(up) - k + 1) + 1 = k
      BY <2>1
    <3>3. a[Len(up) - k + 1] = m
      BY <2>1, <3>1, <3>2
    <3> QED BY <2>1, <3>2, <3>3 DEF MsIn
  <2>4. MsIn(a) = S
    BY <2>2, <2>3 DEF MsIn
  <2>5. ASSUME NEW i \in 1 .. Len(a), NEW j \in 1 .. Len(a), i < j PROVE MsBefore(q, a[i], a[j])
    <3>1. /\ Len(up) - j + 1 \in 1 .. Len(up) /\ Len(up) - i + 1 \in 1 .. Len(up) /\ Len(up) - j + 1 < Len(up) - i + 1
          /\ a[i] = up[Len(up) - i + 1] /\ a[j] = up[Len(up) - j + 1]
      BY <2>1, <2>5
    <3> QED BY <1>1, <1>5, <3>1 DEF Rising, MsBefore
  <2> QED BY <1>5, <2>1, <2>2, <2>4, <2>5 DEF a, up
<1> QED BY <1>4, <1>5

\* What fits after nothing is the first part of the answer.
LEMMA MsFitsIsPrefix ==
    ASSUME NEW q \in MsAsked, NEW s \in MsList, MsFits(q, {}, s)
    PROVE  IsPrefix(s, MsAnswerOf(q)) /\ (MsCovered(q, MsIn(s), 0) => s = MsAnswerOf(q))
<1> DEFINE A == MsAnswerOf(q)
<1>1. /\ A \in MsList /\ MsIn(A) = q.matches /\ \A i \in 1 .. Len(A) : A[i] \in q.matches
      /\ \A i, j \in 1 .. Len(A) : i < j => MsBefore(q, A[i], A[j])
  <2>1. q.matches \in SUBSET (1 .. MsLast)
    BY DEF MsAsked
  <2> QED BY <2>1, MsListedIs DEF MsAnswerOf
<1> HIDE DEF A
<1>2. Len(s) \in Nat /\ Len(A) \in Nat /\ \A m \in q.matches : m \in Nat
  BY <1>1, MsInList, MsConstants DEF MsAsked, MsNumbers
<1>3. \A m \in q.matches : \E j \in 1 .. Len(A) : A[j] = m
  BY <1>1 DEF MsIn
<1>4. \A i \in 1 .. Len(s) : i <= Len(A) /\ s[i] = A[i]
  <2> DEFINE bad == {i \in 1 .. Len(s) : ~ (i <= Len(A) /\ s[i] = A[i])}
  <2> SUFFICES ASSUME bad # {} PROVE FALSE
    OBVIOUS
  <2>1. PICK i \in bad : \A n \in bad : i <= n
    BY <1>2, LeastOf
  <2>2. i \in 1 .. Len(s) /\ ~ (i <= Len(A) /\ s[i] = A[i])
    OBVIOUS
  <2>3. \A k \in 1 .. Len(s) : k < i => k <= Len(A) /\ s[k] = A[k]
    BY <1>2, <2>1, <2>2
  <2> HIDE DEF bad
  <2>4. PICK j \in 1 .. Len(A) : A[j] = s[i]
    BY <1>3, <2>2 DEF MsFits
  <2>5. ~ (j < i)
    <3>1. j < i => j \in 1 .. Len(s) /\ s[j] = s[i] /\ MsBefore(q, s[j], s[i]) /\ s[i] \in Nat
      BY <1>2, <2>2, <2>3, <2>4 DEF MsFits
    <3> QED BY <3>1, MsOrder
  <2>6. i \in 1 .. Len(A) /\ (j = i \/ i < j)
    BY <1>2, <2>2, <2>4, <2>5
  <2>7. ~ (i < j)
    <3> SUFFICES ASSUME i < j PROVE FALSE
      OBVIOUS
    <3>1. MsBefore(q, A[i], s[i]) /\ A[i] \in q.matches
      BY <1>1, <2>4, <2>6
    <3>2. PICK l \in 1 .. Len(s) : s[l] = A[i]
      BY <2>2, <3>1 DEF MsFits, MsIn
    <3>3. s[l] \in Nat /\ s[i] \in Nat /\ s[i] \in q.matches
      BY <1>2, <2>2 DEF MsFits
    <3>4. ~ (i < l) /\ l # i
      BY <2>2, <3>1, <3>2, <3>3, MsOrder DEF MsFits
    <3>5. l < i /\ A[l] = A[i] /\ l \in 1 .. Len(A)
      BY <1>2, <2>2, <2>3, <3>2, <3>4
    <3>6. MsBefore(q, A[l], A[i]) /\ A[i] \in Nat
      BY <1>1, <1>2, <2>6, <3>5
    <3> QED BY <3>5, <3>6, MsOrder
  <2> QED BY <2>2, <2>4, <2>6, <2>7
<1>5. Len(s) <= Len(A)
  <2>1. CASE Len(s) = 0
    BY <1>2, <2>1
  <2>2. CASE Len(s) # 0
    <3>1. Len(s) \in 1 .. Len(s)
      BY <1>2, <2>2
    <3> QED BY <1>4, <3>1
  <2> QED BY <2>1, <2>2
<1>6. IsPrefix(s, A)
  <2>1. SubSeq(s, 1, Len(s)) = SubSeq(A, 1, Len(s))
    <3>1. \A i \in 1 .. Len(s) : s[i] = A[i]
      BY <1>4
    <3> QED BY <1>1, <1>2, <1>5, <3>1 DEF MsList
  <2> QED BY <1>5, <2>1 DEF IsPrefix
<1>7. ASSUME MsCovered(q, MsIn(s), 0) PROVE s = A
  <2>1. Len(s) = Len(A)
    <3> SUFFICES ASSUME Len(s) < Len(A) PROVE FALSE
      BY <1>2, <1>5
    <3>1. Len(s) + 1 \in 1 .. Len(A)
      BY <1>2
    <3>2. A[Len(s) + 1] \in MsIn(s)
      BY <1>1, <1>7, <3>1 DEF MsCovered
    <3>3. PICK l \in 1 .. Len(s) : s[l] = A[Len(s) + 1]
      BY <3>2 DEF MsIn
    <3>4. l \in 1 .. Len(A) /\ A[l] = A[Len(s) + 1] /\ l < Len(s) + 1
      BY <1>2, <1>4, <3>3
    <3>5. MsBefore(q, A[l], A[l]) /\ A[l] \in Nat
      BY <1>1, <1>2, <3>1, <3>4
    <3> QED BY <3>5, MsOrder
  <2>2. \A i \in 1 .. Len(s) : s[i] = A[i]
    BY <1>4
  <2> QED BY <1>1, <2>1, <2>2 DEF MsList
<1> QED BY <1>6, <1>7 DEF A

---------------------------------------------------------------------------
(* Events on their way. *)

MsEvents == [kind : {"matches"}, messages : MsList] \cup [kind : {"progress"}, resume : 0 .. MsLast]
            \cup [kind : {"done"}, next : 0 .. MsLast]

\* What an event tells, and the first events of a wire, and all of them.
MsOf(e) == IF e.kind = "matches" THEN MsIn(e.messages) ELSE {}
MsNews(v, k) == {m \in 1 .. MsLast : \E i \in 1 .. k : m \in MsOf(v[i])}
MsAll(v) == MsNews(v, Len(v))

\* An event is true once told was told, and each event of a wire in its turn.
MsEventTrue(q, told, e) ==
    /\ e.kind = "matches" => MsFits(q, told, e.messages)
    /\ e.kind = "progress" => MsCovered(q, told, e.resume)
    /\ e.kind = "done" => MsCovered(q, told, e.next)
MsSays(q, told, v) == \A k \in 1 .. Len(v) : MsEventTrue(q, told \cup MsNews(v, k - 1), v[k])

LEMMA MsOfIs == \A e : MsOf(e) \subseteq 1 .. MsLast
BY DEF MsOf, MsIn

LEMMA MsSaysNone == \A q, told : MsSays(q, told, <<>>) /\ MsAll(<<>>) = {} /\ <<>> \in Seq(MsEvents)
<1>1. Len(<<>>) = 0 /\ <<>> \in Seq(MsEvents)
  OBVIOUS
<1> QED BY <1>1 DEF MsSays, MsAll, MsNews

LEMMA MsSaysOne ==
    ASSUME NEW q, NEW told, NEW e \in MsEvents, MsEventTrue(q, told, e)
    PROVE  MsSays(q, told, <<e>>) /\ MsAll(<<e>>) = MsOf(e) /\ <<e>> \in Seq(MsEvents)
<1>1. Len(<<e>>) = 1 /\ <<e>>[1] = e /\ <<e>> \in Seq(MsEvents) /\ 1 .. 1 = {1} /\ 1 .. 0 = {}
  OBVIOUS
<1>2. MsNews(<<e>>, 0) = {} /\ MsNews(<<e>>, 1) = MsOf(e)
  BY <1>1, MsOfIs DEF MsNews
<1>3. told \cup {} = told /\ 1 - 1 = 0
  OBVIOUS
<1> QED BY <1>1, <1>2, <1>3 DEF MsSays, MsAll

MsJoins(q, told, v, w) ==
    MsSays(q, told, v \o w) /\ MsAll(v \o w) = MsAll(v) \cup MsAll(w) /\ v \o w \in Seq(MsEvents)

LEMMA MsSaysMore ==
    ASSUME NEW q, NEW told, NEW v \in Seq(MsEvents), NEW w \in Seq(MsEvents),
           MsSays(q, told, v), NEW more, more = told \cup MsAll(v), MsSays(q, more, w)
    PROVE  MsJoins(q, told, v, w)
<1> DEFINE x == v \o w
<1>1. /\ Len(v) \in Nat /\ Len(w) \in Nat /\ x \in Seq(MsEvents) /\ Len(x) = Len(v) + Len(w)
      /\ \A i \in 1 .. (Len(v) + Len(w)) : x[i] = IF i <= Len(v) THEN v[i] ELSE w[i - Len(v)]
  OBVIOUS
<1> HIDE DEF x
<1>2. \A i \in 1 .. Len(v) : x[i] = v[i]
  BY <1>1
<1>3. ASSUME NEW i \in 1 .. Len(w) PROVE x[Len(v) + i] = w[i]
  <2>1. Len(v) + i \in 1 .. (Len(v) + Len(w)) /\ ~ (Len(v) + i <= Len(v)) /\ Len(v) + i - Len(v) = i
    BY <1>1
  <2> QED BY <1>1, <2>1
<1>4. ASSUME NEW k \in 0 .. Len(v) PROVE MsNews(x, k) = MsNews(v, k)
  <2>1. \A i \in 1 .. k : x[i] = v[i]
    BY <1>1, <1>2
  <2> QED BY <2>1 DEF MsNews
<1>5. ASSUME NEW k \in 0 .. Len(w) PROVE MsNews(x, Len(v) + k) = MsAll(v) \cup MsNews(w, k)
  <2>1. ASSUME NEW m \in MsNews(x, Len(v) + k) PROVE m \in MsAll(v) \cup MsNews(w, k)
    <3>1. PICK i \in 1 .. (Len(v) + k) : m \in MsOf(x[i])
      BY <2>1 DEF MsNews
    <3>2. m \in 1 .. MsLast
      BY <2>1 DEF MsNews
    <3>3. CASE i <= Len(v)
      <4>1. i \in 1 .. Len(v)
        BY <1>1, <3>3
      <4> QED BY <1>2, <3>1, <3>2, <4>1 DEF MsAll, MsNews
    <3>4. CASE ~ (i <= Len(v))
      <4>1. i - Len(v) \in 1 .. k /\ i - Len(v) \in 1 .. Len(w) /\ Len(v) + (i - Len(v)) = i
        BY <1>1, <3>4
      <4>2. x[i] = w[i - Len(v)]
        BY <1>3, <4>1
      <4> QED BY <3>1, <3>2, <4>1, <4>2 DEF MsNews
    <3> QED BY <3>3, <3>4
  <2>2. ASSUME NEW m \in MsAll(v) PROVE m \in MsNews(x, Len(v) + k)
    <3>1. PICK i \in 1 .. Len(v) : m \in MsOf(v[i])
      BY <2>2 DEF MsAll, MsNews
    <3>2. i \in 1 .. (Len(v) + k) /\ m \in MsOf(x[i])
      BY <1>1, <1>2, <3>1
    <3> QED BY <2>2, <3>2 DEF MsAll, MsNews
  <2>3. ASSUME NEW m \in MsNews(w, k) PROVE m \in MsNews(x, Len(v) + k)
    <3>1. PICK i \in 1 .. k : m \in MsOf(w[i])
      BY <2>3 DEF MsNews
    <3>2. Len(v) + i \in 1 .. (Len(v) + k) /\ m \in MsOf(x[Len(v) + i])
      BY <1>1, <1>3, <3>1
    <3> QED BY <2>3, <3>2 DEF MsNews
  <2> QED BY <2>1, <2>2, <2>3
<1>6. MsAll(x) = MsAll(v) \cup MsAll(w)
  <2>1. Len(w) \in 0 .. Len(w)
    BY <1>1
  <2>2. MsNews(x, Len(v) + Len(w)) = MsAll(v) \cup MsNews(w, Len(w))
    BY <1>5, <2>1
  <2> QED BY <1>1, <2>2 DEF MsAll
<1>7. ASSUME NEW k \in 1 .. Len(x) PROVE MsEventTrue(q, told \cup MsNews(x, k - 1), x[k])
  <2>1. CASE k <= Len(v)
    <3>1. k \in 1 .. Len(v) /\ k - 1 \in 0 .. Len(v)
      BY <1>1, <2>1
    <3>2. MsNews(x, k - 1) = MsNews(v, k - 1) /\ x[k] = v[k]
      BY <1>2, <1>4, <3>1
    <3> QED BY <3>1, <3>2 DEF MsSays
  <2>2. CASE ~ (k <= Len(v))
    <3> DEFINE i == k - Len(v)
    <3>1. i \in 1 .. Len(w) /\ i - 1 \in 0 .. Len(w) /\ k = Len(v) + i /\ k - 1 = Len(v) + (i - 1)
      BY <1>1, <2>2
    <3> HIDE DEF i
    <3>2. MsNews(x, k - 1) = MsAll(v) \cup MsNews(w, i - 1) /\ x[k] = w[i]
      BY <1>3, <1>5, <3>1
    <3>3. told \cup MsNews(x, k - 1) = (told \cup MsAll(v)) \cup MsNews(w, i - 1)
      BY <3>2
    <3>4. MsEventTrue(q, (told \cup MsAll(v)) \cup MsNews(w, i - 1), w[i])
      BY <3>1 DEF MsSays
    <3> QED BY <3>2, <3>3, <3>4
  <2> QED BY <2>1, <2>2
<1> QED BY <1>1, <1>6, <1>7 DEF MsSays, MsJoins, x

\* The first event is true, and the rest once it was told.
LEMMA MsSaysHead ==
    ASSUME NEW q, NEW told, NEW v \in Seq(MsEvents), v # <<>>, MsSays(q, told, v)
    PROVE  /\ Head(v) \in MsEvents /\ Tail(v) \in Seq(MsEvents)
           /\ MsEventTrue(q, told, Head(v)) /\ MsSays(q, told \cup MsOf(Head(v)), Tail(v))
           /\ MsAll(v) = MsOf(Head(v)) \cup MsAll(Tail(v))
<1> DEFINE h == Head(v)
           w == Tail(v)
<1>1. /\ Len(v) \in Nat \ {0} /\ h \in MsEvents /\ w \in Seq(MsEvents) /\ Len(w) = Len(v) - 1 /\ h = v[1]
      /\ \A i \in 1 .. Len(w) : w[i] = v[i + 1]
  OBVIOUS
<1> HIDE DEF h, w
<1>2. ASSUME NEW k \in 0 .. Len(w) PROVE MsNews(v, k + 1) = MsOf(h) \cup MsNews(w, k)
  <2>1. ASSUME NEW m \in MsNews(v, k + 1) PROVE m \in MsOf(h) \cup MsNews(w, k)
    <3>1. PICK i \in 1 .. (k + 1) : m \in MsOf(v[i])
      BY <2>1 DEF MsNews
    <3>2. i = 1 \/ (i - 1 \in 1 .. k /\ i - 1 \in 1 .. Len(w) /\ (i - 1) + 1 = i)
      BY <1>1
    <3>3. CASE i = 1
      BY <1>1, <3>1, <3>3
    <3>4. CASE i - 1 \in 1 .. k /\ i - 1 \in 1 .. Len(w) /\ (i - 1) + 1 = i
      <4>1. w[i - 1] = v[i]
        BY <1>1, <3>4
      <4> QED BY <2>1, <3>1, <3>4, <4>1 DEF MsNews
    <3> QED BY <3>2, <3>3, <3>4
  <2>2. ASSUME NEW m \in MsOf(h) PROVE m \in MsNews(v, k + 1)
    <3>1. 1 \in 1 .. (k + 1) /\ m \in MsOf(v[1]) /\ m \in 1 .. MsLast
      BY <1>1, <2>2, MsOfIs
    <3> QED BY <3>1 DEF MsNews
  <2>3. ASSUME NEW m \in MsNews(w, k) PROVE m \in MsNews(v, k + 1)
    <3>1. PICK i \in 1 .. k : m \in MsOf(w[i])
      BY <2>3 DEF MsNews
    <3>2. i + 1 \in 1 .. (k + 1) /\ m \in MsOf(v[i + 1])
      BY <1>1, <3>1
    <3> QED BY <2>3, <3>2 DEF MsNews
  <2> QED BY <2>1, <2>2, <2>3
<1>3. MsNews(v, 0) = {} /\ 1 - 1 = 0 /\ told \cup {} = told /\ 1 \in 1 .. Len(v)
  BY <1>1 DEF MsNews
<1>4. MsEventTrue(q, told, h)
  <2>1. MsEventTrue(q, told \cup MsNews(v, 1 - 1), v[1])
    BY <1>3 DEF MsSays
  <2> QED BY <1>1, <1>3, <2>1
<1>5. ASSUME NEW k \in 1 .. Len(w) PROVE MsEventTrue(q, (told \cup MsOf(h)) \cup MsNews(w, k - 1), w[k])
  <2>1. k - 1 \in 0 .. Len(w) /\ k + 1 \in 1 .. Len(v) /\ (k + 1) - 1 = (k - 1) + 1
    BY <1>1
  <2>2. MsNews(v, (k + 1) - 1) = MsOf(h) \cup MsNews(w, k - 1)
    BY <1>2, <2>1
  <2>3. told \cup MsNews(v, (k + 1) - 1) = (told \cup MsOf(h)) \cup MsNews(w, k - 1)
    BY <2>2
  <2>4. MsEventTrue(q, told \cup MsNews(v, (k + 1) - 1), v[k + 1]) /\ w[k] = v[k + 1]
    BY <1>1, <2>1 DEF MsSays
  <2> QED BY <2>3, <2>4
<1>6. MsAll(v) = MsOf(h) \cup MsAll(w)
  <2>1. Len(w) \in 0 .. Len(w) /\ Len(w) + 1 = Len(v)
    BY <1>1
  <2> QED BY <1>2, <2>1 DEF MsAll
<1> QED BY <1>1, <1>4, <1>5, <1>6 DEF MsSays, h, w

---------------------------------------------------------------------------
(* What the server sends of the matches it holds. *)

MsSearches == [on : {TRUE}, first : BOOLEAN, matched : Nat, pending : MsList, resume : Nat, at : Nat]
MsTo(resume) == IF resume \in 1 .. MsLast THEN resume ELSE 0

LEMMA PartIs ==
    ASSUME NEW C, NEW p \in Seq(C), NEW a \in Nat, NEW b \in Nat, a <= b, b <= Len(p)
    PROVE  LET x == SubSeq(p, a + 1, b) IN
           x \in Seq(C) /\ Len(x) = b - a /\ \A i \in 1 .. (b - a) : x[i] = p[a + i]
<1>1. \A i \in 1 .. (b - a) : a + i \in 1 .. Len(p)
  OBVIOUS
<1> QED BY <1>1

LEMMA FirstPartIs ==
    ASSUME NEW C, NEW p \in Seq(C), NEW b \in Nat, b <= Len(p)
    PROVE  LET x == SubSeq(p, 1, b) IN x \in Seq(C) /\ Len(x) = b /\ \A i \in 1 .. b : x[i] = p[i]
<1>1. \A i \in 1 .. b : i \in 1 .. Len(p)
  OBVIOUS
<1> QED BY <1>1

\* A part of a list that fits, after the part before it was told.
MsParts(q, told, p, a, b) ==
    LET x == SubSeq(p, a + 1, b) IN
    /\ x \in MsList /\ Len(x) = b - a /\ MsFits(q, told \cup MsIn(SubSeq(p, 1, a)), x)
    /\ MsIn(SubSeq(p, 1, b)) = MsIn(SubSeq(p, 1, a)) \cup MsIn(x)

LEMMA MsPartFits ==
    ASSUME NEW q, NEW told, NEW p \in MsList, MsFits(q, told, p),
           NEW a \in Nat, NEW b \in Nat, a <= b, b <= Len(p)
    PROVE  MsParts(q, told, p, a, b)
<1> DEFINE x == SubSeq(p, a + 1, b)
           y == SubSeq(p, 1, a)
           z == SubSeq(p, 1, b)
<1>1. Len(p) \in Nat
  BY MsInList
<1>2. x \in MsList /\ Len(x) = b - a /\ \A i \in 1 .. (b - a) : x[i] = p[a + i]
  BY <1>1, PartIs DEF MsList
<1>3. y \in MsList /\ Len(y) = a /\ \A i \in 1 .. a : y[i] = p[i]
  <2>1. a <= Len(p)
    BY <1>1
  <2> QED BY <2>1, FirstPartIs DEF MsList
<1>4. z \in MsList /\ Len(z) = b /\ \A i \in 1 .. b : z[i] = p[i]
  <2>1. b <= Len(p)
    BY <1>1
  <2> QED BY <2>1, FirstPartIs DEF MsList
<1> HIDE DEF x, y, z
<1>5. \A i \in 1 .. Len(x) : a + i \in 1 .. Len(p) /\ a + i \in 1 .. b
  BY <1>1, <1>2
<1>6. ASSUME NEW j \in 1 .. b PROVE p[j] \in MsIn(y) \cup MsIn(x)
  <2>1. CASE j <= a
    <3>1. j \in 1 .. Len(y) /\ y[j] = p[j]
      BY <1>3, <2>1
    <3> QED BY <1>3, <3>1, MsInList
  <2>2. CASE ~ (j <= a)
    <3>1. j - a \in 1 .. Len(x) /\ j - a \in 1 .. (b - a) /\ a + (j - a) = j
      BY <1>2, <2>2
    <3>2. x[j - a] = p[j]
      BY <1>2, <3>1
    <3> QED BY <1>2, <3>1, <3>2, MsInList
  <2> QED BY <2>1, <2>2
<1>7. MsIn(z) = MsIn(y) \cup MsIn(x)
  <2>1. ASSUME NEW m \in MsIn(z) PROVE m \in MsIn(y) \cup MsIn(x)
    <3>1. PICK i \in 1 .. b : p[i] = m
      BY <1>4, <2>1 DEF MsIn
    <3> QED BY <1>6, <3>1
  <2>2. ASSUME NEW m \in MsIn(y) PROVE m \in MsIn(z)
    <3>1. PICK i \in 1 .. a : p[i] = m
      BY <1>3, <2>2 DEF MsIn
    <3>2. i \in 1 .. Len(z) /\ z[i] = m
      BY <1>4, <3>1
    <3> QED BY <1>4, <3>2, MsInList
  <2>3. ASSUME NEW m \in MsIn(x) PROVE m \in MsIn(z)
    <3>1. PICK i \in 1 .. Len(x) : x[i] = m
      BY <2>3 DEF MsIn
    <3>2. a + i \in 1 .. Len(z) /\ z[a + i] = m
      BY <1>2, <1>4, <1>5, <3>1
    <3> QED BY <1>4, <3>2, MsInList
  <2> QED BY <2>1, <2>2, <2>3
<1>8. MsFits(q, told \cup MsIn(y), x)
  <2>1. \A i \in 1 .. Len(x) : x[i] = p[a + i]
    BY <1>2
  <2>2. \A i, j \in 1 .. Len(x) : i < j => a + i < a + j
    BY <1>2
  <2>3. ASSUME NEW i \in 1 .. Len(x), NEW m \in q.matches, MsBefore(q, m, x[i]) PROVE m \in told \cup MsIn(y) \/ m \in MsIn(x)
    <3>1. a + i \in 1 .. Len(p) /\ a + i \in 1 .. b /\ p[a + i] = x[i]
      BY <1>5, <2>1
    <3>2. m \in told \/ m \in MsIn(p)
      BY <2>3, <3>1 DEF MsFits
    <3>3. CASE m \in MsIn(p)
      <4>1. PICK j \in 1 .. Len(p) : p[j] = m
        BY <3>3 DEF MsIn
      <4>2. p[j] \in Nat /\ p[a + i] \in Nat
        BY <3>1, MsInList, MsConstants DEF MsNumbers
      <4>3. j <= a + i
        <5>1. ~ (a + i < j)
          BY <2>3, <3>1, <4>1, <4>2, MsOrder DEF MsFits
        <5> QED BY <5>1, <3>1, <1>1
      <4>4. j \in 1 .. b
        BY <3>1, <4>3, <1>1
      <4> QED BY <1>6, <4>1, <4>4
    <3> QED BY <3>2, <3>3
  <2>4. \A i \in 1 .. Len(x) : x[i] \in q.matches
    BY <1>5, <2>1 DEF MsFits
  <2>5. \A i, j \in 1 .. Len(x) : i < j => MsBefore(q, x[i], x[j])
    BY <1>5, <2>1, <2>2 DEF MsFits
  <2> QED BY <2>3, <2>4, <2>5 DEF MsFits
<1> QED BY <1>2, <1>7, <1>8 DEF MsParts, x, y, z

\* The batches made of the first matches held.
LEMMA MsBatchesSay ==
    ASSUME NEW q, NEW told, NEW p \in MsList, MsFits(q, told, p), NEW c \in Nat, c * MsBatch <= Len(p)
    PROVE  LET v == [i \in 1 .. c |-> MsMatches(SubSeq(p, (i - 1) * MsBatch + 1, i * MsBatch))] IN
           /\ v \in Seq(MsEvents) /\ MsSays(q, told, v)
           /\ MsAll(v) = MsIn(SubSeq(p, 1, c * MsBatch))
<1> DEFINE v == [i \in 1 .. c |-> MsMatches(SubSeq(p, (i - 1) * MsBatch + 1, i * MsBatch))]
           part(i) == SubSeq(p, (i - 1) * MsBatch + 1, i * MsBatch)
           upTo(i) == SubSeq(p, 1, i * MsBatch)
<1>1. Len(p) \in Nat /\ MsBatch \in Nat \ {0}
  BY MsInList, MsConstants DEF MsNumbers
<1>2. ASSUME NEW i \in 1 .. c
      PROVE  /\ (i - 1) * MsBatch \in Nat /\ i * MsBatch \in Nat /\ (i - 1) * MsBatch <= i * MsBatch
             /\ i * MsBatch <= Len(p)
  <2>1. i * MsBatch <= c * MsBatch
    BY <1>1
  <2>2. (i - 1) * MsBatch <= i * MsBatch
    BY <1>1
  <2>3. (i - 1) * MsBatch \in Nat /\ i * MsBatch \in Nat /\ c * MsBatch \in Nat
    BY <1>1
  <2> QED BY <1>1, <2>1, <2>2, <2>3
<1>3. ASSUME NEW i \in 1 .. c
      PROVE  /\ part(i) \in MsList /\ MsFits(q, told \cup MsIn(upTo(i - 1)), part(i))
             /\ MsIn(upTo(i)) = MsIn(upTo(i - 1)) \cup MsIn(part(i))
  <2> DEFINE a == (i - 1) * MsBatch
             b == i * MsBatch
  <2>1. a \in Nat /\ b \in Nat /\ a <= b /\ b <= Len(p)
    BY <1>2
  <2> HIDE DEF a, b
  <2>2. MsParts(q, told, p, a, b)
    BY <2>1, MsPartFits
  <2> QED BY ONLY <2>2 DEF MsParts, a, b
<1>4. v = [i \in 1 .. c |-> MsMatches(part(i))]
  OBVIOUS
<1> HIDE DEF part, v
<1>5. \A i \in 1 .. c : v[i] = MsMatches(part(i)) /\ MsMatches(part(i)) \in MsEvents
  BY <1>3, <1>4 DEF MsMatches, MsEvents
<1>6. v \in Seq(MsEvents) /\ Len(v) = c
  <2>1. v \in [1 .. c -> MsEvents]
    BY <1>4, <1>5
  <2> QED BY <2>1, SeqMade
<1>7. \A i \in 1 .. c : MsOf(v[i]) = MsIn(part(i)) /\ v[i].kind = "matches" /\ v[i].messages = part(i)
  <2>1. \A x : MsMatches(x).kind = "matches" /\ MsMatches(x).messages = x
    BY DEF MsMatches
  <2>2. \A x : MsOf(MsMatches(x)) = MsIn(x)
    BY <2>1 DEF MsOf
  <2> QED BY <1>5, <2>1, <2>2
<1>8. MsIn(upTo(0)) = {}
  <2>1. 0 * MsBatch = 0
    BY <1>1
  <2>2. Len(SubSeq(p, 1, 0)) = 0
    BY <1>1, FirstPartIs DEF MsList
  <2> QED BY <2>1, <2>2 DEF MsIn
<1> HIDE DEF upTo
<1>9. \A k \in 0 .. c : MsNews(v, k) = MsIn(upTo(k))
  <2> DEFINE bad == {k \in 1 .. c : MsNews(v, k) # MsIn(upTo(k))}
  <2>0. MsNews(v, 0) = {}
    BY DEF MsNews
  <2> SUFFICES ASSUME bad # {} PROVE FALSE
    BY <1>8, <2>0
  <2>1. PICK k \in bad : \A n \in bad : k <= n
    BY LeastOf
  <2>2. k \in 1 .. c /\ MsNews(v, k) # MsIn(upTo(k))
    OBVIOUS
  <2>3. MsNews(v, k - 1) = MsIn(upTo(k - 1))
    <3>1. CASE k = 1
      BY <1>8, <2>0, <3>1
    <3>2. CASE k # 1
      <4>1. k - 1 \in 1 .. c /\ ~ (k <= k - 1)
        BY <2>2, <3>2
      <4>2. k - 1 \notin bad
        BY <2>1, <4>1
      <4> QED BY <4>1, <4>2
    <3> QED BY <3>1, <3>2
  <2> HIDE DEF bad
  <2>4. MsNews(v, k) = MsNews(v, k - 1) \cup MsOf(v[k])
    <3>1. \A i : i \in 1 .. k <=> (i \in 1 .. (k - 1) \/ i = k)
      BY <2>2
    <3> QED BY <3>1, MsOfIs DEF MsNews
  <2> QED BY <1>3, <1>7, <2>2, <2>3, <2>4
<1>10. ASSUME NEW k \in 1 .. Len(v) PROVE MsEventTrue(q, told \cup MsNews(v, k - 1), v[k])
  <2>1. k \in 1 .. c /\ k - 1 \in 0 .. c
    BY <1>6
  <2>2. MsFits(q, told \cup MsNews(v, k - 1), v[k].messages) /\ v[k].kind = "matches"
    BY <1>3, <1>7, <1>9, <2>1
  <2> QED BY <2>2 DEF MsEventTrue
<1>11. MsAll(v) = MsIn(upTo(c))
  BY <1>6, <1>9 DEF MsAll
<1> QED BY <1>6, <1>10, <1>11 DEF MsSays, v, upTo

LEMMA MsToldMore ==
    ASSUME NEW q, NEW told, NEW cursor, MsCovered(q, told, cursor), NEW more, told \subseteq more
    PROVE  MsCovered(q, more, cursor)
BY DEF MsCovered

\* Every match held, then where the search stands.
LEMMA MsReportSays ==
    ASSUME NEW q, NEW told, NEW run \in MsSearches, MsFits(q, told, run.pending),
           MsCovered(q, told \cup MsIn(run.pending), MsTo(run.resume))
    PROVE  LET f == MsReport(run) IN
           /\ f[1] = [run EXCEPT !.pending = <<>>] /\ f[2] \in Seq(MsEvents) /\ MsSays(q, told, f[2])
           /\ MsAll(f[2]) = MsIn(run.pending)
<1> DEFINE first == IF run.pending = <<>> THEN <<>> ELSE <<MsMatches(run.pending)>>
           second == <<MsProgress(run.resume)>>
<1>1. run.pending \in MsList /\ run.resume \in Nat
  BY DEF MsSearches
<1>2. first \in Seq(MsEvents) /\ MsSays(q, told, first) /\ MsAll(first) = MsIn(run.pending)
  <2>1. CASE run.pending = <<>>
    <3>1. MsIn(run.pending) = {}
      BY <2>1 DEF MsIn
    <3> QED BY <2>1, <3>1, MsSaysNone
  <2>2. CASE run.pending # <<>>
    <3> DEFINE e == MsMatches(run.pending)
    <3>1. e \in MsEvents /\ MsEventTrue(q, told, e) /\ MsOf(e) = MsIn(run.pending)
      BY <1>1 DEF MsMatches, MsEvents, MsEventTrue, MsOf
    <3> HIDE DEF e
    <3>2. MsSays(q, told, <<e>>) /\ MsAll(<<e>>) = MsIn(run.pending) /\ <<e>> \in Seq(MsEvents)
      BY <3>1, MsSaysOne
    <3> QED BY <2>2, <3>2 DEF e
  <2> QED BY <2>1, <2>2
<1>3. second \in Seq(MsEvents) /\ MsSays(q, told \cup MsIn(run.pending), second) /\ MsAll(second) = {}
  <2> DEFINE e == MsProgress(run.resume)
  <2>1. e = [kind |-> "progress", resume |-> MsTo(run.resume)] /\ MsTo(run.resume) \in 0 .. MsLast
    BY MsConstants DEF MsProgress, MsTo, MsNumbers
  <2>2. e \in MsEvents /\ MsEventTrue(q, told \cup MsIn(run.pending), e) /\ MsOf(e) = {}
    BY <2>1 DEF MsEvents, MsEventTrue, MsOf
  <2> HIDE DEF e
  <2>3. MsSays(q, told \cup MsIn(run.pending), <<e>>) /\ MsAll(<<e>>) = {} /\ <<e>> \in Seq(MsEvents)
    BY <2>2, MsSaysOne
  <2> QED BY <2>3 DEF e
<1>4. MsReport(run) = <<[run EXCEPT !.pending = <<>>], first \o second>>
  BY DEF MsReport
<1> HIDE DEF first, second
<1>5. first \o second \in Seq(MsEvents) /\ MsSays(q, told, first \o second) /\ MsAll(first \o second) = MsIn(run.pending) \cup {}
  <2>1. MsSays(q, told \cup MsAll(first), second)
    BY <1>2, <1>3
  <2>2. MsJoins(q, told, first, second)
    BY <1>2, <1>3, <2>1, MsSaysMore
  <2> QED BY <1>2, <1>3, <2>2 DEF MsJoins
<1> QED BY <1>4, <1>5

\* What a flush keeps of the run it flushes.
MsLeft(run, left) == /\ left \in MsSearches /\ left.first = run.first /\ left.matched = run.matched
                     /\ left.resume = run.resume /\ left.at = run.at

MsSent(q, told, run, due, f) ==
    /\ f[2] \in Seq(MsEvents) /\ MsSays(q, told, f[2]) /\ MsLeft(run, f[1])
    /\ MsFits(q, told \cup MsAll(f[2]), f[1].pending)
    /\ MsAll(f[2]) \cup MsIn(f[1].pending) = MsIn(run.pending)
    /\ due => f[1].pending = <<>>

LEMMA MsFlushSays ==
    ASSUME NEW q, NEW told, NEW run \in MsSearches, MsFits(q, told, run.pending), NEW due \in BOOLEAN,
           due => MsCovered(q, told \cup MsIn(run.pending), MsTo(run.resume))
    PROVE  MsSent(q, told, run, due, MsFlush(run, due))
<1> DEFINE p == run.pending
           c == Len(p) \div MsBatch
           full == c * MsBatch
           batches == [i \in 1 .. c |-> MsMatches(SubSeq(p, (i - 1) * MsBatch + 1, i * MsBatch))]
           tail == SubSeq(p, full + 1, Len(p))
           rest == [run EXCEPT !.pending = tail]
           told2 == told \cup MsAll(batches)
<1>1. p \in MsList /\ Len(p) \in Nat /\ MsFits(q, told, p)
  BY MsInList DEF MsSearches
<1>2. c \in Nat /\ full \in Nat /\ full <= Len(p) /\ full \div MsBatch = c
  <2> HIDE DEF p
  <2> QED BY <1>1, MsConstants DEF MsNumbers
<1>3. MsFlush(run, due) = IF due THEN <<MsReport(rest)[1], batches \o MsReport(rest)[2]>> ELSE <<rest, batches>>
  <2>1. full = (Len(run.pending) \div MsBatch) * MsBatch
    OBVIOUS
  <2>2. MsFlush(run, due) =
          LET r == [run EXCEPT !.pending = SubSeq(@, full + 1, Len(@))]
              b == [i \in 1 .. full \div MsBatch |-> MsMatches(SubSeq(run.pending, (i - 1) * MsBatch + 1, i * MsBatch))]
          IN  IF due THEN <<MsReport(r)[1], b \o MsReport(r)[2]>> ELSE <<r, b>>
    BY DEF MsFlush
  <2>3. [run EXCEPT !.pending = SubSeq(@, full + 1, Len(@))] = rest
    OBVIOUS
  <2>4. [i \in 1 .. full \div MsBatch |-> MsMatches(SubSeq(run.pending, (i - 1) * MsBatch + 1, i * MsBatch))] = batches
    BY <1>2
  <2> HIDE DEF full, rest, batches
  <2> QED BY <2>2, <2>3, <2>4
<1> HIDE DEF c, batches
<1>4. batches \in Seq(MsEvents) /\ MsSays(q, told, batches) /\ MsAll(batches) = MsIn(SubSeq(p, 1, full))
  BY <1>1, <1>2, MsBatchesSay DEF batches
<1>5. tail \in MsList /\ MsFits(q, told2, tail) /\ MsIn(p) = MsAll(batches) \cup MsIn(tail)
  <2>1. SubSeq(p, 1, Len(p)) = p
    BY <1>1 DEF MsList
  <2>2. full <= Len(p) /\ Len(p) <= Len(p)
    BY <1>1, <1>2
  <2> HIDE DEF full, p
  <2>3. MsParts(q, told, p, full, Len(p))
    BY <1>1, <1>2, <2>2, MsPartFits
  <2> QED BY <1>4, <2>1, <2>3 DEF MsParts
<1> HIDE DEF full, tail
<1>6. rest \in MsSearches /\ MsLeft(run, rest) /\ rest.pending = tail
  BY <1>5 DEF MsSearches, MsLeft
<1> HIDE DEF rest, told2
<1>7. CASE ~ due
  BY <1>3, <1>4, <1>5, <1>6, <1>7 DEF told2, MsSent
<1>8. CASE due
  <2> DEFINE r == MsReport(rest)
  <2>1. told \cup MsIn(run.pending) = told2 \cup MsIn(rest.pending) /\ rest.resume = run.resume
    BY <1>5, <1>6 DEF told2, MsLeft
  <2>2. /\ r[1] = [rest EXCEPT !.pending = <<>>] /\ r[2] \in Seq(MsEvents) /\ MsSays(q, told2, r[2])
        /\ MsAll(r[2]) = MsIn(tail)
    BY <1>5, <1>6, <1>8, <2>1, MsReportSays
  <2> HIDE DEF r
  <2>3. /\ batches \o r[2] \in Seq(MsEvents) /\ MsSays(q, told, batches \o r[2])
        /\ MsAll(batches \o r[2]) = MsAll(batches) \cup MsIn(tail)
    <3>1. MsSays(q, told \cup MsAll(batches), r[2])
      BY <2>2 DEF told2
    <3>2. MsJoins(q, told, batches, r[2])
      BY <1>4, <2>2, <3>1, MsSaysMore
    <3> QED BY <2>2, <3>2 DEF MsJoins
  <2>4. MsLeft(run, r[1]) /\ r[1].pending = <<>>
    <3>1. <<>> \in MsList
      BY DEF MsList
    <3> QED BY <1>6, <2>2, <3>1 DEF MsSearches, MsLeft
  <2>5. MsIn(<<>>) = {} /\ \A t : MsFits(q, t, <<>>)
    BY DEF MsIn, MsFits
  <2>6. MsFlush(run, due) = <<r[1], batches \o r[2]>>
    BY <1>3, <1>8 DEF r
  <2>7. MsFlush(run, due)[1] = r[1] /\ MsFlush(run, due)[2] = batches \o r[2]
    BY <2>6
  <2> QED BY <1>5, <2>3, <2>4, <2>5, <2>7 DEF MsSent
<1> QED BY <1>7, <1>8

\* The wire grows by a flush.
MsGrown(q, seen, v, run, w, left) ==
    /\ w \in Seq(MsEvents) /\ MsSays(q, seen, w) /\ MsLeft(run, left)
    /\ MsFits(q, seen \cup MsAll(w), left.pending)
    /\ (seen \cup MsAll(w)) \cup MsIn(left.pending) = (seen \cup MsAll(v)) \cup MsIn(run.pending)
    /\ MsIn(left.pending) \subseteq MsIn(run.pending)

MsMayFlush(q, told, run, due) ==
    /\ run \in MsSearches /\ MsFits(q, told, run.pending)
    /\ due => MsCovered(q, told \cup MsIn(run.pending), MsTo(run.resume))
MsGrownBy(q, seen, v, run, due) ==
    /\ MsGrown(q, seen, v, run, v \o MsFlush(run, due)[2], MsFlush(run, due)[1])
    /\ due => MsFlush(run, due)[1].pending = <<>>

LEMMA MsFlushed ==
    ASSUME NEW q, NEW seen, NEW v \in Seq(MsEvents), MsSays(q, seen, v),
           NEW run, NEW due \in BOOLEAN, MsMayFlush(q, seen \cup MsAll(v), run, due)
    PROVE  MsGrownBy(q, seen, v, run, due)
<1> DEFINE f == MsFlush(run, due)
           told == seen \cup MsAll(v)
<1>1. /\ f[2] \in Seq(MsEvents) /\ MsSays(q, told, f[2]) /\ MsLeft(run, f[1])
      /\ MsFits(q, told \cup MsAll(f[2]), f[1].pending)
      /\ MsAll(f[2]) \cup MsIn(f[1].pending) = MsIn(run.pending)
      /\ due => f[1].pending = <<>>
  <2>1. MsSent(q, told, run, due, MsFlush(run, due))
    <3> HIDE DEF f
    <3> QED BY MsFlushSays DEF MsMayFlush
  <2> QED BY <2>1 DEF MsSent
<1> HIDE DEF f
<1>2. MsJoins(q, seen, v, f[2])
  BY <1>1, MsSaysMore
<1>3. /\ v \o f[2] \in Seq(MsEvents) /\ MsSays(q, seen, v \o f[2])
      /\ seen \cup MsAll(v \o f[2]) = told \cup MsAll(f[2])
  BY <1>2 DEF MsJoins
<1>4. (told \cup MsAll(f[2])) \cup MsIn(f[1].pending) = told \cup MsIn(run.pending) /\ MsIn(f[1].pending) \subseteq MsIn(run.pending)
  BY <1>1
<1> HIDE DEF told
<1>5. MsGrown(q, seen, v, run, v \o f[2], f[1])
  BY <1>1, <1>3, <1>4 DEF MsGrown, told
<1> QED BY <1>1, <1>5 DEF MsGrownBy, f

\* And by the end of the search.
LEMMA MsFinished ==
    ASSUME NEW q, NEW seen, NEW v \in Seq(MsEvents), MsSays(q, seen, v),
           NEW run \in MsSearches, MsFits(q, seen \cup MsAll(v), run.pending), NEW next \in 0 .. MsLast,
           MsCovered(q, (seen \cup MsAll(v)) \cup MsIn(run.pending), next)
    PROVE  LET w == v \o MsFlush([run EXCEPT !.resume = next], TRUE)[2] \o <<MsDone(next)>>
           IN  w \in Seq(MsEvents) /\ MsSays(q, seen, w)
<1> DEFINE last == [run EXCEPT !.resume = next]
           f == MsFlush(last, TRUE)
           u == v \o f[2]
           e == MsDone(next)
<1>1. last \in MsSearches /\ last.pending = run.pending /\ last.resume = next /\ MsTo(next) = next
  <2>1. next \in Nat /\ MsTo(next) = next
    BY MsConstants DEF MsTo, MsNumbers
  <2> QED BY <2>1 DEF MsSearches
<1> HIDE DEF last
<1>2. MsGrown(q, seen, v, last, u, f[1]) /\ f[1].pending = <<>>
  <2>1. MsMayFlush(q, seen \cup MsAll(v), last, TRUE)
    BY <1>1 DEF MsMayFlush
  <2>2. MsGrownBy(q, seen, v, last, TRUE)
    BY <2>1, MsFlushed
  <2> QED BY <2>2 DEF MsGrownBy
<1> HIDE DEF u, f
<1>3. u \in Seq(MsEvents) /\ MsSays(q, seen, u) /\ seen \cup MsAll(u) = (seen \cup MsAll(v)) \cup MsIn(run.pending)
  <2>1. MsIn(<<>>) = {}
    BY DEF MsIn
  <2> QED BY <1>1, <1>2, <2>1 DEF MsGrown
<1>4. e \in MsEvents /\ MsEventTrue(q, seen \cup MsAll(u), e)
  BY <1>3 DEF MsDone, MsEvents, MsEventTrue
<1> HIDE DEF e
<1>5. MsSays(q, seen \cup MsAll(u), <<e>>) /\ <<e>> \in Seq(MsEvents)
  BY <1>4, MsSaysOne
<1>6. MsJoins(q, seen, u, <<e>>)
  BY <1>3, <1>5, MsSaysMore
<1> QED BY <1>6 DEF MsJoins, u, f, last, e

\* What is found after what is held fits too.
MsAdded(q, told, p, x) == p \o x \in MsList /\ MsFits(q, told, p \o x) /\ MsIn(p \o x) = MsIn(p) \cup MsIn(x)

LEMMA MsAddFits ==
    ASSUME NEW q \in MsAsked, NEW told, NEW p \in MsList, MsFits(q, told, p),
           NEW x \in MsList, NEW more, more = told \cup MsIn(p), MsFits(q, more, x),
           \A i \in 1 .. Len(p), j \in 1 .. Len(x) : MsBefore(q, p[i], x[j])
    PROVE  MsAdded(q, told, p, x)
<1> DEFINE t == p \o x
<1>1. /\ t \in MsList /\ Len(t) = Len(p) + Len(x) /\ Len(p) \in Nat /\ Len(x) \in Nat
      /\ \A i \in 1 .. (Len(p) + Len(x)) : t[i] = IF i <= Len(p) THEN p[i] ELSE x[i - Len(p)]
  <2>1. t \in MsList /\ Len(t) = Len(p) + Len(x)
    BY DEF MsList
  <2>2. \A i \in 1 .. (Len(p) + Len(x)) : t[i] = IF i <= Len(p) THEN p[i] ELSE x[i - Len(p)]
    BY DEF MsList
  <2> QED BY <2>1, <2>2, MsInList
<1> HIDE DEF t
<1>2. \A i \in 1 .. Len(p) : t[i] = p[i] /\ i \in 1 .. Len(t)
  BY <1>1
<1>3. ASSUME NEW j \in 1 .. Len(x) PROVE t[Len(p) + j] = x[j] /\ Len(p) + j \in 1 .. Len(t)
  <2>1. Len(p) + j \in 1 .. (Len(p) + Len(x)) /\ ~ (Len(p) + j <= Len(p)) /\ Len(p) + j - Len(p) = j
    BY <1>1
  <2> QED BY <1>1, <2>1
<1>4. ASSUME NEW i \in 1 .. Len(t) PROVE i \in 1 .. Len(p) \/ \E j \in 1 .. Len(x) : i = Len(p) + j
  <2>1. CASE i <= Len(p)
    BY <1>1, <2>1
  <2>2. CASE ~ (i <= Len(p))
    <3>1. i - Len(p) \in 1 .. Len(x) /\ i = Len(p) + (i - Len(p))
      BY <1>1, <2>2
    <3> QED BY <3>1
  <2> QED BY <2>1, <2>2
<1>5. MsIn(t) = MsIn(p) \cup MsIn(x)
  <2>1. ASSUME NEW m \in MsIn(t) PROVE m \in MsIn(p) \cup MsIn(x)
    <3>1. PICK i \in 1 .. Len(t) : t[i] = m
      BY <2>1 DEF MsIn
    <3>2. CASE i \in 1 .. Len(p)
      BY <1>2, <3>1, <3>2, MsInList
    <3>3. CASE \E j \in 1 .. Len(x) : i = Len(p) + j
      BY <1>3, <3>1, <3>3, MsInList
    <3> QED BY <1>4, <3>2, <3>3
  <2>2. ASSUME NEW m \in MsIn(p) PROVE m \in MsIn(t)
    <3>1. PICK i \in 1 .. Len(p) : p[i] = m
      BY <2>2 DEF MsIn
    <3> QED BY <1>1, <1>2, <3>1, MsInList
  <2>3. ASSUME NEW m \in MsIn(x) PROVE m \in MsIn(t)
    <3>1. PICK j \in 1 .. Len(x) : x[j] = m
      BY <2>3 DEF MsIn
    <3> QED BY <1>1, <1>3, <3>1, MsInList
  <2> QED BY <2>1, <2>2, <2>3
<1>6. ASSUME NEW i \in 1 .. Len(t)
      PROVE  t[i] \in q.matches /\ \A m \in q.matches : MsBefore(q, m, t[i]) => m \in told \/ m \in MsIn(t)
  <2>1. CASE i \in 1 .. Len(p)
    BY <1>2, <1>5, <2>1 DEF MsFits
  <2>2. CASE \E j \in 1 .. Len(x) : i = Len(p) + j
    <3>1. PICK j \in 1 .. Len(x) : i = Len(p) + j
      BY <2>2
    <3>2. t[i] = x[j]
      BY <1>3, <3>1
    <3> QED BY <1>5, <3>2 DEF MsFits
  <2> QED BY <1>4, <2>1, <2>2
<1>7. ASSUME NEW i \in 1 .. Len(t), NEW j \in 1 .. Len(t), i < j PROVE MsBefore(q, t[i], t[j])
  <2>1. CASE j \in 1 .. Len(p)
    <3>1. i \in 1 .. Len(p)
      BY <1>1, <1>7, <2>1
    <3> QED BY <1>2, <1>7, <2>1, <3>1 DEF MsFits
  <2>2. CASE \E l \in 1 .. Len(x) : j = Len(p) + l
    <3>1. PICK l \in 1 .. Len(x) : j = Len(p) + l
      BY <2>2
    <3>2. CASE i \in 1 .. Len(p)
      BY <1>2, <1>3, <3>1, <3>2
    <3>3. CASE \E k \in 1 .. Len(x) : i = Len(p) + k
      <4>1. PICK k \in 1 .. Len(x) : i = Len(p) + k
        BY <3>3
      <4>2. k < l
        BY <1>1, <1>7, <3>1, <4>1
      <4>3. t[i] = x[k] /\ t[j] = x[l]
        BY <1>3, <3>1, <4>1
      <4> QED BY <4>2, <4>3 DEF MsFits
    <3> QED BY <1>4, <3>2, <3>3
  <2> QED BY <1>4, <2>1, <2>2
<1>8. MsFits(q, told, t)
  BY <1>6, <1>7 DEF MsFits
<1> QED BY <1>1, <1>5, <1>8 DEF MsAdded, t

---------------------------------------------------------------------------
(* The invariant of a search. *)

MsStates == [status : {"idle", "running", "done", "stopped", "error"}, messages : MsList, told : BOOLEAN,
             progress : 0 .. MsLast, done : 0 .. MsLast, runCursor : 0 .. MsLast, resume : 0 .. MsLast]

MsTypes ==
    /\ msQuery \in MsAsked /\ msState \in MsStates /\ msWire \in Seq(MsEvents)
    /\ msRun = MsNoRun \/ msRun \in MsSearches

\* What is shown, and where the search is said to stand.
MsShownInv ==
    LET seen == MsIn(msState.messages) IN
    /\ MsFits(msQuery, {}, msState.messages)
    /\ msState.told => MsCovered(msQuery, seen, msState.progress)
    /\ msState.runCursor # 0 => MsCovered(msQuery, seen, msState.runCursor)
    /\ msState.status = "done" => MsCovered(msQuery, seen, msState.done)
    /\ msState.status = "stopped" /\ msState.resume # 0 => MsCovered(msQuery, seen, msState.resume)

MsSeen == MsIn(msState.messages)

\* What is on its way fits what is shown.
MsWireInv == MsSays(msQuery, MsSeen, msWire)

\* What the server holds fits after it, and nothing before the server's place is missing.
MsPlaced(q, told, run) ==
    run.on =>
        /\ run.at \in 1 .. MsLast /\ run.matched < MsMaxMatches /\ MsFits(q, told, run.pending)
        /\ \A m \in q.matches : MsBefore(q, m, run.at) => m \in told \cup MsIn(run.pending)
        /\ \A i \in 1 .. Len(run.pending) : MsBefore(q, run.pending[i], run.at)
MsRunInv == MsPlaced(msQuery, MsSeen \cup MsAll(msWire), msRun)

MsInv == MsTypes /\ MsShownInv /\ MsWireInv /\ MsRunInv

\* A search that is on is one of the records of the server.
LEMMA MsRunIs ==
    ASSUME MsInv, msRun.on
    PROVE  /\ msRun \in MsSearches /\ msRun.at \in 1 .. MsLast /\ msRun.matched \in Nat /\ msRun.pending \in MsList
           /\ MsPlaced(msQuery, MsSeen \cup MsAll(msWire), msRun)
<1>1. msRun \in MsSearches
  BY DEF MsInv, MsTypes, MsNoRun
<1> QED BY <1>1 DEF MsInv, MsRunInv, MsPlaced, MsSearches

LEMMA MsNoRunIs == ~MsNoRun.on /\ \A q, told : MsPlaced(q, told, MsNoRun)
BY DEF MsNoRun, MsPlaced

\* A step of the server.
LEMMA MsServes ==
    ASSUME MsInv, UNCHANGED <<msQuery, msState>>, msWire' \in Seq(MsEvents), MsSays(msQuery, MsSeen, msWire'),
           msRun' = MsNoRun \/ msRun' \in MsSearches, MsPlaced(msQuery, MsSeen \cup MsAll(msWire'), msRun')
    PROVE  MsInv'
<1>1. MsTypes'
  BY DEF MsInv, MsTypes
<1>2. MsShownInv'
  BY DEF MsInv, MsShownInv
<1>3. MsSeen' = MsSeen
  BY DEF MsSeen
<1>4. MsWireInv' /\ MsRunInv'
  BY <1>3 DEF MsWireInv, MsRunInv
<1> QED BY <1>1, <1>2, <1>4 DEF MsInv

LEMMA MsServesNoMore ==
    ASSUME MsInv, UNCHANGED <<msQuery, msState>>, msWire' \in Seq(MsEvents), MsSays(msQuery, MsSeen, msWire'), msRun' = MsNoRun
    PROVE  MsInv'
BY MsServes, MsNoRunIs

\* The search goes on after a flush.
MsRunAfter(q, seen, run) ==
    /\ run \in MsSearches /\ run.at \in 1 .. MsLast /\ run.matched < MsMaxMatches
    /\ \A m \in q.matches : MsBefore(q, m, run.at) => m \in seen \cup MsIn(run.pending)
    /\ \A m \in MsIn(run.pending) : MsBefore(q, m, run.at)

LEMMA MsGoesOn ==
    ASSUME MsInv, UNCHANGED <<msQuery, msState>>, NEW run, NEW due \in BOOLEAN,
           MsMayFlush(msQuery, MsSeen \cup MsAll(msWire), run, due),
           MsRunAfter(msQuery, MsSeen \cup MsAll(msWire), run),
           msWire' = msWire \o MsFlush(run, due)[2], msRun' = MsFlush(run, due)[1]
    PROVE  MsInv'
<1>1. msWire \in Seq(MsEvents) /\ MsSays(msQuery, MsSeen, msWire)
  BY DEF MsInv, MsTypes, MsWireInv
<1>2. MsGrownBy(msQuery, MsSeen, msWire, run, due)
  BY <1>1, MsFlushed
<1>3. MsGrown(msQuery, MsSeen, msWire, run, msWire', msRun')
  BY <1>2 DEF MsGrownBy
<1>4. msRun' \in MsSearches /\ msRun'.at = run.at /\ msRun'.matched = run.matched /\ msRun'.pending \in MsList
  BY <1>3 DEF MsGrown, MsLeft, MsSearches
<1>5. MsPlaced(msQuery, MsSeen \cup MsAll(msWire'), msRun')
  <2>1. MsFits(msQuery, MsSeen \cup MsAll(msWire'), msRun'.pending)
    BY <1>3 DEF MsGrown
  <2>2. \A m \in msQuery.matches : MsBefore(msQuery, m, run.at) => m \in (MsSeen \cup MsAll(msWire')) \cup MsIn(msRun'.pending)
    BY <1>3 DEF MsGrown, MsRunAfter
  <2>3. \A i \in 1 .. Len(msRun'.pending) : MsBefore(msQuery, msRun'.pending[i], run.at)
    <3>1. \A i \in 1 .. Len(msRun'.pending) : msRun'.pending[i] \in MsIn(msRun'.pending)
      BY <1>4, MsInList
    <3> QED BY <1>3, <3>1 DEF MsGrown, MsRunAfter
  <2> QED BY <1>4, <2>1, <2>2, <2>3 DEF MsPlaced, MsRunAfter
<1> QED BY <1>1, <1>3, <1>4, <1>5, MsServes DEF MsGrown

\* The search ends, after another flush or at once.
LEMMA MsComesToAnEnd ==
    ASSUME MsInv, UNCHANGED <<msQuery, msState>>, NEW v \in Seq(MsEvents), MsSays(msQuery, MsSeen, v),
           NEW run \in MsSearches, MsFits(msQuery, MsSeen \cup MsAll(v), run.pending), NEW next \in 0 .. MsLast,
           MsCovered(msQuery, (MsSeen \cup MsAll(v)) \cup MsIn(run.pending), next),
           msRun' = MsNoRun, msWire' = v \o MsFlush([run EXCEPT !.resume = next], TRUE)[2] \o <<MsDone(next)>>
    PROVE  MsInv'
<1> DEFINE w == v \o MsFlush([run EXCEPT !.resume = next], TRUE)[2] \o <<MsDone(next)>>
<1>1. w \in Seq(MsEvents) /\ MsSays(msQuery, MsSeen, w)
  BY MsFinished
<1>2. msWire' = w
  OBVIOUS
<1> HIDE DEF w
<1> QED BY <1>1, <1>2, MsServesNoMore

LEMMA MsFinishes ==
    ASSUME MsInv, UNCHANGED <<msQuery, msState>>, NEW run \in MsSearches, NEW next \in 0 .. MsLast,
           MsFits(msQuery, MsSeen \cup MsAll(msWire), run.pending),
           MsCovered(msQuery, (MsSeen \cup MsAll(msWire)) \cup MsIn(run.pending), next), MsFinish(run, next)
    PROVE  MsInv'
BY MsComesToAnEnd DEF MsInv, MsTypes, MsWireInv, MsFinish

\* Before the place of the search nothing is missing.
LEMMA MsPlaceCovers ==
    ASSUME MsInv, msRun.on
    PROVE  MsCovered(msQuery, (MsSeen \cup MsAll(msWire)) \cup MsIn(msRun.pending), msRun.at)
<1>1. msRun.at # 0 /\ \A m \in msQuery.matches : MsBefore(msQuery, m, msRun.at) => m \in (MsSeen \cup MsAll(msWire)) \cup MsIn(msRun.pending)
  BY MsRunIs DEF MsPlaced
<1> QED BY <1>1 DEF MsCovered

LEMMA MsWithinStep == MsInv /\ MsWithin => MsInv'
<1> SUFFICES ASSUME MsInv, MsWithin PROVE MsInv'
  OBVIOUS
<1> DEFINE run == [msRun EXCEPT !.resume = msRun.at]
           told == MsSeen \cup MsAll(msWire)
<1>1. msRun.on /\ UNCHANGED <<msQuery, msState>> /\ msWire' = msWire \o MsFlush(run, TRUE)[2] /\ msRun' = MsFlush(run, TRUE)[1]
  BY DEF MsWithin, MsGoOn
<1>2. msRun \in MsSearches /\ msRun.at \in 1 .. MsLast /\ MsPlaced(msQuery, told, msRun) /\ msRun.pending \in MsList
  BY <1>1, MsRunIs
<1>3. run \in MsSearches /\ run.pending = msRun.pending /\ run.at = msRun.at /\ run.matched = msRun.matched /\ run.resume = msRun.at
  BY <1>2 DEF MsSearches
<1> HIDE DEF run
<1>4. MsMayFlush(msQuery, told, run, TRUE)
  <2>1. MsTo(run.resume) = msRun.at
    BY <1>2, <1>3 DEF MsTo
  <2> QED BY <1>1, <1>2, <1>3, <2>1, MsPlaceCovers DEF MsMayFlush, MsPlaced
<1>5. MsRunAfter(msQuery, told, run)
  <2>1. \A m \in MsIn(run.pending) : MsBefore(msQuery, m, run.at)
    BY <1>1, <1>2, <1>3 DEF MsPlaced, MsIn
  <2> QED BY <1>1, <1>2, <1>3, <2>1 DEF MsPlaced, MsRunAfter
<1> HIDE DEF told
<1> QED BY <1>1, <1>4, <1>5, MsGoesOn DEF told

LEMMA MsAbandonStep == MsInv /\ MsAbandon => MsInv'
<1> SUFFICES ASSUME MsInv, MsAbandon PROVE MsInv'
  OBVIOUS
<1>1. msRun.on /\ UNCHANGED <<msQuery, msState>> /\ MsFinish(msRun, msRun.at)
  BY DEF MsAbandon
<1>2. msRun \in MsSearches /\ msRun.at \in 0 .. MsLast /\ MsFits(msQuery, MsSeen \cup MsAll(msWire), msRun.pending)
  BY <1>1, MsRunIs, MsConstants DEF MsPlaced, MsNumbers
<1> QED BY <1>1, <1>2, MsPlaceCovers, MsFinishes

\* forward: the search passes one message.
MsPassed == [msRun EXCEPT !.pending = IF msRun.at \in msQuery.matches THEN Append(@, msRun.at) ELSE @,
                          !.matched = IF msRun.at \in msQuery.matches THEN @ + 1 ELSE @,
                          !.resume = msRun.at + 1, !.at = msRun.at + 1]

LEMMA MsPassedIs ==
    ASSUME MsInv, msRun.on, msQuery.direction = "forward"
    PROVE  LET told == MsSeen \cup MsAll(msWire) IN
           /\ MsPassed \in MsSearches /\ MsPassed.at = msRun.at + 1 /\ MsPassed.resume = msRun.at + 1
           /\ MsFits(msQuery, told, MsPassed.pending)
           /\ \A m \in msQuery.matches : m <= msRun.at => m \in told \cup MsIn(MsPassed.pending)
           /\ \A m \in MsIn(MsPassed.pending) : m <= msRun.at
<1> DEFINE told == MsSeen \cup MsAll(msWire)
           p == msRun.pending
           at == msRun.at
           more == IF at \in msQuery.matches THEN Append(p, at) ELSE p
           n == IF at \in msQuery.matches THEN msRun.matched + 1 ELSE msRun.matched
<1>1. /\ msRun \in MsSearches /\ at \in 1 .. MsLast /\ p \in MsList /\ msRun.matched \in Nat
      /\ MsPlaced(msQuery, told, msRun) /\ msQuery \in MsAsked /\ Len(p) \in Nat
  BY MsRunIs, MsInList DEF MsInv, MsTypes
<1>2. /\ MsFits(msQuery, told, p) /\ \A i \in 1 .. Len(p) : p[i] < at
      /\ \A m \in msQuery.matches : m < at => m \in told \cup MsIn(p)
  BY <1>1 DEF MsPlaced, MsBefore
<1>3. MsPassed = [msRun EXCEPT !.pending = more, !.matched = n, !.resume = at + 1, !.at = at + 1]
  BY DEF MsPassed
<1> HIDE DEF told, p, at
<1>4. more \in MsList /\ MsFits(msQuery, told, more) /\ MsIn(p) \subseteq MsIn(more)
      /\ (at \in msQuery.matches => at \in MsIn(more)) /\ \A m \in MsIn(more) : m \in MsIn(p) \/ m = at
  <2>1. CASE at \notin msQuery.matches
    BY <1>1, <1>2, <2>1
  <2>2. CASE at \in msQuery.matches
    <3> DEFINE x == <<at>>
    <3>1. x \in MsList /\ Len(x) = 1 /\ x[1] = at /\ Append(p, at) = p \o x /\ \A i \in 1 .. Len(x) : i = 1
      <4>1. at \in 1 .. MsLast
        BY <1>1
      <4> QED BY <1>1, <4>1 DEF MsList
    <3> HIDE DEF x
    <3>2. MsIn(x) = {at}
      BY <1>1, <3>1 DEF MsIn
    <3>3. MsFits(msQuery, told \cup MsIn(p), x)
      <4>1. \A i, j \in 1 .. Len(x) : ~ (i < j)
        BY <3>1
      <4>2. \A m \in msQuery.matches : MsBefore(msQuery, m, at) => m < at
        BY DEF MsBefore
      <4> QED BY <1>2, <2>2, <3>1, <4>1, <4>2 DEF MsFits
    <3>4. \A i \in 1 .. Len(p), j \in 1 .. Len(x) : MsBefore(msQuery, p[i], x[j])
      BY <1>2, <3>1 DEF MsBefore
    <3>5. MsAdded(msQuery, told, p, x)
      BY <1>1, <1>2, <3>1, <3>3, <3>4, MsAddFits
    <3>6. more = p \o x
      BY <2>2, <3>1
    <3> HIDE DEF more
    <3> QED BY <3>2, <3>5, <3>6 DEF MsAdded
  <2> QED BY <2>1, <2>2
<1>5. n \in Nat
  BY <1>1
<1> HIDE DEF more, n
<1>6. MsPassed \in MsSearches /\ MsPassed.at = at + 1 /\ MsPassed.resume = at + 1 /\ MsPassed.pending = more
  <2>1. at + 1 \in Nat
    BY <1>1, MsConstants DEF MsNumbers
  <2> QED BY <1>1, <1>3, <1>4, <1>5, <2>1 DEF MsSearches
<1>7. ASSUME NEW m \in msQuery.matches, m <= at PROVE m \in told \cup MsIn(more)
  <2>1. m \in Nat /\ (m < at \/ m = at)
    BY <1>1, <1>7, MsConstants DEF MsAsked, MsNumbers
  <2> QED BY <1>2, <1>4, <2>1
<1>8. ASSUME NEW m \in MsIn(more) PROVE m <= at
  <2>1. CASE m = at
    BY <1>1, <2>1
  <2>2. CASE m \in MsIn(p)
    <3>1. PICK i \in 1 .. Len(p) : p[i] = m
      BY <2>2 DEF MsIn
    <3>2. m \in Nat
      BY <2>2, MsConstants DEF MsIn, MsNumbers
    <3> QED BY <1>1, <1>2, <3>1, <3>2
  <2> QED BY <1>4, <2>1, <2>2
<1> QED BY <1>4, <1>6, <1>7, <1>8 DEF told, p, at

LEMMA MsForwardStep == MsInv /\ (\E due, spent \in BOOLEAN : MsForward(due, spent)) => MsInv'
<1> SUFFICES ASSUME MsInv, NEW due \in BOOLEAN, NEW spent \in BOOLEAN, MsForward(due, spent) PROVE MsInv'
  OBVIOUS
<1> DEFINE at == msRun.at
           run == MsPassed
           f == MsFlush(run, due)
           over == spent \/ run.matched >= MsMaxMatches
           next == IF over /\ at < MsLast THEN at + 1 ELSE 0
           told == MsSeen \cup MsAll(msWire)
           v == msWire \o f[2]
<1>1. /\ msRun.on /\ msQuery.direction = "forward" /\ UNCHANGED <<msQuery, msState>>
      /\ IF over \/ at = MsLast
         THEN msRun' = MsNoRun /\ msWire' = v \o MsFlush([f[1] EXCEPT !.resume = next], TRUE)[2] \o <<MsDone(next)>>
         ELSE msRun' = f[1] /\ msWire' = v
  BY DEF MsForward, MsPassed
<1>2. /\ run \in MsSearches /\ run.at = at + 1 /\ run.resume = at + 1
      /\ MsFits(msQuery, told, run.pending)
      /\ \A m \in msQuery.matches : m <= at => m \in told \cup MsIn(run.pending)
      /\ \A m \in MsIn(run.pending) : m <= at
  BY <1>1, MsPassedIs
<1>3. /\ at \in 1 .. MsLast /\ MsLast \in Nat /\ MsMaxMatches \in Nat /\ msWire \in Seq(MsEvents)
      /\ MsSays(msQuery, MsSeen, msWire) /\ \A m \in msQuery.matches : m \in 1 .. MsLast
  BY <1>1, MsRunIs, MsConstants DEF MsInv, MsTypes, MsWireInv, MsNumbers, MsAsked
<1>4. run.matched \in Nat
  BY <1>2 DEF MsSearches
<1> HIDE DEF at, run, told
<1>5. \A x : MsCovered(msQuery, x, at + 1) <=> \A m \in msQuery.matches : m <= at => m \in x
  <2>1. \A m \in msQuery.matches : MsBefore(msQuery, m, at + 1) <=> m <= at
    BY <1>1, <1>3 DEF MsBefore
  <2>2. at + 1 # 0
    BY <1>3
  <2> QED BY <2>1, <2>2 DEF MsCovered
<1>6. \A x : at = MsLast /\ (\A m \in msQuery.matches : m <= at => m \in x) => MsCovered(msQuery, x, 0)
  BY <1>3 DEF MsCovered
<1>7. MsMayFlush(msQuery, told, run, due)
  <2>1. MsCovered(msQuery, told \cup MsIn(run.pending), MsTo(run.resume))
    <3>1. CASE at = MsLast
      <4>1. MsTo(run.resume) = 0
        BY <1>2, <1>3, <3>1 DEF MsTo
      <4> QED BY <1>2, <1>6, <3>1, <4>1
    <3>2. CASE at # MsLast
      <4>1. MsTo(run.resume) = at + 1
        BY <1>2, <1>3, <3>2 DEF MsTo
      <4> QED BY <1>2, <1>5, <4>1
    <3> QED BY <3>1, <3>2
  <2> QED BY <1>2, <2>1 DEF MsMayFlush
<1>8. CASE ~ (over \/ at = MsLast)
  <2>1. MsRunAfter(msQuery, told, run)
    <3>1. run.at \in 1 .. MsLast /\ run.matched < MsMaxMatches
      BY <1>2, <1>3, <1>4, <1>8
    <3>2. \A m \in msQuery.matches : MsBefore(msQuery, m, run.at) => m <= at
      BY <1>1, <1>2, <1>3 DEF MsBefore
    <3>3. \A m \in MsIn(run.pending) : MsBefore(msQuery, m, run.at)
      <4>1. \A m \in MsIn(run.pending) : m \in Nat
        BY <1>3 DEF MsIn
      <4> QED BY <1>1, <1>2, <1>3, <4>1 DEF MsBefore
    <3> QED BY <1>2, <3>1, <3>2, <3>3 DEF MsRunAfter
  <2>2. msRun' = MsFlush(run, due)[1] /\ msWire' = msWire \o MsFlush(run, due)[2]
    BY <1>1, <1>8
  <2> HIDE DEF over, f
  <2> QED BY <1>1, <1>7, <2>1, <2>2, MsGoesOn DEF told
<1>9. CASE over \/ at = MsLast
  <2>1. MsGrownBy(msQuery, MsSeen, msWire, run, due)
    <3> HIDE DEF f
    <3> QED BY <1>3, <1>7, MsFlushed DEF told
  <2>2. MsGrown(msQuery, MsSeen, msWire, run, v, f[1])
    BY <2>1 DEF MsGrownBy
  <2>3. msRun' = MsNoRun /\ msWire' = v \o MsFlush([f[1] EXCEPT !.resume = next], TRUE)[2] \o <<MsDone(next)>>
    BY <1>1, <1>9
  <2>4. next \in 0 .. MsLast /\ (next = at + 1 \/ (next = 0 /\ at = MsLast))
    <3>1. CASE at = MsLast
      BY <1>3, <3>1
    <3>2. CASE over /\ at # MsLast
      <4>1. at < MsLast
        BY <1>3, <3>2
      <4>2. next = at + 1
        BY <3>2, <4>1
      <4> QED BY <1>3, <4>1, <4>2
    <3> QED BY <1>9, <3>1, <3>2
  <2> HIDE DEF v, f, next
  <2>5. /\ v \in Seq(MsEvents) /\ MsSays(msQuery, MsSeen, v) /\ f[1] \in MsSearches
        /\ MsFits(msQuery, MsSeen \cup MsAll(v), f[1].pending)
        /\ (MsSeen \cup MsAll(v)) \cup MsIn(f[1].pending) = told \cup MsIn(run.pending)
    BY <2>2 DEF MsGrown, MsLeft, told
  <2>6. MsCovered(msQuery, told \cup MsIn(run.pending), next)
    BY <1>2, <1>5, <1>6, <2>4
  <2>7. MsCovered(msQuery, (MsSeen \cup MsAll(v)) \cup MsIn(f[1].pending), next)
    BY <2>5, <2>6
  <2> QED BY <1>1, <2>3, <2>4, <2>5, <2>7, MsComesToAnEnd
<1> QED BY <1>8, <1>9

\* backward: the matches of a window, newest first, and those of them that still fit.
MsWindow(low) == Reverse(Ascending(msQuery.matches \cap (low .. msRun.at)))
MsRoom == MsMaxMatches - msRun.matched
MsFound(low) == SubSeq(MsWindow(low), 1, IF Len(MsWindow(low)) < MsRoom THEN Len(MsWindow(low)) ELSE MsRoom)
MsSwept(low) == [msRun EXCEPT !.pending = @ \o MsFound(low), !.matched = @ + Len(MsFound(low)),
                              !.resume = low - 1, !.at = low - 1, !.first = FALSE]

LEMMA MsFoundIs ==
    ASSUME MsInv, msRun.on, msQuery.direction = "backward", NEW low \in 1 .. msRun.at
    PROVE  LET told == MsSeen \cup MsAll(msWire)
               x == MsFound(low)
           IN  /\ x \in MsList /\ Len(x) \in Nat /\ MsFits(msQuery, told \cup MsIn(msRun.pending), x)
               /\ \A i \in 1 .. Len(x) : x[i] \in low .. msRun.at
               /\ Len(MsWindow(low)) \in Nat
               /\ Len(MsWindow(low)) > MsRoom => Len(x) = MsRoom
               /\ Len(MsWindow(low)) <= MsRoom => \A m \in msQuery.matches : low <= m /\ m <= msRun.at => m \in MsIn(x)
<1> DEFINE told == MsSeen \cup MsAll(msWire)
           S == msQuery.matches \cap (low .. msRun.at)
           a == MsWindow(low)
           n == IF Len(a) < MsRoom THEN Len(a) ELSE MsRoom
           all == told \cup MsIn(msRun.pending)
<1>1. /\ msRun.at \in 1 .. MsLast /\ msQuery \in MsAsked /\ MsRoom \in Nat /\ MsLast \in Nat /\ msRun.at \in Nat /\ low \in Nat
      /\ \A m \in msQuery.matches : m > msRun.at => m \in all
  <2>1. msRun.at \in 1 .. MsLast /\ msRun.matched \in Nat /\ MsPlaced(msQuery, told, msRun) /\ msQuery \in MsAsked
    BY MsRunIs DEF MsInv, MsTypes
  <2>2. msRun.matched < MsMaxMatches /\ \A m \in msQuery.matches : MsBefore(msQuery, m, msRun.at) => m \in all
    BY <2>1 DEF MsPlaced
  <2> QED BY <2>1, <2>2, MsConstants DEF MsRoom, MsNumbers, MsBefore
<1>2. S \in SUBSET (1 .. MsLast) /\ \A m \in S : m \in msQuery.matches /\ low <= m /\ m <= msRun.at /\ m \in Nat
  BY <1>1 DEF MsAsked
<1>3. \A m \in msQuery.matches : m \in Nat /\ (low <= m /\ m <= msRun.at => m \in S)
  BY <1>1 DEF MsAsked
<1> HIDE DEF S
<1>4. /\ a \in MsList /\ MsIn(a) = S /\ \A i \in 1 .. Len(a) : a[i] \in S
      /\ \A i, j \in 1 .. Len(a) : i < j => MsBefore(msQuery, a[i], a[j])
  <2>1. a = IF msQuery.direction = "forward" THEN Ascending(S) ELSE Reverse(Ascending(S))
    BY DEF MsWindow, S
  <2> QED BY <1>2, <2>1, MsListedIs
<1> HIDE DEF a, all
<1>5. MsFits(msQuery, all, a)
  <2>1. ASSUME NEW i \in 1 .. Len(a), NEW m \in msQuery.matches, MsBefore(msQuery, m, a[i]) PROVE m \in all \/ m \in MsIn(a)
    <3>1. a[i] < m /\ low <= a[i] /\ a[i] \in Nat
      BY <1>2, <1>4, <2>1 DEF MsBefore
    <3> QED BY <1>1, <1>3, <1>4, <3>1
  <2> QED BY <1>2, <1>4, <2>1 DEF MsFits
<1>6. Len(a) \in Nat /\ n \in Nat /\ 0 <= n /\ n <= Len(a)
  BY <1>1, <1>4, MsInList
<1> HIDE DEF n
<1>7. MsParts(msQuery, all, a, 0, n)
  BY <1>4, <1>5, <1>6, MsPartFits
<1>8. LET x == SubSeq(a, 1, n) IN
      /\ x \in MsList /\ Len(x) = n /\ MsFits(msQuery, all, x) /\ \A i \in 1 .. n : x[i] = a[i]
  <2>1. Len(SubSeq(a, 1, 0)) = 0
    BY <1>4, <1>6, FirstPartIs DEF MsList
  <2>2. MsIn(SubSeq(a, 1, 0)) = {}
    BY <2>1 DEF MsIn
  <2>3. SubSeq(a, 0 + 1, n) = SubSeq(a, 1, n)
    OBVIOUS
  <2>4. all \cup {} = all
    OBVIOUS
  <2>5. Len(SubSeq(a, 1, n)) = n /\ \A i \in 1 .. n : SubSeq(a, 1, n)[i] = a[i]
    BY <1>4, <1>6, FirstPartIs DEF MsList
  <2> QED BY <1>7, <2>2, <2>3, <2>4, <2>5 DEF MsParts
<1> DEFINE x == SubSeq(a, 1, n)
<1>9. MsFound(low) = x
  BY DEF MsFound, a, n
<1> HIDE DEF x
<1>10. x \in MsList /\ Len(x) = n /\ MsFits(msQuery, all, x) /\ \A i \in 1 .. n : x[i] = a[i]
  BY <1>8 DEF x
<1>11. \A i \in 1 .. Len(x) : x[i] \in low .. msRun.at
  <2> SUFFICES ASSUME NEW i \in 1 .. Len(x) PROVE x[i] \in low .. msRun.at
    OBVIOUS
  <2>1. i \in 1 .. n /\ i \in 1 .. Len(a)
    BY <1>6, <1>10
  <2>2. x[i] \in S
    BY <1>4, <1>10, <2>1
  <2>3. x[i] \in Nat /\ low <= x[i] /\ x[i] <= msRun.at
    BY <1>2, <2>2
  <2> HIDE DEF S
  <2> QED BY <1>1, <2>3
<1>12. Len(a) > MsRoom => Len(x) = MsRoom
  BY <1>1, <1>6, <1>10 DEF n
<1>13. ASSUME Len(a) <= MsRoom, NEW m \in msQuery.matches, low <= m, m <= msRun.at PROVE m \in MsIn(x)
  <2>1. n = Len(a)
    BY <1>1, <1>6, <1>13 DEF n
  <2>2. m \in S
    BY <1>3, <1>13
  <2>3. PICK i \in 1 .. Len(a) : a[i] = m
    BY <1>4, <2>2 DEF MsIn
  <2>4. i \in 1 .. Len(x) /\ x[i] = m
    BY <1>10, <2>1, <2>3
  <2> QED BY <1>10, <2>4, MsInList
<1> QED BY <1>6, <1>9, <1>10, <1>11, <1>12, <1>13 DEF a, all, told

LEMMA MsSweptIs ==
    ASSUME MsInv, msRun.on, msQuery.direction = "backward", NEW low \in 1 .. msRun.at
    PROVE  LET told == MsSeen \cup MsAll(msWire)
               run == MsSwept(low)
           IN  /\ run \in MsSearches /\ run.at = low - 1 /\ run.resume = low - 1 /\ run.matched \in Nat
               /\ MsFits(msQuery, told, run.pending)
               /\ MsIn(run.pending) = MsIn(msRun.pending) \cup MsIn(MsFound(low))
               /\ \A m \in MsIn(run.pending) : m >= low
               /\ \A m \in msQuery.matches : m > msRun.at => m \in told \cup MsIn(run.pending)
<1> DEFINE told == MsSeen \cup MsAll(msWire)
           p == msRun.pending
           x == MsFound(low)
           at == msRun.at
<1>1. /\ msRun \in MsSearches /\ at \in 1 .. MsLast /\ p \in MsList /\ msRun.matched \in Nat
      /\ MsPlaced(msQuery, told, msRun) /\ msQuery \in MsAsked /\ MsLast \in Nat
  BY MsRunIs, MsConstants DEF MsInv, MsTypes, MsNumbers
<1>2. /\ MsFits(msQuery, told, p) /\ \A i \in 1 .. Len(p) : p[i] > at
      /\ \A m \in msQuery.matches : m > at => m \in told \cup MsIn(p)
  BY <1>1 DEF MsPlaced, MsBefore
<1>3. /\ x \in MsList /\ Len(x) \in Nat /\ MsFits(msQuery, told \cup MsIn(p), x)
      /\ \A i \in 1 .. Len(x) : x[i] \in low .. at
  BY MsFoundIs
<1>4. MsSwept(low) = [msRun EXCEPT !.pending = p \o x, !.matched = msRun.matched + Len(x),
                                   !.resume = low - 1, !.at = low - 1, !.first = FALSE]
  BY DEF MsSwept
<1>5. low \in Nat /\ low - 1 \in Nat
  BY <1>1
<1> HIDE DEF told, p, x, at
<1>6. MsAdded(msQuery, told, p, x)
  <2>1. ASSUME NEW i \in 1 .. Len(p), NEW j \in 1 .. Len(x) PROVE MsBefore(msQuery, p[i], x[j])
    <3>1. p[i] > at /\ x[j] \in low .. at /\ p[i] \in Nat
      BY <1>1, <1>2, <1>3, MsInList
    <3> QED BY <1>1, <1>5, <3>1 DEF MsBefore
  <2> QED BY <1>1, <1>2, <1>3, <2>1, MsAddFits
<1>7. p \o x \in MsList /\ MsFits(msQuery, told, p \o x) /\ MsIn(p \o x) = MsIn(p) \cup MsIn(x)
  BY <1>6 DEF MsAdded
<1>8. /\ MsSwept(low) \in MsSearches /\ MsSwept(low).at = low - 1 /\ MsSwept(low).resume = low - 1
      /\ MsSwept(low).matched \in Nat /\ MsSwept(low).pending = p \o x
  <2>1. msRun.matched + Len(x) \in Nat
    BY <1>1, <1>3
  <2> QED BY <1>1, <1>4, <1>5, <1>7, <2>1 DEF MsSearches
<1>9. ASSUME NEW m \in MsIn(p) \cup MsIn(x) PROVE m >= low
  <2>1. CASE m \in MsIn(p)
    <3>1. PICK i \in 1 .. Len(p) : p[i] = m
      BY <2>1 DEF MsIn
    <3>2. m \in Nat
      BY <1>1, <2>1 DEF MsIn
    <3> QED BY <1>1, <1>2, <1>5, <3>1, <3>2 DEF at
  <2>2. CASE m \in MsIn(x)
    <3>1. PICK i \in 1 .. Len(x) : x[i] = m
      BY <2>2 DEF MsIn
    <3>2. m \in low .. at
      BY <1>3, <3>1
    <3> QED BY <1>1, <1>5, <3>2
  <2> QED BY <2>1, <2>2
<1> QED BY <1>2, <1>7, <1>8, <1>9 DEF told, p, x, at

LEMMA MsBackwardStep == MsInv /\ (\E low \in 1 .. MsLast, spent \in BOOLEAN : MsBackward(low, spent)) => MsInv'
<1> SUFFICES ASSUME MsInv, NEW low \in 1 .. MsLast, NEW spent \in BOOLEAN, MsBackward(low, spent) PROVE MsInv'
  OBVIOUS
<1> DEFINE run == MsSwept(low)
           x == MsFound(low)
           a == MsWindow(low)
           told == MsSeen \cup MsAll(msWire)
           all == told \cup MsIn(run.pending)
<1>1. /\ msRun.on /\ msQuery.direction = "backward" /\ low \in 1 .. msRun.at /\ UNCHANGED <<msQuery, msState>>
      /\ CASE Len(a) > MsRoom -> MsFinish(run, x[Len(x)] - 1)
           [] Len(a) <= MsRoom /\ low = 1 -> MsFinish(run, 0)
           [] OTHER -> IF run.matched >= MsMaxMatches \/ spent THEN MsFinish(run, low - 1) ELSE MsGoOn(run, TRUE)
  BY DEF MsBackward, MsSwept, MsFound, MsWindow, MsRoom
<1>2. /\ run \in MsSearches /\ run.at = low - 1 /\ run.resume = low - 1 /\ run.matched \in Nat
      /\ MsFits(msQuery, told, run.pending)
      /\ MsIn(run.pending) = MsIn(msRun.pending) \cup MsIn(x)
      /\ \A m \in MsIn(run.pending) : m >= low
      /\ \A m \in msQuery.matches : m > msRun.at => m \in all
  BY <1>1, MsSweptIs
<1>3. /\ x \in MsList /\ Len(x) \in Nat /\ MsFits(msQuery, told \cup MsIn(msRun.pending), x) /\ Len(a) \in Nat
      /\ Len(a) > MsRoom => Len(x) = MsRoom
      /\ Len(a) <= MsRoom => \A m \in msQuery.matches : low <= m /\ m <= msRun.at => m \in MsIn(x)
  BY <1>1, MsFoundIs
<1>4. /\ msRun.at \in 1 .. MsLast /\ MsLast \in Nat /\ MsMaxMatches \in Nat /\ MsRoom \in Nat /\ MsRoom > 0
      /\ \A m \in msQuery.matches : m \in 1 .. MsLast
  <2>1. msRun.at \in 1 .. MsLast /\ msRun.matched \in Nat /\ MsPlaced(msQuery, told, msRun) /\ msQuery \in MsAsked
    BY <1>1, MsRunIs DEF MsInv, MsTypes
  <2> QED BY <1>1, <2>1, MsConstants DEF MsPlaced, MsRoom, MsNumbers, MsAsked
<1> HIDE DEF run, x, a, told
<1>5. ASSUME Len(a) <= MsRoom PROVE \A m \in msQuery.matches : m > low - 1 => m \in all
  <2> SUFFICES ASSUME NEW m \in msQuery.matches, m > low - 1 PROVE m \in all
    OBVIOUS
  <2>1. m \in Nat /\ low <= m /\ (m <= msRun.at \/ m > msRun.at)
    BY <1>4
  <2> QED BY <1>2, <1>3, <1>5, <2>1
<1>6. \A next \in Nat : \A y : (\A m \in msQuery.matches : m > next => m \in y) => MsCovered(msQuery, y, next)
  BY <1>1, <1>4 DEF MsCovered, MsBefore
<1> HIDE DEF all
<1>7. CASE Len(a) > MsRoom
  <2> DEFINE next == x[Len(x)] - 1
  <2>1. Len(x) \in 1 .. Len(x)
    BY <1>3, <1>4, <1>7
  <2>2. x[Len(x)] \in 1 .. MsLast /\ x[Len(x)] \in MsIn(x)
    BY <1>3, <2>1, MsInList
  <2>3. next \in 0 .. MsLast /\ next \in Nat
    BY <1>4, <2>2
  <2>4. ASSUME NEW m \in msQuery.matches, m > next PROVE m \in all
    <3>1. m = x[Len(x)] \/ MsBefore(msQuery, m, x[Len(x)])
      BY <1>1, <1>4, <2>2, <2>4 DEF MsBefore
    <3>2. CASE m = x[Len(x)]
      BY <1>2, <2>2, <3>2 DEF all
    <3>3. CASE MsBefore(msQuery, m, x[Len(x)])
      <4>1. m \in told \cup MsIn(msRun.pending) \/ m \in MsIn(x)
        BY <1>3, <2>1, <3>3 DEF MsFits
      <4> QED BY <1>2, <4>1 DEF all
    <3> QED BY <3>1, <3>2, <3>3
  <2>5. MsFinish(run, next)
    <3>1. ~ (Len(a) <= MsRoom)
      BY <1>3, <1>4, <1>7
    <3> QED BY <1>1, <1>7, <3>1
  <2> HIDE DEF next
  <2>6. MsCovered(msQuery, all, next)
    BY <1>6, <2>3, <2>4
  <2> QED BY <1>1, <1>2, <2>3, <2>5, <2>6, MsFinishes DEF all, told
<1>8. CASE Len(a) <= MsRoom /\ low = 1
  <2>1. MsFinish(run, 0)
    <3>1. ~ (Len(a) > MsRoom)
      BY <1>3, <1>4, <1>8
    <3> QED BY <1>1, <1>8, <3>1
  <2>2. MsCovered(msQuery, all, 0) /\ 0 \in 0 .. MsLast
    BY <1>4, <1>5, <1>6, <1>8
  <2> QED BY <1>1, <1>2, <2>1, <2>2, MsFinishes DEF all, told
<1>9. CASE ~ (Len(a) > MsRoom) /\ ~ (Len(a) <= MsRoom /\ low = 1)
  <2>1. Len(a) <= MsRoom /\ low # 1 /\ low - 1 \in 1 .. MsLast /\ low - 1 \in 0 .. MsLast /\ low - 1 \in Nat
    BY <1>3, <1>4, <1>9
  <2>2. MsCovered(msQuery, all, low - 1)
    BY <1>5, <1>6, <2>1
  <2>3. IF run.matched >= MsMaxMatches \/ spent THEN MsFinish(run, low - 1) ELSE MsGoOn(run, TRUE)
    BY <1>1, <1>9
  <2>4. CASE run.matched >= MsMaxMatches \/ spent
    <3>1. MsFinish(run, low - 1)
      BY <2>3, <2>4
    <3> QED BY <1>1, <1>2, <2>1, <2>2, <3>1, MsFinishes DEF all, told
  <2>5. CASE ~ (run.matched >= MsMaxMatches \/ spent)
    <3>1. msWire' = msWire \o MsFlush(run, TRUE)[2] /\ msRun' = MsFlush(run, TRUE)[1]
      BY <2>3, <2>5 DEF MsGoOn
    <3>2. MsMayFlush(msQuery, told, run, TRUE)
      <4>1. MsTo(run.resume) = low - 1
        BY <1>2, <2>1 DEF MsTo
      <4> QED BY <1>2, <2>2, <4>1 DEF MsMayFlush, all
    <3>3. MsRunAfter(msQuery, told, run)
      <4>1. run.at \in 1 .. MsLast /\ run.matched < MsMaxMatches
        BY <1>2, <1>4, <2>1, <2>5
      <4>2. \A m \in msQuery.matches : MsBefore(msQuery, m, run.at) => m > low - 1
        BY <1>1, <1>2 DEF MsBefore
      <4>3. \A m \in MsIn(run.pending) : MsBefore(msQuery, m, run.at)
        <5>1. \A m \in MsIn(run.pending) : m \in Nat
          BY <1>4 DEF MsIn
        <5> QED BY <1>1, <1>2, <1>4, <5>1 DEF MsBefore
      <4> QED BY <1>2, <1>5, <2>1, <4>1, <4>2, <4>3 DEF MsRunAfter, all
    <3> QED BY <1>1, <3>1, <3>2, <3>3, MsGoesOn DEF told
  <2> QED BY <2>4, <2>5
<1> QED BY <1>7, <1>8, <1>9

---------------------------------------------------------------------------
(* The steps of the browser. *)

\* A search begins where nothing is missing before, or at the end the query scans from.
LEMMA MsStarts ==
    ASSUME MsInv, NEW q \in MsAsked, msQuery' = q, NEW cursor \in 0 .. MsLast, NEW append \in BOOLEAN, MsStart(q, cursor, append),
           append => q = msQuery /\ MsCovered(q, MsSeen, cursor), ~append => cursor = 0
    PROVE  MsInv'
<1> DEFINE list == msState'.messages
<1>1. /\ msRun' = MsPlan(q, cursor) /\ msWire' = <<>> /\ msState' \in MsStates /\ msState'.status = "running"
      /\ list = (IF append THEN msState.messages ELSE <<>>) /\ msState'.runCursor = cursor /\ ~msState'.told
  <2>1. <<>> \in MsList /\ msState.messages \in MsList
    BY DEF MsInv, MsTypes, MsStates, MsList
  <2> DEFINE kept == IF append THEN msState.messages ELSE <<>>
  <2>2. kept \in MsList
    BY <2>1
  <2>3. 0 \in 0 .. MsLast
    BY MsConstants DEF MsNumbers
  <2>4. MsIdle \in MsStates /\ ~MsIdle.told
    BY <2>1, <2>3 DEF MsIdle, MsStates
  <2>5. msState' = [MsIdle EXCEPT !.status = "running", !.runCursor = cursor, !.messages = kept]
    BY DEF MsStart
  <2>6. msRun' = MsPlan(q, cursor) /\ msWire' = <<>>
    BY DEF MsStart
  <2> HIDE DEF kept
  <2>7. msState' \in MsStates /\ msState'.status = "running" /\ msState'.messages = kept /\ msState'.runCursor = cursor /\ msState'.told = MsIdle.told
    BY <2>2, <2>4, <2>5 DEF MsStates
  <2> QED BY <2>4, <2>6, <2>7 DEF kept
<1>2. MsFits(q, {}, list) /\ (cursor # 0 => MsCovered(q, MsIn(list), cursor))
  <2>1. CASE append
    BY <1>1, <2>1 DEF MsInv, MsShownInv, MsSeen
  <2>2. CASE ~append
    BY <1>1, <2>2 DEF MsFits
  <2> QED BY <2>1, <2>2
<1> HIDE DEF list
<1>3. MsShownInv'
  BY <1>1, <1>2 DEF MsShownInv, list
<1>4. /\ msRun'.on /\ msRun' \in MsSearches /\ msRun'.matched = 0 /\ msRun'.pending = <<>>
      /\ msRun'.at = IF cursor # 0 THEN cursor ELSE IF q.direction = "forward" THEN 1 ELSE MsLast
  <2>1. <<>> \in MsList /\ MsLast \in Nat
    BY MsConstants DEF MsList, MsNumbers
  <2>2. (IF cursor # 0 THEN cursor ELSE IF q.direction = "forward" THEN 1 ELSE MsLast) \in Nat
    BY <2>1
  <2> QED BY <1>1, <2>1, <2>2 DEF MsPlan, MsSearches
<1>5. MsPlaced(q, MsIn(list), msRun')
  <2>1. msRun'.at \in 1 .. MsLast /\ msRun'.matched < MsMaxMatches
    BY <1>4, MsConstants DEF MsNumbers
  <2>2. MsFits(q, MsIn(list), <<>>) /\ Len(<<>>) = 0
    BY DEF MsFits
  <2>3. ASSUME NEW m \in q.matches, MsBefore(q, m, msRun'.at) PROVE m \in MsIn(list)
    <3>1. CASE cursor # 0
      BY <1>2, <1>4, <2>3, <3>1 DEF MsCovered
    <3>2. CASE cursor = 0
      <4>1. m \in 1 .. MsLast /\ MsLast \in Nat
        BY MsConstants DEF MsAsked, MsNumbers
      <4> QED BY <1>4, <2>3, <3>2, <4>1 DEF MsBefore
    <3> QED BY <3>1, <3>2
  <2> QED BY <1>4, <2>1, <2>2, <2>3 DEF MsPlaced
<1>6. MsWireInv' /\ MsRunInv'
  <2>1. MsSays(q, MsIn(list), <<>>) /\ MsIn(list) \cup MsAll(<<>>) = MsIn(list)
    BY MsSaysNone
  <2> QED BY <1>1, <1>5, <2>1 DEF MsWireInv, MsRunInv, MsSeen, list
<1>7. MsTypes'
  BY <1>1, <1>4, MsSaysNone DEF MsTypes
<1> QED BY <1>3, <1>6, <1>7 DEF MsInv

\* A search is given up: nothing is on its way, and the server has none.
LEMMA MsGivesUp ==
    ASSUME MsInv, MsAbort, UNCHANGED msQuery, msState' \in MsStates, MsShownInv'
    PROVE  MsInv'
<1>1. MsWireInv' /\ MsRunInv' /\ MsTypes'
  BY MsSaysNone, MsNoRunIs DEF MsAbort, MsWireInv, MsRunInv, MsTypes, MsInv
<1> QED BY <1>1 DEF MsInv

LEMMA MsReceiveStep == MsInv /\ MsReceive => MsInv'
<1> SUFFICES ASSUME MsInv, MsReceive PROVE MsInv'
  OBVIOUS
<1> DEFINE e == Head(msWire)
           rest == Tail(msWire)
           q == msQuery
<1>1. /\ msWire' = rest /\ UNCHANGED <<msQuery, msRun>> /\ msState' = MsApply(msState, e)
      /\ e \in MsEvents /\ rest \in Seq(MsEvents)
      /\ MsEventTrue(q, MsSeen, e) /\ MsSays(q, MsSeen \cup MsOf(e), rest) /\ MsAll(msWire) = MsOf(e) \cup MsAll(rest)
  BY MsSaysHead DEF MsReceive, MsInv, MsTypes, MsWireInv
<1>2. q \in MsAsked /\ msState \in MsStates /\ MsShownInv /\ msState.messages \in MsList
  BY DEF MsInv, MsTypes, MsStates
<1> HIDE DEF e, rest
<1>3. /\ msState' \in MsStates /\ MsIn(msState'.messages) = MsSeen \cup MsOf(e) /\ MsFits(q, {}, msState'.messages)
      /\ msState'.told => (msState.told /\ msState'.progress = msState.progress) \/ MsCovered(q, MsSeen, msState'.progress)
      /\ msState'.status = "done" => (msState.status = "done" /\ msState'.done = msState.done) \/ MsCovered(q, MsSeen, msState'.done)
      /\ msState'.status = "stopped" => msState.status = "stopped"
      /\ msState'.runCursor = msState.runCursor /\ msState'.resume = msState.resume
  <2>1. CASE e.kind = "matches"
    <3> DEFINE list == msState.messages \o Unseen(msState.messages, e.messages)
    <3>1. msState' = [msState EXCEPT !.messages = list]
      BY <1>1, <2>1 DEF MsApply
    <3>2. e.messages \in MsList
      BY <1>1, <2>1 DEF MsEvents
    <3>3. list \in MsList /\ MsFits(q, {}, list) /\ MsIn(list) = MsSeen \cup MsIn(e.messages)
      <4>1. MsFits(q, {}, msState.messages) /\ MsFits(q, MsIn(msState.messages), e.messages)
        BY <1>1, <1>2, <2>1 DEF MsShownInv, MsEventTrue, MsSeen
      <4> QED BY <1>2, <3>2, <4>1, MsShowFits DEF MsSeen
    <3> HIDE DEF list
    <3>4. /\ msState' \in MsStates /\ msState'.messages = list /\ msState'.told = msState.told /\ msState'.progress = msState.progress
          /\ msState'.status = msState.status /\ msState'.done = msState.done
          /\ msState'.runCursor = msState.runCursor /\ msState'.resume = msState.resume
      BY <1>2, <3>1, <3>3 DEF MsStates
    <3>5. MsOf(e) = MsIn(e.messages)
      BY <2>1 DEF MsOf
    <3> QED BY <3>3, <3>4, <3>5
  <2>2. CASE e.kind = "progress"
    <3>1. msState' = [msState EXCEPT !.told = TRUE, !.progress = e.resume] /\ e.resume \in 0 .. MsLast
      BY <1>1, <2>2 DEF MsApply, MsEvents
    <3>2. /\ msState' \in MsStates /\ msState'.messages = msState.messages /\ msState'.progress = e.resume
          /\ msState'.status = msState.status /\ msState'.done = msState.done
          /\ msState'.runCursor = msState.runCursor /\ msState'.resume = msState.resume
      BY <1>2, <3>1 DEF MsStates
    <3>3. MsOf(e) = {} /\ MsCovered(q, MsSeen, e.resume) /\ MsFits(q, {}, msState.messages)
      BY <1>1, <1>2, <2>2 DEF MsOf, MsEventTrue, MsShownInv
    <3> QED BY <3>2, <3>3 DEF MsSeen
  <2>3. CASE e.kind = "done"
    <3>1. msState' = [msState EXCEPT !.status = "done", !.done = e.next] /\ e.next \in 0 .. MsLast
      BY <1>1, <2>3 DEF MsApply, MsEvents
    <3>2. /\ msState' \in MsStates /\ msState'.messages = msState.messages /\ msState'.progress = msState.progress
          /\ msState'.told = msState.told /\ msState'.status = "done" /\ msState'.done = e.next
          /\ msState'.runCursor = msState.runCursor /\ msState'.resume = msState.resume
      BY <1>2, <3>1 DEF MsStates
    <3>3. MsOf(e) = {} /\ MsCovered(q, MsSeen, e.next) /\ MsFits(q, {}, msState.messages)
      BY <1>1, <1>2, <2>3 DEF MsOf, MsEventTrue, MsShownInv
    <3> QED BY <3>2, <3>3 DEF MsSeen
  <2> QED BY <1>1, <2>1, <2>2, <2>3 DEF MsEvents
<1>4. MsSeen \subseteq MsIn(msState'.messages) /\ MsSeen' = MsIn(msState'.messages)
  BY <1>3 DEF MsSeen
<1>5. \A c : MsCovered(q, MsSeen, c) => MsCovered(q, MsIn(msState'.messages), c)
  BY <1>4, MsToldMore
<1>6. MsShownInv'
  BY <1>1, <1>2, <1>3, <1>5 DEF MsShownInv, MsSeen
<1>7. MsWireInv'
  BY <1>1, <1>3, <1>4 DEF MsWireInv
<1>8. MsSeen' \cup MsAll(msWire') = MsSeen \cup MsAll(msWire)
  BY <1>1, <1>3, <1>4
<1>9. MsRunInv'
  BY <1>1, <1>8 DEF MsRunInv, MsInv
<1>10. MsTypes'
  BY <1>1, <1>3 DEF MsTypes, MsInv
<1> QED BY <1>6, <1>7, <1>9, <1>10 DEF MsInv

\* Where a search that ended goes on from.
LEMMA MsCursorIs ==
    ASSUME MsInv
    PROVE  /\ MsCursor \in 0 .. MsLast /\ (MsCursor # 0 => MsCovered(msQuery, MsSeen, MsCursor))
           /\ MsResumeAfter(msState) \in 0 .. MsLast
           /\ MsResumeAfter(msState) # 0 => MsCovered(msQuery, MsSeen, MsResumeAfter(msState))
<1>1. msState \in MsStates /\ MsShownInv /\ 0 \in 0 .. MsLast
  BY MsConstants DEF MsInv, MsTypes, MsNumbers
<1>2. /\ MsResumeAfter(msState) \in 0 .. MsLast
      /\ MsResumeAfter(msState) # 0 => MsCovered(msQuery, MsSeen, MsResumeAfter(msState))
  <2>1. CASE msState.told
    BY <1>1, <2>1 DEF MsResumeAfter, MsStates, MsShownInv, MsSeen
  <2>2. CASE ~msState.told
    BY <1>1, <2>2 DEF MsResumeAfter, MsStates, MsShownInv, MsSeen
  <2> QED BY <2>1, <2>2
<1>3. CASE msState.status = "done"
  BY <1>1, <1>2, <1>3 DEF MsCursor, MsStates, MsShownInv, MsSeen
<1>4. CASE msState.status = "stopped"
  BY <1>1, <1>2, <1>4 DEF MsCursor, MsStates, MsShownInv, MsSeen
<1>5. CASE msState.status = "error"
  BY <1>1, <1>2, <1>5 DEF MsCursor, MsStates
<1>6. CASE msState.status \notin {"done", "stopped", "error"}
  <2>1. MsCursor = 0
    BY <1>6 DEF MsCursor
  <2> QED BY <1>1, <1>2, <2>1
<1> QED BY <1>3, <1>4, <1>5, <1>6

LEMMA MsStep == MsInv /\ [MsNext]_msVars => MsInv'
<1> SUFFICES ASSUME MsInv, [MsNext]_msVars PROVE MsInv'
  OBVIOUS
<1>0. msState \in MsStates /\ msQuery \in MsAsked /\ MsShownInv /\ 0 \in 0 .. MsLast /\ FALSE \in BOOLEAN /\ TRUE \in BOOLEAN
  BY MsConstants DEF MsInv, MsTypes, MsNumbers
<1>1. CASE \E q \in MsQueries : MsSetQuery(q)
  <2>1. PICK q \in MsQueries : MsSetQuery(q)
    BY <1>1
  <2>2. q \in MsAsked
    BY MsConstants DEF MsNumbers, MsAsked
  <2>3. msQuery' = q /\ MsStart(q, 0, FALSE)
    BY <2>1 DEF MsSetQuery
  <2> QED BY <1>0, <2>2, <2>3, MsStarts
<1>2. CASE MsClearQuery
  <2>1. msQuery' = MsNone /\ msState' = MsIdle /\ msRun' = MsNoRun /\ msWire' = <<>>
    BY <1>2 DEF MsClearQuery, MsAbort
  <2>2. MsNone \in MsAsked /\ MsNone.matches = {}
    BY DEF MsNone, MsAsked
  <2>3. MsIdle \in MsStates /\ ~MsIdle.told /\ MsIdle.status = "idle" /\ MsIdle.messages = <<>>
    <3>1. <<>> \in MsList
      BY DEF MsList
    <3> QED BY <1>0, <3>1 DEF MsIdle, MsStates
  <2>4. \A told, c : MsCovered(MsNone, told, c)
    BY <2>2 DEF MsCovered
  <2>5. MsFits(MsNone, {}, <<>>)
    BY DEF MsFits
  <2>6. MsShownInv'
    BY <2>1, <2>3, <2>4, <2>5 DEF MsShownInv
  <2>7. MsWireInv' /\ MsRunInv' /\ MsTypes'
    BY <2>1, <2>2, <2>3, MsSaysNone, MsNoRunIs DEF MsWireInv, MsRunInv, MsTypes
  <2> QED BY <2>6, <2>7 DEF MsInv
<1>3. CASE MsBreak
  <2>1. msState' = [msState EXCEPT !.status = "error"] /\ UNCHANGED msQuery /\ MsAbort
    BY <1>3 DEF MsBreak
  <2>2. /\ msState' \in MsStates /\ msState'.status = "error" /\ msState'.messages = msState.messages
        /\ msState'.told = msState.told /\ msState'.progress = msState.progress /\ msState'.runCursor = msState.runCursor
    BY <1>0, <2>1 DEF MsStates
  <2>3. MsShownInv'
    BY <1>0, <2>1, <2>2 DEF MsShownInv
  <2> QED BY <2>1, <2>2, <2>3, MsGivesUp
<1>4. CASE MsStop
  <2>1. msState' = [msState EXCEPT !.status = "stopped", !.resume = MsResumeAfter(msState)] /\ UNCHANGED msQuery /\ MsAbort
    BY <1>4 DEF MsStop
  <2>2. /\ MsResumeAfter(msState) \in 0 .. MsLast
        /\ MsResumeAfter(msState) # 0 => MsCovered(msQuery, MsSeen, MsResumeAfter(msState))
    BY MsCursorIs
  <2>3. /\ msState' \in MsStates /\ msState'.status = "stopped" /\ msState'.messages = msState.messages
        /\ msState'.told = msState.told /\ msState'.progress = msState.progress /\ msState'.runCursor = msState.runCursor
        /\ msState'.resume = MsResumeAfter(msState)
    BY <1>0, <2>1, <2>2 DEF MsStates
  <2>4. MsShownInv'
    BY <1>0, <2>1, <2>2, <2>3 DEF MsShownInv, MsSeen
  <2> QED BY <2>1, <2>3, <2>4, MsGivesUp
<1>5. CASE MsMore
  <2>1. MsStart(msQuery, MsCursor, TRUE) /\ UNCHANGED msQuery /\ MsCursor # 0
    BY <1>5 DEF MsMore
  <2> QED BY <1>0, <2>1, MsCursorIs, MsStarts
<1>6. CASE MsTryAgain \/ MsRestart
  <2>1. MsStart(msQuery, 0, FALSE) /\ UNCHANGED msQuery
    BY <1>6 DEF MsTryAgain, MsRestart
  <2> QED BY <1>0, <2>1, MsStarts
<1>7. CASE UNCHANGED msVars
  BY <1>7 DEF msVars, MsInv, MsTypes, MsShownInv, MsWireInv, MsRunInv, MsSeen
<1> QED BY <1>1, <1>2, <1>3, <1>4, <1>5, <1>6, <1>7, MsForwardStep, MsBackwardStep, MsWithinStep, MsAbandonStep, MsReceiveStep
        DEF MsNext

LEMMA MsInvariant == MsSpec => []MsInv
<1>1. MsInit => MsInv
  <2> SUFFICES ASSUME MsInit PROVE MsInv
    OBVIOUS
  <2>1. msQuery = MsNone /\ msState = MsIdle /\ msRun = MsNoRun /\ msWire = <<>>
    BY DEF MsInit
  <2>2. MsNone \in MsAsked /\ 0 \in 0 .. MsLast
    BY MsConstants DEF MsNone, MsAsked, MsNumbers
  <2>3. MsIdle \in MsStates /\ ~MsIdle.told /\ MsIdle.status = "idle" /\ MsIdle.messages = <<>> /\ MsIdle.runCursor = 0
    <3>1. <<>> \in MsList
      BY DEF MsList
    <3> QED BY <2>2, <3>1 DEF MsIdle, MsStates
  <2>4. MsFits(MsNone, {}, <<>>)
    BY DEF MsFits
  <2>5. MsShownInv
    BY <2>1, <2>3, <2>4 DEF MsShownInv
  <2>6. MsWireInv /\ MsRunInv /\ MsTypes
    BY <2>1, <2>2, <2>3, MsSaysNone, MsNoRunIs DEF MsWireInv, MsRunInv, MsTypes
  <2> QED BY <2>5, <2>6 DEF MsInv
<1> QED BY <1>1, MsStep, PTL DEF MsSpec

\* However a search was stopped, broke or ran out of budget and went on, what
\* is shown is the first part of the answer, and the whole of it in the end.
THEOREM SearchIsWhole == MsSpec => []MsSearchWhole
<1>1. MsInv => MsSearchWhole
  <2> SUFFICES ASSUME MsInv PROVE MsSearchWhole
    OBVIOUS
  <2>1. msQuery \in MsAsked /\ msState \in MsStates /\ msState.messages \in MsList /\ MsShownInv
    BY DEF MsInv, MsTypes, MsStates
  <2>2. MsAnswer = MsAnswerOf(msQuery)
    BY DEF MsAnswer, MsAnswerOf
  <2>3. /\ IsPrefix(msState.messages, MsAnswer)
        /\ MsCovered(msQuery, MsSeen, 0) => msState.messages = MsAnswer
    BY <2>1, <2>2, MsFitsIsPrefix DEF MsShownInv, MsSeen
  <2> QED BY <2>1, <2>3 DEF MsSearchWhole, MsShownInv, MsSeen
<1> QED BY <1>1, MsInvariant, PTL

\* Only the queries of the filters are searched, as often as the bound lets them.
MsAskedInv == msQuery \in MsQueries \cup {MsNone} /\ msRuns \in 0 .. MsMaxRuns

LEMMA MsAskedStep == MsAskedInv /\ [MsNext]_msVars => MsAskedInv'
<1> SUFFICES ASSUME MsAskedInv, [MsNext]_msVars PROVE MsAskedInv'
  OBVIOUS
<1>1. msQuery' \in MsQueries \cup {MsNone}
  <2>1. msQuery' = msQuery \/ msQuery' = MsNone \/ \E q \in MsQueries : msQuery' = q
    BY Zenon DEF MsNext, MsForward, MsBackward, MsWithin, MsAbandon, MsReceive, MsBreak, MsStop, MsMore,
       MsTryAgain, MsRestart, MsSetQuery, MsClearQuery, MsAbort, msVars
  <2> QED BY <2>1 DEF MsAskedInv
<1>2. msRuns' \in 0 .. MsMaxRuns
  <2>1. msRuns' = msRuns \/ \E q, cursor, append : MsStart(q, cursor, append)
    BY Zenon DEF MsNext, MsForward, MsBackward, MsWithin, MsAbandon, MsReceive, MsBreak, MsStop, MsMore,
       MsTryAgain, MsRestart, MsSetQuery, MsClearQuery, MsFinish, MsGoOn, MsAbort, msVars
  <2>2. MsMaxRuns \in Nat
    BY MsAssumption DEF MsAssumption
  <2>3. ASSUME NEW q, NEW cursor, NEW append, MsStart(q, cursor, append) PROVE msRuns' \in 0 .. MsMaxRuns
    <3>1. msRuns < MsMaxRuns /\ msRuns' = msRuns + 1
      BY <2>3 DEF MsStart
    <3> QED BY <2>2, <3>1 DEF MsAskedInv
  <2> QED BY <2>1, <2>3 DEF MsAskedInv
<1> QED BY <1>1, <1>2 DEF MsAskedInv

\* Every reachable state of a search has its type, on the server, the wire and the
\* page (search.go, useMessageSearch).
THEOREM MsTypeCorrect == MsSpec => []MsTypeOK
<1>1. MsInit => MsAskedInv
  <2>1. MsMaxRuns \in Nat
    BY MsAssumption DEF MsAssumption
  <2> QED BY <2>1 DEF MsInit, MsAskedInv
<1>2. MsInv /\ MsAskedInv => MsTypeOK
  <2> SUFFICES ASSUME MsInv, MsAskedInv PROVE MsTypeOK
    OBVIOUS
  <2>1. msState \in MsStates
    BY DEF MsInv, MsTypes
  <2>2. msState.messages \in Seq(1 .. MsLast)
    BY <2>1 DEF MsStates, MsList
  <2>3. Range(msState.messages) \subseteq 1 .. MsLast
    <3>1. \A C, s : s \in Seq(C) => \A i \in DOMAIN s : s[i] \in C
      OBVIOUS
    <3> QED BY <2>2, <3>1, Zenon DEF Range
  <2>4. /\ msState.status \in {"idle", "running", "done", "stopped", "error"} /\ msState.told \in BOOLEAN
        /\ {msState.progress, msState.done, msState.resume} \subseteq 0 .. MsLast
    BY <2>1 DEF MsStates
  <2> QED BY <2>3, <2>4 DEF MsTypeOK, MsAskedInv, MsSeq
<1> QED BY <1>1, <1>2, MsInvariant, MsAskedStep, PTL DEF MsSpec
=============================================================================
