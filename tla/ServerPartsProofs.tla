-------------------------- MODULE ServerPartsProofs --------------------------
(***************************************************************************)
(* What four parts of the server keep, each by itself and for every value  *)
(* of its constants: the watch of a bucket, the vault of secrets, the      *)
(* watcher of directories and the service of the proto schemas.            *)
(***************************************************************************)
EXTENDS ServerKVWatch, SecretStore, FileWatcher, ProtoService, TLAPS

---------------------------------------------------------------------------
(***************************************************************************)
(* What the watch of a bucket keeps, for every number of revisions, every  *)
(* size of a batch and every number of faults.                             *)
(***************************************************************************)

\* Every variable keeps its type: the relay never sends a revision that the
\* bucket does not have, and a batch is sent before it is over its size.
THEOREM SkTypeCorrect == SkSpec => []SkTypeOK
<1> USE SkAssumption DEF SkAssumption, SkRevs
<1>1. SkInit => SkTypeOK
  <2>1. <<>> \in Seq(SkRevs) /\ Len(<<>>) = 0
    OBVIOUS
  <2>2. SkInit => {skDown, skSeen, skClosed, skOffline} \subseteq BOOLEAN
    BY DEF SkInit
  <2> QED BY <2>1, <2>2 DEF SkInit, SkTypeOK
<1>2. SkTypeOK /\ [SkNext]_skVars => SkTypeOK'
  <2> SUFFICES ASSUME SkTypeOK, [SkNext]_skVars PROVE SkTypeOK'
    OBVIOUS
  <2>1. CASE SkWrite
    BY <2>1 DEF SkTypeOK, SkWrite
  <2>2. CASE SkOutage
    BY <2>2 DEF SkTypeOK, SkOutage, SkFault
  <2>3. CASE SkLookup
    BY <2>3 DEF SkTypeOK, SkLookup
  <2>4. CASE SkSubscribe
    BY <2>4 DEF SkTypeOK, SkSubscribe
  <2>5. CASE SkStarted
    BY <2>5 DEF SkTypeOK, SkStarted
  <2>6. CASE SkReset
    BY <2>6 DEF SkTypeOK, SkReset, SkFault
  <2>7. CASE SkRelay
    BY <2>7 DEF SkTypeOK, SkRelay
  <2>8. CASE SkClose
    BY <2>8 DEF SkTypeOK, SkClose
  <2>9. CASE SkChange
    <3> DEFINE batch == Append(skBatch, skHand)
    <3>1. batch \in Seq(SkRevs) /\ Len(batch) = Len(skBatch) + 1
      BY <2>9 DEF SkTypeOK, SkChange
    <3>2. skBatch' \in Seq(SkRevs) /\ Len(skBatch') < SkBatch /\ skTold' \in Seq(SkRevs)
      <4>1. \A s : s = <<>> => s \in Seq(SkRevs) /\ Len(s) < SkBatch
        OBVIOUS
      <4>2. skTold \o batch \in Seq(SkRevs)
        BY <3>1 DEF SkTypeOK
      <4>3. Len(batch) >= SkBatch => skBatch' = <<>> /\ skTold' = skTold \o batch
        BY <2>9 DEF SkChange, SkSend
      <4>4. ~(Len(batch) >= SkBatch) => skBatch' = batch /\ skTold' = skTold
        BY <2>9 DEF SkChange
      <4> HIDE DEF batch
      <4>5. skTold \in Seq(SkRevs) /\ SkBatch \in Nat \ {0}
        BY DEF SkTypeOK
      <4> HIDE DEF SkRevs
      <4>6. CASE Len(batch) >= SkBatch
        BY <4>1, <4>2, <4>3, <4>6
      <4>7. CASE ~(Len(batch) >= SkBatch)
        BY <3>1, <4>4, <4>5, <4>7
      <4> QED BY <4>6, <4>7
    <3>3. skView' \in {"none", "live", "offline"}
      BY <2>9 DEF SkTypeOK, SkChange, SkSend
    <3> QED BY <2>9, <3>2, <3>3 DEF SkTypeOK, SkChange
  <2>10. CASE SkTick
    <3>1. <<>> \in Seq(SkRevs) /\ Len(<<>>) = 0 /\ skTold \o skBatch \in Seq(SkRevs)
      BY DEF SkTypeOK
    <3>2. skBatch' = <<>> /\ skTold' = skTold \o skBatch /\ skView' = "live"
      BY <2>10 DEF SkTick, SkSend
    <3> QED BY <2>10, <3>1, <3>2 DEF SkTypeOK, SkTick
  <2>11. CASE SkCheck
    BY <2>11 DEF SkTypeOK, SkCheck, SkFault
  <2>12. CASE SkChecked
    <3>1. /\ \A s : s = <<>> => s \in Seq(SkRevs) /\ Len(s) < SkBatch
          /\ skTold \o skBatch \in Seq(SkRevs)
      <4>1. \A s : s = <<>> => s \in Seq(SkRevs) /\ Len(s) < SkBatch
        OBVIOUS
      <4> QED BY <4>1 DEF SkTypeOK
    <3>2. \/ skBatch' = skBatch /\ skTold' = skTold
          \/ skBatch' = <<>> /\ skTold' = skTold \o skBatch
      BY <2>12 DEF SkChecked
    <3>3. skBatch' \in Seq(SkRevs) /\ Len(skBatch') < SkBatch /\ skTold' \in Seq(SkRevs)
      BY <3>1, <3>2 DEF SkTypeOK
    <3>4. skOffline' \in BOOLEAN
      BY <2>12, Zenon DEF SkTypeOK, SkChecked
    <3>5. skView' \in {"none", "live", "offline"}
      BY <2>12 DEF SkTypeOK, SkChecked
    <3>6. skPc' = "loop" /\ UNCHANGED <<skLast, skDown, skStart, skFrom, skSeen, skHand, skClosed, skAnswer, skFaults>>
      BY <2>12 DEF SkChecked
    <3> QED BY <3>3, <3>4, <3>5, <3>6 DEF SkTypeOK
  <2>13. CASE SkEndClosed
    <3>1. <<>> \in Seq(SkRevs) /\ Len(<<>>) = 0 /\ skTold \o skBatch \in Seq(SkRevs)
      BY DEF SkTypeOK
    <3> QED BY <2>13, <3>1 DEF SkTypeOK, SkEndClosed, SkSend
  <2>14. CASE SkCancel
    BY <2>14 DEF SkTypeOK, SkCancel
  <2>15. CASE UNCHANGED skVars
    BY <2>15 DEF SkTypeOK, skVars
  <2> QED
    BY <2>1, <2>2, <2>3, <2>4, <2>5, <2>6, <2>7, <2>8, <2>9, <2>10, <2>11, <2>12,
       <2>13, <2>14, <2>15 DEF SkNext
<1> QED BY <1>1, <1>2, PTL DEF SkSpec

-----------------------------------------------------------------------------
\* The inductive invariant.

\* How many changes were told, wait, or are in the relay's hand.
SkCountOf(told, batch, hand) == Len(told) + Len(batch) + (IF hand = 0 THEN 0 ELSE 1)
SkCount == SkCountOf(skTold, skBatch, skHand)

\* Counted back from the revision the watcher sends next, each of them has its
\* place, so none is missing or there twice; the first is after the start, which
\* is what lets a consumer that begins anew replay only what is dropped.
SkPlacesOf(told, batch, hand, from, start) ==
    LET first == from - SkCountOf(told, batch, hand)
    IN  /\ SkCountOf(told, batch, hand) > 0 => first > start
        /\ \A i \in 1..Len(told) : told[i] = first + i - 1
        /\ \A i \in 1..Len(batch) : batch[i] = first + Len(told) + i - 1
        /\ hand # 0 => hand = from - 1
SkPlaces == SkPlacesOf(skTold, skBatch, skHand, skFrom, skStart)

\* Nothing is told before the watcher sent something, and nothing is left
\* unsent by a watch that was closed.
SkProgress ==
    /\ ~skSeen => SkCount = 0
    /\ skPc \in {"opening", "subscribing"} => ~skSeen
    /\ skPc = "closed" => skBatch = <<>> /\ skHand = 0

\* The loop holds the stream for online while changes wait.
SkStream ==
    /\ skBatch # <<>> => ~skOffline
    /\ skPc \in {"opening", "subscribing", "starting"} => skBatch = <<>> /\ ~skOffline
    /\ skPc \in {"loop", "checking"} /\ skBatch = <<>> => (skView = "offline") = skOffline

SkIInv == SkTypeOK /\ SkPlaces /\ SkProgress /\ SkStream

\* A frame keeps every change in its place,
LEMMA SkFlushPlaces ==
    ASSUME NEW told \in Seq(Int), NEW batch \in Seq(Int), NEW hand \in Int,
           NEW from \in Int, NEW start \in Int,
           SkPlacesOf(told, batch, hand, from, start)
    PROVE  SkPlacesOf(told \o batch, <<>>, hand, from, start)
<1> DEFINE first == from - SkCountOf(told, batch, hand)
<1>1. \A none : none = <<>> => Len(none) = 0 /\ SkCountOf(told \o batch, none, hand) = SkCountOf(told, batch, hand)
  BY DEF SkCountOf
<1>2. first \in Int /\ Len(told) \in Nat /\ Len(batch) \in Nat /\ Len(told \o batch) = Len(told) + Len(batch)
  BY DEF SkCountOf
<1>3. ASSUME NEW i \in 1..Len(told \o batch) PROVE (told \o batch)[i] = first + i - 1
  <2>1. CASE i <= Len(told)
    <3>1. (told \o batch)[i] = told[i] /\ i \in 1..Len(told)
      BY <1>2, <2>1
    <3> QED BY <3>1 DEF SkPlacesOf
  <2>2. CASE i > Len(told)
    <3> DEFINE k == i - Len(told)
    <3>1. (told \o batch)[i] = batch[k] /\ k \in 1..Len(batch) /\ i = Len(told) + k
      BY <1>2, <2>2
    <3>2. batch[k] = first + Len(told) + k - 1
      BY <3>1 DEF SkPlacesOf
    <3> HIDE DEF first
    <3> QED BY <1>2, <3>1, <3>2
  <2> QED BY <1>2, <2>1, <2>2
<1> QED BY <1>1, <1>3 DEF SkPlacesOf

\* and so does the loop when it takes the change from the relay.
LEMMA SkJoinPlaces ==
    ASSUME NEW told \in Seq(Int), NEW batch \in Seq(Int), NEW hand \in Int,
           NEW from \in Int, NEW start \in Int, hand # 0,
           SkPlacesOf(told, batch, hand, from, start)
    PROVE  SkPlacesOf(told, Append(batch, hand), 0, from, start)
<1> DEFINE first == from - SkCountOf(told, batch, hand)
<1>1. /\ Len(Append(batch, hand)) = Len(batch) + 1 /\ Len(told) \in Nat /\ Len(batch) \in Nat
      /\ SkCountOf(told, batch, hand) = Len(told) + Len(batch) + 1
      /\ SkCountOf(told, Append(batch, hand), 0) = SkCountOf(told, batch, hand)
  BY DEF SkCountOf
<1>2. ASSUME NEW i \in 1..(Len(batch) + 1) PROVE Append(batch, hand)[i] = first + Len(told) + i - 1
  <2>1. CASE i = Len(batch) + 1
    BY <1>1, <2>1 DEF SkPlacesOf
  <2>2. CASE i # Len(batch) + 1
    <3>1. i \in 1..Len(batch) /\ Append(batch, hand)[i] = batch[i]
      BY <1>1, <2>2
    <3> QED BY <3>1 DEF SkPlacesOf
  <2> QED BY <2>1, <2>2
<1> QED BY <1>1, <1>2 DEF SkPlacesOf

\* What is told, waits and is in hand, as one sequence, is the run of revisions
\* that SkPlaces describes.
LEMMA SkPlacesAreWhole ==
    ASSUME SkTypeOK, SkPlaces, SkProgress PROVE SkChangesWhole
<1> USE SkAssumption DEF SkAssumption, SkRevs
<1> DEFINE hand == IF skHand = 0 THEN <<>> ELSE <<skHand>>
           all == skTold \o skBatch \o hand
<1>1. skTold \in Seq(Int) /\ skBatch \in Seq(Int) /\ hand \in Seq(Int)
  BY DEF SkTypeOK
<1>2. Len(hand) = IF skHand = 0 THEN 0 ELSE 1
  OBVIOUS
<1>3. all \in Seq(Int) /\ Len(all) = SkCount /\ DOMAIN all = 1..SkCount
  BY <1>1, <1>2 DEF SkCount, SkCountOf
<1>4. /\ Len(skTold) \in Nat /\ Len(skBatch) \in Nat /\ SkCount \in Nat
      /\ skFrom \in Int /\ skStart \in Int /\ skHand \in Int
  BY <1>1 DEF SkCount, SkCountOf, SkTypeOK
<1>5. ASSUME NEW i \in 1..SkCount PROVE all[i] = skFrom - SkCount + i - 1
  <2>1. CASE i <= Len(skTold)
    <3>1. all[i] = skTold[i] /\ i \in 1..Len(skTold)
      BY <1>1, <1>2, <1>4, <2>1
    <3> QED BY <3>1 DEF SkPlaces, SkPlacesOf, SkCount
  <2>2. CASE i > Len(skTold) /\ i <= Len(skTold) + Len(skBatch)
    <3> DEFINE k == i - Len(skTold)
    <3>1. all[i] = skBatch[k] /\ k \in 1..Len(skBatch) /\ i = Len(skTold) + k
      BY <1>1, <1>2, <1>4, <2>2
    <3>2. skBatch[k] = skFrom - SkCount + Len(skTold) + k - 1
      BY <3>1 DEF SkPlaces, SkPlacesOf, SkCount
    <3> QED BY <1>4, <3>1, <3>2
  <2>3. CASE i > Len(skTold) + Len(skBatch)
    <3>1. skHand # 0 /\ i = SkCount /\ i = Len(skTold) + Len(skBatch) + 1
      BY <1>4, <2>3 DEF SkCount, SkCountOf
    <3>2. hand = <<skHand>> /\ Len(hand) = 1
      BY <3>1
    <3>3. all[i] = skHand
      BY <1>1, <1>4, <3>1, <3>2
    <3>4. skHand = skFrom - 1
      BY <3>1 DEF SkPlaces, SkPlacesOf, SkCount
    <3> QED BY <1>4, <3>1, <3>3, <3>4
  <2> HIDE DEF all
  <2> QED BY <1>4, <2>1, <2>2, <2>3
<1>6. \A i \in 1..SkCount : all[i] > skStart /\ (i > 1 => all[i] = all[i - 1] + 1)
  <2> HIDE DEF all
  <2> SUFFICES ASSUME NEW i \in 1..SkCount
               PROVE  all[i] > skStart /\ (i > 1 => all[i] = all[i - 1] + 1)
    OBVIOUS
  <2>1. all[i] = skFrom - SkCount + i - 1
    BY <1>5
  <2>2. i > 1 => all[i - 1] = skFrom - SkCount + (i - 1) - 1
    BY <1>4, <1>5
  <2>3. SkCount > 0 => skFrom - SkCount > skStart
    BY DEF SkPlaces, SkPlacesOf, SkCount
  <2> QED BY <1>4, <2>1, <2>2, <2>3
<1>7. skPc = "closed" => all = skTold
  BY <1>1 DEF SkProgress
<1>8. all # <<>> => all[Len(all)] = skFrom - 1
  <2> SUFFICES ASSUME all # <<>> PROVE all[Len(all)] = skFrom - 1
    OBVIOUS
  <2> HIDE DEF all
  <2>1. SkCount \in 1..SkCount
    BY <1>3, <1>4
  <2>2. all[SkCount] = skFrom - SkCount + SkCount - 1
    BY <1>5, <2>1
  <2> QED BY <1>3, <1>4, <2>2
<1> QED BY <1>3, <1>6, <1>7, <1>8 DEF SkChangesWhole

\* The invariant is one.
LEMMA SkInvariant == SkSpec => []SkIInv
<1> USE SkAssumption DEF SkAssumption, SkRevs
<1>1. SkInit => SkPlaces /\ SkProgress /\ SkStream
  <2>1. Len(<<>>) = 0 /\ \A i : i \notin 1..0
    OBVIOUS
  <2> QED BY <2>1 DEF SkInit, SkPlaces, SkPlacesOf, SkProgress, SkStream, SkCount, SkCountOf
<1>2. SkIInv /\ SkTypeOK' /\ [SkNext]_skVars => SkIInv'
  <2> SUFFICES ASSUME SkIInv, SkTypeOK', [SkNext]_skVars PROVE SkIInv'
    OBVIOUS
  <2> USE DEF SkIInv
  <2>0. /\ Len(skTold) \in Nat /\ Len(skBatch) \in Nat /\ SkCount \in Nat
        /\ skFrom \in Int /\ skStart \in Int /\ skHand \in Int
    BY DEF SkTypeOK, SkCount, SkCountOf
  \* What is kept as long as nothing is told and the relay and the loop rest.
  <2>a. ASSUME UNCHANGED <<skTold, skBatch, skHand, skFrom, skStart>> PROVE SkPlaces'
    BY <2>a DEF SkPlaces, SkPlacesOf, SkCount, SkCountOf
  <2>b. ASSUME UNCHANGED <<skTold, skBatch, skHand, skSeen>>,
               skPc' \in {"opening", "subscribing"} => skPc \in {"opening", "subscribing"},
               skPc' = "closed" => skPc = "closed"
        PROVE  SkProgress'
    BY <2>b DEF SkProgress, SkCount, SkCountOf
  <2>c. ASSUME UNCHANGED <<skBatch, skOffline, skView>>,
               skPc' \in {"loop", "checking"} => skPc \in {"loop", "checking"},
               skPc' \in {"opening", "subscribing", "starting"} => skPc \in {"opening", "subscribing", "starting"}
        PROVE  SkStream'
    BY <2>c DEF SkStream
  <2>1. CASE SkWrite
    BY <2>1, <2>a, <2>b, <2>c DEF SkWrite
  <2>2. CASE SkOutage
    BY <2>2, <2>a, <2>b, <2>c DEF SkOutage
  <2>3. CASE SkLookup
    <3>1. SkCount = 0 /\ skHand = 0 /\ Len(skTold) = 0 /\ Len(skBatch) = 0
      BY <2>0, <2>3 DEF SkLookup, SkProgress, SkCount, SkCountOf
    <3>2. SkPlaces'
      BY <2>3, <3>1 DEF SkLookup, SkPlaces, SkPlacesOf, SkCount, SkCountOf
    <3> QED BY <2>3, <3>2, <2>b, <2>c DEF SkLookup
  <2>4. CASE SkSubscribe
    <3>1. SkCount = 0 /\ skHand = 0 /\ Len(skTold) = 0 /\ Len(skBatch) = 0
      BY <2>0, <2>4 DEF SkSubscribe, SkProgress, SkCount, SkCountOf
    <3>2. SkPlaces'
      BY <2>4, <3>1 DEF SkSubscribe, SkPlaces, SkPlacesOf, SkCount, SkCountOf
    <3> QED BY <2>4, <3>2, <2>b, <2>c DEF SkSubscribe
  <2>5. CASE SkStarted
    <3>1. skOffline' = FALSE /\ skView' # "offline" /\ skBatch' = <<>> /\ skPc' = "loop"
      BY <2>5 DEF SkStarted, SkStream, SkTypeOK
    <3>2. SkStream'
      BY <3>1, Zenon DEF SkStream
    <3> QED BY <2>5, <3>2, <2>a, <2>b DEF SkStarted
  <2>6. CASE SkReset
    <3>1. SkCount = 0 /\ skHand = 0 /\ Len(skTold) = 0 /\ Len(skBatch) = 0
      BY <2>0, <2>6 DEF SkReset, SkProgress, SkCount, SkCountOf
    <3>2. SkPlaces'
      BY <2>6, <3>1 DEF SkReset, SkPlaces, SkPlacesOf, SkCount, SkCountOf
    <3> QED BY <2>6, <3>2, <2>b, <2>c DEF SkReset
  <2>7. CASE SkRelay
    <3>1. SkProgress'
      BY <2>7 DEF SkRelay, SkRelays, SkProgress
    <3>2. SkPlaces'
      <4>1. CASE skFrom <= skStart
        <5>1. SkCount = 0
          BY <2>0, <4>1 DEF SkPlaces, SkPlacesOf, SkCount
        <5>2. skHand' = 0 /\ UNCHANGED <<skTold, skBatch>> /\ Len(skTold) = 0 /\ Len(skBatch) = 0
          BY <2>0, <2>7, <4>1, <5>1 DEF SkRelay, SkCount, SkCountOf
        <5> QED BY <5>2 DEF SkPlaces, SkPlacesOf, SkCount, SkCountOf
      <4>2. CASE skFrom > skStart
        <5>1. /\ skHand = 0 /\ skHand' = skFrom /\ skFrom' = skFrom + 1
              /\ UNCHANGED <<skTold, skBatch, skStart>>
          BY <2>0, <2>7, <4>2 DEF SkRelay
        <5>2. skFrom # 0
          BY <2>0, <4>2 DEF SkTypeOK
        <5>3. SkCount' = SkCount + 1
          BY <2>0, <5>1, <5>2 DEF SkCount, SkCountOf
        <5>4. SkCount' > 0 => skFrom' - SkCount' > skStart'
          BY <2>0, <4>2, <5>1, <5>3 DEF SkPlaces, SkPlacesOf, SkCount
        <5>5. skFrom' - SkCount' = skFrom - SkCount
          BY <2>0, <5>1, <5>3
        <5> QED BY <2>0, <5>1, <5>4, <5>5 DEF SkPlaces, SkPlacesOf, SkCount
      <4> QED BY <2>0, <4>1, <4>2
    <3> QED BY <2>7, <3>1, <3>2, <2>c DEF SkRelay
  <2>8. CASE SkClose
    BY <2>8, <2>a, <2>b, <2>c DEF SkClose
  <2>d. skTold \in Seq(Int) /\ skBatch \in Seq(Int) /\ skHand \in Int
    BY DEF SkTypeOK
  \* A frame with what waits: SkTick, SkChecked, SkEndClosed.
  <2>e. ASSUME skTold' = skTold \o skBatch, skBatch' = <<>>, UNCHANGED <<skHand, skFrom, skStart>> PROVE SkPlaces'
    <3>1. SkPlacesOf(skTold \o skBatch, <<>>, skHand, skFrom, skStart)
      BY <2>0, <2>d, SkFlushPlaces DEF SkPlaces
    <3> QED BY <2>e, <3>1 DEF SkPlaces
  <2>f. ASSUME skTold' = skTold \o skBatch, skBatch' = <<>>, UNCHANGED <<skHand, skSeen>>,
               skPc' \in {"loop", "closed"}, skPc' = "closed" => skHand = 0
        PROVE  SkProgress'
    <3>1. Len(skTold \o skBatch) = Len(skTold) + Len(skBatch) /\ \A s : s = <<>> => Len(s) = 0
      BY <2>d
    <3>2. SkCount' = SkCount
      BY <2>0, <2>f, <3>1 DEF SkCount, SkCountOf
    <3> QED BY <2>f, <3>2 DEF SkProgress
  <2>9. CASE SkChange
    <3> DEFINE batch == Append(skBatch, skHand)
    <3>1. /\ skHand # 0 /\ skHand' = 0 /\ UNCHANGED <<skFrom, skStart, skSeen, skPc>>
          /\ skPc = "loop" /\ skOffline' = FALSE
      BY <2>9 DEF SkChange
    <3>2. batch \in Seq(Int) /\ Len(batch) = Len(skBatch) + 1
      BY <2>d
    <3>3. /\ SkPlacesOf(skTold, batch, 0, skFrom, skStart)
          /\ SkPlacesOf(skTold \o batch, <<>>, 0, skFrom, skStart)
      <4>1. SkPlacesOf(skTold, batch, 0, skFrom, skStart)
        BY <2>0, <2>d, <3>1, SkJoinPlaces DEF SkPlaces
      <4> HIDE DEF batch
      <4> QED BY <2>0, <2>d, <3>2, <4>1, SkFlushPlaces
    <3>4. \/ skBatch' = <<>> /\ skTold' = skTold \o batch /\ skView' = "live"
          \/ skBatch' = batch /\ UNCHANGED <<skTold, skView>>
      <4>1. batch # <<>>
        BY <3>2, <2>0
      <4> QED BY <2>9, <4>1 DEF SkChange, SkSend
    <3>5. SkPlaces'
      BY <3>1, <3>3, <3>4 DEF SkPlaces
    <3>6. SkProgress'
      <4>1. skSeen
        BY <2>0, <3>1 DEF SkProgress, SkCount, SkCountOf
      <4> QED BY <3>1, <4>1 DEF SkProgress
    <3>7. SkStream'
      <4>1. batch # <<>>
        BY <3>2, <2>0
      <4> HIDE DEF batch
      <4>2. skBatch' = <<>> => skView' = "live"
        BY <3>4, <4>1
      <4> QED BY <3>1, <4>2 DEF SkStream
    <3> QED BY <3>5, <3>6, <3>7
  <2>10. CASE SkTick
    <3>1. /\ skTold' = skTold \o skBatch /\ skBatch' = <<>> /\ skBatch # <<>> /\ skView' = "live"
          /\ UNCHANGED <<skHand, skFrom, skStart, skSeen, skPc, skOffline>> /\ skPc = "loop"
      BY <2>10 DEF SkTick, SkSend
    <3>2. skOffline' = FALSE
      BY <3>1 DEF SkStream, SkTypeOK
    <3>3. SkStream'
      BY <3>1, <3>2 DEF SkStream
    <3> QED BY <3>1, <3>3, <2>e, <2>f
  <2>11. CASE SkCheck
    BY <2>11, <2>a, <2>b, <2>c DEF SkCheck
  <2>12. CASE SkChecked
    <3>1. skPc = "checking" /\ skPc' = "loop" /\ UNCHANGED <<skHand, skFrom, skStart, skSeen>>
      BY <2>12 DEF SkChecked
    <3>2. CASE UNCHANGED <<skOffline, skBatch, skTold, skView>>
      BY <3>1, <3>2, <2>a, <2>b, <2>c
    <3>3. CASE /\ skOffline' = ~skOffline /\ skView' = (IF skOffline THEN "live" ELSE "offline")
               /\ skTold' = skTold \o skBatch /\ skBatch' = <<>>
      <4>1. skOffline' \in BOOLEAN /\ skPc' = "loop" /\ skBatch' = <<>> /\ (skView' = "offline" <=> skOffline')
        BY <3>1, <3>3 DEF SkTypeOK
      <4>2. SkStream'
        BY <4>1 DEF SkStream
      <4> QED BY <3>1, <3>3, <4>2, <2>e, <2>f
    <3> QED BY <2>12, <3>2, <3>3 DEF SkChecked
  <2>13. CASE SkEndClosed
    <3>1. /\ skTold' = skTold \o skBatch /\ skBatch' = <<>> /\ skPc' = "closed" /\ skHand = 0
          /\ UNCHANGED <<skHand, skFrom, skStart, skSeen>>
      BY <2>13 DEF SkEndClosed, SkSend
    <3>2. SkStream'
      BY <3>1 DEF SkStream
    <3> QED BY <3>1, <3>2, <2>e, <2>f
  <2>14. CASE SkCancel
    BY <2>14, <2>a, <2>b, <2>c DEF SkCancel
  <2>15. CASE UNCHANGED skVars
    BY <2>15, <2>a, <2>b, <2>c DEF skVars
  <2> QED
    BY <2>1, <2>2, <2>3, <2>4, <2>5, <2>6, <2>7, <2>8, <2>9, <2>10, <2>11, <2>12,
       <2>13, <2>14, <2>15 DEF SkNext
<1> QED BY <1>1, <1>2, SkTypeCorrect, PTL DEF SkSpec, SkIInv

\* Whatever the bucket, the connection and the consumer do, and in whatever
\* batches: the client of a watch is told the changes after its start, each
\* once and in order, and of the stream what the loop knows.
THEOREM SkWatchIsTrue == SkSpec => []SkWatchTrue
<1>1. SkIInv => SkWatchTrue
  <2>1. SkIInv => SkViewTrue
    BY DEF SkIInv, SkStream, SkViewTrue
  <2> QED BY <2>1, SkPlacesAreWhole DEF SkIInv, SkWatchTrue
<1> QED BY <1>1, SkInvariant, PTL

---------------------------------------------------------------------------
(***************************************************************************)
(* That secrets survive failures, kills and power losses, for every set of *)
(* connections and every number of writes and faults.  The vault opens     *)
(* because every file it may find is whole and sealed with one key.  A     *)
(* secret is kept because at every moment each file the disk may show, and *)
(* the map, hold what the last write that succeeded stored or what a later *)
(* one tried to.                                                           *)
(***************************************************************************)

\* The files: whole, sealed with one key, and that one in use while the program
\* is up.  As long as no key file was cut short, it is the key that will be used.
FilesOneKey ==
    /\ \A f \in vtFileSafe : f.whole /\ (f.there => f.key \in VtMade) /\ (~f.there => f = VtNoFile)
    /\ \A f \in vtFileSafe : f.there => vtFile.there /\ f.key = vtFile.key

KeyFits ==
    /\ vtPhase = "up" => VtKeyInUse \in VtMade /\ \A f \in vtFileSafe : f.there => f.key = VtKeyInUse
    /\ vtPhase = "creating" => ~vtSupplied /\ vtKey = "empty"

KeyKept ==
    ~vtKeyLost => /\ vtPhase # "failed"
                  /\ vtKey = "empty" => vtPhase = "creating"
                  /\ \A f \in vtFileSafe : f.there => vtPhase # "creating" /\ f.key = VtKeyInUse

\* The transaction under way: what it stores was tried, the map has it once the
\* vault was told, and before the commit so does every file, or the file keeps
\* what the map no longer has.
TxInv ==
    /\ vtTx.pc # "idle" => vtPhase = "up" /\ vtTx.secret \in vtTried[vtTx.id]
    /\ vtTx.pc \in {"write", "rename", "sync", "commit"} => vtMem[vtTx.id] = vtTx.secret
    /\ vtTx.pc = "sync" => vtFile.there /\ vtFile.data = vtMem
    /\ vtTx.pc = "commit" /\ vtDirSyncs =>
          IF vtTx.id \in vtUnwritten THEN vtTx.secret = 0
          ELSE \A f \in vtFileSafe : f.data[vtTx.id] = vtTx.secret

\* What a connection's secret may be.
Known(i) == {vtWant[i]} \cup vtTried[i]

DiskKnown == vtDirSyncs => \A i \in VtIds \ vtUnwritten : \A f \in vtFileSafe : f.data[i] \in Known(i)
MemKnown == vtDirSyncs /\ vtPhase = "up" => \A i \in VtIds \ vtUnwritten : vtMem[i] \in Known(i)
NoneKnown == vtDirSyncs => \A i \in vtUnwritten : 0 \in Known(i)

LEMMA Numbers == VtMaxOps \in Nat /\ VtMaxFaults \in Nat /\ VtIds # {}
BY VtAssumption DEF VtAssumption

LEMMA Nothing ==
    /\ VtEmpty \in [VtIds -> VtSecrets] /\ \A i \in VtIds : VtEmpty[i] = 0
    /\ VtNoFile \in VtFiles /\ VtNoFile.data = VtEmpty /\ VtNoFile.whole /\ ~VtNoFile.there
<1>1. 0 \in VtSecrets
  BY Numbers DEF VtSecrets
<1> QED BY <1>1 DEF VtEmpty, VtNoFile, VtFiles, VtKeys, VtNoKey

LEMMA NoTx ==
    /\ VtNoTx \in [pc : {"idle", "vault", "write", "rename", "sync", "commit"}, id : VtIds,
                   secret : VtSecrets, doc : BOOLEAN]
    /\ VtNoTx.pc = "idle"
<1>1. 0 \in VtSecrets /\ (CHOOSE i \in VtIds : TRUE) \in VtIds
  BY Numbers DEF VtSecrets
<1> QED BY <1>1 DEF VtNoTx

-----------------------------------------------------------------------------
\* The types, by what changes them.
DiskTyped ==
    /\ vtKey \in vtKeySafe /\ vtKeySafe \subseteq VtKeys
    /\ vtFile \in vtFileSafe /\ vtFileSafe \subseteq VtFiles
MemTyped ==
    /\ vtMem \in [VtIds -> VtSecrets] /\ vtDocs \subseteq VtIds
    /\ vtTx \in [pc : {"idle", "vault", "write", "rename", "sync", "commit"}, id : VtIds,
                 secret : VtSecrets, doc : BOOLEAN]
HistoryTyped ==
    /\ vtWant \in [VtIds -> VtSecrets] /\ vtTried \in [VtIds -> SUBSET VtSecrets]
    /\ vtUnwritten \subseteq VtIds
CountsTyped == vtOps \in 0..VtMaxOps /\ vtFaults \in 0..VtMaxFaults
FlagsTyped ==
    /\ vtSupplied \in BOOLEAN /\ vtDirSyncs \in BOOLEAN /\ vtKeyLost \in BOOLEAN
    /\ vtPhase \in {"down", "creating", "up", "failed"}

LEMMA Typed == VtTypeOK <=> DiskTyped /\ MemTyped /\ HistoryTyped /\ CountsTyped /\ FlagsTyped
BY DEF VtTypeOK, DiskTyped, MemTyped, HistoryTyped, CountsTyped, FlagsTyped

\* Who changes what.
LEMMA DiskChange ==
    ASSUME [VtNext]_vtVars
    PROVE  UNCHANGED vtDisk \/ VtStart \/ VtWriteKey \/ VtKeySettles \/ VtRename \/ VtSyncDir \/ VtPowerLoss
BY DEF VtNext, vtVars, VtSave, VtUpdate, VtDelete, VtBegin, VtVault, VtAbort, VtWrite, VtCommit, VtKill

\* A begun transaction, with its hypotheses.
Begins == \E i \in VtIds, s \in VtSecrets, d \in BOOLEAN : VtBegin(i, s, d)

LEMMA BeginIs ==
    ASSUME VtTypeOK, NEW i \in VtIds, VtSave(i) \/ VtUpdate(i) \/ VtDelete(i)
    PROVE  Begins
<1>1. vtMem[i] \in VtSecrets /\ 0 \in VtSecrets
  BY Numbers DEF VtTypeOK, VtSecrets
<1>2. ASSUME NEW s, NEW d, VtBegin(i, s, d) PROVE vtOps + 1 \in VtSecrets
  BY <1>2, Numbers DEF VtBegin, VtTypeOK, VtSecrets
<1>3. ASSUME NEW s \in {0, vtOps + 1, vtMem[i]}, NEW d \in BOOLEAN, VtBegin(i, s, d) PROVE Begins
  BY <1>1, <1>2, <1>3 DEF Begins
<1> QED BY <1>3 DEF VtSave, VtUpdate, VtDelete

LEMMA VtMoves ==
    ASSUME VtTypeOK, [VtNext]_vtVars
    PROVE  \/ UNCHANGED vtVars \/ VtStart \/ VtWriteKey \/ VtKeySettles \/ Begins
           \/ VtVault \/ VtAbort \/ VtWrite \/ VtRename \/ VtSyncDir \/ VtCommit \/ VtKill \/ VtPowerLoss
BY BeginIs DEF VtNext

-----------------------------------------------------------------------------
\* A load leaves the map empty or as the file has it.
LEMMA LoadIs ==
    ASSUME NEW key, VtLoad(key)
    PROVE  \/ ~vtFile.there /\ vtPhase' = "up" /\ vtMem' = VtEmpty
           \/ vtFile.there /\ vtFile.whole /\ vtFile.key = key /\ vtPhase' = "up" /\ vtMem' = vtFile.data
           \/ vtFile.there /\ ~(vtFile.whole /\ vtFile.key = key) /\ vtPhase' = "failed" /\ vtMem' = vtMem
BY DEF VtLoad

\* A start reads the key there is, or begins to make one.
LEMMA StartIs ==
    ASSUME VtStart, VtTypeOK
    PROVE  /\ vtPhase = "down"
           /\ UNCHANGED <<vtSupplied, vtDirSyncs, vtFile, vtFileSafe, vtDocs, vtTx, vtOps, vtFaults, vtHistory>>
           /\ \/ UNCHANGED <<vtKey, vtKeySafe>> /\ VtLoad(VtKeyInUse) /\ VtKeyInUse \in VtMade
              \/ UNCHANGED <<vtKey, vtKeySafe, vtMem>> /\ vtPhase' = "failed" /\ vtKey = "empty"
              \/ /\ ~vtSupplied /\ vtKey = VtNoKey /\ vtPhase' = "creating" /\ vtMem' = vtMem
                 /\ vtKey' = "empty" /\ vtKeySafe' = vtKeySafe \cup {"empty"}
<1>1. /\ vtPhase = "down"
      /\ UNCHANGED <<vtSupplied, vtDirSyncs, vtFile, vtFileSafe, vtDocs, vtTx, vtOps, vtFaults, vtHistory>>
  BY DEF VtStart
<1>2. vtKey \in VtKeys /\ vtSupplied \in BOOLEAN
  BY DEF VtTypeOK
<1>3. CASE vtSupplied
  <2>1. VtKeyInUse = "k1" /\ VtLoad("k1") /\ UNCHANGED <<vtKey, vtKeySafe>>
    BY <1>3 DEF VtStart, VtKeyInUse
  <2> QED BY <1>1, <2>1 DEF VtMade
<1>4. CASE ~vtSupplied
  <2>1. VtKeyInUse = vtKey
    BY <1>4 DEF VtKeyInUse
  <2>2. CASE vtKey = "empty"
    BY <1>1, <1>4, <2>2 DEF VtStart
  <2>3. CASE vtKey = VtNoKey
    BY <1>1, <1>4, <2>3 DEF VtStart, VtNoKey
  <2>4. CASE vtKey # "empty" /\ vtKey # VtNoKey
    <3>1. VtLoad(vtKey) /\ UNCHANGED <<vtKey, vtKeySafe>>
      BY <1>4, <2>4 DEF VtStart
    <3> QED BY <1>1, <1>2, <2>1, <2>4, <3>1 DEF VtKeys, VtNoKey
  <2> QED BY <2>2, <2>3, <2>4
<1> QED BY <1>3, <1>4

\* The key that is made is one that sealed none of the files there may be.
LEMMA WriteKeyIs ==
    ASSUME VtWriteKey, FilesOneKey
    PROVE  /\ vtPhase = "creating" /\ vtKey' \in VtMade /\ vtKeySafe' = vtKeySafe \cup {vtKey'}
           /\ VtLoad(vtKey')
           /\ UNCHANGED <<vtSupplied, vtDirSyncs, vtFile, vtFileSafe, vtDocs, vtTx, vtOps, vtFaults, vtHistory>>
<1> DEFINE key == CHOOSE k \in VtMade : \A f \in {vtFile} \cup vtFileSafe : k # f.key
<1>1. /\ vtPhase = "creating" /\ vtKey' = key /\ vtKeySafe' = vtKeySafe \cup {key} /\ VtLoad(key)
      /\ UNCHANGED <<vtSupplied, vtDirSyncs, vtFile, vtFileSafe, vtDocs, vtTx, vtOps, vtFaults, vtHistory>>
  BY DEF VtWriteKey
<1>2. \E k \in VtMade : \A f \in {vtFile} \cup vtFileSafe : k # f.key
  <2>1. \A f \in vtFileSafe : f.key \in {VtNoKey, vtFile.key}
    BY DEF FilesOneKey, VtNoFile
  <2>2. \E k \in VtMade : k # VtNoKey /\ k # vtFile.key
    BY DEF VtMade, VtNoKey
  <2> QED BY <2>1, <2>2
<1>3. key \in VtMade
  BY <1>2
<1> HIDE DEF key
<1> QED BY <1>1, <1>3

LEMMA DiskTypedStep == VtTypeOK /\ FilesOneKey /\ KeyFits /\ TxInv /\ [VtNext]_vtVars => DiskTyped'
<1> SUFFICES ASSUME VtTypeOK, FilesOneKey, KeyFits, TxInv, [VtNext]_vtVars PROVE DiskTyped'
  OBVIOUS
<1>0. /\ vtKey \in vtKeySafe /\ vtKeySafe \subseteq VtKeys
      /\ vtFile \in vtFileSafe /\ vtFileSafe \subseteq VtFiles
  BY DEF VtTypeOK
<1>1. CASE UNCHANGED vtDisk
  BY <1>0, <1>1 DEF vtDisk, DiskTyped
<1>2. CASE VtStart
  BY <1>0, <1>2, StartIs DEF DiskTyped, VtKeys
<1>3. CASE VtWriteKey
  BY <1>0, <1>3, WriteKeyIs DEF DiskTyped, VtKeys
<1>4. CASE VtKeySettles
  BY <1>0, <1>4 DEF VtKeySettles, DiskTyped
<1>5. CASE VtRename
  <2>1. VtKeyInUse \in VtMade /\ vtMem \in [VtIds -> VtSecrets]
    BY <1>5 DEF VtRename, TxInv, KeyFits, VtTypeOK
  <2>2. VtSealed \in VtFiles
    BY <2>1 DEF VtSealed, VtFiles, VtKeys
  <2> QED BY <1>0, <1>5, <2>2 DEF VtRename, DiskTyped
<1>6. CASE VtSyncDir
  <2>1. vtSupplied \/ vtKey # VtNoKey
    BY <1>6 DEF VtSyncDir, TxInv, KeyFits, VtKeyInUse, VtMade, VtNoKey
  <2> QED BY <1>0, <1>6, <2>1 DEF VtSyncDir, DiskTyped
<1>7. CASE VtPowerLoss
  BY <1>0, <1>7 DEF VtPowerLoss, DiskTyped
<1> QED BY <1>1, <1>2, <1>3, <1>4, <1>5, <1>6, <1>7, DiskChange

LEMMA MemTypedStep == VtTypeOK /\ FilesOneKey /\ [VtNext]_vtVars => MemTyped'
<1> SUFFICES ASSUME VtTypeOK, FilesOneKey, [VtNext]_vtVars PROVE MemTyped'
  OBVIOUS
<1> USE DEF MemTyped
<1>0. /\ vtMem \in [VtIds -> VtSecrets] /\ vtDocs \subseteq VtIds
      /\ vtTx \in [pc : {"idle", "vault", "write", "rename", "sync", "commit"}, id : VtIds,
                   secret : VtSecrets, doc : BOOLEAN]
      /\ vtFile.data \in [VtIds -> VtSecrets]
  BY DEF VtTypeOK, VtFiles
<1>1. ASSUME NEW key, VtLoad(key) PROVE vtMem' \in [VtIds -> VtSecrets]
  BY <1>0, <1>1, LoadIs, Nothing
<1>2. CASE UNCHANGED vtVars
  BY <1>0, <1>2 DEF vtVars
<1>3. CASE VtStart
  BY <1>0, <1>1, <1>3, StartIs
<1>4. CASE VtWriteKey
  BY <1>0, <1>1, <1>4, WriteKeyIs
<1>5. CASE Begins
  BY <1>0, <1>5 DEF Begins, VtBegin
<1>6. CASE VtVault
  <2>1. vtMem' = [vtMem EXCEPT ![vtTx.id] = vtTx.secret] /\ vtDocs' = vtDocs
    BY <1>6 DEF VtVault
  <2>2. vtTx' = [vtTx EXCEPT !.pc = "commit"] \/ vtTx' = [vtTx EXCEPT !.pc = "write"]
    BY <1>6 DEF VtVault
  <2> QED BY <1>0, <2>1, <2>2
<1>7. CASE VtAbort
  BY <1>0, <1>7, NoTx DEF VtAbort
<1>8. CASE VtWrite \/ VtRename \/ VtSyncDir
  BY <1>0, <1>8 DEF VtWrite, VtRename, VtSyncDir
<1>9. CASE VtCommit
  BY <1>0, <1>9, NoTx DEF VtCommit
<1>10. CASE VtKill \/ VtPowerLoss
  BY <1>0, <1>10, NoTx, Nothing DEF VtKill, VtPowerLoss, VtDown
<1>11. CASE VtKeySettles
  BY <1>0, <1>11 DEF VtKeySettles
<1> QED BY <1>2, <1>3, <1>4, <1>5, <1>6, <1>7, <1>8, <1>9, <1>10, <1>11, VtMoves

LEMMA OthersTypedStep ==
    VtTypeOK /\ FilesOneKey /\ [VtNext]_vtVars => HistoryTyped' /\ CountsTyped' /\ FlagsTyped'
<1> SUFFICES ASSUME VtTypeOK, FilesOneKey, [VtNext]_vtVars PROVE HistoryTyped' /\ CountsTyped' /\ FlagsTyped'
  OBVIOUS
<1>1. HistoryTyped'
  <2> USE DEF HistoryTyped
  <2>0. /\ vtWant \in [VtIds -> VtSecrets] /\ vtTried \in [VtIds -> SUBSET VtSecrets]
        /\ vtUnwritten \subseteq VtIds /\ vtTx.id \in VtIds /\ vtTx.secret \in VtSecrets
    BY DEF VtTypeOK
  <2>1. CASE UNCHANGED <<vtWant, vtTried, vtUnwritten>>
    BY <2>0, <2>1
  <2>2. CASE Begins
    BY <2>0, <2>2 DEF Begins, VtBegin
  <2>3. CASE VtVault
    BY <2>0, <2>3 DEF VtVault
  <2>4. CASE VtSyncDir
    BY <2>0, <2>4 DEF VtSyncDir
  <2>5. CASE VtCommit
    BY <2>0, <2>5 DEF VtCommit
  <2> QED
    BY <2>1, <2>2, <2>3, <2>4, <2>5, VtMoves, StartIs, WriteKeyIs DEF vtVars, vtHistory, VtKeySettles,
       VtAbort, VtWrite, VtRename, VtKill, VtPowerLoss, VtDown
<1>2. CountsTyped'
  <2>0. vtOps \in 0..VtMaxOps /\ vtFaults \in 0..VtMaxFaults
    BY DEF VtTypeOK
  <2>1. CASE UNCHANGED <<vtOps, vtFaults>>
    BY <2>0, <2>1 DEF CountsTyped
  <2>2. CASE Begins
    BY <2>0, <2>2, Numbers DEF Begins, VtBegin, CountsTyped
  <2>3. CASE VtAbort \/ VtKill \/ VtPowerLoss
    <3>1. vtOps' = vtOps /\ vtFaults < VtMaxFaults /\ vtFaults' = vtFaults + 1
      BY <2>3 DEF VtAbort, VtKill, VtPowerLoss, VtDown
    <3> QED BY <2>0, <3>1, Numbers DEF CountsTyped
  <2> QED
    BY <2>1, <2>2, <2>3, VtMoves, StartIs, WriteKeyIs DEF vtVars, VtKeySettles, VtVault, VtWrite, VtRename,
       VtSyncDir, VtCommit
<1>3. FlagsTyped'
  <2>0. /\ vtSupplied \in BOOLEAN /\ vtDirSyncs \in BOOLEAN /\ vtKeyLost \in BOOLEAN
        /\ vtPhase \in {"down", "creating", "up", "failed"}
    BY DEF VtTypeOK
  <2>1. vtSupplied' = vtSupplied /\ vtDirSyncs' = vtDirSyncs
    BY VtMoves, StartIs, WriteKeyIs DEF vtVars, VtKeySettles, Begins, VtBegin, VtVault, VtAbort, VtWrite,
       VtRename, VtSyncDir, VtCommit, VtKill, VtPowerLoss, VtDown
  <2>2. vtPhase' \in {"down", "creating", "up", "failed"}
    BY <2>0, VtMoves, StartIs, WriteKeyIs, LoadIs DEF vtVars, VtKeySettles, Begins, VtBegin, VtVault, VtAbort,
       VtWrite, VtRename, VtSyncDir, VtCommit, VtKill, VtPowerLoss, VtDown
  <2>3. vtKeyLost' = vtKeyLost \/ VtKill \/ VtPowerLoss
    BY VtMoves, StartIs, WriteKeyIs DEF vtVars, vtHistory, VtKeySettles, Begins, VtBegin, VtVault, VtAbort,
       VtWrite, VtRename, VtSyncDir, VtCommit
  <2>4. vtKeyLost' \in BOOLEAN
    BY <2>0, <2>3 DEF VtKill, VtPowerLoss
  <2> QED BY <2>0, <2>1, <2>2, <2>4 DEF FlagsTyped
<1> QED BY <1>1, <1>2, <1>3

-----------------------------------------------------------------------------
\* The key.
LEMMA FilesStep == VtTypeOK /\ FilesOneKey /\ KeyFits /\ TxInv /\ [VtNext]_vtVars => FilesOneKey'
<1> SUFFICES ASSUME VtTypeOK, FilesOneKey, KeyFits, TxInv, [VtNext]_vtVars PROVE FilesOneKey'
  OBVIOUS
<1>0. vtFile \in vtFileSafe
  BY DEF VtTypeOK
<1>1. CASE UNCHANGED <<vtFile, vtFileSafe>>
  BY <1>1 DEF FilesOneKey
<1>2. CASE VtRename
  <2>1. VtKeyInUse \in VtMade /\ \A f \in vtFileSafe : f.there => f.key = VtKeyInUse
    BY <1>2 DEF VtRename, TxInv, KeyFits
  <2>2. VtSealed.there /\ VtSealed.whole /\ VtSealed.key = VtKeyInUse
    BY DEF VtSealed
  <2>3. vtFile' = VtSealed /\ vtFileSafe' = vtFileSafe \cup {VtSealed}
    BY <1>2 DEF VtRename
  <2> HIDE DEF VtSealed
  <2> QED BY <2>1, <2>2, <2>3 DEF FilesOneKey
<1>3. CASE vtFile' \in vtFileSafe /\ vtFileSafe' = {vtFile'}
  BY <1>3 DEF FilesOneKey
<1>4. CASE VtSyncDir
  <2>1. vtFile' = vtFile /\ (vtFileSafe' = vtFileSafe \/ vtFileSafe' = {vtFile})
    BY <1>4 DEF VtSyncDir
  <2> QED BY <1>0, <1>1, <1>3, <2>1
<1> QED
  BY <1>1, <1>2, <1>3, <1>4, DiskChange, StartIs, WriteKeyIs DEF vtDisk, VtKeySettles, VtPowerLoss

\* Nothing but a start changes the key the program uses while it is not down.
LEMMA KeyStays ==
    ASSUME VtTypeOK, [VtNext]_vtVars, ~VtStart, ~VtWriteKey, ~VtPowerLoss
    PROVE  vtKey' = vtKey /\ vtSupplied' = vtSupplied /\ VtKeyInUse' = VtKeyInUse
<1>1. vtKey' = vtKey /\ vtSupplied' = vtSupplied
  BY VtMoves DEF vtVars, vtDisk, VtKeySettles, Begins, VtBegin, VtVault, VtAbort, VtWrite, VtRename,
     VtSyncDir, VtCommit, VtKill, VtDown
<1> QED BY <1>1 DEF VtKeyInUse

LEMMA KeyFitsStep == VtTypeOK /\ FilesOneKey /\ KeyFits /\ TxInv /\ [VtNext]_vtVars => KeyFits'
<1> SUFFICES ASSUME VtTypeOK, FilesOneKey, KeyFits, TxInv, [VtNext]_vtVars PROVE KeyFits'
  OBVIOUS
<1>0. vtFile \in vtFileSafe
  BY DEF VtTypeOK
\* What a load accepts is sealed with the key it was given.
<1>1. ASSUME NEW key, key \in VtMade, VtLoad(key), vtPhase' = "up", UNCHANGED <<vtFile, vtFileSafe>>
      PROVE  \A f \in vtFileSafe' : f.there => f.key = key
  BY <1>1, LoadIs DEF FilesOneKey
<1>2. CASE VtStart
  <2>1. CASE UNCHANGED <<vtKey, vtKeySafe>> /\ VtLoad(VtKeyInUse) /\ VtKeyInUse \in VtMade
    <3>1. vtPhase' # "creating" /\ VtKeyInUse' = VtKeyInUse
      BY <1>2, <2>1, StartIs, LoadIs DEF VtKeyInUse
    <3> QED BY <1>1, <1>2, <2>1, <3>1, StartIs DEF KeyFits
  <2>2. CASE vtPhase' = "failed"
    BY <2>2 DEF KeyFits
  <2>3. CASE ~vtSupplied /\ vtPhase' = "creating" /\ vtKey' = "empty"
    BY <1>2, <2>3, StartIs DEF KeyFits
  <2> QED BY <1>2, <2>1, <2>2, <2>3, StartIs
<1>3. CASE VtWriteKey
  <2>1. /\ ~vtSupplied /\ vtKey' \in VtMade /\ VtLoad(vtKey')
        /\ UNCHANGED <<vtSupplied, vtFile, vtFileSafe>>
    BY <1>3, WriteKeyIs DEF KeyFits
  <2>2. VtKeyInUse' = vtKey'
    BY <2>1 DEF VtKeyInUse
  <2>3. vtPhase' # "creating"
    BY <2>1, LoadIs
  <2> QED BY <1>1, <2>1, <2>2, <2>3 DEF KeyFits
<1>4. CASE VtKill \/ VtPowerLoss
  BY <1>4 DEF VtKill, VtPowerLoss, VtDown, KeyFits
<1>5. CASE ~VtStart /\ ~VtWriteKey /\ ~VtKill /\ ~VtPowerLoss
  <2>1. vtPhase' = vtPhase
    BY <1>5, VtMoves DEF vtVars, VtKeySettles, Begins, VtBegin, VtVault, VtAbort, VtWrite, VtRename,
       VtSyncDir, VtCommit
  <2>2. \A f \in vtFileSafe' : f \in vtFileSafe \/ (VtRename /\ f = VtSealed)
    BY <1>0, <1>5, DiskChange DEF vtDisk, VtKeySettles, VtRename, VtSyncDir
  <2>3. VtSealed.key = VtKeyInUse
    BY DEF VtSealed
  <2> HIDE DEF VtSealed
  <2> QED BY <1>5, <2>1, <2>2, <2>3, KeyStays DEF KeyFits
<1> QED BY <1>2, <1>3, <1>4, <1>5

LEMMA KeyKeptStep == VtTypeOK /\ FilesOneKey /\ KeyFits /\ KeyKept /\ TxInv /\ [VtNext]_vtVars => KeyKept'
<1> SUFFICES ASSUME VtTypeOK, FilesOneKey, KeyFits, KeyKept, TxInv, [VtNext]_vtVars, ~vtKeyLost' PROVE KeyKept'
  BY DEF KeyKept
<1>0. vtFile \in vtFileSafe
  BY DEF VtTypeOK
<1>1. ~vtKeyLost
  <2>1. vtKeyLost' = vtKeyLost \/ VtKill \/ VtPowerLoss
    BY VtMoves, StartIs, WriteKeyIs DEF vtVars, vtHistory, VtKeySettles, Begins, VtBegin, VtVault, VtAbort,
       VtWrite, VtRename, VtSyncDir, VtCommit
  <2>2. VtKill \/ VtPowerLoss => (vtKeyLost => vtKeyLost')
    BY DEF VtKill, VtPowerLoss
  <2> QED BY <2>1, <2>2
<1>2. /\ vtPhase # "failed" /\ (vtKey = "empty" => vtPhase = "creating")
      /\ \A f \in vtFileSafe : f.there => vtPhase # "creating" /\ f.key = VtKeyInUse
  BY <1>1 DEF KeyKept
<1>3. CASE VtStart
  <2>1. vtPhase = "down" /\ UNCHANGED <<vtSupplied, vtFile, vtFileSafe>>
    BY <1>3, StartIs
  <2>2. CASE UNCHANGED <<vtKey, vtKeySafe>> /\ VtLoad(VtKeyInUse)
    <3>1. VtKeyInUse' = VtKeyInUse
      BY <2>1, <2>2 DEF VtKeyInUse
    <3>2. vtFile.there => vtFile.whole /\ vtFile.key = VtKeyInUse
      BY <1>0, <1>2 DEF FilesOneKey
    <3>3. vtPhase' = "up"
      BY <2>2, <3>2, LoadIs
    <3> QED BY <1>2, <2>1, <2>2, <3>1, <3>3 DEF KeyKept
  <2>3. CASE ~vtSupplied /\ vtKey = VtNoKey /\ vtPhase' = "creating" /\ vtKey' = "empty"
    <3>1. \A f \in vtFileSafe : ~f.there
      BY <1>2, <2>3 DEF FilesOneKey, VtKeyInUse, VtNoKey, VtMade
    <3> QED BY <2>1, <2>3, <3>1 DEF KeyKept
  <2> QED BY <1>2, <1>3, <2>1, <2>2, <2>3, StartIs
<1>4. CASE VtWriteKey
  <2>1. /\ vtPhase = "creating" /\ vtKey' \in VtMade /\ VtLoad(vtKey')
        /\ UNCHANGED <<vtFile, vtFileSafe>>
    BY <1>4, WriteKeyIs
  <2>2. \A f \in vtFileSafe : ~f.there
    BY <1>2, <2>1
  <2>3. vtPhase' = "up"
    BY <1>0, <2>1, <2>2, LoadIs
  <2> QED BY <2>1, <2>2, <2>3 DEF KeyKept, VtMade
<1>5. CASE VtKill \/ VtPowerLoss
  <2>1. vtPhase' = "down" /\ vtPhase # "creating" /\ vtKey' = vtKey /\ vtSupplied' = vtSupplied
    BY <1>5 DEF VtKill, VtPowerLoss, VtDown, vtDisk
  <2>2. vtFileSafe' \subseteq vtFileSafe
    BY <1>5 DEF VtKill, VtPowerLoss, VtDown, vtDisk
  <2>3. VtKeyInUse' = VtKeyInUse
    BY <2>1 DEF VtKeyInUse
  <2> QED BY <1>2, <2>1, <2>2, <2>3 DEF KeyKept
<1>6. CASE ~VtStart /\ ~VtWriteKey /\ ~VtKill /\ ~VtPowerLoss
  <2>1. vtPhase' = vtPhase
    BY <1>6, VtMoves DEF vtVars, VtKeySettles, Begins, VtBegin, VtVault, VtAbort, VtWrite, VtRename,
       VtSyncDir, VtCommit
  <2>2. \A f \in vtFileSafe' : f \in vtFileSafe \/ (VtRename /\ f = VtSealed)
    BY <1>0, <1>6, DiskChange DEF vtDisk, VtKeySettles, VtRename, VtSyncDir
  <2>3. VtSealed.key = VtKeyInUse /\ (VtRename => vtPhase = "up")
    BY DEF VtSealed, VtRename, TxInv
  <2> HIDE DEF VtSealed
  <2> QED BY <1>2, <1>6, <2>1, <2>2, <2>3, KeyStays DEF KeyKept
<1> QED BY <1>3, <1>4, <1>5, <1>6

-----------------------------------------------------------------------------
\* The transaction.
LEMMA TxIdle ==
    ASSUME VtTypeOK, TxInv, VtStart \/ VtWriteKey
    PROVE  vtTx.pc = "idle" /\ vtTx' = vtTx
<1>1. vtPhase # "up" /\ vtTx' = vtTx
  BY StartIs DEF VtWriteKey, VtStart
<1> QED BY <1>1 DEF TxInv

LEMMA TxInvStep == VtTypeOK /\ FilesOneKey /\ TxInv /\ [VtNext]_vtVars => TxInv'
<1> SUFFICES ASSUME VtTypeOK, FilesOneKey, TxInv, [VtNext]_vtVars PROVE TxInv'
  OBVIOUS
<1>0. /\ vtMem \in [VtIds -> VtSecrets] /\ vtTried \in [VtIds -> SUBSET VtSecrets]
      /\ vtTx \in [pc : {"idle", "vault", "write", "rename", "sync", "commit"}, id : VtIds,
                   secret : VtSecrets, doc : BOOLEAN]
      /\ vtTx.id \in VtIds /\ vtFile \in vtFileSafe
  BY DEF VtTypeOK
<1>1. CASE UNCHANGED vtVars
  BY <1>1 DEF vtVars, vtDisk, vtHistory, TxInv
<1>2. CASE VtStart \/ VtWriteKey
  BY <1>2, TxIdle DEF TxInv
<1>3. CASE VtKeySettles
  BY <1>3 DEF VtKeySettles, vtHistory, TxInv
<1>4. CASE VtAbort \/ VtKill \/ VtPowerLoss \/ VtCommit
  <2>1. vtTx'.pc = "idle"
    BY <1>4, NoTx DEF VtAbort, VtKill, VtPowerLoss, VtDown, VtCommit
  <2> QED BY <2>1 DEF TxInv
<1>5. ASSUME NEW i \in VtIds, NEW s \in VtSecrets, NEW d \in BOOLEAN, VtBegin(i, s, d) PROVE TxInv'
  <2>1. vtTx'.pc = "vault" /\ vtTx'.id = i /\ vtTx'.secret = s /\ vtPhase' = "up"
    BY <1>5 DEF VtBegin
  <2>2. s \in vtTried'[i]
    BY <1>0, <1>5 DEF VtBegin
  <2> QED BY <2>1, <2>2 DEF TxInv
<1>6. CASE VtVault
  <2> DEFINE i == vtTx.id
  <2> DEFINE nothing == vtTx.secret = 0 /\ vtMem[i] = 0
  <2>1. /\ vtTx.pc = "vault" /\ vtMem' = [vtMem EXCEPT ![i] = vtTx.secret]
        /\ vtTx' = [vtTx EXCEPT !.pc = IF nothing THEN "commit" ELSE "write"]
        /\ vtUnwritten' = IF nothing /\ \E f \in vtFileSafe : f.data[i] # 0 THEN vtUnwritten \cup {i} ELSE vtUnwritten
        /\ UNCHANGED <<vtPhase, vtDirSyncs, vtFileSafe, vtTried>>
    BY <1>6 DEF VtVault, vtDisk
  <2>2. /\ vtTx'.id = i /\ vtTx'.secret = vtTx.secret /\ vtTx'.pc = IF nothing THEN "commit" ELSE "write"
        /\ vtMem'[i] = vtTx.secret
    BY <1>0, <2>1
  <2>3. vtPhase' = "up" /\ vtTx'.secret \in vtTried'[vtTx'.id]
    BY <2>1, <2>2 DEF TxInv
  <2>4. ASSUME nothing
        PROVE  IF i \in vtUnwritten' THEN vtTx.secret = 0 ELSE \A f \in vtFileSafe' : f.data[i] = vtTx.secret
    BY <2>1, <2>4
  <2>5. vtTx'.pc \in {"commit", "write"} /\ (vtTx'.pc = "commit" => nothing)
    BY <2>2
  <2> HIDE DEF nothing, i
  <2>6. vtTx'.pc = "commit" => IF vtTx'.id \in vtUnwritten' THEN vtTx'.secret = 0
                               ELSE \A f \in vtFileSafe' : f.data[vtTx'.id] = vtTx'.secret
    BY <2>2, <2>4, <2>5
  <2> QED BY <2>2, <2>3, <2>5, <2>6 DEF TxInv
<1>7. CASE VtWrite
  <2>1. vtTx.pc = "write" /\ vtTx'.pc = "rename" /\ vtTx'.id = vtTx.id /\ vtTx'.secret = vtTx.secret
        /\ UNCHANGED <<vtPhase, vtMem, vtTried>>
    BY <1>0, <1>7 DEF VtWrite, vtHistory
  <2> QED BY <2>1 DEF TxInv
<1>8. CASE VtRename
  <2>1. vtTx.pc = "rename" /\ vtTx'.pc = "sync" /\ vtTx'.id = vtTx.id /\ vtTx'.secret = vtTx.secret
        /\ UNCHANGED <<vtPhase, vtMem, vtTried>> /\ vtFile' = VtSealed
    BY <1>0, <1>8 DEF VtRename, vtHistory
  <2>2. vtFile'.there /\ vtFile'.data = vtMem
    BY <2>1 DEF VtSealed
  <2> QED BY <2>1, <2>2 DEF TxInv
<1>9. CASE VtSyncDir
  <2>1. vtTx.pc = "sync" /\ vtTx'.pc = "commit" /\ vtTx'.id = vtTx.id /\ vtTx'.secret = vtTx.secret
        /\ UNCHANGED <<vtPhase, vtMem, vtTried, vtDirSyncs>>
    BY <1>0, <1>9 DEF VtSyncDir
  <2>2. vtMem[vtTx.id] = vtTx.secret /\ vtFile.data = vtMem
    BY <2>1 DEF TxInv
  <2>3. vtDirSyncs => vtFileSafe' = {vtFile} /\ vtTx.id \notin vtUnwritten'
    BY <1>9 DEF VtSyncDir
  <2> QED BY <2>1, <2>2, <2>3 DEF TxInv
<1> QED BY <1>1, <1>2, <1>3, <1>4, <1>5, <1>6, <1>7, <1>8, <1>9, VtMoves DEF Begins

-----------------------------------------------------------------------------
\* What is known of a connection's secret.
LEMMA KnownStep ==
    ASSUME VtTypeOK, FilesOneKey, TxInv, [VtNext]_vtVars, NEW i \in VtIds
    PROVE  \/ Known(i)' = Known(i)
           \/ Begins /\ Known(i) \subseteq Known(i)'
           \/ VtCommit /\ vtTx.id = i /\ Known(i)' = {vtTx.secret}
<1>0. vtWant \in [VtIds -> VtSecrets] /\ vtTried \in [VtIds -> SUBSET VtSecrets] /\ vtTx.id \in VtIds
  BY DEF VtTypeOK
<1>1. CASE UNCHANGED <<vtWant, vtTried>>
  BY <1>1 DEF Known
<1>2. ASSUME NEW j \in VtIds, NEW s \in VtSecrets, NEW d \in BOOLEAN, VtBegin(j, s, d)
      PROVE  Known(i) \subseteq Known(i)'
  BY <1>0, <1>2 DEF VtBegin, Known
<1>3. CASE VtCommit
  BY <1>0, <1>3 DEF VtCommit, Known
<1> QED
  BY <1>1, <1>2, <1>3, VtMoves, StartIs, WriteKeyIs DEF vtVars, vtHistory, VtKeySettles, VtVault, VtAbort,
     VtWrite, VtRename, VtSyncDir, VtKill, VtPowerLoss, VtDown, Begins

LEMMA UnwrittenChange ==
    ASSUME VtTypeOK, FilesOneKey, [VtNext]_vtVars
    PROVE  vtDirSyncs' = vtDirSyncs /\ (vtUnwritten' = vtUnwritten \/ VtVault \/ VtSyncDir)
BY VtMoves, StartIs, WriteKeyIs DEF vtVars, vtHistory, VtKeySettles, VtAbort, VtVault,
   VtWrite, VtRename, VtSyncDir, VtKill, VtPowerLoss, VtDown, Begins, VtBegin, VtCommit

KnownInv == DiskKnown /\ MemKnown /\ NoneKnown

LEMMA DiskKnownStep == VtTypeOK /\ FilesOneKey /\ TxInv /\ KnownInv /\ [VtNext]_vtVars => DiskKnown'
<1> SUFFICES ASSUME VtTypeOK, FilesOneKey, TxInv, KnownInv, [VtNext]_vtVars, vtDirSyncs',
                    NEW i \in VtIds, i \notin vtUnwritten', NEW f \in vtFileSafe'
             PROVE  f.data[i] \in Known(i)'
  BY DEF DiskKnown
<1>0. vtDirSyncs /\ vtFile \in vtFileSafe /\ vtFileSafe \subseteq VtFiles
  BY UnwrittenChange DEF VtTypeOK
<1>1. CASE VtCommit
  <2>1. UNCHANGED <<vtUnwritten, vtFile, vtFileSafe>> /\ vtTx.pc = "commit"
    BY <1>1 DEF VtCommit, vtDisk
  <2>2. f.data[i] \in Known(i)
    BY <1>0, <2>1 DEF KnownInv, DiskKnown
  <2>3. vtTx.id = i => f.data[i] = vtTx.secret
    BY <1>0, <2>1 DEF TxInv
  <2>4. VtCommit /\ ~Begins
    BY <1>1 DEF VtCommit, Begins, VtBegin
  <2> QED BY <2>2, <2>3, <2>4, KnownStep
<1>2. CASE VtSyncDir
  <2>1. /\ vtTx.pc = "sync" /\ vtFile.data = vtMem /\ vtPhase = "up" /\ f = vtFile
        /\ vtUnwritten' = {k \in vtUnwritten \ {vtTx.id} : vtFile.data[k] # 0}
    BY <1>0, <1>2 DEF VtSyncDir, TxInv
  <2>2. Known(i)' = Known(i)
    BY <1>2 DEF VtSyncDir, Known
  <2>3. CASE i \notin vtUnwritten
    BY <1>0, <2>1, <2>2, <2>3 DEF KnownInv, MemKnown
  <2>4. CASE i \in vtUnwritten /\ i = vtTx.id
    BY <2>1, <2>2, <2>4 DEF TxInv, Known
  <2>5. CASE i \in vtUnwritten /\ f.data[i] = 0
    BY <1>0, <2>2, <2>5 DEF KnownInv, NoneKnown
  <2> QED BY <2>1, <2>3, <2>4, <2>5
<1>3. CASE VtRename
  <2>1. vtPhase = "up" /\ vtUnwritten' = vtUnwritten /\ (f \in vtFileSafe \/ f = VtSealed)
    BY <1>3 DEF VtRename, TxInv, vtHistory
  <2>2. Known(i)' = Known(i)
    BY <1>3 DEF VtRename, Known, vtHistory
  <2>3. VtSealed.data = vtMem
    BY DEF VtSealed
  <2>4. vtMem[i] \in Known(i) /\ \A g \in vtFileSafe : g.data[i] \in Known(i)
    BY <1>0, <2>1 DEF KnownInv, DiskKnown, MemKnown
  <2> HIDE DEF VtSealed
  <2> QED BY <2>1, <2>2, <2>3, <2>4
<1>4. CASE ~VtCommit /\ ~VtSyncDir /\ ~VtRename
  <2>1. f \in vtFileSafe
    BY <1>0, <1>4, DiskChange, StartIs, WriteKeyIs DEF vtDisk, VtKeySettles, VtPowerLoss
  <2>2. i \notin vtUnwritten
    BY <1>4, UnwrittenChange DEF VtVault
  <2>3. Known(i) \subseteq Known(i)'
    BY <1>4, KnownStep
  <2> QED BY <1>0, <2>1, <2>2, <2>3 DEF KnownInv, DiskKnown
<1> QED BY <1>1, <1>2, <1>3, <1>4

LEMMA MemKnownStep == VtTypeOK /\ FilesOneKey /\ TxInv /\ KnownInv /\ [VtNext]_vtVars => MemKnown'
<1> SUFFICES ASSUME VtTypeOK, FilesOneKey, TxInv, KnownInv, [VtNext]_vtVars, vtDirSyncs', vtPhase' = "up",
                    NEW i \in VtIds, i \notin vtUnwritten'
             PROVE  vtMem'[i] \in Known(i)'
  BY DEF MemKnown
<1>0. /\ vtDirSyncs /\ vtFile \in vtFileSafe /\ vtFileSafe \subseteq VtFiles
      /\ vtMem \in [VtIds -> VtSecrets]
  BY UnwrittenChange DEF VtTypeOK
\* What a load finds is what a file has.
<1>1. ASSUME NEW key, VtLoad(key), UNCHANGED vtHistory PROVE vtMem'[i] \in Known(i)'
  <2>1. vtFile.data[i] \in Known(i) /\ Known(i)' = Known(i)
    BY <1>0, <1>1 DEF KnownInv, DiskKnown, Known, vtHistory
  <2>2. ~vtFile.there => vtFile.data = VtEmpty
    BY <1>0, Nothing DEF FilesOneKey
  <2> QED BY <1>1, <2>1, <2>2, LoadIs
<1>2. CASE VtStart
  <2>1. \E key : VtLoad(key) /\ UNCHANGED vtHistory
    BY <1>2, StartIs
  <2> QED BY <1>1, <2>1
<1>3. CASE VtWriteKey
  BY <1>1, <1>3, WriteKeyIs
<1>4. CASE VtVault
  <2>1. /\ vtMem' = [vtMem EXCEPT ![vtTx.id] = vtTx.secret] /\ vtUnwritten \subseteq vtUnwritten'
        /\ vtTx.pc = "vault" /\ vtPhase = "up" /\ Known(i)' = Known(i)
    BY <1>4 DEF VtVault, Known, TxInv
  <2>2. CASE vtTx.id = i
    BY <1>0, <2>1, <2>2 DEF TxInv, Known
  <2>3. CASE vtTx.id # i
    BY <1>0, <2>1, <2>3 DEF KnownInv, MemKnown
  <2> QED BY <2>2, <2>3
<1>5. CASE VtSyncDir
  <2>1. /\ vtTx.pc = "sync" /\ vtFile.data = vtMem /\ vtPhase = "up" /\ vtMem' = vtMem
        /\ vtUnwritten' = {k \in vtUnwritten \ {vtTx.id} : vtFile.data[k] # 0}
    BY <1>0, <1>5 DEF VtSyncDir, TxInv
  <2>2. Known(i)' = Known(i)
    BY <1>5 DEF VtSyncDir, Known
  <2>3. CASE i \notin vtUnwritten
    BY <1>0, <2>1, <2>2, <2>3 DEF KnownInv, MemKnown
  <2>4. CASE i \in vtUnwritten /\ i = vtTx.id
    BY <2>1, <2>2, <2>4 DEF TxInv, Known
  <2>5. CASE i \in vtUnwritten /\ vtFile.data[i] = 0
    BY <1>0, <2>1, <2>2, <2>5 DEF KnownInv, NoneKnown
  <2> QED BY <2>1, <2>3, <2>4, <2>5
<1>6. CASE VtCommit
  <2>1. vtMem' = vtMem /\ vtTx.pc = "commit" /\ vtUnwritten' = vtUnwritten /\ vtPhase = "up"
    BY <1>6 DEF VtCommit, TxInv
  <2>2. vtMem[i] \in Known(i) /\ (vtTx.id = i => vtMem[i] = vtTx.secret)
    BY <1>0, <2>1 DEF KnownInv, MemKnown, TxInv
  <2>3. VtCommit /\ ~Begins
    BY <1>6 DEF VtCommit, Begins, VtBegin
  <2> QED BY <2>1, <2>2, <2>3, KnownStep
<1>7. CASE VtKill \/ VtPowerLoss
  BY <1>7 DEF VtKill, VtPowerLoss, VtDown
<1>8. CASE UNCHANGED vtVars \/ VtKeySettles \/ Begins \/ VtAbort \/ VtWrite \/ VtRename
  <2>1. vtMem' = vtMem /\ vtPhase = "up" /\ vtUnwritten' = vtUnwritten
    BY <1>8 DEF vtVars, vtHistory, VtKeySettles, Begins, VtBegin, VtAbort, VtWrite, VtRename
  <2>2. CASE Begins
    <3>1. ~VtCommit
      BY <2>2 DEF VtCommit, Begins, VtBegin
    <3> QED BY <2>1, <3>1, <1>0, KnownStep DEF KnownInv, MemKnown
  <2>3. CASE UNCHANGED vtVars \/ VtKeySettles \/ VtAbort \/ VtWrite \/ VtRename
    <3>1. Known(i)' = Known(i)
      BY <2>3 DEF vtVars, vtHistory, VtKeySettles, VtAbort, VtWrite, VtRename, Known
    <3> QED BY <1>0, <2>1, <3>1 DEF KnownInv, MemKnown
  <2> QED BY <1>8, <2>2, <2>3
<1> QED BY <1>2, <1>3, <1>4, <1>5, <1>6, <1>7, <1>8, VtMoves

LEMMA NoneKnownStep == VtTypeOK /\ FilesOneKey /\ TxInv /\ KnownInv /\ [VtNext]_vtVars => NoneKnown'
<1> SUFFICES ASSUME VtTypeOK, FilesOneKey, TxInv, KnownInv, [VtNext]_vtVars, vtDirSyncs',
                    NEW i \in vtUnwritten'
             PROVE  0 \in Known(i)'
  BY DEF NoneKnown
<1>0. vtDirSyncs /\ vtUnwritten \subseteq VtIds /\ vtTx.id \in VtIds
  BY UnwrittenChange DEF VtTypeOK
<1>1. CASE VtVault
  <2>1. /\ i \in vtUnwritten \/ (i = vtTx.id /\ vtTx.secret = 0)
        /\ vtTx.pc = "vault" /\ Known(i)' = Known(i)
    BY <1>1 DEF VtVault, Known
  <2>2. vtTx.secret \in vtTried[vtTx.id]
    BY <2>1 DEF TxInv
  <2> QED BY <1>0, <2>1, <2>2 DEF KnownInv, NoneKnown, Known
<1>2. CASE VtSyncDir
  <2>1. i \in vtUnwritten /\ Known(i)' = Known(i)
    BY <1>0, <1>2 DEF VtSyncDir, Known
  <2> QED BY <1>0, <2>1 DEF KnownInv, NoneKnown
<1>3. CASE VtCommit
  <2>1. i \in vtUnwritten /\ vtTx.pc = "commit"
    BY <1>3 DEF VtCommit
  <2>2. vtTx.id = i => vtTx.secret = 0
    BY <1>0, <2>1 DEF TxInv
  <2>3. VtCommit /\ ~Begins
    BY <1>3 DEF VtCommit, Begins, VtBegin
  <2> QED BY <1>0, <2>1, <2>2, <2>3, KnownStep DEF KnownInv, NoneKnown
<1>4. CASE ~VtVault /\ ~VtSyncDir /\ ~VtCommit
  <2>1. i \in vtUnwritten
    BY <1>4, UnwrittenChange
  <2> QED BY <1>0, <1>4, <2>1, KnownStep DEF KnownInv, NoneKnown
<1> QED BY <1>1, <1>2, <1>3, <1>4

LEMMA TypeStep == VtTypeOK /\ FilesOneKey /\ KeyFits /\ TxInv /\ [VtNext]_vtVars => VtTypeOK'
<1> SUFFICES ASSUME VtTypeOK, FilesOneKey, KeyFits, TxInv, [VtNext]_vtVars PROVE VtTypeOK'
  OBVIOUS
<1>1. DiskTyped' /\ MemTyped' /\ HistoryTyped' /\ CountsTyped' /\ FlagsTyped'
  BY DiskTypedStep, MemTypedStep, OthersTypedStep
<1>2. (DiskTyped /\ MemTyped /\ HistoryTyped /\ CountsTyped /\ FlagsTyped)' => VtTypeOK'
  BY Typed, PTL
<1> QED BY <1>1, <1>2

-----------------------------------------------------------------------------
VtInv == VtTypeOK /\ FilesOneKey /\ KeyFits /\ KeyKept /\ TxInv /\ KnownInv

LEMMA VtInvInit == VtInit => VtInv
<1> SUFFICES ASSUME VtInit PROVE VtInv
  OBVIOUS
<1>1. VtTypeOK
  <2>1. 0 \in 0..VtMaxOps /\ 0 \in 0..VtMaxFaults /\ 0 \in VtSecrets
    BY Numbers DEF VtSecrets
  <2>2. DiskTyped
    BY Nothing DEF VtInit, DiskTyped, VtKeys, VtNoKey
  <2>3. MemTyped
    BY Nothing, NoTx DEF VtInit, MemTyped
  <2>4. HistoryTyped
    BY Nothing DEF VtInit, HistoryTyped
  <2>5. CountsTyped
    BY <2>1 DEF VtInit, CountsTyped
  <2>6. FlagsTyped
    BY DEF VtInit, FlagsTyped
  <2> QED BY <2>2, <2>3, <2>4, <2>5, <2>6, Typed
<1>2. FilesOneKey
  BY Nothing DEF VtInit, FilesOneKey
<1>3. KeyFits /\ KeyKept
  BY Nothing DEF VtInit, KeyFits, KeyKept, VtNoKey
<1>4. TxInv
  BY NoTx DEF VtInit, TxInv
<1>5. KnownInv
  BY Nothing DEF VtInit, KnownInv, DiskKnown, MemKnown, NoneKnown, Known
<1> QED BY <1>1, <1>2, <1>3, <1>4, <1>5 DEF VtInv

LEMMA VtInvStep == VtInv /\ [VtNext]_vtVars => VtInv'
BY TypeStep, FilesStep, KeyFitsStep, KeyKeptStep, TxInvStep, DiskKnownStep, MemKnownStep, NoneKnownStep
   DEF VtInv, KnownInv

LEMMA VtInvHolds == VtSpec => []VtInv
BY VtInvInit, VtInvStep, PTL DEF VtSpec

\* The variables of the saved connections, the key and the vault file have
\* their types, and what the files are now is among what a power loss may leave.
THEOREM VtTypeCorrect == VtSpec => []VtTypeOK
<1>1. VtInv => VtTypeOK
  BY DEF VtInv
<1> QED BY <1>1, VtInvHolds, PTL

\* A vault that was opened once opens again unless its key file was cut short,
\* and every connection has the secret of the last write that succeeded or of a
\* later one that failed, for any number of writes, failures, kills and power
\* losses (secrets/file.go Put, Delete, writeFileSync, syncDir; the connections
\* service's transactions around them).
THEOREM VaultRecovers == VtSpec => []VtRecovers
<1>1. ASSUME VtInv PROVE VtRecovers
  <2>1. VtOpens
    BY <1>1 DEF VtInv, KeyKept, VtOpens
  <2>2. VtSecretsKept
    BY <1>1 DEF VtInv, KnownInv, MemKnown, Known, VtSecretsKept
  <2> QED BY <2>1, <2>2 DEF VtRecovers
<1> QED BY <1>1, VtInvHolds, PTL

---------------------------------------------------------------------------
(***************************************************************************)
(* What the watcher of directories keeps, for every set of sources, every  *)
(* tree of directories and every number of changes and requests.           *)
(***************************************************************************)

---------------------------------------------------------------------------
(* The tree of directories. *)

LEMMA FwConstants ==
    /\ DOMAIN FwParent \subseteq FwDirs /\ \A d \in DOMAIN FwParent : FwParent[d] \in FwDirs
    /\ \A s \in FwSources : FwRoot[s] \in FwDirs
    /\ FwMaxChanges \in Nat /\ FwMaxOps \in Nat
    /\ FwNoOp = [op |-> "none", source |-> FwNoOp.source, left |-> {}] /\ FwNoOp.source \in FwSources
BY FwAssumption DEF FwAssumption, FwNoOp

\* A directory is above itself, and what is above it is closed and the least
\* closed set that holds it.
LEMMA FwAboveIs ==
    ASSUME NEW d \in FwDirs
    PROVE  /\ d \in FwAbove[d] /\ FwAbove[d] \in FwClosed /\ FwAbove[d] \subseteq FwDirs
           /\ \A D \in FwClosed : d \in D => FwAbove[d] \subseteq D
<1>1. FwAbove[d] = {e \in FwDirs : \A D \in FwClosed : d \in D => e \in D}
  BY DEF FwAbove
<1>2. FwAbove[d] \in FwClosed
  <2>1. ASSUME NEW e \in FwAbove[d] \cap DOMAIN FwParent PROVE FwParent[e] \in FwAbove[d]
    <3>1. FwParent[e] \in FwDirs
      BY FwConstants
    <3>2. ASSUME NEW D \in FwClosed, d \in D PROVE FwParent[e] \in D
      BY <1>1, <3>2 DEF FwClosed
    <3> QED BY <1>1, <3>1, <3>2
  <2> QED BY <1>1, <2>1 DEF FwClosed
<1> QED BY <1>1, <1>2

LEMMA FwAboveThrough ==
    ASSUME NEW d \in FwDirs, NEW e \in FwAbove[d] PROVE FwAbove[e] \subseteq FwAbove[d]
BY FwAboveIs, e \in FwDirs

\* Above a directory are itself and what is above its parent.
LEMMA FwAboveParent ==
    ASSUME NEW d \in DOMAIN FwParent
    PROVE  d \in FwDirs /\ FwParent[d] \in FwDirs /\ FwAbove[d] = {d} \cup FwAbove[FwParent[d]]
<1>1. d \in FwDirs /\ FwParent[d] \in FwDirs
  BY FwConstants
<1>2. FwParent[d] \in FwAbove[d]
  BY <1>1, FwAboveIs DEF FwClosed
<1>3. {d} \cup FwAbove[FwParent[d]] \in FwClosed
  BY <1>1, FwAboveIs DEF FwClosed
<1>4. FwAbove[d] \subseteq {d} \cup FwAbove[FwParent[d]]
  BY <1>1, <1>3, FwAboveIs
<1>5. FwAbove[FwParent[d]] \subseteq FwAbove[d]
  BY <1>1, <1>2, FwAboveThrough
<1> QED BY <1>1, <1>4, <1>5, FwAboveIs

\* Of two directories above a third, one is above the other.
LEMMA FwAboveChain ==
    ASSUME NEW d \in FwDirs, NEW a \in FwAbove[d], NEW b \in FwAbove[d]
    PROVE  a \in FwAbove[b] \/ b \in FwAbove[a]
<1> DEFINE D == {e \in FwAbove[d] : \A x \in FwAbove[d] : x \in FwAbove[e] \/ e \in FwAbove[x]}
<1>1. FwAbove[d] \subseteq FwDirs /\ d \in FwAbove[d] /\ FwAbove[d] \in FwClosed
  BY FwAboveIs
<1>2. d \in D
  BY <1>1
<1>3. ASSUME NEW e \in D \cap DOMAIN FwParent PROVE FwParent[e] \in D
  <2>1. FwParent[e] \in FwAbove[d]
    BY <1>1 DEF FwClosed
  <2>2. ASSUME NEW x \in FwAbove[d] PROVE x \in FwAbove[FwParent[e]] \/ FwParent[e] \in FwAbove[x]
    <3>1. FwAbove[e] = {e} \cup FwAbove[FwParent[e]] /\ FwParent[e] \in FwDirs
      BY FwAboveParent
    <3>2. x \in FwDirs /\ FwAbove[x] \in FwClosed /\ x \in FwAbove[x]
      BY <1>1, FwAboveIs
    <3>3. CASE e \in FwAbove[x]
      BY <3>2, <3>3 DEF FwClosed
    <3>4. CASE x \in FwAbove[e] /\ x # e
      BY <3>1, <3>4
    <3>5. CASE x = e
      BY <3>2, <3>5 DEF FwClosed
    <3> QED BY <3>3, <3>4, <3>5
  <2> QED BY <2>1, <2>2
<1>4. D \in FwClosed
  BY <1>1, <1>3 DEF FwClosed
<1> QED BY <1>1, <1>2, <1>4, FwAboveIs

LEMMA FwBelowIs == ASSUME NEW d \in FwDirs PROVE FwBelow[d] = {e \in FwDirs : d \in FwAbove[e]}
BY DEF FwBelow

---------------------------------------------------------------------------
(* The queue of events. *)

FwEvents == [event : {"proto", "create", "remove"}, dir : FwDirs]
FwEvent(event, d) == [event |-> event, dir |-> d]
FwQueued == Range(fwEvents)

LEMMA FwRangeIs == ASSUME NEW q PROVE Range(q) = {q[i] : i \in DOMAIN q}
BY DEF Range

LEMMA FwAppended ==
    ASSUME NEW q \in Seq(FwEvents), NEW x \in FwEvents
    PROVE  Append(q, x) \in Seq(FwEvents) /\ Range(Append(q, x)) = Range(q) \cup {x}
<1> DEFINE a == Append(q, x)
<1>1. a \in Seq(FwEvents) /\ Len(a) = Len(q) + 1 /\ a[Len(q) + 1] = x /\ \A i \in 1 .. Len(q) : a[i] = q[i]
  OBVIOUS
<1>2. DOMAIN q = 1 .. Len(q) /\ DOMAIN a = 1 .. Len(q) + 1 /\ Len(q) \in Nat
  BY <1>1
<1> HIDE DEF a
<1>3. ASSUME NEW i \in 1 .. Len(q) + 1 PROVE a[i] \in Range(q) \cup {x}
  <2>1. i \in 1 .. Len(q) \/ i = Len(q) + 1
    BY <1>2
  <2> QED BY <1>1, <1>2, <2>1, FwRangeIs
<1>4. x \in Range(a)
  BY <1>1, <1>2, FwRangeIs
<1>5. ASSUME NEW i \in 1 .. Len(q) PROVE q[i] \in Range(a)
  <2>1. i \in 1 .. Len(q) + 1
    BY <1>2
  <2> QED BY <1>1, <1>2, <2>1, FwRangeIs
<1>6. Range(a) \subseteq Range(q) \cup {x}
  BY <1>2, <1>3, FwRangeIs
<1>7. Range(q) \subseteq Range(a)
  BY <1>2, <1>5, FwRangeIs
<1>8. Range(a) = Range(q) \cup {x}
  BY <1>4, <1>6, <1>7
<1> QED BY <1>1, <1>8 DEF a

LEMMA FwTaken ==
    ASSUME NEW q \in Seq(FwEvents), q # <<>>
    PROVE  /\ Tail(q) \in Seq(FwEvents) /\ Head(q) \in FwEvents
           /\ Range(q) = {Head(q)} \cup Range(Tail(q))
<1> DEFINE t == Tail(q)
<1>1. t \in Seq(FwEvents) /\ Head(q) = q[1] /\ Len(q) \in Nat \ {0} /\ Len(t) = Len(q) - 1
  OBVIOUS
<1>2. \A i \in 1 .. Len(q) - 1 : t[i] = q[i + 1]
  OBVIOUS
<1>3. DOMAIN q = 1 .. Len(q) /\ DOMAIN t = 1 .. Len(q) - 1 /\ Head(q) \in FwEvents
  BY <1>1
<1> HIDE DEF t
<1>4. q[1] \in Range(q)
  BY <1>1, <1>3, FwRangeIs
<1>5. ASSUME NEW i \in 1 .. Len(q) PROVE q[i] = q[1] \/ q[i] \in Range(t)
  <2>1. i = 1 \/ (i - 1 \in 1 .. Len(q) - 1 /\ i = (i - 1) + 1)
    BY <1>1
  <2> QED BY <1>2, <1>3, <2>1, FwRangeIs
<1>6. ASSUME NEW i \in 1 .. Len(q) - 1 PROVE t[i] \in Range(q)
  <2>1. i + 1 \in 1 .. Len(q)
    BY <1>1
  <2> QED BY <1>2, <1>3, <2>1, FwRangeIs
<1>7. Range(q) \subseteq {q[1]} \cup Range(t)
  BY <1>3, <1>5, FwRangeIs
<1>8. Range(t) \subseteq Range(q)
  BY <1>3, <1>6, FwRangeIs
<1> QED BY <1>1, <1>3, <1>4, <1>7, <1>8 DEF t

LEMMA FwNoneQueued == Range(<<>>) = {} /\ <<>> \in Seq(FwEvents)
BY DEF Range

---------------------------------------------------------------------------
(* Types. *)

LEMMA FwOwnersIs == FwTypeOK => \A d : FwOwners(d) \subseteq fwEntries /\ FwOwners(d) \subseteq FwSources
BY DEF FwTypeOK, FwOwners

\* A timer is armed for a source that has an entry, or none is.
LEMMA FwArms ==
    ASSUME FwTypeOK, NEW d, FwArm(d)
    PROVE  fwTimer' = fwTimer \/ \E s \in fwEntries : fwTimer' = fwTimer \cup {s}
<1> DEFINE nearest == {s \in FwOwners(d) : \A t \in FwOwners(d) : FwRoot[t] \in FwAbove[FwRoot[s]]}
<1> DEFINE known == IF d \in DOMAIN fwMap THEN {fwMap[d]} \cap fwEntries ELSE nearest
<1>1. known \subseteq fwEntries
  BY FwOwnersIs
<1>2. IF known = {} THEN UNCHANGED fwTimer ELSE \E s \in known : fwTimer' = fwTimer \cup {s}
  BY DEF FwArm
<1> QED BY <1>1, <1>2

LEMMA FwForgets ==
    ASSUME FwTypeOK, NEW s \in FwSources, FwForget(s)
    PROVE  /\ fwTimer' = fwTimer \ {s} /\ fwOwed' = fwOwed \ {s}
           /\ DOMAIN fwMap' = {d \in DOMAIN fwMap : fwMap[d] # s}
           /\ \A d \in DOMAIN fwMap' : fwMap'[d] = fwMap[d]
           /\ fwMap' \in [DOMAIN fwMap' -> FwSources]
           /\ fwSub' = {d \in fwSub : fwMap[d] # s}
BY DEF FwTypeOK, FwForget, FwWithout, FwOf, Restrict

LEMMA FwForgetTyped ==
    ASSUME FwTypeOK, NEW s \in FwSources, FwForget(s), fwEntries' = fwEntries \ {s}
    PROVE  /\ fwEntries' \subseteq FwSources /\ fwTimer' \subseteq fwEntries' /\ fwOwed' \subseteq FwSources
           /\ fwSub' \subseteq fwThere \cap DOMAIN fwMap'
           /\ fwMap' \in [DOMAIN fwMap' -> FwSources] /\ DOMAIN fwMap' \subseteq FwDirs
<1>1. fwEntries' \subseteq FwSources /\ fwTimer' \subseteq fwEntries' /\ fwOwed' \subseteq FwSources
  <2>1. fwTimer \subseteq fwEntries /\ fwEntries \subseteq FwSources /\ fwOwed \subseteq FwSources
    BY DEF FwTypeOK
  <2>2. fwTimer' = fwTimer \ {s} /\ fwOwed' = fwOwed \ {s}
    BY FwForgets
  <2> QED BY <2>1, <2>2
<1>2. fwSub' \subseteq fwThere \cap DOMAIN fwMap'
  BY FwForgets DEF FwTypeOK
<1>3. fwMap' \in [DOMAIN fwMap' -> FwSources] /\ DOMAIN fwMap' \subseteq FwDirs
  BY FwForgets DEF FwTypeOK
<1> QED BY <1>1, <1>2, <1>3

LEMMA FwChangeTyped ==
    ASSUME FwTypeOK, NEW d \in FwDirs, NEW event \in {"proto", "create", "remove"}, NEW from,
           FwChange(d, event, from)
    PROVE  /\ fwEvents' \in Seq(FwEvents) /\ fwChanges' \in 0..FwMaxChanges /\ fwOwed' \subseteq FwSources
           /\ UNCHANGED <<fwEntries, fwTimer, fwMap, fwOp, fwDue, fwOps, fwStolen>>
<1>1. FwEvent(event, d) \in FwEvents /\ fwEvents \in Seq(FwEvents)
  BY DEF FwTypeOK, FwEvents, FwEvent
<1>2. fwEvents' \in Seq(FwEvents)
  BY <1>1, FwAppended DEF FwChange, FwEvent
<1>3. fwChanges' \in 0..FwMaxChanges
  BY FwConstants DEF FwTypeOK, FwChange
<1> QED BY <1>2, <1>3, FwOwnersIs DEF FwTypeOK, FwChange

\* What the requests, the loop and the timers do not write.
LEMMA FwTypesWithout ==
    ASSUME FwTypeOK, UNCHANGED fwThere,
           fwEntries' \subseteq FwSources, fwTimer' \subseteq fwEntries', fwSub' \subseteq fwThere \cap DOMAIN fwMap',
           fwMap' \in [DOMAIN fwMap' -> FwSources], DOMAIN fwMap' \subseteq FwDirs,
           fwEvents' \in Seq(FwEvents),
           fwOp' \in [op : {"none", "watch", "subtree"}, source : FwSources, left : SUBSET FwDirs],
           fwDue' \subseteq FwDirs, fwChanges' = fwChanges, fwOps' \in 0..FwMaxOps,
           fwOwed' \subseteq FwSources, fwStolen' \subseteq FwSources, fwMissed' \subseteq FwSources
    PROVE  FwTypeOK'
BY DEF FwTypeOK, FwEvents

\* A removal in the queue is of a directory below another, and of none that holds
\* a root; what is there holds the roots, and the parent of each of its own.
FwTreeInv ==
    /\ fwThere \in FwClosed /\ \A s \in FwSources : FwRoot[s] \in fwThere
    /\ \A d \in FwDirs : FwEvent("remove", d) \in FwQueued =>
            d \in DOMAIN FwParent /\ \A s \in FwSources : d \notin FwAbove[FwRoot[s]]

LEMMA FwTypeStep == FwTypeOK /\ FwTreeInv /\ [FwNext]_fwVars => FwTypeOK'
<1> SUFFICES ASSUME FwTypeOK, FwTreeInv, [FwNext]_fwVars PROVE FwTypeOK'
  OBVIOUS
<1> USE FwConstants
<1>a. /\ fwThere \subseteq FwDirs /\ fwSub \subseteq fwThere \cap DOMAIN fwMap
      /\ fwEvents \in Seq(FwEvents) /\ fwEntries \subseteq FwSources /\ fwTimer \subseteq fwEntries
      /\ fwMap \in [DOMAIN fwMap -> FwSources] /\ DOMAIN fwMap \subseteq FwDirs
      /\ fwOp \in [op : {"none", "watch", "subtree"}, source : FwSources, left : SUBSET FwDirs]
      /\ fwDue \subseteq FwDirs /\ fwChanges \in 0..FwMaxChanges /\ fwOps \in 0..FwMaxOps
      /\ fwOwed \subseteq FwSources /\ fwStolen \subseteq FwSources /\ fwMissed \subseteq FwSources
  BY DEF FwTypeOK, FwEvents
<1>1. CASE \E s \in FwSources : FwWatch(s)
  <2> PICK s \in FwSources : FwWatch(s)
    BY <1>1
  <2>1. fwOps' \in 0..FwMaxOps
    BY <1>a DEF FwWatch
  <2>2. /\ fwTimer' \subseteq fwEntries' /\ fwSub' \subseteq fwThere \cap DOMAIN fwMap'
        /\ fwMap' \in [DOMAIN fwMap' -> FwSources] /\ DOMAIN fwMap' \subseteq FwDirs /\ fwOwed' \subseteq FwSources
    <3>1. CASE s \in fwEntries
      <4>1. FwForget(s) /\ fwEntries' = fwEntries \ {s}
        BY <3>1 DEF FwWatch
      <4> QED BY <4>1, FwForgetTyped
    <3>2. CASE s \notin fwEntries
      <4>1. UNCHANGED <<fwTimer, fwOwed, fwSub, fwMap>> /\ fwEntries' = fwEntries \ {s}
        BY <3>2 DEF FwWatch
      <4> QED BY <4>1, <3>2, <1>a
    <3> QED BY <3>1, <3>2
  <2>3. fwOp' \in [op : {"none", "watch", "subtree"}, source : FwSources, left : SUBSET FwDirs]
    BY <1>a DEF FwWatch, FwCollected
  <2> QED BY <1>a, <2>1, <2>2, <2>3, FwTypesWithout DEF FwWatch
<1>2. CASE \E s \in FwSources : FwUnwatch(s)
  <2> PICK s \in FwSources : FwUnwatch(s)
    BY <1>2
  <2>1. fwOps' \in 0..FwMaxOps
    BY <1>a DEF FwUnwatch
  <2>2. FwForget(s) /\ fwEntries' = fwEntries \ {s}
    BY DEF FwUnwatch
  <2>3. UNCHANGED <<fwThere, fwEvents, fwOp, fwDue, fwChanges, fwStolen, fwMissed>>
    BY DEF FwUnwatch
  <2>4. /\ fwEntries' \subseteq FwSources /\ fwTimer' \subseteq fwEntries' /\ fwOwed' \subseteq FwSources
        /\ fwSub' \subseteq fwThere \cap DOMAIN fwMap'
        /\ fwMap' \in [DOMAIN fwMap' -> FwSources] /\ DOMAIN fwMap' \subseteq FwDirs
    BY <2>2, FwForgetTyped
  <2> HIDE DEF FwTypeOK
  <2> QED BY <1>a, <2>1, <2>3, <2>4, FwTypesWithout
<1>3. CASE \E s \in FwSources : FwFire(s)
  BY <1>3, <1>a, FwTypesWithout DEF FwFire
<1>4. CASE \E d \in FwDirs : FwTouch(d)
  <2> PICK d \in FwDirs : FwTouch(d)
    BY <1>4
  <2>1. FwChange(d, "proto", d) /\ UNCHANGED <<fwThere, fwSub, fwMissed>>
    BY DEF FwTouch
  <2> QED BY <1>a, <2>1, FwChangeTyped DEF FwTypeOK, FwEvents
<1>5. CASE \E d \in FwDirs : FwAppear(d)
  <2> PICK d \in FwDirs : FwAppear(d)
    BY <1>5
  <2>1. FwChange(d, "create", FwParent[d]) /\ fwThere' = fwThere \cup {d} /\ UNCHANGED fwSub
    BY DEF FwAppear
  <2>2. fwMissed' \subseteq FwSources
    BY <1>a DEF FwAppear
  <2> QED BY <1>a, <2>1, <2>2, FwChangeTyped DEF FwTypeOK, FwEvents
<1>6. CASE \E d \in FwDirs : FwVanish(d)
  <2> PICK d \in FwDirs : FwVanish(d)
    BY <1>6
  <2>1. FwChange(d, "remove", FwParent[d]) /\ fwThere' = fwThere \ FwBelow[d] /\ fwSub' = fwSub \ FwBelow[d]
    BY DEF FwVanish
  <2>2. fwMissed' \subseteq FwSources
    BY <1>a, FwOwnersIs DEF FwVanish
  <2> QED BY <1>a, <2>1, <2>2, FwChangeTyped DEF FwTypeOK, FwEvents
<1>7. CASE \E d \in FwDirs : FwAdd(d)
  <2> PICK d \in FwDirs : FwAdd(d)
    BY <1>7
  <2>1. fwOp' \in [op : {"none", "watch", "subtree"}, source : FwSources, left : SUBSET FwDirs]
    BY <1>a DEF FwAdd
  <2>2. /\ fwSub' = fwSub \cup ({d} \cap fwThere) /\ DOMAIN fwMap' = DOMAIN fwMap \cup {d}
        /\ fwMap' \in [DOMAIN fwMap' -> FwSources]
    BY <1>a DEF FwAdd
  <2>3. fwStolen' \subseteq FwSources
    BY <1>a DEF FwAdd
  <2> QED BY <1>a, <2>1, <2>2, <2>3, FwTypesWithout DEF FwAdd
<1>8. CASE FwAdded
  <2>1. fwEntries' \subseteq FwSources /\ fwEntries \subseteq fwEntries'
    BY <1>8, <1>a DEF FwAdded
  <2>2. fwOp' \in [op : {"none", "watch", "subtree"}, source : FwSources, left : SUBSET FwDirs]
    BY <1>8 DEF FwAdded
  <2> QED BY <1>8, <1>a, <2>1, <2>2, FwTypesWithout DEF FwAdded, fwHistory
<1>9. CASE FwSchedule
  <2>1. fwTimer' \subseteq fwEntries /\ fwDue' = {}
    BY <1>9, <1>a, FwArms DEF FwSchedule
  <2> QED BY <1>9, <1>a, <2>1, FwTypesWithout DEF FwSchedule, fwHistory
<1>10. CASE FwProtoEvent
  <2>1. fwTimer' \subseteq fwEntries
    BY <1>10, <1>a, FwArms DEF FwProtoEvent
  <2>2. fwEvents' \in Seq(FwEvents)
    BY <1>10, <1>a, FwTaken DEF FwProtoEvent, FwNextEvent
  <2> QED BY <1>10, <1>a, <2>1, <2>2, FwTypesWithout DEF FwProtoEvent, fwHistory
<1>11. CASE FwCreateEvent
  <2>1. fwEvents' \in Seq(FwEvents) /\ Head(fwEvents).dir \in FwDirs
    BY <1>11, <1>a, FwTaken DEF FwCreateEvent, FwNextEvent, FwEvents
  <2>2. fwDue' \subseteq FwDirs
    BY <1>11, <1>a, <2>1 DEF FwCreateEvent
  <2>3. fwOp' \in [op : {"none", "watch", "subtree"}, source : FwSources, left : SUBSET FwDirs]
    BY <1>11, <1>a, FwOwnersIs DEF FwCreateEvent, FwCollected
  <2> QED BY <1>11, <1>a, <2>1, <2>2, <2>3, FwTypesWithout DEF FwCreateEvent, fwHistory
<1>12. CASE FwRemoveEvent
  <2> DEFINE d == Head(fwEvents).dir
  <2>1. fwEvents' \in Seq(FwEvents) /\ d \in FwDirs
    BY <1>12, <1>a, FwTaken DEF FwRemoveEvent, FwNextEvent, FwEvents
  <2>2. \/ UNCHANGED <<fwSub, fwMap, fwDue, fwMissed>>
        \/ /\ fwSub' = fwSub \ (FwBelow[d] \cap DOMAIN fwMap) /\ fwMap' = FwWithout(FwBelow[d])
           /\ fwDue' = {FwParent[d]}
           /\ fwMissed' = fwMissed \/ fwMissed' = fwMissed \cup FwOwners(d)
    BY <1>12 DEF FwRemoveEvent
  <2>3. UNCHANGED <<fwThere, fwEntries, fwTimer, fwOp, fwChanges, fwOps, fwOwed, fwStolen>>
    BY <1>12 DEF FwRemoveEvent
  <2>4. CASE UNCHANGED <<fwSub, fwMap, fwDue, fwMissed>>
    BY <1>a, <2>1, <2>3, <2>4, FwTypesWithout
  <2>5. CASE /\ fwSub' = fwSub \ (FwBelow[d] \cap DOMAIN fwMap) /\ fwMap' = FwWithout(FwBelow[d])
             /\ fwDue' = {FwParent[d]}
             /\ fwMissed' = fwMissed \/ fwMissed' = fwMissed \cup FwOwners(d)
    <3>1. Head(fwEvents) = FwEvent("remove", d)
      <4>1. Head(fwEvents) \in FwEvents /\ Head(fwEvents).event = "remove"
        BY <1>12, <1>a, FwTaken DEF FwRemoveEvent, FwNextEvent
      <4> QED BY <4>1 DEF FwEvents, FwEvent
    <3>2. FwEvent("remove", d) \in FwQueued
      BY <3>1, <1>12, <1>a, FwTaken DEF FwRemoveEvent, FwNextEvent, FwQueued
    <3>3. FwParent[d] \in FwDirs
      BY <2>1, <3>2 DEF FwTreeInv
    <3>4. DOMAIN fwMap' = DOMAIN fwMap \ FwBelow[d] /\ \A e \in DOMAIN fwMap' : fwMap'[e] = fwMap[e]
      BY <2>5 DEF FwWithout, Restrict
    <3>5. fwMap' \in [DOMAIN fwMap' -> FwSources]
      BY <1>a, <2>5, <3>4 DEF FwWithout, Restrict
    <3>6. fwSub' \subseteq fwThere \cap DOMAIN fwMap' /\ fwDue' \subseteq FwDirs
      BY <1>a, <2>5, <3>3, <3>4
    <3>7. fwMissed' \subseteq FwSources
      BY <1>a, <2>5, FwOwnersIs
    <3> QED BY <1>a, <2>1, <2>3, <3>4, <3>5, <3>6, <3>7, FwTypesWithout
  <2> QED BY <2>2, <2>4, <2>5
<1>13. CASE UNCHANGED fwVars
  BY <1>13 DEF FwTypeOK, fwVars, fwHistory
<1> QED BY <1>1, <1>2, <1>3, <1>4, <1>5, <1>6, <1>7, <1>8, <1>9, <1>10, <1>11, <1>12, <1>13 DEF FwNext

---------------------------------------------------------------------------
(* What a step does to the queue and to the directories. *)

LEMMA FwEventsDiffer ==
    ASSUME NEW a, NEW b, NEW d, NEW e, FwEvent(a, d) = FwEvent(b, e) PROVE a = b /\ d = e
<1>1. FwEvent(a, d).event = a /\ FwEvent(a, d).dir = d /\ FwEvent(b, e).event = b /\ FwEvent(b, e).dir = e
  BY DEF FwEvent
<1> QED BY <1>1

\* A change is queued where it is watched, behind what is queued.
LEMMA FwChangeQueues ==
    ASSUME FwTypeOK, NEW d \in FwDirs, NEW event \in {"proto", "create", "remove"}, NEW from,
           FwChange(d, event, from)
    PROVE  /\ FwQueued \subseteq FwQueued' /\ FwQueued' \subseteq FwQueued \cup {FwEvent(event, d)}
           /\ from \in fwSub \/ d \in fwSub => FwEvent(event, d) \in FwQueued'
<1>1. FwEvent(event, d) \in FwEvents /\ fwEvents \in Seq(FwEvents)
  BY DEF FwTypeOK, FwEvents, FwEvent
<1>2. Range(Append(fwEvents, FwEvent(event, d))) = FwQueued \cup {FwEvent(event, d)}
  BY <1>1, FwAppended DEF FwQueued
<1>3. fwEvents' = IF {from, d} \cap fwSub # {} THEN Append(fwEvents, FwEvent(event, d)) ELSE fwEvents
  BY DEF FwChange, FwEvent
<1>4. CASE {from, d} \cap fwSub # {}
  BY <1>2, <1>3, <1>4 DEF FwQueued
<1>5. CASE {from, d} \cap fwSub = {}
  BY <1>3, <1>5 DEF FwQueued
<1> QED BY <1>4, <1>5

LEMMA FwHandles ==
    ASSUME FwTypeOK, NEW event, FwNextEvent(event)
    PROVE  /\ Head(fwEvents).dir \in FwDirs
           /\ FwQueued = {FwEvent(event, Head(fwEvents).dir)} \cup FwQueued'
<1>1. fwEvents \in Seq(FwEvents) /\ fwEvents # <<>> /\ Head(fwEvents).event = event /\ fwEvents' = Tail(fwEvents)
  BY DEF FwTypeOK, FwEvents, FwNextEvent
<1>2. Head(fwEvents) \in FwEvents /\ Range(fwEvents) = {Head(fwEvents)} \cup Range(Tail(fwEvents))
  BY <1>1, FwTaken
<1>3. Head(fwEvents) = FwEvent(event, Head(fwEvents).dir) /\ Head(fwEvents).dir \in FwDirs
  BY <1>1, <1>2 DEF FwEvents, FwEvent
<1> QED BY <1>1, <1>2, <1>3 DEF FwQueued

\* Only a change adds to the queue, and only of what it is; only the loop takes
\* from it.
LEMMA FwQueueMoves ==
    ASSUME FwTypeOK, [FwNext]_fwVars
    PROVE  \/ FwQueued' = FwQueued /\ fwThere' = fwThere
           \/ \E d \in FwDirs : FwTouch(d) /\ FwChange(d, "proto", d)
           \/ \E d \in FwDirs : FwAppear(d) /\ FwChange(d, "create", FwParent[d])
           \/ \E d \in FwDirs : FwVanish(d) /\ FwChange(d, "remove", FwParent[d])
           \/ FwProtoEvent /\ FwNextEvent("proto") /\ fwThere' = fwThere
           \/ FwCreateEvent /\ FwNextEvent("create") /\ fwThere' = fwThere
           \/ FwRemoveEvent /\ FwNextEvent("remove") /\ fwThere' = fwThere
<1>1. CASE \E s \in FwSources : FwWatch(s)
  BY <1>1 DEF FwWatch, FwQueued
<1>2. CASE \E s \in FwSources : FwUnwatch(s)
  BY <1>2 DEF FwUnwatch, FwQueued
<1>3. CASE \E s \in FwSources : FwFire(s)
  BY <1>3 DEF FwFire, FwQueued
<1>4. CASE \E d \in FwDirs : FwTouch(d)
  BY <1>4 DEF FwTouch
<1>5. CASE \E d \in FwDirs : FwAppear(d)
  BY <1>5 DEF FwAppear
<1>6. CASE \E d \in FwDirs : FwVanish(d)
  BY <1>6 DEF FwVanish
<1>7. CASE \E d \in FwDirs : FwAdd(d)
  BY <1>7 DEF FwAdd, FwQueued
<1>8. CASE FwAdded \/ FwSchedule
  BY <1>8 DEF FwAdded, FwSchedule, FwQueued
<1>9. CASE FwProtoEvent
  BY <1>9 DEF FwProtoEvent
<1>10. CASE FwCreateEvent
  BY <1>10 DEF FwCreateEvent
<1>11. CASE FwRemoveEvent
  BY <1>11 DEF FwRemoveEvent
<1>12. CASE UNCHANGED fwVars
  BY <1>12 DEF fwVars, FwQueued
<1> QED BY <1>1, <1>2, <1>3, <1>4, <1>5, <1>6, <1>7, <1>8, <1>9, <1>10, <1>11, <1>12 DEF FwNext

LEMMA FwTreeStep == FwTypeOK /\ FwTreeInv /\ [FwNext]_fwVars => FwTreeInv'
<1> SUFFICES ASSUME FwTypeOK, FwTreeInv, [FwNext]_fwVars PROVE FwTreeInv'
  OBVIOUS
<1>1. fwThere' \in FwClosed /\ \A s \in FwSources : FwRoot[s] \in fwThere'
  <2>1. CASE fwThere' = fwThere
    BY <2>1 DEF FwTreeInv
  <2>2. CASE \E d \in FwDirs : FwAppear(d)
    <3> PICK d \in FwDirs : FwAppear(d)
      BY <2>2
    <3>1. fwThere' = fwThere \cup {d} /\ FwParent[d] \in fwThere
      BY DEF FwAppear
    <3> QED BY <3>1 DEF FwTreeInv, FwClosed
  <2>3. CASE \E d \in FwDirs : FwVanish(d)
    <3> PICK d \in FwDirs : FwVanish(d)
      BY <2>3
    <3>1. fwThere' = fwThere \ FwBelow[d] /\ \A s \in FwSources : FwRoot[s] \notin FwBelow[d]
      BY DEF FwVanish
    <3>2. ASSUME NEW e \in fwThere' \cap DOMAIN FwParent PROVE FwParent[e] \in fwThere'
      <4>1. FwParent[e] \in fwThere
        BY <3>1 DEF FwTreeInv, FwClosed
      <4>2. FwParent[e] \notin FwBelow[d]
        BY <3>1, FwAboveParent, FwBelowIs
      <4> QED BY <3>1, <4>1, <4>2
    <3> QED BY <3>1, <3>2 DEF FwTreeInv, FwClosed
  <2> QED BY <2>1, <2>2, <2>3, FwQueueMoves DEF FwTouch
<1>2. ASSUME NEW d \in FwDirs, FwEvent("remove", d) \in FwQueued'
      PROVE  d \in DOMAIN FwParent /\ \A s \in FwSources : d \notin FwAbove[FwRoot[s]]
  <2>1. CASE FwEvent("remove", d) \in FwQueued
    BY <2>1 DEF FwTreeInv
  <2>2. CASE FwEvent("remove", d) \notin FwQueued
    <3>1. \E e \in FwDirs : FwVanish(e) /\ FwEvent("remove", d) = FwEvent("remove", e)
      <4>1. "proto" # "remove" /\ "create" # "remove"
        OBVIOUS
      <4> QED BY <1>2, <2>2, <4>1, FwQueueMoves, FwChangeQueues, FwHandles, FwEventsDiffer
    <3>2. FwVanish(d)
      BY <3>1, FwEventsDiffer
    <3> QED BY <3>2, FwBelowIs, FwConstants DEF FwVanish
  <2> QED BY <2>1, <2>2
<1> QED BY <1>1, <1>2 DEF FwTreeInv

---------------------------------------------------------------------------
(* The lock, and whose a directory is. *)

FwRegion(s) == {d \in FwDirs : FwRoot[s] \in FwAbove[d]}

\* The sources that are watched, or about to be.
FwWatched == fwEntries \cup {s \in {fwOp.source} : fwOp.op = "watch"}

\* The lock's holder adds directories of its own; what is watched is of a source
\* that is, and a change is owed to one that has an entry.
FwLockInv ==
    /\ fwOp.op = "none" => fwOp.left = {}
    /\ fwOp.op = "watch" => fwOp.source \notin fwEntries
    /\ fwOp.op = "subtree" => fwOp.source \in fwEntries
    /\ fwOp.left \subseteq FwRegion(fwOp.source)
    /\ \A d \in DOMAIN fwMap : fwMap[d] \in FwWatched /\ d \in FwRegion(fwMap[d])
    /\ fwOwed \subseteq fwEntries

LEMMA FwOwns == ASSUME NEW d \in FwDirs, NEW s PROVE s \in FwOwners(d) <=> s \in fwEntries /\ d \in FwRegion(s)
BY DEF FwOwners, FwRegion

LEMMA FwRegionIs ==
    ASSUME NEW s \in FwSources
    PROVE  /\ FwRoot[s] \in FwDirs /\ FwRoot[s] \in FwRegion(s)
           /\ \A d \in FwRegion(s) : FwBelow[d] \subseteq FwRegion(s)
           /\ \A d \in FwRegion(s) : d \in FwDirs
<1>1. ASSUME NEW d \in FwRegion(s) PROVE FwBelow[d] \subseteq FwRegion(s)
  BY FwBelowIs, FwAboveThrough DEF FwRegion
<1> QED BY <1>1, FwConstants, FwAboveIs DEF FwRegion

\* A request forgets what the source had, whether it had an entry or not.
LEMMA FwDrops ==
    ASSUME FwTypeOK, FwLockInv, NEW s \in FwSources, FwWatch(s) \/ FwUnwatch(s)
    PROVE  /\ fwOp.op = "none" /\ fwOp.left = {} /\ fwEntries' = fwEntries \ {s}
           /\ fwTimer' = fwTimer \ {s} /\ fwOwed' = fwOwed \ {s}
           /\ DOMAIN fwMap' = {d \in DOMAIN fwMap : fwMap[d] # s}
           /\ \A d \in DOMAIN fwMap' : fwMap'[d] = fwMap[d]
           /\ fwSub' = {d \in fwSub : fwMap[d] # s}
           /\ UNCHANGED <<fwThere, fwEvents, fwDue, fwStolen>>
<1>1. fwOp.op = "none" /\ fwOp.left = {} /\ fwEntries' = fwEntries \ {s} /\ UNCHANGED <<fwThere, fwEvents, fwDue, fwStolen>>
  BY DEF FwWatch, FwUnwatch, FwLockInv
<1>2. CASE FwForget(s)
  BY <1>1, <1>2, FwForgets
<1>3. CASE s \notin fwEntries /\ UNCHANGED <<fwTimer, fwOwed, fwSub, fwMap>>
  <2>1. \A d \in DOMAIN fwMap : fwMap[d] # s
    BY <1>1, <1>3 DEF FwLockInv, FwWatched
  <2>2. fwSub \subseteq DOMAIN fwMap /\ fwTimer \subseteq fwEntries /\ fwOwed \subseteq fwEntries
    BY DEF FwTypeOK, FwLockInv
  <2> QED BY <1>1, <1>3, <2>1, <2>2
<1> QED BY <1>2, <1>3 DEF FwWatch, FwUnwatch

LEMMA FwWatches ==
    ASSUME FwTypeOK, NEW s \in FwSources, FwWatch(s)
    PROVE  /\ fwOp' = [op |-> "watch", source |-> s, left |-> FwRegion(s) \cap fwThere]
           /\ fwMissed' = fwMissed \ {s}
<1>1. fwOp' = [FwNoOp EXCEPT !.op = "watch", !.source = s, !.left = FwCollected(FwRoot[s])] /\ fwMissed' = fwMissed \ {s}
  BY DEF FwWatch
<1>2. FwCollected(FwRoot[s]) = FwRegion(s) \cap fwThere
  BY FwConstants, FwBelowIs DEF FwCollected, FwRegion
<1> QED BY <1>1, <1>2, FwConstants

LEMMA FwAdds ==
    ASSUME FwTypeOK, NEW d \in FwDirs, FwAdd(d)
    PROVE  /\ d \in fwOp.left /\ fwSub' = fwSub \cup ({d} \cap fwThere)
           /\ DOMAIN fwMap' = DOMAIN fwMap \cup {d} /\ fwMap'[d] = fwOp.source
           /\ \A e \in DOMAIN fwMap : e # d => fwMap'[e] = fwMap[e]
           /\ fwOp'.op = fwOp.op /\ fwOp'.source = fwOp.source /\ fwOp'.left = fwOp.left \ {d}
           /\ UNCHANGED <<fwThere, fwEvents, fwEntries, fwTimer, fwDue, fwOwed, fwMissed>>
BY DEF FwAdd, FwTypeOK

LEMMA FwRemoves ==
    ASSUME FwTypeOK, FwTreeInv, FwRemoveEvent
    PROVE  LET d == Head(fwEvents).dir IN
           /\ fwOp.op = "none" /\ d \in FwDirs /\ d \in DOMAIN FwParent
           /\ FwQueued = {FwEvent("remove", d)} \cup FwQueued'
           /\ \A s \in FwSources : d \notin FwAbove[FwRoot[s]]
           /\ \/ d \notin DOMAIN fwMap /\ UNCHANGED <<fwSub, fwMap, fwDue, fwMissed>>
              \/ /\ d \in DOMAIN fwMap /\ DOMAIN fwMap' = DOMAIN fwMap \ FwBelow[d]
                 /\ \A e \in DOMAIN fwMap' : fwMap'[e] = fwMap[e]
                 /\ fwSub' = fwSub \ (FwBelow[d] \cap DOMAIN fwMap) /\ fwDue' = {FwParent[d]}
                 /\ fwMissed' = IF d \in fwThere /\ FwEvent("create", d) \notin FwQueued
                                THEN fwMissed \cup FwOwners(d) ELSE fwMissed
           /\ UNCHANGED <<fwThere, fwEntries, fwTimer, fwOp, fwOwed, fwStolen>>
<1> DEFINE d == Head(fwEvents).dir
<1>1. d \in FwDirs /\ FwQueued = {FwEvent("remove", d)} \cup FwQueued' /\ fwOp.op = "none"
  BY FwHandles DEF FwRemoveEvent, FwNextEvent
<1>2. d \in DOMAIN FwParent /\ \A s \in FwSources : d \notin FwAbove[FwRoot[s]]
  BY <1>1 DEF FwTreeInv
<1>3. CASE d \notin DOMAIN fwMap
  <2>1. UNCHANGED <<fwSub, fwMap, fwDue, fwMissed, fwThere, fwEntries, fwTimer, fwOp, fwOwed, fwStolen>>
    BY <1>3 DEF FwRemoveEvent
  <2> QED BY <1>1, <1>2, <1>3, <2>1
<1>4. CASE d \in DOMAIN fwMap
  <2>1. /\ fwSub' = fwSub \ (FwBelow[d] \cap DOMAIN fwMap) /\ fwMap' = FwWithout(FwBelow[d])
        /\ fwDue' = {FwParent[d]}
        /\ fwMissed' = IF d \in fwThere /\ FwEvent("create", d) \notin FwQueued
                       THEN fwMissed \cup FwOwners(d) ELSE fwMissed
        /\ UNCHANGED <<fwThere, fwEntries, fwTimer, fwOp, fwOwed, fwStolen>>
    BY <1>4 DEF FwRemoveEvent, FwEvent, FwQueued
  <2>2. DOMAIN fwMap' = DOMAIN fwMap \ FwBelow[d] /\ \A e \in DOMAIN fwMap' : fwMap'[e] = fwMap[e]
    BY <2>1 DEF FwWithout, Restrict
  <2> QED BY <1>1, <1>2, <1>4, <2>1, <2>2
<1> QED BY <1>3, <1>4

LEMMA FwCreates ==
    ASSUME FwTypeOK, FwCreateEvent
    PROVE  LET d == Head(fwEvents).dir IN
           /\ fwOp.op = "none" /\ d \in FwDirs /\ FwQueued = {FwEvent("create", d)} \cup FwQueued'
           /\ \/ d \notin fwThere /\ UNCHANGED <<fwOp, fwDue>>
              \/ /\ d \in fwThere /\ fwDue' = {d}
                 /\ \/ FwOwners(d) = {} /\ UNCHANGED fwOp
                    \/ \E s \in FwOwners(d) :
                          fwOp' = [op |-> "subtree", source |-> s, left |-> FwBelow[d] \cap fwThere]
           /\ UNCHANGED <<fwThere, fwSub, fwEntries, fwTimer, fwMap, fwOwed, fwStolen, fwMissed>>
BY FwHandles DEF FwCreateEvent, FwNextEvent, FwCollected, fwHistory

\* What the other steps leave alone.
LEMMA FwRequestsOnly ==
    ASSUME FwTypeOK, [FwNext]_fwVars
    PROVE  \/ \E s \in FwSources : FwWatch(s) \/ FwUnwatch(s)
           \/ \E d \in FwDirs : FwAdd(d)
           \/ FwAdded
           \/ FwCreateEvent
           \/ FwRemoveEvent
           \/ /\ UNCHANGED <<fwOp, fwEntries, fwMap, fwStolen>>
              /\ \/ fwOwed' \subseteq fwOwed
                 \/ \E d \in FwDirs : fwOwed' = fwOwed \cup FwOwners(d)
<1>1. CASE \E s \in FwSources : FwFire(s)
  BY <1>1 DEF FwFire
<1>2. CASE \E d \in FwDirs : FwTouch(d)
  BY <1>2 DEF FwTouch, FwChange
<1>3. CASE \E d \in FwDirs : FwAppear(d)
  BY <1>3 DEF FwAppear, FwChange
<1>4. CASE \E d \in FwDirs : FwVanish(d)
  BY <1>4 DEF FwVanish, FwChange
<1>5. CASE FwSchedule
  BY <1>5 DEF FwSchedule, fwHistory
<1>6. CASE FwProtoEvent
  BY <1>6 DEF FwProtoEvent, fwHistory
<1>7. CASE UNCHANGED fwVars
  BY <1>7 DEF fwVars, fwHistory
<1> QED BY <1>1, <1>2, <1>3, <1>4, <1>5, <1>6, <1>7 DEF FwNext

LEMMA FwLockStep == FwTypeOK /\ FwTreeInv /\ FwLockInv /\ [FwNext]_fwVars => FwLockInv'
<1> SUFFICES ASSUME FwTypeOK, FwTreeInv, FwLockInv, [FwNext]_fwVars PROVE FwLockInv'
  OBVIOUS
<1>a. \A d \in DOMAIN fwMap : fwMap[d] \in FwSources /\ d \in FwDirs
  BY DEF FwTypeOK
<1>b. \A d \in DOMAIN fwMap : fwMap[d] \in FwWatched /\ d \in FwRegion(fwMap[d])
  BY DEF FwLockInv
<1>1. CASE \E s \in FwSources : FwWatch(s)
  <2> PICK s \in FwSources : FwWatch(s)
    BY <1>1
  <2>1. /\ fwOp.op = "none" /\ fwEntries' = fwEntries \ {s} /\ fwOwed' = fwOwed \ {s}
        /\ fwOp'.op = "watch" /\ fwOp'.source = s /\ fwOp'.left \subseteq FwRegion(s)
    <3>1. fwOp.op = "none" /\ fwEntries' = fwEntries \ {s} /\ fwOwed' = fwOwed \ {s}
      BY FwDrops
    <3>2. fwOp' = [op |-> "watch", source |-> s, left |-> FwRegion(s) \cap fwThere]
      BY FwWatches
    <3> QED BY <3>1, <3>2
  <2>2. ASSUME NEW d \in DOMAIN fwMap' PROVE fwMap'[d] \in FwWatched' /\ d \in FwRegion(fwMap'[d])
    <3>1. d \in DOMAIN fwMap /\ fwMap'[d] = fwMap[d] /\ fwMap[d] # s
      BY FwDrops
    <3> QED BY <1>b, <2>1, <3>1 DEF FwWatched
  <2> QED BY <2>1, <2>2 DEF FwLockInv
<1>2. CASE \E s \in FwSources : FwUnwatch(s)
  <2> PICK s \in FwSources : FwUnwatch(s)
    BY <1>2
  <2>1. /\ fwOp.op = "none" /\ fwEntries' = fwEntries \ {s} /\ fwOwed' = fwOwed \ {s} /\ fwOp' = fwOp
    BY FwDrops DEF FwUnwatch
  <2>2. ASSUME NEW d \in DOMAIN fwMap' PROVE fwMap'[d] \in FwWatched' /\ d \in FwRegion(fwMap'[d])
    <3>1. d \in DOMAIN fwMap /\ fwMap'[d] = fwMap[d] /\ fwMap[d] # s
      BY FwDrops
    <3> QED BY <1>b, <2>1, <3>1 DEF FwWatched
  <2> QED BY <2>1, <2>2 DEF FwLockInv
<1>3. CASE \E d \in FwDirs : FwAdd(d)
  <2> PICK d \in FwDirs : FwAdd(d)
    BY <1>3
  <2>1. FwWatched' = FwWatched /\ UNCHANGED <<fwEntries, fwOwed>>
    BY FwAdds DEF FwWatched
  <2>2. fwOp.op \in {"none", "watch", "subtree"} /\ fwOp.op # "none"
    BY FwAdds DEF FwLockInv, FwTypeOK
  <2>3. fwOp.source \in FwWatched
    BY <2>2 DEF FwLockInv, FwWatched
  <2>4. ASSUME NEW e \in DOMAIN fwMap' PROVE fwMap'[e] \in FwWatched' /\ e \in FwRegion(fwMap'[e])
    <3>1. CASE e = d
      BY <3>1, <2>1, <2>3, FwAdds DEF FwLockInv
    <3>2. CASE e # d
      BY <3>2, <1>b, <2>1, FwAdds
    <3> QED BY <3>1, <3>2
  <2> QED BY <2>1, <2>4, FwAdds DEF FwLockInv
<1>4. CASE FwAdded
  <2>1. /\ fwOp' = FwNoOp /\ UNCHANGED <<fwMap, fwOwed>> /\ fwOp.op # "none"
        /\ fwEntries' = IF fwOp.op = "watch" THEN fwEntries \cup {fwOp.source} ELSE fwEntries
    BY <1>4 DEF FwAdded, fwHistory
  <2>2. fwOp'.op = "none" /\ fwOp'.left = {}
    BY <2>1, FwConstants
  <2>3. FwWatched' = FwWatched
    BY <2>1, <2>2 DEF FwWatched
  <2>4. fwEntries \subseteq fwEntries'
    BY <2>1
  <2> QED BY <2>1, <2>2, <2>3, <2>4 DEF FwLockInv
<1>5. CASE FwCreateEvent
  <2> DEFINE d == Head(fwEvents).dir
  <2>1. fwOp.op = "none" /\ d \in FwDirs /\ UNCHANGED <<fwEntries, fwMap, fwOwed>>
    BY <1>5, FwCreates
  <2>2. CASE UNCHANGED fwOp
    BY <2>1, <2>2 DEF FwLockInv, FwWatched
  <2>3. CASE \E s \in FwOwners(d) : fwOp' = [op |-> "subtree", source |-> s, left |-> FwBelow[d] \cap fwThere]
    <3> PICK s \in FwOwners(d) : fwOp' = [op |-> "subtree", source |-> s, left |-> FwBelow[d] \cap fwThere]
      BY <2>3
    <3>1. s \in fwEntries /\ s \in FwSources /\ d \in FwRegion(s)
      BY <2>1, FwOwns, FwOwnersIs
    <3>2. FwBelow[d] \cap fwThere \subseteq FwRegion(s)
      BY <3>1, FwRegionIs
    <3>3. FwWatched' = FwWatched
      BY <2>1 DEF FwWatched
    <3> QED BY <2>1, <3>1, <3>2, <3>3 DEF FwLockInv
  <2> QED BY <1>5, <2>2, <2>3, FwCreates
<1>6. CASE FwRemoveEvent
  <2>1. UNCHANGED <<fwEntries, fwOp, fwOwed>> /\ DOMAIN fwMap' \subseteq DOMAIN fwMap
    BY <1>6, FwRemoves
  <2>2. \A e \in DOMAIN fwMap' : fwMap'[e] = fwMap[e]
    BY <1>6, FwRemoves
  <2>3. FwWatched' = FwWatched
    BY <2>1 DEF FwWatched
  <2> QED BY <2>1, <2>2, <2>3 DEF FwLockInv
<1>7. CASE /\ UNCHANGED <<fwOp, fwEntries, fwMap, fwStolen>>
           /\ \/ fwOwed' \subseteq fwOwed
              \/ \E d \in FwDirs : fwOwed' = fwOwed \cup FwOwners(d)
  <2>1. fwOwed' \subseteq fwEntries
    BY <1>7, FwOwnersIs DEF FwLockInv
  <2>2. FwWatched' = FwWatched
    BY <1>7 DEF FwWatched
  <2> QED BY <1>7, <2>1, <2>2 DEF FwLockInv
<1> QED BY <1>1, <1>2, <1>3, <1>4, <1>5, <1>6, <1>7, FwRequestsOnly

---------------------------------------------------------------------------
(* The sources that share no directory. *)

\* Those that are found to share one, and are counted as sharing once it is added.
FwToSteal ==
    UNION {FwOwners(d) \cup {fwOp.source} : d \in {e \in fwOp.left : ~(FwOwners(e) \subseteq {fwOp.source})}}
FwOwn == FwWatched \ (fwStolen \cup FwToSteal)

\* The root of one is neither above nor below that of another source.
FwApart ==
    \A s \in FwOwn : \A t \in FwWatched \ {s} :
        FwRoot[t] \notin FwAbove[FwRoot[s]] /\ FwRoot[s] \notin FwAbove[FwRoot[t]]

LEMMA FwWatchedAre == FwTypeOK => FwWatched \subseteq FwSources /\ fwEntries \subseteq FwWatched
BY DEF FwTypeOK, FwWatched

LEMMA FwNoneToSteal == fwOp.left = {} => FwToSteal = {}
BY DEF FwToSteal

\* A source that shares no directory has its own to itself.
LEMMA FwAlone ==
    ASSUME FwTypeOK, FwLockInv, FwApart, NEW s \in FwOwn, NEW d \in FwRegion(s)
    PROVE  /\ FwOwners(d) \subseteq {s} /\ (s \in fwEntries => FwOwners(d) = {s})
           /\ d \in DOMAIN fwMap => fwMap[d] = s
<1>1. s \in FwSources /\ s \in FwWatched /\ d \in FwDirs
  BY FwWatchedAre DEF FwOwn, FwRegion
<1>2. ASSUME NEW t \in FwWatched, d \in FwRegion(t) PROVE t = s
  <2>1. FwRoot[t] \in FwAbove[d] /\ FwRoot[s] \in FwAbove[d]
    BY <1>2 DEF FwRegion
  <2>2. FwRoot[t] \in FwAbove[FwRoot[s]] \/ FwRoot[s] \in FwAbove[FwRoot[t]]
    BY <1>1, <2>1, FwAboveChain
  <2> QED BY <2>2 DEF FwApart
<1>3. \A t : t \in FwOwners(d) <=> t \in fwEntries /\ d \in FwRegion(t)
  BY <1>1, FwOwns
<1>4. fwEntries \subseteq FwWatched
  BY FwWatchedAre
<1>5. d \in DOMAIN fwMap => fwMap[d] \in FwWatched /\ d \in FwRegion(fwMap[d])
  BY DEF FwLockInv
<1> QED BY <1>2, <1>3, <1>4, <1>5

\* Adding a directory makes sharing of what was about to be.
LEMMA FwSteals ==
    ASSUME FwTypeOK, NEW d \in FwDirs, FwAdd(d)
    PROVE  /\ fwStolen \cup FwToSteal \subseteq (fwStolen \cup FwToSteal)' /\ FwWatched' = FwWatched
           /\ FwOwn' \subseteq FwOwn
<1>1. /\ fwOp'.op = fwOp.op /\ fwOp'.source = fwOp.source /\ fwOp'.left = fwOp.left \ {d} /\ UNCHANGED fwEntries
  BY FwAdds
<1>2. fwStolen' = fwStolen \cup {s \in FwSources : s \in FwOwners(d) \ {fwOp.source}}
                           \cup (IF FwOwners(d) \subseteq {fwOp.source} THEN {} ELSE {fwOp.source})
  BY DEF FwAdd
<1>3. \A e : FwOwners(e)' = FwOwners(e)
  BY <1>1 DEF FwOwners
<1>4. ASSUME NEW x \in FwToSteal PROVE x \in fwStolen' \cup FwToSteal'
  <2>1. PICK e \in fwOp.left : ~(FwOwners(e) \subseteq {fwOp.source}) /\ x \in FwOwners(e) \cup {fwOp.source}
    BY DEF FwToSteal
  <2>2. CASE e = d
    <3>1. x \in FwOwners(d) => x \in FwSources
      BY FwOwnersIs
    <3> QED BY <1>2, <2>1, <2>2, <3>1
  <2>3. CASE e # d
    <3>1. e \in fwOp'.left /\ ~(FwOwners(e)' \subseteq {fwOp'.source}) /\ x \in FwOwners(e)' \cup {fwOp'.source}
      BY <1>1, <1>3, <2>1, <2>3
    <3> QED BY <3>1 DEF FwToSteal
  <2> QED BY <2>2, <2>3
<1>5. FwWatched' = FwWatched
  BY <1>1 DEF FwWatched
<1> QED BY <1>2, <1>4, <1>5 DEF FwOwn

\* A source that comes to be watched shares directories with all that its root is
\* above or below of, and only a request makes one be watched.
LEMMA FwShares ==
    ASSUME FwTypeOK, FwTreeInv, FwLockInv, NEW s \in FwSources, FwWatch(s), NEW t \in fwEntries', t # s,
           FwRoot[t] \in FwAbove[FwRoot[s]] \/ FwRoot[s] \in FwAbove[FwRoot[t]]
    PROVE  {s, t} \subseteq FwToSteal'
<1>1. fwOp' = [op |-> "watch", source |-> s, left |-> FwRegion(s) \cap fwThere]
  BY FwWatches
<1>2. t \in FwSources
  BY FwDrops DEF FwTypeOK
<1>3. \A d : FwOwners(d)' = {x \in fwEntries' : FwRoot[x] \in FwAbove[d]}
  BY DEF FwOwners
<1>4. \E d \in FwRegion(s) \cap fwThere : t \in FwOwners(d)'
  <2>1. FwRoot[s] \in fwThere /\ FwRoot[t] \in fwThere /\ FwRoot[s] \in FwDirs /\ FwRoot[t] \in FwDirs
    BY <1>2, FwConstants DEF FwTreeInv
  <2>2. CASE FwRoot[t] \in FwAbove[FwRoot[s]]
    <3>1. FwRoot[s] \in FwRegion(s) /\ t \in FwOwners(FwRoot[s])'
      BY <1>3, <2>2, FwRegionIs
    <3> QED BY <2>1, <3>1
  <2>3. CASE FwRoot[s] \in FwAbove[FwRoot[t]]
    <3>1. FwRoot[t] \in FwRegion(s)
      BY <2>1, <2>3 DEF FwRegion
    <3>2. t \in FwOwners(FwRoot[t])'
      BY <1>3, <2>1, FwAboveIs
    <3> QED BY <2>1, <3>1, <3>2
  <2> QED BY <2>2, <2>3
<1>5. PICK d \in FwRegion(s) \cap fwThere : t \in FwOwners(d)'
  BY <1>4
<1>6. d \in fwOp'.left /\ fwOp'.source = s /\ ~(FwOwners(d)' \subseteq {fwOp'.source})
  BY <1>1, <1>5
<1> QED BY <1>5, <1>6 DEF FwToSteal

\* A source that shares no directory did so before, unless it is just asked for.
LEMMA FwOwnMoves ==
    ASSUME FwTypeOK, FwLockInv, [FwNext]_fwVars
    PROVE  \/ FwOwn' \subseteq FwOwn /\ FwWatched' \subseteq FwWatched
           \/ \E s \in FwSources :
                 /\ FwWatch(s) /\ FwOwn' \subseteq FwOwn \cup {s}
                 /\ FwWatched' = fwEntries' \cup {s} /\ fwEntries' \subseteq FwWatched
<1>1. CASE \E s \in FwSources : FwWatch(s)
  <2> PICK s \in FwSources : FwWatch(s)
    BY <1>1
  <2>1. fwOp.op = "none" /\ fwOp.left = {} /\ fwEntries' = fwEntries \ {s} /\ fwStolen' = fwStolen
    BY FwDrops
  <2>2. fwOp'.op = "watch" /\ fwOp'.source = s
    BY FwWatches
  <2>3. FwWatched' = fwEntries' \cup {s} /\ fwEntries' \subseteq FwWatched
    BY <2>1, <2>2 DEF FwWatched
  <2>4. FwOwn' \subseteq FwOwn \cup {s}
    BY <2>1, <2>3, FwNoneToSteal DEF FwOwn
  <2> QED BY <2>3, <2>4
<1>2. CASE \E s \in FwSources : FwUnwatch(s)
  <2> PICK s \in FwSources : FwUnwatch(s)
    BY <1>2
  <2>1. fwOp.op = "none" /\ fwOp.left = {} /\ fwEntries' = fwEntries \ {s} /\ fwStolen' = fwStolen /\ fwOp' = fwOp
    BY FwDrops DEF FwUnwatch
  <2>2. FwWatched' \subseteq FwWatched
    BY <2>1 DEF FwWatched
  <2> QED BY <2>1, <2>2, FwNoneToSteal DEF FwOwn
<1>3. CASE \E d \in FwDirs : FwAdd(d)
  BY <1>3, FwSteals
<1>4. CASE FwAdded
  <2>1. /\ fwOp.left = {} /\ fwOp'.op = "none" /\ UNCHANGED fwStolen
        /\ fwEntries' = IF fwOp.op = "watch" THEN fwEntries \cup {fwOp.source} ELSE fwEntries
    BY <1>4, FwConstants DEF FwAdded, fwHistory
  <2>2. FwWatched' = FwWatched
    BY <2>1 DEF FwWatched
  <2> QED BY <2>1, <2>2, FwNoneToSteal DEF FwOwn
<1>5. CASE FwCreateEvent
  <2>1. fwOp.op = "none" /\ fwOp.left = {} /\ UNCHANGED <<fwEntries, fwStolen>> /\ fwOp'.op # "watch"
    <3>1. UNCHANGED fwOp \/ fwOp'.op = "subtree"
      BY <1>5, FwCreates
    <3> QED BY <1>5, <3>1, FwCreates DEF FwLockInv
  <2>2. FwWatched' = FwWatched
    BY <2>1 DEF FwWatched
  <2> QED BY <2>1, <2>2, FwNoneToSteal DEF FwOwn
<1>6. CASE FwRemoveEvent \/ UNCHANGED <<fwOp, fwEntries, fwStolen>>
  <2>1. UNCHANGED <<fwOp, fwEntries, fwStolen>>
    BY <1>6 DEF FwRemoveEvent
  <2>2. FwToSteal' = FwToSteal /\ FwWatched' = FwWatched
    BY <2>1 DEF FwToSteal, FwWatched, FwOwners
  <2> QED BY <2>1, <2>2 DEF FwOwn
<1> QED BY <1>1, <1>2, <1>3, <1>4, <1>5, <1>6, FwRequestsOnly

LEMMA FwApartStep == FwTypeOK /\ FwTreeInv /\ FwLockInv /\ FwApart /\ [FwNext]_fwVars => FwApart'
<1> SUFFICES ASSUME FwTypeOK, FwTreeInv, FwLockInv, FwApart, [FwNext]_fwVars PROVE FwApart'
  OBVIOUS
<1>1. CASE FwOwn' \subseteq FwOwn /\ FwWatched' \subseteq FwWatched
  BY <1>1 DEF FwApart
<1>2. ASSUME NEW s \in FwSources, FwWatch(s), FwOwn' \subseteq FwOwn \cup {s},
             FwWatched' = fwEntries' \cup {s}, fwEntries' \subseteq FwWatched,
             NEW x \in FwOwn', NEW t \in FwWatched' \ {x}
      PROVE  FwRoot[t] \notin FwAbove[FwRoot[x]] /\ FwRoot[x] \notin FwAbove[FwRoot[t]]
  <2>1. x \in FwWatched' /\ x \notin FwToSteal'
    BY DEF FwOwn
  <2>2. CASE x # s /\ t # s
    BY <1>2, <2>2 DEF FwApart
  <2>3. CASE x = s
    <3>1. t \in fwEntries' /\ t # s
      BY <1>2, <2>3
    <3> QED BY <1>2, <2>1, <2>3, <3>1, FwShares
  <2>4. CASE t = s /\ x # s
    <3>1. x \in fwEntries' /\ x # s
      BY <1>2, <2>1, <2>4
    <3> QED BY <1>2, <2>1, <2>4, <3>1, FwShares
  <2> QED BY <2>2, <2>3, <2>4
<1> QED BY <1>1, <1>2, FwOwnMoves DEF FwApart

---------------------------------------------------------------------------
(* A directory of a source is watched, or will be. *)

FwSeen(s, d) ==
    \/ d \in fwSub
    \/ fwOp.source = s /\ d \in fwOp.left
    \/ \E e \in FwAbove[d] \cap FwRegion(s) : FwEvent("create", e) \in FwQueued

FwCovered == \A s \in FwOwn \ fwMissed : \A d \in fwThere \cap FwRegion(s) : FwSeen(s, d)

\* What is there is below directories that are there.
LEMMA FwThereAbove == ASSUME FwTypeOK, FwTreeInv, NEW d \in fwThere PROVE d \in FwDirs /\ FwAbove[d] \subseteq fwThere
BY FwAboveIs DEF FwTypeOK, FwTreeInv

\* A change of the files leaves the requests and the loop as they are.
LEMMA FwChangeLeaves ==
    ASSUME NEW d, NEW event, NEW from, FwChange(d, event, from)
    PROVE  /\ UNCHANGED <<fwEntries, fwTimer, fwMap, fwOp, fwDue, fwStolen, FwOwn>>
           /\ fwOwed' = fwOwed \cup FwOwners(d)
<1>1. UNCHANGED <<fwEntries, fwTimer, fwMap, fwOp, fwDue, fwStolen>> /\ fwOwed' = fwOwed \cup FwOwners(d)
  BY DEF FwChange
<1>2. FwToSteal' = FwToSteal /\ FwWatched' = FwWatched
  BY <1>1 DEF FwToSteal, FwWatched, FwOwners
<1> QED BY <1>1, <1>2 DEF FwOwn

LEMMA FwCoveredStep ==
    FwTypeOK /\ FwTreeInv /\ FwLockInv /\ FwApart /\ FwCovered /\ [FwNext]_fwVars => FwCovered'
<1> SUFFICES ASSUME FwTypeOK, FwTreeInv, FwLockInv, FwApart, FwCovered, [FwNext]_fwVars,
                    NEW x \in FwOwn' \ fwMissed', NEW d \in fwThere' \cap FwRegion(x)
             PROVE  FwSeen(x, d)'
  BY DEF FwCovered
<1> USE DEF FwSeen
<1>a. ASSUME x \in FwOwn, x \notin fwMissed, d \in fwThere PROVE FwSeen(x, d)
  BY <1>a DEF FwCovered
<1>b. fwSub \subseteq DOMAIN fwMap /\ d \in FwDirs
  BY DEF FwTypeOK, FwRegion
<1>1. CASE \E s \in FwSources : FwWatch(s) \/ FwUnwatch(s)
  <2> PICK s \in FwSources : FwWatch(s) \/ FwUnwatch(s)
    BY <1>1
  <2>1. CASE x = s /\ FwWatch(s)
    <3>1. fwOp' = [op |-> "watch", source |-> s, left |-> FwRegion(s) \cap fwThere] /\ fwThere' = fwThere
      BY <2>1, FwWatches, FwDrops
    <3>2. fwOp'.source = s /\ d \in fwOp'.left
      BY <2>1, <3>1
    <3> QED BY <2>1, <3>2
  <2>2. CASE x # s \/ FwUnwatch(s)
    <3>1. fwOp.left = {} /\ UNCHANGED <<fwThere, FwQueued>> /\ fwSub' = {e \in fwSub : fwMap[e] # s}
      BY FwDrops DEF FwQueued
    <3>2. x # s
      <4>1. FwUnwatch(s) => s \notin FwWatched'
        BY FwDrops DEF FwWatched, FwUnwatch
      <4> QED BY <2>2, <4>1 DEF FwOwn
    <3>3. x \in FwOwn /\ x \notin fwMissed
      <4>1. fwMissed \subseteq fwMissed' \cup {s}
        BY FwWatches DEF FwUnwatch
      <4>2. fwOp.op = "none" /\ fwEntries' = fwEntries \ {s} /\ fwStolen' = fwStolen
        BY FwDrops
      <4>3. fwOp'.op = "none" \/ fwOp'.source = s
        BY <4>2, FwWatches DEF FwUnwatch
      <4>4. x \in FwWatched
        BY <3>2, <4>2, <4>3 DEF FwOwn, FwWatched
      <4> QED BY <3>1, <3>2, <4>1, <4>2, <4>4, FwNoneToSteal DEF FwOwn
    <3>4. FwSeen(x, d)
      BY <1>a, <3>1, <3>3
    <3>5. CASE d \in fwSub
      BY <1>b, <3>1, <3>2, <3>3, <3>5, FwAlone
    <3> QED BY <3>1, <3>4, <3>5
  <2> QED BY <2>1, <2>2
<1>2. CASE \E e \in FwDirs : FwAdd(e)
  <2> PICK e \in FwDirs : FwAdd(e)
    BY <1>2
  <2>1. /\ fwSub' = fwSub \cup ({e} \cap fwThere) /\ fwOp'.source = fwOp.source /\ fwOp'.left = fwOp.left \ {e}
        /\ UNCHANGED <<fwThere, fwMissed, FwQueued>>
    BY FwAdds DEF FwQueued
  <2>2. FwSeen(x, d)
    BY <1>a, <2>1, FwSteals
  <2> QED BY <2>1, <2>2
<1>3. CASE FwAdded
  <2>1. fwOp.left = {} /\ UNCHANGED <<fwThere, fwSub, fwMissed, FwQueued>>
    BY <1>3 DEF FwAdded, fwHistory, FwQueued
  <2>2. x \in FwOwn
    <3>1. \A s \in FwSources : FwWatch(s) => fwOp.op = "none"
      BY DEF FwWatch
    <3>2. fwOp.op # "none"
      BY <1>3 DEF FwAdded
    <3> QED BY <3>1, <3>2, FwOwnMoves
  <2> QED BY <1>a, <2>1, <2>2
<1>4. CASE FwCreateEvent
  <2> DEFINE e == Head(fwEvents).dir
  <2>1. /\ fwOp.op = "none" /\ fwOp.left = {} /\ e \in FwDirs /\ FwQueued = {FwEvent("create", e)} \cup FwQueued'
        /\ UNCHANGED <<fwThere, fwSub, fwEntries, fwStolen, fwMissed>>
    BY <1>4, FwCreates DEF FwLockInv
  <2>2. fwOp'.op # "watch"
    <3>1. UNCHANGED fwOp \/ fwOp'.op = "subtree"
      BY <1>4, FwCreates
    <3> QED BY <2>1, <3>1
  <2>3. x \in FwOwn /\ x \in fwEntries
    BY <2>1, <2>2, FwNoneToSteal DEF FwOwn, FwWatched
  <2>4. FwSeen(x, d)
    BY <1>a, <2>1, <2>3
  <2>5. CASE e \in FwAbove[d] \cap FwRegion(x)
    <3>1. e \in fwThere /\ d \in FwBelow[e]
      BY <1>b, <2>1, <2>5, FwThereAbove, FwBelowIs
    <3>2. FwOwners(e) = {x}
      BY <2>3, <2>5, FwAlone
    <3>3. fwOp'.source = x /\ fwOp'.left = FwBelow[e] \cap fwThere
      BY <1>4, <3>1, <3>2, FwCreates
    <3> QED BY <2>1, <3>1, <3>3
  <2>6. CASE e \notin FwAbove[d] \cap FwRegion(x)
    <3>1. \A a \in FwAbove[d] \cap FwRegion(x) : FwEvent("create", a) \in FwQueued => FwEvent("create", a) \in FwQueued'
      BY <2>1, <2>6, FwEventsDiffer
    <3> QED BY <2>1, <2>4, <3>1
  <2> QED BY <2>5, <2>6
<1>5. CASE FwRemoveEvent
  <2> DEFINE e == Head(fwEvents).dir
  <2>1. /\ fwOp.op = "none" /\ fwOp.left = {} /\ e \in FwDirs /\ FwQueued = {FwEvent("remove", e)} \cup FwQueued'
        /\ UNCHANGED <<fwThere, fwEntries, fwOp, fwStolen>> /\ \A s \in FwSources : e \notin FwAbove[FwRoot[s]]
    BY <1>5, FwRemoves DEF FwLockInv
  <2>2. fwMissed \subseteq fwMissed'
    BY <1>5, FwRemoves
  <2>3. x \in FwOwn /\ x \in fwEntries /\ x \in FwSources
    BY <2>1, FwNoneToSteal, FwWatchedAre DEF FwOwn, FwWatched
  <2>4. FwSeen(x, d)
    BY <1>a, <2>1, <2>2, <2>3
  <2>5. \A a : FwEvent("create", a) \in FwQueued => FwEvent("create", a) \in FwQueued'
    <3>1. "create" # "remove"
      OBVIOUS
    <3> QED BY <2>1, <3>1, FwEventsDiffer
  <2>6. CASE d \in fwSub /\ d \notin fwSub'
    <3>1. e \in DOMAIN fwMap /\ d \in FwBelow[e]
      BY <1>5, <2>6, FwRemoves
    <3>2. e \in FwAbove[d] /\ e \in FwRegion(x)
      <4>1. e \in FwAbove[d] /\ FwRoot[x] \in FwAbove[d]
        BY <2>1, <3>1, FwBelowIs DEF FwRegion
      <4> QED BY <1>b, <2>1, <2>3, <4>1, FwAboveChain DEF FwRegion
    <3>3. e \in fwThere /\ x \in FwOwners(e)
      BY <2>1, <2>3, <3>2, FwThereAbove, FwOwns
    <3>4. FwEvent("create", e) \in FwQueued
      BY <1>5, <2>3, <3>1, <3>3, FwRemoves
    <3> QED BY <2>5, <3>2, <3>4
  <2> QED BY <2>1, <2>4, <2>5, <2>6
<1>6. CASE FwSchedule \/ FwProtoEvent \/ (\E s \in FwSources : FwFire(s)) \/ UNCHANGED fwVars
  <2>1. UNCHANGED <<fwThere, fwSub, fwEntries, fwOp, fwStolen, fwMissed>>
    BY <1>6 DEF FwSchedule, FwProtoEvent, FwFire, fwVars, fwHistory
  <2>2. FwToSteal' = FwToSteal /\ FwWatched' = FwWatched
    BY <2>1 DEF FwToSteal, FwWatched, FwOwners
  <2>3. \A a : FwEvent("create", a) \in FwQueued => FwEvent("create", a) \in FwQueued'
    <3>1. CASE FwProtoEvent
      <4>1. FwQueued = {FwEvent("proto", Head(fwEvents).dir)} \cup FwQueued' /\ "create" # "proto"
        BY <3>1, FwHandles DEF FwProtoEvent
      <4> QED BY <4>1, FwEventsDiffer
    <3>2. CASE UNCHANGED fwEvents
      BY <3>2 DEF FwQueued
    <3> QED BY <1>6, <3>1, <3>2 DEF FwSchedule, FwFire, fwVars
  <2> QED BY <1>a, <2>1, <2>2, <2>3 DEF FwOwn
<1>7. CASE \E e \in FwDirs : FwTouch(e)
  <2> PICK e \in FwDirs : FwTouch(e)
    BY <1>7
  <2>1. FwChange(e, "proto", e) /\ UNCHANGED <<fwThere, fwSub, fwMissed>>
    BY DEF FwTouch
  <2>2. UNCHANGED <<fwOp, FwOwn>> /\ FwQueued \subseteq FwQueued'
    BY <2>1, FwChangeLeaves, FwChangeQueues
  <2> QED BY <1>a, <2>1, <2>2
<1>8. CASE \E e \in FwDirs : FwAppear(e)
  <2> PICK e \in FwDirs : FwAppear(e)
    BY <1>8
  <2> DEFINE p == FwParent[e]
  <2>1. /\ FwChange(e, "create", p) /\ fwThere' = fwThere \cup {e} /\ UNCHANGED fwSub
        /\ e \in DOMAIN FwParent /\ e \notin fwThere /\ p \in fwThere
        /\ fwMissed' = IF p \in fwOp.left THEN fwMissed \cup {fwOp.source} ELSE fwMissed
    BY DEF FwAppear
  <2>2. /\ UNCHANGED <<fwOp, FwOwn>> /\ FwQueued \subseteq FwQueued'
        /\ p \in fwSub => FwEvent("create", e) \in FwQueued'
    BY <2>1, FwChangeLeaves, FwChangeQueues
  <2>3. x \in FwOwn /\ x \notin fwMissed
    BY <2>1, <2>2
  <2>4. CASE d \in fwThere
    <3>1. FwSeen(x, d)
      BY <1>a, <2>3, <2>4
    <3>2. UNCHANGED <<fwSub, fwOp>> /\ FwQueued \subseteq FwQueued'
      BY <2>1, <2>2
    <3> QED BY <3>1, <3>2
  <2>5. CASE d = e
    <3>1. FwAbove[e] = {e} \cup FwAbove[p] /\ p \in FwDirs
      BY <2>1, FwAboveParent
    <3>2. FwRoot[x] \in fwThere
      BY <2>3, FwWatchedAre DEF FwTreeInv, FwOwn
    <3>3. p \in FwRegion(x)
      BY <2>1, <2>5, <3>1, <3>2 DEF FwRegion
    <3>4. FwSeen(x, p)
      BY <2>1, <2>3, <3>3 DEF FwCovered
    <3>5. ~(fwOp.source = x /\ p \in fwOp.left)
      BY <2>1
    <3>6. e \in FwAbove[e]
      BY FwAboveIs
    <3> QED BY <2>2, <2>5, <3>1, <3>4, <3>5, <3>6
  <2> QED BY <2>1, <2>4, <2>5
<1>9. CASE \E e \in FwDirs : FwVanish(e)
  <2> PICK e \in FwDirs : FwVanish(e)
    BY <1>9
  <2>1. /\ FwChange(e, "remove", FwParent[e]) /\ fwThere' = fwThere \ FwBelow[e] /\ fwSub' = fwSub \ FwBelow[e]
        /\ fwMissed \subseteq fwMissed'
    BY DEF FwVanish
  <2>2. UNCHANGED <<fwOp, FwOwn>> /\ FwQueued \subseteq FwQueued'
    BY <2>1, FwChangeLeaves, FwChangeQueues
  <2> QED BY <1>a, <2>1, <2>2
<1> QED BY <1>1, <1>2, <1>3, <1>4, <1>5, <1>6, <1>7, <1>8, <1>9 DEF FwNext

---------------------------------------------------------------------------
(* A change is followed. *)

\* What is due is one directory, and of the source whose subtree is being added.
FwDueInv ==
    /\ \A d, e \in fwDue : d = e
    /\ fwOp.op = "subtree" => fwDue \cap FwRegion(fwOp.source) # {}

\* A callback comes: the timer runs, the loop is about to arm it, or an event is
\* queued that makes it do so.
FwPays(s) ==
    \/ s \in fwTimer
    \/ fwDue \cap FwRegion(s) # {}
    \/ \E d \in FwRegion(s) : FwEvent("proto", d) \in FwQueued
    \/ \E d \in FwRegion(s) : FwEvent("create", d) \in FwQueued /\ d \in fwThere
    \/ \E d \in FwRegion(s) : FwEvent("remove", d) \in FwQueued /\ d \in DOMAIN fwMap

FwOwedInv == \A s \in (fwOwed \cap FwOwn) \ fwMissed : FwPays(s)

LEMMA FwDueStep == FwTypeOK /\ FwTreeInv /\ FwLockInv /\ FwDueInv /\ [FwNext]_fwVars => FwDueInv'
<1> SUFFICES ASSUME FwTypeOK, FwTreeInv, FwLockInv, FwDueInv, [FwNext]_fwVars PROVE FwDueInv'
  OBVIOUS
<1>1. CASE \E s \in FwSources : FwWatch(s)
  <2>1. PICK s \in FwSources : FwWatch(s)
    BY <1>1
  <2>2. fwOp' = [op |-> "watch", source |-> s, left |-> FwRegion(s) \cap fwThere] /\ UNCHANGED fwDue
    BY <2>1, FwWatches DEF FwWatch
  <2> QED BY <2>2 DEF FwDueInv
<1>2. CASE \E d \in FwDirs : FwAdd(d)
  <2>1. fwOp'.op = fwOp.op /\ fwOp'.source = fwOp.source /\ UNCHANGED fwDue
    BY <1>2, FwAdds
  <2> QED BY <2>1 DEF FwDueInv
<1>3. CASE FwAdded
  BY <1>3, FwConstants DEF FwAdded, FwDueInv
<1>4. CASE FwSchedule
  BY <1>4 DEF FwSchedule, FwDueInv
<1>5. CASE FwCreateEvent
  <2> DEFINE d == Head(fwEvents).dir
  <2>1. fwOp.op = "none" /\ d \in FwDirs
    BY <1>5, FwCreates
  <2>2. CASE UNCHANGED <<fwOp, fwDue>>
    BY <2>2 DEF FwDueInv
  <2>3. CASE fwDue' = {d} /\ UNCHANGED fwOp
    BY <2>1, <2>3 DEF FwDueInv
  <2>4. ASSUME NEW s \in FwOwners(d), fwDue' = {d},
               fwOp' = [op |-> "subtree", source |-> s, left |-> FwBelow[d] \cap fwThere]
        PROVE  FwDueInv'
    <3>1. d \in FwRegion(s) /\ fwOp'.source = s
      BY <2>1, <2>4, FwOwns
    <3> QED BY <2>4, <3>1 DEF FwDueInv
  <2> QED BY <1>5, <2>2, <2>3, <2>4, FwCreates
<1>6. CASE FwRemoveEvent
  <2>1. fwOp.op = "none" /\ fwOp' = fwOp /\ (fwDue' = fwDue \/ \E d : fwDue' = {d})
    BY <1>6, FwRemoves
  <2> QED BY <2>1 DEF FwDueInv
<1>7. CASE UNCHANGED <<fwOp, fwDue>>
  BY <1>7 DEF FwDueInv
<1>8. CASE \E s \in FwSources : FwUnwatch(s) \/ FwFire(s)
  BY <1>8, <1>7 DEF FwUnwatch, FwFire
<1>9. CASE \E d \in FwDirs : FwTouch(d) \/ FwAppear(d) \/ FwVanish(d)
  BY <1>9, <1>7 DEF FwTouch, FwAppear, FwVanish, FwChange
<1>10. CASE FwProtoEvent \/ UNCHANGED fwVars
  BY <1>10, <1>7 DEF FwProtoEvent, fwVars
<1> QED BY <1>1, <1>2, <1>3, <1>4, <1>5, <1>6, <1>8, <1>9, <1>10 DEF FwNext

\* An event in a directory of its own arms the timer of the source.
LEMMA FwArmsOwn ==
    ASSUME FwTypeOK, FwLockInv, FwApart, NEW s \in FwOwn, s \in fwEntries, NEW d \in FwRegion(s), FwArm(d)
    PROVE  s \in fwTimer'
<1> DEFINE nearest == {t \in FwOwners(d) : \A u \in FwOwners(d) : FwRoot[u] \in FwAbove[FwRoot[t]]}
<1> DEFINE known == IF d \in DOMAIN fwMap THEN {fwMap[d]} \cap fwEntries ELSE nearest
<1>1. FwOwners(d) = {s} /\ (d \in DOMAIN fwMap => fwMap[d] = s)
  BY FwAlone
<1>2. FwRoot[s] \in FwAbove[FwRoot[s]]
  BY FwConstants, FwAboveIs DEF FwTypeOK
<1>3. known = {s}
  BY <1>1, <1>2
<1>4. IF known = {} THEN UNCHANGED fwTimer ELSE \E t \in known : fwTimer' = fwTimer \cup {t}
  BY DEF FwArm
<1> QED BY <1>3, <1>4

\* A directory that is above no root is not above its parent.
LEMMA FwAboveOnce ==
    ASSUME NEW e \in DOMAIN FwParent, NEW r \in FwAbove[e], e \notin FwAbove[r]
    PROVE  e \notin FwAbove[FwParent[e]]
<1> DEFINE D == {a \in FwAbove[e] : e \in FwAbove[a]}
<1>1. e \in FwDirs /\ e \in FwAbove[e] /\ FwAbove[e] \in FwClosed /\ FwAbove[e] \subseteq FwDirs
  BY FwConstants, FwAboveIs
<1> SUFFICES ASSUME e \in FwAbove[FwParent[e]] PROVE FALSE
  OBVIOUS
<1>2. ASSUME NEW a \in D \cap DOMAIN FwParent PROVE FwParent[a] \in D
  <2>1. FwParent[a] \in FwAbove[e]
    BY <1>1 DEF FwClosed
  <2>2. FwAbove[a] = {a} \cup FwAbove[FwParent[a]]
    BY FwAboveParent
  <2> QED BY <2>1, <2>2
<1>3. D \in FwClosed
  BY <1>1, <1>2 DEF FwClosed
<1>4. r \in D
  BY <1>1, <1>3, FwAboveIs
<1> QED BY <1>4

\* A request leaves the other sources what they had.
LEMMA FwOthers ==
    ASSUME FwTypeOK, FwLockInv, NEW s \in FwSources, FwWatch(s) \/ FwUnwatch(s), NEW x \in FwOwn', x # s, x \notin fwMissed'
    PROVE  x \in FwOwn /\ x \notin fwMissed
<1>1. fwMissed \subseteq fwMissed' \cup {s}
  BY FwWatches DEF FwUnwatch
<1>2. fwOp.op = "none" /\ fwOp.left = {} /\ fwEntries' = fwEntries \ {s} /\ fwStolen' = fwStolen
  BY FwDrops
<1>3. fwOp'.op = "none" \/ fwOp'.source = s
  BY <1>2, FwWatches DEF FwUnwatch
<1>4. x \in FwWatched
  BY <1>2, <1>3 DEF FwOwn, FwWatched
<1> QED BY <1>1, <1>2, <1>4, FwNoneToSteal DEF FwOwn

\* The parent of a directory of a source, unless it is the root, is one too.
LEMMA FwParentOwn ==
    ASSUME NEW s \in FwSources, NEW e \in DOMAIN FwParent, e \in FwRegion(s), FwRoot[s] # e
    PROVE  FwParent[e] \in FwRegion(s)
BY FwAboveParent DEF FwRegion

\* A change in a directory that is seen is paid for, before and after it.
LEMMA FwChangePays ==
    ASSUME FwTypeOK, FwTreeInv, FwLockInv, FwDueInv, NEW x \in fwEntries, NEW d \in fwThere, FwSeen(x, d)
    PROVE  \/ d \in fwSub
           \/ fwDue \cap FwRegion(x) # {}
           \/ \E e \in FwAbove[d] \cap FwRegion(x) : FwEvent("create", e) \in FwQueued /\ e \in fwThere
<1>1. CASE fwOp.source = x /\ d \in fwOp.left
  <2>1. fwOp.op = "subtree"
    BY <1>1 DEF FwTypeOK, FwLockInv
  <2> QED BY <1>1, <2>1 DEF FwDueInv
<1> QED BY <1>1, FwThereAbove DEF FwSeen

LEMMA FwTouchPays ==
    ASSUME FwTypeOK, FwTreeInv, FwLockInv, FwDueInv, NEW e \in FwDirs, FwTouch(e),
           NEW x \in FwOwners(e), FwSeen(x, e)
    PROVE  FwPays(x)'
<1>1. FwChange(e, "proto", e) /\ e \in fwThere /\ UNCHANGED fwThere
  BY DEF FwTouch
<1>2. UNCHANGED fwDue /\ FwQueued \subseteq FwQueued' /\ (e \in fwSub => FwEvent("proto", e) \in FwQueued')
  BY <1>1, FwChangeLeaves, FwChangeQueues
<1>3. x \in fwEntries /\ e \in FwRegion(x)
  BY FwOwns
<1> QED BY <1>1, <1>2, <1>3, FwChangePays DEF FwPays

LEMMA FwAppearPays ==
    ASSUME FwTypeOK, FwTreeInv, FwLockInv, FwDueInv, NEW e \in FwDirs, FwAppear(e),
           NEW x \in FwOwners(e), FwSeen(x, FwParent[e])
    PROVE  FwPays(x)'
<1> DEFINE p == FwParent[e]
<1>1. /\ FwChange(e, "create", p) /\ e \in DOMAIN FwParent /\ p \in fwThere /\ fwThere' = fwThere \cup {e}
  BY DEF FwAppear
<1>2. UNCHANGED fwDue /\ FwQueued \subseteq FwQueued' /\ (p \in fwSub => FwEvent("create", e) \in FwQueued')
  BY <1>1, FwChangeLeaves, FwChangeQueues
<1>3. x \in fwEntries /\ e \in FwRegion(x)
  BY FwOwns
<1>4. \/ p \in fwSub
      \/ fwDue \cap FwRegion(x) # {}
      \/ \E a \in FwAbove[p] \cap FwRegion(x) : FwEvent("create", a) \in FwQueued /\ a \in fwThere
  BY <1>1, <1>3, FwChangePays
<1>5. CASE p \in fwSub
  BY <1>1, <1>2, <1>3, <1>5 DEF FwPays
<1>6. CASE fwDue \cap FwRegion(x) # {}
  BY <1>2, <1>6 DEF FwPays
<1>7. CASE \E a \in FwAbove[p] \cap FwRegion(x) : FwEvent("create", a) \in FwQueued /\ a \in fwThere
  BY <1>1, <1>2, <1>7 DEF FwPays
<1> QED BY <1>4, <1>5, <1>6, <1>7

LEMMA FwVanishPays ==
    ASSUME FwTypeOK, FwTreeInv, FwLockInv, FwDueInv, NEW e \in FwDirs, FwVanish(e), e \in DOMAIN fwMap,
           NEW x \in FwOwners(e), x \in FwSources, FwSeen(x, e), FwParent[e] \in FwRegion(x) => FwSeen(x, FwParent[e])
    PROVE  FwPays(x)'
<1> DEFINE p == FwParent[e]
<1>1. /\ FwChange(e, "remove", p) /\ e \in DOMAIN FwParent /\ e \in fwThere /\ fwThere' = fwThere \ FwBelow[e]
      /\ \A s \in FwSources : FwRoot[s] \notin FwBelow[e]
  BY DEF FwVanish
<1>2. /\ UNCHANGED <<fwDue, fwMap>> /\ FwQueued \subseteq FwQueued'
      /\ p \in fwSub \/ e \in fwSub => FwEvent("remove", e) \in FwQueued'
  BY <1>1, FwChangeLeaves, FwChangeQueues
<1>3. x \in fwEntries /\ e \in FwRegion(x) /\ FwRoot[x] \in FwDirs /\ FwRoot[x] \in FwAbove[e]
  BY FwOwns, FwConstants DEF FwRegion
<1>4. e \notin FwAbove[FwRoot[x]] /\ FwRoot[x] # e
  <2>1. e \notin FwAbove[FwRoot[x]]
    BY <1>1, <1>3, FwBelowIs
  <2> QED BY <2>1, FwAboveIs
<1>5. p \in FwRegion(x) /\ p \in fwThere /\ p \in FwDirs
  BY <1>1, <1>3, <1>4, FwParentOwn, FwAboveParent DEF FwTreeInv, FwClosed
<1>6. \A a \in FwAbove[p] : a \in fwThere => a \in fwThere'
  <2>1. e \notin FwAbove[p]
    BY <1>1, <1>3, <1>4, FwAboveOnce
  <2>2. \A a \in FwAbove[p] : a \notin FwBelow[e]
    BY <1>5, <2>1, FwAboveThrough, FwBelowIs
  <2> QED BY <1>1, <2>2
<1>7. CASE fwDue \cap FwRegion(x) # {}
  BY <1>2, <1>7 DEF FwPays
<1>8. CASE p \in fwSub \/ e \in fwSub
  BY <1>2, <1>3, <1>8 DEF FwPays
<1>9. CASE \E a \in FwAbove[p] \cap FwRegion(x) : FwEvent("create", a) \in FwQueued /\ a \in fwThere
  BY <1>2, <1>6, <1>9 DEF FwPays
<1>10. \/ e \in fwSub
       \/ fwDue \cap FwRegion(x) # {}
       \/ \E a \in FwAbove[e] \cap FwRegion(x) : FwEvent("create", a) \in FwQueued /\ a \in fwThere
  BY <1>1, <1>3, FwChangePays
<1>11. \/ p \in fwSub
       \/ fwDue \cap FwRegion(x) # {}
       \/ \E a \in FwAbove[p] \cap FwRegion(x) : FwEvent("create", a) \in FwQueued /\ a \in fwThere
  BY <1>3, <1>5, FwChangePays
<1> QED BY <1>7, <1>8, <1>9, <1>11

LEMMA FwOwedStep ==
    FwTypeOK /\ FwTreeInv /\ FwLockInv /\ FwApart /\ FwCovered /\ FwDueInv /\ FwOwedInv /\ [FwNext]_fwVars
        => FwOwedInv'
<1> SUFFICES ASSUME FwTypeOK, FwTreeInv, FwLockInv, FwApart, FwCovered, FwDueInv, FwOwedInv, [FwNext]_fwVars,
                    NEW x \in (fwOwed' \cap FwOwn') \ fwMissed'
             PROVE  FwPays(x)'
  BY DEF FwOwedInv
<1>a. ASSUME x \in fwOwed, x \in FwOwn, x \notin fwMissed PROVE FwPays(x) /\ x \in fwEntries /\ x \in FwSources
  BY <1>a DEF FwOwedInv, FwLockInv, FwTypeOK
<1>1. CASE \E s \in FwSources : FwWatch(s) \/ FwUnwatch(s)
  <2> PICK s \in FwSources : FwWatch(s) \/ FwUnwatch(s)
    BY <1>1
  <2>1. x \in fwOwed /\ x # s
    BY FwDrops
  <2>2. x \in FwOwn /\ x \notin fwMissed
    BY <2>1, FwOthers
  <2>3. FwPays(x)
    BY <1>a, <2>1, <2>2
  <2>4. fwTimer' = fwTimer \ {s} /\ UNCHANGED <<fwThere, FwQueued, fwDue>>
    BY FwDrops DEF FwQueued
  <2>5. \A d \in FwRegion(x) : d \in DOMAIN fwMap => d \in DOMAIN fwMap'
    <3>1. DOMAIN fwMap' = {d \in DOMAIN fwMap : fwMap[d] # s}
      BY FwDrops
    <3>2. \A d \in FwRegion(x) : d \in DOMAIN fwMap => fwMap[d] = x
      BY <2>2, FwAlone
    <3> QED BY <2>1, <3>1, <3>2
  <2> QED BY <2>1, <2>3, <2>4, <2>5 DEF FwPays
<1>2. CASE \E d \in FwDirs : FwAdd(d)
  <2> PICK d \in FwDirs : FwAdd(d)
    BY <1>2
  <2>1. UNCHANGED <<fwThere, fwTimer, fwDue, fwOwed, fwMissed, FwQueued>> /\ DOMAIN fwMap \subseteq DOMAIN fwMap'
    BY FwAdds DEF FwQueued
  <2>2. FwPays(x)
    BY <1>a, <2>1, FwSteals
  <2> QED BY <2>1, <2>2 DEF FwPays
<1>3. CASE FwAdded
  <2>1. UNCHANGED <<fwThere, fwTimer, fwDue, fwOwed, fwMissed, fwMap, FwQueued>>
    BY <1>3 DEF FwAdded, fwHistory, FwQueued
  <2>2. x \in FwOwn
    <3>1. \A s \in FwSources : FwWatch(s) => fwOp.op = "none"
      BY DEF FwWatch
    <3>2. fwOp.op # "none"
      BY <1>3 DEF FwAdded
    <3> QED BY <3>1, <3>2, FwOwnMoves
  <2>3. FwPays(x)
    BY <1>a, <2>1, <2>2
  <2> QED BY <2>1, <2>3 DEF FwPays
<1>b. ASSUME \A s \in FwSources : ~FwWatch(s) PROVE x \in FwOwn
  BY <1>b, FwOwnMoves
<1>4. CASE FwCreateEvent
  <2> DEFINE e == Head(fwEvents).dir
  <2>1. /\ fwOp.op = "none" /\ e \in FwDirs /\ FwQueued = {FwEvent("create", e)} \cup FwQueued'
        /\ UNCHANGED <<fwThere, fwTimer, fwMap, fwOwed, fwMissed, fwEntries, fwStolen>> /\ fwDue = {}
        /\ e \in fwThere => fwDue' = {e}
    <3>1. fwDue = {}
      BY <1>4 DEF FwCreateEvent, FwNextEvent
    <3> QED BY <1>4, <3>1, FwCreates
  <2>2. x \in FwOwn
    <3>1. fwOp'.op # "watch"
      <4>1. UNCHANGED fwOp \/ fwOp'.op = "subtree"
        BY <1>4, FwCreates
      <4> QED BY <2>1, <4>1
    <3>2. fwOp.left = {}
      BY <2>1 DEF FwLockInv
    <3> QED BY <2>1, <3>1, <3>2, FwNoneToSteal DEF FwOwn, FwWatched
  <2>3. FwPays(x)
    BY <1>a, <2>1, <2>2
  <2>4. CASE e \in fwThere /\ e \in FwRegion(x)
    BY <2>1, <2>4 DEF FwPays
  <2>5. CASE ~(e \in fwThere /\ e \in FwRegion(x))
    <3>1. \A d : FwEvent("proto", d) \in FwQueued => FwEvent("proto", d) \in FwQueued'
      BY <2>1, "proto" # "create", FwEventsDiffer
    <3>2. \A d : FwEvent("remove", d) \in FwQueued => FwEvent("remove", d) \in FwQueued'
      BY <2>1, "remove" # "create", FwEventsDiffer
    <3>3. \A d \in FwRegion(x) : FwEvent("create", d) \in FwQueued /\ d \in fwThere => FwEvent("create", d) \in FwQueued'
      BY <2>1, <2>5, FwEventsDiffer
    <3> QED BY <2>1, <2>3, <3>1, <3>2, <3>3 DEF FwPays
  <2> QED BY <2>4, <2>5
<1>5. CASE FwRemoveEvent
  <2> DEFINE e == Head(fwEvents).dir
  <2>1. /\ fwOp.op = "none" /\ e \in FwDirs /\ e \in DOMAIN FwParent /\ FwQueued = {FwEvent("remove", e)} \cup FwQueued'
        /\ \A s \in FwSources : e \notin FwAbove[FwRoot[s]]
        /\ UNCHANGED <<fwThere, fwTimer, fwOwed, fwOp, fwEntries, fwStolen>> /\ fwMissed \subseteq fwMissed'
    BY <1>5, FwRemoves
  <2>2. fwDue = {}
    BY <1>5 DEF FwRemoveEvent, FwNextEvent
  <2>3. x \in FwOwn /\ x \in fwOwed /\ x \notin fwMissed
    <3>1. fwOp.left = {}
      BY <2>1 DEF FwLockInv
    <3> QED BY <2>1, <3>1, FwNoneToSteal DEF FwOwn, FwWatched
  <2>4. FwPays(x) /\ x \in FwSources
    BY <1>a, <2>3
  <2>5. CASE e \in DOMAIN fwMap /\ e \in FwRegion(x)
    <3>1. fwDue' = {FwParent[e]}
      BY <1>5, <2>5, FwRemoves
    <3>2. FwRoot[x] # e
      BY <2>1, <2>4, FwAboveIs
    <3>3. FwParent[e] \in FwRegion(x)
      BY <2>1, <2>4, <2>5, <3>2, FwParentOwn
    <3> QED BY <3>1, <3>3 DEF FwPays
  <2>6. CASE ~(e \in DOMAIN fwMap /\ e \in FwRegion(x))
    <3>1. \A d : FwEvent("proto", d) \in FwQueued => FwEvent("proto", d) \in FwQueued'
      BY <2>1, "proto" # "remove", FwEventsDiffer
    <3>2. \A d : FwEvent("create", d) \in FwQueued => FwEvent("create", d) \in FwQueued'
      BY <2>1, "remove" # "create", FwEventsDiffer
    <3>3. ASSUME NEW d \in FwRegion(x), FwEvent("remove", d) \in FwQueued, d \in DOMAIN fwMap
          PROVE  FwEvent("remove", d) \in FwQueued' /\ d \in DOMAIN fwMap'
      <4>1. d # e
        BY <2>6, <3>3
      <4>2. CASE e \in DOMAIN fwMap
        <5>1. e \notin FwAbove[d]
          <6>1. d \in FwDirs /\ FwRoot[x] \in FwAbove[d] /\ FwRoot[x] \notin FwAbove[e]
            BY <2>1, <2>6, <4>2 DEF FwRegion
          <6> QED BY <2>1, <2>4, <6>1, FwAboveChain
        <5>2. DOMAIN fwMap' = DOMAIN fwMap \ FwBelow[e]
          BY <1>5, <4>2, FwRemoves
        <5> QED BY <2>1, <3>3, <4>1, <5>1, <5>2, FwBelowIs, FwEventsDiffer
      <4>3. CASE e \notin DOMAIN fwMap
        <5>1. fwMap' = fwMap
          BY <1>5, <4>3, FwRemoves
        <5> QED BY <2>1, <3>3, <4>1, <5>1, FwEventsDiffer
      <4> QED BY <4>2, <4>3
    <3> QED BY <2>1, <2>2, <2>4, <3>1, <3>2, <3>3 DEF FwPays
  <2> QED BY <2>5, <2>6
<1>6. CASE FwProtoEvent
  <2> DEFINE e == Head(fwEvents).dir
  <2>1. /\ FwQueued = {FwEvent("proto", e)} \cup FwQueued' /\ FwArm(e)
        /\ UNCHANGED <<fwThere, fwMap, fwOwed, fwMissed, fwDue>>
    BY <1>6, FwHandles DEF FwProtoEvent, fwHistory
  <2>2. x \in FwOwn
    <3>1. UNCHANGED <<fwOp, fwEntries, fwStolen>>
      BY <1>6 DEF FwProtoEvent, fwHistory
    <3>2. FwToSteal' = FwToSteal /\ FwWatched' = FwWatched
      BY <3>1 DEF FwToSteal, FwWatched, FwOwners
    <3> QED BY <3>1, <3>2 DEF FwOwn
  <2>3. FwPays(x) /\ x \in fwEntries
    BY <1>a, <2>1, <2>2
  <2>4. fwTimer \subseteq fwTimer'
    BY <2>1, FwArms
  <2>5. CASE e \in FwRegion(x)
    <3>1. x \in fwTimer'
      BY <2>1, <2>2, <2>3, <2>5, FwArmsOwn
    <3> QED BY <3>1 DEF FwPays
  <2>6. CASE e \notin FwRegion(x)
    <3>1. \A d : FwEvent("remove", d) \in FwQueued => FwEvent("remove", d) \in FwQueued'
      BY <2>1, "proto" # "remove", FwEventsDiffer
    <3>2. \A d : FwEvent("create", d) \in FwQueued => FwEvent("create", d) \in FwQueued'
      BY <2>1, "proto" # "create", FwEventsDiffer
    <3>3. \A d \in FwRegion(x) : FwEvent("proto", d) \in FwQueued => FwEvent("proto", d) \in FwQueued'
      BY <2>1, <2>6, FwEventsDiffer
    <3> QED BY <2>1, <2>3, <2>4, <3>1, <3>2, <3>3 DEF FwPays
  <2> QED BY <2>5, <2>6
<1>7. CASE FwSchedule
  <2>1. UNCHANGED <<fwThere, FwQueued, fwMap, fwOwed, fwMissed>>
    BY <1>7 DEF FwSchedule, fwHistory, FwQueued
  <2>2. x \in FwOwn
    <3>1. UNCHANGED <<fwOp, fwEntries, fwStolen>>
      BY <1>7 DEF FwSchedule, fwHistory
    <3>2. FwToSteal' = FwToSteal /\ FwWatched' = FwWatched
      BY <3>1 DEF FwToSteal, FwWatched, FwOwners
    <3> QED BY <3>1, <3>2 DEF FwOwn
  <2>3. FwPays(x) /\ x \in fwEntries
    BY <1>a, <2>1, <2>2
  <2>4. PICK d \in fwDue : FwArm(d)
    BY <1>7 DEF FwSchedule
  <2>5. fwTimer \subseteq fwTimer'
    BY <2>4, FwArms
  <2>6. CASE fwDue \cap FwRegion(x) # {}
    <3>1. d \in FwRegion(x)
      BY <2>4, <2>6 DEF FwDueInv
    <3>2. x \in fwTimer'
      BY <2>2, <2>3, <2>4, <3>1, FwArmsOwn
    <3> QED BY <3>2 DEF FwPays
  <2>7. CASE fwDue \cap FwRegion(x) = {}
    BY <2>1, <2>3, <2>5, <2>7 DEF FwPays
  <2> QED BY <2>6, <2>7
<1>8. CASE \E s \in FwSources : FwFire(s)
  <2> PICK s \in FwSources : FwFire(s)
    BY <1>8
  <2>1. /\ fwTimer' = fwTimer \ {s} /\ fwOwed' = fwOwed \ {s} /\ UNCHANGED <<fwThere, FwQueued, fwMap, fwDue, fwMissed>>
        /\ UNCHANGED <<fwOp, fwEntries, fwStolen>>
    BY DEF FwFire, FwQueued
  <2>2. FwToSteal' = FwToSteal /\ FwWatched' = FwWatched
    BY <2>1 DEF FwToSteal, FwWatched, FwOwners
  <2>3. FwPays(x) /\ x # s
    BY <1>a, <2>1, <2>2 DEF FwOwn
  <2> QED BY <2>1, <2>3 DEF FwPays
<1>9. CASE \E e \in FwDirs : FwTouch(e)
  <2> PICK e \in FwDirs : FwTouch(e)
    BY <1>9
  <2>1. FwChange(e, "proto", e) /\ e \in fwThere /\ UNCHANGED <<fwThere, fwMissed>>
    BY DEF FwTouch
  <2>2. /\ UNCHANGED <<fwTimer, fwDue, fwMap, FwOwn>> /\ FwQueued \subseteq FwQueued'
        /\ fwOwed' = fwOwed \cup FwOwners(e)
    BY <2>1, FwChangeLeaves, FwChangeQueues
  <2>3. CASE x \in FwOwners(e)
    <3>1. FwSeen(x, e)
      BY <2>1, <2>2, <2>3, FwOwns DEF FwCovered
    <3> QED BY <2>3, <3>1, FwTouchPays
  <2>4. CASE x \in fwOwed
    <3>1. FwPays(x)
      BY <1>a, <2>1, <2>2, <2>4
    <3> QED BY <2>1, <2>2, <3>1 DEF FwPays
  <2> QED BY <2>2, <2>3, <2>4
<1>10. CASE \E e \in FwDirs : FwAppear(e)
  <2> PICK e \in FwDirs : FwAppear(e)
    BY <1>10
  <2> DEFINE p == FwParent[e]
  <2>1. /\ FwChange(e, "create", p) /\ fwThere' = fwThere \cup {e} /\ e \in DOMAIN FwParent /\ e \notin fwThere
        /\ p \in fwThere /\ fwMissed \subseteq fwMissed'
    BY DEF FwAppear
  <2>2. /\ UNCHANGED <<fwTimer, fwDue, fwMap, FwOwn>> /\ FwQueued \subseteq FwQueued'
        /\ fwOwed' = fwOwed \cup FwOwners(e)
    BY <2>1, FwChangeLeaves, FwChangeQueues
  <2>3. CASE x \in FwOwners(e)
    <3>1. x \in FwSources /\ e \in FwRegion(x)
      BY <2>3, FwOwns, FwOwnersIs
    <3>2. FwRoot[x] # e
      BY <2>1, <3>1 DEF FwTreeInv
    <3>3. p \in FwRegion(x)
      BY <2>1, <3>1, <3>2, FwParentOwn
    <3>4. FwSeen(x, p)
      BY <2>1, <2>2, <3>3 DEF FwCovered
    <3> QED BY <2>3, <3>4, FwAppearPays
  <2>4. CASE x \in fwOwed
    <3>1. FwPays(x)
      BY <1>a, <2>1, <2>2, <2>4
    <3> QED BY <2>1, <2>2, <3>1 DEF FwPays
  <2> QED BY <2>2, <2>3, <2>4
<1>11. CASE \E e \in FwDirs : FwVanish(e)
  <2> PICK e \in FwDirs : FwVanish(e)
    BY <1>11
  <2>1. /\ FwChange(e, "remove", FwParent[e]) /\ fwThere' = fwThere \ FwBelow[e] /\ e \in fwThere \cap DOMAIN FwParent
        /\ \A s \in FwSources : FwRoot[s] \notin FwBelow[e]
        /\ fwMissed' = IF e \in DOMAIN fwMap THEN fwMissed ELSE fwMissed \cup FwOwners(e)
    BY DEF FwVanish
  <2>2. /\ UNCHANGED <<fwTimer, fwDue, fwMap, FwOwn>> /\ FwQueued \subseteq FwQueued'
        /\ fwOwed' = fwOwed \cup FwOwners(e)
    BY <2>1, FwChangeLeaves, FwChangeQueues
  <2>3. CASE x \in FwOwners(e)
    <3>1. e \in DOMAIN fwMap /\ x \in FwOwn /\ x \notin fwMissed /\ x \in FwSources /\ e \in FwRegion(x)
      BY <2>1, <2>2, <2>3, FwOwns, FwOwnersIs
    <3>2. FwSeen(x, e)
      BY <2>1, <3>1 DEF FwCovered
    <3>3. FwParent[e] \in fwThere
      BY <2>1 DEF FwTreeInv, FwClosed
    <3>4. FwParent[e] \in FwRegion(x) => FwSeen(x, FwParent[e])
      BY <3>1, <3>3 DEF FwCovered
    <3> QED BY <2>3, <3>1, <3>2, <3>4, FwVanishPays
  <2>4. CASE x \in fwOwed /\ x \notin FwOwners(e)
    <3>1. FwPays(x) /\ x \in fwEntries /\ x \in FwSources
      BY <1>a, <2>1, <2>2, <2>4
    <3>2. ASSUME NEW d \in FwRegion(x), d \in fwThere PROVE d \in fwThere'
      <4>1. d \in FwDirs /\ FwRoot[x] \in FwAbove[d] /\ FwRoot[x] \in FwDirs
        BY <3>1, FwConstants DEF FwRegion
      <4>2. e \notin FwAbove[FwRoot[x]] /\ FwRoot[x] \notin FwAbove[e]
        BY <2>1, <2>4, <3>1, <4>1, FwBelowIs, FwOwns DEF FwRegion
      <4>3. e \notin FwAbove[d]
        BY <4>1, <4>2, FwAboveChain
      <4> QED BY <2>1, <3>2, <4>3, FwBelowIs
    <3> QED BY <2>2, <3>1, <3>2 DEF FwPays
  <2> QED BY <2>2, <2>3, <2>4
<1>12. CASE UNCHANGED fwVars
  <2>1. UNCHANGED <<fwThere, FwQueued, fwMap, fwDue, fwMissed, fwOwed, fwTimer, fwOp, fwEntries, fwStolen>>
    BY <1>12 DEF fwVars, fwHistory, FwQueued
  <2>2. FwToSteal' = FwToSteal /\ FwWatched' = FwWatched
    BY <2>1 DEF FwToSteal, FwWatched, FwOwners
  <2>3. FwPays(x)
    BY <1>a, <2>1, <2>2 DEF FwOwn
  <2> QED BY <2>1, <2>3 DEF FwPays
<1> QED BY <1>1, <1>2, <1>3, <1>4, <1>5, <1>6, <1>7, <1>8, <1>9, <1>10, <1>11, <1>12 DEF FwNext

FwInv == FwTypeOK /\ FwTreeInv /\ FwLockInv /\ FwApart /\ FwCovered /\ FwDueInv /\ FwOwedInv

LEMMA FwInvStarts == FwInit => FwInv
<1> SUFFICES ASSUME FwInit PROVE FwInv
  OBVIOUS
<1>1. /\ fwThere \in FwClosed /\ (\A s \in FwSources : FwRoot[s] \in fwThere) /\ fwSub = {} /\ fwEvents = <<>>
      /\ fwEntries = {} /\ fwTimer = {} /\ fwOp = FwNoOp /\ fwDue = {} /\ fwChanges = 0 /\ fwOps = 0
      /\ fwOwed = {} /\ fwStolen = {} /\ fwMissed = {}
  BY DEF FwInit
<1>2. DOMAIN fwMap = {} /\ fwMap \in [DOMAIN fwMap -> FwSources]
  BY DEF FwInit
<1>3. FwQueued = {} /\ fwEvents \in Seq(FwEvents)
  BY <1>1, FwNoneQueued DEF FwQueued
<1>4. fwOp.op = "none" /\ fwOp.left = {} /\ fwOp \in [op : {"none", "watch", "subtree"}, source : FwSources, left : SUBSET FwDirs]
  BY <1>1, FwConstants
<1>5. FwWatched = {}
  BY <1>1, <1>4 DEF FwWatched
<1>6. FwOwn = {}
  BY <1>5 DEF FwOwn
<1>7. FwTypeOK
  BY <1>1, <1>2, <1>3, <1>4, FwConstants DEF FwTypeOK, FwEvents, FwClosed
<1>8. FwTreeInv
  BY <1>1, <1>3 DEF FwTreeInv
<1>9. FwLockInv
  BY <1>1, <1>2, <1>4 DEF FwLockInv
<1>10. FwApart /\ FwCovered /\ FwDueInv /\ FwOwedInv
  BY <1>1, <1>4, <1>6 DEF FwApart, FwCovered, FwDueInv, FwOwedInv
<1> QED BY <1>7, <1>8, <1>9, <1>10 DEF FwInv

LEMMA FwInvHolds == FwSpec => []FwInv
<1>1. FwInv /\ [FwNext]_fwVars => FwInv'
  BY FwTypeStep, FwTreeStep, FwLockStep, FwApartStep, FwCoveredStep, FwDueStep, FwOwedStep DEF FwInv
<1> QED BY <1>1, FwInvStarts, PTL DEF FwSpec

\* Every variable keeps its type; timers run for entries, and fsnotify watches
\* directories that are there and in the map.
THEOREM FwTypeCorrect == FwSpec => []FwTypeOK
<1>1. FwInv => FwTypeOK
  BY DEF FwInv
<1> QED BY <1>1, FwInvHolds, PTL

\* A change below the root of a watched source is followed by its callback.
THEOREM ChangesAreFollowed == FwSpec => []FwChangeFollowed
<1>1. FwInv => FwChangeFollowed
  <2> SUFFICES ASSUME FwInv, fwEvents = <<>>, fwTimer = {}, fwOp.op = "none", fwDue = {},
                      NEW s \in fwOwed, s \notin fwStolen, s \notin fwMissed
               PROVE  FALSE
    BY DEF FwChangeFollowed
  <2>1. fwOp.left = {} /\ s \in fwEntries
    BY DEF FwInv, FwLockInv
  <2>2. s \in FwOwn
    BY <2>1, FwNoneToSteal DEF FwOwn, FwWatched
  <2>3. FwPays(s)
    BY <2>2 DEF FwInv, FwOwedInv
  <2>4. FwQueued = {}
    BY FwNoneQueued DEF FwQueued
  <2> QED BY <2>3, <2>4 DEF FwPays
<1> QED BY <1>1, FwInvHolds, PTL

---------------------------------------------------------------------------
(***************************************************************************)
(* That the registry serves what is stored, that changes of the files are  *)
(* followed and that nothing goes back, for every number of goroutines,    *)
(* requests, versions and kept revisions.  At the bottom is the compile    *)
(* lock: the places from the look at the stored schemas to the             *)
(* announcement are those of its holder.  Above it, what a goroutine will  *)
(* still do says why something that is stale now will not stay so.         *)
(***************************************************************************)

\* The revisions a source of its type has, and the documents that fit it.
PvOwnRevs == IF pvType = "local" THEN {PvLocalRevision} ELSE 1..PvMaxVersion
PvDocFits(doc) == doc.active \in {PvNoRev} \cup PvOwnRevs /\ (pvType = "git" => doc.ref.rev = doc.active)

\* The places of the compile, those of the announcement, and who compiles.
PvCompiling == {"look", "save", "saved", "prune", "record", "recordPut", "patch", "patchPut"}
PvAnnouncing == {"inv", "load", "insert", "tell"}
PvCompiles == {"select", "upload", "refresh", "warm", "callback"}

\* What a goroutine has at its place.
PvWorkFits(work) ==
    /\ PvDocFits(work.base) /\ PvDocFits(work.doc)
    /\ work.pc \in PvCompiling \cup {"lock"} =>
          work.op \in PvCompiles /\ work.ref.rev \in PvOwnRevs /\ (work.op = "upload" => pvType = "upload")
    /\ work.pc = "insert" => work.ref.rev \in PvOwnRevs
    /\ work.pc \in {"look", "patch", "patchPut"} => pvType = "git"
    /\ work.pc \in {"lock", "look", "save", "saved", "prune", "patch", "patchPut"} => work.ok
    /\ work.pc = "put" => /\ work.op \in {"update", "enable", "watcher"}
                          /\ work.doc.active = work.base.active /\ work.doc.ref = work.base.ref
                          /\ (work.op # "enable" => work.doc.enabled = work.base.enabled)
                          /\ (work.op # "watcher" => work.doc.watcher = work.base.watcher)
                          /\ (work.op = "watcher" => pvType = "local")
    /\ work.pc \in {"recordPut", "patchPut"} =>
          work.doc.enabled = work.base.enabled /\ work.doc.watcher = work.base.watcher
    /\ work.pc = "recordPut" =>
          /\ work.doc.ref = work.base.ref
          /\ work.doc.active = IF work.ok /\ pvType # "git" THEN work.ref.rev ELSE work.base.active
    /\ work.pc = "patchPut" => work.doc.ref = work.ref /\ work.doc.active = work.ref.rev
    /\ work.pc \in {"put", "recordPut", "patchPut"} => work.doc.there
    /\ work.pc = "watch" => work.op \in {"delete", "watcher", "enable"} /\ (work.op # "delete" => pvType = "local")
    /\ work.pc = "drop" => work.op = "delete"
    /\ work.pc \in {"warm", "check"} => pvType = "local"
    /\ work.pc \in PvAnnouncing => work.op \in PvCompiles \cup {"enable", "delete"}

PvWorkInv == \A w \in PvWorkers : pvWork[w] \in PvWork /\ PvWorkFits(pvWork[w])

\* The lock is held from the compile to the end, by an upload until the document
\* is written.
PvHolds(work) == work.pc \in PvCompiling \/ (work.pc \in PvAnnouncing /\ work.op \in PvCompiles \ {"upload"})
PvLockInv == \A w \in PvWorkers : PvHolds(pvWork[w]) <=> pvLock = w

PvDataInv ==
    /\ pvType \in {"local", "git", "upload"} /\ pvDoc \in PvDocs /\ PvDocFits(pvDoc)
    /\ pvSchemas \subseteq PvSchema /\ pvAge \in [PvRevs -> Nat]
    /\ \A s, t \in pvSchemas : s.rev = t.rev => s = t
    /\ pvFiles \subseteq 1..PvMaxVersion /\ pvCache \subseteq PvSchema
    /\ \A s \in pvSchemas \cup pvCache : s.rev \in PvOwnRevs
    /\ pvNow \in 1..PvMaxVersion /\ pvRaced \subseteq PvRevs
    /\ pvLock \in {0} \cup PvWorkers /\ pvWork \in [PvWorkers -> PvWork]
    /\ pvOps \in 0..PvMaxOps
PvFlagsInv ==
    /\ pvEntry \in BOOLEAN /\ pvTimer \in BOOLEAN /\ pvOwed \in BOOLEAN /\ pvLost \in BOOLEAN /\ pvCrossed \in BOOLEAN
    /\ pvEntry \/ pvTimer => pvType = "local"
PvLiveInv ==
    /\ pvLive \in [dirty : BOOLEAN, snap : PvSchema, load : PvSchema]
    /\ \A x \in {pvLive.snap, pvLive.load} : x # PvNoSchema => x.rev \in PvOwnRevs
    /\ pvLive.snap = PvNoSchema \/ pvLive.load = PvNoSchema

LEMMA PvNumbers ==
    PvWorkers \subseteq Nat \ {0} /\ PvKeep \in Nat \ {0} /\ PvMaxVersion \in Nat \ {0} /\ PvMaxOps \in Nat
BY PvAssumption DEF PvAssumption

LEMMA PvRecords ==
    /\ PvNoRef \in PvRefs /\ PvNoRef.rev = PvNoRev /\ PvNew \in PvDocs /\ PvGone \in PvDocs
    /\ PvIdle \in PvWork /\ PvNoSchema \in PvSchema /\ PvNoSchema.rev = PvNoRev
    /\ PvNoRev \notin PvRevs /\ 1 \in PvRevs /\ 0 \in PvRevs
<1>1. PvNoRev \notin PvRevs /\ 1 \in PvRevs /\ 0 \in PvRevs /\ 0 \in 0..PvMaxVersion
  BY PvNumbers DEF PvNoRev, PvRevs, PvLocalRevision
<1>2. PvNoRef \in PvRefs /\ PvNoRef.rev = PvNoRev
  BY DEF PvNoRef, PvRefs
<1>3. PvNew \in PvDocs /\ PvGone \in PvDocs
  BY <1>2 DEF PvNew, PvGone, PvDocs
<1>4. PvNoSchema \in PvSchema /\ PvNoSchema.rev = PvNoRev
  BY <1>1 DEF PvNoSchema, PvSchema
<1>5. PvIdle \in PvWork
  BY <1>1, <1>2, <1>3 DEF PvIdle, PvWork
<1> QED BY <1>1, <1>2, <1>3, <1>4, <1>5

\* Nothing selected: what a goroutine that is idle, or just began, carries.
LEMMA PvGoneFits ==
    /\ PvDocFits(PvGone) /\ PvDocFits(PvNew) /\ ~PvGone.there
    /\ PvIdle.base = PvGone /\ PvIdle.doc = PvGone /\ PvIdle.pc = "idle" /\ PvIdle.op = "none" /\ PvIdle.ok
    /\ PvIdle.ref = PvNoRef
BY DEF PvDocFits, PvGone, PvNew, PvNoRef, PvIdle

LEMMA PvOwned == PvOwnRevs \subseteq PvRevs /\ PvNoRev \notin PvOwnRevs
BY PvNumbers DEF PvOwnRevs, PvRevs, PvNoRev, PvLocalRevision

\* What is stored under a revision.
LEMMA PvAtIs ==
    ASSUME NEW schemas, NEW rev
    PROVE  \/ PvAt(schemas, rev) = PvNoSchema /\ \A s \in schemas : s.rev # rev
           \/ PvAt(schemas, rev) \in schemas /\ PvAt(schemas, rev).rev = rev
<1> DEFINE found == {s \in schemas : s.rev = rev}
<1>1. CASE found = {}
  BY <1>1 DEF PvAt
<1>2. CASE found # {}
  <2>1. (CHOOSE s \in found : TRUE) \in found
    BY <1>2
  <2>2. PvAt(schemas, rev) = CHOOSE s \in found : TRUE
    BY <1>2 DEF PvAt
  <2> QED BY <2>1, <2>2
<1> QED BY <1>1, <1>2

PvPlaces == {"idle", "put", "lock", "watch", "drop", "inv", "load", "insert", "tell", "warm", "check", "look",
             "save", "saved", "prune", "record", "recordPut", "patch", "patchPut"}

\* To go to another place, with the fields as they are.
LEMMA PvGoing ==
    ASSUME NEW work \in PvWork, NEW pc \in PvPlaces
    PROVE  LET new == [work EXCEPT !.pc = pc]
           IN  /\ new \in PvWork /\ new.pc = pc /\ new.op = work.op /\ new.base = work.base /\ new.doc = work.doc
               /\ new.ref = work.ref /\ new.of = work.of /\ new.set = work.set /\ new.ok = work.ok
BY DEF PvWork, PvPlaces

\* To be at a place with nothing in hand.
LEMMA PvFresh ==
    ASSUME NEW op \in {"none", "update", "enable", "watcher", "select", "upload", "refresh", "delete", "warm", "callback"},
           NEW pc \in PvPlaces
    PROVE  LET new == [PvIdle EXCEPT !.op = op, !.pc = pc]
           IN  /\ new \in PvWork /\ new.pc = pc /\ new.op = op /\ new.base = PvGone /\ new.doc = PvGone
               /\ new.ref = PvNoRef /\ new.ok
<1>1. PvIdle \in PvWork
  BY PvRecords
<1> QED BY <1>1, PvGoneFits DEF PvWork, PvPlaces

\* One goroutine moves; the lock is as its new place says.
PvMoves(w, new) ==
    /\ new \in PvWork /\ PvWorkFits(new)
    /\ pvWork' = [pvWork EXCEPT ![w] = new]
    /\ PvHolds(new) <=> pvLock' = w
    /\ \A v \in PvWorkers : v # w => (pvLock' = v <=> pvLock = v)
    /\ pvLock' \in {0} \cup PvWorkers

LEMMA PvMoved ==
    ASSUME PvDataInv, NEW w \in PvWorkers, NEW new, PvMoves(w, new)
    PROVE  pvWork'[w] = new /\ \A v \in PvWorkers : v # w => pvWork'[v] = pvWork[v]
BY DEF PvDataInv, PvMoves

LEMMA PvMovesKeep ==
    ASSUME PvDataInv, PvWorkInv, PvLockInv, pvType' = pvType, NEW w \in PvWorkers, NEW new, PvMoves(w, new)
    PROVE  PvWorkInv' /\ PvLockInv'
<1>1. \A work : PvWorkFits(work)' <=> PvWorkFits(work)
  BY DEF PvWorkFits, PvDocFits, PvOwnRevs
<1>2. pvWork'[w] = new /\ \A v \in PvWorkers : v # w => pvWork'[v] = pvWork[v]
  BY PvMoved
<1>3. PvWorkInv'
  BY <1>1, <1>2 DEF PvWorkInv, PvMoves
<1>4. ASSUME NEW v \in PvWorkers PROVE PvHolds(pvWork'[v]) <=> pvLock' = v
  BY <1>2 DEF PvLockInv, PvMoves
<1> QED BY <1>3, <1>4 DEF PvLockInv, PvHolds

-----------------------------------------------------------------------------
LEMMA PvRefIs ==
    ASSUME NEW n \in {"", "main", "v1"}, NEW r \in {PvNoRev} \cup PvRevs
    PROVE  [name |-> n, rev |-> r] \in PvRefs
BY DEF PvRefs

LEMMA PvResolvedIs ==
    ASSUME PvDataInv, pvType = "git", NEW name \in {"main", "v1"}
    PROVE  PvResolved(name) \in PvRefs /\ PvResolved(name).rev \in PvOwnRevs
<1>1. 1 \in 1..PvMaxVersion /\ pvNow \in 1..PvMaxVersion
  BY PvNumbers DEF PvDataInv
<1>2. PvOwnRevs = 1..PvMaxVersion /\ 1..PvMaxVersion \subseteq PvRevs
  BY DEF PvOwnRevs, PvRevs
<1> DEFINE rev == IF name = "main" THEN pvNow ELSE 1
<1>3. rev \in 1..PvMaxVersion
  BY <1>1
<1>4. PvResolved(name) = [name |-> name, rev |-> rev]
  BY DEF PvResolved
<1>5. rev \in PvOwnRevs /\ rev \in {PvNoRev} \cup PvRevs
  BY <1>2, <1>3
<1> HIDE DEF rev
<1>6. PvResolved(name).rev \in PvOwnRevs
  BY <1>4, <1>5
<1>7. [name |-> name, rev |-> rev] \in PvRefs
  BY <1>5, PvRefIs
<1> QED BY <1>4, <1>6, <1>7

\* What a request takes with it.
PvAsks(w) ==
    PvUpdateSource(w) \/ PvSetEnabled(w) \/ PvSetWatcher(w) \/ PvSelectRef(w) \/ PvUploadSchema(w) \/ PvRefreshSource(w)

LEMMA PvAskedMoves ==
    ASSUME PvDataInv, PvWorkInv, PvLockInv, NEW w \in PvWorkers, NEW new \in PvWork, PvWorkFits(new),
           new.pc \in {"put", "lock"}, PvAsked(w, new)
    PROVE  PvMoves(w, new) /\ pvWork[w].pc = "idle"
<1>1. pvWork[w] = PvIdle /\ pvLock' = pvLock /\ pvWork' = [pvWork EXCEPT ![w] = new]
  BY DEF PvAsked, PvFree, PvGoto
<1>2. ~PvHolds(pvWork[w]) /\ ~PvHolds(new)
  BY <1>1, PvGoneFits DEF PvHolds, PvCompiling, PvAnnouncing
<1>3. pvLock \in {0} \cup PvWorkers
  BY DEF PvDataInv
<1> QED BY <1>1, <1>2, <1>3, PvGoneFits DEF PvMoves, PvLockInv

LEMMA PvAskIs ==
    ASSUME PvDataInv, PvWorkInv, PvLockInv, NEW w \in PvWorkers, PvAsks(w)
    PROVE  \E new \in PvWork : /\ PvMoves(w, new) /\ new.pc \in {"put", "lock"} /\ new.op # "delete"
                               /\ (new.pc = "put" => new.base = pvDoc)
                               /\ pvWork[w].pc = "idle" /\ PvAsked(w, new)
<1> SUFFICES \E new \in PvWork : /\ PvWorkFits(new) /\ new.pc \in {"put", "lock"} /\ new.op # "delete"
                                 /\ (new.pc = "put" => new.base = pvDoc) /\ PvAsked(w, new)
  BY PvAskedMoves
<1>0. /\ PvIdle \in PvWork /\ pvDoc \in PvDocs /\ PvDocFits(pvDoc) /\ PvDocFits(PvGone)
      /\ pvType \in {"local", "git", "upload"}
  BY PvRecords, PvGoneFits DEF PvDataInv
\* A request that writes the document at once.
<1>1. ASSUME NEW doc \in PvDocs, NEW op \in {"update", "enable", "watcher"},
             PvAsked(w, [PvIdle EXCEPT !.op = op, !.pc = "put", !.base = pvDoc, !.doc = doc]),
             doc.active = pvDoc.active, doc.ref = pvDoc.ref, doc.there,
             op # "enable" => doc.enabled = pvDoc.enabled, op # "watcher" => doc.watcher = pvDoc.watcher,
             op = "watcher" => pvType = "local"
      PROVE  \E new \in PvWork : /\ PvWorkFits(new) /\ new.pc \in {"put", "lock"} /\ new.op # "delete"
                                 /\ (new.pc = "put" => new.base = pvDoc) /\ PvAsked(w, new)
  <2> DEFINE new == [PvIdle EXCEPT !.op = op, !.pc = "put", !.base = pvDoc, !.doc = doc]
  <2>1. new \in PvWork /\ new.pc = "put" /\ new.op = op /\ new.base = pvDoc /\ new.doc = doc
    BY <1>0 DEF PvWork
  <2>2. PvAsked(w, new)
    BY <1>1
  <2>3. PvDocFits(doc)
    BY <1>0, <1>1 DEF PvDocFits
  <2> HIDE DEF new
  <2>4. PvWorkFits(new)
    BY <1>0, <1>1, <2>1, <2>3 DEF PvWorkFits, PvCompiling, PvAnnouncing
  <2> QED BY <2>1, <2>2, <2>4
\* One that compiles.
<1>2. ASSUME NEW new \in PvWork, new.pc = "lock", new.op \in PvCompiles, new.base = PvGone, new.doc = PvGone,
             new.ref.rev \in PvOwnRevs, new.ok, new.op = "upload" => pvType = "upload", PvAsked(w, new)
      PROVE  \E work \in PvWork : /\ PvWorkFits(work) /\ work.pc \in {"put", "lock"} /\ work.op # "delete"
                                  /\ (work.pc = "put" => work.base = pvDoc) /\ PvAsked(w, work)
  <2>1. PvWorkFits(new)
    BY <1>0, <1>2 DEF PvWorkFits, PvCompiling, PvAnnouncing
  <2> QED BY <1>2, <2>1 DEF PvCompiles
<1>3. CASE PvUpdateSource(w)
  <2>1. [pvDoc EXCEPT !.set = 1 - @] \in PvDocs
    BY <1>0 DEF PvDocs
  <2>2. pvDoc.there
    BY <1>3 DEF PvUpdateSource, PvAsked
  <2> QED BY <1>0, <1>1, <1>3, <2>1, <2>2 DEF PvUpdateSource, PvDocs
<1>4. CASE PvSetEnabled(w)
  <2>1. PICK b \in BOOLEAN : PvAsked(w, [PvIdle EXCEPT !.op = "enable", !.pc = "put", !.base = pvDoc,
                                                       !.doc = [pvDoc EXCEPT !.enabled = b]])
    BY <1>4 DEF PvSetEnabled
  <2>2. [pvDoc EXCEPT !.enabled = b] \in PvDocs /\ pvDoc.there
    BY <1>0, <2>1 DEF PvDocs, PvAsked
  <2> QED BY <1>0, <1>1, <2>1, <2>2 DEF PvDocs
<1>5. CASE PvSetWatcher(w)
  <2>1. PICK b \in BOOLEAN : PvAsked(w, [PvIdle EXCEPT !.op = "watcher", !.pc = "put", !.base = pvDoc,
                                                       !.doc = [pvDoc EXCEPT !.watcher = b]])
    BY <1>5 DEF PvSetWatcher
  <2>2. [pvDoc EXCEPT !.watcher = b] \in PvDocs /\ pvDoc.there /\ pvType = "local"
    BY <1>0, <1>5, <2>1 DEF PvDocs, PvAsked, PvSetWatcher
  <2> QED BY <1>0, <1>1, <2>1, <2>2 DEF PvDocs
<1>6. CASE PvSelectRef(w)
  <2>1. PICK n \in {"main", "v1"} : PvAsked(w, [PvIdle EXCEPT !.op = "select", !.pc = "lock", !.ref = PvResolved(n)])
    BY <1>6 DEF PvSelectRef
  <2>2. PvResolved(n) \in PvRefs /\ PvResolved(n).rev \in PvOwnRevs
    BY <1>6, PvResolvedIs DEF PvSelectRef
  <2> DEFINE new == [PvIdle EXCEPT !.op = "select", !.pc = "lock", !.ref = PvResolved(n)]
  <2>3. new \in PvWork /\ new.pc = "lock" /\ new.op = "select" /\ new.base = PvGone /\ new.doc = PvGone
        /\ new.ref = PvResolved(n) /\ new.ok
    BY <1>0, <2>2, PvGoneFits DEF PvWork
  <2> HIDE DEF new
  <2> QED BY <1>2, <2>1, <2>2, <2>3 DEF PvCompiles, new
<1>7. CASE PvUploadSchema(w)
  <2>1. PICK c \in 1..PvMaxVersion :
            PvAsked(w, [PvIdle EXCEPT !.op = "upload", !.pc = "lock", !.ref.rev = c, !.of = c, !.set = pvDoc.set])
    BY <1>7 DEF PvUploadSchema
  <2>2. pvType = "upload" /\ c \in PvOwnRevs /\ c \in PvRevs /\ c \in 0..PvMaxVersion /\ pvDoc.set \in {0, 1}
    BY <1>0, <1>7, PvNumbers DEF PvUploadSchema, PvOwnRevs, PvRevs, PvDocs
  <2> DEFINE new == [PvIdle EXCEPT !.op = "upload", !.pc = "lock", !.ref.rev = c, !.of = c, !.set = pvDoc.set]
  <2>3. new \in PvWork /\ new.pc = "lock" /\ new.op = "upload" /\ new.base = PvGone /\ new.doc = PvGone /\ new.ref.rev = c
        /\ new.ok
    BY <1>0, <2>2, PvGoneFits DEF PvWork, PvRefs
  <2> HIDE DEF new
  <2> QED BY <1>2, <2>1, <2>2, <2>3 DEF PvCompiles, new
<1>8. CASE PvRefreshSource(w)
  <2>1. CASE pvType = "git"
    <3> DEFINE new == [PvIdle EXCEPT !.op = "refresh", !.pc = "lock", !.ref = PvResolved(pvDoc.ref.name)]
    <3>1. pvDoc.ref.name # "" /\ PvAsked(w, new)
      BY <1>8, <2>1 DEF PvRefreshSource
    <3>2. PvResolved(pvDoc.ref.name) \in PvRefs /\ PvResolved(pvDoc.ref.name).rev \in PvOwnRevs
      <4>1. pvDoc.ref.name \in {"main", "v1"}
        BY <1>0, <3>1 DEF PvDocs, PvRefs
      <4> QED BY <2>1, <4>1, PvResolvedIs
    <3>3. new \in PvWork /\ new.pc = "lock" /\ new.op = "refresh" /\ new.base = PvGone /\ new.doc = PvGone
          /\ new.ref = PvResolved(pvDoc.ref.name) /\ new.ok
      BY <1>0, <3>2, PvGoneFits DEF PvWork
    <3> HIDE DEF new
    <3> QED BY <1>2, <3>1, <3>2, <3>3 DEF PvCompiles
  <2>2. CASE pvType = "upload"
    <3> DEFINE new == [PvIdle EXCEPT !.op = "refresh", !.pc = "lock", !.ref.rev = pvDoc.active, !.of = pvDoc.active,
                                     !.set = pvDoc.set]
    <3>1. pvDoc.active # PvNoRev /\ PvAsked(w, new)
      BY <1>8, <2>2 DEF PvRefreshSource
    <3>2. pvDoc.active \in PvOwnRevs /\ pvDoc.active \in PvRevs /\ pvDoc.active \in 0..PvMaxVersion
          /\ pvDoc.set \in {0, 1}
      BY <1>0, <2>2, <3>1, PvNumbers DEF PvDocFits, PvOwnRevs, PvRevs, PvDocs
    <3>3. new \in PvWork /\ new.pc = "lock" /\ new.op = "refresh" /\ new.base = PvGone /\ new.doc = PvGone
          /\ new.ref.rev = pvDoc.active /\ new.ok
      BY <1>0, <3>2, PvGoneFits DEF PvWork, PvRefs
    <3> HIDE DEF new
    <3> QED BY <1>2, <3>1, <3>2, <3>3 DEF PvCompiles
  <2>3. CASE pvType = "local"
    <3> DEFINE new == [PvIdle EXCEPT !.op = "refresh", !.pc = "lock", !.ref.rev = PvLocalRevision, !.set = pvDoc.set]
    <3>1. PvAsked(w, new)
      BY <1>8, <2>3 DEF PvRefreshSource
    <3>2. PvLocalRevision \in PvOwnRevs /\ PvLocalRevision \in PvRevs /\ pvDoc.set \in {0, 1}
      BY <1>0, <2>3 DEF PvOwnRevs, PvRevs, PvDocs
    <3>3. new \in PvWork /\ new.pc = "lock" /\ new.op = "refresh" /\ new.base = PvGone /\ new.doc = PvGone
          /\ new.ref.rev = PvLocalRevision /\ new.ok
      BY <1>0, <3>2, PvGoneFits DEF PvWork, PvRefs
    <3> HIDE DEF new
    <3> QED BY <1>2, <3>1, <3>2, <3>3 DEF PvCompiles
  <2> QED BY <1>0, <2>1, <2>2, <2>3
<1> QED BY <1>3, <1>4, <1>5, <1>6, <1>7, <1>8 DEF PvAsks

\* Where a goroutine is after it wrote the document, or found it gone.
PvAftermath(w, new) ==
    LET work == pvWork[w] IN
    /\ new.pc \in {"idle", "watch", "inv", "load", "patch"} /\ new.op # "delete"
    /\ new.pc = "watch" => new.op = work.op /\ new.doc = work.doc /\ work.op \in {"enable", "watcher"}
    /\ new.pc = "patch" => new.ref = work.ref /\ work.pc \in {"record", "recordPut"} /\ work.ok
    /\ work.op = "enable" => new.pc = IF pvType = "local" THEN "watch" ELSE "inv"
    /\ work.op = "watcher" => new.pc = "watch"
    /\ work.pc \in {"patch", "patchPut"} \/ (work.pc \in {"record", "recordPut"} /\ work.ok)
          => new.pc \in {"inv", "load", "patch"}

\* A new place, the lock as it says, and what is carried there.
LEMMA PvAfterMoves ==
    ASSUME PvDataInv, PvWorkInv, PvLockInv, NEW w \in PvWorkers, NEW new \in PvWork, PvWorkFits(new),
           pvWork' = [pvWork EXCEPT ![w] = new],
           \/ pvLock' = pvLock /\ (PvHolds(new) <=> PvHolds(pvWork[w]))
           \/ pvLock' = 0 /\ pvLock = w /\ ~PvHolds(new)
           \/ pvLock = 0 /\ pvLock' = w /\ PvHolds(new)
    PROVE  PvMoves(w, new)
<1>1. 0 \notin PvWorkers /\ pvLock \in {0} \cup PvWorkers
  BY PvNumbers DEF PvDataInv
<1>2. PvHolds(pvWork[w]) <=> pvLock = w
  BY DEF PvLockInv
<1> QED BY <1>1, <1>2 DEF PvMoves

LEMMA PvAfterIs ==
    ASSUME PvDataInv, PvWorkInv, PvLockInv, NEW w \in PvWorkers,
           pvWork[w].pc \in {"put", "record", "recordPut", "patch", "patchPut"}, PvAfterPut(w)
    PROVE  \E new \in PvWork : PvMoves(w, new) /\ PvAftermath(w, new)
<1> DEFINE work == pvWork[w]
<1> DEFINE next ==
        CASE work.op = "update" -> "done"
          [] work.op = "watcher" -> "watch"
          [] work.op = "enable" -> IF pvType = "local" THEN "watch" ELSE "inv"
          [] OTHER -> IF ~work.ok THEN "done"
                      ELSE IF work.pc \in {"patch", "patchPut"} THEN "inv"
                      ELSE IF pvType = "git" THEN "patch"
                      ELSE IF work.op = "upload" THEN "inv"
                      ELSE "load"
<1> DEFINE new ==
        CASE next = "done" -> PvIdle
          [] next \in {"inv", "load"} -> [PvIdle EXCEPT !.op = work.op, !.pc = next]
          [] next = "watch" -> [work EXCEPT !.pc = next, !.base = PvGone]
          [] next = "patch" -> [work EXCEPT !.pc = next, !.base = PvGone, !.doc = PvGone]
<1>0. /\ work \in PvWork /\ PvWorkFits(work) /\ work.pc \in {"put", "record", "recordPut", "patch", "patchPut"}
      /\ PvDocFits(PvGone) /\ PvGone \in PvDocs /\ PvIdle \in PvWork
      /\ PvDocFits(work.doc) /\ work.doc \in PvDocs
  BY PvGoneFits, PvRecords DEF PvWorkInv, PvWorkFits, PvWork
<1>1. pvLock' = (IF pvLock = w /\ (next = "done" \/ work.op = "upload") THEN 0 ELSE pvLock)
      /\ pvWork' = [pvWork EXCEPT ![w] = new]
  BY DEF PvAfterPut, PvGoto
<1>2. /\ work.pc = "put" => work.op \in {"update", "enable", "watcher"} /\ (work.op = "watcher" => pvType = "local")
      /\ work.pc # "put" => /\ work.op \in PvCompiles /\ work.ref.rev \in PvOwnRevs
                            /\ (work.op = "upload" => pvType = "upload")
      /\ work.pc \in {"patch", "patchPut"} => pvType = "git" /\ work.ok
  BY <1>0 DEF PvWorkFits, PvCompiling
<1>3. PvHolds(work) <=> pvLock = w
  BY DEF PvLockInv
<1>4. PvHolds(work) <=> work.pc # "put"
  BY <1>0 DEF PvHolds, PvCompiling, PvAnnouncing
<1>5. next \in {"done", "watch", "inv", "load", "patch"}
  OBVIOUS
<1>6. CASE next = "done"
  <2>1. new = PvIdle
    BY <1>6
  <2>2. work.op # "enable" /\ work.op # "watcher" /\ (work.op = "update" \/ ~work.ok)
    BY <1>6
  <2> HIDE DEF new, next
  <2>3. PvWorkFits(PvIdle) /\ ~PvHolds(PvIdle)
    BY <1>0, PvGoneFits DEF PvWorkFits, PvHolds, PvCompiling, PvAnnouncing
  <2>4. PvMoves(w, PvIdle)
    BY <1>0, <1>1, <1>3, <1>6, <2>1, <2>3, PvAfterMoves
  <2>5. work.pc \in {"patch", "patchPut"} \/ work.pc \in {"record", "recordPut"} => ~work.ok /\ work.pc \notin {"patch", "patchPut"}
    BY <1>0, <1>2, <2>2 DEF PvCompiles
  <2>6. PvAftermath(w, PvIdle)
    BY <1>0, <2>2, <2>5, PvGoneFits DEF PvAftermath
  <2> QED BY <1>0, <2>4, <2>6
<1>7. CASE next \in {"inv", "load"}
  <2>1. new = [PvIdle EXCEPT !.op = work.op, !.pc = next]
    BY <1>7
  <2>2. /\ work.op = "enable" => next = "inv" /\ pvType # "local"
        /\ work.op # "enable" => work.op \in PvCompiles /\ work.pc # "put" /\ work.ok
        /\ work.op # "watcher"
    BY <1>0, <1>2, <1>7 DEF PvCompiles
  <2> HIDE DEF new, next
  <2>3. new \in PvWork /\ new.pc = next /\ new.op = work.op /\ new.base = PvGone /\ new.doc = PvGone
    BY <1>0, <1>7, <2>1, PvGoneFits DEF PvWork
  <2>4. PvWorkFits(new)
    BY <1>0, <1>7, <2>2, <2>3 DEF PvWorkFits, PvCompiling, PvAnnouncing
  <2>5. PvHolds(new) <=> work.op \in PvCompiles \ {"upload"}
    BY <1>7, <2>3 DEF PvHolds, PvCompiling, PvAnnouncing
  <2>6. work.pc = "put" => work.op = "enable"
    BY <2>2
  <2>7. "enable" \notin PvCompiles
    BY DEF PvCompiles
  <2>8. work.op = "upload" => work.op \in PvCompiles
    BY <2>2
  <2>9. work.op \in PvCompiles \ {"upload"} => work.pc # "put" /\ pvLock = w /\ pvLock' = pvLock
    BY <1>1, <1>3, <1>4, <1>7, <2>6, <2>7
  <2>10. work.op = "upload" => pvLock = w /\ pvLock' = 0
    BY <1>1, <1>3, <1>4, <2>6
  <2>11. work.op = "enable" => pvLock' = pvLock /\ ~PvHolds(work)
    BY <1>0, <1>1, <1>2, <1>4, <1>7, <2>7
  <2>12. PvMoves(w, new)
    BY <1>1, <1>3, <2>2, <2>3, <2>4, <2>5, <2>7, <2>9, <2>10, <2>11, PvAfterMoves
  <2>13. PvAftermath(w, new)
    BY <1>0, <1>7, <2>2, <2>3 DEF PvAftermath, PvCompiles
  <2> QED BY <2>3, <2>12, <2>13
<1>8. CASE next = "watch"
  <2>1. new = [work EXCEPT !.pc = "watch", !.base = PvGone]
    BY <1>8
  <2>2. work.op \in {"watcher", "enable"} /\ pvType = "local"
    BY <1>0, <1>2, <1>8 DEF PvCompiles
  <2> HIDE DEF new, next
  <2>3. /\ new \in PvWork /\ new.pc = "watch" /\ new.op = work.op /\ new.base = PvGone /\ new.doc = work.doc
        /\ new.ref = work.ref
    BY <1>0, <2>1 DEF PvWork
  <2>4. work.pc = "put"
    BY <1>2, <2>2 DEF PvCompiles
  <2>5. PvWorkFits(new) /\ ~PvHolds(new)
    BY <1>0, <2>2, <2>3 DEF PvWorkFits, PvHolds, PvCompiling, PvAnnouncing
  <2>6. PvMoves(w, new)
    BY <1>1, <1>3, <1>4, <2>3, <2>4, <2>5, PvAfterMoves
  <2>7. PvAftermath(w, new)
    BY <1>0, <2>2, <2>3, <2>4 DEF PvAftermath
  <2> QED BY <2>3, <2>6, <2>7
<1>9. CASE next = "patch"
  <2>1. new = [work EXCEPT !.pc = "patch", !.base = PvGone, !.doc = PvGone]
    BY <1>9
  <2>2. work.op \notin {"update", "watcher", "enable"} /\ pvType = "git" /\ work.ok /\ work.pc \notin {"patch", "patchPut"}
    BY <1>9
  <2> HIDE DEF new, next
  <2>3. /\ new \in PvWork /\ new.pc = "patch" /\ new.op = work.op /\ new.base = PvGone /\ new.doc = PvGone
        /\ new.ref = work.ref /\ new.ok = work.ok
    BY <1>0, <2>1 DEF PvWork
  <2>4. work.pc \in {"record", "recordPut"} /\ work.op \in PvCompiles /\ work.op # "upload"
    BY <1>0, <1>2, <2>2
  <2>5. PvWorkFits(new) /\ PvHolds(new)
    BY <1>0, <1>2, <2>2, <2>3, <2>4 DEF PvWorkFits, PvHolds, PvCompiling, PvAnnouncing
  <2>6. PvMoves(w, new)
    BY <1>1, <1>3, <1>4, <1>9, <2>3, <2>4, <2>5, PvAfterMoves
  <2>7. PvAftermath(w, new)
    BY <1>0, <2>2, <2>3, <2>4 DEF PvAftermath, PvCompiles
  <2> QED BY <2>3, <2>6, <2>7
<1> QED BY <1>5, <1>6, <1>7, <1>8, <1>9

-----------------------------------------------------------------------------
\* Every other step, by the place it leaves and the one it goes to.
LEMMA PvDeleteIs ==
    ASSUME PvDataInv, PvWorkInv, PvLockInv, NEW w \in PvWorkers, PvDeleteSource(w)
    PROVE  \E new \in PvWork : /\ PvMoves(w, new) /\ new.pc = "watch" /\ new.op = "delete"
                               /\ pvWork[w].pc = "idle" /\ pvDoc' = PvGone
<1> DEFINE new == [PvIdle EXCEPT !.op = "delete", !.pc = "watch"]
<1>1. pvWork[w] = PvIdle /\ pvLock' = pvLock /\ pvWork' = [pvWork EXCEPT ![w] = new] /\ pvDoc' = PvGone
  BY DEF PvDeleteSource, PvFree, PvGoto
<1>2. new \in PvWork /\ new.pc = "watch" /\ new.op = "delete" /\ new.base = PvGone /\ new.doc = PvGone
  BY PvFresh DEF PvPlaces
<1> HIDE DEF new
<1>3. PvWorkFits(new) /\ ~PvHolds(new) /\ ~PvHolds(pvWork[w])
  BY <1>1, <1>2, PvGoneFits DEF PvWorkFits, PvHolds, PvCompiling, PvAnnouncing
<1> QED BY <1>1, <1>2, <1>3, PvAfterMoves, PvGoneFits

\* To another place with the fields as they are, the lock too.
LEMMA PvSteps ==
    ASSUME PvDataInv, PvWorkInv, PvLockInv, NEW w \in PvWorkers, NEW pc \in PvPlaces, PvStep(w, pc), pvLock' = pvLock,
           PvWorkFits([pvWork[w] EXCEPT !.pc = pc]),
           PvHolds(pvWork[w]) <=> PvHolds([pvWork[w] EXCEPT !.pc = pc])
    PROVE  PvMoves(w, [pvWork[w] EXCEPT !.pc = pc])
<1>1. pvWork[w] \in PvWork /\ pvWork' = [pvWork EXCEPT ![w] = [pvWork[w] EXCEPT !.pc = pc]]
  BY DEF PvWorkInv, PvStep, PvGoto
<1> QED BY <1>1, PvGoing, PvAfterMoves

\* The places one goes to from another with nothing else changed.
PvFollows(from, to) ==
    \/ from = "drop" /\ to = "inv"
    \/ from = "look" /\ to = "patch"
    \/ from = "save" /\ to = "saved"
    \/ from = "saved" /\ to \in {"prune", "record"}
    \/ from = "prune" /\ to = "record"
    \/ from = "inv" /\ to = "load"
    \/ from = "load" /\ to = "tell"

LEMMA PvStepIs ==
    ASSUME PvDataInv, PvWorkInv, PvLockInv, NEW w \in PvWorkers, NEW to, PvStep(w, to), pvLock' = pvLock,
           PvFollows(pvWork[w].pc, to), to = "patch" => pvWork[w].ok
    PROVE  \E new \in PvWork : /\ PvMoves(w, new) /\ new.pc = to /\ new.op = pvWork[w].op /\ new.ok = pvWork[w].ok
                               /\ new.ref = pvWork[w].ref /\ new.of = pvWork[w].of /\ new.set = pvWork[w].set
<1> DEFINE new == [pvWork[w] EXCEPT !.pc = to]
<1>1. to \in PvPlaces /\ pvWork[w] \in PvWork /\ PvWorkFits(pvWork[w])
  BY DEF PvFollows, PvPlaces, PvWorkInv
<1>2. /\ new \in PvWork /\ new.pc = to /\ new.op = pvWork[w].op /\ new.base = pvWork[w].base
      /\ new.doc = pvWork[w].doc /\ new.ref = pvWork[w].ref /\ new.of = pvWork[w].of /\ new.set = pvWork[w].set
      /\ new.ok = pvWork[w].ok
  BY <1>1, PvGoing
<1>3. PvStep(w, to) /\ (PvMoves(w, new) => PvMoves(w, [pvWork[w] EXCEPT !.pc = to]))
  OBVIOUS
<1> HIDE DEF new
<1>4. PvWorkFits(new)
  BY <1>1, <1>2 DEF PvFollows, PvWorkFits, PvCompiling, PvAnnouncing
<1>5. PvHolds(pvWork[w]) <=> PvHolds(new)
  <2>1. pvWork[w].pc = "drop" => pvWork[w].op \notin PvCompiles
    BY <1>1 DEF PvWorkFits, PvCompiles
  <2> QED BY <1>1, <1>2, <2>1 DEF PvFollows, PvHolds, PvCompiling, PvAnnouncing
<1>6. PvMoves(w, new)
  BY <1>1, <1>4, <1>5, PvSteps DEF new
<1> QED BY <1>2, <1>6

\* A goroutine that ends.
LEMMA PvEnds ==
    ASSUME PvDataInv, PvWorkInv, PvLockInv, NEW w \in PvWorkers, PvDone(w)
    PROVE  PvMoves(w, PvIdle)
<1>1. pvWork' = [pvWork EXCEPT ![w] = PvIdle] /\ pvLock' = IF pvLock = w THEN 0 ELSE pvLock
  BY DEF PvDone, PvGoto
<1>2. PvIdle \in PvWork /\ PvWorkFits(PvIdle) /\ ~PvHolds(PvIdle)
  BY PvGoneFits, PvRecords DEF PvWorkFits, PvHolds, PvCompiling, PvAnnouncing
<1>3. PvHolds(pvWork[w]) <=> pvLock = w
  BY DEF PvLockInv
<1> QED BY <1>1, <1>2, <1>3, PvAfterMoves

\* One that leaves a place where it has no lock, with nothing more to do.
LEMMA PvLeaves ==
    ASSUME PvDataInv, PvWorkInv, PvLockInv, NEW w \in PvWorkers, PvGoto(w, PvIdle), pvLock' = pvLock, ~PvHolds(pvWork[w])
    PROVE  PvMoves(w, PvIdle)
<1>1. pvWork' = [pvWork EXCEPT ![w] = PvIdle]
  BY DEF PvGoto
<1>2. PvIdle \in PvWork /\ PvWorkFits(PvIdle) /\ ~PvHolds(PvIdle)
  BY PvGoneFits, PvRecords DEF PvWorkFits, PvHolds, PvCompiling, PvAnnouncing
<1> QED BY <1>1, <1>2, PvAfterMoves

\* The document is written, if it is there.
LEMMA PvPutIs ==
    ASSUME PvDataInv, PvWorkInv, PvLockInv, NEW w \in PvWorkers, PvPut(w)
    PROVE  /\ pvWork[w].pc \in {"put", "recordPut", "patchPut"}
           /\ \/ /\ pvDoc.there /\ pvDoc' = pvWork[w].doc /\ pvLost' = (pvLost \/ pvDoc # pvWork[w].base)
                 /\ \E new \in PvWork : PvMoves(w, new) /\ PvAftermath(w, new)
              \/ /\ ~pvDoc.there /\ UNCHANGED <<pvDoc, pvLost>>
                 /\ \E new \in PvWork : PvMoves(w, new) /\ (new = PvIdle \/ PvAftermath(w, new))
<1>1. pvWork[w].pc \in {"put", "recordPut", "patchPut"}
  BY DEF PvPut
<1>2. CASE pvDoc.there
  <2>1. PvAfterPut(w) /\ pvDoc' = pvWork[w].doc /\ pvLost' = (pvLost \/ pvDoc # pvWork[w].base)
    BY <1>2 DEF PvPut
  <2> QED BY <1>1, <1>2, <2>1, PvAfterIs
<1>3. CASE ~pvDoc.there
  <2>1. UNCHANGED <<pvDoc, pvLost>> /\ (PvDone(w) \/ PvAfterPut(w))
    BY <1>3 DEF PvPut
  <2> QED BY <1>1, <1>3, <2>1, PvAfterIs, PvEnds, PvRecords
<1> QED BY <1>2, <1>3

\* It is read anew for the write; without one there is nothing to write.
LEMMA PvRereadIs ==
    ASSUME PvDataInv, PvWorkInv, PvLockInv, NEW w \in PvWorkers, PvRecord(w) \/ PvPatch(w)
    PROVE  /\ pvWork[w].pc \in {"record", "patch"}
           /\ \/ /\ pvDoc.there
                 /\ \E new \in PvWork : /\ PvMoves(w, new) /\ new.base = pvDoc /\ new.ok = pvWork[w].ok
                                        /\ new.ref = pvWork[w].ref /\ new.op = pvWork[w].op
                                        /\ new.pc = IF pvWork[w].pc = "record" THEN "recordPut" ELSE "patchPut"
              \/ ~pvDoc.there /\ \E new \in PvWork : PvMoves(w, new) /\ PvAftermath(w, new)
<1>0. /\ pvWork[w] \in PvWork /\ PvWorkFits(pvWork[w]) /\ pvDoc \in PvDocs /\ PvDocFits(pvDoc)
      /\ pvWork[w].ref \in PvRefs /\ pvWork[w].ref.rev \in {PvNoRev} \cup PvRevs /\ pvWork[w].ok \in BOOLEAN
      /\ pvDoc.active \in {PvNoRev} \cup PvRevs
  BY DEF PvWorkInv, PvDataInv, PvWork, PvRefs, PvDocs
<1>1. pvWork[w].pc \in {"record", "patch"} /\ pvLock = pvLock
  BY DEF PvRecord, PvPatch
<1>2. CASE ~pvDoc.there
  <2>1. PvAfterPut(w)
    BY <1>2 DEF PvRecord, PvPatch, PvReread
  <2> QED BY <1>1, <1>2, <2>1, PvAfterIs
<1>3. ASSUME NEW doc \in PvDocs, NEW pc \in {"recordPut", "patchPut"}, pvDoc.there, UNCHANGED pvLock,
             PvGoto(w, [pvWork[w] EXCEPT !.pc = pc, !.base = pvDoc, !.doc = doc]), doc.there,
             doc.enabled = pvDoc.enabled, doc.watcher = pvDoc.watcher, PvDocFits(doc),
             pvWork[w].pc = "record" <=> pc = "recordPut",
             pc = "recordPut" => /\ doc.ref = pvDoc.ref
                                 /\ doc.active = IF pvWork[w].ok /\ pvType # "git" THEN pvWork[w].ref.rev ELSE pvDoc.active,
             pc = "patchPut" => doc.ref = pvWork[w].ref /\ doc.active = pvWork[w].ref.rev
      PROVE  \E new \in PvWork : /\ PvMoves(w, new) /\ new.base = pvDoc /\ new.ok = pvWork[w].ok
                                 /\ new.ref = pvWork[w].ref /\ new.op = pvWork[w].op
                                 /\ new.pc = IF pvWork[w].pc = "record" THEN "recordPut" ELSE "patchPut"
  <2> DEFINE new == [pvWork[w] EXCEPT !.pc = pc, !.base = pvDoc, !.doc = doc]
  <2>1. /\ new \in PvWork /\ new.pc = pc /\ new.base = pvDoc /\ new.doc = doc /\ new.ok = pvWork[w].ok
        /\ new.ref = pvWork[w].ref /\ new.op = pvWork[w].op
    BY <1>0 DEF PvWork
  <2>2. pvWork' = [pvWork EXCEPT ![w] = new]
    BY <1>3 DEF PvGoto
  <2> HIDE DEF new
  <2>3. PvWorkFits(new)
    BY <1>0, <1>1, <1>3, <2>1 DEF PvWorkFits, PvCompiling, PvAnnouncing
  <2>4. PvHolds(new) /\ PvHolds(pvWork[w])
    BY <1>1, <1>3, <2>1 DEF PvHolds, PvCompiling
  <2>5. PvMoves(w, new)
    BY <1>3, <2>1, <2>2, <2>3, <2>4, PvAfterMoves
  <2> QED BY <1>1, <1>3, <2>1, <2>5
<1>4. CASE pvDoc.there /\ PvRecord(w)
  <2> DEFINE active == IF pvWork[w].ok /\ pvType # "git" THEN pvWork[w].ref.rev ELSE pvDoc.active
  <2> DEFINE doc == [pvDoc EXCEPT !.ok = pvWork[w].ok, !.active = active]
  <2>1. /\ PvGoto(w, [pvWork[w] EXCEPT !.pc = "recordPut", !.base = pvDoc, !.doc = doc]) /\ UNCHANGED pvLock
        /\ pvWork[w].pc = "record"
    BY <1>4 DEF PvRecord, PvReread
  <2>2. active \in {PvNoRev} \cup PvRevs
    BY <1>0
  <2>3. active \in {PvNoRev} \cup PvOwnRevs /\ (pvType = "git" => active = pvDoc.active)
    BY <1>0, <2>1 DEF PvWorkFits, PvDocFits, PvCompiling
  <2> HIDE DEF active
  <2>4. /\ doc \in PvDocs /\ doc.there /\ doc.enabled = pvDoc.enabled /\ doc.watcher = pvDoc.watcher
        /\ doc.ref = pvDoc.ref /\ doc.active = active
    BY <1>0, <1>4, <2>2 DEF PvDocs
  <2> HIDE DEF doc
  <2>5. PvDocFits(doc)
    BY <1>0, <2>3, <2>4 DEF PvDocFits
  <2> QED BY <1>1, <1>3, <1>4, <2>1, <2>4, <2>5 DEF active
<1>5. CASE pvDoc.there /\ PvPatch(w)
  <2> DEFINE doc == [pvDoc EXCEPT !.ref = pvWork[w].ref, !.active = pvWork[w].ref.rev]
  <2>1. /\ PvGoto(w, [pvWork[w] EXCEPT !.pc = "patchPut", !.base = pvDoc, !.doc = doc]) /\ UNCHANGED pvLock
        /\ pvWork[w].pc = "patch"
    BY <1>5 DEF PvPatch, PvReread
  <2>2. /\ doc \in PvDocs /\ doc.there /\ doc.enabled = pvDoc.enabled /\ doc.watcher = pvDoc.watcher
        /\ doc.ref = pvWork[w].ref /\ doc.active = pvWork[w].ref.rev
    BY <1>0, <1>5 DEF PvDocs
  <2> HIDE DEF doc
  <2>3. PvDocFits(doc)
    BY <1>0, <2>1, <2>2 DEF PvDocFits, PvWorkFits, PvCompiling
  <2> QED BY <1>1, <1>3, <1>5, <2>1, <2>2, <2>3
<1> QED BY <1>1, <1>2, <1>4, <1>5

\* The watch is set after what the goroutine wrote.
LEMMA PvRewatchIs ==
    ASSUME PvDataInv, PvWorkInv, PvLockInv, NEW w \in PvWorkers, PvRewatch(w)
    PROVE  /\ pvWork[w].pc = "watch" /\ pvWork[w].op \in {"delete", "watcher", "enable"}
           /\ \E new \in PvWork : /\ PvMoves(w, new) /\ new.pc \in {"drop", "inv", "warm", "idle"}
                                  /\ (new.op = "delete" <=> pvWork[w].op = "delete")
                                  /\ (pvWork[w].op = "enable" => new.pc = "inv")
<1> DEFINE work == pvWork[w]
<1>0. work.pc = "watch" /\ work \in PvWork /\ PvWorkFits(work) /\ PvDocFits(PvGone) /\ PvGone \in PvDocs
      /\ pvLock' = pvLock /\ PvIdle \in PvWork
  BY PvGoneFits, PvRecords DEF PvWorkInv, PvRewatch
<1>1. work.op \in {"delete", "watcher", "enable"} /\ ~PvHolds(work)
  BY <1>0 DEF PvWorkFits, PvHolds, PvCompiling, PvAnnouncing
<1>2. CASE work.op = "delete"
  <2> DEFINE new == [work EXCEPT !.pc = "drop"]
  <2>1. pvWork' = [pvWork EXCEPT ![w] = new]
    BY <1>2 DEF PvRewatch, PvStep, PvGoto
  <2>2. new \in PvWork /\ new.pc = "drop" /\ new.op = "delete" /\ new.base = work.base /\ new.doc = work.doc
    BY <1>0, <1>2 DEF PvWork
  <2> HIDE DEF new
  <2>3. PvWorkFits(new) /\ ~PvHolds(new)
    BY <1>0, <2>2 DEF PvWorkFits, PvHolds, PvCompiling, PvAnnouncing
  <2> QED BY <1>0, <1>1, <1>2, <2>1, <2>2, <2>3, PvAfterMoves
<1>3. CASE work.op = "enable"
  <2> DEFINE new == [work EXCEPT !.pc = "inv", !.doc = PvGone]
  <2>1. pvWork' = [pvWork EXCEPT ![w] = new]
    BY <1>3 DEF PvRewatch, PvGoto
  <2>2. new \in PvWork /\ new.pc = "inv" /\ new.op = "enable" /\ new.base = work.base /\ new.doc = PvGone
    BY <1>0, <1>3 DEF PvWork
  <2> HIDE DEF new
  <2>3. PvWorkFits(new) /\ ~PvHolds(new)
    BY <1>0, <2>2 DEF PvWorkFits, PvHolds, PvCompiling, PvAnnouncing, PvCompiles
  <2> QED BY <1>0, <1>1, <1>3, <2>1, <2>2, <2>3, PvAfterMoves
<1>4. CASE work.op = "watcher"
  <2> DEFINE warm == [PvIdle EXCEPT !.op = "warm", !.pc = "warm"]
  <2>1. PvGoto(w, PvIdle) \/ PvGoto(w, warm)
    BY <1>4 DEF PvRewatch
  <2>2. warm \in PvWork /\ warm.pc = "warm" /\ warm.op = "warm" /\ warm.base = PvGone /\ warm.doc = PvGone
    BY PvFresh DEF PvPlaces
  <2> HIDE DEF warm
  <2>3. PvWorkFits(warm) /\ ~PvHolds(warm)
    BY <1>0, <1>4, <2>2 DEF PvWorkFits, PvHolds, PvCompiling, PvAnnouncing
  <2>4. CASE PvGoto(w, warm)
    <3>1. PvMoves(w, warm)
      BY <1>0, <1>1, <2>2, <2>3, <2>4, PvAfterMoves DEF PvGoto
    <3> QED BY <1>0, <1>1, <1>4, <2>2, <3>1
  <2>5. CASE PvGoto(w, PvIdle)
    <3>1. PvMoves(w, PvIdle)
      BY <1>0, <1>1, <2>5, PvLeaves
    <3> QED BY <1>0, <1>1, <1>4, <3>1, PvGoneFits
  <2> QED BY <2>1, <2>4, <2>5
<1> QED BY <1>0, <1>1, <1>2, <1>3, <1>4

\* To wait for the lock with the directory to read, or not.
LEMMA PvLocalWorkIs ==
    ASSUME PvDataInv, pvType = "local", NEW op \in {"warm", "callback"}
    PROVE  LET new == PvLocalWork(op)
           IN  new \in PvWork /\ new.pc = "lock" /\ new.op = op /\ PvWorkFits(new) /\ ~PvHolds(new)
<1> DEFINE new == PvLocalWork(op)
<1>1. PvIdle \in PvWork /\ pvDoc.set \in {0, 1} /\ PvLocalRevision \in PvOwnRevs /\ PvLocalRevision \in PvRevs
      /\ PvDocFits(PvGone)
  BY PvRecords, PvGoneFits DEF PvDataInv, PvDocs, PvOwnRevs, PvRevs
<1>2. /\ new \in PvWork /\ new.pc = "lock" /\ new.op = op /\ new.base = PvGone /\ new.doc = PvGone
      /\ new.ref.rev = PvLocalRevision /\ new.ok
  BY <1>1, PvGoneFits DEF PvLocalWork, PvWork, PvRefs
<1> HIDE DEF new
<1>3. PvWorkFits(new) /\ ~PvHolds(new)
  BY <1>1, <1>2 DEF PvWorkFits, PvHolds, PvCompiling, PvAnnouncing, PvCompiles
<1> QED BY <1>2, <1>3 DEF new

LEMMA PvWaitsIs ==
    ASSUME PvDataInv, PvFlagsInv, PvWorkInv, PvLockInv, NEW w \in PvWorkers, PvWarmUp(w) \/ PvCheck(w)
    PROVE  /\ pvWork[w].pc = IF PvWarmUp(w) THEN "warm" ELSE "check"
           /\ \E new \in PvWork : /\ PvMoves(w, new) /\ new.pc \in {"lock", "idle"} /\ new.op # "delete"
                                  /\ (PvCheck(w) => new.pc = "lock" \/ ~(pvDoc.there /\ pvDoc.enabled /\ pvDoc.watcher))
<1>1. pvWork[w].pc = IF PvWarmUp(w) THEN "warm" ELSE "check"
  BY DEF PvWarmUp, PvCheck
<1>2. pvType = "local" /\ pvLock' = pvLock /\ ~PvHolds(pvWork[w])
  BY DEF PvWarmUp, PvCheck, PvWorkInv, PvWorkFits, PvHolds, PvCompiling, PvAnnouncing
<1>3. PvGoto(w, PvIdle) \/ \E op \in {"warm", "callback"} : PvGoto(w, PvLocalWork(op))
  BY DEF PvWarmUp, PvCheck
<1>4. PvCheck(w) => PvGoto(w, PvLocalWork("callback")) \/ (PvGoto(w, PvIdle) /\ ~(pvDoc.there /\ pvDoc.enabled /\ pvDoc.watcher))
  BY DEF PvCheck
<1>5. ASSUME NEW op \in {"warm", "callback"}, PvGoto(w, PvLocalWork(op))
      PROVE  \E new \in PvWork : PvMoves(w, new) /\ new.pc = "lock" /\ new.op # "delete"
  <2> DEFINE new == PvLocalWork(op)
  <2>1. new \in PvWork /\ new.pc = "lock" /\ new.op = op /\ PvWorkFits(new) /\ ~PvHolds(new)
    BY <1>2, PvLocalWorkIs
  <2>2. pvWork' = [pvWork EXCEPT ![w] = new]
    BY <1>5 DEF PvGoto
  <2> HIDE DEF new
  <2> QED BY <1>2, <2>1, <2>2, PvAfterMoves
<1>6. PvGoto(w, PvIdle) => PvMoves(w, PvIdle) /\ PvIdle.pc = "idle" /\ PvIdle.op # "delete" /\ PvIdle \in PvWork
  BY <1>2, PvLeaves, PvGoneFits, PvRecords
<1> QED BY <1>1, <1>3, <1>4, <1>5, <1>6

LEMMA PvFireIs ==
    ASSUME PvDataInv, PvFlagsInv, PvWorkInv, PvLockInv, NEW w \in PvWorkers, PvFire(w)
    PROVE  pvWork[w].pc = "idle" /\ \E new \in PvWork : PvMoves(w, new) /\ new.pc = "check" /\ new.op = "callback"
<1> DEFINE new == [PvIdle EXCEPT !.op = "callback", !.pc = "check"]
<1>1. pvWork[w] = PvIdle /\ pvTimer /\ pvLock' = pvLock /\ pvWork' = [pvWork EXCEPT ![w] = new]
  BY DEF PvFire, PvFree, PvGoto
<1>2. new \in PvWork /\ new.pc = "check" /\ new.op = "callback" /\ new.base = PvGone /\ new.doc = PvGone
  BY PvFresh DEF PvPlaces
<1>3. pvType = "local"
  BY <1>1 DEF PvFlagsInv
<1> HIDE DEF new
<1>4. PvWorkFits(new) /\ ~PvHolds(new) /\ ~PvHolds(pvWork[w])
  BY <1>1, <1>2, <1>3, PvGoneFits DEF PvWorkFits, PvHolds, PvCompiling, PvAnnouncing
<1> QED BY <1>1, <1>2, <1>4, PvAfterMoves, PvGoneFits

\* The compile begins: with the lock, or not at all.
LEMMA PvCompiledMoves ==
    ASSUME PvDataInv, PvWorkInv, PvLockInv, NEW w \in PvWorkers, NEW work \in PvWork, PvWorkFits(work),
           work.pc \in {"lock", "look"}, PvCompiled(w, work), pvLock = 0 \/ pvLock = w,
           work.pc = "look" <=> pvLock = w
    PROVE  \E new \in PvWork : /\ PvMoves(w, new) /\ new.op = work.op /\ new.ref = work.ref /\ new.of = work.of
                               /\ new.set = work.set
                               /\ new.pc = "save" \/ (new.pc = "record" /\ ~new.ok)
<1>1. PICK ok \in BOOLEAN : PvGoto(w, [work EXCEPT !.pc = IF ok THEN "save" ELSE "record", !.ok = ok])
  BY DEF PvCompiled
<1> DEFINE new == [work EXCEPT !.pc = IF ok THEN "save" ELSE "record", !.ok = ok]
<1>2. pvWork' = [pvWork EXCEPT ![w] = new] /\ pvLock' = w
  BY <1>1 DEF PvCompiled, PvGoto
<1>3. /\ new \in PvWork /\ new.pc = (IF ok THEN "save" ELSE "record") /\ new.op = work.op /\ new.base = work.base
      /\ new.doc = work.doc /\ new.ref = work.ref /\ new.of = work.of /\ new.set = work.set /\ new.ok = ok
  BY DEF PvWork
<1> HIDE DEF new
<1>4. PvWorkFits(new) /\ PvHolds(new)
  BY <1>3 DEF PvWorkFits, PvHolds, PvCompiling, PvAnnouncing
<1>5. PvMoves(w, new)
  <2>1. 0 \notin PvWorkers
    BY PvNumbers
  <2> QED BY <1>2, <1>3, <1>4, <2>1 DEF PvMoves
<1> QED BY <1>3, <1>5

LEMMA PvGetLockIs ==
    ASSUME PvDataInv, PvWorkInv, PvLockInv, NEW w \in PvWorkers, PvGetLock(w)
    PROVE  /\ pvWork[w].pc = "lock" /\ pvLock = 0 /\ pvOwed' = IF pvType = "local" THEN FALSE ELSE pvOwed
           /\ \E new \in PvWork : /\ PvMoves(w, new) /\ new.op # "delete"
                                  /\ new.pc \in {"idle", "look", "save"} \/ (new.pc = "record" /\ ~new.ok)
                                  /\ (new.pc = "save" /\ pvType = "local" => new.of = pvNow)
<1> DEFINE work == pvWork[w]
<1>0. /\ work.pc = "lock" /\ pvLock = 0 /\ work \in PvWork /\ PvWorkFits(work) /\ work.op \in PvCompiles
      /\ pvType \in {"local", "git", "upload"} /\ w # 0
  BY PvNumbers DEF PvGetLock, PvWorkInv, PvWorkFits, PvDataInv
<1>1. pvOwed' = IF pvType = "local" THEN FALSE ELSE pvOwed
  BY <1>0 DEF PvGetLock
<1>2. PvLeave(w) => PvMoves(w, PvIdle) /\ PvIdle.pc = "idle" /\ PvIdle.op # "delete" /\ PvIdle \in PvWork
  BY <1>0, PvLeaves, PvGoneFits, PvRecords DEF PvLeave, PvHolds, PvCompiling, PvAnnouncing
<1>3. CASE pvType = "local"
  <2> DEFINE from == [work EXCEPT !.of = pvNow]
  <2>1. PvCompiled(w, from)
    BY <1>3 DEF PvGetLock
  <2>2. /\ from \in PvWork /\ from.pc = "lock" /\ from.op = work.op /\ from.base = work.base /\ from.doc = work.doc
        /\ from.ref = work.ref /\ from.of = pvNow /\ from.ok = work.ok
    <3>1. pvNow \in 0..PvMaxVersion
      BY DEF PvDataInv
    <3> QED BY <1>0, <3>1 DEF PvWork
  <2> HIDE DEF from
  <2>3. PvWorkFits(from)
    BY <1>0, <2>2 DEF PvWorkFits, PvCompiling, PvAnnouncing
  <2>4. "delete" \notin PvCompiles
    BY DEF PvCompiles
  <2> QED BY <1>0, <1>1, <2>1, <2>2, <2>3, <2>4, PvCompiledMoves
<1>4. CASE pvType = "upload"
  <2>1. PvLeave(w) \/ PvCompiled(w, work)
    BY <1>4 DEF PvGetLock
  <2>2. "delete" \notin PvCompiles
    BY DEF PvCompiles
  <2> QED BY <1>0, <1>1, <1>2, <1>4, <2>1, <2>2, PvCompiledMoves
<1>5. CASE pvType = "git"
  <2> DEFINE new == [work EXCEPT !.pc = "look", !.set = pvDoc.set]
  <2>1. PvLeave(w) \/ (pvLock' = w /\ pvWork' = [pvWork EXCEPT ![w] = new])
    BY <1>5 DEF PvGetLock, PvGoto
  <2>2. /\ new \in PvWork /\ new.pc = "look" /\ new.op = work.op /\ new.base = work.base /\ new.doc = work.doc
        /\ new.ref = work.ref /\ new.ok = work.ok
    <3>1. pvDoc.set \in {0, 1}
      BY DEF PvDataInv, PvDocs
    <3> QED BY <1>0, <3>1 DEF PvWork
  <2> HIDE DEF new
  <2>3. PvWorkFits(new) /\ PvHolds(new)
    BY <1>0, <1>5, <2>2 DEF PvWorkFits, PvHolds, PvCompiling, PvAnnouncing
  <2>4. "delete" \notin PvCompiles
    BY DEF PvCompiles
  <2>5. CASE pvLock' = w /\ pvWork' = [pvWork EXCEPT ![w] = new]
    <3>1. PvMoves(w, new)
      BY <1>0, <2>2, <2>3, <2>5, PvAfterMoves
    <3> QED BY <1>0, <1>1, <2>2, <2>4, <3>1
  <2> QED BY <1>0, <1>1, <1>2, <1>5, <2>1, <2>5
<1> QED BY <1>0, <1>3, <1>4, <1>5

LEMMA PvLookIs ==
    ASSUME PvDataInv, PvWorkInv, PvLockInv, NEW w \in PvWorkers, PvLook(w)
    PROVE  /\ pvWork[w].pc = "look"
           /\ \E new \in PvWork : /\ PvMoves(w, new) /\ new.op = pvWork[w].op /\ new.ref = pvWork[w].ref
                                  /\ \/ new.pc = "patch" /\ PvStored(pvWork[w].ref.rev) # PvNoSchema
                                     \/ new.pc = "save" /\ pvType = "git"
                                     \/ new.pc = "record" /\ ~new.ok
<1> DEFINE work == pvWork[w]
<1>0. work.pc = "look" /\ work \in PvWork /\ PvWorkFits(work) /\ pvLock = w /\ work.ref.rev \in 0..PvMaxVersion
      /\ pvType = "git"
  <2>1. work.pc = "look" /\ work \in PvWork /\ PvWorkFits(work)
    BY DEF PvLook, PvWorkInv
  <2>2. pvLock = w
    BY <2>1 DEF PvHolds, PvCompiling, PvLockInv
  <2>3. work.ref.rev \in 1..PvMaxVersion /\ pvType = "git"
    BY <2>1 DEF PvWorkFits, PvCompiling, PvOwnRevs
  <2> QED BY <2>1, <2>2, <2>3
<1>1. \/ PvStored(work.ref.rev) # PvNoSchema /\ PvStep(w, "patch") /\ UNCHANGED pvLock
      \/ PvCompiled(w, [work EXCEPT !.of = work.ref.rev])
  BY DEF PvLook
<1>2. CASE PvStored(work.ref.rev) # PvNoSchema /\ PvStep(w, "patch") /\ UNCHANGED pvLock
  <2> DEFINE new == [work EXCEPT !.pc = "patch"]
  <2>1. /\ new \in PvWork /\ new.pc = "patch" /\ new.op = work.op /\ new.base = work.base /\ new.doc = work.doc
        /\ new.ref = work.ref /\ new.ok = work.ok
    BY <1>0, PvGoing DEF PvPlaces
  <2>2. pvWork' = [pvWork EXCEPT ![w] = new]
    BY <1>2 DEF PvStep, PvGoto
  <2> HIDE DEF new
  <2>3. PvWorkFits(new) /\ PvHolds(new) /\ PvHolds(work)
    BY <1>0, <2>1 DEF PvWorkFits, PvHolds, PvCompiling, PvAnnouncing
  <2>4. PvMoves(w, new)
    BY <1>2, <2>1, <2>2, <2>3, PvAfterMoves
  <2> QED BY <1>0, <1>2, <2>1, <2>4
<1>3. CASE PvCompiled(w, [work EXCEPT !.of = work.ref.rev])
  <2> DEFINE from == [work EXCEPT !.of = work.ref.rev]
  <2>1. /\ from \in PvWork /\ from.pc = "look" /\ from.op = work.op /\ from.base = work.base /\ from.doc = work.doc
        /\ from.ref = work.ref /\ from.ok = work.ok
    BY <1>0 DEF PvWork
  <2>2. PvCompiled(w, from)
    BY <1>3
  <2> HIDE DEF from
  <2>3. PvWorkFits(from)
    BY <1>0, <2>1 DEF PvWorkFits, PvCompiling, PvAnnouncing
  <2> QED BY <1>0, <2>1, <2>2, <2>3, PvCompiledMoves
<1> QED BY <1>1, <1>2, <1>3

\* The rest of the compile and of the announcement.
LEMMA PvRestIs ==
    ASSUME PvDataInv, PvWorkInv, PvLockInv, NEW w \in PvWorkers,
           PvDrop(w) \/ PvSave(w) \/ PvInvalidate(w) \/ PvPrune(w) \/ PvInvalidateSource(w)
    PROVE  \E new \in PvWork :
              /\ PvMoves(w, new) /\ new.op = pvWork[w].op /\ new.ok = pvWork[w].ok /\ new.ref = pvWork[w].ref
              /\ new.of = pvWork[w].of /\ new.set = pvWork[w].set
              /\ \/ PvDrop(w) /\ pvWork[w].pc = "drop" /\ new.pc = "inv"
                 \/ PvSave(w) /\ pvWork[w].pc = "save" /\ new.pc = "saved"
                 \/ PvInvalidate(w) /\ pvWork[w].pc = "saved" /\ new.pc \in {"prune", "record"}
                 \/ PvPrune(w) /\ pvWork[w].pc = "prune" /\ new.pc = "record"
                 \/ PvInvalidateSource(w) /\ pvWork[w].pc = "inv" /\ new.pc = "load"
<1>1. pvLock' = pvLock
  BY DEF PvDrop, PvSave, PvInvalidate, PvPrune, PvInvalidateSource
<1>2. CASE PvDrop(w)
  <2>1. pvWork[w].pc = "drop" /\ PvStep(w, "inv") /\ PvFollows("drop", "inv")
    BY <1>2 DEF PvDrop, PvFollows
  <2> QED BY <1>1, <1>2, <2>1, PvStepIs
<1>3. CASE PvSave(w)
  <2>1. pvWork[w].pc = "save" /\ PvStep(w, "saved") /\ PvFollows("save", "saved")
    BY <1>3 DEF PvSave, PvFollows
  <2> QED BY <1>1, <1>3, <2>1, PvStepIs
<1>4. CASE PvInvalidate(w)
  <2>1. PICK to \in {"prune", "record"} : PvStep(w, to)
    BY <1>4 DEF PvInvalidate
  <2>2. pvWork[w].pc = "saved" /\ PvFollows("saved", to) /\ to # "patch"
    BY <1>4 DEF PvInvalidate, PvFollows
  <2> QED BY <1>1, <1>4, <2>1, <2>2, PvStepIs
<1>5. CASE PvPrune(w)
  <2>1. pvWork[w].pc = "prune" /\ PvStep(w, "record") /\ PvFollows("prune", "record")
    BY <1>5 DEF PvPrune, PvFollows
  <2> QED BY <1>1, <1>5, <2>1, PvStepIs
<1>6. CASE PvInvalidateSource(w)
  <2>1. pvWork[w].pc = "inv" /\ PvStep(w, "load") /\ PvFollows("inv", "load")
    BY <1>6 DEF PvInvalidateSource, PvFollows
  <2> QED BY <1>1, <1>6, <2>1, PvStepIs
<1> QED BY <1>2, <1>3, <1>4, <1>5, <1>6

LEMMA PvLoadIs ==
    ASSUME PvDataInv, PvWorkInv, PvLockInv, NEW w \in PvWorkers, PvLoad(w)
    PROVE  /\ pvWork[w].pc = "load"
           /\ \E new \in PvWork : PvMoves(w, new) /\ new.pc \in {"insert", "tell"} /\ new.op = pvWork[w].op
<1> DEFINE rev == PvActive(pvDoc)
<1> DEFINE d == PvStored(rev)
<1> DEFINE work == pvWork[w]
<1>0. work.pc = "load" /\ work \in PvWork /\ PvWorkFits(work) /\ pvLock' = pvLock
  BY DEF PvLoad, PvWorkInv
<1>1. CASE PvStep(w, "tell")
  <2>1. PvFollows("load", "tell")
    BY DEF PvFollows
  <2> QED BY <1>0, <1>1, <2>1, PvStepIs
<1>2. CASE d # PvNoSchema /\ PvGoto(w, [work EXCEPT !.pc = "insert", !.ref.rev = rev, !.of = d.of, !.set = d.set])
  <2>1. d \in pvSchemas /\ d.rev = rev
    BY <1>2, PvAtIs DEF PvStored
  <2>2. rev \in PvOwnRevs /\ rev \in PvRevs /\ d.of \in 0..PvMaxVersion /\ d.set \in {0, 1}
    BY <2>1, PvOwned DEF PvDataInv, PvSchema
  <2> HIDE DEF rev, d
  <2> DEFINE new == [work EXCEPT !.pc = "insert", !.ref.rev = rev, !.of = d.of, !.set = d.set]
  <2>3. /\ new \in PvWork /\ new.pc = "insert" /\ new.op = work.op /\ new.base = work.base /\ new.doc = work.doc
        /\ new.ref.rev = rev
    BY <1>0, <2>2 DEF PvWork, PvRefs
  <2>4. pvWork' = [pvWork EXCEPT ![w] = new]
    BY <1>2 DEF PvGoto
  <2> HIDE DEF new
  <2>5. PvWorkFits(new)
    BY <1>0, <2>2, <2>3 DEF PvWorkFits, PvCompiling, PvAnnouncing
  <2>6. PvHolds(new) <=> PvHolds(work)
    BY <1>0, <2>3 DEF PvHolds, PvCompiling, PvAnnouncing
  <2>7. PvMoves(w, new)
    BY <1>0, <2>3, <2>4, <2>5, <2>6, PvAfterMoves
  <2> QED BY <1>0, <2>3, <2>7
<1>3. PvStep(w, "tell") \/ (d # PvNoSchema /\ PvGoto(w, [work EXCEPT !.pc = "insert", !.ref.rev = rev, !.of = d.of, !.set = d.set]))
  BY DEF PvLoad
<1> QED BY <1>1, <1>2, <1>3

LEMMA PvInsertIs ==
    ASSUME PvDataInv, PvWorkInv, PvLockInv, NEW w \in PvWorkers, PvInsert(w)
    PROVE  /\ pvWork[w].pc = "insert"
           /\ \E new \in PvWork : PvMoves(w, new) /\ new.pc = "tell" /\ new.op = pvWork[w].op
<1> DEFINE op == pvWork[w].op
<1> DEFINE new == [PvIdle EXCEPT !.op = op, !.pc = "tell"]
<1>0. pvWork[w].pc = "insert" /\ pvWork[w] \in PvWork /\ PvWorkFits(pvWork[w]) /\ pvLock' = pvLock
      /\ pvWork' = [pvWork EXCEPT ![w] = new]
  BY DEF PvInsert, PvWorkInv, PvGoto
<1>1. op \in PvCompiles \cup {"enable", "delete"}
  BY <1>0 DEF PvWorkFits, PvAnnouncing
<1> HIDE DEF op
<1>2. new \in PvWork /\ new.pc = "tell" /\ new.op = op /\ new.base = PvGone /\ new.doc = PvGone
  <2>1. op \in {"none", "update", "enable", "watcher", "select", "upload", "refresh", "delete", "warm", "callback"}
    BY <1>1 DEF PvCompiles
  <2>2. PvIdle \in PvWork
    BY PvRecords
  <2> QED BY <2>1, <2>2, PvGoneFits DEF PvWork
<1> HIDE DEF new
<1>3. PvWorkFits(new)
  BY <1>1, <1>2, PvGoneFits DEF PvWorkFits, PvCompiling, PvAnnouncing
<1>4. PvHolds(new) <=> PvHolds(pvWork[w])
  BY <1>0, <1>2 DEF PvHolds, PvCompiling, PvAnnouncing, op
<1>5. PvMoves(w, new)
  BY <1>0, <1>2, <1>3, <1>4, PvAfterMoves
<1> QED BY <1>0, <1>2, <1>5 DEF op

LEMMA PvTellIs ==
    ASSUME PvDataInv, PvWorkInv, PvLockInv, NEW w \in PvWorkers, PvTell(w)
    PROVE  pvWork[w].pc = "tell" /\ PvMoves(w, PvIdle) /\ pvLive' = [pvLive EXCEPT !.dirty = TRUE]
BY PvEnds DEF PvTell

-----------------------------------------------------------------------------
\* Who changes what.
LEMMA PvCases ==
    ASSUME [PvNext]_pvVars
    PROVE  \/ UNCHANGED pvVars \/ PvChange \/ PvReset \/ PvResolve \/ PvFill
           \/ \E w \in PvWorkers :
                 \/ PvAsks(w) \/ PvDeleteSource(w) \/ PvPut(w) \/ PvRecord(w) \/ PvPatch(w) \/ PvRewatch(w)
                 \/ PvWarmUp(w) \/ PvCheck(w) \/ PvFire(w) \/ PvGetLock(w) \/ PvLook(w)
                 \/ PvDrop(w) \/ PvSave(w) \/ PvInvalidate(w) \/ PvPrune(w) \/ PvInvalidateSource(w)
                 \/ PvLoad(w) \/ PvInsert(w) \/ PvTell(w)
BY DEF PvNext, PvRequest, PvGo, PvAsks

PvTypes == PvDataInv /\ PvFlagsInv /\ PvWorkInv /\ PvLockInv

LEMMA PvAsksKeep ==
    ASSUME PvTypes, NEW w \in PvWorkers, PvAsks(w)
    PROVE  /\ UNCHANGED <<pvType, pvStore, pvReg, pvNow, pvWatch, pvLock, pvLive, pvLost>>
           /\ pvOps < PvMaxOps /\ pvOps' = pvOps + 1
<1>1. \E work \in PvWork : PvAsked(w, work)
  BY PvAskIs DEF PvTypes
<1> QED BY <1>1 DEF PvAsked

\* The steps that change no more than what a goroutine does, and the lock.
LEMMA PvQuiet ==
    ASSUME NEW w \in PvWorkers, PvRecord(w) \/ PvPatch(w) \/ PvWarmUp(w) \/ PvCheck(w) \/ PvLook(w) \/ PvLoad(w)
    PROVE  UNCHANGED <<pvType, pvStore, pvReg, pvNow, pvWatch, pvLive, pvOps, pvLost>>
BY DEF PvRecord, PvPatch, PvWarmUp, PvCheck, PvLook, PvLoad

LEMMA PvDocChange ==
    ASSUME PvTypes, [PvNext]_pvVars
    PROVE  pvType' = pvType /\ (UNCHANGED <<pvDoc, pvLost>> \/ \E w \in PvWorkers : PvPut(w) \/ PvDeleteSource(w))
<1>1. CASE UNCHANGED pvVars \/ PvChange \/ PvReset \/ PvResolve \/ PvFill
  BY <1>1 DEF pvVars, pvStore, PvChange, PvReset, PvResolve, PvFill
<1>2. CASE \E w \in PvWorkers : PvAsks(w)
  BY <1>2, PvAsksKeep DEF pvStore
<1>3. CASE \E w \in PvWorkers : PvRecord(w) \/ PvPatch(w) \/ PvWarmUp(w) \/ PvCheck(w) \/ PvLook(w) \/ PvLoad(w)
  BY <1>3, PvQuiet DEF pvStore
<1>4. CASE \E w \in PvWorkers : PvDeleteSource(w) \/ PvPut(w) \/ PvFire(w) \/ PvGetLock(w) \/ PvDrop(w) \/ PvSave(w)
  BY <1>4 DEF PvDeleteSource, PvPut, PvFire, PvGetLock, PvDrop, PvSave, pvStore
<1>5. CASE \E w \in PvWorkers : PvInvalidate(w) \/ PvPrune(w) \/ PvInvalidateSource(w) \/ PvInsert(w) \/ PvTell(w)
  BY <1>5 DEF PvInvalidate, PvPrune, PvInvalidateSource, PvInsert, PvTell, pvStore
<1>6. CASE \E w \in PvWorkers : PvRewatch(w)
  BY <1>6 DEF PvRewatch, pvStore
<1> QED BY <1>1, <1>2, <1>3, <1>4, <1>5, <1>6, PvCases

LEMMA PvSchemasChange ==
    ASSUME PvTypes, [PvNext]_pvVars
    PROVE  UNCHANGED <<pvSchemas, pvAge, pvFiles>> \/ \E w \in PvWorkers : PvDrop(w) \/ PvSave(w) \/ PvPrune(w)
<1>1. CASE UNCHANGED pvVars \/ PvChange \/ PvReset \/ PvResolve \/ PvFill
  BY <1>1 DEF pvVars, pvStore, PvChange, PvReset, PvResolve, PvFill
<1>2. CASE \E w \in PvWorkers : PvAsks(w)
  BY <1>2, PvAsksKeep DEF pvStore
<1>3. CASE \E w \in PvWorkers : PvRecord(w) \/ PvPatch(w) \/ PvWarmUp(w) \/ PvCheck(w) \/ PvLook(w) \/ PvLoad(w)
  BY <1>3, PvQuiet DEF pvStore
<1>4. CASE \E w \in PvWorkers : PvDeleteSource(w) \/ PvPut(w) \/ PvFire(w) \/ PvGetLock(w) \/ PvDrop(w) \/ PvSave(w)
  BY <1>4 DEF PvDeleteSource, PvPut, PvFire, PvGetLock, PvDrop, PvSave, pvStore
<1>5. CASE \E w \in PvWorkers : PvInvalidate(w) \/ PvPrune(w) \/ PvInvalidateSource(w) \/ PvInsert(w) \/ PvTell(w)
  BY <1>5 DEF PvInvalidate, PvPrune, PvInvalidateSource, PvInsert, PvTell, pvStore
<1>6. CASE \E w \in PvWorkers : PvRewatch(w)
  BY <1>6 DEF PvRewatch, pvStore
<1> QED BY <1>1, <1>2, <1>3, <1>4, <1>5, <1>6, PvCases

LEMMA PvCacheChange ==
    ASSUME PvTypes, [PvNext]_pvVars
    PROVE  \/ UNCHANGED <<pvCache, pvRaced>> \/ PvFill
           \/ \E w \in PvWorkers : PvInvalidate(w) \/ PvPrune(w) \/ PvInvalidateSource(w) \/ PvInsert(w)
<1>1. CASE UNCHANGED pvVars \/ PvChange \/ PvReset \/ PvResolve \/ PvFill
  BY <1>1 DEF pvVars, pvReg, PvChange, PvReset, PvResolve, PvFill
<1>2. CASE \E w \in PvWorkers : PvAsks(w)
  BY <1>2, PvAsksKeep DEF pvReg
<1>3. CASE \E w \in PvWorkers : PvRecord(w) \/ PvPatch(w) \/ PvWarmUp(w) \/ PvCheck(w) \/ PvLook(w) \/ PvLoad(w)
  BY <1>3, PvQuiet DEF pvReg
<1>4. CASE \E w \in PvWorkers : PvDeleteSource(w) \/ PvPut(w) \/ PvFire(w) \/ PvGetLock(w) \/ PvDrop(w) \/ PvSave(w)
  BY <1>4 DEF PvDeleteSource, PvPut, PvFire, PvGetLock, PvDrop, PvSave, pvReg
<1>5. CASE \E w \in PvWorkers : PvInvalidate(w) \/ PvPrune(w) \/ PvInvalidateSource(w) \/ PvInsert(w) \/ PvTell(w)
  BY <1>5 DEF PvInvalidate, PvPrune, PvInvalidateSource, PvInsert, PvTell, pvReg
<1>6. CASE \E w \in PvWorkers : PvRewatch(w)
  BY <1>6 DEF PvRewatch, pvReg
<1> QED BY <1>1, <1>2, <1>3, <1>4, <1>5, <1>6, PvCases

LEMMA PvWatchChange ==
    ASSUME PvTypes, [PvNext]_pvVars
    PROVE  /\ UNCHANGED <<pvEntry, pvCrossed>> \/ \E w \in PvWorkers : PvRewatch(w)
           /\ pvTimer' = pvTimer \/ PvChange \/ \E w \in PvWorkers : PvRewatch(w) \/ PvFire(w)
           /\ pvOwed' = pvOwed \/ PvChange \/ \E w \in PvWorkers : PvRewatch(w) \/ PvGetLock(w)
           /\ pvNow' = pvNow \/ PvChange
<1>1. CASE UNCHANGED pvVars \/ PvChange \/ PvReset \/ PvResolve \/ PvFill
  BY <1>1 DEF pvVars, pvWatch, PvChange, PvReset, PvResolve, PvFill
<1>2. CASE \E w \in PvWorkers : PvAsks(w)
  BY <1>2, PvAsksKeep DEF pvWatch
<1>3. CASE \E w \in PvWorkers : PvRecord(w) \/ PvPatch(w) \/ PvWarmUp(w) \/ PvCheck(w) \/ PvLook(w) \/ PvLoad(w)
  BY <1>3, PvQuiet DEF pvWatch
<1>4. CASE \E w \in PvWorkers : PvDeleteSource(w) \/ PvPut(w) \/ PvFire(w) \/ PvGetLock(w) \/ PvDrop(w) \/ PvSave(w)
  BY <1>4 DEF PvDeleteSource, PvPut, PvFire, PvGetLock, PvDrop, PvSave, pvWatch
<1>5. CASE \E w \in PvWorkers : PvInvalidate(w) \/ PvPrune(w) \/ PvInvalidateSource(w) \/ PvInsert(w) \/ PvTell(w)
  BY <1>5 DEF PvInvalidate, PvPrune, PvInvalidateSource, PvInsert, PvTell, pvWatch
<1>6. CASE \E w \in PvWorkers : PvRewatch(w)
  BY <1>6 DEF PvRewatch, pvWatch
<1> QED BY <1>1, <1>2, <1>3, <1>4, <1>5, <1>6, PvCases

LEMMA PvLiveChange ==
    ASSUME PvTypes, [PvNext]_pvVars
    PROVE  /\ pvLive' = pvLive \/ PvReset \/ PvResolve \/ PvFill \/ \E w \in PvWorkers : PvTell(w)
           /\ pvOps' = pvOps \/ (pvOps < PvMaxOps /\ pvOps' = pvOps + 1)
<1>1. CASE UNCHANGED pvVars \/ PvChange \/ PvReset \/ PvResolve \/ PvFill
  BY <1>1 DEF pvVars, PvChange, PvReset, PvResolve, PvFill
<1>2. CASE \E w \in PvWorkers : PvAsks(w)
  BY <1>2, PvAsksKeep
<1>3. CASE \E w \in PvWorkers : PvRecord(w) \/ PvPatch(w) \/ PvWarmUp(w) \/ PvCheck(w) \/ PvLook(w) \/ PvLoad(w)
  BY <1>3, PvQuiet
<1>4. CASE \E w \in PvWorkers : PvDeleteSource(w) \/ PvPut(w) \/ PvFire(w) \/ PvGetLock(w) \/ PvDrop(w) \/ PvSave(w)
  BY <1>4 DEF PvDeleteSource, PvPut, PvFire, PvGetLock, PvDrop, PvSave
<1>5. CASE \E w \in PvWorkers : PvInvalidate(w) \/ PvPrune(w) \/ PvInvalidateSource(w) \/ PvInsert(w) \/ PvTell(w)
  BY <1>5 DEF PvInvalidate, PvPrune, PvInvalidateSource, PvInsert, PvTell
<1>6. CASE \E w \in PvWorkers : PvRewatch(w)
  BY <1>6 DEF PvRewatch
<1> QED BY <1>1, <1>2, <1>3, <1>4, <1>5, <1>6, PvCases

\* One goroutine moves, or none does.
LEMMA PvWorkChange ==
    ASSUME PvTypes, [PvNext]_pvVars
    PROVE  UNCHANGED <<pvWork, pvLock>> \/ \E w \in PvWorkers : \E new \in PvWork : PvMoves(w, new)
<1>1. CASE UNCHANGED pvVars \/ PvChange \/ PvReset \/ PvResolve \/ PvFill
  BY <1>1 DEF pvVars, PvChange, PvReset, PvResolve, PvFill
<1>2. ASSUME NEW w \in PvWorkers, PvAsks(w) \/ PvDeleteSource(w) \/ PvPut(w) \/ PvRecord(w) \/ PvPatch(w) \/ PvRewatch(w)
      PROVE  \E new \in PvWork : PvMoves(w, new)
  BY <1>2, PvAskIs, PvDeleteIs, PvPutIs, PvRereadIs, PvRewatchIs DEF PvTypes
<1>3. ASSUME NEW w \in PvWorkers, PvWarmUp(w) \/ PvCheck(w) \/ PvFire(w) \/ PvGetLock(w) \/ PvLook(w)
      PROVE  \E new \in PvWork : PvMoves(w, new)
  BY <1>3, PvWaitsIs, PvFireIs, PvGetLockIs, PvLookIs DEF PvTypes
<1>4. ASSUME NEW w \in PvWorkers,
             PvDrop(w) \/ PvSave(w) \/ PvInvalidate(w) \/ PvPrune(w) \/ PvInvalidateSource(w)
             \/ PvLoad(w) \/ PvInsert(w) \/ PvTell(w)
      PROVE  \E new \in PvWork : PvMoves(w, new)
  BY <1>4, PvRestIs, PvLoadIs, PvInsertIs, PvTellIs, PvRecords DEF PvTypes
<1> QED BY <1>1, <1>2, <1>3, <1>4, PvCases

LEMMA PvWorkStep == PvTypes /\ [PvNext]_pvVars => PvWorkInv' /\ PvLockInv'
<1> SUFFICES ASSUME PvTypes, [PvNext]_pvVars PROVE PvWorkInv' /\ PvLockInv'
  OBVIOUS
<1>1. pvType' = pvType
  BY PvDocChange
<1>2. CASE UNCHANGED <<pvWork, pvLock>>
  BY <1>1, <1>2 DEF PvTypes, PvWorkInv, PvLockInv, PvWorkFits, PvDocFits, PvOwnRevs, PvHolds
<1> QED BY <1>1, <1>2, PvWorkChange, PvMovesKeep DEF PvTypes

\* What a goroutine caches is of the source.
LEMMA PvCacheWithIs ==
    ASSUME NEW s \in PvSchema, s.rev \in PvOwnRevs, PvDataInv, PvCacheWith(s)
    PROVE  /\ pvCache' = {c \in pvCache : c.rev # s.rev} \cup {s}
           /\ (s = PvStored(s.rev) /\ pvRaced' = pvRaced \ {s.rev}) \/ (s # PvStored(s.rev) /\ pvRaced' = pvRaced \cup {s.rev})
           /\ pvCache' \subseteq PvSchema /\ (\A c \in pvCache' : c.rev \in PvOwnRevs) /\ pvRaced' \subseteq PvRevs
<1>1. pvCache' = {c \in pvCache : c.rev # s.rev} \cup {s}
  BY DEF PvCacheWith, PvCached
<1>2. (s = PvStored(s.rev) /\ pvRaced' = pvRaced \ {s.rev}) \/ (s # PvStored(s.rev) /\ pvRaced' = pvRaced \cup {s.rev})
  BY DEF PvCacheWith
<1>3. s.rev \in PvRevs
  BY PvOwned
<1> QED BY <1>1, <1>2, <1>3 DEF PvDataInv

LEMMA PvInsertCaches ==
    ASSUME PvTypes, NEW w \in PvWorkers, PvInsert(w)
    PROVE  LET s == [rev |-> pvWork[w].ref.rev, of |-> pvWork[w].of, set |-> pvWork[w].set]
           IN  s \in PvSchema /\ s.rev \in PvOwnRevs /\ PvCacheWith(s) /\ pvWork[w].pc = "insert"
<1>1. pvWork[w].pc = "insert" /\ pvWork[w] \in PvWork /\ PvWorkFits(pvWork[w])
  BY DEF PvTypes, PvInsert, PvWorkInv
<1>2. pvWork[w].ref.rev \in PvOwnRevs /\ pvWork[w].of \in 0..PvMaxVersion /\ pvWork[w].set \in {0, 1}
  BY <1>1 DEF PvWorkFits, PvWork
<1>3. pvWork[w].ref.rev \in {PvNoRev} \cup PvRevs
  BY <1>2, PvOwned
<1> QED BY <1>1, <1>2, <1>3 DEF PvInsert, PvSchema

LEMMA PvFillCaches ==
    ASSUME PvLiveInv, PvFill
    PROVE  /\ pvLive.load \in PvSchema /\ pvLive.load.rev \in PvOwnRevs /\ PvCacheWith(pvLive.load)
           /\ pvLive.load # PvNoSchema /\ pvLive.snap = PvNoSchema
BY DEF PvLiveInv, PvFill

LEMMA PvSaveIs ==
    ASSUME PvTypes, NEW w \in PvWorkers, PvSave(w)
    PROVE  LET s == [rev |-> pvWork[w].ref.rev, of |-> pvWork[w].of, set |-> pvWork[w].set]
           IN  /\ s \in PvSchema /\ s.rev \in PvOwnRevs /\ pvWork[w].pc = "save"
               /\ pvSchemas' = {t \in pvSchemas : t.rev # s.rev} \cup {s}
<1>1. pvWork[w].pc = "save" /\ pvWork[w] \in PvWork /\ PvWorkFits(pvWork[w])
  BY DEF PvTypes, PvSave, PvWorkInv
<1>2. pvWork[w].ref.rev \in PvOwnRevs /\ pvWork[w].of \in 0..PvMaxVersion /\ pvWork[w].set \in {0, 1}
  BY <1>1 DEF PvWorkFits, PvWork, PvCompiling
<1>3. pvWork[w].ref.rev \in {PvNoRev} \cup PvRevs
  BY <1>2, PvOwned
<1> QED BY <1>1, <1>2, <1>3 DEF PvSave, PvSchema, PvSaved

LEMMA PvDataStep == PvTypes /\ PvLiveInv /\ [PvNext]_pvVars => PvDataInv'
<1> SUFFICES ASSUME PvTypes, PvLiveInv, [PvNext]_pvVars PROVE PvDataInv'
  OBVIOUS
<1>0. pvType' = pvType /\ PvOwnRevs' = PvOwnRevs /\ PvDataInv /\ \A doc : PvDocFits(doc)' <=> PvDocFits(doc)
  BY PvDocChange DEF PvOwnRevs, PvDocFits, PvTypes
<1>1. pvDoc' \in PvDocs /\ PvDocFits(pvDoc')
  <2>1. ASSUME NEW w \in PvWorkers, PvPut(w) PROVE pvDoc' \in PvDocs /\ PvDocFits(pvDoc')
    <3>1. pvWork[w].doc \in PvDocs /\ PvDocFits(pvWork[w].doc) /\ pvDoc \in PvDocs /\ PvDocFits(pvDoc)
      BY DEF PvTypes, PvDataInv, PvWorkInv, PvWorkFits, PvWork
    <3> QED BY <2>1, <3>1, PvPutIs DEF PvTypes
  <2>2. ASSUME NEW w \in PvWorkers, PvDeleteSource(w) PROVE pvDoc' \in PvDocs /\ PvDocFits(pvDoc')
    BY <2>2, PvDeleteIs, PvRecords, PvGoneFits DEF PvTypes
  <2> QED BY <1>0, <2>1, <2>2, PvDocChange DEF PvDataInv
<1>2. /\ pvSchemas' \subseteq PvSchema /\ pvAge' \in [PvRevs -> Nat] /\ pvFiles' \subseteq 1..PvMaxVersion
      /\ \A s, t \in pvSchemas' : s.rev = t.rev => s = t
      /\ \A s \in pvSchemas' : s.rev \in PvOwnRevs
  <2>1. ASSUME NEW w \in PvWorkers, PvSave(w)
        PROVE  /\ pvSchemas' \subseteq PvSchema /\ pvAge' \in [PvRevs -> Nat] /\ pvFiles' \subseteq 1..PvMaxVersion
               /\ \A s, t \in pvSchemas' : s.rev = t.rev => s = t
               /\ \A s \in pvSchemas' : s.rev \in PvOwnRevs
    <3> DEFINE s == [rev |-> pvWork[w].ref.rev, of |-> pvWork[w].of, set |-> pvWork[w].set]
    <3>1. s \in PvSchema /\ s.rev \in PvOwnRevs /\ pvSchemas' = {t \in pvSchemas : t.rev # s.rev} \cup {s}
      BY <2>1, PvSaveIs
    <3>2. pvAge' \in [PvRevs -> Nat]
      BY <1>0, <2>1 DEF PvSave, PvDataInv
    <3>3. pvFiles' \subseteq 1..PvMaxVersion
      <4>1. pvFiles' = pvFiles \/ (pvType # "local" /\ pvFiles' = pvFiles \cup {pvWork[w].ref.rev})
        BY <2>1 DEF PvSave
      <4>2. pvType # "local" => pvWork[w].ref.rev \in 1..PvMaxVersion
        BY <3>1 DEF PvOwnRevs
      <4> QED BY <1>0, <4>1, <4>2 DEF PvDataInv
    <3> HIDE DEF s
    <3> QED BY <1>0, <3>1, <3>2, <3>3 DEF PvDataInv
  <2>2. ASSUME NEW w \in PvWorkers, PvDrop(w) \/ PvPrune(w)
        PROVE  pvSchemas' \subseteq pvSchemas /\ pvAge' = pvAge /\ pvFiles' \subseteq pvFiles
    BY <2>2 DEF PvDrop, PvPrune
  <2> QED BY <1>0, <2>1, <2>2, PvSchemasChange DEF PvDataInv
<1>3. pvCache' \subseteq PvSchema /\ (\A c \in pvCache' : c.rev \in PvOwnRevs) /\ pvRaced' \subseteq PvRevs
  <2>1. ASSUME NEW w \in PvWorkers, PvInvalidate(w) \/ PvPrune(w) \/ PvInvalidateSource(w)
        PROVE  pvCache' \subseteq pvCache /\ pvRaced' \subseteq pvRaced
    BY <2>1 DEF PvInvalidate, PvPrune, PvInvalidateSource
  <2>2. ASSUME NEW w \in PvWorkers, PvInsert(w)
        PROVE  pvCache' \subseteq PvSchema /\ (\A c \in pvCache' : c.rev \in PvOwnRevs) /\ pvRaced' \subseteq PvRevs
    BY <1>0, <2>2, PvInsertCaches, PvCacheWithIs
  <2>3. ASSUME PvFill
        PROVE  pvCache' \subseteq PvSchema /\ (\A c \in pvCache' : c.rev \in PvOwnRevs) /\ pvRaced' \subseteq PvRevs
    BY <1>0, <2>3, PvFillCaches, PvCacheWithIs
  <2> QED BY <1>0, <2>1, <2>2, <2>3, PvCacheChange DEF PvDataInv
<1>4. pvNow' \in 1..PvMaxVersion
  BY <1>0, PvNumbers, PvWatchChange DEF PvDataInv, PvChange
<1>5. pvOps' \in 0..PvMaxOps
  BY <1>0, PvNumbers, PvLiveChange DEF PvDataInv
<1>6. pvLock' \in {0} \cup PvWorkers /\ pvWork' \in [PvWorkers -> PvWork]
  BY <1>0, PvWorkChange DEF PvDataInv, PvMoves
<1>7. \A s \in pvSchemas' \cup pvCache' : s.rev \in PvOwnRevs'
  BY <1>0, <1>2, <1>3
<1> QED BY <1>0, <1>1, <1>2, <1>3, <1>4, <1>5, <1>6, <1>7 DEF PvDataInv

LEMMA PvFlagsStep == PvTypes /\ [PvNext]_pvVars => PvFlagsInv'
<1> SUFFICES ASSUME PvTypes, [PvNext]_pvVars PROVE PvFlagsInv'
  OBVIOUS
<1>0. pvType' = pvType /\ PvFlagsInv
  BY PvDocChange DEF PvTypes
<1>1. pvLost' \in BOOLEAN
  <2>1. pvLost' = pvLost \/ \E w \in PvWorkers : pvLost' = (pvLost \/ pvDoc # pvWork[w].base)
    BY PvDocChange, PvPutIs DEF PvDeleteSource, PvTypes
  <2> QED BY <1>0, <2>1 DEF PvFlagsInv
<1>2. ASSUME NEW w \in PvWorkers, PvRewatch(w)
      PROVE  /\ pvEntry' \in BOOLEAN /\ pvTimer' \in BOOLEAN /\ pvOwed' \in BOOLEAN /\ pvCrossed' \in BOOLEAN
             /\ pvEntry' \/ pvTimer' => pvType = "local"
  <2>1. /\ pvWork[w].pc = "watch" /\ pvWork[w] \in PvWork /\ pvWork[w].doc \in PvDocs
        /\ (pvWork[w].op # "delete" => pvType = "local")
    BY <1>2 DEF PvRewatch, PvTypes, PvWorkInv, PvWorkFits, PvWork
  <2> DEFINE on == pvWork[w].op # "delete" /\ pvWork[w].doc.watcher
                       /\ (pvWork[w].op = "watcher" \/ pvWork[w].doc.enabled)
  <2>2. on \in BOOLEAN /\ (on => pvType = "local")
    BY <2>1 DEF PvDocs
  <2>3. PvSetWatch(on) \/ UNCHANGED <<pvEntry, pvTimer, pvOwed>>
    BY <1>2 DEF PvRewatch
  <2>4. pvCrossed' \in BOOLEAN
    BY <1>0, <1>2 DEF PvRewatch, PvFlagsInv
  <2> HIDE DEF on
  <2>5. CASE PvSetWatch(on)
    <3>1. pvEntry' = on /\ pvTimer' = FALSE /\ pvOwed' = FALSE
      BY <2>5 DEF PvSetWatch
    <3>2. pvEntry' \in BOOLEAN /\ pvTimer' \in BOOLEAN /\ pvOwed' \in BOOLEAN
      BY <2>2, <3>1
    <3>3. pvEntry' \/ pvTimer' => pvType = "local"
      BY <2>2, <3>1
    <3> QED BY <2>4, <3>2, <3>3
  <2>6. CASE UNCHANGED <<pvEntry, pvTimer, pvOwed>>
    <3>1. pvEntry' = pvEntry /\ pvTimer' = pvTimer /\ pvOwed' = pvOwed
      BY <2>6
    <3>2. pvEntry' \in BOOLEAN /\ pvTimer' \in BOOLEAN /\ pvOwed' \in BOOLEAN
      BY <1>0, <3>1 DEF PvFlagsInv
    <3>3. pvEntry' \/ pvTimer' => pvType = "local"
      BY <1>0, <3>1 DEF PvFlagsInv
    <3> QED BY <2>4, <3>2, <3>3
  <2> QED BY <2>3, <2>5, <2>6
<1>3. ASSUME PvChange PROVE pvTimer' \in BOOLEAN /\ pvOwed' \in BOOLEAN /\ (pvTimer' => pvType = "local")
  <2>1. pvTimer' = (pvTimer \/ pvEntry)
    BY <1>3 DEF PvChange
  <2>2. pvOwed' \in BOOLEAN
    BY <1>0, <1>3 DEF PvChange, PvFlagsInv
  <2> QED BY <1>0, <2>1, <2>2 DEF PvFlagsInv
<1>4. ASSUME NEW w \in PvWorkers, PvFire(w) PROVE pvTimer' = FALSE
  BY <1>4 DEF PvFire
<1>5. ASSUME NEW w \in PvWorkers, PvGetLock(w) PROVE pvOwed' \in BOOLEAN
  BY <1>0, <1>5, PvGetLockIs DEF PvTypes, PvFlagsInv
<1>6. pvEntry' \in BOOLEAN /\ pvCrossed' \in BOOLEAN /\ (pvEntry' => pvType = "local")
  BY <1>0, <1>2, PvWatchChange DEF PvFlagsInv
<1>7. pvTimer' \in BOOLEAN /\ (pvTimer' => pvType = "local")
  <2>1. CASE pvTimer' = pvTimer
    BY <1>0, <2>1 DEF PvFlagsInv
  <2>2. pvTimer' = pvTimer \/ PvChange \/ \E w \in PvWorkers : PvRewatch(w) \/ PvFire(w)
    BY PvWatchChange
  <2>3. ASSUME NEW w \in PvWorkers, PvFire(w) PROVE pvTimer' \in BOOLEAN /\ ~pvTimer'
    BY <1>4, <2>3
  <2> QED BY <1>2, <1>3, <2>1, <2>2, <2>3
<1>8. pvOwed' \in BOOLEAN
  BY <1>0, <1>2, <1>3, <1>5, PvWatchChange DEF PvFlagsInv
<1> QED BY <1>0, <1>1, <1>6, <1>7, <1>8 DEF PvFlagsInv

LEMMA PvLiveStep == PvTypes /\ PvLiveInv /\ [PvNext]_pvVars => PvLiveInv'
<1> SUFFICES ASSUME PvTypes, PvLiveInv, [PvNext]_pvVars PROVE PvLiveInv'
  OBVIOUS
<1>0. /\ PvOwnRevs' = PvOwnRevs /\ PvNoSchema \in PvSchema
      /\ pvLive \in [dirty : BOOLEAN, snap : PvSchema, load : PvSchema]
  BY PvDocChange, PvRecords DEF PvOwnRevs, PvTypes, PvLiveInv
<1>1. CASE pvLive' = pvLive
  BY <1>0, <1>1 DEF PvLiveInv
<1>2. CASE PvReset
  BY <1>0, <1>2 DEF PvReset, PvNoDecoder, PvLiveInv
<1>3. CASE PvFill
  BY <1>0, <1>3 DEF PvFill, PvLiveInv
<1>4. CASE \E w \in PvWorkers : PvTell(w)
  BY <1>0, <1>4 DEF PvTell, PvLiveInv
<1>5. CASE PvResolve
  <2> DEFINE rev == PvActive(pvDoc)
  <2>1. /\ pvLive.snap = PvNoSchema /\ pvLive.load = PvNoSchema
        /\ \/ \E c \in PvCached(rev) : pvLive' = [pvLive EXCEPT !.snap = c]
           \/ PvStored(rev) # PvNoSchema /\ pvLive' = [pvLive EXCEPT !.load = PvStored(rev)]
    BY <1>5 DEF PvResolve
  <2>2. PvStored(rev) # PvNoSchema => PvStored(rev) \in pvSchemas
    BY PvAtIs DEF PvStored
  <2> HIDE DEF rev
  <2>3. PICK x \in pvSchemas \cup pvCache : pvLive' = [pvLive EXCEPT !.snap = x] \/ pvLive' = [pvLive EXCEPT !.load = x]
    BY <2>1, <2>2 DEF PvCached
  <2>4. x \in PvSchema /\ x.rev \in PvOwnRevs
    BY DEF PvTypes, PvDataInv
  <2> QED BY <1>0, <2>1, <2>3, <2>4 DEF PvLiveInv
<1> QED BY <1>1, <1>2, <1>3, <1>4, <1>5, PvLiveChange

-----------------------------------------------------------------------------
\* A step is that of one goroutine, from its place to the next, or of none.
PvPath(w, new) ==
    LET work == pvWork[w] IN
    \/ PvAsks(w) /\ work.pc = "idle" /\ new.pc \in {"put", "lock"} /\ new.op # "delete"
    \/ PvDeleteSource(w) /\ work.pc = "idle" /\ new.pc = "watch" /\ new.op = "delete"
    \/ PvFire(w) /\ work.pc = "idle" /\ new.pc = "check" /\ new.op # "delete"
    \/ /\ PvPut(w) /\ work.pc \in {"put", "recordPut", "patchPut"}
       /\ PvAftermath(w, new) \/ (~pvDoc.there /\ new = PvIdle)
    \/ /\ PvRecord(w) \/ PvPatch(w)
       /\ work.pc \in {"record", "patch"}
       /\ \/ /\ pvDoc.there /\ new.ok = work.ok /\ new.ref = work.ref /\ new.op = work.op
             /\ new.pc = IF work.pc = "record" THEN "recordPut" ELSE "patchPut"
          \/ ~pvDoc.there /\ PvAftermath(w, new)
    \/ /\ PvRewatch(w) /\ work.pc = "watch" /\ work.op \in {"delete", "watcher", "enable"}
       /\ new.pc \in {"drop", "inv", "warm", "idle"} /\ (new.op = "delete" <=> work.op = "delete")
       /\ (work.op = "enable" => new.pc = "inv")
    \/ PvWarmUp(w) /\ work.pc = "warm" /\ new.pc \in {"lock", "idle"} /\ new.op # "delete"
    \/ /\ PvCheck(w) /\ work.pc = "check" /\ new.pc \in {"lock", "idle"} /\ new.op # "delete"
       /\ new.pc = "lock" \/ ~(pvDoc.there /\ pvDoc.enabled /\ pvDoc.watcher)
    \/ /\ PvGetLock(w) /\ work.pc = "lock" /\ new.op # "delete"
       /\ new.pc \in {"idle", "look", "save"} \/ (new.pc = "record" /\ ~new.ok)
       /\ (new.pc = "save" /\ pvType = "local" => new.of = pvNow)
    \/ /\ PvLook(w) /\ work.pc = "look" /\ new.op = work.op /\ new.ref = work.ref
       /\ \/ new.pc = "patch" /\ PvStored(work.ref.rev) # PvNoSchema
          \/ new.pc = "save" /\ pvType = "git"
          \/ new.pc = "record" /\ ~new.ok
    \/ /\ new.op = work.op /\ new.ok = work.ok /\ new.ref = work.ref /\ new.of = work.of
       /\ \/ PvDrop(w) /\ work.pc = "drop" /\ new.pc = "inv"
          \/ PvSave(w) /\ work.pc = "save" /\ new.pc = "saved"
          \/ PvInvalidate(w) /\ work.pc = "saved" /\ new.pc \in {"prune", "record"}
          \/ PvPrune(w) /\ work.pc = "prune" /\ new.pc = "record"
          \/ PvInvalidateSource(w) /\ work.pc = "inv" /\ new.pc = "load"
    \/ PvLoad(w) /\ work.pc = "load" /\ new.pc \in {"insert", "tell"} /\ new.op = work.op
    \/ PvInsert(w) /\ work.pc = "insert" /\ new.pc = "tell" /\ new.op = work.op
    \/ PvTell(w) /\ work.pc = "tell" /\ new = PvIdle

\* What else it changes.
PvOnly(w) ==
    /\ pvType' = pvType /\ pvNow' = pvNow
    /\ UNCHANGED <<pvDoc, pvLost>> \/ PvPut(w) \/ PvDeleteSource(w)
    /\ UNCHANGED pvSchemas \/ PvDrop(w) \/ PvSave(w) \/ PvPrune(w)
    /\ UNCHANGED <<pvCache, pvRaced>> \/ PvInvalidate(w) \/ PvPrune(w) \/ PvInvalidateSource(w) \/ PvInsert(w)
    /\ UNCHANGED <<pvEntry, pvCrossed>> \/ PvRewatch(w)
    /\ UNCHANGED pvTimer \/ PvRewatch(w) \/ PvFire(w)
    /\ UNCHANGED pvOwed \/ PvRewatch(w) \/ PvGetLock(w)
    /\ UNCHANGED pvLive \/ PvTell(w)

PvStill ==
    /\ UNCHANGED <<pvType, pvDoc, pvLost, pvSchemas, pvEntry, pvCrossed, pvLock, pvWork>>
    /\ PvChange \/ UNCHANGED <<pvNow, pvTimer, pvOwed>>
    /\ UNCHANGED <<pvCache, pvRaced>> \/ PvFill
    /\ UNCHANGED pvLive \/ PvReset \/ PvResolve \/ PvFill

LEMMA PvOnlyIs ==
    ASSUME PvTypes, NEW w \in PvWorkers, PvAsks(w) \/ PvDeleteSource(w) \/ PvGo(w)
    PROVE  PvOnly(w)
<1>1. CASE PvAsks(w)
  BY <1>1, PvAsksKeep DEF pvStore, pvReg, pvWatch, PvOnly
<1>2. CASE PvRecord(w) \/ PvPatch(w) \/ PvWarmUp(w) \/ PvCheck(w) \/ PvLook(w) \/ PvLoad(w)
  BY <1>2, PvQuiet DEF pvStore, pvReg, pvWatch, PvOnly
<1>3. CASE PvDeleteSource(w) \/ PvPut(w) \/ PvFire(w) \/ PvGetLock(w) \/ PvDrop(w) \/ PvSave(w)
  BY <1>3 DEF PvDeleteSource, PvPut, PvFire, PvGetLock, PvDrop, PvSave, pvStore, pvReg, pvWatch, PvOnly
<1>4. CASE PvInvalidate(w) \/ PvPrune(w) \/ PvInvalidateSource(w) \/ PvInsert(w) \/ PvTell(w)
  BY <1>4 DEF PvInvalidate, PvPrune, PvInvalidateSource, PvInsert, PvTell, pvStore, pvReg, pvWatch, PvOnly
<1>5. CASE PvRewatch(w)
  BY <1>5 DEF PvRewatch, pvStore, pvReg, PvOnly
<1> QED BY <1>1, <1>2, <1>3, <1>4, <1>5 DEF PvGo

LEMMA PvGoes ==
    ASSUME PvTypes, [PvNext]_pvVars
    PROVE  \/ PvStill
           \/ \E w \in PvWorkers : PvOnly(w) /\ \E new \in PvWork : PvMoves(w, new) /\ PvPath(w, new)
<1>1. CASE UNCHANGED pvVars \/ PvChange \/ PvReset \/ PvResolve \/ PvFill
  BY <1>1 DEF pvVars, pvStore, pvReg, pvWatch, PvChange, PvReset, PvResolve, PvFill, PvStill
<1>2. ASSUME NEW w \in PvWorkers, PvAsks(w) \/ PvDeleteSource(w) \/ PvFire(w)
      PROVE  \E new \in PvWork : PvMoves(w, new) /\ PvPath(w, new)
  <2>1. CASE PvAsks(w)
    BY <2>1, PvAskIs DEF PvTypes, PvPath
  <2>2. CASE PvDeleteSource(w)
    BY <2>2, PvDeleteIs DEF PvTypes, PvPath
  <2>3. CASE PvFire(w)
    BY <2>3, PvFireIs DEF PvTypes, PvPath
  <2> QED BY <1>2, <2>1, <2>2, <2>3
<1>3. ASSUME NEW w \in PvWorkers, PvPut(w) \/ PvRecord(w) \/ PvPatch(w)
      PROVE  \E new \in PvWork : PvMoves(w, new) /\ PvPath(w, new)
  <2>1. CASE PvPut(w)
    BY <2>1, PvPutIs DEF PvTypes, PvPath
  <2>2. CASE PvRecord(w) \/ PvPatch(w)
    BY <2>2, PvRereadIs DEF PvTypes, PvPath
  <2> QED BY <1>3, <2>1, <2>2
<1>4. ASSUME NEW w \in PvWorkers, PvRewatch(w) \/ PvWarmUp(w) \/ PvCheck(w)
      PROVE  \E new \in PvWork : PvMoves(w, new) /\ PvPath(w, new)
  <2>1. CASE PvRewatch(w)
    BY <2>1, PvRewatchIs DEF PvTypes, PvPath
  <2>2. CASE PvWarmUp(w)
    BY <2>2, PvWaitsIs DEF PvTypes, PvPath
  <2>3. CASE PvCheck(w)
    <3>1. pvWork[w].pc = "check"
      BY <2>3 DEF PvCheck
    <3> QED BY <2>3, <3>1, PvWaitsIs DEF PvTypes, PvPath
  <2> QED BY <1>4, <2>1, <2>2, <2>3
<1>5. ASSUME NEW w \in PvWorkers, PvGetLock(w) \/ PvLook(w)
      PROVE  \E new \in PvWork : PvMoves(w, new) /\ PvPath(w, new)
  <2>1. CASE PvGetLock(w)
    BY <2>1, PvGetLockIs DEF PvTypes, PvPath
  <2>2. CASE PvLook(w)
    BY <2>2, PvLookIs DEF PvTypes, PvPath
  <2> QED BY <1>5, <2>1, <2>2
<1>6. ASSUME NEW w \in PvWorkers, PvDrop(w) \/ PvSave(w) \/ PvInvalidate(w) \/ PvPrune(w) \/ PvInvalidateSource(w)
      PROVE  \E new \in PvWork : PvMoves(w, new) /\ PvPath(w, new)
  BY <1>6, PvRestIs DEF PvTypes, PvPath
<1>7. ASSUME NEW w \in PvWorkers, PvLoad(w) \/ PvInsert(w) \/ PvTell(w)
      PROVE  \E new \in PvWork : PvMoves(w, new) /\ PvPath(w, new)
  BY <1>7, PvLoadIs, PvInsertIs, PvTellIs, PvRecords DEF PvTypes, PvPath
<1> QED BY <1>1, <1>2, <1>3, <1>4, <1>5, <1>6, <1>7, PvCases, PvOnlyIs DEF PvGo

-----------------------------------------------------------------------------
\* A deleted source stays deleted: a document is written over one that is there.
PvGoneInv == \A w \in PvWorkers : pvWork[w].op = "delete" => ~pvDoc.there

LEMMA PvStaysGone ==
    ASSUME PvTypes, [PvNext]_pvVars, ~pvDoc.there
    PROVE  ~pvDoc'.there
<1>1. ASSUME NEW w \in PvWorkers, PvPut(w) PROVE ~pvDoc'.there
  BY <1>1, PvPutIs DEF PvTypes
<1>2. ASSUME NEW w \in PvWorkers, PvDeleteSource(w) PROVE ~pvDoc'.there
  BY <1>2, PvDeleteIs, PvGoneFits DEF PvTypes
<1> QED BY <1>1, <1>2, PvDocChange

LEMMA PvGoneStep == PvTypes /\ PvGoneInv /\ [PvNext]_pvVars => PvGoneInv'
<1> SUFFICES ASSUME PvTypes, PvGoneInv, [PvNext]_pvVars, NEW v \in PvWorkers, pvWork'[v].op = "delete"
             PROVE  ~pvDoc'.there
  BY DEF PvGoneInv
<1>1. CASE PvStill
  BY <1>1 DEF PvStill, PvGoneInv
<1>2. ASSUME NEW w \in PvWorkers, NEW new \in PvWork, PvMoves(w, new), PvPath(w, new)
      PROVE  ~pvDoc'.there
  <2>1. pvWork'[w] = new /\ \A u \in PvWorkers : u # w => pvWork'[u] = pvWork[u]
    BY <1>2, PvMoved DEF PvTypes
  <2>2. CASE v # w
    BY <2>1, <2>2, PvStaysGone DEF PvGoneInv
  <2>3. CASE v = w /\ pvWork[w].op = "delete"
    BY <2>3, PvStaysGone DEF PvGoneInv
  <2>4. CASE v = w /\ pvWork[w].op # "delete"
    <3>1. new.op = "delete"
      BY <2>1, <2>4
    <3>2. PvDeleteSource(w)
      BY <1>2, <2>4, <3>1, PvGoneFits DEF PvPath, PvAftermath
    <3> QED BY <3>2, PvDeleteIs, PvGoneFits DEF PvTypes
  <2> QED BY <2>2, <2>3, <2>4
<1> QED BY <1>1, <1>2, PvGoes

\* The stored schema of a revision that is not touched is the same.
LEMMA PvAtSame ==
    ASSUME NEW S, NEW T, NEW rev, \A s : s.rev = rev => (s \in S <=> s \in T)
    PROVE  PvAt(S, rev) = PvAt(T, rev)
<1> DEFINE F(schemas) == {s \in schemas : s.rev = rev}
<1>1. F(S) = F(T)
  OBVIOUS
<1>2. \A schemas : PvAt(schemas, rev) = IF F(schemas) = {} THEN PvNoSchema ELSE CHOOSE s \in F(schemas) : TRUE
  BY DEF PvAt
<1> HIDE DEF F
<1> QED BY <1>1, <1>2

\* There is one if it is there.
LEMMA PvAtThere ==
    ASSUME NEW S, NEW s \in S, s.rev \in PvOwnRevs
    PROVE  PvAt(S, s.rev) # PvNoSchema /\ PvAt(S, s.rev) \in S /\ PvAt(S, s.rev).rev = s.rev
<1>1. s.rev # PvNoRev /\ PvNoSchema.rev = PvNoRev
  BY PvOwned, PvRecords
<1> QED BY <1>1, PvAtIs

\* What will be stored under it.
PvStoredNext(rev) == PvAt(pvSchemas', rev)

LEMMA PvSaveStores ==
    ASSUME PvTypes, NEW w \in PvWorkers, PvSave(w)
    PROVE  /\ PvStoredNext(pvWork[w].ref.rev) # PvNoSchema
           /\ \A rev : rev # pvWork[w].ref.rev => PvStoredNext(rev) = PvStored(rev)
<1> DEFINE s == [rev |-> pvWork[w].ref.rev, of |-> pvWork[w].of, set |-> pvWork[w].set]
<1>1. s.rev \in PvOwnRevs /\ pvSchemas' = {t \in pvSchemas : t.rev # s.rev} \cup {s} /\ s.rev = pvWork[w].ref.rev
  BY PvSaveIs
<1> HIDE DEF s
<1>2. PvAt(pvSchemas', s.rev) # PvNoSchema
  BY <1>1, PvAtThere
<1>3. ASSUME NEW rev, rev # s.rev PROVE PvAt(pvSchemas', rev) = PvAt(pvSchemas, rev)
  <2>1. \A t : t.rev = rev => (t \in pvSchemas' <=> t \in pvSchemas)
    BY <1>1, <1>3
  <2> QED BY <2>1, PvAtSame
<1> QED BY <1>1, <1>2, <1>3 DEF PvStored, PvStoredNext

LEMMA PvPruneStores ==
    ASSUME NEW w \in PvWorkers, PvPrune(w), NEW rev \in PvKept(pvWork[w].ref.rev)
    PROVE  PvStoredNext(rev) = PvStored(rev)
<1>1. pvSchemas' = {s \in pvSchemas : s.rev \in PvKept(pvWork[w].ref.rev)}
  BY DEF PvPrune
<1>2. \A t : t.rev = rev => (t \in pvSchemas' <=> t \in pvSchemas)
  BY <1>1
<1> QED BY <1>2, PvAtSame DEF PvStored, PvStoredNext

\* A goroutine that works with a stored schema finds it, and so does whoever
\* reads the active one: a compile prunes neither, and only a delete drops all.
PvHasStored(work) ==
    work.pc \in {"saved", "prune", "patch", "patchPut"} \/ (work.pc \in {"record", "recordPut"} /\ work.ok)
PvStoredInv ==
    /\ \A w \in PvWorkers : PvHasStored(pvWork[w]) => PvStored(pvWork[w].ref.rev) # PvNoSchema \/ ~pvDoc.there
    /\ ~pvLost /\ pvDoc.there /\ pvType # "local" /\ pvDoc.active # PvNoRev => PvStored(pvDoc.active) # PvNoSchema

\* What is stored under a revision stays, unless it is pruned or dropped.
LEMMA PvStoredStays ==
    ASSUME PvTypes, PvGoneInv, [PvNext]_pvVars, NEW rev, PvStored(rev) # PvNoSchema
    PROVE  \/ PvStoredNext(rev) # PvNoSchema
           \/ ~pvDoc'.there
           \/ \E w \in PvWorkers : pvWork[w].pc = "prune" /\ PvPrune(w) /\ rev \notin PvKept(pvWork[w].ref.rev)
<1>1. CASE UNCHANGED pvSchemas
  BY <1>1 DEF PvStored, PvStoredNext
<1>2. ASSUME NEW w \in PvWorkers, PvDrop(w) PROVE ~pvDoc'.there
  <2>1. pvWork[w].op = "delete"
    BY <1>2 DEF PvDrop, PvTypes, PvWorkInv, PvWorkFits
  <2> QED BY <2>1, PvStaysGone DEF PvGoneInv
<1>3. ASSUME NEW w \in PvWorkers, PvSave(w) PROVE PvStoredNext(rev) # PvNoSchema
  BY <1>3, PvSaveStores
<1>4. ASSUME NEW w \in PvWorkers, PvPrune(w), rev \in PvKept(pvWork[w].ref.rev) PROVE PvStoredNext(rev) # PvNoSchema
  BY <1>4, PvPruneStores
<1>5. ASSUME NEW w \in PvWorkers, PvPrune(w) PROVE pvWork[w].pc = "prune"
  BY <1>5 DEF PvPrune
<1> QED BY <1>1, <1>2, <1>3, <1>4, <1>5, PvSchemasChange

LEMMA PvStoredStep == PvTypes /\ PvGoneInv /\ PvStoredInv /\ [PvNext]_pvVars => PvStoredInv'
<1> SUFFICES ASSUME PvTypes, PvGoneInv, PvStoredInv, [PvNext]_pvVars PROVE PvStoredInv'
  OBVIOUS
<1>0. pvType' = pvType
  BY PvDocChange
<1>1. ASSUME NEW v \in PvWorkers, PvHasStored(pvWork'[v]), pvDoc'.there
      PROVE  PvStoredNext(pvWork'[v].ref.rev) # PvNoSchema
  <2>0. pvDoc.there
    BY <1>1, PvStaysGone
  <2>1. ASSUME PvHasStored(pvWork[v]), pvWork'[v].ref = pvWork[v].ref
        PROVE  PvStoredNext(pvWork'[v].ref.rev) # PvNoSchema
    <3>1. PvStored(pvWork[v].ref.rev) # PvNoSchema
      BY <2>0, <2>1 DEF PvStoredInv
    <3>2. ASSUME NEW w \in PvWorkers, pvWork[w].pc = "prune" PROVE pvWork[v].ref.rev \in PvKept(pvWork[w].ref.rev)
      <4>1. v = w
        <5>1. PvHolds(pvWork[w]) /\ PvHolds(pvWork[v])
          BY <2>1, <3>2 DEF PvHolds, PvHasStored, PvCompiling
        <5> QED BY <5>1 DEF PvTypes, PvLockInv
      <4> QED BY <4>1 DEF PvKept
    <3> QED BY <1>1, <2>1, <3>1, <3>2, PvStoredStays
  <2>2. CASE PvStill
    BY <1>1, <2>1, <2>2 DEF PvStill
  <2>3. ASSUME NEW w \in PvWorkers, NEW new \in PvWork, PvMoves(w, new), PvPath(w, new), PvOnly(w)
        PROVE  PvStoredNext(pvWork'[v].ref.rev) # PvNoSchema
    <3>1. pvWork'[w] = new /\ \A u \in PvWorkers : u # w => pvWork'[u] = pvWork[u]
      BY <2>3, PvMoved DEF PvTypes
    <3>2. CASE v # w
      BY <1>1, <2>1, <3>1, <3>2
    <3>3. CASE v = w
      <4>1. PvHasStored(new)
        BY <1>1, <3>1, <3>3
      <4>2. PvWorkFits(pvWork[w])
        BY DEF PvTypes, PvWorkInv
      <4>3. \/ PvSave(w) /\ new.ref = pvWork[w].ref
            \/ PvLook(w) /\ new.ref = pvWork[w].ref /\ PvStored(pvWork[w].ref.rev) # PvNoSchema
            \/ PvHasStored(pvWork[w]) /\ new.ref = pvWork[w].ref
        <5>1. pvWork[w].pc \in {"saved", "prune", "patch", "patchPut"} => pvWork[w].ok
          BY <4>2 DEF PvWorkFits
        <5>2. ~PvHasStored(PvIdle)
          BY PvGoneFits DEF PvHasStored
        <5> QED BY <2>0, <2>3, <4>1, <5>1, <5>2 DEF PvPath, PvHasStored, PvAftermath
      <4>4. CASE PvSave(w) /\ new.ref = pvWork[w].ref
        BY <3>1, <3>3, <4>4, PvSaveStores
      <4>5. CASE PvLook(w) /\ new.ref = pvWork[w].ref /\ PvStored(pvWork[w].ref.rev) # PvNoSchema
        BY <3>1, <3>3, <4>5 DEF PvLook, pvStore, PvStored, PvStoredNext
      <4>6. CASE PvHasStored(pvWork[w]) /\ new.ref = pvWork[w].ref
        BY <2>1, <3>1, <3>3, <4>6
      <4> QED BY <4>3, <4>4, <4>5, <4>6
    <3> QED BY <3>2, <3>3
  <2> QED BY <2>2, <2>3, PvGoes
<1>2. ASSUME ~pvLost', pvDoc'.there, pvType # "local", pvDoc'.active # PvNoRev
      PROVE  PvStoredNext(pvDoc'.active) # PvNoSchema
  <2>0. pvDoc.there
    BY <1>2, PvStaysGone
  <2>1. ASSUME pvDoc'.active = pvDoc.active, ~pvLost PROVE PvStoredNext(pvDoc'.active) # PvNoSchema
    <3>1. PvStored(pvDoc.active) # PvNoSchema
      BY <1>2, <2>0, <2>1 DEF PvStoredInv
    <3>2. \A w \in PvWorkers : pvDoc.active \in PvKept(pvWork[w].ref.rev)
      BY <2>0 DEF PvKept
    <3> QED BY <1>2, <2>1, <3>1, <3>2, PvStoredStays
  <2>2. CASE UNCHANGED <<pvDoc, pvLost>>
    BY <1>2, <2>1, <2>2
  <2>3. ASSUME NEW w \in PvWorkers, PvPut(w) PROVE PvStoredNext(pvDoc'.active) # PvNoSchema
    <3> DEFINE work == pvWork[w]
    <3>1. pvDoc' = work.doc /\ pvDoc = work.base /\ ~pvLost /\ work.pc \in {"put", "recordPut", "patchPut"}
      BY <1>2, <2>0, <2>3, PvPutIs DEF PvTypes
    <3>2. PvWorkFits(work)
      BY DEF PvTypes, PvWorkInv
    <3>3. work.doc.active = work.base.active \/ (PvHasStored(work) /\ work.doc.active = work.ref.rev)
      BY <3>1, <3>2 DEF PvWorkFits, PvHasStored
    <3>4. CASE PvHasStored(work) /\ work.doc.active = work.ref.rev
      <4>1. PvStored(work.ref.rev) # PvNoSchema
        BY <2>0, <3>4 DEF PvStoredInv
      <4>2. pvSchemas' = pvSchemas
        BY <2>3 DEF PvPut
      <4> QED BY <3>1, <3>4, <4>1, <4>2 DEF PvStored, PvStoredNext
    <3> QED BY <2>1, <3>1, <3>3, <3>4
  <2>4. ASSUME NEW w \in PvWorkers, PvDeleteSource(w) PROVE FALSE
    BY <1>2, <2>4, PvDeleteIs, PvGoneFits DEF PvTypes
  <2> QED BY <2>2, <2>3, <2>4, PvDocChange
<1> QED BY <1>0, <1>1, <1>2 DEF PvStoredInv, PvHasStored, PvStored, PvStoredNext

-----------------------------------------------------------------------------
\* What a goroutine caches, or a message's parse does, is true of its revision,
\* and of the others what was true before.
PvTrueNow(c) ==
    \/ c = PvStored(c.rev) \/ c.rev \in pvRaced
    \/ \E w \in PvWorkers : pvWork[w].pc = "saved" /\ pvWork[w].ref.rev = c.rev
    \/ \E w \in PvWorkers : pvWork[w].pc = "inv" /\ pvWork[w].op = "delete"

LEMMA PvCachePuts ==
    ASSUME PvDataInv, PvCacheTrue, NEW s \in PvSchema, s.rev \in PvOwnRevs, PvCacheWith(s), pvSchemas' = pvSchemas,
           \A v \in PvWorkers : pvWork[v].pc \in {"saved", "inv"} => pvWork'[v] = pvWork[v]
    PROVE  PvCacheTrue'
<1> SUFFICES ASSUME NEW c \in pvCache' PROVE PvTrueNow(c)'
  BY DEF PvCacheTrue, PvTrueNow
<1>1. /\ pvCache' = {d \in pvCache : d.rev # s.rev} \cup {s}
      /\ (s = PvStored(s.rev) /\ pvRaced' = pvRaced \ {s.rev}) \/ (s # PvStored(s.rev) /\ pvRaced' = pvRaced \cup {s.rev})
  BY PvCacheWithIs
<1>2. \A rev : PvStored(rev)' = PvStored(rev)
  BY DEF PvStored
<1>3. CASE c = s
  BY <1>1, <1>2, <1>3 DEF PvTrueNow
<1>4. CASE c # s
  <2>1. c \in pvCache /\ c.rev # s.rev
    BY <1>1, <1>4
  <2>2. PvTrueNow(c)
    BY <2>1 DEF PvCacheTrue, PvTrueNow
  <2>3. c.rev \in pvRaced => c.rev \in pvRaced'
    BY <1>1, <2>1
  <2> QED BY <1>2, <2>2, <2>3 DEF PvTrueNow
<1> QED BY <1>3, <1>4

LEMMA PvCacheStep == PvTypes /\ PvLiveInv /\ PvCacheTrue /\ [PvNext]_pvVars => PvCacheTrue'
<1> SUFFICES ASSUME PvTypes, PvLiveInv, PvCacheTrue, [PvNext]_pvVars PROVE PvCacheTrue'
  OBVIOUS
<1>0. PvDataInv
  BY DEF PvTypes
<1>1. CASE PvStill
  <2>1. pvSchemas' = pvSchemas /\ pvWork' = pvWork
    BY <1>1 DEF PvStill
  <2>2. CASE PvFill
    BY <1>0, <2>1, <2>2, PvFillCaches, PvCachePuts
  <2>3. CASE UNCHANGED <<pvCache, pvRaced>>
    BY <2>1, <2>3 DEF PvCacheTrue, PvStored
  <2> QED BY <1>1, <2>2, <2>3 DEF PvStill
<1>2. ASSUME NEW w \in PvWorkers, NEW new \in PvWork, PvMoves(w, new), PvPath(w, new), PvOnly(w)
      PROVE  PvCacheTrue'
  <2>1. pvWork'[w] = new /\ \A u \in PvWorkers : u # w => pvWork'[u] = pvWork[u]
    BY <1>0, <1>2, PvMoved
  <2>2. CASE PvInsert(w)
    <3>1. pvSchemas' = pvSchemas
      BY <2>2 DEF PvInsert, pvStore
    <3> QED BY <1>0, <2>1, <2>2, <3>1, PvInsertCaches, PvCachePuts
  <2>3. CASE PvInvalidateSource(w)
    BY <2>3 DEF PvInvalidateSource, PvCacheTrue
  <2> SUFFICES ASSUME ~PvInsert(w), ~PvInvalidateSource(w), NEW c \in pvCache' PROVE PvTrueNow(c)'
    BY <2>2, <2>3 DEF PvCacheTrue, PvTrueNow
  <2>4. c \in pvCache /\ (c.rev \in pvRaced => c.rev \in pvRaced')
    <3>1. CASE PvInvalidate(w)
      BY <3>1 DEF PvInvalidate, PvCached
    <3>2. CASE PvPrune(w)
      BY <3>2 DEF PvPrune
    <3> QED BY <1>2, <3>1, <3>2 DEF PvOnly
  <2>5. PvTrueNow(c)
    BY <2>4 DEF PvCacheTrue, PvTrueNow
  <2>6. CASE c.rev \in pvRaced
    BY <2>4, <2>6 DEF PvTrueNow
  <2>7. ASSUME NEW v \in PvWorkers, pvWork[v].pc = "saved", pvWork[v].ref.rev = c.rev PROVE PvTrueNow(c)'
    <3>1. CASE v # w
      BY <2>1, <2>7, <3>1 DEF PvTrueNow
    <3>2. CASE v = w
      <4>1. PvInvalidate(w)
        BY <1>2, <2>7, <3>2 DEF PvPath
      <4>2. pvCache' = pvCache \ PvCached(c.rev)
        BY <2>7, <3>2, <4>1 DEF PvInvalidate
      <4> QED BY <2>4, <4>2 DEF PvCached
    <3> QED BY <3>1, <3>2
  <2>8. ASSUME NEW v \in PvWorkers, pvWork[v].pc = "inv", pvWork[v].op = "delete" PROVE PvTrueNow(c)'
    <3>1. CASE v # w
      BY <2>1, <2>8, <3>1 DEF PvTrueNow
    <3>2. CASE v = w
      BY <1>2, <2>8, <3>2 DEF PvPath
    <3> QED BY <3>1, <3>2
  <2>9. CASE c = PvStored(c.rev)
    <3>1. CASE PvStoredNext(c.rev) = PvStored(c.rev)
      BY <2>9, <3>1 DEF PvTrueNow, PvStored, PvStoredNext
    <3>2. CASE UNCHANGED pvSchemas
      BY <2>9, <3>2 DEF PvTrueNow, PvStored
    <3>3. CASE PvDrop(w)
      <4>1. new.pc = "inv" /\ new.op = pvWork[w].op /\ pvWork[w].pc = "drop"
        BY <2>1, <3>3, PvRestIs, PvMoved DEF PvTypes, PvDrop
      <4>2. new.op = "delete"
        BY <4>1 DEF PvTypes, PvWorkInv, PvWorkFits
      <4> QED BY <2>1, <4>1, <4>2 DEF PvTrueNow
    <3>4. CASE PvSave(w)
      <4>1. new.pc = "saved" /\ new.ref = pvWork[w].ref
        BY <1>2, <3>4 DEF PvPath, PvSave
      <4>2. c.rev = pvWork[w].ref.rev => PvTrueNow(c)'
        BY <2>1, <4>1 DEF PvTrueNow
      <4> QED BY <3>1, <3>4, <4>2, PvSaveStores
    <3>5. CASE PvPrune(w)
      <4>1. c.rev \in PvKept(pvWork[w].ref.rev)
        BY <3>5 DEF PvPrune
      <4> QED BY <3>1, <3>5, <4>1, PvPruneStores
    <3> QED BY <1>2, <3>2, <3>3, <3>4, <3>5 DEF PvOnly
  <2> QED BY <2>5, <2>6, <2>7, <2>8, <2>9 DEF PvTrueNow
<1> QED BY <1>1, <1>2, PvGoes

-----------------------------------------------------------------------------
\* A goroutine that will mark the decoders before it ends.
PvWillTell(work) ==
    \/ work.pc \in PvAnnouncing \cup {"saved", "prune", "patch", "patchPut"}
    \/ work.pc \in {"record", "recordPut"} /\ work.ok
    \/ work.pc = "watch" /\ work.op = "enable"

\* A session whose decoder was not marked has the stored schema of the active
\* revision, or parses it, or is about to be told, once the snapshots that were
\* overtaken and the writes that put a selection back are set aside.
PvFits(x) == x.rev = PvActive(pvDoc) /\ (x = PvStored(x.rev) \/ x.rev \in pvRaced)
PvDecoderInv ==
    ~pvLive.dirty /\ ~pvLost =>
        \A x \in {pvLive.snap, pvLive.load} : x # PvNoSchema =>
            \/ PvActive(pvDoc) = PvNoRev
            \/ \E w \in PvWorkers : PvWillTell(pvWork[w])
            \/ PvFits(x)

LEMMA PvTellsLater ==
    ASSUME PvTypes, NEW w \in PvWorkers, NEW new \in PvWork, PvPath(w, new), PvWillTell(pvWork[w])
    PROVE  PvWillTell(new) \/ PvTell(w) \/ ~pvDoc.there
<1>1. PvWorkFits(pvWork[w]) /\ pvType \in {"local", "git", "upload"}
  BY DEF PvTypes, PvWorkInv, PvDataInv
<1>2. pvWork[w].pc \in {"saved", "prune", "patch", "patchPut"} => pvWork[w].ok
  BY <1>1 DEF PvWorkFits
<1> QED BY <1>1, <1>2, PvGoneFits DEF PvPath, PvAftermath, PvWillTell, PvAnnouncing

\* A write that changes the active revision will be announced.
LEMMA PvPutTells ==
    ASSUME PvTypes, NEW w \in PvWorkers, NEW new \in PvWork, PvPut(w), PvPath(w, new), pvDoc.there, ~pvLost'
    PROVE  PvActive(pvDoc') = PvActive(pvDoc) \/ PvWillTell(new)
<1> DEFINE work == pvWork[w]
<1>1. pvDoc' = work.doc /\ pvDoc = work.base /\ work.pc \in {"put", "recordPut", "patchPut"}
  BY PvPutIs DEF PvTypes
<1>2. PvWorkFits(work) /\ pvType \in {"local", "git", "upload"}
  BY DEF PvTypes, PvWorkInv, PvDataInv
<1>3. PvAftermath(w, new)
  BY <1>1 DEF PvPath
<1>4. \/ work.doc.active = work.base.active /\ work.doc.ref = work.base.ref /\ work.doc.enabled = work.base.enabled
      \/ work.pc = "put" /\ work.op = "enable"
      \/ work.pc = "patchPut"
      \/ work.pc = "recordPut" /\ work.ok
  BY <1>1, <1>2 DEF PvWorkFits
<1>5. CASE work.doc.active = work.base.active /\ work.doc.ref = work.base.ref /\ work.doc.enabled = work.base.enabled
  <2>1. work.doc.there
    BY <1>1, <1>2 DEF PvWorkFits
  <2> QED BY <1>1, <1>2, <1>5, <2>1 DEF PvActive
<1>6. CASE (work.pc = "put" /\ work.op = "enable") \/ work.pc = "patchPut" \/ (work.pc = "recordPut" /\ work.ok)
  BY <1>3, <1>6 DEF PvAftermath, PvWillTell, PvAnnouncing
<1> QED BY <1>4, <1>5, <1>6

\* So will what changes the schemas or what is remembered of the cache.
LEMMA PvChangeTells ==
    ASSUME PvTypes, NEW w \in PvWorkers, NEW new \in PvWork, PvPath(w, new), PvOnly(w)
    PROVE  UNCHANGED <<pvSchemas, pvRaced>> \/ PvWillTell(new)
<1>1. pvWork[w].pc = "prune" => pvWork[w].ok
  BY DEF PvTypes, PvWorkInv, PvWorkFits
<1>2. pvWork[w].pc = "saved" => pvWork[w].ok
  BY DEF PvTypes, PvWorkInv, PvWorkFits
<1>3. CASE PvDrop(w) \/ PvSave(w) \/ PvInsert(w) \/ PvInvalidateSource(w)
  <2>1. pvWork[w].pc \in {"drop", "save", "insert", "inv"}
    BY <1>3 DEF PvDrop, PvSave, PvInsert, PvInvalidateSource
  <2> QED BY <2>1 DEF PvPath, PvWillTell, PvAnnouncing
<1>4. CASE PvPrune(w) \/ PvInvalidate(w)
  <2>1. pvWork[w].pc \in {"prune", "saved"}
    BY <1>4 DEF PvPrune, PvInvalidate
  <2> QED BY <1>1, <1>2, <2>1 DEF PvPath, PvWillTell
<1> QED BY <1>3, <1>4 DEF PvOnly

LEMMA PvDecoderStep ==
    PvTypes /\ PvLiveInv /\ PvCacheTrue /\ PvDecoderInv /\ [PvNext]_pvVars => PvDecoderInv'
<1> SUFFICES ASSUME PvTypes, PvLiveInv, PvCacheTrue, PvDecoderInv, [PvNext]_pvVars PROVE PvDecoderInv'
  OBVIOUS
<1>3. PvActive(pvDoc)' = PvActive(pvDoc')
  <2>1. pvType' = pvType
    BY PvDocChange
  <2> QED BY <2>1 DEF PvActive
<1> SUFFICES ASSUME ~pvLive'.dirty, ~pvLost', NEW x \in {pvLive'.snap, pvLive'.load}, x # PvNoSchema,
                    PvActive(pvDoc') # PvNoRev, \A w \in PvWorkers : ~PvWillTell(pvWork'[w])
             PROVE  x.rev = PvActive(pvDoc') /\ (x = PvStoredNext(x.rev) \/ x.rev \in pvRaced')
  BY <1>3 DEF PvDecoderInv, PvFits, PvStored, PvStoredNext, PvWillTell
<1>0. /\ PvDataInv /\ pvLive \in [dirty : BOOLEAN, snap : PvSchema, load : PvSchema]
      /\ pvLive.snap = PvNoSchema \/ pvLive.load = PvNoSchema
  BY DEF PvTypes, PvLiveInv
<1>1. CASE PvStill
  <2>1. pvSchemas' = pvSchemas /\ pvWork' = pvWork /\ pvDoc' = pvDoc /\ pvLost' = pvLost /\ PvActive(pvDoc') = PvActive(pvDoc)
    BY <1>1 DEF PvStill
  <2>2. \A rev : PvStoredNext(rev) = PvStored(rev)
    BY <2>1 DEF PvStored, PvStoredNext
  <2>3. ASSUME PvFits(x), UNCHANGED pvRaced
        PROVE  x.rev = PvActive(pvDoc') /\ (x = PvStoredNext(x.rev) \/ x.rev \in pvRaced')
    BY <2>1, <2>2, <2>3 DEF PvFits
  <2>4. CASE PvFill
    <3>1. pvLive.load # PvNoSchema /\ pvLive.load \in PvSchema /\ pvLive.load.rev \in PvOwnRevs /\ PvCacheWith(pvLive.load)
          /\ pvLive' = [pvLive EXCEPT !.snap = pvLive.load, !.load = PvNoSchema]
      BY <2>4, PvFillCaches DEF PvFill
    <3>2. x = pvLive.load /\ ~pvLive.dirty
      BY <1>0, <3>1
    <3>3. PvFits(x)
      BY <2>1, <3>1, <3>2 DEF PvDecoderInv
    <3>4. x = PvStored(x.rev) \/ x.rev \in pvRaced'
      BY <1>0, <3>1, <3>2, PvCacheWithIs
    <3> QED BY <2>1, <2>2, <3>3, <3>4 DEF PvFits
  <2> SUFFICES ASSUME UNCHANGED <<pvCache, pvRaced>>, ~PvFill
               PROVE  x.rev = PvActive(pvDoc') /\ (x = PvStoredNext(x.rev) \/ x.rev \in pvRaced')
    BY <1>1, <2>4 DEF PvStill
  <2>5. CASE UNCHANGED pvLive
    BY <2>1, <2>3, <2>5 DEF PvDecoderInv
  <2>6. CASE PvReset
    BY <2>6 DEF PvReset, PvNoDecoder
  <2>7. CASE PvResolve
    <3> DEFINE rev == PvActive(pvDoc)
    <3>1. \/ \E c \in PvCached(rev) : pvLive' = [pvLive EXCEPT !.snap = c]
          \/ PvStored(rev) # PvNoSchema /\ pvLive' = [pvLive EXCEPT !.load = PvStored(rev)]
      BY <2>7 DEF PvResolve
    <3>2. pvLive.snap = PvNoSchema /\ pvLive.load = PvNoSchema
      BY <2>7 DEF PvResolve
    <3>3. CASE PvStored(rev) # PvNoSchema /\ pvLive' = [pvLive EXCEPT !.load = PvStored(rev)]
      <4>1. x = PvStored(rev)
        BY <1>0, <3>2, <3>3
      <4>2. PvStored(rev).rev = rev
        BY <3>3, PvAtIs DEF PvStored
      <4> HIDE DEF rev
      <4>3. rev = PvActive(pvDoc)
        BY DEF rev
      <4> QED BY <2>3, <4>1, <4>2, <4>3 DEF PvFits
    <3>4. CASE \E c \in PvCached(rev) : pvLive' = [pvLive EXCEPT !.snap = c]
      <4>1. x \in pvCache /\ x.rev = rev
        BY <1>0, <3>2, <3>4 DEF PvCached
      <4>2. \A w \in PvWorkers : pvWork[w].pc \notin {"saved", "inv"}
        BY <2>1 DEF PvWillTell, PvAnnouncing
      <4>3. x = PvStored(x.rev) \/ x.rev \in pvRaced
        BY <4>1, <4>2 DEF PvCacheTrue
      <4> QED BY <2>3, <4>1, <4>3 DEF PvFits
    <3> QED BY <3>1, <3>3, <3>4
  <2> QED BY <1>1, <2>5, <2>6, <2>7 DEF PvStill
<1>2. ASSUME NEW w \in PvWorkers, NEW new \in PvWork, PvMoves(w, new), PvPath(w, new), PvOnly(w)
      PROVE  x.rev = PvActive(pvDoc') /\ (x = PvStoredNext(x.rev) \/ x.rev \in pvRaced')
  <2>1. pvWork'[w] = new /\ \A u \in PvWorkers : u # w => pvWork'[u] = pvWork[u]
    BY <1>0, <1>2, PvMoved
  <2>2. ~PvWillTell(new)
    BY <2>1
  <2>3. ~PvTell(w)
    BY <1>0 DEF PvTell
  <2>4. pvLive' = pvLive /\ UNCHANGED <<pvSchemas, pvRaced>>
    BY <1>2, <2>2, <2>3, PvChangeTells DEF PvOnly
  <2>5. pvDoc'.there
    BY DEF PvActive
  <2>6. pvDoc.there
    BY <2>5, PvStaysGone
  <2>7. \A v \in PvWorkers : ~PvWillTell(pvWork[v])
    BY <1>2, <2>1, <2>2, <2>3, <2>6, PvTellsLater
  <2>8. PvActive(pvDoc') = PvActive(pvDoc) /\ ~pvLost
    <3>1. CASE PvPut(w)
      <4>1. pvLost' = (pvLost \/ pvDoc # pvWork[w].base)
        BY <2>6, <3>1, PvPutIs DEF PvTypes
      <4> QED BY <1>2, <2>2, <2>6, <3>1, <4>1, PvPutTells
    <3>2. CASE PvDeleteSource(w)
      BY <2>5, <3>2, PvDeleteIs, PvGoneFits DEF PvTypes
    <3>3. CASE UNCHANGED <<pvDoc, pvLost>>
      BY <3>3
    <3> QED BY <1>2, <3>1, <3>2, <3>3 DEF PvOnly
  <2>9. PvFits(x)
    BY <2>4, <2>7, <2>8 DEF PvDecoderInv
  <2> QED BY <2>4, <2>8, <2>9 DEF PvFits, PvStored, PvStoredNext
<1> QED BY <1>1, <1>2, PvGoes

-----------------------------------------------------------------------------
\* The watch is what the document says, or a goroutine that wrote it, or deleted
\* it, is about to set it.
PvWatched(doc) == doc.there /\ doc.enabled /\ doc.watcher
PvWatchInv ==
    pvType = "local" /\ ~pvLost /\ ~pvCrossed =>
        /\ pvEntry => (pvDoc.there /\ pvDoc.watcher)
                      \/ \E w \in PvWorkers : pvWork[w].pc = "watch" /\ pvWork[w].op \in {"delete", "watcher"}
        /\ PvWatched(pvDoc) => pvEntry \/ \E w \in PvWorkers : pvWork[w].pc = "watch" /\ pvWork[w].op \in {"enable", "watcher"}

\* A change that is owed is read by a callback, unless the watch is about to end.
PvEndsWatch(work) == work.pc = "watch" /\ (work.op \in {"delete", "watcher"} \/ ~work.doc.enabled)
PvOwedInv ==
    pvOwed /\ ~pvLost /\ ~pvCrossed =>
        /\ pvEntry
        /\ \/ \E w \in PvWorkers : PvEndsWatch(pvWork[w])
           \/ PvWatched(pvDoc) /\ (pvTimer \/ \E w \in PvWorkers : pvWork[w].pc \in {"check", "lock"})

\* A write that loses nothing leaves what it did not ask for.
LEMMA PvPutWatch ==
    ASSUME PvTypes, NEW w \in PvWorkers, NEW new \in PvWork, PvPut(w), PvPath(w, new), pvDoc.there, ~pvLost'
    PROVE  /\ pvDoc' = pvWork[w].doc /\ pvDoc'.there /\ ~pvLost
           /\ \/ pvDoc'.enabled = pvDoc.enabled /\ pvDoc'.watcher = pvDoc.watcher /\ new.pc # "watch"
              \/ /\ pvWork[w].op = "enable" /\ pvDoc'.watcher = pvDoc.watcher
                 /\ pvType = "local" => new.pc = "watch" /\ new.op = "enable" /\ new.doc = pvDoc'
              \/ pvWork[w].op = "watcher" /\ new.pc = "watch" /\ new.op = "watcher"
<1> DEFINE work == pvWork[w]
<1>1. pvDoc' = work.doc /\ pvDoc = work.base /\ ~pvLost /\ work.pc \in {"put", "recordPut", "patchPut"}
  BY PvPutIs DEF PvTypes
<1>2. PvWorkFits(work)
  BY DEF PvTypes, PvWorkInv
<1>3. PvAftermath(w, new)
  BY <1>1 DEF PvPath
<1>4. work.doc.there
  BY <1>1, <1>2 DEF PvWorkFits
<1>5. CASE work.pc = "put"
  <2>1. work.op \in {"update", "enable", "watcher"}
    BY <1>2, <1>5 DEF PvWorkFits
  <2>2. CASE work.op = "update"
    BY <1>1, <1>2, <1>3, <1>4, <1>5, <2>2 DEF PvWorkFits, PvAftermath
  <2>3. CASE work.op = "enable"
    BY <1>1, <1>2, <1>3, <1>4, <1>5, <2>3 DEF PvWorkFits, PvAftermath
  <2>4. CASE work.op = "watcher"
    BY <1>1, <1>2, <1>3, <1>4, <1>5, <2>4 DEF PvWorkFits, PvAftermath
  <2> QED BY <2>1, <2>2, <2>3, <2>4
<1>6. CASE work.pc \in {"recordPut", "patchPut"}
  <2>1. work.op \in PvCompiles
    BY <1>2, <1>6 DEF PvWorkFits, PvCompiling
  <2>2. new.pc # "watch"
    BY <1>3, <2>1 DEF PvAftermath, PvCompiles
  <2> QED BY <1>1, <1>2, <1>4, <1>6, <2>2 DEF PvWorkFits
<1> QED BY <1>1, <1>5, <1>6

\* What the goroutine does to the watch.
LEMMA PvRewatchSets ==
    ASSUME PvTypes, PvGoneInv, NEW w \in PvWorkers, PvRewatch(w), ~pvCrossed'
    PROVE  /\ ~pvCrossed /\ pvDoc' = pvDoc /\ pvLost' = pvLost /\ pvWork[w].pc = "watch"
           /\ \/ pvWork[w].op = "delete" /\ ~pvDoc.there /\ ~pvEntry' /\ (pvEntry => ~pvOwed') /\ (~pvEntry => pvOwed' = pvOwed)
              \/ /\ pvWork[w].op = "watcher" /\ pvDoc.there /\ pvDoc.watcher = pvWork[w].doc.watcher
                 /\ pvEntry' = pvDoc.watcher /\ (pvEntry => ~pvOwed') /\ (~pvEntry => ~pvOwed' \/ pvOwed' = pvOwed)
              \/ /\ pvWork[w].op = "enable" /\ pvDoc.there /\ pvDoc.watcher = pvWork[w].doc.watcher
                 /\ pvDoc.enabled = pvWork[w].doc.enabled
                 /\ IF pvDoc.enabled /\ ~pvDoc.watcher THEN UNCHANGED <<pvEntry, pvTimer, pvOwed>>
                    ELSE pvEntry' = pvDoc.enabled /\ (pvEntry => ~pvOwed') /\ (~pvEntry => ~pvOwed' \/ pvOwed' = pvOwed)
<1> DEFINE work == pvWork[w]
<1>1. /\ work.pc = "watch" /\ work \in PvWork /\ work.op \in {"delete", "watcher", "enable"} /\ pvDoc \in PvDocs
      /\ pvEntry \in BOOLEAN /\ work.doc \in PvDocs /\ pvCrossed \in BOOLEAN
  BY DEF PvTypes, PvDataInv, PvFlagsInv, PvWorkInv, PvWorkFits, PvRewatch, PvWork
<1>2. pvDoc' = pvDoc /\ pvLost' = pvLost
  BY DEF PvRewatch, pvStore
<1>3. /\ ~pvCrossed
      /\ work.op # "delete" => pvDoc.there /\ pvDoc.watcher = work.doc.watcher /\ pvDoc.enabled = work.doc.enabled
  BY <1>1 DEF PvRewatch
<1> DEFINE on == work.op # "delete" /\ work.doc.watcher /\ (work.op = "watcher" \/ work.doc.enabled)
<1> DEFINE off == work.op = "delete" \/ (work.op = "watcher" /\ ~work.doc.watcher)
                  \/ (work.op = "enable" /\ ~work.doc.enabled)
<1>4. IF on \/ (off /\ pvEntry) THEN PvSetWatch(on) ELSE UNCHANGED <<pvEntry, pvTimer, pvOwed>>
  BY DEF PvRewatch
<1>5. CASE work.op = "delete"
  <2>1. ~pvDoc.there /\ ~on /\ off
    BY <1>5 DEF PvGoneInv
  <2> QED BY <1>1, <1>2, <1>3, <1>4, <1>5, <2>1 DEF PvSetWatch
<1>6. CASE work.op = "watcher"
  <2>1. on = work.doc.watcher /\ off = ~work.doc.watcher
    BY <1>1, <1>6 DEF PvDocs
  <2> QED BY <1>1, <1>2, <1>3, <1>4, <1>6, <2>1 DEF PvSetWatch
<1>7. CASE work.op = "enable"
  <2>1. (on <=> work.doc.watcher /\ work.doc.enabled) /\ (off <=> ~work.doc.enabled)
    BY <1>1, <1>7 DEF PvDocs
  <2> QED BY <1>1, <1>2, <1>3, <1>4, <1>7, <2>1 DEF PvSetWatch, PvDocs
<1> QED BY <1>1, <1>5, <1>6, <1>7

\* Who is at the watch stays there but to set it.
LEMMA PvStaysAtWatch ==
    ASSUME PvTypes, NEW w \in PvWorkers, NEW new \in PvWork, PvMoves(w, new), PvPath(w, new),
           NEW v \in PvWorkers, pvWork[v].pc = "watch"
    PROVE  pvWork'[v] = pvWork[v] \/ (v = w /\ PvRewatch(w))
BY PvMoved DEF PvTypes, PvPath

LEMMA PvWatchStep == PvTypes /\ PvGoneInv /\ PvWatchInv /\ [PvNext]_pvVars => PvWatchInv'
<1> SUFFICES ASSUME PvTypes, PvGoneInv, PvWatchInv, [PvNext]_pvVars PROVE PvWatchInv'
  OBVIOUS
<1>0. pvType' = pvType /\ PvDataInv
  BY PvDocChange DEF PvTypes
<1> SUFFICES ASSUME pvType = "local", ~pvLost', ~pvCrossed' PROVE PvWatchInv'
  BY <1>0 DEF PvWatchInv
<1>1. CASE PvStill
  BY <1>1 DEF PvStill, PvWatchInv, PvWatched
<1>2. ASSUME NEW w \in PvWorkers, NEW new \in PvWork, PvMoves(w, new), PvPath(w, new), PvOnly(w)
      PROVE  PvWatchInv'
  <2>1. pvWork'[w] = new /\ \A u \in PvWorkers : u # w => pvWork'[u] = pvWork[u]
    BY <1>0, <1>2, PvMoved
  <2>2. CASE PvRewatch(w)
    <3>1. ~pvCrossed /\ pvDoc' = pvDoc /\ ~pvLost
      BY <2>2, PvRewatchSets
    <3>2. CASE pvWork[w].op = "delete" \/ pvWork[w].op = "watcher"
      BY <2>2, <3>2, PvRewatchSets DEF PvWatchInv, PvWatched
    <3>3. CASE pvWork[w].op = "enable"
      <4>1. /\ pvDoc.there
            /\ IF pvDoc.enabled /\ ~pvDoc.watcher THEN pvEntry' = pvEntry ELSE pvEntry' = pvDoc.enabled
        BY <2>2, <3>3, PvRewatchSets
      <4>2. CASE pvDoc.enabled /\ ~pvDoc.watcher
        <5>1. ASSUME NEW v \in PvWorkers, pvWork[v].pc = "watch", pvWork[v].op \in {"delete", "watcher"}
              PROVE  pvWork'[v] = pvWork[v]
          BY <2>1, <3>3, <5>1
        <5> QED BY <1>0, <3>1, <4>1, <4>2, <5>1 DEF PvWatchInv, PvWatched
      <4>3. CASE ~(pvDoc.enabled /\ ~pvDoc.watcher)
        BY <3>1, <4>1, <4>3 DEF PvWatchInv, PvWatched, PvDataInv, PvDocs
      <4> QED BY <4>2, <4>3
    <3> QED BY <1>2, <2>2, <3>2, <3>3, PvRewatchIs DEF PvTypes
  <2> SUFFICES ASSUME ~PvRewatch(w) PROVE PvWatchInv'
    BY <2>2
  <2>3. pvEntry' = pvEntry /\ ~pvCrossed
    BY <1>2 DEF PvOnly
  <2>4. \A v \in PvWorkers : pvWork[v].pc = "watch" => pvWork'[v] = pvWork[v]
    BY <1>2, PvStaysAtWatch
  <2>5. CASE UNCHANGED <<pvDoc, pvLost>>
    BY <1>0, <2>3, <2>4, <2>5 DEF PvWatchInv, PvWatched
  <2>6. CASE PvDeleteSource(w)
    <3>1. ~pvDoc'.there
      BY <2>6, PvDeleteIs, PvGoneFits DEF PvTypes
    <3>2. new.pc = "watch" /\ new.op = "delete"
      BY <1>0, <2>1, <2>6, PvDeleteIs, PvMoved DEF PvTypes
    <3> QED BY <2>1, <3>1, <3>2 DEF PvWatchInv, PvWatched
  <2>7. CASE PvPut(w) /\ pvDoc.there
    <3>1. /\ pvDoc'.there /\ ~pvLost
          /\ \/ pvDoc'.enabled = pvDoc.enabled /\ pvDoc'.watcher = pvDoc.watcher
             \/ pvDoc'.watcher = pvDoc.watcher /\ new.pc = "watch" /\ new.op = "enable"
             \/ new.pc = "watch" /\ new.op = "watcher"
      BY <1>2, <2>7, PvPutWatch
    <3>2. CASE new.pc = "watch" /\ new.op = "watcher"
      BY <2>1, <3>2 DEF PvWatchInv
    <3>3. CASE pvDoc'.watcher = pvDoc.watcher /\ new.pc = "watch" /\ new.op = "enable"
      BY <2>1, <2>3, <2>4, <2>7, <3>1, <3>3 DEF PvWatchInv
    <3>4. CASE pvDoc'.enabled = pvDoc.enabled /\ pvDoc'.watcher = pvDoc.watcher
      BY <2>3, <2>4, <2>7, <3>1, <3>4 DEF PvWatchInv, PvWatched
    <3> QED BY <3>1, <3>2, <3>3, <3>4
  <2>8. CASE PvPut(w) /\ ~pvDoc.there
    BY <2>5, <2>8, PvPutIs DEF PvTypes
  <2> QED BY <1>2, <2>5, <2>6, <2>7, <2>8 DEF PvOnly
<1> QED BY <1>1, <1>2, PvGoes

LEMMA PvOwedStep == PvTypes /\ PvGoneInv /\ PvOwedInv /\ [PvNext]_pvVars => PvOwedInv'
<1> SUFFICES ASSUME PvTypes, PvGoneInv, PvOwedInv, [PvNext]_pvVars, pvOwed', ~pvLost', ~pvCrossed' PROVE PvOwedInv'
  BY DEF PvOwedInv
<1>0. PvDataInv
  BY DEF PvTypes
<1>1. CASE PvStill
  <2>1. CASE PvChange
    <3>1. pvTimer' = (pvTimer \/ pvEntry) /\ pvOwed' = (pvOwed \/ (pvEntry /\ pvDoc.there /\ pvDoc.enabled /\ pvDoc.watcher))
      BY <2>1 DEF PvChange
    <3>2. CASE pvOwed
      BY <1>1, <3>1, <3>2 DEF PvStill, PvOwedInv, PvWatched
    <3>3. CASE ~pvOwed
      BY <1>1, <3>1, <3>3 DEF PvStill, PvOwedInv, PvWatched
    <3> QED BY <3>2, <3>3
  <2>2. CASE UNCHANGED <<pvNow, pvTimer, pvOwed>>
    BY <1>1, <2>2 DEF PvStill, PvOwedInv, PvWatched
  <2> QED BY <1>1, <2>1, <2>2 DEF PvStill
<1>2. ASSUME NEW w \in PvWorkers, NEW new \in PvWork, PvMoves(w, new), PvPath(w, new), PvOnly(w)
      PROVE  PvOwedInv'
  <2>1. pvWork'[w] = new /\ \A u \in PvWorkers : u # w => pvWork'[u] = pvWork[u]
    BY <1>0, <1>2, PvMoved
  \* Whether the goroutine ends the watch, or waits to read, is as before.
  <2>2. ASSUME pvOwed, ~pvLost, ~pvCrossed, pvEntry' = pvEntry, PvEndsWatch(pvWork[w]) => PvEndsWatch(new),
               PvWatched(pvDoc) => PvWatched(pvDoc') \/ PvEndsWatch(new),
               PvWatched(pvDoc) => (pvTimer => pvTimer' \/ new.pc = "check")
                                   /\ (pvWork[w].pc \in {"check", "lock"} => new.pc \in {"check", "lock"})
        PROVE  PvOwedInv'
    <3>1. CASE \E v \in PvWorkers : PvEndsWatch(pvWork[v])
      <4>1. PICK v \in PvWorkers : PvEndsWatch(pvWork[v])
        BY <3>1
      <4>2. PvEndsWatch(pvWork'[v])
        BY <2>1, <2>2, <4>1
      <4> QED BY <2>2, <4>2 DEF PvOwedInv, PvEndsWatch
    <3>2. CASE PvWatched(pvDoc) /\ PvEndsWatch(new)
      BY <2>1, <2>2, <3>2 DEF PvOwedInv, PvEndsWatch
    <3>3. CASE PvWatched(pvDoc) /\ PvWatched(pvDoc') /\ pvTimer
      <4>1. pvTimer' \/ pvWork'[w].pc = "check"
        BY <2>1, <2>2, <3>3
      <4> QED BY <2>2, <3>3, <4>1 DEF PvOwedInv, PvWatched
    <3>4. ASSUME PvWatched(pvDoc), PvWatched(pvDoc'), NEW v \in PvWorkers, pvWork[v].pc \in {"check", "lock"}
          PROVE  PvOwedInv'
      <4>1. pvWork'[v].pc \in {"check", "lock"}
        BY <2>1, <2>2, <3>4
      <4> QED BY <2>2, <3>4, <4>1 DEF PvOwedInv, PvWatched
    <3> QED BY <2>2, <3>1, <3>2, <3>3, <3>4 DEF PvOwedInv
  <2>3. CASE PvRewatch(w)
    <3>1. ~pvCrossed /\ pvDoc' = pvDoc /\ ~pvLost /\ pvWork[w].pc = "watch"
      BY <2>3, PvRewatchSets
    <3>2. CASE pvOwed
      <4>1. pvEntry
        BY <3>1, <3>2 DEF PvOwedInv
      <4>2. /\ pvWork[w].op = "enable" /\ pvWork[w].doc.enabled /\ ~pvDoc.watcher
            /\ UNCHANGED <<pvEntry, pvTimer, pvOwed>>
        BY <2>3, <3>1, <4>1, PvRewatchSets
      <4> QED BY <2>2, <3>1, <3>2, <4>2 DEF PvEndsWatch, PvWatched
    <3>3. CASE ~pvOwed
      <4>1. /\ pvWork[w].op = "enable" /\ pvDoc.enabled /\ ~pvDoc.watcher /\ UNCHANGED pvOwed
        BY <2>3, <3>3, PvRewatchSets
      <4> QED BY <3>3, <4>1
    <3> QED BY <3>2, <3>3
  <2>4. CASE PvGetLock(w)
    <3>1. pvType # "local" /\ pvOwed
      BY <2>4, PvGetLockIs DEF PvTypes
    <3>2. pvLost' = pvLost /\ pvCrossed' = pvCrossed
      BY <2>4 DEF PvGetLock
    <3> QED BY <3>1, <3>2 DEF PvOwedInv, PvTypes, PvFlagsInv
  <2> SUFFICES ASSUME ~PvRewatch(w), ~PvGetLock(w) PROVE PvOwedInv'
    BY <2>3, <2>4
  <2>5. pvEntry' = pvEntry /\ ~pvCrossed /\ pvOwed
    <3>1. UNCHANGED <<pvEntry, pvCrossed>>
      BY <1>2 DEF PvOnly
    <3>2. UNCHANGED pvOwed
      BY <1>2 DEF PvOnly
    <3> QED BY <3>1, <3>2
  <2>6. PvEndsWatch(pvWork[w]) => PvEndsWatch(new)
    BY <1>2, <2>1, PvStaysAtWatch DEF PvEndsWatch
  <2>7. CASE PvFire(w)
    <3>1. UNCHANGED <<pvDoc, pvLost>> /\ new.pc = "check" /\ pvWork[w].pc = "idle"
      <4>1. UNCHANGED <<pvDoc, pvLost>>
        BY <2>7 DEF PvFire, pvStore
      <4> QED BY <1>0, <2>1, <2>7, <4>1, PvFireIs, PvMoved DEF PvTypes
    <3> QED BY <2>2, <2>5, <2>6, <3>1
  <2> SUFFICES ASSUME ~PvFire(w) PROVE PvOwedInv'
    BY <2>7
  <2>8. pvTimer' = pvTimer
    BY <1>2 DEF PvOnly
  <2>9. CASE PvCheck(w)
    <3>1. /\ UNCHANGED <<pvDoc, pvLost>> /\ pvWork[w].pc = "check"
          /\ PvWatched(pvDoc) => new.pc = "lock"
      BY <1>2, <2>9 DEF PvPath, PvCheck, pvStore, PvWatched
    <3> QED BY <2>2, <2>5, <2>6, <2>8, <3>1
  <2> SUFFICES ASSUME ~PvCheck(w) PROVE PvOwedInv'
    BY <2>9
  <2>10. pvWork[w].pc \notin {"check", "lock"}
    BY <1>2 DEF PvPath
  <2>11. CASE UNCHANGED <<pvDoc, pvLost>>
    BY <2>2, <2>5, <2>6, <2>8, <2>10, <2>11
  <2>12. CASE PvDeleteSource(w)
    <3>1. new.pc = "watch" /\ new.op = "delete" /\ pvLost' = pvLost /\ pvWork[w].pc = "idle"
      <4>1. pvLost' = pvLost
        BY <2>12 DEF PvDeleteSource
      <4> QED BY <1>0, <2>1, <2>12, <4>1, PvDeleteIs, PvMoved DEF PvTypes
    <3> QED BY <2>2, <2>5, <2>6, <2>8, <2>10, <3>1 DEF PvEndsWatch
  <2>13. CASE PvPut(w) /\ pvDoc.there
    <3>1. /\ pvDoc'.there /\ ~pvLost
          /\ \/ pvDoc'.enabled = pvDoc.enabled /\ pvDoc'.watcher = pvDoc.watcher
             \/ /\ pvDoc'.watcher = pvDoc.watcher
                /\ pvType = "local" => new.pc = "watch" /\ new.op = "enable" /\ new.doc = pvDoc'
             \/ new.pc = "watch" /\ new.op = "watcher"
      BY <1>2, <2>13, PvPutWatch
    <3>2. pvType = "local"
      BY <2>5, <3>1 DEF PvOwedInv, PvTypes, PvFlagsInv
    <3>3. PvWatched(pvDoc) => PvWatched(pvDoc') \/ PvEndsWatch(new)
      BY <3>1, <3>2 DEF PvWatched, PvEndsWatch
    <3> QED BY <2>2, <2>5, <2>6, <2>8, <2>10, <3>1, <3>3
  <2>14. CASE PvPut(w) /\ ~pvDoc.there
    BY <2>11, <2>14, PvPutIs DEF PvTypes
  <2> QED BY <1>2, <2>11, <2>12, <2>13, <2>14 DEF PvOnly
<1> QED BY <1>1, <1>2, PvGoes

-----------------------------------------------------------------------------
\* The schema of a directory that is being stored was read under the lock, so it
\* is of files no older than those of the schema it replaces.
PvOrderInv ==
    pvType = "local" =>
        /\ \A s \in pvSchemas : s.of <= pvNow
        /\ \A w \in PvWorkers : pvWork[w].pc = "save" =>
              pvWork[w].of <= pvNow /\ \A s \in pvSchemas : s.of <= pvWork[w].of

LEMMA PvOrderStep == PvTypes /\ PvOrderInv /\ [PvNext]_pvVars => PvOrderInv'
<1> SUFFICES ASSUME PvTypes, PvOrderInv, [PvNext]_pvVars, pvType = "local"
             PROVE  /\ \A s \in pvSchemas' : s.of <= pvNow'
                    /\ \A w \in PvWorkers : pvWork'[w].pc = "save" =>
                          pvWork'[w].of <= pvNow' /\ \A s \in pvSchemas' : s.of <= pvWork'[w].of
  BY PvDocChange DEF PvOrderInv
<1>0. PvDataInv /\ pvNow \in Nat /\ \A s \in pvSchemas : s.of \in Nat
  BY PvNumbers DEF PvTypes, PvDataInv, PvSchema
<1>1. CASE PvStill
  <2>1. pvSchemas' = pvSchemas /\ pvWork' = pvWork
    BY <1>1 DEF PvStill
  <2>2. pvNow' \in Nat /\ pvNow <= pvNow'
    BY <1>0, <1>1 DEF PvStill, PvChange
  <2>3. \A w \in PvWorkers : pvWork[w].of \in Nat
    BY <1>0, PvNumbers DEF PvDataInv, PvWork
  <2> QED BY <1>0, <2>1, <2>2, <2>3 DEF PvOrderInv
<1>2. ASSUME NEW w \in PvWorkers, NEW new \in PvWork, PvMoves(w, new), PvPath(w, new), PvOnly(w)
      PROVE  /\ \A s \in pvSchemas' : s.of <= pvNow'
             /\ \A v \in PvWorkers : pvWork'[v].pc = "save" =>
                   pvWork'[v].of <= pvNow' /\ \A s \in pvSchemas' : s.of <= pvWork'[v].of
  <2>1. pvWork'[w] = new /\ (\A u \in PvWorkers : u # w => pvWork'[u] = pvWork[u]) /\ pvNow' = pvNow
    BY <1>0, <1>2, PvMoved DEF PvOnly
  <2>2. CASE PvSave(w)
    <3> DEFINE s == [rev |-> pvWork[w].ref.rev, of |-> pvWork[w].of, set |-> pvWork[w].set]
    <3>1. pvSchemas' = {t \in pvSchemas : t.rev # s.rev} \cup {s} /\ s.of = pvWork[w].of /\ pvWork[w].pc = "save"
      BY <2>2, PvSaveIs
    <3>2. s.of <= pvNow
      BY <3>1 DEF PvOrderInv
    <3> HIDE DEF s
    <3>3. new.pc = "saved"
      BY <1>2, <2>2, <3>1 DEF PvPath
    <3>4. ASSUME NEW v \in PvWorkers, pvWork'[v].pc = "save" PROVE FALSE
      <4>1. v # w /\ pvWork[v].pc = "save"
        BY <2>1, <3>3, <3>4
      <4>2. PvHolds(pvWork[v]) /\ PvHolds(pvWork[w])
        BY <3>1, <4>1 DEF PvHolds, PvCompiling
      <4> QED BY <4>1, <4>2 DEF PvTypes, PvLockInv
    <3> QED BY <2>1, <3>1, <3>2, <3>4 DEF PvOrderInv
  <2>3. CASE ~PvSave(w)
    <3>1. pvSchemas' \subseteq pvSchemas
      <4>1. PvDrop(w) \/ PvPrune(w) => pvSchemas' \subseteq pvSchemas
        BY DEF PvDrop, PvPrune
      <4> QED BY <1>2, <2>3, <4>1 DEF PvOnly
    <3>2. new.pc = "save" => new.of = pvNow
      BY <1>2, PvGoneFits DEF PvPath, PvAftermath
    <3> QED BY <1>0, <2>1, <3>1, <3>2 DEF PvOrderInv
  <2> QED BY <2>2, <2>3
<1> QED BY <1>1, <1>2, PvGoes

-----------------------------------------------------------------------------
PvInv ==
    /\ PvTypes /\ PvLiveInv /\ PvGoneInv /\ PvStoredInv /\ PvCacheTrue /\ PvDecoderInv
    /\ PvWatchInv /\ PvOwedInv /\ PvOrderInv

LEMMA PvInitIs == PvInit => PvInv
<1> SUFFICES ASSUME PvInit PROVE PvInv
  OBVIOUS
<1> DEFINE rev == IF pvType = "local" THEN PvLocalRevision ELSE 1
<1>1. pvType \in {"local", "git", "upload"} /\ pvNow = 1
      /\ (\A w \in PvWorkers : pvWork[w] = PvIdle) /\ pvWork \in [PvWorkers -> PvWork]
  BY PvRecords DEF PvInit
<1>2. /\ pvCache = {} /\ pvTimer = FALSE /\ pvLock = 0 /\ pvLive = PvNoDecoder /\ pvOps = 0
      /\ pvOwed = FALSE /\ pvLost = FALSE /\ pvCrossed = FALSE /\ pvRaced = {}
      /\ pvFiles = {s.rev : s \in pvSchemas} \ {PvLocalRevision} /\ pvAge = [r \in PvRevs |-> 0]
  BY DEF PvInit
<1>3. /\ rev \in PvOwnRevs /\ rev \in {PvNoRev} \cup PvRevs /\ 1 \in 0..PvMaxVersion /\ 1 \in 1..PvMaxVersion
      /\ rev # PvLocalRevision => rev \in 1..PvMaxVersion
  BY <1>1, PvNumbers, PvRecords DEF PvOwnRevs, PvRevs, PvLocalRevision
<1> DEFINE schema == [rev |-> rev, of |-> 1, set |-> 0]
<1> DEFINE doc == [PvNew EXCEPT !.active = rev, !.watcher = (pvType = "local"),
                                !.ref = IF pvType = "git" THEN PvResolved("main") ELSE PvNoRef]
<1>4. \/ pvDoc = PvNew /\ pvSchemas = {} /\ pvEntry = FALSE
      \/ pvDoc = doc /\ pvSchemas = {schema} /\ pvEntry = (pvType = "local")
  BY DEF PvInit
<1>5. schema \in PvSchema /\ schema.rev = rev /\ schema.of = 1
  BY <1>3 DEF PvSchema
<1>6. PvNew \in PvDocs /\ PvDocFits(PvNew) /\ ~PvNew.watcher /\ PvNew.active = PvNoRev /\ PvNew.there /\ PvNew.enabled
  BY PvRecords, PvGoneFits DEF PvNew
<1>7. /\ doc \in PvDocs /\ PvDocFits(doc) /\ doc.there /\ doc.enabled /\ doc.watcher = (pvType = "local")
      /\ doc.active = rev
  <2> DEFINE ref == IF pvType = "git" THEN PvResolved("main") ELSE PvNoRef
  <2>1. ref \in PvRefs /\ (pvType = "git" => ref.rev = rev)
    <3>1. CASE pvType = "git"
      <4>1. PvResolved("main") = [name |-> "main", rev |-> 1]
        BY <1>1 DEF PvResolved
      <4>2. PvResolved("main") \in PvRefs
        BY <4>1, PvRefIs, PvRecords
      <4> QED BY <3>1, <4>1, <4>2
    <3> QED BY <3>1, PvRecords
  <2> HIDE DEF ref, rev
  <2>2. [PvNew EXCEPT !.active = rev, !.watcher = (pvType = "local"), !.ref = ref] \in PvDocs
    BY <1>3, <1>6, <2>1 DEF PvDocs
  <2>3. doc = [PvNew EXCEPT !.active = rev, !.watcher = (pvType = "local"), !.ref = ref]
    BY DEF ref
  <2>4. doc.there /\ doc.enabled /\ doc.watcher = (pvType = "local") /\ doc.active = rev /\ doc.ref = ref
    BY <1>6, <2>3 DEF PvDocs
  <2> QED BY <1>3, <2>1, <2>2, <2>3, <2>4 DEF PvDocFits
<1> HIDE DEF rev, schema, doc
<1>8. /\ pvDoc \in PvDocs /\ PvDocFits(pvDoc) /\ pvDoc.there /\ pvDoc.enabled /\ pvSchemas \subseteq {schema}
      /\ pvEntry \in BOOLEAN /\ (pvEntry => pvType = "local" /\ pvDoc.watcher) /\ (pvDoc.watcher => pvEntry)
      /\ (pvDoc.active # PvNoRev => schema \in pvSchemas /\ pvDoc.active = rev)
  BY <1>1, <1>4, <1>6, <1>7
<1>9. PvDataInv
  <2>1. pvAge \in [PvRevs -> Nat] /\ pvFiles \subseteq 1..PvMaxVersion
    BY <1>2, <1>3, <1>5, <1>8
  <2>2. pvOps \in 0..PvMaxOps
    BY <1>2, PvNumbers
  <2> QED BY <1>1, <1>2, <1>3, <1>5, <1>8, <2>1, <2>2 DEF PvDataInv
<1>10. PvFlagsInv
  BY <1>2, <1>8 DEF PvFlagsInv
<1>11. PvWorkInv /\ PvLockInv
  <2>1. PvWorkFits(PvIdle) /\ ~PvHolds(PvIdle)
    BY PvGoneFits DEF PvWorkFits, PvHolds, PvCompiling, PvAnnouncing
  <2>2. 0 \notin PvWorkers
    BY PvNumbers
  <2> QED BY <1>1, <1>2, <2>1, <2>2, PvRecords DEF PvWorkInv, PvLockInv
<1>12. PvLiveInv /\ pvLive.snap = PvNoSchema /\ pvLive.load = PvNoSchema
  BY <1>2, PvRecords DEF PvLiveInv, PvNoDecoder
<1>13. PvGoneInv /\ PvCacheTrue /\ PvOwedInv /\ PvDecoderInv
  BY <1>1, <1>2, <1>12, PvGoneFits DEF PvGoneInv, PvCacheTrue, PvOwedInv, PvDecoderInv
<1>14. PvStoredInv
  <2>1. \A w \in PvWorkers : ~PvHasStored(pvWork[w])
    BY <1>1, PvGoneFits DEF PvHasStored
  <2>2. pvDoc.active # PvNoRev => PvStored(pvDoc.active) # PvNoSchema
    BY <1>3, <1>5, <1>8, PvAtThere DEF PvStored
  <2> QED BY <2>1, <2>2 DEF PvStoredInv
<1>15. PvWatchInv
  BY <1>8 DEF PvWatchInv, PvWatched
<1>16. PvOrderInv
  BY <1>1, <1>5, <1>8, PvGoneFits DEF PvOrderInv
<1> QED BY <1>9, <1>10, <1>11, <1>12, <1>13, <1>14, <1>15, <1>16 DEF PvInv, PvTypes

LEMMA PvInvStep == PvInv /\ [PvNext]_pvVars => PvInv'
BY PvDataStep, PvFlagsStep, PvWorkStep, PvLiveStep, PvGoneStep, PvStoredStep, PvCacheStep, PvDecoderStep,
   PvWatchStep, PvOwedStep, PvOrderStep
   DEF PvInv, PvTypes

LEMMA PvInvariant == PvSpec => []PvInv
BY PvInitIs, PvInvStep, PTL DEF PvSpec

-----------------------------------------------------------------------------
LEMMA PvTypeHolds == PvInv => PvTypeOK
<1> SUFFICES ASSUME PvInv PROVE PvTypeOK
  OBVIOUS
<1>1. PvDataInv /\ PvFlagsInv /\ PvLiveInv
  BY DEF PvInv, PvTypes
<1>2. pvLock \in {0} \cup {w \in PvWorkers : pvWork[w] # PvIdle}
  <2>1. ~PvHolds(PvIdle)
    BY PvGoneFits DEF PvHolds, PvCompiling, PvAnnouncing
  <2> QED BY <1>1, <2>1 DEF PvInv, PvTypes, PvLockInv, PvDataInv
<1>3. {pvOwed, pvLost, pvCrossed} \subseteq BOOLEAN /\ pvEntry \in BOOLEAN /\ pvTimer \in BOOLEAN
  BY <1>1 DEF PvFlagsInv
<1>4. pvLive \in [dirty : BOOLEAN, snap : PvSchema, load : PvSchema]
  BY <1>1 DEF PvLiveInv
<1> QED BY <1>1, <1>2, <1>3, <1>4 DEF PvDataInv, PvTypeOK

LEMMA PvServed == PvInv => PvSchemasServed
<1> SUFFICES ASSUME PvInv PROVE PvSchemasServed
  OBVIOUS
<1>0. PvTypes /\ PvCacheTrue /\ PvDecoderInv /\ PvStoredInv /\ pvDoc \in PvDocs /\ PvDocFits(pvDoc)
      /\ pvType \in {"local", "git", "upload"}
  BY DEF PvInv, PvTypes, PvDataInv
<1>1. ASSUME PvSettled, pvRaced = {}, ~pvLost, PvActive(pvDoc) # PvNoRev, pvLive.snap # PvNoSchema
      PROVE  pvLive.snap = PvStored(PvActive(pvDoc))
  <2>1. \A w \in PvWorkers : ~PvWillTell(pvWork[w])
    BY <1>1, PvGoneFits DEF PvSettled, PvWillTell, PvAnnouncing
  <2>2. ~pvLive.dirty
    BY <1>1 DEF PvSettled
  <2>3. PvFits(pvLive.snap)
    BY <1>0, <1>1, <2>1, <2>2 DEF PvDecoderInv
  <2> QED BY <1>1, <2>3 DEF PvFits
<1>2. ASSUME pvType # "local", ~pvLost, PvActive(pvDoc) # PvNoRev
      PROVE  PvStored(PvActive(pvDoc)) # PvNoSchema
  <2>1. pvDoc.there
    BY <1>2 DEF PvActive
  <2>2. PvActive(pvDoc) = pvDoc.active
    BY <1>0, <1>2 DEF PvActive, PvDocFits
  <2> QED BY <1>0, <1>2, <2>1, <2>2 DEF PvStoredInv
<1> QED BY <1>0, <1>1, <1>2 DEF PvSchemasServed, PvDecoderTrue, PvActiveStored

LEMMA PvWatchHolds == PvInv => PvWatchTrue
BY PvGoneFits DEF PvInv, PvWatchInv, PvWatchTrue, PvWatched, PvSettled

LEMMA PvPendingHolds == PvInv => PvChangePending
BY DEF PvInv, PvOwedInv, PvChangePending, PvBusy, PvEndsWatch

LEMMA PvForwardHolds == PvInv /\ [PvNext]_pvVars => PvForwardStep
<1> SUFFICES ASSUME PvInv, [PvNext]_pvVars PROVE PvForwardStep
  OBVIOUS
<1>0. PvTypes /\ PvOrderInv /\ PvDataInv
  BY DEF PvInv, PvTypes
<1>1. ~pvDoc.there => ~pvDoc'.there
  BY <1>0, PvStaysGone
<1> DEFINE before == PvStored(PvLocalRevision)
<1> DEFINE after == PvAt(pvSchemas', PvLocalRevision)
<1>2. ASSUME before # PvNoSchema, after # PvNoSchema PROVE after.of >= before.of
  <2>1. before \in pvSchemas /\ before.rev = PvLocalRevision /\ after \in pvSchemas' /\ after.rev = PvLocalRevision
    BY <1>2, PvAtIs DEF PvStored
  <2>2. pvType = "local"
    <3>1. PvLocalRevision \in PvOwnRevs
      BY <1>0, <2>1 DEF PvDataInv
    <3> QED BY <3>1, PvNumbers DEF PvOwnRevs, PvLocalRevision
  <2>3. before.of \in Nat
    BY <1>0, <2>1, PvNumbers DEF PvDataInv, PvSchema
  <2> HIDE DEF before, after
  <2>4. ASSUME after \in pvSchemas PROVE after.of >= before.of
    <3>1. after = before
      BY <1>0, <2>1, <2>4 DEF PvDataInv
    <3> QED BY <2>3, <3>1
  <2>5. ASSUME NEW w \in PvWorkers, PvSave(w), after \notin pvSchemas PROVE after.of >= before.of
    <3> DEFINE s == [rev |-> pvWork[w].ref.rev, of |-> pvWork[w].of, set |-> pvWork[w].set]
    <3>1. pvWork[w].pc = "save" /\ after.of = pvWork[w].of
      <4>1. pvWork[w].pc = "save" /\ pvSchemas' = {t \in pvSchemas : t.rev # s.rev} \cup {s}
        BY <1>0, <2>5, PvSaveIs
      <4>2. s.of = pvWork[w].of
        OBVIOUS
      <4> HIDE DEF s
      <4> QED BY <2>1, <2>5, <4>1, <4>2
    <3>2. before.of <= pvWork[w].of /\ pvWork[w].of \in Nat
      BY <1>0, <2>1, <2>2, <3>1, PvNumbers DEF PvOrderInv, PvDataInv, PvWork
    <3> QED BY <2>3, <3>1, <3>2
  <2>6. ASSUME NEW w \in PvWorkers, PvDrop(w) \/ PvPrune(w) PROVE after \in pvSchemas
    BY <2>1, <2>6 DEF PvDrop, PvPrune
  <2> QED BY <1>0, <2>1, <2>4, <2>5, <2>6, PvSchemasChange
<1> QED BY <1>1, <1>2 DEF PvForwardStep

\* Every document, schema, revision and place is what the code can hold there; a
\* revision is stored once and the compile lock is held by a goroutine at work.
THEOREM PvTypeCorrect == PvSpec => []PvTypeOK
BY PvInvariant, PvTypeHolds, PTL

\* A cached snapshot is the stored schema or is about to be invalidated, a session
\* at rest decodes with the stored schema, and the selected revision has one,
\* whatever requests, callbacks and builds overlap.
THEOREM SchemasAreServed == PvSpec => []PvSchemasServed
BY PvInvariant, PvServed, PTL

\* At rest a source is watched exactly as its document says, unless a write was
\* lost or requests overtook each other.
THEOREM WatchFollowsDocument == PvSpec => []PvWatchTrue
BY PvInvariant, PvWatchHolds, PTL

\* No change of the files of a watched source is forgotten.
THEOREM ChangesArePending == PvSpec => []PvChangePending
BY PvInvariant, PvPendingHolds, PTL

\* A stored schema of a directory is never replaced by one of older files, and a
\* deleted source is not written back.
THEOREM NothingGoesBack == PvSpec => [][PvForwardStep]_pvVars
<1>1. PvInv /\ [PvNext]_pvVars => [PvForwardStep]_pvVars
  BY PvForwardHolds
<1> QED BY <1>1, PvInvariant, PTL DEF PvSpec
=============================================================================
