------------------------------- MODULE KVWatch -------------------------------
(***************************************************************************)
(* The key list of a bucket and the watch that keeps it up to date         *)
(* (contexts/kv/application/queries/useKVWatch.ts, with the watch row and  *)
(* the list of components/kv/KVStorePage.tsx).  The list is a cached       *)
(* answer; the watch changes it in place with what it reports.             *)
(***************************************************************************)
EXTENDS Naturals, Sequences, SequencesExt, FiniteSets, FiniteSetsExt

CONSTANTS
    KwKeys,       \* keys of the bucket
    KwListLimit,  \* KEY_LIST_LIMIT, the most keys a list holds
    KwMaxChanges, \* MAX_CHANGES, the most changes the page keeps
    KwMaxWrites,  \* bound on the writes of the bucket's clients
    KwMaxFails,   \* bound on the failures of the watch
    KwMaxPresses  \* bound on the user's steps

ASSUME KwAssumption ==
    /\ IsFiniteSet(KwKeys) /\ KwKeys # {} /\ KwListLimit \in Nat \ {0} /\ KwMaxChanges \in Nat \ {0}
    /\ KwMaxWrites \in Nat /\ KwMaxFails \in Nat /\ KwMaxPresses \in Nat

VARIABLES
    kwHeld,     \* keys the bucket holds
    kwWrites,   \* writes so far
    kwFrames,   \* changes on their way to the page
    kwList,     \* the cached answer to ListKVKeys, for the pattern in force
    kwFetch,    \* the list being fetched
    kwWatch,    \* the live toggle and the watch behind it
    kwPattern,  \* keys the pattern of the search selects
    kwRaced,    \* TRUE: the watch reported while a list was being fetched
    kwPresses

kwServer == <<kwHeld, kwWrites>>
kwVars == <<kwServer, kwFrames, kwList, kwFetch, kwWatch, kwPattern, kwRaced, kwPresses>>

KwNoFetch == [of |-> {}, keys |-> {}, truncated |-> FALSE]
KwOff == [live |-> FALSE, visible |-> TRUE, view |-> "keys", status |-> "off", changes |-> <<>>, fails |-> 0]
KwPatterns == {KwKeys} \cup {{k} : k \in KwKeys}

KwInit ==
    /\ kwHeld \in SUBSET KwKeys /\ kwWrites = 0 /\ kwFrames = <<>>
    /\ kwList = KwNoFetch /\ kwFetch = KwNoFetch /\ kwWatch = KwOff
    /\ kwPattern = KwKeys /\ kwRaced = FALSE /\ kwPresses = 0

KwUse == kwPresses < KwMaxPresses /\ kwPresses' = kwPresses + 1

---------------------------------------------------------------------------
\* A client of the bucket writes; a watch that runs has it to report.
KwWrite(op, k) ==
    /\ kwWrites < KwMaxWrites /\ kwWrites' = kwWrites + 1 /\ (op = "delete" => k \in kwHeld)
    /\ kwHeld' = IF op = "put" THEN kwHeld \cup {k} ELSE kwHeld \ {k}
    /\ kwFrames' = IF kwWatch.status \in {"live", "offline"} /\ k \in kwPattern
                   THEN Append(kwFrames, [op |-> op, key |-> k]) ELSE kwFrames
    /\ UNCHANGED <<kwList, kwFetch, kwWatch, kwPattern, kwRaced, kwPresses>>

\* ListKVKeys: at most KwListLimit of the keys, and whether some were left out.
KwAnswers(pattern) ==
    LET keys == kwHeld \cap pattern
        whole == Cardinality(keys) <= KwListLimit
    IN  {[of |-> pattern, keys |-> some, truncated |-> ~whole] : some \in IF whole THEN {keys} ELSE kSubset(KwListLimit, keys)}

KwBeginFetch(pattern) == \E l \in KwAnswers(pattern) : kwFetch' = l

\* Mounting, a mutation of the page or a new look at the window.
KwFetchList ==
    /\ kwFetch = KwNoFetch /\ kwList \notin KwAnswers(kwPattern) /\ KwBeginFetch(kwPattern)
    /\ UNCHANGED <<kwServer, kwFrames, kwList, kwWatch, kwPattern, kwRaced, kwPresses>>

KwListFetched ==
    /\ kwFetch # KwNoFetch /\ kwFetch' = KwNoFetch /\ kwList' = kwFetch
    /\ UNCHANGED <<kwServer, kwFrames, kwWatch, kwPattern, kwRaced, kwPresses>>

---------------------------------------------------------------------------
\* Mutant: a key that is gone stays listed.
KwApplyPuts(list, change) ==
    IF change.op # "put" \/ change.key \in list.keys THEN list
    ELSE IF list.truncated \/ Cardinality(list.keys) >= KwListLimit THEN [list EXCEPT !.truncated = TRUE]
    ELSE [list EXCEPT !.keys = @ \cup {change.key}]

\* applyChanges, for one change.
KwApply(list, change) ==
    IF change.op # "put" THEN [list EXCEPT !.keys = @ \ {change.key}]
    ELSE IF change.key \in list.keys THEN list
    ELSE IF list.truncated \/ Cardinality(list.keys) >= KwListLimit THEN [list EXCEPT !.truncated = TRUE]
    ELSE [list EXCEPT !.keys = @ \cup {change.key}]

\* The newest first, as many as the page keeps.
KwTimeline(new, old) ==
    LET all == Reverse(new) \o old IN SubSeq(all, 1, IF Len(all) < KwMaxChanges THEN Len(all) ELSE KwMaxChanges)

\* A change of what is watched starts a new watch and drops what the last one showed.
KwRestarted(live, visible) ==
    [kwWatch EXCEPT !.live = live, !.visible = visible, !.changes = <<>>, !.view = IF live THEN @ ELSE "keys",
                    !.status = IF live /\ visible THEN "starting" ELSE "off"]

KwToggleLive ==
    /\ KwUse /\ kwWatch' = KwRestarted(~kwWatch.live, kwWatch.visible) /\ kwFrames' = <<>>
    /\ UNCHANGED <<kwServer, kwList, kwFetch, kwPattern, kwRaced>>

\* A hidden page does not watch.
KwTurn ==
    /\ KwUse /\ kwWatch' = KwRestarted(kwWatch.live, ~kwWatch.visible) /\ kwFrames' = <<>>
    /\ UNCHANGED <<kwServer, kwList, kwFetch, kwPattern, kwRaced>>

\* The list of another pattern; the last one stays on screen until it is here.
KwSearchPattern(keys) ==
    /\ KwUse /\ keys # kwPattern /\ kwPattern' = keys /\ KwBeginFetch(keys)
    /\ kwWatch' = KwRestarted(kwWatch.live, kwWatch.visible) /\ kwFrames' = <<>>
    /\ UNCHANGED <<kwServer, kwList, kwRaced>>

\* The first frame of a watch makes the page fetch the list again.
KwWatchStarts(status) ==
    /\ kwWatch.status = "starting" /\ kwWatch' = [kwWatch EXCEPT !.status = status]
    /\ KwBeginFetch(kwPattern) /\ kwRaced' = FALSE
    /\ UNCHANGED <<kwServer, kwFrames, kwList, kwPattern, kwPresses>>

\* A frame brings what happened since the last one.
KwFrame ==
    /\ kwWatch.status \in {"live", "offline"} /\ (kwFrames # <<>> \/ kwWatch.status = "offline")
    /\ kwList' = IF kwList.of = kwPattern THEN FoldLeft(KwApply, kwList, kwFrames) ELSE kwList
    /\ kwWatch' = [kwWatch EXCEPT !.status = "live", !.changes = KwTimeline(kwFrames, @)]
    /\ kwFrames' = <<>> /\ kwRaced' = (kwRaced \/ (kwFetch # KwNoFetch /\ kwFrames # <<>>))
    /\ UNCHANGED <<kwServer, kwFetch, kwPattern, kwPresses>>

\* A watch that ends or fails is begun again after a delay, unless the server
\* will not have it: then only Restart does.
KwWatchEnds(final) ==
    /\ kwWatch.status \in {"starting", "live", "offline"} /\ kwWatch.fails < KwMaxFails /\ kwFrames' = <<>>
    /\ kwWatch' = [kwWatch EXCEPT !.fails = @ + 1, !.status = IF final THEN "stopped" ELSE "reconnecting"]
    /\ UNCHANGED <<kwServer, kwList, kwFetch, kwPattern, kwRaced, kwPresses>>

KwAttempt ==
    /\ kwWatch' = [kwWatch EXCEPT !.status = "starting", !.changes = <<>>]
    /\ \/ kwWatch.status = "reconnecting" /\ UNCHANGED kwPresses
       \/ kwWatch.status = "stopped" /\ KwUse
    /\ UNCHANGED <<kwServer, kwFrames, kwList, kwFetch, kwPattern, kwRaced>>

KwShowChanges ==
    /\ KwUse /\ kwWatch.live /\ kwWatch' = [kwWatch EXCEPT !.view = IF @ = "keys" THEN "changes" ELSE "keys"]
    /\ UNCHANGED <<kwServer, kwFrames, kwList, kwFetch, kwPattern, kwRaced>>

KwNext ==
    \/ \E op \in {"put", "delete"}, k \in KwKeys : KwWrite(op, k)
    \/ KwFetchList \/ KwListFetched \/ KwToggleLive \/ KwTurn \/ KwFrame \/ KwAttempt \/ KwShowChanges
    \/ \E keys \in KwPatterns : KwSearchPattern(keys)
    \/ \E s \in {"live", "offline"} : KwWatchStarts(s)
    \/ \E final \in BOOLEAN : KwWatchEnds(final)

KwSpec == KwInit /\ [][KwNext]_kwVars

---------------------------------------------------------------------------
KwTypeOK ==
    /\ kwHeld \subseteq KwKeys /\ kwPattern \in KwPatterns
    /\ kwList.keys \subseteq KwKeys /\ Cardinality(kwList.keys) <= KwListLimit
    /\ kwWatch.status \in {"off", "starting", "live", "offline", "reconnecting", "stopped"}
    /\ Len(kwWatch.changes) <= KwMaxChanges

\* A list that was fetched when the watch started and since then followed what
\* the watch reports is the list of the keys the bucket holds, unless a report
\* came between a fetch and its answer: that answer then takes the report back.
KwLiveListTrue ==
    (kwWatch.status = "live" /\ kwFrames = <<>> /\ kwFetch = KwNoFetch /\ ~kwRaced)
        => /\ kwList.keys \subseteq kwHeld
           /\ ~kwList.truncated => kwHeld \cap kwPattern \subseteq kwList.keys
=============================================================================
