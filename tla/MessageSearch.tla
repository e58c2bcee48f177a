--------------------------- MODULE MessageSearch ---------------------------
(***************************************************************************)
(* Searching a stream: the browser's useMessageSearch and its status bar,  *)
(* and the server's scan (services/messages/messages/search.go) it reads   *)
(* events from.  A search may be stopped, may break or run out of budget   *)
(* at any point and go on from a cursor; matches near the cursor may come  *)
(* twice and are shown once.  Sequences 1..MsLast are all stored; decoding *)
(* and matching are the set of matches of a query.                         *)
(***************************************************************************)
EXTENDS Naturals, Sequences, SequencesExt, Listing

CONSTANTS
    MsLast,        \* last sequence of the stream
    MsQueries,     \* [matches : SUBSET (1 .. MsLast), direction : {"forward", "backward"}]
    MsBatch,       \* searchMatchBatch
    MsMaxMatches,  \* MaxMatches
    MsMaxRuns      \* bound on runs

ASSUME MsAssumption ==
    /\ {MsLast, MsBatch, MsMaxMatches} \subseteq Nat \ {0} /\ MsMaxRuns \in Nat
    /\ MsQueries \subseteq [matches : SUBSET (1 .. MsLast), direction : {"forward", "backward"}]

VARIABLES
    msQuery,   \* the query of the filters, or MsNone
    msState,   \* runState
    msRun,     \* the server's run
    msWire,    \* events of the current run on their way
    msRuns

msVars == <<msQuery, msState, msRun, msWire, msRuns>>

MsNone == [matches |-> {}, direction |-> "none"]
MsSeq == 0 .. MsLast   \* 0 stands for an unset cursor
MsIdle ==
    [status |-> "idle", messages |-> <<>>, told |-> FALSE, progress |-> 0, done |-> 0,
     runCursor |-> 0, resume |-> 0]
MsNoRun == [on |-> FALSE]

MsInit ==
    /\ msQuery = MsNone /\ msState = MsIdle /\ msRun = MsNoRun /\ msWire = <<>> /\ msRuns = 0

---------------------------------------------------------------------------
(* The server. *)

MsMatches(messages) == [kind |-> "matches", messages |-> messages]
MsProgress(resume) == [kind |-> "progress", resume |-> IF resume \in 1 .. MsLast THEN resume ELSE 0]
MsDone(next) == [kind |-> "done", next |-> next]

\* Mutant: where the search stands is told before the matches it found.
MsReportEarly(run) ==
    IF run.pending = <<>> THEN <<run, <<MsProgress(run.resume)>>>>
    ELSE <<[run EXCEPT !.pending = <<>>], <<MsProgress(run.resume), MsMatches(run.pending)>>>>

\* progress: every pending match, then where the search stands.
MsReport(run) ==
    <<[run EXCEPT !.pending = <<>>],
      (IF run.pending = <<>> THEN <<>> ELSE <<MsMatches(run.pending)>>) \o <<MsProgress(run.resume)>>>>

\* flush: full batches, and when due or forced the rest with the progress.
MsFlush(run, due) ==
    LET full == (Len(run.pending) \div MsBatch) * MsBatch
        batches == [i \in 1 .. full \div MsBatch |->
                      MsMatches(SubSeq(run.pending, (i - 1) * MsBatch + 1, i * MsBatch))]
        rest == [run EXCEPT !.pending = SubSeq(@, full + 1, Len(@))]
        told == MsReport(rest)
    IN  IF due THEN <<told[1], batches \o told[2]>> ELSE <<rest, batches>>

MsFinish(run, next) ==
    msRun' = MsNoRun /\ msWire' = msWire \o MsFlush([run EXCEPT !.resume = next], TRUE)[2] \o <<MsDone(next)>>

MsGoOn(run, due) ==
    LET flushed == MsFlush(run, due) IN msRun' = flushed[1] /\ msWire' = msWire \o flushed[2]

\* forward: one message, and perhaps the end of a budget after it.
MsForward(due, spent) ==
    LET at == msRun.at
        found == at \in msQuery.matches
        run == [msRun EXCEPT !.pending = IF found THEN Append(@, at) ELSE @,
                             !.matched = IF found THEN @ + 1 ELSE @,
                             !.resume = at + 1, !.at = at + 1]
        flushed == MsFlush(run, due)
        over == spent \/ run.matched >= MsMaxMatches
    IN  /\ msRun.on /\ msQuery.direction = "forward"
        /\ IF over \/ at = MsLast
           THEN /\ msRun' = MsNoRun
                /\ LET next == IF over /\ at < MsLast THEN at + 1 ELSE 0
                   IN  msWire' = msWire \o flushed[2]
                         \o MsFlush([flushed[1] EXCEPT !.resume = next], TRUE)[2] \o <<MsDone(next)>>
           ELSE msRun' = flushed[1] /\ msWire' = msWire \o flushed[2]
        /\ UNCHANGED <<msQuery, msState, msRuns>>

\* backward, inside a window: progress from its upper end.
MsWithin ==
    /\ msRun.on /\ msQuery.direction = "backward"
    /\ MsGoOn([msRun EXCEPT !.resume = msRun.at], TRUE) /\ msRun' # msRun
    /\ UNCHANGED <<msQuery, msState, msRuns>>

\* backward: a window that did not fit the budget is left for the next run.
MsAbandon ==
    /\ msRun.on /\ msQuery.direction = "backward" /\ ~msRun.first
    /\ MsFinish(msRun, msRun.at)
    /\ UNCHANGED <<msQuery, msState, msRuns>>

\* backward: a window down to low, its matches newest first, as many as still fit.
MsBackward(low, spent) ==
    LET all == Reverse(Ascending(msQuery.matches \cap (low .. msRun.at)))
        keep == MsMaxMatches - msRun.matched
        found == SubSeq(all, 1, IF Len(all) < keep THEN Len(all) ELSE keep)
        run == [msRun EXCEPT !.pending = @ \o found, !.matched = @ + Len(found),
                             !.resume = low - 1, !.at = low - 1, !.first = FALSE]
    IN  /\ msRun.on /\ msQuery.direction = "backward" /\ low \in 1 .. msRun.at
        /\ CASE Len(all) > keep -> MsFinish(run, found[Len(found)] - 1)
             [] Len(all) <= keep /\ low = 1 -> MsFinish(run, 0)
             [] OTHER -> IF run.matched >= MsMaxMatches \/ spent THEN MsFinish(run, low - 1) ELSE MsGoOn(run, TRUE)
        /\ UNCHANGED <<msQuery, msState, msRuns>>

---------------------------------------------------------------------------
(* The browser. *)

\* planSearch: a cursor moves the end the scan starts from.
MsPlan(q, cursor) ==
    [on |-> TRUE, first |-> TRUE, matched |-> 0, pending |-> <<>>, resume |-> 0,
     at |-> IF cursor # 0 THEN cursor ELSE IF q.direction = "forward" THEN 1 ELSE MsLast]

\* run: abort the earlier run, start one, keep what was found when going on.
MsStart(q, cursor, append) ==
    /\ msRuns < MsMaxRuns /\ msRuns' = msRuns + 1
    /\ msRun' = MsPlan(q, cursor) /\ msWire' = <<>>
    /\ msState' = [MsIdle EXCEPT !.status = "running", !.runCursor = cursor,
                                 !.messages = IF append THEN msState.messages ELSE <<>>]

MsAbort == msRun' = MsNoRun /\ msWire' = <<>> /\ UNCHANGED msRuns

MsSetQuery(q) == q # msQuery /\ msQuery' = q /\ MsStart(q, 0, FALSE)
MsClearQuery == msQuery # MsNone /\ msQuery' = MsNone /\ msState' = MsIdle /\ MsAbort

\* applyEvent: matches already shown are not shown again.
MsApply(state, event) ==
    CASE event.kind = "progress" -> [state EXCEPT !.told = TRUE, !.progress = event.resume]
      [] event.kind = "matches" -> [state EXCEPT !.messages = @ \o Unseen(@, event.messages)]
      [] event.kind = "done" -> [state EXCEPT !.status = "done", !.done = event.next]

MsReceive ==
    /\ msWire # <<>> /\ msWire' = Tail(msWire)
    /\ msState' = MsApply(msState, Head(msWire))
    /\ UNCHANGED <<msQuery, msRun, msRuns>>

\* The stream of events breaks; those on their way are lost.
MsBreak ==
    /\ msState.status = "running"
    /\ msState' = [msState EXCEPT !.status = "error"]
    /\ UNCHANGED msQuery /\ MsAbort

MsResumeAfter(state) == IF state.told THEN state.progress ELSE state.runCursor

MsStop ==
    /\ msState.status = "running"
    /\ msState' = [msState EXCEPT !.status = "stopped", !.resume = MsResumeAfter(msState)]
    /\ UNCHANGED msQuery /\ MsAbort

MsCursor ==
    CASE msState.status = "done" -> msState.done
      [] msState.status = "stopped" -> msState.resume
      [] msState.status = "error" -> MsResumeAfter(msState)
      [] OTHER -> 0

\* The bar offers to search further, or to try again after an error.
MsMore == MsCursor # 0 /\ MsStart(msQuery, MsCursor, TRUE) /\ UNCHANGED msQuery
MsTryAgain == msState.status = "error" /\ MsCursor = 0 /\ MsStart(msQuery, 0, FALSE) /\ UNCHANGED msQuery

\* Refresh of the list's toolbar.
MsRestart == msQuery # MsNone /\ MsStart(msQuery, 0, FALSE) /\ UNCHANGED msQuery

MsNext ==
    \/ \E due, spent \in BOOLEAN : MsForward(due, spent)
    \/ \E low \in 1 .. MsLast, spent \in BOOLEAN : MsBackward(low, spent)
    \/ MsWithin \/ MsAbandon \/ MsReceive \/ MsBreak \/ MsStop \/ MsMore \/ MsTryAgain \/ MsRestart
    \/ \E q \in MsQueries : MsSetQuery(q)
    \/ MsClearQuery

MsSpec == MsInit /\ [][MsNext]_msVars

---------------------------------------------------------------------------
MsTypeOK ==
    /\ msQuery \in MsQueries \cup {MsNone}
    /\ msState.status \in {"idle", "running", "done", "stopped", "error"}
    /\ Range(msState.messages) \subseteq 1 .. MsLast
    /\ msState.told \in BOOLEAN /\ {msState.progress, msState.done, msState.resume} \subseteq MsSeq
    /\ msRuns \in 0 .. MsMaxRuns

\* All matches of the query, in the order the list shows them.
MsAnswer ==
    LET up == Ascending(msQuery.matches)
    IN  IF msQuery.direction = "forward" THEN up ELSE Reverse(up)

\* However a search was stopped, broke or ran out of budget and went on, what
\* is shown is the first part of the answer with no gap and no repeat, and when
\* it has nothing left to search it is the whole answer (useMessageSearch,
\* searchRun: "so a stop resumes without gaps or repeats").
MsSearchWhole ==
    msQuery # MsNone =>
        /\ IsPrefix(msState.messages, MsAnswer)
        /\ msState.status = "done" /\ msState.done = 0 => msState.messages = MsAnswer
        /\ msState.status \in {"stopped", "error"} /\ msState.told /\ msState.progress = 0
             => msState.messages = MsAnswer
=============================================================================
