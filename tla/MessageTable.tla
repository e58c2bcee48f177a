----------------------------- MODULE MessageTable -----------------------------
(***************************************************************************)
(* The scrolled table of messages (MessageVirtualTable): rows that arrive  *)
(* above what is being read, roving focus, the selected row brought into   *)
(* view once.  Rows are an unbroken run of numbers, newest first; a row is *)
(* one unit of scroll.                                                     *)
(***************************************************************************)
EXTENDS Naturals, FiniteSets, FiniteSetsExt

CONSTANTS
    MtMax,   \* bound on messages
    MtCap,   \* most rows a live feed keeps
    MtView,  \* rows in view
    MtJump   \* rows PageUp and PageDown move

ASSUME MtAssumption == {MtMax, MtCap, MtView, MtJump} \subseteq Nat \ {0} /\ MtView < MtCap

VARIABLES
    mtMode,     \* "history" or "realtime"
    mtRows,     \* [new, old]: first and last row; old above new when there is none
    mtTop,      \* scrollTop, in rows
    mtAuto,     \* autoScrollRef
    mtFocused,  \* focusedId, 0 for none
    mtPicked,   \* selectedMessageId and scrolledForIdRef
    mtMarks     \* bookmarked messages

mtVars == <<mtMode, mtRows, mtTop, mtAuto, mtFocused, mtPicked, mtMarks>>

MtIds == 1 .. MtMax
MtCount(rows) == IF rows.old > rows.new THEN 0 ELSE rows.new - rows.old + 1
MtHas(rows, m) == rows.old <= m /\ m <= rows.new
MtIndex(rows, m) == rows.new - m

\* The browser keeps the offset within the content.
MtClamp(rows, top) == Min({top, IF MtCount(rows) > MtView THEN MtCount(rows) - MtView ELSE 0})
MtInView(rows, top, m) == MtHas(rows, m) /\ MtIndex(rows, m) \in top .. top + MtView - 1

\* scrollToIndex with align "auto": the least scroll that shows the row.
MtReveal(rows, top, m) ==
    LET i == MtIndex(rows, m)
    IN  IF i < top THEN i ELSE IF i >= top + MtView THEN i - MtView + 1 ELSE top

\* The handler of the scroll event: at the top the live feed is followed.
MtScrolled(top) == mtTop' = top /\ mtAuto' = IF mtMode = "realtime" /\ top # mtTop THEN top = 0 ELSE mtAuto

MtInit ==
    /\ mtMode \in {"history", "realtime"}
    /\ mtRows = IF mtMode = "history" THEN [new |-> MtMax, old |-> 1] ELSE [new |-> 0, old |-> 1]
    /\ mtTop = 0 /\ mtAuto \in BOOLEAN /\ mtFocused = 0 /\ mtPicked = [id |-> 0, shown |-> 0] /\ mtMarks = {}

\* Mutant: the offset stays as it is.
MtTopStays(rows, inserted) == IF mtAuto THEN 0 ELSE MtClamp(rows, mtTop)

\* Mutant: the offset is not kept within the content.
MtTopUncapped(rows, inserted) == IF mtAuto THEN 0 ELSE mtTop + inserted

\* Where the view is once rows were put before it.
MtTopAfter(rows, inserted) ==
    IF mtAuto THEN 0
    ELSE IF MtCount(mtRows) > 0 /\ MtHas(rows, mtRows.new) THEN MtClamp(rows, mtTop + inserted)
    ELSE MtClamp(rows, mtTop)

\* A batch of the live feed: the new rows go first, the cap drops the last.
MtArrive(n) ==
    LET new == mtRows.new + n
        rows == [new |-> new, old |-> Max({mtRows.old, IF new > MtCap THEN new - MtCap + 1 ELSE 1})]
        top == MtTopAfter(rows, n)
    IN  /\ mtMode = "realtime" /\ new <= MtMax /\ mtRows' = rows
        /\ IF MtHas(rows, mtPicked.id) /\ mtPicked.id # mtPicked.shown
           THEN MtScrolled(MtReveal(rows, top, mtPicked.id)) /\ mtPicked' = [mtPicked EXCEPT !.shown = mtPicked.id]
           ELSE MtScrolled(top) /\ mtPicked' = mtPicked
        /\ UNCHANGED <<mtMode, mtFocused, mtMarks>>

MtClear ==
    /\ mtMode = "realtime" /\ mtRows' = [mtRows EXCEPT !.old = mtRows.new + 1] /\ MtScrolled(0)
    /\ UNCHANGED <<mtMode, mtFocused, mtPicked, mtMarks>>

MtScroll(top) ==
    /\ top # mtTop /\ top <= MtClamp(mtRows, top) /\ MtScrolled(top)
    /\ UNCHANGED <<mtMode, mtRows, mtFocused, mtPicked, mtMarks>>

\* The button is shown once the table is scrolled away from its top.
MtScrollToTop ==
    /\ mtTop > 1 /\ MtScrolled(0)
    /\ UNCHANGED <<mtMode, mtRows, mtFocused, mtPicked, mtMarks>>

\* A selection made here or in the details panel; its row is shown once.
MtPick(m) ==
    IF m # 0 /\ MtHas(mtRows, m) /\ mtPicked.shown # m
    THEN mtPicked' = [id |-> m, shown |-> m] /\ MtScrolled(MtReveal(mtRows, mtTop, m))
    ELSE mtPicked' = [mtPicked EXCEPT !.id = m] /\ UNCHANGED <<mtTop, mtAuto>>

MtSelected(m) ==
    /\ m # mtPicked.id /\ MtPick(m)
    /\ UNCHANGED <<mtMode, mtRows, mtFocused, mtMarks>>

\* The row in the tab order: the focused one, the first if it is gone.
MtFocusIndex == IF MtHas(mtRows, mtFocused) THEN MtIndex(mtRows, mtFocused) ELSE 0

\* The rows drawn, with those a key or a click can reach.
MtDrawn == {m \in MtIds : MtInView(mtRows, mtTop, m)}

MtActivate(m) ==
    /\ m \in MtDrawn /\ mtFocused' = m /\ MtPick(m)
    /\ UNCHANGED <<mtMode, mtRows, mtMarks>>

MtFocus(m) ==
    /\ m \in MtDrawn /\ mtFocused' = m
    /\ UNCHANGED <<mtMode, mtRows, mtTop, mtAuto, mtPicked, mtMarks>>

\* Where each key of the grid goes.
MtKeys == [ArrowDown |-> MtFocusIndex + 1, PageDown |-> MtFocusIndex + MtJump,
           ArrowUp |-> IF MtFocusIndex = 0 THEN 0 ELSE MtFocusIndex - 1,
           PageUp |-> IF MtFocusIndex < MtJump THEN 0 ELSE MtFocusIndex - MtJump,
           Home |-> 0, End |-> MtCount(mtRows)]

MtMoveFocus(key) ==
    LET to == mtRows.new - Min({MtKeys[key], MtCount(mtRows) - 1})
    IN  /\ MtCount(mtRows) > 0 /\ mtFocused' = to
        /\ MtScrolled(MtReveal(mtRows, mtTop, to))
        /\ UNCHANGED <<mtMode, mtRows, mtPicked, mtMarks>>

\* The bookmark button of a row of the history, or "b" on it.
MtBookmark(m) ==
    /\ mtMode = "history" /\ m \in MtDrawn
    /\ mtMarks' = IF m \in mtMarks THEN mtMarks \ {m} ELSE mtMarks \cup {m}
    /\ UNCHANGED <<mtMode, mtRows, mtTop, mtAuto, mtFocused, mtPicked>>

MtNext ==
    \/ \E n \in 1 .. MtCap : MtArrive(n)
    \/ \E top \in 0 .. MtMax : MtScroll(top)
    \/ \E m \in MtIds : MtSelected(m) \/ MtActivate(m) \/ MtFocus(m) \/ MtBookmark(m)
    \/ \E key \in DOMAIN MtKeys : MtMoveFocus(key)
    \/ MtSelected(0) \/ MtClear \/ MtScrollToTop

MtSpec == MtInit /\ [][MtNext]_mtVars

---------------------------------------------------------------------------
MtTypeOK ==
    /\ mtTop \in 0 .. MtMax /\ mtAuto \in BOOLEAN /\ mtFocused \in MtIds \cup {0}
    /\ MtCount(mtRows) <= IF mtMode = "realtime" THEN MtCap ELSE MtMax
    /\ mtTop <= MtClamp(mtRows, mtTop)

\* Rows that arrive while the feed is not followed leave the row at the top of
\* the view in view for as long as it is listed, and the view where it is told
\* to show a selected row apart (MessageVirtualTable's layout effect).
MtReadingKept ==
    [][LET reading == mtRows.new - mtTop
       IN  (mtRows'.new > mtRows.new /\ ~mtAuto /\ MtCount(mtRows) > 0 /\ mtPicked' = mtPicked)
              => (MtHas(mtRows', reading) => MtInView(mtRows', mtTop', reading))]_mtVars
=============================================================================
