---------------------------- MODULE MessageList ----------------------------
(***************************************************************************)
(* The list of a stream's messages (UnifiedMessageList): the newest page,  *)
(* the pages loaded after it (useLoadMoreMessages), history against live   *)
(* mode, two messages picked for comparison, and the export that walks the *)
(* whole stream (ExportDialog, exportRange).  The stream holds 1..mlLast   *)
(* and grows; a page is the run of sequences it holds, newest first, or    *)
(* oldest first for the export.  Filters are in MessageSearch.             *)
(***************************************************************************)
EXTENDS Naturals, Sequences, SequencesExt, Listing

CONSTANTS
    MlMax,    \* bound on messages of the stream
    MlPage,   \* limit, and RANGE_PAGE_SIZE
    MlLimit,  \* rangeLimit of an export
    MlBound   \* bound on base pages fetched

ASSUME MlAssumption == {MlMax, MlPage, MlLimit, MlBound} \subseteq Nat \ {0}

VARIABLES
    mlLast,     \* last sequence of the stream
    mlMode,     \* "history" or "realtime"
    mlBase,     \* historyData, the id of the page with it
    mlFetches,  \* base fetches asked and not answered
    mlExtra,    \* extraPages
    mlLoading,  \* isLoadingMore
    mlGen,      \* generationRef
    mlRan,      \* id of the base page the effect last ran for
    mlAsks,     \* pages asked for and not answered
    mlPair,     \* compareMode, compareMessages and showDiffViewer
    mlDialog,   \* showExportDialog: "closed", "open", or "busy" with the walk it began
    mlExport    \* the export's walk

mlListed == <<mlBase, mlFetches, mlExtra, mlLoading, mlGen, mlRan, mlAsks>>
mlExports == <<mlDialog, mlExport>>
mlVars == <<mlLast, mlMode, mlListed, mlPair, mlExports>>

\* A page of the server: its messages, whether more follow and where.
MlPageAt(top) ==
    LET seqs == [i \in 1 .. (IF top < MlPage THEN top ELSE MlPage) |-> top - i + 1]
    IN  [seqs |-> seqs, more |-> top > MlPage, next |-> IF top > MlPage THEN top - MlPage ELSE 0]

MlNoExport == [on |-> FALSE, next |-> 0, taken |-> <<>>, seen |-> 0, aborted |-> FALSE, result |-> "none"]
MlNoPair == [on |-> FALSE, two |-> <<>>, diff |-> FALSE]

MlInit ==
    /\ mlLast \in 1 .. MlMax /\ mlMode \in {"history", "realtime"}
    /\ mlBase = [id |-> 0, page |-> [seqs |-> <<>>, more |-> FALSE, next |-> 0]]
    /\ mlFetches = IF mlMode = "history" THEN 1 ELSE 0
    /\ mlExtra = <<>> /\ mlLoading = FALSE /\ mlGen = 0 /\ mlRan = 0 /\ mlAsks = {}
    /\ mlPair = MlNoPair /\ mlDialog = "closed" /\ mlExport = MlNoExport

MlPublished ==
    /\ mlLast < MlMax /\ mlLast' = mlLast + 1
    /\ UNCHANGED <<mlMode, mlListed, mlPair, mlExports>>

---------------------------------------------------------------------------
(* The base page and the pages after it. *)

\* The export and the comparison are dialogs over the list; the task that ends a
\* walk also saves what it took.
MlReachable == mlDialog = "closed" /\ mlExport.result = "none" /\ ~mlPair.diff

\* What the toolbar offers in each mode.
MlToolbar ==
    IF mlMode = "realtime" THEN {"limit", "pause", "clear", "rate", "mode"}
    ELSE {"limit", "diff", "export", "mode"} \cup (IF mlFetches = 0 THEN {"refresh"} ELSE {})

\* Refresh, offered in history while no fetch is under way.
MlRefetch ==
    /\ MlReachable /\ "refresh" \in MlToolbar /\ mlFetches' = 1
    /\ UNCHANGED <<mlLast, mlMode, mlBase, mlExtra, mlLoading, mlGen, mlRan, mlAsks, mlPair, mlExports>>

\* Back from live mode the cached page is fetched anew.
MlSetMode(mode) ==
    /\ MlReachable /\ mode # mlMode /\ mlMode' = mode
    /\ mlFetches' = IF mode = "history" THEN 1 ELSE mlFetches
    /\ UNCHANGED <<mlLast, mlBase, mlExtra, mlLoading, mlGen, mlRan, mlAsks, mlPair, mlExports>>

\* An error leaves the page that was there.
MlBaseAnswer(ok) ==
    /\ mlFetches = 1 /\ mlFetches' = 0
    /\ mlBase.id < MlBound
    /\ mlBase' = IF ok THEN [id |-> mlBase.id + 1, page |-> MlPageAt(mlLast)] ELSE mlBase
    /\ UNCHANGED <<mlLast, mlMode, mlExtra, mlLoading, mlGen, mlRan, mlAsks, mlPair, mlExports>>

\* Mutant: the effect does not disown the answers under way.
MlNewBaseOnly ==
    /\ mlRan # mlBase.id /\ mlRan' = mlBase.id
    /\ mlGen' = mlGen /\ mlExtra' = <<>> /\ mlLoading' = FALSE
    /\ UNCHANGED <<mlLast, mlMode, mlBase, mlFetches, mlAsks, mlPair, mlExports>>

\* The effect of a new base page drops the pages that followed the old one.
MlNewBase ==
    /\ mlRan # mlBase.id /\ mlRan' = mlBase.id
    /\ mlGen' = mlGen + 1 /\ mlExtra' = <<>> /\ mlLoading' = FALSE
    /\ UNCHANGED <<mlLast, mlMode, mlBase, mlFetches, mlAsks, mlPair, mlExports>>

MlLastPage == IF mlExtra = <<>> THEN mlBase.page ELSE Last(mlExtra)

\* The button is shown in history while a page follows.
MlCanLoadMore == mlMode = "history" /\ MlLastPage.more

MlLoadMore ==
    /\ MlReachable /\ MlCanLoadMore /\ ~mlLoading /\ mlLoading' = TRUE
    /\ mlAsks' = mlAsks \cup {[gen |-> mlGen, start |-> MlLastPage.next]}
    /\ UNCHANGED <<mlLast, mlMode, mlBase, mlFetches, mlExtra, mlGen, mlRan, mlPair, mlExports>>

\* An answer, or an error, counts only for the base page it was asked after.
MlMoreAnswer(ask, ok) ==
    /\ mlAsks' = mlAsks \ {ask}
    /\ mlExtra' = IF ok /\ ask.gen = mlGen THEN Append(mlExtra, MlPageAt(ask.start)) ELSE mlExtra
    /\ mlLoading' = (mlLoading /\ ask.gen # mlGen)
    /\ UNCHANGED <<mlLast, mlMode, mlBase, mlFetches, mlGen, mlRan, mlPair, mlExports>>

\* What the list shows: each sequence of the pages once, in their order.
MlAddPage(shown, page) == shown \o Unseen(shown, page.seqs)
MlShown == FoldLeft(MlAddPage, mlBase.page.seqs, mlExtra)

---------------------------------------------------------------------------
(* Comparing two messages. *)

MlToggleCompare ==
    /\ MlReachable /\ ~mlExport.on /\ "diff" \in MlToolbar
    /\ mlPair' = IF mlPair.on THEN MlNoPair ELSE [mlPair EXCEPT !.on = TRUE]
    /\ UNCHANGED <<mlLast, mlMode, mlListed, mlExports>>

\* handleCompareSelect: a picked one again is let go, a third takes the second's place.
MlCompare(s) ==
    /\ MlReachable /\ mlPair.on /\ mlMode = "history" /\ s \in Range(MlShown)
    /\ mlPair' = [mlPair EXCEPT !.two =
         IF s \in Range(@) THEN Unseen(<<s>>, @)
         ELSE IF Len(@) < 2 THEN Append(@, s) ELSE <<@[1], s>>]
    /\ UNCHANGED <<mlLast, mlMode, mlListed, mlExports>>

MlCancelCompare ==
    /\ MlReachable /\ mlPair.on /\ mlPair' = [mlPair EXCEPT !.on = FALSE, !.two = <<>>]
    /\ UNCHANGED <<mlLast, mlMode, mlListed, mlExports>>

\* The bar opens the comparison once two are picked; closing it leaves them.
MlOpenDiff ==
    /\ mlDialog = "closed" /\ mlExport.result = "none" /\ mlPair.on /\ Len(mlPair.two) = 2 /\ mlPair' = [mlPair EXCEPT !.diff = ~@]
    /\ UNCHANGED <<mlLast, mlMode, mlListed, mlExports>>

---------------------------------------------------------------------------
(* Export of the whole range: pages forward from the first message. *)

\* The dialog exports the range unless an export of its own is under way, which
\* Cancel ends.
MlDialogOffers ==
    CASE mlDialog = "closed" -> {}
      [] mlDialog = "open" -> {"export", "close"}
      [] mlDialog = "busy" -> {"cancel", "close"}

MlOpenExport ==
    /\ MlReachable /\ "export" \in MlToolbar /\ mlDialog' = "open"
    /\ UNCHANGED <<mlLast, mlMode, mlListed, mlPair, mlExport>>

\* A bound: one walk is under way at a time, and none while messages are compared.
MlStartExport ==
    /\ "export" \in MlDialogOffers /\ mlExport = MlNoExport /\ ~mlPair.on
    /\ mlDialog' = "busy" /\ mlExport' = [MlNoExport EXCEPT !.on = TRUE, !.next = 1]
    /\ UNCHANGED <<mlLast, mlMode, mlListed, mlPair>>

MlCancelExport ==
    /\ "cancel" \in MlDialogOffers /\ ~mlExport.aborted /\ mlExport' = [mlExport EXCEPT !.aborted = TRUE]
    /\ UNCHANGED <<mlLast, mlMode, mlListed, mlPair, mlDialog>>

\* Escape, Close or leaving the page unmounts the dialog, which ends its walk.
MlCloseExport ==
    /\ "close" \in MlDialogOffers /\ mlDialog' = "closed"
    /\ mlExport' = [mlExport EXCEPT !.aborted = @ \/ mlDialog = "busy"]
    /\ UNCHANGED <<mlLast, mlMode, mlListed, mlPair>>

\* Mutant: a last page that was clipped is taken for the whole of it.
MlNeverClipped(page, room) == FALSE

\* overshoot: more on the page than the export may still take.
MlClipped(page, room) == Len(page) > room

\* walkRange: one page, clipped to what is left of the limit.
MlWalked ==
    LET start == mlExport.next
        stop == IF mlLast < start + MlPage THEN mlLast ELSE start + MlPage - 1
        page == [i \in 1 .. stop - start + 1 |-> start + i - 1]
        room == MlLimit - Len(mlExport.taken)
        taken == mlExport.taken \o SubSeq(page, 1, IF Len(page) < room THEN Len(page) ELSE room)
    IN  IF mlExport.aborted THEN [mlExport EXCEPT !.on = FALSE, !.result = "aborted"]
        ELSE IF stop = mlLast
             THEN [mlExport EXCEPT !.on = FALSE, !.taken = taken, !.seen = mlLast,
                                   !.result = IF MlClipped(page, room) THEN "truncated" ELSE "whole"]
        ELSE IF Len(taken) >= MlLimit
             THEN [mlExport EXCEPT !.on = FALSE, !.taken = taken, !.result = "truncated"]
        ELSE [mlExport EXCEPT !.next = stop + 1, !.taken = taken]

\* The end of the walk closes the dialog, the one opened since included; a walk
\* that took nothing or failed leaves it open.
MlWalk ==
    /\ mlExport.on
    /\ \/ mlExport' = MlWalked
       \/ ~mlExport.aborted /\ mlExport' = [mlExport EXCEPT !.on = FALSE, !.taken = <<>>, !.result = "failed"]
    /\ mlDialog' = IF mlExport'.on THEN mlDialog
                   ELSE IF mlExport'.taken = <<>> THEN (IF mlDialog = "busy" THEN "open" ELSE mlDialog)
                   ELSE "closed"
    /\ UNCHANGED <<mlLast, mlMode, mlListed, mlPair>>

\* The task that ended the walk saves the file and says what it holds.
MlSave ==
    /\ mlExport.result # "none" /\ mlExport' = MlNoExport
    /\ UNCHANGED <<mlLast, mlMode, mlListed, mlPair, mlDialog>>

MlNext ==
    \/ MlPublished \/ MlRefetch \/ MlNewBase \/ MlLoadMore
    \/ \E ok \in BOOLEAN : MlBaseAnswer(ok)
    \/ \E mode \in {"history", "realtime"} : MlSetMode(mode)
    \/ \E ask \in mlAsks, ok \in BOOLEAN : MlMoreAnswer(ask, ok)
    \/ MlToggleCompare \/ MlCancelCompare \/ MlOpenDiff
    \/ \E s \in 1 .. MlMax : MlCompare(s)
    \/ MlOpenExport \/ MlStartExport \/ MlCancelExport \/ MlCloseExport \/ MlWalk \/ MlSave

MlSpec == MlInit /\ [][MlNext]_mlVars

---------------------------------------------------------------------------
MlTypeOK ==
    /\ mlLast \in 1 .. MlMax /\ mlMode \in {"history", "realtime"} /\ mlLoading \in BOOLEAN
    /\ mlBase.id \in 0 .. MlBound /\ mlRan \in 0 .. MlBound /\ mlGen \in 0 .. MlBound
    /\ Len(mlPair.two) <= 2
    /\ mlDialog \in {"closed", "open", "busy"} /\ (mlDialog = "busy" => mlExport.on)
    /\ mlExport.result \in {"none", "whole", "truncated", "aborted", "failed"}

\* Whatever is refreshed, grows or answers late, once the effect of the last
\* base page ran the list shows an unbroken run of the stream from that page's
\* newest message down (useLoadMoreMessages: "guards a late loadMore response
\* from landing on a newer base page").
MlUnbroken ==
    mlRan = mlBase.id =>
        \A i \in DOMAIN MlShown : MlShown[i] = MlShown[1] - i + 1

\* An export holds an unbroken run from the first message, no more than its
\* limit; one that does not say it was cut holds the stream as its last page
\* found it (walkRange).
MlExportWhole ==
    /\ Len(mlExport.taken) <= MlLimit
    /\ \A i \in DOMAIN mlExport.taken : mlExport.taken[i] = i
    /\ mlExport.result = "whole" => Len(mlExport.taken) = mlExport.seen
=============================================================================
