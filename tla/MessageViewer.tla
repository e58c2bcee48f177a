---------------------------- MODULE MessageViewer ----------------------------
(***************************************************************************)
(* The details panel of a stream (StreamView with UnifiedMessageViewer):   *)
(* which message is selected, by a row, an arrow, a link or a deletion;    *)
(* what of its payload is loaded and decoded; detecting a type and saving  *)
(* it as a mapping; and handing the message to the publish form.  Requests *)
(* are answered in any order, after any other step.  A message decodes as  *)
(* one type; candidates are not told apart.                                *)
(***************************************************************************)
EXTENDS Naturals, Sequences, FiniteSets, FiniteSetsExt

CONSTANTS
    VwKind,     \* sequence of messages: "json", "binary", "auto" or "partial"
    VwCut,      \* messages whose listed payload is truncated
    VwMatches,  \* matches of a search
    VwMaxCalls, \* bound on requests under way
    VwMaxPresses \* bound on what the user does

ASSUME VwAssumption ==
    /\ VwKind \in Seq({"json", "binary", "auto", "partial"})
    /\ VwCut \subseteq DOMAIN VwKind /\ {VwMaxCalls, VwMaxPresses} \subseteq Nat

VwSeqs == DOMAIN VwKind

VARIABLES
    vwAccess,  \* readOnly of the connection
    vwSel,     \* selectedMessage's sequence, 0 for none
    vwParam,   \* ?msg= of the address, 0 for none
    vwGone,    \* messages deleted
    vwMapped,  \* messages whose subject a mapping matches
    vwView,    \* state of the mounted viewer
    vwCalls,   \* requests under way
    vwDelete,  \* confirmation dialog: enabled, open, deleting
    vwNav,     \* useMessageNavigation: query, inFlightRef with idAtCall, edges
    vwDraft,   \* last draft put into the publish form
    vwPresses  \* what the user did so far

vwShared == <<vwAccess, vwGone, vwMapped>>
vwVars == <<vwAccess, vwSel, vwParam, vwGone, vwMapped, vwView, vwCalls, vwDelete, vwNav, vwDraft, vwPresses>>

VwNoDraft == [seq |-> 0, whole |-> TRUE, part |-> FALSE]
VwNoStep == [on |-> FALSE, at |-> 0, up |-> FALSE]

\* Decoded by the server: its own guess, or a mapping.
VwServer(m) == VwKind[m] \in {"auto", "partial"}

VwListed(m) == [seq |-> m, whole |-> m \notin VwCut]

\* The message shown: the full one once loaded.
VwMessage(sel, v) == IF v.full # 0 THEN [seq |-> v.full, whole |-> TRUE] ELSE VwListed(sel)

VwTruncated(sel, v) == sel \in VwCut /\ v.full = 0

\* Decode state the reset on a new selection, and its effects, leave.
VwDecodeState(msg, v) ==
    [v EXCEPT !.typed = VwServer(msg.seq) \/ msg.seq \in vwMapped, !.has = VwServer(msg.seq),
              !.from = IF ~VwServer(msg.seq) THEN "none" ELSE IF msg.whole THEN "whole" ELSE "cut",
              !.part = VwKind[msg.seq] = "partial", !.decoding = FALSE]

VwBlank == [mounted |-> TRUE, full |-> 0, loading |-> FALSE, detect |-> FALSE, picked |-> FALSE,
            saved |-> FALSE, saving |-> FALSE, typed |-> FALSE, has |-> FALSE, from |-> "none",
            part |-> FALSE, decoding |-> FALSE]

VwFresh(sel, saving) == [(IF sel = 0 THEN VwBlank ELSE VwDecodeState(VwListed(sel), VwBlank))
                            EXCEPT !.saving = saving]

\* The effect that decodes by itself: typed, not decoded by the server and not
\* decoded for this type.
VwDecodes(sel, v) == sel # 0 /\ ~VwServer(VwMessage(sel, v).seq) /\ v.typed /\ ~v.decoding /\ ~v.has

VwRunDecode(v) == [v EXCEPT !.decoding = TRUE, !.from = "none", !.part = FALSE]
VwDecodeCall(sel, v) == [op |-> "decode", at |-> sel, msg |-> VwMessage(sel, v), live |-> TRUE]

VwSettle(sel, v, calls) ==
    IF VwDecodes(sel, v)
    THEN vwView' = VwRunDecode(v) /\ vwCalls' = calls \cup {VwDecodeCall(sel, v)}
    ELSE vwView' = v /\ vwCalls' = calls

\* Another selection resets the viewer; selecting again what is selected does not.
VwShow(sel, calls) ==
    /\ vwSel' = sel
    /\ IF sel = vwSel \/ ~vwView.mounted THEN vwView' = vwView /\ vwCalls' = calls
       ELSE VwSettle(sel, VwFresh(sel, vwView.saving), calls)

VwNewEdges(sel) == IF sel = vwSel THEN vwNav.edges ELSE {}

VwInit ==
    /\ vwAccess \in {"readOnly", "open"} /\ vwParam \in VwSeqs \cup {0} /\ vwSel \in {m \in VwSeqs \cup {0} : m <= 1}
    /\ vwGone = {} /\ vwMapped \in SUBSET {m \in VwSeqs : VwKind[m] = "binary"} /\ vwCalls = {} /\ vwView = [VwBlank EXCEPT !.mounted = FALSE]
    /\ vwDelete = [confirm |-> TRUE, open |-> FALSE, busy |-> FALSE]
    /\ vwNav \in {[matches |-> search, backward |-> search, step |-> VwNoStep, edges |-> {}] : search \in BOOLEAN}
    /\ vwDraft = VwNoDraft /\ vwPresses = 0

---------------------------------------------------------------------------
(* Selecting: rows, the address and arrows. *)

\* handleSelectMessage, from a row, the close button or an answer.
VwSelectMessage(sel) == VwShow(sel, vwCalls) /\ vwParam' = sel

VwSelect(m) ==
    /\ vwView.mounted /\ m \in (VwSeqs \ vwGone) \cup {0} /\ m # vwSel
    /\ VwSelectMessage(m)
    /\ vwNav' = [vwNav EXCEPT !.edges = VwNewEdges(m)]
    /\ UNCHANGED <<vwShared, vwDelete, vwDraft>>

\* useLinkedMessage: a link that is not the selection is read, and opened or dropped.
VwLinked ==
    /\ vwParam \notin {0, vwSel}
    /\ LET sel == IF vwParam \in vwGone THEN 0 ELSE vwParam
       IN  /\ VwShow(sel, vwCalls) /\ vwParam' = sel
           /\ vwNav' = [vwNav EXCEPT !.edges = VwNewEdges(sel)]
    /\ UNCHANGED <<vwShared, vwDelete, vwDraft>>

\* resolveNavTarget, neighbourMatch: is the wanted row after m towards newer sequences?
VwNewer(up) == vwNav.backward = up

\* The stored messages an arrow can reach, over the matches of a search if there is one.
VwReachable(m, up) ==
    {n \in VwSeqs \ vwGone : /\ vwNav.matches => n \in VwMatches
                             /\ IF VwNewer(up) THEN n > m ELSE n < m}

VwNeighbour(m, up) == IF VwNewer(up) THEN Min(VwReachable(m, up)) ELSE Max(VwReachable(m, up))

\* The arrow keys; the buttons are off at an edge.
VwCanStep(up, key) == vwView.mounted /\ vwSel # 0 /\ (key \/ up \notin vwNav.edges)

\* A press asks for one message, unless the step would leave the stream.
VwStep(up) ==
    /\ \E key \in BOOLEAN : VwCanStep(up, key)
    /\ ~vwNav.step.on
    /\ vwNav' = IF ~vwNav.matches /\ ~VwNewer(up) /\ vwSel <= 1
                THEN [vwNav EXCEPT !.edges = @ \cup {up}]
                ELSE [vwNav EXCEPT !.step = [on |-> TRUE, at |-> vwSel, up |-> up]]
    /\ UNCHANGED <<vwShared, vwSel, vwParam, vwView, vwCalls, vwDelete, vwDraft>>

\* Mutant: the answer counts whatever is selected.
VwStepAnswerLate(ok) ==
    LET step == vwNav.step
        moves == ok /\ vwSel # 0 /\ VwReachable(step.at, step.up) # {}
        sel == IF moves THEN VwNeighbour(step.at, step.up) ELSE vwSel
    IN  /\ step.on
        /\ IF moves THEN VwSelectMessage(sel) ELSE UNCHANGED <<vwSel, vwParam, vwView, vwCalls>>
        /\ vwNav' = [vwNav EXCEPT !.step = VwNoStep, !.edges = VwNewEdges(sel)]
        /\ UNCHANGED <<vwShared, vwDelete, vwDraft>>

\* The answer counts only for the selection it was asked for.
VwStepAnswer(ok) ==
    LET step == vwNav.step
        moves == ok /\ vwSel = step.at /\ VwReachable(step.at, step.up) # {}
        sel == IF moves THEN VwNeighbour(step.at, step.up) ELSE vwSel
        edge == ok /\ vwSel = step.at /\ ~moves
    IN  /\ step.on
        /\ IF moves THEN VwSelectMessage(sel) ELSE UNCHANGED <<vwSel, vwParam, vwView, vwCalls>>
        /\ vwNav' = [vwNav EXCEPT !.step = VwNoStep,
                        !.edges = IF edge THEN @ \cup {step.up} ELSE VwNewEdges(sel)]
        /\ UNCHANGED <<vwShared, vwDelete, vwDraft>>

---------------------------------------------------------------------------
(* What the panel offers. *)

\* The header's buttons.
VwHeader ==
    IF ~vwView.mounted \/ vwSel = 0 THEN {}
    ELSE (IF vwAccess = "readOnly" THEN {}
          ELSE {"resend"} \cup (IF vwDelete.busy THEN {} ELSE {"delete"}))
         \cup (IF VwTruncated(vwSel, vwView) /\ ~vwView.loading THEN {"full"} ELSE {})

\* A type guessed, by the server or picked, and not yet saved as a mapping.
VwGuess == ~vwView.saved /\ (vwView.picked \/ VwKind[VwMessage(vwSel, vwView).seq] = "auto")

\* The row of the proto type, and its dialogs.
VwTypeRow ==
    IF ~vwView.mounted \/ vwSel = 0 THEN {}
    ELSE (IF VwGuess /\ ~vwView.saving THEN {"save"} ELSE {})
         \cup (IF /\ VwKind[VwMessage(vwSel, vwView).seq] # "json" /\ ~vwView.saved
                  /\ (VwGuess \/ ~vwView.typed) /\ ~VwTruncated(vwSel, vwView)
               THEN {"detect"} ELSE {})
         \cup (IF vwView.detect THEN {"use", "close"} ELSE {})
         \cup (IF vwDelete.open THEN {"confirm", "cancel"} ELSE {})

VwAsk(op) ==
    /\ Cardinality(vwCalls) < VwMaxCalls
    /\ vwCalls' = vwCalls \cup {[op |-> op, at |-> vwSel, msg |-> VwMessage(vwSel, vwView), live |-> TRUE]}

---------------------------------------------------------------------------
(* Loading and decoding. *)

VwLoadFull ==
    /\ "full" \in VwHeader /\ VwAsk("load")
    /\ vwView' = [vwView EXCEPT !.loading = TRUE]
    /\ UNCHANGED <<vwShared, vwSel, vwParam, vwDelete, vwNav, vwDraft>>

\* The effects of another payload for the same selection: the decode state is
\* the server's when it decoded the one or the other, and stands otherwise.
VwSetFull(m, v, calls) ==
    LET was == VwMessage(vwSel, v)
        now == [v EXCEPT !.full = m]
    IN  VwSettle(vwSel, IF VwServer(was.seq) \/ VwServer(m)
                        THEN VwDecodeState([seq |-> m, whole |-> TRUE], now) ELSE now, calls)

VwLoadAnswer(c, ok) ==
    /\ c.op = "load"
    /\ IF c.live /\ vwSel = c.at
       THEN IF ok /\ c.at \notin vwGone
            THEN VwSetFull(c.at, [vwView EXCEPT !.loading = FALSE], vwCalls \ {c})
            ELSE vwView' = [vwView EXCEPT !.loading = FALSE] /\ vwCalls' = vwCalls \ {c}
       ELSE vwView' = vwView /\ vwCalls' = vwCalls \ {c}
    /\ UNCHANGED <<vwShared, vwSel, vwParam, vwDelete, vwNav, vwDraft>>

\* runDecode's answer: all of it, the readable part of it, or an error.  An
\* error takes back the type it was decoded for, which runs the effect again.
VwDecodeAnswer(c, outcome) ==
    LET calls == vwCalls \ {c}
        from == IF c.msg.whole THEN "whole" ELSE "cut"
        done == [vwView EXCEPT !.decoding = FALSE]
    IN  /\ c.op = "decode"
        /\ IF ~c.live \/ vwSel # c.at THEN vwView' = vwView /\ vwCalls' = calls
           ELSE IF outcome = "error"
                THEN IF vwView.has THEN VwSettle(vwSel, [done EXCEPT !.has = FALSE], calls)
                     ELSE vwView' = done /\ vwCalls' = calls
           ELSE /\ vwView' = [done EXCEPT !.from = from, !.part = (outcome = "part"), !.has = TRUE]
                /\ vwCalls' = calls
        /\ UNCHANGED <<vwShared, vwSel, vwParam, vwDelete, vwNav, vwDraft>>

VwOpenDetect ==
    /\ "detect" \in VwTypeRow /\ ~vwView.detect
    /\ vwView' = [vwView EXCEPT !.detect = TRUE]
    /\ UNCHANGED <<vwShared, vwSel, vwParam, vwCalls, vwDelete, vwNav, vwDraft>>

VwCloseDetect ==
    /\ "close" \in VwTypeRow /\ vwView' = [vwView EXCEPT !.detect = FALSE]
    /\ UNCHANGED <<vwShared, vwSel, vwParam, vwCalls, vwDelete, vwNav, vwDraft>>

\* decodeAs, and saveMapping with it or for the guess shown.
VwDecodeAs(v) == VwRunDecode([v EXCEPT !.detect = FALSE, !.picked = TRUE, !.saved = FALSE,
                                       !.typed = TRUE, !.has = TRUE])

VwUseDetected(save) ==
    /\ "use" \in VwTypeRow /\ (save => ~vwView.saving) /\ Cardinality(vwCalls) + 1 < VwMaxCalls
    /\ vwView' = [VwDecodeAs(vwView) EXCEPT !.saving = @ \/ save]
    /\ vwCalls' = vwCalls \cup {VwDecodeCall(vwSel, vwView)}
         \cup (IF save THEN {[VwDecodeCall(vwSel, vwView) EXCEPT !.op = "save"]} ELSE {})
    /\ UNCHANGED <<vwShared, vwSel, vwParam, vwDelete, vwNav, vwDraft>>

VwSaveGuess ==
    /\ "save" \in VwTypeRow /\ VwAsk("save")
    /\ vwView' = [vwView EXCEPT !.saving = TRUE]
    /\ UNCHANGED <<vwShared, vwSel, vwParam, vwDelete, vwNav, vwDraft>>

\* The answer marks whatever is selected as saved; the mappings read anew give
\* a message the server did not decode its type.
VwSaveAnswer(c, ok) ==
    LET done == [vwView EXCEPT !.saving = FALSE, !.saved = @ \/ ok, !.detect = @ /\ ~ok]
        shown == VwMessage(vwSel, vwView).seq
        typed == vwSel # 0 /\ (vwView.typed \/ (~VwServer(shown) /\ shown \in vwMapped'))
    IN  /\ c.op = "save"
        /\ vwMapped' = IF ok THEN vwMapped \cup {c.msg.seq} ELSE vwMapped
        /\ IF ~c.live THEN vwView' = vwView /\ vwCalls' = vwCalls \ {c}
           ELSE IF typed = vwView.typed THEN vwView' = done /\ vwCalls' = vwCalls \ {c}
           ELSE VwSettle(vwSel, [done EXCEPT !.typed = typed], vwCalls \ {c})
        /\ UNCHANGED <<vwAccess, vwSel, vwParam, vwGone, vwDelete, vwNav, vwDraft>>

---------------------------------------------------------------------------
(* Deleting. *)

VwPerformDelete == VwAsk("delete")

VwRequestDelete ==
    /\ "delete" \in VwHeader
    /\ IF vwDelete.confirm THEN vwCalls' = vwCalls /\ vwDelete' = [vwDelete EXCEPT !.open = TRUE]
       ELSE VwPerformDelete /\ vwDelete' = [vwDelete EXCEPT !.busy = TRUE]
    /\ UNCHANGED <<vwShared, vwSel, vwParam, vwView, vwNav, vwDraft>>

\* MessageDeleteDialog: what is deleted is what is selected when it is confirmed.
VwConfirmDelete(dontAsk) ==
    /\ "confirm" \in VwTypeRow /\ ~vwDelete.busy /\ VwPerformDelete
    /\ vwDelete' = [vwDelete EXCEPT !.busy = TRUE, !.confirm = @ /\ ~dontAsk]
    /\ UNCHANGED <<vwShared, vwSel, vwParam, vwView, vwNav, vwDraft>>

VwCancelDelete ==
    /\ "cancel" \in VwTypeRow /\ ~vwDelete.busy
    /\ vwDelete' = [vwDelete EXCEPT !.open = FALSE]
    /\ UNCHANGED <<vwShared, vwSel, vwParam, vwView, vwCalls, vwNav, vwDraft>>

\* onDeleted clears the selection, whatever it has become.
VwDeleteAnswer(c, ok) ==
    /\ c.op = "delete"
    /\ vwGone' = IF ok THEN vwGone \cup {c.at} ELSE vwGone
    /\ vwDelete' = IF c.live THEN [vwDelete EXCEPT !.busy = FALSE, !.open = @ /\ ~ok] ELSE vwDelete
    /\ IF ok THEN VwShow(0, vwCalls \ {c}) /\ vwParam' = 0
       ELSE vwCalls' = vwCalls \ {c} /\ UNCHANGED <<vwSel, vwParam, vwView>>
    /\ vwNav' = [vwNav EXCEPT !.edges = IF ok THEN VwNewEdges(0) ELSE @]
    /\ UNCHANGED <<vwAccess, vwMapped, vwDraft>>

---------------------------------------------------------------------------
(* Edit and resend. *)

\* Why a message is not handed over: its guess is not saved, only a part of it
\* decoded, or it is binary and not decoded.
VwRefused(v, msg, decoded) ==
    \/ ~v.saved /\ (v.picked \/ VwKind[msg.seq] = "auto")
    \/ v.part \/ VwKind[msg.seq] = "partial"
    \/ ~decoded /\ VwKind[msg.seq] = "binary"

\* buildResendDraft: decoded data goes before the payload.
VwBuildDraft(msg, part) == [seq |-> msg.seq, whole |-> msg.whole, part |-> part]

\* The publish tab takes the panel's place: the viewer is unmounted.
VwUnmount(calls) ==
    /\ vwView' = [VwBlank EXCEPT !.mounted = FALSE]
    /\ vwCalls' = {[c EXCEPT !.live = FALSE] : c \in calls}
    /\ vwDelete' = [vwDelete EXCEPT !.open = FALSE, !.busy = FALSE]

\* Mutant: only a message that is not decoded is fetched.
VwFetchesUndecoded == VwTruncated(vwSel, vwView) /\ vwView.from = "none"

\* A listed payload that was cut is fetched whole first.
VwFetchesFirst == VwTruncated(vwSel, vwView)

VwResend ==
    LET msg == VwMessage(vwSel, vwView)
    IN  /\ "resend" \in VwHeader /\ UNCHANGED <<vwShared, vwSel, vwParam, vwNav>>
        /\ IF VwFetchesFirst
           THEN /\ Cardinality(vwCalls) < VwMaxCalls
                /\ vwCalls' = vwCalls \cup {[op |-> "resend", at |-> vwSel, msg |-> msg, live |-> TRUE,
                                             held |-> vwView]}
                /\ UNCHANGED <<vwView, vwDelete, vwDraft>>
           ELSE IF VwRefused(vwView, msg, vwView.from # "none")
           THEN UNCHANGED <<vwView, vwCalls, vwDelete, vwDraft>>
           ELSE vwDraft' = VwBuildDraft(msg, vwView.part) /\ VwUnmount(vwCalls)

\* The answer becomes the full message of whatever is selected, and the draft
\* is made of it with the viewer's state as it was when Resend was pressed.
VwResendAnswer(c, ok) ==
    LET full == [seq |-> c.at, whole |-> TRUE]
    IN  /\ c.op = "resend" /\ UNCHANGED <<vwShared, vwSel, vwParam, vwNav>>
        /\ IF ~ok \/ c.at \in vwGone
           THEN vwCalls' = vwCalls \ {c} /\ UNCHANGED <<vwView, vwDelete, vwDraft>>
           ELSE IF VwRefused(c.held, full, VwServer(c.at))
           THEN /\ IF c.live /\ vwSel # 0 THEN VwSetFull(c.at, vwView, vwCalls \ {c})
                   ELSE vwView' = vwView /\ vwCalls' = vwCalls \ {c}
                /\ UNCHANGED <<vwDelete, vwDraft>>
           ELSE vwDraft' = VwBuildDraft(full, FALSE) /\ VwUnmount(vwCalls \ {c})

\* Between the tabs.
VwLeaveTab ==
    /\ vwView.mounted /\ VwUnmount(vwCalls)
    /\ UNCHANGED <<vwShared, vwSel, vwParam, vwNav, vwDraft>>

VwBackToMessages ==
    /\ ~vwView.mounted /\ VwSettle(vwSel, VwFresh(vwSel, FALSE), vwCalls)
    /\ UNCHANGED <<vwShared, vwSel, vwParam, vwDelete, vwNav, vwDraft>>

\* What the user does, and what answers.
VwUse ==
    /\ vwPresses < VwMaxPresses /\ vwPresses' = vwPresses + 1
    /\ \/ \E m \in VwSeqs \cup {0} : VwSelect(m)
       \/ \E up \in BOOLEAN : VwStep(up)
       \/ \E save \in BOOLEAN : VwUseDetected(save)
       \/ \E dontAsk \in BOOLEAN : VwConfirmDelete(dontAsk)
       \/ VwLoadFull \/ VwOpenDetect \/ VwCloseDetect \/ VwSaveGuess
       \/ VwRequestDelete \/ VwCancelDelete \/ VwResend \/ VwLeaveTab \/ VwBackToMessages

VwAnswer ==
    /\ UNCHANGED vwPresses
    /\ \/ VwLinked
       \/ \E ok \in BOOLEAN : VwStepAnswer(ok)
       \/ \E c \in vwCalls, ok \in BOOLEAN :
             VwLoadAnswer(c, ok) \/ VwSaveAnswer(c, ok) \/ VwDeleteAnswer(c, ok) \/ VwResendAnswer(c, ok)
       \/ \E c \in vwCalls, outcome \in {"ok", "part", "error"} : VwDecodeAnswer(c, outcome)

VwNext == VwUse \/ VwAnswer

VwSpec == VwInit /\ [][VwNext]_vwVars

---------------------------------------------------------------------------
VwTypeOK ==
    /\ vwSel \in VwSeqs \cup {0} /\ vwParam \in VwSeqs \cup {0}
    /\ vwGone \subseteq VwSeqs /\ vwMapped \subseteq VwSeqs
    /\ vwView.from \in {"none", "cut", "whole"} /\ vwView.full \in VwSeqs \cup {0}
    /\ vwNav.edges \subseteq BOOLEAN

\* Whatever is selected, loaded or decoded meanwhile, the publish form is never
\* given the start of a truncated payload, nor one known to have decoded in part
\* (UnifiedMessageViewer: "must fetch FULL before resend or bytes corrupt").
VwResendWhole == vwDraft.whole /\ ~vwDraft.part

\* An arrow's answer never takes the panel away from a row picked meanwhile and
\* never skips a stored message of the listing ("a row click during an
\* in-flight nav request must win over the request's result").
VwStepsToNeighbour ==
    [][vwNav.step.on /\ ~vwNav'.step.on /\ vwSel' # vwSel =>
         /\ vwSel = vwNav.step.at
         /\ \A n \in VwReachable(vwSel, vwNav.step.up) \ {vwSel'} :
               IF VwNewer(vwNav.step.up) THEN n > vwSel' ELSE n < vwSel']_vwVars
=============================================================================
