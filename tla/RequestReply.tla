---------------------------- MODULE RequestReply ----------------------------
(***************************************************************************)
(* Core request/reply in the browser: the request form of a connection     *)
(* (components/request/RequestPage.tsx), its draft (requestDraftStore),    *)
(* the reply and its decoding (ReplyPanel), and the dialog that resends or *)
(* answers a live message (subscribe/CorePublishDialog.tsx).               *)
(*                                                                         *)
(* The last request lives in the cache of mutations: leaving the page does *)
(* not forget it, a reload does.                                           *)
(***************************************************************************)
EXTENDS Naturals, Sequences, Listing, SequencesExt

CONSTANTS
    RqSubjects,     \* literal subjects
    RqTypeOf,       \* the type each is mapped to, "none" without one
    RqTypes,        \* types a reply can be decoded as
    RqGuess,        \* the reply type guessed from a request type
    RqRecentCap,    \* MAX_RECENT_SUBJECTS
    RqMaxRequests,  \* bound on requests
    RqMaxPresses    \* bound on the user's steps

ASSUME RqAssumption ==
    /\ {RqRecentCap, RqMaxRequests, RqMaxPresses} \subseteq Nat
    /\ "" \notin RqSubjects /\ {"none", "unset"} \cap RqTypes = {}
    /\ \A t \in DOMAIN RqGuess : RqGuess[t] \in RqTypes \cup {"none"}

VARIABLES
    rqDraft,    \* [subject, payload, headers, recent]: the stored draft
    rqAs,       \* replyTypes: how replies on a subject are decoded
    rqMode,     \* encodingMode
    rqOn,       \* the page is shown
    rqExample,  \* exampleLoading
    rqLast,     \* lastRequest
    rqCalls,    \* decode calls under way
    rqDecoded,  \* decoded
    rqDialog,   \* the dialog over a live message, and its call
    rqPresses

rqVars == <<rqDraft, rqAs, rqMode, rqOn, rqExample, rqLast, rqCalls, rqDecoded, rqDialog, rqPresses>>

\* "text" does not parse as JSON; "blank" is only white space.
RqPayloads == {"blank", "json", "text"}
RqEmptyDraft == [subject |-> "", payload |-> "blank", headers |-> "none", recent |-> <<>>]
RqNoRequest == [id |-> 0, status |-> "none", subject |-> "", type |-> "none"]
RqNoDecoding == [id |-> 0, as |-> "none"]
RqNoDialog == [kind |-> "none", subject |-> "", payload |-> "blank", headers |-> "none", pending |-> FALSE]

\* literalSubjectError: wildcards, spaces and empty tokens are refused.
RqSubjectError(s) == s # "" /\ s \notin RqSubjects
RqMapped(s) == IF s \in RqSubjects THEN RqTypeOf[s] ELSE "none"
RqType == IF rqMode = "json" THEN "none" ELSE RqMapped(rqDraft.subject)

\* Without a type the payload goes as it is typed, empty and text included.
RqPayloadError(type, payload) == type # "none" /\ payload # "json"

RqPending == rqLast.status = "pending"

\* disabledReason is null.
RqCanSend ==
    /\ rqDraft.subject # "" /\ ~RqSubjectError(rqDraft.subject)
    /\ ~RqPayloadError(RqType, rqDraft.payload) /\ rqDraft.headers # "invalid"

\* The type replies are decoded as: the one kept for the subject answered, or
\* one guessed from the name of the request's type.
RqReplied == IF rqLast.id > 0 THEN rqLast.subject ELSE rqDraft.subject
RqDecodeAs ==
    IF RqReplied \in RqSubjects /\ rqAs[RqReplied] # "unset" THEN rqAs[RqReplied]
    ELSE IF rqLast.type \in DOMAIN RqGuess THEN RqGuess[rqLast.type] ELSE "none"

RqInit ==
    /\ rqDraft = RqEmptyDraft /\ rqAs = [s \in RqSubjects |-> "unset"] /\ rqMode = "auto" /\ rqOn = TRUE
    /\ rqExample = FALSE /\ rqLast = RqNoRequest /\ rqCalls = {} /\ rqDecoded = RqNoDecoding
    /\ rqDialog = RqNoDialog /\ rqPresses = 0

RqUse == rqPresses < RqMaxPresses /\ rqPresses' = rqPresses + 1
RqUsePage == RqUse /\ rqOn /\ rqDialog = RqNoDialog

\* The decode effect: it starts over when the reply or the type is another.
RqDecoding(last, as) ==
    IF last.status # "replied" \/ as = "none" THEN {[c EXCEPT !.live = FALSE] : c \in rqCalls}
    ELSE IF rqOn /\ RqDecodeAs = as /\ rqLast = last THEN rqCalls
    ELSE {[c EXCEPT !.live = FALSE] : c \in rqCalls} \cup {[id |-> last.id, as |-> as, live |-> TRUE]}

---------------------------------------------------------------------------
\* What the page offers.
RqOffers ==
    {"subject", "payload", "headers", "send"}
    \cup (IF rqDraft.subject # "" /\ ~RqSubjectError(rqDraft.subject) THEN {"mode"} ELSE {})
    \cup (IF RqMapped(rqDraft.subject) # "none" /\ ~rqExample THEN {"example"} ELSE {})

RqEdit(field, value) ==
    /\ RqUsePage /\ field \in RqOffers /\ rqDraft[field] # value
    /\ rqDraft' = [rqDraft EXCEPT ![field] = value]
    /\ UNCHANGED <<rqAs, rqMode, rqOn, rqExample, rqLast, rqCalls, rqDecoded, rqDialog>>

RqSetMode(mode) ==
    /\ RqUsePage /\ "mode" \in RqOffers /\ mode # rqMode /\ (mode = "proto" => RqMapped(rqDraft.subject) # "none")
    /\ rqMode' = mode
    /\ UNCHANGED <<rqDraft, rqAs, rqOn, rqExample, rqLast, rqCalls, rqDecoded, rqDialog>>

\* withRecentSubject
RqRecent(s) == LET all == <<s>> \o Unseen(<<s>>, rqDraft.recent)
               IN  SubSeq(all, 1, IF Len(all) < RqRecentCap THEN Len(all) ELSE RqRecentCap)

RqSend ==
    /\ RqUsePage /\ "send" \in RqOffers /\ RqCanSend /\ ~RqPending /\ rqLast.id < RqMaxRequests
    /\ rqDraft' = [rqDraft EXCEPT !.recent = RqRecent(rqDraft.subject)]
    /\ rqLast' = [id |-> rqLast.id + 1, status |-> "pending", subject |-> rqDraft.subject, type |-> RqType]
    /\ rqCalls' = {[c EXCEPT !.live = FALSE] : c \in rqCalls}
    /\ UNCHANGED <<rqAs, rqMode, rqOn, rqExample, rqDecoded, rqDialog>>

\* The first reply, or how the request failed.
RqAnswer(status) ==
    /\ RqPending /\ rqLast' = [rqLast EXCEPT !.status = status]
    /\ rqCalls' = IF rqOn THEN RqDecoding(rqLast', RqDecodeAs) ELSE rqCalls
    /\ UNCHANGED <<rqDraft, rqAs, rqMode, rqOn, rqExample, rqDecoded, rqDialog, rqPresses>>

RqUseExample ==
    /\ RqUsePage /\ "example" \in RqOffers /\ rqExample' = TRUE
    /\ UNCHANGED <<rqDraft, rqAs, rqMode, rqOn, rqLast, rqCalls, rqDecoded, rqDialog>>

\* The example replaces whatever the payload has become.
RqExampleCame(ok) ==
    /\ rqExample /\ rqExample' = FALSE
    /\ rqDraft' = IF ok THEN [rqDraft EXCEPT !.payload = "json"] ELSE rqDraft
    /\ UNCHANGED <<rqAs, rqMode, rqOn, rqLast, rqCalls, rqDecoded, rqDialog, rqPresses>>

\* Decode as, kept for the subject of the request shown.
RqChooseType(as) ==
    /\ RqUsePage /\ RqReplied \in RqSubjects /\ as # RqDecodeAs
    /\ rqAs' = [rqAs EXCEPT ![RqReplied] = as]
    /\ rqCalls' = RqDecoding(rqLast, as)
    /\ UNCHANGED <<rqDraft, rqMode, rqOn, rqExample, rqLast, rqDecoded, rqDialog>>

\* Mutant: an answer is kept and shown whatever became of its question.
RqKeepAny(c) == [id |-> c.id, as |-> c.as]

\* An answer whose effect was cleaned up is dropped.
RqKeep(c) == IF c.live THEN [id |-> c.id, as |-> c.as] ELSE rqDecoded

RqDecodeAnswer(c) ==
    /\ c \in rqCalls /\ rqCalls' = rqCalls \ {c} /\ rqDecoded' = RqKeep(c)
    /\ UNCHANGED <<rqDraft, rqAs, rqMode, rqOn, rqExample, rqLast, rqDialog, rqPresses>>

\* The decoding shown: the one of this reply under this type.
RqShown == IF rqLast.status = "replied" /\ rqDecoded = [id |-> rqLast.id, as |-> RqDecodeAs] THEN rqDecoded ELSE RqNoDecoding
RqIsDecoding == rqOn /\ rqLast.status = "replied" /\ RqDecodeAs # "none" /\ RqShown = RqNoDecoding

\* Another page and back: what the components kept is gone, the draft and the
\* last request are not.
RqLeave ==
    /\ RqUsePage /\ rqOn' = FALSE /\ rqMode' = "auto" /\ rqDecoded' = RqNoDecoding
    /\ rqCalls' = {[c EXCEPT !.live = FALSE] : c \in rqCalls}
    /\ UNCHANGED <<rqDraft, rqAs, rqExample, rqLast, rqDialog>>

RqReturn ==
    /\ RqUse /\ ~rqOn /\ rqDialog = RqNoDialog /\ rqOn' = TRUE /\ rqCalls' = RqDecoding(rqLast, RqDecodeAs)
    /\ UNCHANGED <<rqDraft, rqAs, rqMode, rqExample, rqLast, rqDecoded, rqDialog>>

RqReload ==
    /\ RqUse /\ rqOn' = TRUE /\ rqMode' = "auto" /\ rqExample' = FALSE /\ rqLast' = RqNoRequest
    /\ rqCalls' = {} /\ rqDecoded' = RqNoDecoding /\ rqDialog' = RqNoDialog
    /\ UNCHANGED <<rqDraft, rqAs>>

---------------------------------------------------------------------------
\* The dialog opens over a live message, on another page; a reply goes to a
\* subject that cannot be edited.
RqOpenDialog(kind, s) ==
    /\ RqUse /\ ~rqOn /\ rqDialog = RqNoDialog
    /\ rqDialog' = [kind |-> kind, subject |-> s, payload |-> "json", headers |-> "none", pending |-> FALSE]
    /\ UNCHANGED <<rqDraft, rqAs, rqMode, rqOn, rqExample, rqLast, rqCalls, rqDecoded>>

RqDialogOffers ==
    IF rqDialog = RqNoDialog THEN {}
    ELSE {"payload", "headers", "cancel"} \cup IF rqDialog.kind = "resend" THEN {"subject"} ELSE {}

RqEditDialog(field, value) ==
    /\ RqUse /\ field \in RqDialogOffers /\ rqDialog[field] # value
    /\ rqDialog' = [rqDialog EXCEPT ![field] = value]
    /\ UNCHANGED <<rqDraft, rqAs, rqMode, rqOn, rqExample, rqLast, rqCalls, rqDecoded>>

RqDialogSend ==
    /\ RqUse /\ rqDialog # RqNoDialog /\ ~rqDialog.pending /\ rqDialog.headers # "invalid"
    /\ rqDialog.subject # "" /\ ~RqSubjectError(rqDialog.subject)
    /\ ~RqPayloadError(RqMapped(rqDialog.subject), rqDialog.payload)
    /\ rqDialog' = [rqDialog EXCEPT !.pending = TRUE]
    /\ UNCHANGED <<rqDraft, rqAs, rqMode, rqOn, rqExample, rqLast, rqCalls, rqDecoded>>

\* Success closes the dialog that sent; a failure leaves what was typed.
RqDialogAnswer(ok) ==
    /\ rqDialog.pending /\ rqDialog' = IF ok THEN RqNoDialog ELSE [rqDialog EXCEPT !.pending = FALSE]
    /\ UNCHANGED <<rqDraft, rqAs, rqMode, rqOn, rqExample, rqLast, rqCalls, rqDecoded, rqPresses>>

RqCloseDialog ==
    /\ RqUse /\ "cancel" \in RqDialogOffers /\ rqDialog' = RqNoDialog
    /\ UNCHANGED <<rqDraft, rqAs, rqMode, rqOn, rqExample, rqLast, rqCalls, rqDecoded>>

RqNext ==
    \/ \E s \in RqSubjects \cup {"", "bad"} : RqEdit("subject", s) \/ RqEditDialog("subject", s)
    \/ \E p \in RqPayloads : RqEdit("payload", p) \/ RqEditDialog("payload", p)
    \/ \E h \in {"none", "invalid"} : RqEdit("headers", h) \/ RqEditDialog("headers", h)
    \/ \E mode \in {"auto", "json", "proto"} : RqSetMode(mode)
    \/ \E status \in {"replied", "no-responders", "timeout", "error"} : RqAnswer(status)
    \/ \E as \in RqTypes \cup {"none"} : RqChooseType(as)
    \/ \E ok \in BOOLEAN : RqExampleCame(ok) \/ RqDialogAnswer(ok)
    \/ \E c \in rqCalls : RqDecodeAnswer(c)
    \/ \E kind \in {"resend", "reply"}, s \in RqSubjects : RqOpenDialog(kind, s)
    \/ RqSend \/ RqUseExample \/ RqLeave \/ RqReturn \/ RqReload \/ RqDialogSend \/ RqCloseDialog

RqSpec == RqInit /\ [][RqNext]_rqVars

---------------------------------------------------------------------------
RqTypeOK ==
    /\ rqDraft.payload \in RqPayloads /\ Len(rqDraft.recent) <= RqRecentCap
    /\ rqLast.status \in {"none", "pending", "replied", "no-responders", "timeout", "error"}
    /\ \A s \in RqSubjects : rqAs[s] \in RqTypes \cup {"none", "unset"}

\* A reply that is to be decoded is decoded or being decoded: dropping answers
\* to older questions never drops the one the panel waits for, and none of the
\* older answers is shown in its place (ReplyPanel's decode effect).
RqDecodingRuns ==
    RqIsDecoding => \E c \in rqCalls : c.live /\ c.id = rqLast.id /\ c.as = RqDecodeAs
=============================================================================
