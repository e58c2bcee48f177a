----------------------------- MODULE PublishPage -----------------------------
(***************************************************************************)
(* The Publish tab of a stream: a draft per subject pattern, kept in the   *)
(* stream-scoped store (stores/streamTabState/publishDraftStore.ts,        *)
(* StreamView.tsx), the form that edits the draft of the pattern shown     *)
(* (PublishContent.tsx), templates, the publish history.                   *)
(*                                                                         *)
(* A click or a key runs its handler and the effects of what it changed    *)
(* before the next event, so an action is both.  Answers of the server     *)
(* come at any time and in any order.                                      *)
(***************************************************************************)
EXTENDS Naturals, FiniteSets

CONSTANTS
    PbPatterns,   \* subject patterns
    PbListed,     \* those the stream may list
    PbWild,       \* those with wildcards
    PbTypeOf,     \* the message type a pattern is mapped to, "none" without one
    PbFeatures,   \* publish options of stream and server
    PbMaxPresses  \* bound on the user's steps, the template menu's apart

ASSUME PbAssumption ==
    /\ PbListed \subseteq PbPatterns /\ PbWild \subseteq PbPatterns /\ "" \notin PbPatterns
    /\ PbTypeOf \in [PbPatterns -> {PbTypeOf[p] : p \in PbPatterns}] /\ PbMaxPresses \in Nat
    /\ PbFeatures \subseteq {"ttl", "increment", "schedule"}

VARIABLES
    pbOwn,       \* the subjects the stream lists, {} until they are known
    pbPattern,   \* lastPattern, "" for none
    pbDrafts,    \* drafts
    pbMode,      \* encodingMode
    pbOpts,      \* publishOptions: the one in use
    pbChecked,   \* helperJsonCheck is of the helper body
    pbVal,       \* validation: [timer, calls, busy, verdict]
    pbAsk,       \* exampleLoading, prefillLoading: what was asked for
    pbPending,   \* what the publish calls under way publish
    pbHistory,   \* publish history of the stream
    pbTemplates, \* saved templates
    pbMenu,      \* the template menu, or the dialog over it
    pbUndo,      \* what Undo of the last template load goes back to
    pbPresses

pbForm == <<pbOwn, pbPattern, pbDrafts, pbMode, pbVal>>
pbSide == <<pbHistory, pbTemplates, pbMenu, pbUndo>>
pbVars == <<pbForm, pbOpts, pbChecked, pbAsk, pbPending, pbSide, pbPresses>>

\* "help" holds {{...}} and does not parse; "blank" is only white space.
PbBodies == {"{}", "good", "example", "bad", "help", "blank"}
PbHeaders == {"none", "invalid", "Nats-TTL", "Nats-Incr"}
PbDraft == [body : PbBodies, filled : BOOLEAN, headers : PbHeaders]
PbEmptyDraft == [body |-> "{}", filled |-> FALSE, headers |-> "none"]
PbNoUndo == [pattern |-> "none", draft |-> PbEmptyDraft]
PbTemplate(p) == [pattern |-> p, draft |-> [PbEmptyDraft EXCEPT !.body = "good"]]

PbDraftOf(drafts, p) == IF p \in DOMAIN drafts THEN drafts[p] ELSE PbEmptyDraft
PbWithDraft(drafts, p, d) ==
    IF p = "" THEN drafts ELSE [q \in DOMAIN drafts \cup {p} |-> IF q = p THEN d ELSE drafts[q]]
PbWithout(drafts, p) == [q \in DOMAIN drafts \ {p} |-> drafts[q]]
PbShown == PbDraftOf(pbDrafts, pbPattern)

\* A pattern that is not listed may still match one that is.
PbMatches(p, own) == p \in own \/ (p \notin PbListed /\ own # {} /\ p \in PbWild)

PbMapped(p) == IF p = "" THEN "none" ELSE PbTypeOf[p]
PbType(p, mode) == IF mode = "json" THEN "none" ELSE PbMapped(p)

PbJsonError(body, checked) == body = "bad" \/ (body = "help" /\ checked)

\* What a validation depends on, <<>> when there is nothing to validate.
PbKey(p, drafts, mode, checked) ==
    LET body == PbDraftOf(drafts, p).body
    IN  IF PbType(p, mode) = "none" \/ body = "blank" \/ PbJsonError(body, checked)
        THEN <<>> ELSE <<PbType(p, mode), body>>
PbKeyNow == PbKey(pbPattern, pbDrafts, pbMode, pbChecked)

\* The validation effect: the calls so far are stale; the timer starts over.
PbRevalidated(key, newPattern) ==
    LET fresh == [pbVal EXCEPT !.verdict = IF newPattern THEN <<>> ELSE @]
    IN  IF key = PbKeyNow THEN fresh
        ELSE [fresh EXCEPT !.timer = key, !.calls = {[c EXCEPT !.live = FALSE] : c \in @},
                           !.busy = key # <<>> /\ @, !.verdict = IF key = <<>> THEN <<>> ELSE @]

\* A pattern the stream does not have is dropped with its draft.
PbDropForeign(own, p, drafts) ==
    IF p # "" /\ own # {} /\ ~PbMatches(p, own)
    THEN [pattern |-> "", drafts |-> PbWithout(drafts, p)] ELSE [pattern |-> p, drafts |-> drafts]

\* What is shown once the subjects, the pattern, a draft or the mode changed.
PbRender(own, p, drafts, mode, checked) ==
    LET kept == PbDropForeign(own, p, drafts)
    IN  /\ pbOwn' = own /\ pbPattern' = kept.pattern /\ pbDrafts' = kept.drafts
        /\ pbMode' = mode /\ pbChecked' = checked
        /\ pbVal' = PbRevalidated(PbKey(kept.pattern, kept.drafts, mode, checked), kept.pattern # pbPattern)

PbEdit(p, d) == PbRender(pbOwn, p, PbWithDraft(pbDrafts, p, d), pbMode, pbChecked)

\* nats_publish_last_pattern and nats_publish_states, taken over once.
PbMigrated(last, bodies) ==
    IF last = "" THEN <<>>
    ELSE [p \in DOMAIN bodies |-> [PbEmptyDraft EXCEPT !.body = bodies[p]]]

PbInit ==
    /\ pbOwn = {}
    /\ \E last \in PbPatterns \cup {""} : \E bodies \in UNION {[P -> {"good"}] : P \in {{}, PbListed}} :
          pbPattern = last /\ pbDrafts = PbMigrated(last, bodies)
    /\ pbMode = "auto" /\ pbOpts = "none" /\ pbChecked = FALSE
    /\ pbVal = [timer |-> PbKeyNow, calls |-> {}, busy |-> FALSE, verdict |-> <<>>]
    /\ pbAsk = [example |-> "", prefill |-> ""] /\ pbPending = {}
    /\ pbHistory = {} /\ pbTemplates \in {{}} \cup {{PbTemplate(p)} : p \in PbPatterns} /\ pbMenu = "closed" /\ pbUndo = PbNoUndo /\ pbPresses = 0

PbUse == pbPresses < PbMaxPresses /\ pbPresses' = pbPresses + 1
PbUseForm == PbUse /\ pbMenu # "save" /\ pbMenu # "delete" /\ pbPattern # ""

---------------------------------------------------------------------------
\* The stream's subjects, once they are known and whenever they change.
PbSubjects(own) ==
    /\ own # pbOwn /\ own # {} /\ PbRender(own, pbPattern, pbDrafts, pbMode, pbChecked)
    /\ UNCHANGED <<pbOpts, pbAsk, pbPending, pbSide, pbPresses>>

\* A listed subject, one typed, or none; the wildcards start over.
PbChoosePattern(p) ==
    /\ PbUse /\ pbMenu = "closed" /\ (p = "" => pbPattern # "") /\ (p \in PbListed => p \in pbOwn)
    /\ PbEdit(p, [PbDraftOf(pbDrafts, p) EXCEPT !.filled = p \notin PbWild])
    /\ UNCHANGED <<pbOpts, pbAsk, pbPending, pbSide>>

\* The payload editor: a button waits for its own answer, the example for a type.
PbEditorOffers ==
    {"body"} \cup (IF pbAsk.example = "" /\ PbMapped(pbPattern) # "none" THEN {"example"} ELSE {})
             \cup (IF pbAsk.prefill = "" THEN {"prefill"} ELSE {})

\* The action bar: the shortcut, and the button while no call is under way.
PbBarOffers == {"shortcut"} \cup IF pbPending = {} THEN {"button"} ELSE {}

\* What the form offers for the pattern shown.
PbOffers ==
    {"headers", "options", "mode"} \cup PbEditorOffers \cup PbBarOffers
    \cup (IF pbPattern \in PbWild THEN {"wildcards"} ELSE {})

PbTypeBody(body) ==
    /\ PbUseForm /\ "body" \in PbOffers /\ body # PbShown.body
    /\ PbEdit(pbPattern, [PbShown EXCEPT !.body = body])
    /\ UNCHANGED <<pbOpts, pbAsk, pbPending, pbSide>>

PbFillWildcards(filled) ==
    /\ PbUseForm /\ "wildcards" \in PbOffers /\ filled # PbShown.filled
    /\ PbEdit(pbPattern, [PbShown EXCEPT !.filled = filled])
    /\ UNCHANGED <<pbOpts, pbAsk, pbPending, pbSide>>

PbEditHeaders(h) ==
    /\ PbUseForm /\ "headers" \in PbOffers /\ h # PbShown.headers
    /\ PbEdit(pbPattern, [PbShown EXCEPT !.headers = h])
    /\ UNCHANGED <<pbOpts, pbAsk, pbPending, pbSide>>

\* "proto" can be chosen only where a type is mapped.
PbSetMode(mode) ==
    /\ PbUseForm /\ "mode" \in PbOffers /\ mode # pbMode /\ (mode = "proto" => PbMapped(pbPattern) # "none")
    /\ PbRender(pbOwn, pbPattern, pbDrafts, mode, pbChecked)
    /\ UNCHANGED <<pbOpts, pbAsk, pbPending, pbSide>>

\* A field of the options is disabled where stream or server lacks it; the
\* options outlive a change of pattern.
PbSetOptions(o) ==
    /\ PbUseForm /\ "options" \in PbOffers /\ o # pbOpts /\ o \in PbFeatures \cup {"none", "malformed"}
    /\ (o = "malformed" => PbFeatures # {}) /\ pbOpts' = o
    /\ UNCHANGED <<pbForm, pbChecked, pbAsk, pbPending, pbSide>>

\* The error of buildOptionHeaders: a malformed option, or a header set twice.
PbOptionsError ==
    \/ pbOpts = "malformed"
    \/ pbOpts = "ttl" /\ PbShown.headers = "Nats-TTL"
    \/ pbOpts = "increment" /\ PbShown.headers = "Nats-Incr"

PbIncrement == pbOpts = "increment" \/ PbShown.headers = "Nats-Incr"

\* publishDisabledReason is null.
PbCanPublish ==
    /\ pbPattern # "" /\ (pbPattern \in PbWild => PbShown.filled)
    /\ PbIncrement \/ (PbShown.body # "blank" /\ ~PbJsonError(PbShown.body, pbChecked))
    /\ PbShown.headers # "invalid" /\ ~PbOptionsError

\* The button waits for the call under way; the shortcut does not.  A helper
\* body that does not parse is found out only now: nothing is sent.
PbPublish(how) ==
    /\ PbUseForm /\ PbCanPublish /\ how \in PbOffers
    /\ pbPending' = IF PbIncrement \/ PbShown.body # "help"
                    THEN pbPending \cup {[pattern |-> pbPattern, body |-> PbShown.body]} ELSE pbPending
    /\ UNCHANGED <<pbForm, pbOpts, pbChecked, pbAsk, pbSide>>

\* The server records what it published and what it failed to.
PbPublished(e, ok) ==
    /\ pbPending' = pbPending \ {e}
    /\ pbHistory' = pbHistory \cup {[pattern |-> e.pattern, body |-> e.body, ok |-> ok]}
    /\ UNCHANGED <<pbForm, pbOpts, pbChecked, pbAsk, pbTemplates, pbMenu, pbUndo, pbPresses>>

---------------------------------------------------------------------------
PbUseExample ==
    /\ PbUseForm /\ "example" \in PbOffers /\ pbAsk' = [pbAsk EXCEPT !.example = pbPattern]
    /\ UNCHANGED <<pbForm, pbOpts, pbChecked, pbPending, pbSide>>

PbPrefillFromLast ==
    /\ PbUseForm /\ "prefill" \in PbOffers /\ pbAsk' = [pbAsk EXCEPT !.prefill = pbPattern]
    /\ UNCHANGED <<pbForm, pbOpts, pbChecked, pbPending, pbSide>>

\* The setter reads lastPattern when it runs: a body asked for under one
\* pattern becomes the body of the pattern shown when it comes.
PbBodyCame(what, body) ==
    /\ pbAsk[what] # "" /\ pbAsk' = [pbAsk EXCEPT ![what] = ""]
    /\ IF body = "" THEN UNCHANGED <<pbForm, pbChecked>>
       ELSE PbEdit(pbPattern, [PbShown EXCEPT !.body = body])
    /\ UNCHANGED <<pbOpts, pbPending, pbSide, pbPresses>>

\* The check of a body with helpers, HELPER_JSON_DEBOUNCE_MS after it changed.
PbCheckHelpers ==
    /\ PbShown.body = "help" /\ ~pbChecked
    /\ PbRender(pbOwn, pbPattern, pbDrafts, pbMode, TRUE)
    /\ UNCHANGED <<pbOpts, pbAsk, pbPending, pbSide, pbPresses>>

\* AUTO_VALIDATE_DEBOUNCE_MS after the last change.
PbValidate ==
    /\ pbVal.timer # <<>> /\ (PbShown.body = "help" => pbChecked)
    /\ pbVal' = [pbVal EXCEPT !.timer = <<>>, !.busy = TRUE, !.calls = @ \cup {[of |-> pbVal.timer, live |-> TRUE]}]
    /\ UNCHANGED <<pbOwn, pbPattern, pbDrafts, pbMode, pbOpts, pbChecked, pbAsk, pbPending, pbSide, pbPresses>>

\* Mutant: an answer is taken whatever it was asked for.
PbTakeAny(c, ok) ==
    [pbVal EXCEPT !.calls = @ \ {c}, !.busy = FALSE, !.verdict = IF ok THEN c.of ELSE <<>>]

\* An answer counts when no validation was started after it.
PbTake(c, ok) ==
    IF c.live THEN [pbVal EXCEPT !.calls = @ \ {c}, !.busy = FALSE, !.verdict = IF ok THEN c.of ELSE <<>>]
    ELSE [pbVal EXCEPT !.calls = @ \ {c}]

PbValidated(c, ok) ==
    /\ c \in pbVal.calls /\ pbVal' = PbTake(c, ok)
    /\ UNCHANGED <<pbOwn, pbPattern, pbDrafts, pbMode, pbOpts, pbChecked, pbAsk, pbPending, pbSide, pbPresses>>

---------------------------------------------------------------------------
\* What the template menu offers: open and close, save as, and over a row
\* load and delete; Escape and a click elsewhere close it.
PbMenuOffers ==
    CASE pbMenu = "closed" -> {"open", "save"}
      [] pbMenu = "open" -> {"closed", "save"} \cup IF pbTemplates = {} THEN {} ELSE {"load", "delete"}
      [] OTHER -> {"closed", "confirm"}

PbOpenMenu(to) ==
    /\ to \in PbMenuOffers \ {"load", "confirm"} /\ pbMenu' = to
    /\ UNCHANGED <<pbForm, pbOpts, pbChecked, pbAsk, pbPending, pbHistory, pbTemplates, pbUndo, pbPresses>>

PbSaveTemplate ==
    /\ PbUse /\ pbMenu = "save" /\ "confirm" \in PbMenuOffers
    /\ \/ pbTemplates' = pbTemplates \cup {[pattern |-> pbPattern, draft |-> PbShown]} /\ pbMenu' = "closed"
       \/ UNCHANGED <<pbTemplates, pbMenu>>
    /\ UNCHANGED <<pbForm, pbOpts, pbChecked, pbAsk, pbPending, pbHistory, pbUndo>>

PbDeleteTemplate(t) ==
    /\ PbUse /\ pbMenu = "delete" /\ "confirm" \in PbMenuOffers /\ t \in pbTemplates /\ pbMenu' = "open"
    /\ \/ pbTemplates' = pbTemplates \ {t}
       \/ UNCHANGED pbTemplates
    /\ UNCHANGED <<pbForm, pbOpts, pbChecked, pbAsk, pbPending, pbHistory, pbUndo>>

\* The template takes the place of the draft of its pattern.  Undo keeps what
\* was shown before, not the draft that was replaced.
PbLoadTemplate(t) ==
    /\ PbUse /\ pbMenu = "open" /\ t \in pbTemplates /\ pbMenu' = "closed"
    /\ PbEdit(t.pattern, [t.draft EXCEPT !.filled = @ \/ t.pattern \notin PbWild])
    /\ pbUndo' = [pattern |-> pbPattern, draft |-> PbShown]
    /\ UNCHANGED <<pbOpts, pbAsk, pbPending, pbHistory, pbTemplates>>

PbUndoLoad ==
    /\ PbUse /\ pbUndo # PbNoUndo /\ pbUndo' = PbNoUndo
    /\ PbEdit(pbUndo.pattern, pbUndo.draft)
    /\ UNCHANGED <<pbOpts, pbAsk, pbPending, pbHistory, pbTemplates, pbMenu>>

\* An entry of this stream can be loaded; one that failed names no stream and
\* counts as this stream's when its pattern is listed.
PbCanLoadEntry(e) == e.ok \/ e.pattern \in pbOwn

\* The entries listed whose details offer "Load into form".
PbHistoryOffers == {e \in pbHistory : PbCanLoadEntry(e)}

PbLoadEntry(e) ==
    /\ PbUse /\ pbMenu = "closed" /\ e \in PbHistoryOffers
    /\ PbEdit(e.pattern, [body |-> e.body, filled |-> TRUE, headers |-> "none"])
    /\ UNCHANGED <<pbOpts, pbAsk, pbPending, pbSide>>

PbNext ==
    \/ \E own \in SUBSET PbListed : PbSubjects(own)
    \/ \E p \in PbPatterns \cup {""} : PbChoosePattern(p)
    \/ \E body \in PbBodies \ {"example"} : PbTypeBody(body)
    \/ \E h \in PbHeaders : PbEditHeaders(h)
    \/ \E mode \in {"auto", "json", "proto"} : PbSetMode(mode)
    \/ \E o \in {"none", "malformed", "ttl", "increment", "schedule"} : PbSetOptions(o)
    \/ \E yes \in BOOLEAN : PbFillWildcards(yes)
    \/ \E how \in {"button", "shortcut"} : PbPublish(how)
    \/ \E e \in pbPending, ok \in BOOLEAN : PbPublished(e, ok)
    \/ PbUseExample \/ PbPrefillFromLast \/ PbCheckHelpers \/ PbValidate
    \/ \E body \in {"", "example"} : PbBodyCame("example", body)
    \/ \E body \in {"", "good", "bad"} : PbBodyCame("prefill", body)
    \/ \E c \in pbVal.calls, ok \in BOOLEAN : PbValidated(c, ok)
    \/ \E to \in {"closed", "open", "save", "delete"} : PbOpenMenu(to)
    \/ PbSaveTemplate \/ PbUndoLoad
    \/ \E t \in pbTemplates : PbDeleteTemplate(t) \/ PbLoadTemplate(t)
    \/ \E e \in pbHistory : PbLoadEntry(e)

PbSpec == PbInit /\ [][PbNext]_pbVars

---------------------------------------------------------------------------
PbTypeOK ==
    /\ pbPattern \in PbPatterns \cup {""} /\ DOMAIN pbDrafts \subseteq PbPatterns
    /\ \A p \in DOMAIN pbDrafts : pbDrafts[p] \in PbDraft
    /\ pbMode \in {"auto", "json", "proto"} /\ pbVal.busy \in BOOLEAN

\* Once no validation waits or runs, a verdict shown beside the Publish button
\* is about the type and the body shown: answers to earlier bodies, other types
\* and other patterns never land (the validation effect of PublishContent).
PbVerdictCurrent ==
    (pbVal.timer = <<>> /\ ~pbVal.busy /\ pbVal.verdict # <<>>) => pbVal.verdict = PbKeyNow
=============================================================================
