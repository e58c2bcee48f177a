---------------------------- MODULE StreamConfig ----------------------------
(***************************************************************************)
(* The configuration tab of a stream (components/streams/StreamConfigTab):  *)
(* the draft that survives navigation, the form and the JSON view of it,    *)
(* the review of what a save would change, and purge, seal and delete.      *)
(* Other clients change the same stream; the tab reads it every five        *)
(* seconds.  One value of every kind of field stands for all of them.       *)
(***************************************************************************)
EXTENDS Naturals, FiniteSets

CONSTANTS
    ScMaxOthers,  \* bound on the other clients' changes
    ScMaxPresses  \* bound on the user's steps

ASSUME ScAssumption == ScMaxOthers \in Nat /\ ScMaxPresses \in Nat

VARIABLES
    scStream,    \* the stream at the server
    scShown,     \* the cached detail
    scMissing,   \* the last read said the stream is not there
    scReadOnly,  \* the connection's policy
    scOpen,      \* the tab is mounted
    scEntry,     \* the persisted entry: isEditing, editorMode, formDraft
    scText,      \* what the open editor holds: a value, an invalid duration, broken JSON
    scReview, scConfirm,
    scSave,      \* the update under way
    scAct,       \* the confirmed action under way
    scOthers, scPresses

scServer == <<scStream, scOthers>>
scCache == <<scShown, scMissing>>
scDialogs == <<scReview, scConfirm>>
scCalls == <<scSave, scAct>>
scVars == <<scServer, scCache, scReadOnly, scOpen, scEntry, scText, scDialogs, scCalls, scPresses>>

---------------------------------------------------------------------------
(* Fields.  limit is edited in place, like max_msgs; subjects, like the nested *)
(* settings and the metadata, may be taken away (0); ttl can be turned on and  *)
(* never off; placement is not read back and not sent.                         *)

ScFields == {"limit", "subjects", "ttl", "placement"}
ScEditable == ScFields \ {"placement"}
ScValues(f) == IF f = "limit" THEN 0 .. 2 ELSE 0 .. 1
ScConfigs == {c \in [ScFields -> 0 .. 2] : \A f \in ScFields : c[f] \in ScValues(f)}

ScNoDraft == [f \in {} |-> 0]
ScNoDetail == [config |-> ScNoDraft, sealed |-> FALSE]
ScClosedEntry == [editing |-> FALSE, mode |-> "form", draft |-> ScNoDraft]
ScNoConfirm == [type |-> "none", typed |-> FALSE, purge |-> "all"]
ScNoAct == [type |-> "none", state |-> "none"]
ScIdle == [state |-> "none", next |-> ScNoDraft, listed |-> {}, shown |-> ScNoDraft]

\* streamToConfig: what the form takes from the stream.
ScToForm(config) == [config EXCEPT !.placement = 0]

\* Mutant: the update sends every field of the draft.
ScSendAll(draft) == draft

\* buildStreamUpdatePayload: the editable fields only.
ScPayload(draft) == [f \in ScEditable |-> draft[f]]

ScDiffer(a, b) == {f \in DOMAIN a : a[f] # b[f]}

\* getIgnoredUpdateKeys: edits no update carries.
ScIgnoredKeys(original, draft) == ScDiffer(original, draft) \ ScEditable

\* enableOnlyLockReason, and nothing else is locked in the form that an update carries.
ScLockedInForm(original) == {f \in {"ttl"} : original[f] = 1}

\* getStreamUpdateLockedKeys, those the draft has.
ScLockedInJson(draft) == {f \in {"placement"} : draft[f] # 0}

---------------------------------------------------------------------------
ScOriginal == ScToForm(scShown.config)
ScLoaded == scShown # ScNoDetail /\ ~scMissing
ScHasDraft == scEntry.draft # ScNoDraft

\* pendingUpdate: what the review lists, left against right.
ScListed == ScDiffer(ScPayload(ScOriginal), ScPayload(scEntry.draft))
ScHasChanges == ScListed # {} \/ ScIgnoredKeys(ScOriginal, scEntry.draft) # {}

\* The effect that gives an opened editor its draft.
ScSeeded(entry, shown) ==
    IF entry.editing /\ entry.draft = ScNoDraft /\ shown # ScNoDetail
    THEN [entry EXCEPT !.draft = ScToForm(shown.config)] ELSE entry

ScInit ==
    /\ \E config \in ScConfigs : config.limit = 0 /\ scStream = [config |-> config, sealed |-> FALSE, exists |-> TRUE]
    /\ scShown = ScNoDetail /\ scMissing = FALSE /\ scReadOnly \in BOOLEAN
    /\ scOpen = TRUE /\ scEntry = ScClosedEntry /\ scText = "fine"
    /\ scReview = FALSE /\ scConfirm = ScNoConfirm /\ scSave = ScIdle /\ scAct = ScNoAct
    /\ scOthers = 0 /\ scPresses = 0

ScUse == scPresses < ScMaxPresses /\ scPresses' = scPresses + 1

\* No dialog covers the tab.
ScFront == scOpen /\ ScLoaded /\ ~scReview /\ scConfirm = ScNoConfirm
ScEditorShown == scEntry.editing /\ ScHasDraft /\ ~scReadOnly

---------------------------------------------------------------------------
\* The stream.

ScFetched ==
    IF scStream.exists
    THEN scShown' = [config |-> scStream.config, sealed |-> scStream.sealed] /\ scMissing' = FALSE
    ELSE UNCHANGED scShown /\ scMissing' = TRUE

\* useStreamDetail, every five seconds and on focus until the stream is missing.
ScFetch ==
    /\ scOpen /\ ~scMissing /\ ScFetched
    /\ <<scShown, scMissing>>' # <<scShown, scMissing>>
    /\ scEntry' = ScSeeded(scEntry, scShown')
    /\ UNCHANGED <<scServer, scReadOnly, scOpen, scText, scDialogs, scCalls, scPresses>>

ScOtherChanges ==
    /\ scOthers < ScMaxOthers /\ scStream.exists /\ scOthers' = scOthers + 1
    /\ \/ ~scStream.sealed /\ scStream' = [scStream EXCEPT !.config.limit = 2]
       \/ scStream' = [scStream EXCEPT !.sealed = TRUE]
       \/ scStream' = [scStream EXCEPT !.exists = FALSE]
    /\ scStream' # scStream
    /\ UNCHANGED <<scCache, scReadOnly, scOpen, scEntry, scText, scDialogs, scCalls, scPresses>>

---------------------------------------------------------------------------
\* The editor.

\* StreamConfigView offers Edit on every connection that is not read-only.
ScStartEdit ==
    /\ ScUse /\ ScFront /\ ~ScEditorShown /\ ~scReadOnly
    /\ scEntry' = ScSeeded([scEntry EXCEPT !.editing = TRUE], scShown)
    /\ UNCHANGED <<scServer, scCache, scReadOnly, scOpen, scText, scDialogs, scCalls>>

\* The other view starts from the last value that could be read.
ScMode(mode) ==
    /\ ScUse /\ ScFront /\ ScEditorShown /\ mode # scEntry.mode
    /\ scEntry' = [scEntry EXCEPT !.mode = mode] /\ scText' = "fine"
    /\ UNCHANGED <<scServer, scCache, scReadOnly, scOpen, scDialogs, scCalls>>

\* A field of the form; another field's invalid text stays.
ScField(f, v) ==
    /\ ScUse /\ ScFront /\ ScEditorShown /\ scEntry.mode = "form"
    /\ f \notin ScLockedInForm(ScOriginal) /\ v \in ScValues(f) /\ v # scEntry.draft[f]
    /\ scEntry' = [scEntry EXCEPT !.draft[f] = v]
    /\ scText' = IF f = "limit" THEN "fine" ELSE scText
    /\ UNCHANGED <<scServer, scCache, scReadOnly, scOpen, scDialogs, scCalls>>

\* The JSON view: any field but those it pins.
ScJson(f, v) ==
    /\ ScUse /\ ScFront /\ ScEditorShown /\ scEntry.mode = "json"
    /\ f \notin ScLockedInJson(scEntry.draft) /\ v \in ScValues(f) /\ v # scEntry.draft[f]
    /\ scEntry' = [scEntry EXCEPT !.draft[f] = v] /\ scText' = "fine"
    /\ UNCHANGED <<scServer, scCache, scReadOnly, scOpen, scDialogs, scCalls>>

\* Text that is no value leaves the draft as it was.
ScBreakText ==
    /\ ScUse /\ ScFront /\ ScEditorShown /\ scText = "fine"
    /\ scText' = IF scEntry.mode = "form" THEN "invalid" ELSE "broken"
    /\ UNCHANGED <<scServer, scCache, scReadOnly, scOpen, scEntry, scDialogs, scCalls>>

\* handleCancelEdit.
ScCancelEdit ==
    /\ ScUse /\ ScFront /\ ScEditorShown
    /\ scEntry' = ScClosedEntry /\ scText' = "fine"
    /\ UNCHANGED <<scServer, scCache, scReadOnly, scOpen, scDialogs, scCalls>>

---------------------------------------------------------------------------
\* Saving.

ScOffersSave == ScEditorShown /\ scSave = ScIdle /\ ScHasChanges /\ scText # "invalid"

ScOpenReview ==
    /\ ScUse /\ ScFront /\ ScOffersSave
    /\ scReview' = TRUE
    /\ UNCHANGED <<scServer, scCache, scReadOnly, scOpen, scEntry, scText, scConfirm, scCalls>>

ScCloseReview ==
    /\ ScUse /\ scOpen /\ scReview
    /\ scReview' = FALSE
    /\ UNCHANGED <<scServer, scCache, scReadOnly, scOpen, scEntry, scText, scConfirm, scCalls>>

\* ConfigDiffModal's confirmation, handleUpdate: what is listed is what was
\* last read against the draft, as both are when it is pressed.
ScSaveNow ==
    /\ ScUse /\ scOpen /\ ScLoaded /\ scReview /\ ScHasDraft /\ scSave = ScIdle /\ ScListed # {}
    /\ scSave' = [state |-> "sent", next |-> ScPayload(scEntry.draft), listed |-> ScListed, shown |-> scShown.config]
    /\ UNCHANGED <<scServer, scCache, scReadOnly, scOpen, scEntry, scText, scDialogs, scAct>>

\* updateStream: an empty list is no part of the request.
ScSent(next) == [f \in DOMAIN next \ {g \in {"subjects"} : next[g] = 0} |-> next[f]]

\* mergeStreamUpdate: what the request does not hold stays.
ScMerge(config, next) == [f \in ScFields |-> IF f \in DOMAIN ScSent(next) THEN next[f] ELSE config[f]]

ScAccepts(next) ==
    scStream.exists /\ ~scStream.sealed /\ (scStream.config.ttl = 1 => next.ttl = 1)

ScUpdateReaches ==
    /\ scSave.state = "sent"
    /\ \/ /\ ScAccepts(scSave.next)
          /\ scStream' = [scStream EXCEPT !.config = ScMerge(scStream.config, scSave.next)]
          /\ scSave' = [scSave EXCEPT !.state = "done"]
       \/ UNCHANGED scStream /\ scSave' = [scSave EXCEPT !.state = "failed"]
    /\ UNCHANGED <<scOthers, scCache, scReadOnly, scOpen, scEntry, scText, scDialogs, scAct, scPresses>>

\* The draft is dropped with whatever was typed meanwhile; a failure keeps it.
ScUpdateAnswered ==
    /\ scSave.state \in {"done", "failed"} /\ scSave' = ScIdle
    /\ IF scSave.state = "done"
       THEN /\ scReview' = FALSE /\ scEntry' = ScClosedEntry /\ scText' = "fine"
            /\ ScFetched
       ELSE UNCHANGED <<scReview, scEntry, scText, scCache>>
    /\ UNCHANGED <<scServer, scReadOnly, scOpen, scConfirm, scAct, scPresses>>

---------------------------------------------------------------------------
\* Purge, seal and delete.

ScOffers ==
    IF scReadOnly \/ ScEditorShown THEN {}
    ELSE {"delete"} \cup (IF scShown.sealed THEN {} ELSE {"purge", "seal"})

ScAsk(type) ==
    /\ ScUse /\ ScFront /\ type \in ScOffers
    /\ scConfirm' = [ScNoConfirm EXCEPT !.type = type]
    /\ UNCHANGED <<scServer, scCache, scReadOnly, scOpen, scEntry, scText, scReview, scCalls>>

ScTypeName ==
    /\ ScUse /\ scOpen /\ scConfirm # ScNoConfirm /\ ~scConfirm.typed
    /\ scConfirm' = [scConfirm EXCEPT !.typed = TRUE]
    /\ UNCHANGED <<scServer, scCache, scReadOnly, scOpen, scEntry, scText, scReview, scCalls>>

\* getPurgeFormError: a sequence or a number to keep has to be one.
ScPurgeOptions(how) ==
    /\ ScUse /\ scOpen /\ scConfirm.type = "purge" /\ how # scConfirm.purge
    /\ scConfirm' = [scConfirm EXCEPT !.purge = how]
    /\ UNCHANGED <<scServer, scCache, scReadOnly, scOpen, scEntry, scText, scReview, scCalls>>

ScCancelAsk ==
    /\ ScUse /\ scOpen /\ scConfirm # ScNoConfirm
    /\ scConfirm' = ScNoConfirm
    /\ UNCHANGED <<scServer, scCache, scReadOnly, scOpen, scEntry, scText, scReview, scCalls>>

\* handleConfirmAction; the dialog does not know of the call under way (the
\* second call of one that is pressed again is left out).
ScConfirmed ==
    /\ ScUse /\ scOpen /\ ScLoaded /\ scConfirm.typed /\ scConfirm.purge # "invalid" /\ scAct = ScNoAct
    /\ scAct' = [type |-> scConfirm.type, state |-> "sent"]
    /\ UNCHANGED <<scServer, scCache, scReadOnly, scOpen, scEntry, scText, scDialogs, scSave>>

ScActReaches ==
    /\ scAct.state = "sent"
    /\ \/ scStream.exists /\ (scAct.type = "purge" => ~scStream.sealed) /\ scAct' = [scAct EXCEPT !.state = "done"]
          /\ scStream' = [scStream EXCEPT !.sealed = @ \/ scAct.type = "seal", !.exists = scAct.type # "delete"]
       \/ scAct' = [scAct EXCEPT !.state = "failed"] /\ UNCHANGED scStream
    /\ UNCHANGED <<scOthers, scCache, scReadOnly, scOpen, scEntry, scText, scDialogs, scSave, scPresses>>

\* A deletion leads back to the list of streams, from wherever the user is.
ScActAnswered ==
    /\ scAct.state \in {"done", "failed"} /\ scAct' = ScNoAct
    /\ IF scAct.state = "failed" THEN UNCHANGED <<scOpen, scText, scDialogs, scCache>>
       ELSE /\ scConfirm' = ScNoConfirm
            /\ IF scAct.type = "delete" THEN scOpen' = FALSE /\ scText' = "fine" /\ scReview' = FALSE /\ UNCHANGED scCache
               ELSE ScFetched /\ UNCHANGED <<scOpen, scText, scReview>>
    /\ UNCHANGED <<scServer, scReadOnly, scEntry, scSave, scPresses>>

---------------------------------------------------------------------------
\* Another tab and back: the entry is kept, the dialogs are not.

ScLeave ==
    /\ ScUse /\ ScFront
    /\ scOpen' = FALSE /\ scText' = "fine"
    /\ UNCHANGED <<scServer, scCache, scReadOnly, scEntry, scDialogs, scCalls>>

ScReturn ==
    /\ ScUse /\ ~scOpen /\ scOpen' = TRUE /\ scEntry' = ScSeeded(scEntry, scShown)
    /\ UNCHANGED <<scServer, scCache, scReadOnly, scText, scDialogs, scCalls>>

ScNext ==
    \/ ScFetch \/ ScOtherChanges
    \/ ScStartEdit \/ (\E mode \in {"form", "json"} : ScMode(mode))
    \/ (\E f \in ScFields : \E v \in ScValues(f) : ScField(f, v) \/ ScJson(f, v))
    \/ ScBreakText \/ ScCancelEdit
    \/ ScOpenReview \/ ScCloseReview \/ ScSaveNow \/ ScUpdateReaches \/ ScUpdateAnswered
    \/ (\E type \in {"purge", "seal", "delete"} : ScAsk(type))
    \/ ScTypeName \/ (\E how \in {"all", "some", "invalid"} : ScPurgeOptions(how)) \/ ScCancelAsk
    \/ ScConfirmed \/ ScActReaches \/ ScActAnswered
    \/ ScLeave \/ ScReturn

ScSpec == ScInit /\ [][ScNext]_scVars

---------------------------------------------------------------------------
ScTypeOK ==
    /\ scStream.config \in ScConfigs /\ scStream.sealed \in BOOLEAN /\ scStream.exists \in BOOLEAN
    /\ scShown = ScNoDetail \/ (scShown.config \in ScConfigs /\ scShown.sealed \in BOOLEAN)
    /\ {scMissing, scReadOnly, scOpen, scReview} \subseteq BOOLEAN
    /\ scEntry.editing \in BOOLEAN /\ scEntry.mode \in {"form", "json"}
    /\ scEntry.draft = ScNoDraft \/ scEntry.draft \in ScConfigs
    /\ scText \in {"fine", "invalid", "broken"}
    /\ scConfirm \in [type : {"none", "purge", "seal", "delete"}, typed : BOOLEAN, purge : {"all", "some", "invalid"}]
    /\ scSave.state \in {"none", "sent", "done", "failed"} /\ scSave.listed \subseteq ScFields
    /\ scAct \in [type : {"none", "purge", "seal", "delete"}, state : {"none", "sent", "done", "failed"}]
    /\ scOthers \in 0 .. ScMaxOthers /\ scPresses \in 0 .. ScMaxPresses

\* An update changes a field only when the review that was confirmed lists it,
\* or when the stream changed after it was last read: nothing another client
\* set, and nothing the form does not read back, is overwritten unseen.
ScReviewedStep ==
    scSave.state = "sent" /\ scSave'.state = "done" =>
        \A f \in ScFields :
            scStream'.config[f] # scStream.config[f]
                => f \in scSave.listed \/ scStream.config[f] # scSave.shown[f]
=============================================================================
