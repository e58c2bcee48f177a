----------------------------- MODULE ConsumersTab -----------------------------
(***************************************************************************)
(* The consumers of a stream (components/streams/StreamConsumersTab): the    *)
(* list, the selection and the draft that survive navigation, creating and   *)
(* editing a consumer, and pausing, resuming, resetting and deleting one.    *)
(* Other clients change the same consumers; the list is read when the tab    *)
(* opens, on focus and after each call.                                      *)
(***************************************************************************)
EXTENDS Naturals

CONSTANTS
    CtNames,      \* names of consumers
    CtMaxOthers,  \* bound on the other clients' changes
    CtMaxPresses  \* bound on the user's steps

ASSUME CtAssumption == "" \notin CtNames /\ CtMaxOthers \in Nat /\ CtMaxPresses \in Nat

VARIABLES
    ctConsumers,  \* the consumers at the server
    ctShown,      \* the cached list
    ctReadOnly,   \* the connection's policy
    ctOpen,       \* the tab is mounted
    ctEntry,      \* the persisted entry
    ctAwait,      \* a link named a consumer the list does not have yet
    ctReview, ctConfirm,
    ctAsks,       \* deletions are confirmed first
    ctCall,       \* the create or update under way
    ctAct,        \* the pause, resume, reset, unpin or delete under way
    ctOthers, ctPresses

ctServer == <<ctConsumers, ctOthers>>
ctDialogs == <<ctReview, ctConfirm>>
ctCalls == <<ctCall, ctAct>>
ctVars == <<ctServer, ctShown, ctReadOnly, ctOpen, ctEntry, ctAwait, ctDialogs, ctAsks, ctCalls, ctPresses>>

---------------------------------------------------------------------------
(* Configurations.  limit is any field edited in place; filter is none, one   *)
(* subject or a list; priority names groups or not; kind is fixed at creation.*)

CtFields == {"limit", "filter", "priority", "kind"}
CtValues(f) ==
    CASE f = "limit" -> {0, 1} [] f = "filter" -> {"all", "one", "many"}
      [] f = "priority" -> {"none", "groups"} [] f = "kind" -> {"pull", "push"}

CtConfigs == [limit : CtValues("limit"), filter : CtValues("filter"), priority : CtValues("priority"), kind : CtValues("kind")]
CtDrafts == [of : CtNames \cup {""}, config : CtConfigs]

CtNone == [f \in {} |-> 0]
CtNotRead == [n \in {"unread"} |-> 0]

CtDefault == [limit |-> 0, filter |-> "all", priority |-> "none", kind |-> "pull"]
CtNewDraft == [of |-> "", config |-> CtDefault]

\* consumerToConfig: the deliver subject is not read back.
CtToDraft(name, consumer) == [of |-> name, config |-> [f \in CtFields |-> IF f = "kind" THEN "pull" ELSE consumer[f]]]

CtDiffer(a, b) == {f \in CtFields : a[f] # b[f]}

\* Mutant: the filters and the priority groups go with every update.
CtSendAll(original, draft) == [f \in CtFields \ {"kind"} |-> draft[f]]

\* toConsumerUpdateRequest: filters and priority only when they were edited.
CtPayload(original, draft) ==
    [f \in {"limit"} \cup (CtDiffer(original, draft) \cap {"filter", "priority"}) |-> draft[f]]

CtClosed == [selected |-> "", creating |-> FALSE, editing |-> FALSE, mode |-> "form", draft |-> CtNone]
CtNoConfirm == [type |-> "none", name |-> "", valid |-> TRUE, dontAsk |-> FALSE]
CtNoAct == [type |-> "none", name |-> "", selected |-> "", dontAsk |-> FALSE, state |-> "none"]
CtNoCall == [type |-> "none", name |-> "", draft |-> CtNone, payload |-> CtNone, listed |-> {}, shown |-> CtNone, state |-> "none"]

CtHeld(name, shown) == shown # CtNotRead /\ name \in DOMAIN shown

\* The effect that drops a selection the list no longer has.
CtDropped(entry, shown, awaiting) ==
    IF entry.selected # "" /\ shown # CtNotRead /\ ~awaiting /\ DOMAIN shown # {} /\ entry.selected \notin DOMAIN shown
    THEN [entry EXCEPT !.selected = "", !.editing = FALSE, !.draft = CtNone] ELSE entry

\* The effect that gives an opened editor its draft.
CtSeeded(entry, shown) ==
    IF entry.draft # CtNone THEN entry
    ELSE IF entry.creating THEN [entry EXCEPT !.draft = CtNewDraft]
    ELSE IF entry.editing /\ CtHeld(entry.selected, shown)
    THEN [entry EXCEPT !.draft = CtToDraft(entry.selected, shown[entry.selected])]
    ELSE entry

CtSettled(entry, shown, awaiting) == CtSeeded(CtDropped(entry, shown, awaiting), shown)

CtSelected(name) == [CtClosed EXCEPT !.selected = name]

CtInit ==
    /\ \E s \in SUBSET CtNames : ctConsumers = [n \in s |-> CtDefault]
    /\ ctShown = CtNotRead /\ ctReadOnly \in BOOLEAN /\ ctOpen = TRUE
    /\ ctEntry = CtClosed /\ ctAwait = FALSE
    /\ ctReview = FALSE /\ ctConfirm = CtNoConfirm /\ ctAsks = TRUE
    /\ ctCall = CtNoCall /\ ctAct = CtNoAct /\ ctOthers = 0 /\ ctPresses = 0

CtUse == ctPresses < CtMaxPresses /\ ctPresses' = ctPresses + 1
CtSet(entry) == ctEntry' = CtSettled(entry, ctShown, ctAwait)

CtFront == ctOpen /\ ~ctReview /\ ctConfirm = CtNoConfirm
CtCreates == ctEntry.creating /\ ~ctReadOnly
CtOnScreen == ~CtCreates /\ CtHeld(ctEntry.selected, ctShown)
CtEdits == CtOnScreen /\ ctEntry.editing /\ ~ctReadOnly
CtViews == CtOnScreen /\ ~CtEdits

---------------------------------------------------------------------------
\* The list.

CtAnswered == ctShown' = ctConsumers /\ ctAwait' = FALSE

\* A call that succeeded has the list read again, and the effects run, when
\* the tab is mounted; the entry is patched in any case.
CtAfterCall(entry) ==
    IF ctOpen THEN CtAnswered /\ ctEntry' = CtSettled(entry, ctShown', FALSE)
    ELSE ctEntry' = entry /\ UNCHANGED <<ctShown, ctAwait>>

\* useConsumers: on mount, on focus and on Refresh.
CtFetch ==
    /\ ctOpen /\ CtAnswered /\ <<ctShown, ctAwait>>' # <<ctShown, ctAwait>>
    /\ ctEntry' = CtSettled(ctEntry, ctShown', FALSE)
    /\ UNCHANGED <<ctServer, ctReadOnly, ctOpen, ctDialogs, ctAsks, ctCalls, ctPresses>>

\* A read that fails ends the wait for the linked consumer too.
CtFetchFails ==
    /\ ctOpen /\ ctAwait /\ ctAwait' = FALSE
    /\ ctEntry' = CtSettled(ctEntry, ctShown, FALSE)
    /\ UNCHANGED <<ctServer, ctShown, ctReadOnly, ctOpen, ctDialogs, ctAsks, ctCalls, ctPresses>>

CtOtherChanges ==
    /\ ctOthers < CtMaxOthers /\ ctOthers' = ctOthers + 1
    /\ \E n \in CtNames :
          \/ n \in DOMAIN ctConsumers /\ \E v \in {"one", "many"} :
                ctConsumers' = [ctConsumers EXCEPT ![n].filter = v]
          \/ n \in DOMAIN ctConsumers /\ ctConsumers' = [ctConsumers EXCEPT ![n].limit = 1]
          \/ n \in DOMAIN ctConsumers /\ ctConsumers' = [m \in DOMAIN ctConsumers \ {n} |-> ctConsumers[m]]
          \/ n \notin DOMAIN ctConsumers
             /\ ctConsumers' = [m \in DOMAIN ctConsumers \cup {n} |-> IF m = n THEN CtDefault ELSE ctConsumers[m]]
    /\ ctConsumers' # ctConsumers
    /\ UNCHANGED <<ctShown, ctReadOnly, ctOpen, ctEntry, ctAwait, ctDialogs, ctAsks, ctCalls, ctPresses>>

\* The rows of the list.
CtRows == IF ctShown = CtNotRead THEN {} ELSE DOMAIN ctShown

CtSelect(name) ==
    /\ CtUse /\ CtFront /\ name \in CtRows
    /\ CtSet(CtSelected(name))
    /\ UNCHANGED <<ctServer, ctShown, ctReadOnly, ctOpen, ctAwait, ctDialogs, ctAsks, ctCalls>>

\* A link of another page, with the consumer it names.
CtLink(name) ==
    /\ CtUse /\ ~ctOpen /\ ctOpen' = TRUE
    /\ ctAwait' = ~CtHeld(name, ctShown)
    /\ ctEntry' = CtSettled(CtSelected(name), ctShown, ctAwait')
    /\ UNCHANGED <<ctServer, ctShown, ctReadOnly, ctDialogs, ctAsks, ctCalls>>

---------------------------------------------------------------------------
\* The editor.

\* ConsumerList and the empty pane offer it; an edit that was open stays marked.
CtNew ==
    /\ CtUse /\ CtFront /\ ~ctReadOnly
    /\ CtSet([ctEntry EXCEPT !.creating = TRUE, !.selected = "", !.draft = CtNone])
    /\ UNCHANGED <<ctServer, ctShown, ctReadOnly, ctOpen, ctAwait, ctDialogs, ctAsks, ctCalls>>

CtEdit ==
    /\ CtUse /\ CtFront /\ CtViews /\ ~ctReadOnly
    /\ CtSet([ctEntry EXCEPT !.editing = TRUE])
    /\ UNCHANGED <<ctServer, ctShown, ctReadOnly, ctOpen, ctAwait, ctDialogs, ctAsks, ctCalls>>

\* isImmutable.
CtEditable == IF CtCreates THEN CtFields ELSE CtFields \ {"kind"}

CtEditorOpen == CtFront /\ (CtCreates \/ CtEdits) /\ ctEntry.draft # CtNone

CtMode(mode) ==
    /\ CtUse /\ CtEditorOpen /\ mode # ctEntry.mode
    /\ CtSet([ctEntry EXCEPT !.mode = mode])
    /\ UNCHANGED <<ctServer, ctShown, ctReadOnly, ctOpen, ctAwait, ctDialogs, ctAsks, ctCalls>>

CtTyped(f, v) ==
    /\ CtUse /\ CtEditorOpen /\ ctEntry.draft.config[f] # v
    /\ CtSet([ctEntry EXCEPT !.draft.config[f] = v])
    /\ UNCHANGED <<ctServer, ctShown, ctReadOnly, ctOpen, ctAwait, ctDialogs, ctAsks, ctCalls>>

\* Fields of their own.
CtTypeLimit(v) == ctEntry.mode = "form" /\ CtTyped("limit", v)

\* The single filter is locked while the list is in use; an entry of the list clears it.
CtTypeFilter(v) ==
    /\ ctEntry.mode = "form" /\ CtEditorOpen
    /\ v = "one" => ctEntry.draft.config.filter = "all"
    /\ CtTyped("filter", v)

\* setPriorityPolicy: locked for a push consumer.
CtTypePriority(v) == ctEntry.mode = "form" /\ CtEditorOpen /\ ctEntry.draft.config.kind = "pull" /\ CtTyped("priority", v)

\* Push settings, delivery and storage: fixed once the consumer is there.
CtTypeKind(v) == ctEntry.mode = "form" /\ "kind" \in CtEditable /\ CtTyped("kind", v)

CtTypeName(name) ==
    /\ CtUse /\ CtEditorOpen /\ CtCreates /\ ctEntry.draft.of # name
    /\ CtSet([ctEntry EXCEPT !.draft.of = name])
    /\ UNCHANGED <<ctServer, ctShown, ctReadOnly, ctOpen, ctAwait, ctDialogs, ctAsks, ctCalls>>

\* The JSON view sets any field that is not fixed.
CtTypeJson(f, v) == ctEntry.mode = "json" /\ f \in CtEditable /\ CtTyped(f, v)

CtCancel ==
    /\ CtUse /\ CtEditorOpen
    /\ CtSet(IF CtCreates THEN [ctEntry EXCEPT !.creating = FALSE, !.draft = CtNone]
             ELSE [ctEntry EXCEPT !.editing = FALSE, !.mode = "form", !.draft = CtNone])
    /\ UNCHANGED <<ctServer, ctShown, ctReadOnly, ctOpen, ctAwait, ctDialogs, ctAsks, ctCalls>>

---------------------------------------------------------------------------
\* Creating and updating.

\* handleCreate: what is typed now, a name or not.
CtCreate ==
    /\ CtUse /\ CtEditorOpen /\ CtCreates /\ ctCall = CtNoCall
    /\ ctCall' = [CtNoCall EXCEPT !.type = "create", !.name = ctEntry.draft.of, !.draft = ctEntry.draft,
                                  !.payload = ctEntry.draft.config, !.state = "sent"]
    /\ UNCHANGED <<ctServer, ctShown, ctReadOnly, ctOpen, ctEntry, ctAwait, ctDialogs, ctAsks, ctAct>>

CtOriginal == CtToDraft(ctEntry.selected, ctShown[ctEntry.selected])
CtHasChanges == CtEdits /\ ctEntry.draft # CtNone /\ ctEntry.draft # CtOriginal

CtShowDiff ==
    /\ CtEditorOpen /\ CtHasChanges /\ ctReview' = TRUE /\ UNCHANGED ctPresses
    /\ UNCHANGED <<ctServer, ctShown, ctReadOnly, ctOpen, ctEntry, ctAwait, ctConfirm, ctAsks, ctCalls>>

CtCloseDiff ==
    /\ ctOpen /\ ctReview /\ ctReview' = FALSE /\ UNCHANGED ctPresses
    /\ UNCHANGED <<ctServer, ctShown, ctReadOnly, ctOpen, ctEntry, ctAwait, ctConfirm, ctAsks, ctCalls>>

\* handleUpdate: the consumer on screen, against what was last read of it.
CtUpdate ==
    /\ CtUse /\ ctOpen /\ ctReview /\ CtEdits /\ CtHasChanges /\ ctCall = CtNoCall
    /\ ctCall' = [type |-> "update", name |-> ctEntry.selected, draft |-> ctEntry.draft,
                  payload |-> CtPayload(CtOriginal.config, ctEntry.draft.config),
                  listed |-> CtDiffer(CtOriginal.config, ctEntry.draft.config),
                  shown |-> ctShown[ctEntry.selected], state |-> "sent"]
    /\ UNCHANGED <<ctServer, ctShown, ctReadOnly, ctOpen, ctEntry, ctAwait, ctDialogs, ctAsks, ctAct>>

\* applyConsumerUpdate: what the request does not set stays.
CtMerge(consumer, payload) ==
    [f \in CtFields |-> IF f \in DOMAIN payload THEN payload[f] ELSE consumer[f]]

CtFails == UNCHANGED ctConsumers /\ ctCall' = [ctCall EXCEPT !.state = "failed"]

CtCreateReaches ==
    /\ ctCall.state = "sent" /\ ctCall.type = "create"
    /\ \/ /\ ctCall.name \in CtNames \ DOMAIN ctConsumers
          /\ ctConsumers' = [n \in DOMAIN ctConsumers \cup {ctCall.name} |->
                                IF n = ctCall.name THEN ctCall.payload ELSE ctConsumers[n]]
          /\ ctCall' = [ctCall EXCEPT !.state = "done"]
       \/ CtFails
    /\ UNCHANGED <<ctOthers, ctShown, ctReadOnly, ctOpen, ctEntry, ctAwait, ctDialogs, ctAsks, ctAct, ctPresses>>

CtUpdateReaches ==
    /\ ctCall.state = "sent" /\ ctCall.type = "update"
    /\ \/ /\ ctCall.name \in DOMAIN ctConsumers
          /\ ctConsumers' = [ctConsumers EXCEPT ![ctCall.name] = CtMerge(@, ctCall.payload)]
          /\ ctCall' = [ctCall EXCEPT !.state = "done"]
       \/ CtFails
    /\ UNCHANGED <<ctOthers, ctShown, ctReadOnly, ctOpen, ctEntry, ctAwait, ctDialogs, ctAsks, ctAct, ctPresses>>

\* The entry's editor is closed, whichever consumer it is open for by then.
CtCallAnswered ==
    /\ ctCall.state \in {"done", "failed"} /\ ctCall' = CtNoCall
    /\ IF ctCall.state = "failed" THEN UNCHANGED <<ctShown, ctAwait, ctEntry, ctReview>>
       ELSE /\ ctReview' = (ctReview /\ ctCall.type = "create")
            /\ CtAfterCall(IF ctCall.type = "create" THEN [ctEntry EXCEPT !.creating = FALSE, !.draft = CtNone]
                           ELSE [ctEntry EXCEPT !.editing = FALSE, !.draft = CtNone])
    /\ UNCHANGED <<ctServer, ctReadOnly, ctOpen, ctConfirm, ctAsks, ctAct, ctPresses>>

---------------------------------------------------------------------------
\* Pause, resume, reset, unpin and delete.

CtOffers == IF CtViews /\ ~ctReadOnly THEN {"pause", "resume", "reset", "unpin", "delete"} ELSE {}

CtAsked == {"pause", "reset"} \cup (IF ctAsks THEN {"delete"} ELSE {})

CtStart(type, name, dontAsk) ==
    /\ ctAct = CtNoAct
    /\ ctAct' = [type |-> type, name |-> name, selected |-> ctEntry.selected, dontAsk |-> dontAsk, state |-> "sent"]

CtAsk(type) ==
    /\ CtUse /\ CtFront /\ type \in CtOffers \cap CtAsked
    /\ ctConfirm' = [CtNoConfirm EXCEPT !.type = type, !.name = ctEntry.selected]
    /\ UNCHANGED <<ctServer, ctShown, ctReadOnly, ctOpen, ctEntry, ctAwait, ctReview, ctAsks, ctCalls>>

CtActNow(type) ==
    /\ CtUse /\ CtFront /\ type \in CtOffers \ CtAsked
    /\ CtStart(type, ctEntry.selected, FALSE)
    /\ UNCHANGED <<ctServer, ctShown, ctReadOnly, ctOpen, ctEntry, ctAwait, ctDialogs, ctAsks, ctCall>>

\* parseResetSequence, the pause's minutes, "don't ask again".
CtOption ==
    /\ CtUse /\ ctOpen /\ ctConfirm # CtNoConfirm
    /\ ctConfirm' = IF ctConfirm.type = "delete" THEN [ctConfirm EXCEPT !.dontAsk = ~@] ELSE [ctConfirm EXCEPT !.valid = ~@]
    /\ UNCHANGED <<ctServer, ctShown, ctReadOnly, ctOpen, ctEntry, ctAwait, ctReview, ctAsks, ctCalls>>

CtCancelAsk ==
    /\ CtUse /\ ctOpen /\ ctConfirm # CtNoConfirm /\ ctConfirm' = CtNoConfirm
    /\ UNCHANGED <<ctServer, ctShown, ctReadOnly, ctOpen, ctEntry, ctAwait, ctReview, ctAsks, ctCalls>>

\* handleConfirmAction.
CtConfirmed ==
    /\ CtUse /\ ctOpen /\ ctConfirm # CtNoConfirm /\ ctConfirm.valid
    /\ CtStart(ctConfirm.type, ctConfirm.name, ctConfirm.dontAsk)
    /\ UNCHANGED <<ctServer, ctShown, ctReadOnly, ctOpen, ctEntry, ctAwait, ctDialogs, ctAsks, ctCall>>

CtActReaches ==
    /\ ctAct.state = "sent"
    /\ \/ /\ ctAct.name \in DOMAIN ctConsumers /\ ctAct' = [ctAct EXCEPT !.state = "done"]
          /\ ctConsumers' = [n \in DOMAIN ctConsumers \ (IF ctAct.type = "delete" THEN {ctAct.name} ELSE {}) |-> ctConsumers[n]]
       \/ ctAct' = [ctAct EXCEPT !.state = "failed"] /\ UNCHANGED ctConsumers
    /\ UNCHANGED <<ctOthers, ctShown, ctReadOnly, ctOpen, ctEntry, ctAwait, ctDialogs, ctAsks, ctCall, ctPresses>>

\* performDeleteConsumer clears the selection when it was the consumer's as it began.
CtDeselected(entry) ==
    IF ctAct.type = "delete" /\ ctAct.selected = ctAct.name
    THEN [entry EXCEPT !.selected = "", !.editing = FALSE, !.draft = CtNone] ELSE entry

\* The dialog that is open by then is closed, and the opt-out kept after a success.
CtActAnswered ==
    /\ ctAct.state \in {"done", "failed"} /\ ctAct' = CtNoAct
    /\ ctConfirm' = CtNoConfirm
    /\ ctAsks' = (ctAsks /\ ~(ctAct.dontAsk /\ ctAct.state = "done"))
    /\ IF ctAct.state = "failed" THEN UNCHANGED <<ctShown, ctAwait, ctEntry>>
       ELSE CtAfterCall(CtDeselected(ctEntry))
    /\ UNCHANGED <<ctServer, ctReadOnly, ctOpen, ctReview, ctCall, ctPresses>>

---------------------------------------------------------------------------
CtLeave ==
    /\ CtUse /\ CtFront
    /\ ctOpen' = FALSE /\ ctAwait' = FALSE
    /\ UNCHANGED <<ctServer, ctShown, ctReadOnly, ctEntry, ctDialogs, ctAsks, ctCalls>>

CtReturn ==
    /\ CtUse /\ ~ctOpen /\ ctOpen' = TRUE /\ CtSet(ctEntry)
    /\ UNCHANGED <<ctServer, ctShown, ctReadOnly, ctAwait, ctDialogs, ctAsks, ctCalls>>

CtNext ==
    \/ CtFetch \/ CtFetchFails \/ CtOtherChanges
    \/ (\E n \in CtNames : CtSelect(n) \/ CtLink(n) \/ CtTypeName(n))
    \/ CtNew \/ CtEdit \/ (\E mode \in {"form", "json"} : CtMode(mode))
    \/ (\E v \in CtValues("limit") : CtTypeLimit(v))
    \/ (\E v \in CtValues("filter") : CtTypeFilter(v))
    \/ (\E v \in CtValues("priority") : CtTypePriority(v))
    \/ (\E v \in CtValues("kind") : CtTypeKind(v))
    \/ (\E f \in CtFields : \E v \in CtValues(f) : CtTypeJson(f, v))
    \/ CtCancel \/ CtCreate \/ CtShowDiff \/ CtCloseDiff \/ CtUpdate \/ CtCreateReaches \/ CtUpdateReaches \/ CtCallAnswered
    \/ (\E type \in {"pause", "resume", "reset", "unpin", "delete"} : CtAsk(type) \/ CtActNow(type))
    \/ CtOption \/ CtCancelAsk \/ CtConfirmed \/ CtActReaches \/ CtActAnswered
    \/ CtLeave \/ CtReturn

CtSpec == CtInit /\ [][CtNext]_ctVars

---------------------------------------------------------------------------
CtTypeOK ==
    /\ DOMAIN ctConsumers \subseteq CtNames /\ \A n \in DOMAIN ctConsumers : ctConsumers[n] \in CtConfigs
    /\ ctShown = CtNotRead \/ (DOMAIN ctShown \subseteq CtNames /\ \A n \in DOMAIN ctShown : ctShown[n] \in CtConfigs)
    /\ {ctReadOnly, ctOpen, ctAwait, ctReview, ctAsks, ctEntry.creating, ctEntry.editing} \subseteq BOOLEAN
    /\ ctEntry.selected \in CtNames \cup {""} /\ ctEntry.mode \in {"form", "json"}
    /\ ctEntry.draft = CtNone \/ ctEntry.draft \in CtDrafts
    /\ ctConfirm.type \in {"none", "pause", "reset", "delete"} /\ ctConfirm.name \in CtNames \cup {""}
    /\ ctCall.state \in {"none", "sent", "done", "failed"} /\ ctCall.listed \subseteq CtFields
    /\ ctAct.type \in {"none", "pause", "resume", "reset", "unpin", "delete"}
    /\ ctAct.state \in {"none", "sent", "done", "failed"}
    /\ ctOthers \in 0 .. CtMaxOthers /\ ctPresses \in 0 .. CtMaxPresses

\* An update reaches the consumer its draft was made from, and takes nothing
\* another client set: filters and priority change only when the review that
\* was confirmed lists them, the fields every update carries only when it lists
\* them or the consumer changed after it was last read.
CtReviewedStep ==
    ctCall.state = "sent" /\ ctCall.type = "update" /\ ctCall'.state = "done" =>
        LET before == ctConsumers[ctCall.name] after == ctConsumers'[ctCall.name] IN
        /\ ctCall.draft.of = ctCall.name
        /\ \A f \in CtDiffer(before, after) :
              f \in ctCall.listed \/ (f = "limit" /\ before.limit # ctCall.shown.limit)
=============================================================================
