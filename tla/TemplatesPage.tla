---------------------------- MODULE TemplatesPage ----------------------------
(***************************************************************************)
(* The templates page of the settings (settings/page/TemplatesPage.tsx):   *)
(* the list and its selection, the dialog that creates, edits and          *)
(* duplicates, deletion of one, of several and of all, import, and the     *)
(* upload of the templates earlier versions kept in the browser            *)
(* (contexts/templates/hooks.ts).                                          *)
(*                                                                         *)
(* The list is a cached answer: it follows the server when it is fetched   *)
(* again, some time after a change.                                        *)
(***************************************************************************)
EXTENDS Naturals, FiniteSets

CONSTANTS
    TpIds,        \* template ids the server can give
    TpMaxPresses  \* bound on the user's steps

ASSUME TpAssumption == TpIds \subseteq Nat \ {0} /\ TpMaxPresses \in Nat

VARIABLES
    tpServer,    \* the stored templates, by id
    tpUsed,      \* ids given so far
    tpList,      \* templates, the cached list
    tpLoaded,    \* templatesLoaded
    tpLink,      \* the edit or create parameter of the address
    tpSelected,  \* selected
    tpQuery,     \* the templates the search matches, by id
    tpModal,     \* modal and what was typed into it
    tpSaving,    \* the create or update call under way
    tpConfirm,   \* pendingDelete
    tpBulk,      \* the deletions under way
    tpImport,    \* text of the import dialog, or that it is closed
    tpReading,   \* the file being read for an import
    tpLegacy,    \* the browser's storage: its old list and whether it was taken over
    tpPresses

tpStore == <<tpServer, tpUsed, tpLegacy>>
tpPage == <<tpLoaded, tpLink, tpSelected, tpQuery>>
tpDialogs == <<tpModal, tpSaving, tpConfirm, tpBulk, tpImport, tpReading>>
tpVars == <<tpStore, tpList, tpPage, tpDialogs, tpPresses>>

TpValues == [data : {"old", "new"}, headers : {"none", "some"}]
TpFirst == [data |-> "old", headers |-> "some"]
TpClosed == [kind |-> "closed", id |-> 0, form |-> TpFirst, valid |-> FALSE]
TpNoSave == [kind |-> "none", id |-> 0, values |-> TpFirst]
TpNoConfirm == [kind |-> "none", ids |-> {}]
TpNoBulk == [left |-> {}, asked |-> {}, failed |-> {}, kind |-> "none"]
TpPut(id, v) == [i \in DOMAIN tpServer \cup {id} |-> IF i = id THEN v ELSE tpServer[i]]
TpCreate(v) == \E id \in TpIds \ tpUsed : tpServer' = TpPut(id, v) /\ tpUsed' = tpUsed \cup {id}
TpDrop(ids) == [i \in DOMAIN tpServer \ ids |-> tpServer[i]]

\* buildExport and parseImport: all of a document or nothing of it.
TpClosedDoc == [version |-> 0, entries |-> {"closed"}]
TpNoDoc == [version |-> 0, entries |-> {}]
TpBuildExport == [version |-> 1, entries |-> {"template"}]
TpDocs == {TpBuildExport, [version |-> 1, entries |-> {"template", "nameless"}], [version |-> 2, entries |-> {"template"}]}
TpParse(doc) == doc.version = 1 /\ "nameless" \notin doc.entries

\* filtered: the listed templates the search matches.
TpFiltered == DOMAIN tpList \cap tpQuery

TpInit ==
    /\ tpServer = [i \in {1, 2} \cap TpIds |-> TpFirst] /\ tpUsed = {1, 2} \cap TpIds
    /\ tpList = <<>> /\ tpLoaded = FALSE /\ tpLink \in {"none", "create", "edit"}
    /\ tpSelected = {} /\ tpQuery = TpIds /\ tpModal = TpClosed /\ tpSaving = TpNoSave
    /\ tpConfirm = TpNoConfirm /\ tpBulk = TpNoBulk /\ tpImport = TpClosedDoc /\ tpReading = TpNoDoc
    /\ tpLegacy \in [list : {"none", "bad", "some"}, flag : BOOLEAN] /\ tpPresses = 0

TpUse == tpPresses < TpMaxPresses /\ tpPresses' = tpPresses + 1

\* The answer to a new fetch of the list; an edit link that waited for the
\* list is opened.
TpFetched ==
    /\ (tpList # tpServer \/ ~tpLoaded) /\ tpList' = tpServer /\ tpLoaded' = TRUE
    /\ tpModal' = IF tpLink = "edit" /\ 1 \in DOMAIN tpServer
                  THEN [kind |-> "edit", id |-> 1, form |-> tpServer[1], valid |-> TRUE]
                  ELSE tpModal
    /\ tpLink' = IF tpLink = "edit" THEN "none" ELSE tpLink
    /\ UNCHANGED <<tpStore, tpSelected, tpQuery, tpSaving, tpConfirm, tpBulk, tpImport, tpReading, tpPresses>>

TpOpenCreateLink ==
    /\ tpLink = "create" /\ tpLink' = "none"
    /\ tpModal' = [TpClosed EXCEPT !.kind = "create"]
    /\ UNCHANGED <<tpStore, tpList, tpLoaded, tpSelected, tpQuery, tpSaving, tpConfirm, tpBulk, tpImport, tpReading, tpPresses>>

\* Once per browser; an upload that failed is tried again on the next load.
TpMigrate ==
    /\ ~tpLegacy.flag /\ tpLegacy' = [list |-> IF tpLegacy.list = "some" THEN "none" ELSE tpLegacy.list, flag |-> TRUE]
    /\ IF tpLegacy.list = "some" THEN TpCreate(TpFirst) ELSE UNCHANGED <<tpServer, tpUsed>>
    /\ UNCHANGED <<tpList, tpPage, tpDialogs, tpPresses>>

---------------------------------------------------------------------------
\* What the page offers: nothing behind a dialog, the list once it is loaded.
TpOffers ==
    IF tpModal.kind # "closed" \/ tpConfirm.kind # "none" \/ tpImport # TpClosedDoc THEN {}
    ELSE {"create", "import"}
         \cup (IF DOMAIN tpList # {} THEN {"search", "rows"} ELSE {})
         \cup (IF tpSelected # {} THEN {"deleteSelected"} ELSE {})
         \cup (IF DOMAIN tpList # {} /\ tpSelected = {} THEN {"clearAll"} ELSE {})

TpSearch(ids) ==
    /\ TpUse /\ "search" \in TpOffers /\ ids # tpQuery /\ tpQuery' = ids
    /\ UNCHANGED <<tpStore, tpList, tpLoaded, tpLink, tpSelected, tpDialogs>>

TpToggleOne(id) ==
    /\ TpUse /\ "rows" \in TpOffers /\ id \in TpFiltered
    /\ tpSelected' = IF id \in tpSelected THEN tpSelected \ {id} ELSE tpSelected \cup {id}
    /\ UNCHANGED <<tpStore, tpList, tpLoaded, tpLink, tpQuery, tpDialogs>>

\* All that match, or none when they are all selected: either way what the
\* search hides is no longer selected.
TpToggleAll ==
    /\ TpUse /\ "rows" \in TpOffers /\ TpFiltered # {}
    /\ tpSelected' = IF TpFiltered \subseteq tpSelected THEN {} ELSE TpFiltered
    /\ UNCHANGED <<tpStore, tpList, tpLoaded, tpLink, tpQuery, tpDialogs>>

TpOpenModal(kind, id) ==
    /\ TpUse
    /\ CASE kind = "create" -> "create" \in TpOffers /\ id = 0
         [] OTHER -> "rows" \in TpOffers /\ id \in TpFiltered
    /\ tpModal' = [kind |-> kind, id |-> IF kind = "edit" THEN id ELSE 0,
                   form |-> IF id = 0 THEN TpFirst ELSE tpList[id], valid |-> id # 0]
    /\ UNCHANGED <<tpStore, tpList, tpPage, tpSaving, tpConfirm, tpBulk, tpImport, tpReading>>

\* valid: there is a name and the payload parses.
TpType(form, valid) ==
    /\ TpUse /\ tpModal.kind # "closed" /\ <<form, valid>> # <<tpModal.form, tpModal.valid>>
    /\ tpModal' = [tpModal EXCEPT !.form = form, !.valid = valid]
    /\ UNCHANGED <<tpStore, tpList, tpPage, tpSaving, tpConfirm, tpBulk, tpImport, tpReading>>

\* Also while the save is under way.
TpCloseModal ==
    /\ TpUse /\ tpModal.kind # "closed" /\ tpModal' = TpClosed
    /\ UNCHANGED <<tpStore, tpList, tpPage, tpSaving, tpConfirm, tpBulk, tpImport, tpReading>>

TpModalOffers == IF tpModal.kind # "closed" /\ tpModal.valid /\ tpSaving = TpNoSave THEN {"save"} ELSE {}

TpSave ==
    /\ TpUse /\ "save" \in TpModalOffers
    /\ tpSaving' = [kind |-> IF tpModal.kind = "edit" THEN "edit" ELSE "create", id |-> tpModal.id, values |-> tpModal.form]
    /\ UNCHANGED <<tpStore, tpList, tpPage, tpModal, tpConfirm, tpBulk, tpImport, tpReading>>

\* A patch without headers leaves them as they are.
TpPatched(old, v) == [data |-> v.data, headers |-> IF v.headers = "none" THEN old.headers ELSE v.headers]

\* Success closes the dialog that is open by then.
TpSaved(ok) ==
    /\ tpSaving # TpNoSave /\ tpSaving' = TpNoSave
    /\ IF ~ok THEN UNCHANGED <<tpServer, tpUsed, tpModal>>
       ELSE /\ tpModal' = TpClosed
            /\ IF tpSaving.kind = "edit"
               THEN /\ tpSaving.id \in DOMAIN tpServer /\ UNCHANGED tpUsed
                    /\ tpServer' = TpPut(tpSaving.id, TpPatched(tpServer[tpSaving.id], tpSaving.values))
               ELSE TpCreate(tpSaving.values)
    /\ UNCHANGED <<tpLegacy, tpList, tpPage, tpConfirm, tpBulk, tpImport, tpReading, tpPresses>>

---------------------------------------------------------------------------
\* The dialog names what it will delete as of now.
TpAsk(kind, ids) ==
    /\ TpUse
    /\ CASE kind = "one" -> "rows" \in TpOffers /\ ids \in {{i} : i \in TpFiltered}
         [] kind = "bulk" -> "deleteSelected" \in TpOffers /\ ids = tpSelected
         [] OTHER -> "clearAll" \in TpOffers /\ ids = DOMAIN tpList
    /\ tpConfirm' = [kind |-> kind, ids |-> ids]
    /\ UNCHANGED <<tpStore, tpList, tpPage, tpModal, tpSaving, tpBulk, tpImport, tpReading>>

\* Escape and the backdrop close the dialog while the deletions run, too.
TpCancel ==
    /\ TpUse /\ tpConfirm.kind # "none" /\ tpConfirm' = TpNoConfirm
    /\ UNCHANGED <<tpStore, tpList, tpPage, tpModal, tpSaving, tpBulk, tpImport, tpReading>>

\* Several go one call each and the dialog stays until all have answered.
TpConfirmDelete ==
    /\ TpUse /\ tpConfirm.kind # "none" /\ tpBulk.kind = "none"
    /\ tpBulk' = [left |-> tpConfirm.ids, asked |-> tpConfirm.ids, failed |-> {}, kind |-> tpConfirm.kind]
    /\ tpConfirm' = IF tpConfirm.kind = "bulk" THEN tpConfirm ELSE TpNoConfirm
    /\ UNCHANGED <<tpStore, tpList, tpPage, tpModal, tpSaving, tpImport, tpReading>>

\* What becomes of a call: an answer that is lost counts as a failure.
TpOutcomes == {"done", "refused", "lost"}

\* Mutant: what failed is no longer selected.
TpForget(failed) == {}

\* setSelected(new Set(failedIds)): what is left selected after a bulk deletion.
TpReselect(failed) == failed

TpDeleted(id, how) ==
    LET failed == IF how = "done" THEN tpBulk.failed ELSE tpBulk.failed \cup {id}
        left == tpBulk.left \ {id}
    IN  /\ id \in tpBulk.left /\ tpBulk.kind # "all"
        /\ tpServer' = IF how = "refused" THEN tpServer ELSE TpDrop({id})
        /\ tpBulk' = IF left = {} THEN TpNoBulk ELSE [tpBulk EXCEPT !.left = left, !.failed = failed]
        /\ CASE tpBulk.kind = "one" -> /\ tpSelected' = tpSelected \ ({id} \ failed)
                                       /\ UNCHANGED tpConfirm
             [] tpBulk.kind = "bulk" /\ left = {} -> tpSelected' = TpReselect(failed) /\ tpConfirm' = TpNoConfirm
             [] OTHER -> UNCHANGED <<tpSelected, tpConfirm>>
        /\ UNCHANGED <<tpUsed, tpLegacy, tpList, tpLoaded, tpLink, tpQuery, tpModal, tpSaving, tpImport, tpReading, tpPresses>>

\* All that the server has, listed or not.
TpCleared(how) ==
    /\ tpBulk.kind = "all" /\ tpBulk' = TpNoBulk
    /\ tpServer' = (IF how = "refused" THEN tpServer ELSE <<>>)
    /\ tpSelected' = (IF how = "done" THEN {} ELSE tpSelected)
    /\ UNCHANGED <<tpUsed, tpLegacy, tpList, tpLoaded, tpLink, tpQuery, tpModal, tpSaving, tpConfirm, tpImport, tpReading, tpPresses>>

TpOpenImport ==
    /\ TpUse /\ "import" \in TpOffers /\ tpImport' = TpNoDoc
    /\ UNCHANGED <<tpStore, tpList, tpPage, tpModal, tpSaving, tpConfirm, tpBulk, tpReading>>

\* A file that is being read goes on being read.
TpCloseImport ==
    /\ TpUse /\ tpImport # TpClosedDoc /\ tpImport' = TpClosedDoc
    /\ UNCHANGED <<tpStore, tpList, tpPage, tpModal, tpSaving, tpConfirm, tpBulk, tpReading>>

TpPaste(doc) ==
    /\ TpUse /\ tpImport # TpClosedDoc /\ tpImport # doc /\ tpImport' = doc
    /\ UNCHANGED <<tpStore, tpList, tpPage, tpModal, tpSaving, tpConfirm, tpBulk, tpReading>>

\* Refused: the dialog stays. Accepted: it closes, and the call may yet fail.
TpTakeImport(doc, ok) ==
    /\ tpImport' = IF TpParse(doc) THEN TpClosedDoc ELSE tpImport
    /\ IF TpParse(doc) /\ ok THEN TpCreate(TpFirst) ELSE UNCHANGED <<tpServer, tpUsed>>
    /\ UNCHANGED <<tpLegacy, tpList, tpPage, tpModal, tpSaving, tpConfirm, tpBulk>>

TpSubmitImport(ok) ==
    /\ TpUse /\ tpImport \notin {TpClosedDoc, TpNoDoc} /\ UNCHANGED tpReading /\ TpTakeImport(tpImport, ok)

TpPickFile(doc) ==
    /\ TpUse /\ tpImport # TpClosedDoc /\ tpReading = TpNoDoc /\ tpReading' = doc
    /\ UNCHANGED <<tpStore, tpList, tpPage, tpModal, tpSaving, tpConfirm, tpBulk, tpImport>>

\* The dialog may have been closed since.
TpFileRead(ok) ==
    /\ tpReading # TpNoDoc /\ tpReading' = TpNoDoc /\ UNCHANGED tpPresses /\ TpTakeImport(tpReading, ok)

TpNext ==
    \/ TpFetched \/ TpMigrate \/ TpOpenCreateLink \/ TpToggleAll \/ TpCloseModal \/ TpSave \/ TpCancel \/ TpConfirmDelete \/ TpOpenImport
    \/ \E ok \in BOOLEAN : TpSaved(ok) \/ TpSubmitImport(ok)
    \/ \E how \in TpOutcomes : TpCleared(how) \/ \E id \in TpIds : TpDeleted(id, how)
    \/ \E ids \in {TpIds, {1}} : TpSearch(ids)
    \/ \E id \in TpIds : TpToggleOne(id)
    \/ \E kind \in {"create", "edit", "duplicate"}, id \in TpIds \cup {0} : TpOpenModal(kind, id)
    \/ \E form \in TpValues, valid \in BOOLEAN : TpType(form, valid)
    \/ \E kind \in {"one", "bulk", "all"}, ids \in SUBSET TpIds : TpAsk(kind, ids)
    \/ TpCloseImport \/ \E ok \in BOOLEAN : TpFileRead(ok)
    \/ \E doc \in TpDocs : TpPaste(doc) \/ TpPickFile(doc)

TpSpec == TpInit /\ [][TpNext]_tpVars

---------------------------------------------------------------------------
TpTypeOK ==
    /\ DOMAIN tpServer \subseteq tpUsed /\ tpUsed \subseteq TpIds /\ tpSelected \subseteq TpIds
    /\ tpModal.kind \in {"closed", "create", "edit", "duplicate"}
    /\ tpBulk.failed \subseteq tpBulk.asked /\ tpBulk.left \cap tpBulk.failed = {}

\* The end of a deletion of several leaves selected all that it was asked to
\* delete and did not, and nothing it was not asked to: pressing Delete again
\* deletes the rest.
TpRetryStep ==
    (tpBulk.kind = "bulk" /\ tpBulk'.kind = "none")
        => tpSelected' \subseteq tpBulk.asked /\ tpBulk.asked \cap DOMAIN tpServer' \subseteq tpSelected'
=============================================================================
