----------------------------- MODULE PagesProofs -----------------------------
(***************************************************************************)
(* What the pages that ask and change keep, each by itself and for every   *)
(* value of its constants: that an answer is shown beside what was asked,  *)
(* that a save replaces what was read, and that every state has its type.  *)
(***************************************************************************)
EXTENDS TemplatesPage, KVPage, StreamConfig, ConsumersTab, ConnectionEdit, ConnectionSession,
        PublishPage, RequestReply, ObjectStore, ProtoSources,
        FiniteSetTheorems, TLAPS

---------------------------------------------------------------------------
(*************************************************************************)
(* The templates page: a bulk deletion keeps selected what it could not delete.*)
(*************************************************************************)

TpKinds == {"none", "one", "bulk", "all"}

\* Everything the page knows of was given an id, and no id is given twice.
TpKnown ==
    /\ DOMAIN tpServer \subseteq tpUsed /\ DOMAIN tpList \subseteq tpUsed
    /\ tpSelected \subseteq tpUsed /\ tpConfirm.ids \subseteq tpUsed /\ tpUsed \subseteq TpIds
    /\ tpConfirm.kind \in TpKinds

\* What was asked to be deleted is left to do, failed or gone.
TpBulkInv ==
    /\ tpBulk \in [left : SUBSET TpIds, asked : SUBSET TpIds, failed : SUBSET TpIds, kind : TpKinds]
    /\ tpBulk.left \subseteq tpBulk.asked /\ tpBulk.failed \subseteq tpBulk.asked /\ tpBulk.asked \subseteq tpUsed
    /\ tpBulk.asked \cap DOMAIN tpServer \subseteq tpBulk.left \cup tpBulk.failed

TpInv == TpKnown /\ TpBulkInv

LEMMA TpCreates ==
    ASSUME NEW v, TpKnown, TpCreate(v)
    PROVE  /\ DOMAIN tpServer' \subseteq tpUsed' /\ tpUsed \subseteq tpUsed' /\ tpUsed' \subseteq TpIds
           /\ DOMAIN tpServer' \cap tpUsed \subseteq DOMAIN tpServer
BY DEF TpCreate, TpPut, TpKnown

\* What is stored has an id, and an id that was given once is not given again.
LEMMA TpStoreDoes ==
    ASSUME TpKnown, [TpNext]_tpVars
    PROVE  /\ DOMAIN tpServer' \subseteq tpUsed' /\ tpUsed \subseteq tpUsed' /\ tpUsed' \subseteq TpIds
           /\ DOMAIN tpServer' \cap tpUsed \subseteq DOMAIN tpServer
<1>1. CASE UNCHANGED <<tpServer, tpUsed>>
  BY <1>1 DEF TpKnown
<1>2. CASE TpMigrate
  BY <1>1, <1>2, TpCreates DEF TpMigrate
<1>3. ASSUME NEW ok \in BOOLEAN, TpSaved(ok)
      PROVE  /\ DOMAIN tpServer' \subseteq tpUsed' /\ tpUsed \subseteq tpUsed' /\ tpUsed' \subseteq TpIds
             /\ DOMAIN tpServer' \cap tpUsed \subseteq DOMAIN tpServer
  <2>1. CASE ~ok
    BY <1>1, <1>3, <2>1 DEF TpSaved
  <2>2. CASE ok /\ tpSaving.kind = "edit"
    BY <1>3, <2>2 DEF TpSaved, TpPut, TpKnown
  <2>3. CASE ok /\ tpSaving.kind # "edit"
    BY <1>3, <2>3, TpCreates DEF TpSaved
  <2> QED BY <2>1, <2>2, <2>3
<1>4. ASSUME NEW how \in TpOutcomes, TpCleared(how) \/ \E id \in TpIds : TpDeleted(id, how)
      PROVE  /\ DOMAIN tpServer' \subseteq tpUsed' /\ tpUsed \subseteq tpUsed' /\ tpUsed' \subseteq TpIds
             /\ DOMAIN tpServer' \cap tpUsed \subseteq DOMAIN tpServer
  <2>1. DOMAIN <<>> = {}
    OBVIOUS
  <2>2. tpUsed' = tpUsed /\ DOMAIN tpServer' \subseteq DOMAIN tpServer
    BY <1>4, <2>1 DEF TpCleared, TpDeleted, TpDrop
  <2> QED BY <2>2 DEF TpKnown
<1>5. ASSUME NEW ok \in BOOLEAN, TpSubmitImport(ok) \/ TpFileRead(ok)
      PROVE  /\ DOMAIN tpServer' \subseteq tpUsed' /\ tpUsed \subseteq tpUsed' /\ tpUsed' \subseteq TpIds
             /\ DOMAIN tpServer' \cap tpUsed \subseteq DOMAIN tpServer
  BY <1>1, <1>5, TpCreates DEF TpSubmitImport, TpFileRead, TpTakeImport
<1>6. ASSUME ~TpMigrate, ~ \E ok \in BOOLEAN : TpSaved(ok) \/ TpSubmitImport(ok) \/ TpFileRead(ok),
             ~ \E how \in TpOutcomes : TpCleared(how) \/ \E id \in TpIds : TpDeleted(id, how)
      PROVE  UNCHANGED <<tpServer, tpUsed>>
  BY <1>6 DEF TpNext, tpVars, tpStore, TpFetched, TpOpenCreateLink, TpToggleAll, TpCloseModal, TpSave, TpCancel,
       TpConfirmDelete, TpOpenImport, TpSearch, TpToggleOne, TpOpenModal, TpType, TpAsk, TpCloseImport,
       TpPaste, TpPickFile
<1> QED BY <1>1, <1>2, <1>3, <1>4, <1>5, <1>6

\* Deletions and their answers.
LEMMA TpBulkDoes ==
    ASSUME [TpNext]_tpVars
    PROVE  \/ tpBulk' = tpBulk
           \/ TpConfirmDelete
           \/ \E how \in TpOutcomes : TpCleared(how) \/ \E id \in TpIds : TpDeleted(id, how)
BY DEF TpNext, tpVars, tpDialogs, TpMigrate, TpSaved, TpSubmitImport, TpFileRead, TpTakeImport, TpFetched,
       TpOpenCreateLink, TpToggleAll, TpCloseModal, TpSave, TpCancel,
       TpOpenImport, TpSearch, TpToggleOne, TpOpenModal, TpType, TpAsk, TpCloseImport, TpPaste, TpPickFile

\* What an answer to one deletion changes.
LEMMA TpDeletedDoes ==
    ASSUME TpBulkInv, NEW how \in TpOutcomes, NEW id \in TpIds, TpDeleted(id, how)
    PROVE  LET left == tpBulk.left \ {id}
               failed == IF how = "done" THEN tpBulk.failed ELSE tpBulk.failed \cup {id}
           IN  /\ id \in tpBulk.left /\ tpUsed' = tpUsed /\ tpList' = tpList
               /\ DOMAIN tpServer' \subseteq DOMAIN tpServer /\ (how = "done" => id \notin DOMAIN tpServer')
               /\ left = {} => tpBulk' = TpNoBulk
               /\ left # {} => /\ tpBulk'.left = left /\ tpBulk'.asked = tpBulk.asked
                               /\ tpBulk'.failed = failed /\ tpBulk'.kind = tpBulk.kind
                               /\ tpBulk' \in [left : SUBSET TpIds, asked : SUBSET TpIds,
                                               failed : SUBSET TpIds, kind : TpKinds]
               /\ tpBulk.kind = "bulk" /\ left = {} => tpSelected' = failed
               /\ tpSelected' \subseteq tpSelected \cup failed
               /\ tpConfirm' \in {tpConfirm, TpNoConfirm}
<1> DEFINE failed == IF how = "done" THEN tpBulk.failed ELSE tpBulk.failed \cup {id}
           left == tpBulk.left \ {id}
<1>1. /\ id \in tpBulk.left /\ tpUsed' = tpUsed /\ tpList' = tpList
      /\ tpServer' = IF how = "refused" THEN tpServer ELSE TpDrop({id})
      /\ tpBulk' = IF left = {} THEN TpNoBulk ELSE [tpBulk EXCEPT !.left = left, !.failed = failed]
  BY DEF TpDeleted
<1>2. DOMAIN tpServer' \subseteq DOMAIN tpServer /\ (how = "done" => id \notin DOMAIN tpServer')
  BY <1>1 DEF TpDrop
<1>3. ASSUME left # {}
      PROVE  /\ tpBulk'.left = left /\ tpBulk'.asked = tpBulk.asked
             /\ tpBulk'.failed = failed /\ tpBulk'.kind = tpBulk.kind
             /\ tpBulk' \in [left : SUBSET TpIds, asked : SUBSET TpIds, failed : SUBSET TpIds, kind : TpKinds]
  <2>1. left \in SUBSET TpIds /\ failed \in SUBSET TpIds
    BY DEF TpBulkInv
  <2>2. tpBulk' = [tpBulk EXCEPT !.left = left, !.failed = failed]
    BY <1>1, <1>3
  <2> HIDE DEF left, failed
  <2> QED BY <2>1, <2>2 DEF TpBulkInv
<1>4. \/ tpBulk.kind = "one" /\ tpSelected' = tpSelected \ ({id} \ failed) /\ tpConfirm' = tpConfirm
      \/ tpBulk.kind = "bulk" /\ left = {} /\ tpSelected' = failed /\ tpConfirm' = TpNoConfirm
      \/ ~ (tpBulk.kind = "bulk" /\ left = {}) /\ tpSelected' = tpSelected /\ tpConfirm' = tpConfirm
  BY DEF TpDeleted, TpReselect
<1>5. "one" # "bulk"
  OBVIOUS
<1> QED BY <1>1, <1>2, <1>3, <1>4, <1>5

LEMMA TpBulkStep == TpInv /\ [TpNext]_tpVars => TpBulkInv'
<1> SUFFICES ASSUME TpInv, [TpNext]_tpVars PROVE TpBulkInv'
  OBVIOUS
<1>0. TpKnown /\ TpBulkInv
  BY DEF TpInv
<1>1. /\ tpUsed \subseteq tpUsed' /\ DOMAIN tpServer' \cap tpUsed \subseteq DOMAIN tpServer
  BY <1>0, TpStoreDoes
<1>2. CASE tpBulk' = tpBulk
  BY <1>0, <1>1, <1>2 DEF TpBulkInv
<1>3. CASE TpConfirmDelete
  <2>1. tpBulk' = [left |-> tpConfirm.ids, asked |-> tpConfirm.ids, failed |-> {}, kind |-> tpConfirm.kind]
    BY <1>3 DEF TpConfirmDelete
  <2>2. tpConfirm.ids \in SUBSET TpIds /\ tpConfirm.ids \subseteq tpUsed /\ tpConfirm.kind \in TpKinds
    BY <1>0 DEF TpKnown
  <2> QED BY <1>0, <1>1, <2>1, <2>2 DEF TpBulkInv
<1>4. ASSUME tpBulk' = TpNoBulk
      PROVE  TpBulkInv'
  BY <1>4 DEF TpBulkInv, TpNoBulk, TpKinds
<1>5. ASSUME NEW how \in TpOutcomes, NEW id \in TpIds, TpDeleted(id, how)
      PROVE  TpBulkInv'
  <2> DEFINE failed == IF how = "done" THEN tpBulk.failed ELSE tpBulk.failed \cup {id}
             left == tpBulk.left \ {id}
  <2>1. CASE left # {}
    <3>1. /\ tpBulk'.left = left /\ tpBulk'.asked = tpBulk.asked /\ tpBulk'.failed = failed
          /\ tpBulk' \in [left : SUBSET TpIds, asked : SUBSET TpIds, failed : SUBSET TpIds, kind : TpKinds]
      BY <1>0, <1>5, <2>1, TpDeletedDoes
    <3>2. tpUsed' = tpUsed /\ id \in tpBulk.left /\ DOMAIN tpServer' \subseteq DOMAIN tpServer
          /\ (how = "done" => id \notin DOMAIN tpServer')
      BY <1>0, <1>5, TpDeletedDoes
    <3>3. left \subseteq tpBulk.asked /\ failed \subseteq tpBulk.asked /\ tpBulk.asked \subseteq tpUsed
      BY <1>0, <3>2 DEF TpBulkInv
    <3>4. tpBulk.asked \cap DOMAIN tpServer' \subseteq left \cup failed
      BY <1>0, <3>2 DEF TpBulkInv
    <3> HIDE DEF left, failed
    <3> QED BY <3>1, <3>2, <3>3, <3>4 DEF TpBulkInv
  <2>2. CASE left = {}
    BY <1>0, <1>4, <1>5, <2>2, TpDeletedDoes
  <2> QED BY <2>1, <2>2
<1>6. ASSUME NEW how \in TpOutcomes, TpCleared(how)
      PROVE  TpBulkInv'
  BY <1>4, <1>6 DEF TpCleared
<1> QED BY <1>2, <1>3, <1>5, <1>6, TpBulkDoes

\* What may be selected, and what a dialog may ask for.
LEMMA TpPicks ==
    ASSUME [TpNext]_tpVars
    PROVE  /\ tpList' = tpList \/ (tpList' = tpServer /\ tpServer' = tpServer)
           /\ \/ \E id \in TpIds, how \in TpOutcomes : TpDeleted(id, how)
              \/ tpSelected' \subseteq tpSelected \cup DOMAIN tpList
           /\ \/ \E id \in TpIds, how \in TpOutcomes : TpDeleted(id, how)
              \/ /\ tpConfirm'.ids \subseteq tpConfirm.ids \cup tpSelected \cup DOMAIN tpList
                 /\ tpConfirm'.kind \in {tpConfirm.kind} \cup TpKinds
<1>1. CASE \E id \in TpIds, how \in TpOutcomes : TpDeleted(id, how)
  BY <1>1 DEF TpDeleted
<1>2. CASE UNCHANGED <<tpList, tpSelected, tpConfirm>>
  BY <1>2
<1>3. CASE TpFetched
  BY <1>3 DEF TpFetched, tpStore
<1>4. CASE TpToggleAll \/ \E id \in TpIds : TpToggleOne(id)
  BY <1>4 DEF TpToggleAll, TpToggleOne, TpFiltered, tpDialogs
<1>5. ASSUME TpCancel \/ TpConfirmDelete \/ \E how \in TpOutcomes : TpCleared(how)
      PROVE  /\ tpList' = tpList /\ tpSelected' \subseteq tpSelected
             /\ tpConfirm' \in {tpConfirm, TpNoConfirm}
  BY <1>5 DEF TpCancel, TpConfirmDelete, TpCleared, tpPage
<1>6. ASSUME NEW kind \in {"one", "bulk", "all"}, NEW ids \in SUBSET TpIds, TpAsk(kind, ids)
      PROVE  /\ tpList' = tpList /\ tpSelected' = tpSelected
             /\ tpConfirm'.ids \subseteq tpSelected \cup DOMAIN tpList /\ tpConfirm'.kind \in TpKinds
  <2>1. tpConfirm' = [kind |-> kind, ids |-> ids] /\ tpList' = tpList /\ tpSelected' = tpSelected
    BY <1>6 DEF TpAsk, tpPage
  <2>2. \/ ids \in {{i} : i \in TpFiltered} \/ ids = tpSelected \/ ids = DOMAIN tpList
    BY <1>6 DEF TpAsk
  <2>3. ids \subseteq tpSelected \cup DOMAIN tpList
    BY <2>2 DEF TpFiltered
  <2> QED BY <2>1, <2>3 DEF TpKinds
<1>7. ASSUME ~ \E id \in TpIds, how \in TpOutcomes : TpDeleted(id, how), ~TpFetched, ~TpToggleAll,
             ~ \E id \in TpIds : TpToggleOne(id), ~TpCancel, ~TpConfirmDelete, ~ \E how \in TpOutcomes : TpCleared(how),
             ~ \E kind \in {"one", "bulk", "all"}, ids \in SUBSET TpIds : TpAsk(kind, ids)
      PROVE  UNCHANGED <<tpList, tpSelected, tpConfirm>>
  BY <1>7 DEF TpNext, tpVars, tpPage, tpDialogs, TpMigrate, TpSaved, TpSubmitImport, TpFileRead, TpTakeImport,
       TpOpenCreateLink, TpCloseModal, TpSave, TpOpenImport, TpSearch, TpOpenModal, TpType, TpCloseImport,
       TpPaste, TpPickFile
<1>8. TpNoConfirm.ids = {} /\ TpNoConfirm.kind \in TpKinds
  BY DEF TpNoConfirm, TpKinds
<1> QED BY <1>1, <1>2, <1>3, <1>4, <1>5, <1>6, <1>7, <1>8

LEMMA TpKnownStep == TpInv /\ [TpNext]_tpVars => TpKnown'
<1> SUFFICES ASSUME TpInv, [TpNext]_tpVars PROVE TpKnown'
  OBVIOUS
<1>0. TpKnown /\ TpBulkInv
  BY DEF TpInv
<1>1. /\ DOMAIN tpServer' \subseteq tpUsed' /\ tpUsed \subseteq tpUsed' /\ tpUsed' \subseteq TpIds
  BY <1>0, TpStoreDoes
<1>2. ASSUME NEW id \in TpIds, NEW how \in TpOutcomes, TpDeleted(id, how)
      PROVE  TpKnown'
  <2>1. TpNoConfirm.ids = {} /\ TpNoConfirm.kind \in TpKinds
    BY DEF TpNoConfirm, TpKinds
  <2>2. /\ tpList' = tpList /\ id \in tpBulk.left /\ tpSelected' \subseteq tpSelected \cup tpBulk.failed \cup {id}
        /\ tpConfirm' \in {tpConfirm, TpNoConfirm}
    BY <1>0, <1>2, TpDeletedDoes
  <2>3. /\ tpSelected' \subseteq tpUsed /\ DOMAIN tpList' \subseteq tpUsed
        /\ tpConfirm'.ids \subseteq tpUsed /\ tpConfirm'.kind \in TpKinds
    BY <1>0, <2>1, <2>2 DEF TpKnown, TpBulkInv
  <2> QED BY <1>1, <2>3 DEF TpKnown
<1>3. ASSUME ~ \E id \in TpIds, how \in TpOutcomes : TpDeleted(id, how)
      PROVE  TpKnown'
  <2>1. DOMAIN tpList' \subseteq tpUsed'
    BY <1>0, <1>1, TpPicks DEF TpKnown
  <2>2. tpSelected' \subseteq tpUsed /\ tpConfirm'.ids \subseteq tpUsed /\ tpConfirm'.kind \in TpKinds
    BY <1>0, <1>3, TpPicks DEF TpKnown
  <2> QED BY <1>1, <2>1, <2>2 DEF TpKnown
<1> QED BY <1>2, <1>3

LEMMA TpInvariant == TpSpec => []TpInv
<1>1. TpInit => TpInv
  <2> SUFFICES ASSUME TpInit PROVE TpInv
    OBVIOUS
  <2>1. DOMAIN <<>> = {}
    OBVIOUS
  <2>2. TpKnown
    BY <2>1 DEF TpInit, TpKnown, TpNoConfirm, TpKinds
  <2>3. TpBulkInv
    BY DEF TpInit, TpBulkInv, TpNoBulk, TpKinds
  <2> QED BY <2>2, <2>3 DEF TpInv
<1>2. TpInv /\ [TpNext]_tpVars => TpInv'
  BY TpBulkStep, TpKnownStep DEF TpInv
<1> QED BY <1>1, <1>2, PTL DEF TpSpec

LEMMA TpRetryStepKept == TpInv /\ [TpNext]_tpVars => TpRetryStep
<1> SUFFICES ASSUME TpInv, [TpNext]_tpVars, tpBulk.kind = "bulk", tpBulk'.kind = "none"
             PROVE  tpSelected' \subseteq tpBulk.asked /\ tpBulk.asked \cap DOMAIN tpServer' \subseteq tpSelected'
  BY DEF TpRetryStep
<1>0. TpBulkInv
  BY DEF TpInv
<1>1. PICK how \in TpOutcomes, id \in TpIds : TpDeleted(id, how)
  <2>1. ~TpConfirmDelete /\ ~ \E how \in TpOutcomes : TpCleared(how)
    BY DEF TpConfirmDelete, TpCleared
  <2>2. tpBulk' # tpBulk
    OBVIOUS
  <2> QED BY <2>1, <2>2, TpBulkDoes
<1> DEFINE failed == IF how = "done" THEN tpBulk.failed ELSE tpBulk.failed \cup {id}
           left == tpBulk.left \ {id}
<1>2. left = {}
  <2> SUFFICES ASSUME left # {} PROVE FALSE
    OBVIOUS
  <2>1. tpBulk'.kind = "bulk"
    BY <1>0, <1>1, TpDeletedDoes
  <2> QED BY <2>1
<1>3. /\ tpSelected' = failed /\ id \in tpBulk.left
      /\ DOMAIN tpServer' \subseteq DOMAIN tpServer /\ (how = "done" => id \notin DOMAIN tpServer')
  BY <1>0, <1>1, <1>2, TpDeletedDoes
<1> QED BY <1>0, <1>2, <1>3 DEF TpBulkInv

\* What a bulk deletion could not delete stays selected, and nothing else does.
THEOREM FailedStaySelected == TpSpec => [][TpRetryStep]_tpVars
BY TpRetryStepKept, TpInvariant, PTL DEF TpSpec

\* What the dialog and the deletion may be.
TpStage ==
    /\ "kind" \in DOMAIN tpModal /\ tpModal.kind \in {"closed", "create", "edit", "duplicate"}
    /\ tpBulk.left \cap tpBulk.failed = {}

\* Every reachable state of the templates page has its type (TemplatesPage.tsx).
THEOREM TpTypeCorrect == TpSpec => []TpTypeOK
<1>1. TpInit => TpStage
  BY DEF TpInit, TpStage, TpClosed, TpNoBulk
<1>2. TpInv /\ TpStage /\ [TpNext]_tpVars => TpStage'
  <2> SUFFICES ASSUME TpInv, TpStage, [TpNext]_tpVars PROVE TpStage'
    OBVIOUS
  <2>1. "kind" \in DOMAIN tpModal' /\ tpModal'.kind \in {"closed", "create", "edit", "duplicate"}
    <3>1. CASE tpModal' = tpModal \/ tpModal' = TpClosed
      BY <3>1 DEF TpStage, TpClosed
    <3>2. CASE TpFetched
      BY <3>2 DEF TpFetched, TpStage
    <3>3. CASE TpOpenCreateLink
      BY <3>3 DEF TpOpenCreateLink, TpClosed
    <3>4. ASSUME NEW kind \in {"create", "edit", "duplicate"}, NEW id, TpOpenModal(kind, id)
          PROVE  "kind" \in DOMAIN tpModal' /\ tpModal'.kind \in {"closed", "create", "edit", "duplicate"}
      BY <3>4 DEF TpOpenModal
    <3>5. ASSUME NEW form, NEW valid, TpType(form, valid)
          PROVE  "kind" \in DOMAIN tpModal' /\ tpModal'.kind \in {"closed", "create", "edit", "duplicate"}
      <4>1. tpModal' = [tpModal EXCEPT !.form = form, !.valid = valid]
        BY <3>5 DEF TpType
      <4> QED BY <4>1 DEF TpStage
    <3> QED
      BY <3>1, <3>2, <3>3, <3>4, <3>5 DEF TpNext, tpVars, tpDialogs, TpMigrate, TpSaved, TpSubmitImport, TpFileRead,
         TpTakeImport, TpToggleAll, TpCloseModal, TpSave, TpCancel, TpConfirmDelete, TpCleared,
         TpDeleted, TpOpenImport, TpSearch, TpToggleOne, TpAsk, TpCloseImport, TpPaste, TpPickFile
  <2>2. tpBulk'.left \cap tpBulk'.failed = {}
    <3>1. CASE TpConfirmDelete \/ tpBulk' = tpBulk \/ tpBulk' = TpNoBulk
      BY <3>1 DEF TpConfirmDelete, TpNoBulk, TpStage
    <3>2. ASSUME NEW how \in TpOutcomes, NEW id \in TpIds, TpDeleted(id, how) PROVE tpBulk'.left \cap tpBulk'.failed = {}
      BY <3>1, <3>2, TpDeletedDoes DEF TpInv, TpStage
    <3>3. \A how : TpCleared(how) => tpBulk' = TpNoBulk
      BY DEF TpCleared
    <3> QED BY <3>1, <3>2, <3>3, TpBulkDoes
  <2> QED BY <2>1, <2>2 DEF TpStage
<1>3. TpInv /\ TpStage => TpTypeOK
  BY DEF TpStage, TpTypeOK, TpInv, TpKnown, TpBulkInv
<1> QED BY <1>1, <1>2, <1>3, TpInvariant, PTL DEF TpSpec

---------------------------------------------------------------------------
(*************************************************************************)
(* A bucket's page: what a save replaces is the revision the user read.  *)
(*************************************************************************)

\* A draft, and the save made of it, carry the revision that was on screen when
\* the draft was begun, and there was one.
KvInv ==
    /\ kvDraft.rev = kvDraft.began /\ (kvDraft.key # KvNone => kvDraft.rev # 0)
    /\ kvCall.what = "put" => kvCall.rev = kvCall.began /\ kvCall.rev # 0
    /\ kvConfirm.type # "put"

LEMMA KvDraftStep == KvInv /\ [KvNext]_kvVars => KvInv'
<1> SUFFICES ASSUME KvInv, [KvNext]_kvVars PROVE KvInv'
  OBVIOUS
<1>0. KvNoDraft.rev = KvNoDraft.began /\ KvNoDraft.key = KvNone /\ KvNoCall.what # "put"
      /\ KvNoConfirm.type # "put"
  BY DEF KvNoDraft, KvNoCall, KvNoConfirm
<1>1. CASE UNCHANGED <<kvDraft, kvCall, kvConfirm>>
  BY <1>1 DEF KvInv
<1>2. CASE KvEdit
  <2>1. PICK began : /\ kvDraft' = [key |-> kvSelected, rev |-> began, began |-> began]
                     /\ began = IF KvValueDirty THEN kvDraft.began ELSE kvEntry[kvSelected]
                     /\ kvEntry[kvSelected] # 0 /\ kvCall' = kvCall /\ kvConfirm' = kvConfirm
    BY <1>2 DEF KvEdit, KvDraftRevision
  <2>2. began # 0
    BY <2>1 DEF KvInv, KvValueDirty
  <2> QED BY <2>1, <2>2 DEF KvInv
<1>3. CASE KvSave
  <2>1. PICK rev, began :
          /\ kvCall' = [what |-> "put", key |-> kvSelected, from |-> kvSelected, answer |-> "none", rev |-> rev, began |-> began]
          /\ rev = IF KvValueDirty THEN kvDraft.rev ELSE kvEntry[kvSelected]
          /\ began = IF KvValueDirty THEN kvDraft.began ELSE kvEntry[kvSelected]
          /\ KvValueDirty \/ kvEntry[kvSelected] # 0
          /\ kvDraft' = kvDraft /\ kvConfirm' = kvConfirm
    BY <1>3 DEF KvSave, kvEditor
  <2>2. rev = began /\ rev # 0
    BY <2>1 DEF KvInv, KvValueDirty
  <2> QED BY <2>1, <2>2 DEF KvInv
<1>4. CASE KvReset \/ KvSaved \/ KvDone \/ KvRefused
  <2>1. /\ kvDraft' \in {kvDraft, KvNoDraft} /\ kvCall' \in {kvCall, KvNoCall}
        /\ kvConfirm' \in {kvConfirm, KvNoConfirm}
    BY <1>4 DEF KvReset, KvSaved, KvDone, KvRefused, kvEditor
  <2> QED BY <1>0, <2>1 DEF KvInv
<1>5. CASE KvCarryOut
  <2>1. kvCall' = [kvCall EXCEPT !.answer = "done"] /\ kvDraft' = kvDraft /\ kvConfirm' = kvConfirm
    BY <1>5 DEF KvCarryOut, kvEditor
  <2> QED BY <2>1 DEF KvInv
<1>6. CASE KvCreate
  <2>1. /\ kvCall' = [KvNoCall EXCEPT !.what = "create", !.key = kvNew.name]
        /\ kvDraft' = kvDraft /\ kvConfirm' = kvConfirm
    BY <1>6 DEF KvCreate, kvEditor
  <2>2. kvCall'.what = "create"
    BY <2>1 DEF KvNoCall
  <2> QED BY <2>1, <2>2 DEF KvInv
<1>7. CASE KvConfirmed
  <2>1. /\ kvCall' = [KvNoCall EXCEPT !.what = kvConfirm.type, !.key = kvConfirm.name, !.from = kvSelected]
        /\ kvDraft' = kvDraft /\ kvConfirm' = kvConfirm
    BY <1>7 DEF KvConfirmed, kvEditor
  <2>2. kvCall'.what = kvConfirm.type
    BY <2>1 DEF KvNoCall
  <2> QED BY <2>1, <2>2 DEF KvInv
<1>8. ASSUME NEW type \in {"delete-key", "purge-key", "delete-bucket", "clear-bucket"},
             NEW k \in KvKeys \cup {KvNone}, NEW ask \in BOOLEAN, KvRequest(type, k, ask)
      PROVE  KvInv'
  <2>1. kvDraft' = kvDraft /\ type # "put"
    BY <1>8 DEF KvRequest, kvEditor
  <2>2. CASE ask
    <3>1. kvConfirm' = [type |-> type, name |-> k, typed |-> FALSE] /\ kvCall' = kvCall
      BY <1>8, <2>2 DEF KvRequest
    <3> QED BY <2>1, <3>1 DEF KvInv
  <2>3. CASE ~ask
    <3>1. kvConfirm' = kvConfirm /\ kvCall' = [KvNoCall EXCEPT !.what = type, !.key = k, !.from = kvSelected]
      BY <1>8, <2>3 DEF KvRequest
    <3>2. kvCall'.what = type
      BY <3>1 DEF KvNoCall
    <3> QED BY <2>1, <3>1, <3>2 DEF KvInv
  <2> QED BY <2>2, <2>3
<1>9. CASE KvTypeConfirm \/ KvCancelConfirm
  <2>1. kvDraft' = kvDraft /\ kvCall' = kvCall
    BY <1>9 DEF KvTypeConfirm, KvCancelConfirm, kvEditor
  <2>2. PICK typed : kvConfirm' = KvNoConfirm \/ kvConfirm' = [kvConfirm EXCEPT !.typed = typed]
    BY <1>9 DEF KvTypeConfirm, KvCancelConfirm
  <2>3. CASE kvConfirm' = KvNoConfirm
    BY <1>0, <2>1, <2>3 DEF KvInv
  <2>4. CASE kvConfirm' = [kvConfirm EXCEPT !.typed = typed]
    BY <2>1, <2>4 DEF KvInv
  <2> QED BY <2>2, <2>3, <2>4
<1>10. ASSUME ~KvEdit, ~KvSave, ~KvReset, ~KvSaved, ~KvDone, ~KvRefused, ~KvCarryOut, ~KvCreate, ~KvConfirmed,
              ~ \E type \in {"delete-key", "purge-key", "delete-bucket", "clear-bucket"},
                   k \in KvKeys \cup {KvNone}, ask \in BOOLEAN : KvRequest(type, k, ask),
              ~KvTypeConfirm, ~KvCancelConfirm
       PROVE  UNCHANGED <<kvDraft, kvCall, kvConfirm>>
  BY <1>10 DEF KvNext, kvVars, kvEditor, KvSelect, KvOtherWrites, KvListFetched, KvEntryFetched, KvSearchFor,
       KvStartCreating, KvToggleRaw, KvShowHistory, KvCancelCreate, KvTypeNew
<1> QED BY <1>1, <1>2, <1>3, <1>4, <1>5, <1>6, <1>7, <1>8, <1>9, <1>10

LEMMA KvInvariant == KvSpec => []KvInv
<1>1. KvInit => KvInv
  BY DEF KvInit, KvInv, KvNoDraft, KvNoCall, KvNoConfirm
<1> QED BY <1>1, KvDraftStep, PTL DEF KvSpec

LEMMA KvSaveStepKept == KvInv /\ [KvNext]_kvVars => KvSaveStep
<1> SUFFICES ASSUME KvInv, [KvNext]_kvVars, kvCall.what = "put", kvCall.answer = "none", kvCall'.answer = "done"
             PROVE  kvStore[kvCall.key] = kvCall.began
  BY DEF KvSaveStep
<1>1. KvCarryOut
  <2>1. ASSUME NEW type, NEW k, NEW ask, KvRequest(type, k, ask) PROVE kvCall'.answer # "done"
    BY <2>1 DEF KvRequest, KvNoCall
  <2>2. KvNoCall.answer # "done"
    BY DEF KvNoCall
  <2>3. ~KvSave /\ ~KvCreate /\ ~KvConfirmed /\ ~KvSaved /\ ~KvDone /\ ~KvRefused
    BY <2>2 DEF KvSave, KvCreate, KvConfirmed, KvSaved, KvDone, KvRefused, KvNoCall
  <2> QED BY <2>1, <2>3 DEF KvNext, kvVars, kvEditor, KvSelect, KvOtherWrites, KvListFetched, KvEntryFetched,
        KvSearchFor, KvStartCreating, KvToggleRaw, KvShowHistory, KvCancelCreate, KvTypeNew, KvEdit, KvReset,
        KvTypeConfirm, KvCancelConfirm
<1>2. kvCall.rev = 0 \/ kvStore[kvCall.key] = kvCall.rev
  BY <1>1 DEF KvCarryOut, KvAccepts
<1> QED BY <1>2 DEF KvInv

\* A save replaces the revision that was on screen when the edit began, or it is
\* refused.
THEOREM SavesReplaceWhatWasRead == KvSpec => [][KvSaveStep]_kvVars
BY KvSaveStepKept, KvInvariant, PTL DEF KvSpec

\* The types, with the last revision, which bounds those stored.
KvTypeInv == KvTypeOK /\ kvSeq \in 0 .. KvMaxSeq

\* Every reachable state of the key-value page has its type (KVStorePage.tsx).
THEOREM KvTypeCorrect == KvSpec => []KvTypeOK
<1>a. KvMaxSeq \in Nat \ {0} /\ 0 \in 0 .. KvMaxSeq
  BY KvAssumption DEF KvAssumption
<1>1. KvInit => KvTypeInv
  BY <1>a DEF KvInit, KvTypeInv, KvTypeOK, KvNoDraft
<1>2. KvTypeInv /\ [KvNext]_kvVars => KvTypeInv'
  <2> SUFFICES ASSUME KvTypeInv, [KvNext]_kvVars PROVE KvTypeInv'
    OBVIOUS
  <2> USE <1>a DEF KvTypeInv, KvTypeOK
  <2>1. ASSUME NEW op, NEW k, KvWrite(op, k)
        PROVE  kvStore' \in [KvKeys -> 0 .. KvMaxSeq] /\ kvSeq' \in 0 .. KvMaxSeq
    <3>1. kvSeq \in Nat /\ kvSeq < KvMaxSeq /\ kvSeq' = kvSeq + 1
      BY <2>1 DEF KvWrite
    <3>2. kvSeq + 1 \in 0 .. KvMaxSeq
      BY <3>1
    <3>3. PICK r \in 0 .. KvMaxSeq : kvStore' = [kvStore EXCEPT ![k] = r]
      BY <2>1, <3>2 DEF KvWrite
    <3> QED BY <3>1, <3>2, <3>3
  <2>2. kvStore' \in [KvKeys -> 0 .. KvMaxSeq] /\ kvSeq' \in 0 .. KvMaxSeq
    <3>1. CASE UNCHANGED kvServer
      BY <3>1 DEF kvServer
    <3>2. CASE \E op, k : KvWrite(op, k)
      BY <2>1, <3>2
    <3>3. CASE kvStore' = [k \in KvKeys |-> 0] /\ UNCHANGED kvSeq
      BY <3>3
    <3> QED
      BY <3>1, <3>2, <3>3 DEF KvNext, kvVars, KvSelect, KvOtherWrites, KvListFetched, KvEntryFetched, KvSearchFor,
         KvStartCreating, KvEdit, KvReset, KvToggleRaw, KvShowHistory, KvSave, KvCreate, KvCancelCreate,
         KvTypeNew, KvRequest, KvTypeConfirm, KvConfirmed, KvCancelConfirm, KvCarryOut, KvRefused, KvSaved, KvDone
  <2>3. kvList' \subseteq KvKeys
    BY DEF KvHeld, KvNext, kvVars, kvCaches, KvSelect, KvOtherWrites, KvListFetched, KvEntryFetched, KvSearchFor,
         KvStartCreating, KvEdit, KvReset, KvToggleRaw, KvShowHistory, KvSave, KvCreate, KvCancelCreate,
         KvTypeNew, KvRequest, KvTypeConfirm, KvConfirmed, KvCancelConfirm, KvCarryOut, KvRefused, KvSaved, KvDone
  <2>4. kvSelected' \in KvKeys \cup {KvNone}
    BY DEF KvOfferedKeys, KvFilteredKeys, KvNext, kvVars, kvEditor, KvSelect, KvOtherWrites, KvListFetched,
         KvEntryFetched, KvSearchFor,
         KvStartCreating, KvEdit, KvReset, KvToggleRaw, KvShowHistory, KvSave, KvCreate, KvCancelCreate,
         KvTypeNew, KvRequest, KvTypeConfirm, KvConfirmed, KvCancelConfirm, KvCarryOut, KvRefused, KvSaved, KvDone
  <2>5. kvEntry' \in [KvKeys -> 0 .. KvMaxSeq]
    <3>1. CASE KvEntryFetched
      <4>1. kvSelected \in KvKeys => kvStore[kvSelected] \in 0 .. KvMaxSeq
        OBVIOUS
      <4> QED BY <3>1, <4>1 DEF KvEntryFetched
    <3>2. CASE KvDone
      BY <3>2 DEF KvDone
    <3>3. CASE UNCHANGED kvEntry
      BY <3>3
    <3> QED
      BY <3>1, <3>2, <3>3 DEF KvNext, kvVars, kvCaches, KvSelect, KvOtherWrites, KvListFetched, KvSearchFor,
         KvStartCreating, KvEdit, KvReset, KvToggleRaw, KvShowHistory, KvSave, KvCreate, KvCancelCreate,
         KvTypeNew, KvRequest, KvTypeConfirm, KvConfirmed, KvCancelConfirm, KvCarryOut, KvRefused, KvSaved
  <2>6. kvDraft'.key \in KvKeys \cup {KvNone}
    <3>1. kvDraft' = kvDraft \/ kvDraft' = KvNoDraft \/ KvEdit
      BY DEF KvNext, kvVars, kvEditor, KvSelect, KvOtherWrites, KvListFetched, KvEntryFetched, KvSearchFor,
         KvStartCreating, KvReset, KvToggleRaw, KvShowHistory, KvSave, KvCreate, KvCancelCreate,
         KvTypeNew, KvRequest, KvTypeConfirm, KvConfirmed, KvCancelConfirm, KvCarryOut, KvRefused, KvSaved, KvDone
    <3>2. KvEdit => kvDraft'.key = kvSelected
      BY DEF KvEdit
    <3> QED BY <3>1, <3>2 DEF KvNoDraft
  <2> QED BY <2>2, <2>3, <2>4, <2>5, <2>6
<1>3. KvTypeInv => KvTypeOK
  BY DEF KvTypeInv
<1> QED BY <1>1, <1>2, <1>3, PTL DEF KvSpec

---------------------------------------------------------------------------
(*************************************************************************)
(* A stream's configuration: an update sets what its review listed.      *)
(*************************************************************************)

\* What is stored and what is shown have every field; an update under way sets the
\* editable ones, and those the review did not list to what was shown.
ScInv ==
    /\ "config" \in DOMAIN scStream /\ DOMAIN scStream.config = ScFields
    /\ ScLoaded => DOMAIN scShown.config = ScFields
    /\ scSave.state = "sent" => /\ DOMAIN scSave.next = ScEditable
                                /\ \A f \in ScEditable \ scSave.listed : scSave.next[f] = scSave.shown[f]

LEMMA ScStreamStep ==
    ASSUME ScInv, [ScNext]_scVars
    PROVE  "config" \in DOMAIN scStream' /\ DOMAIN scStream'.config = ScFields
<1>0. "config" \in DOMAIN scStream /\ DOMAIN scStream.config = ScFields
  BY DEF ScInv
<1>1. CASE scStream' = scStream
  BY <1>0, <1>1
<1>2. CASE ScOtherChanges
  <2>1. CASE scStream' = [scStream EXCEPT !.config.limit = 2]
    BY <1>0, <2>1
  <2>2. CASE scStream' = [scStream EXCEPT !.sealed = TRUE]
    BY <1>0, <2>2
  <2>3. CASE scStream' = [scStream EXCEPT !.exists = FALSE]
    BY <1>0, <2>3
  <2> QED BY <1>2, <2>1, <2>2, <2>3 DEF ScOtherChanges
<1>3. CASE ScUpdateReaches
  <2>1. CASE scStream' = [scStream EXCEPT !.config = ScMerge(scStream.config, scSave.next)]
    BY <1>0, <2>1 DEF ScMerge
  <2> QED BY <1>1, <1>3, <2>1 DEF ScUpdateReaches
<1>4. CASE ScActReaches
  <2>1. PICK sealed, exists : \/ scStream' = [scStream EXCEPT !.sealed = sealed, !.exists = exists]
                              \/ scStream' = scStream
    BY <1>4 DEF ScActReaches
  <2>2. CASE scStream' = [scStream EXCEPT !.sealed = sealed, !.exists = exists]
    BY <1>0, <2>2
  <2> QED BY <1>1, <2>1, <2>2
<1>5. ASSUME ~ScOtherChanges, ~ScUpdateReaches, ~ScActReaches PROVE scStream' = scStream
  BY <1>5 DEF ScNext, scVars, scServer, ScFetch, ScStartEdit, ScMode, ScField, ScJson, ScBreakText, ScCancelEdit,
       ScOpenReview, ScCloseReview, ScSaveNow, ScUpdateAnswered, ScAsk, ScTypeName, ScPurgeOptions, ScCancelAsk,
       ScConfirmed, ScActAnswered, ScLeave, ScReturn
<1> QED BY <1>1, <1>2, <1>3, <1>4, <1>5

LEMMA ScShownStep ==
    ASSUME ScInv, [ScNext]_scVars
    PROVE  ScLoaded' => DOMAIN scShown'.config = ScFields
<1>1. scCache' = scCache \/ ScFetched
  BY DEF ScNext, scVars, scServer, scCache, ScFetch, ScStartEdit, ScMode, ScField, ScJson, ScBreakText, ScCancelEdit,
       ScOpenReview, ScCloseReview, ScSaveNow, ScUpdateAnswered, ScAsk, ScTypeName, ScPurgeOptions, ScCancelAsk,
       ScConfirmed, ScActAnswered, ScLeave, ScReturn, ScOtherChanges, ScUpdateReaches, ScActReaches
<1>2. CASE scCache' = scCache
  BY <1>2 DEF scCache, ScInv, ScLoaded
<1>3. CASE ScFetched
  <2>1. CASE scStream.exists
    BY <1>3, <2>1 DEF ScFetched, ScInv
  <2>2. CASE ~scStream.exists
    BY <1>3, <2>2 DEF ScFetched, ScLoaded
  <2> QED BY <2>1, <2>2
<1> QED BY <1>1, <1>2, <1>3

LEMMA ScSaveKept ==
    ASSUME ScInv, [ScNext]_scVars
    PROVE  scSave'.state = "sent" =>
             /\ DOMAIN scSave'.next = ScEditable
             /\ \A f \in ScEditable \ scSave'.listed : scSave'.next[f] = scSave'.shown[f]
<1>1. CASE scSave' = scSave
  BY <1>1 DEF ScInv
<1>2. CASE ScSaveNow
  <2>1. scSave' = [state |-> "sent", next |-> ScPayload(scEntry.draft), listed |-> ScListed, shown |-> scShown.config]
        /\ DOMAIN scShown.config = ScFields
    BY <1>2 DEF ScSaveNow, ScInv
  <2>2. ASSUME NEW f \in ScEditable, f \notin ScListed PROVE ScPayload(scEntry.draft)[f] = scShown.config[f]
    <3>1. ScOriginal[f] = scShown.config[f]
      BY <2>1, <2>2 DEF ScOriginal, ScToForm, ScEditable
    <3>2. ScPayload(ScOriginal)[f] = ScPayload(scEntry.draft)[f]
      BY <2>2 DEF ScListed, ScDiffer, ScPayload
    <3> QED BY <2>2, <3>1, <3>2 DEF ScPayload
  <2> QED BY <2>1, <2>2 DEF ScPayload
<1>3. CASE ScUpdateReaches
  <2>1. CASE scSave' = [scSave EXCEPT !.state = "done"]
    BY <2>1, <1>3 DEF ScUpdateReaches, ScInv
  <2>2. CASE scSave' = [scSave EXCEPT !.state = "failed"]
    BY <2>2, <1>3 DEF ScUpdateReaches, ScInv
  <2> QED BY <1>3, <2>1, <2>2 DEF ScUpdateReaches
<1>4. CASE ScUpdateAnswered
  BY <1>4 DEF ScUpdateAnswered, ScIdle
<1>5. ASSUME ~ScSaveNow, ~ScUpdateReaches, ~ScUpdateAnswered PROVE scSave' = scSave
  BY <1>5 DEF ScNext, scVars, scCalls, ScFetch, ScStartEdit, ScMode, ScField, ScJson, ScBreakText, ScCancelEdit,
       ScOpenReview, ScCloseReview, ScAsk, ScTypeName, ScPurgeOptions, ScCancelAsk,
       ScConfirmed, ScActAnswered, ScLeave, ScReturn, ScOtherChanges, ScActReaches
<1> QED BY <1>1, <1>2, <1>3, <1>4, <1>5

LEMMA ScInvariant == ScSpec => []ScInv
<1>1. ScInit => ScInv
  BY DEF ScInit, ScInv, ScLoaded, ScNoDetail, ScIdle, ScConfigs
<1>2. ScInv /\ [ScNext]_scVars => ScInv'
  BY ScStreamStep, ScShownStep, ScSaveKept DEF ScInv
<1> QED BY <1>1, <1>2, PTL DEF ScSpec

LEMMA ScReviewedStepKept == ScInv /\ [ScNext]_scVars => ScReviewedStep
<1> SUFFICES ASSUME ScInv, [ScNext]_scVars, scSave.state = "sent", scSave'.state = "done",
                    NEW f \in ScFields, scStream'.config[f] # scStream.config[f], f \notin scSave.listed
             PROVE  scStream.config[f] # scSave.shown[f]
  BY DEF ScReviewedStep
<1>1. ScUpdateReaches
  BY DEF ScNext, scVars, scCalls, ScFetch, ScStartEdit, ScMode, ScField, ScJson, ScBreakText, ScCancelEdit,
     ScOpenReview, ScCloseReview, ScAsk, ScTypeName, ScPurgeOptions, ScCancelAsk,
     ScConfirmed, ScActAnswered, ScLeave, ScReturn, ScOtherChanges, ScActReaches, ScSaveNow, ScUpdateAnswered
<1>2. scStream' = [scStream EXCEPT !.config = ScMerge(scStream.config, scSave.next)]
  BY <1>1 DEF ScUpdateReaches
<1>3. scStream'.config = ScMerge(scStream.config, scSave.next)
  BY <1>2 DEF ScInv
<1>4. f \in DOMAIN ScSent(scSave.next) /\ scStream'.config[f] = scSave.next[f]
  BY <1>3 DEF ScMerge
<1>5. f \in ScEditable
  BY <1>4 DEF ScSent, ScInv
<1> QED BY <1>4, <1>5 DEF ScInv

\* An update changes what its review listed, and otherwise only what another
\* client had changed since it was shown.
THEOREM StreamUpdatesAreReviewed == ScSpec => [][ScReviewedStep]_scVars
BY ScReviewedStepKept, ScInvariant, PTL DEF ScSpec

ScEntries == [editing : BOOLEAN, mode : {"form", "json"}, draft : ScConfigs \cup {ScNoDraft}]
ScSeen == [config : ScConfigs, sealed : BOOLEAN]
ScAsks == [type : {"none", "purge", "seal", "delete"}, typed : BOOLEAN, purge : {"all", "some", "invalid"}]
ScActs == [type : {"none", "purge", "seal", "delete"}, state : {"none", "sent", "done", "failed"}]

\* What an update under way carries is a value for each editable field.
ScCarries(save) ==
    /\ {"state", "listed"} \subseteq DOMAIN save /\ save.state \in {"none", "sent", "done", "failed"}
    /\ save.listed \subseteq ScFields
    /\ save.state = "sent" => DOMAIN save.next = ScEditable /\ \A f \in ScEditable : save.next[f] \in ScValues(f)

ScTypes ==
    /\ scStream \in [config : ScConfigs, sealed : BOOLEAN, exists : BOOLEAN]
    /\ scShown \in ScSeen \cup {ScNoDetail} /\ scEntry \in ScEntries
    /\ scMissing \in BOOLEAN /\ scReadOnly \in BOOLEAN /\ scOpen \in BOOLEAN /\ scReview \in BOOLEAN
    /\ scText \in {"fine", "invalid", "broken"} /\ scConfirm \in ScAsks /\ ScCarries(scSave) /\ scAct \in ScActs
    /\ scOthers \in 0 .. ScMaxOthers /\ scPresses \in 0 .. ScMaxPresses

LEMMA ScConfigSet ==
    ASSUME NEW c \in ScConfigs, NEW f \in ScFields, NEW v \in ScValues(f)
    PROVE  [c EXCEPT ![f] = v] \in ScConfigs
<1>1. v \in 0 .. 2
  BY DEF ScValues
<1> QED BY <1>1 DEF ScConfigs

LEMMA ScToFormIs == ASSUME NEW c \in ScConfigs PROVE ScToForm(c) \in ScConfigs
<1>1. "placement" \in ScFields /\ 0 \in ScValues("placement")
  BY DEF ScFields, ScValues
<1> QED BY <1>1, ScConfigSet DEF ScToForm

\* An opened editor gets what is shown as its draft.
LEMMA ScSeeds ==
    ASSUME NEW e \in ScEntries, NEW shown \in ScSeen \cup {ScNoDetail}
    PROVE  ScSeeded(e, shown) \in ScEntries
<1>1. CASE ScSeeded(e, shown) = e
  BY <1>1
<1>2. CASE shown # ScNoDetail /\ ScSeeded(e, shown) = [e EXCEPT !.draft = ScToForm(shown.config)]
  <2>1. ScToForm(shown.config) \in ScConfigs
    BY <1>2, ScToFormIs DEF ScSeen
  <2> QED BY <1>2, <2>1 DEF ScEntries
<1> QED BY <1>1, <1>2 DEF ScSeeded

LEMMA ScStreamType == ScTypes /\ [ScNext]_scVars => scStream' \in [config : ScConfigs, sealed : BOOLEAN, exists : BOOLEAN]
<1> SUFFICES ASSUME ScTypes, [ScNext]_scVars
             PROVE  scStream' \in [config : ScConfigs, sealed : BOOLEAN, exists : BOOLEAN]
  OBVIOUS
<1>0. scStream \in [config : ScConfigs, sealed : BOOLEAN, exists : BOOLEAN] /\ ScCarries(scSave)
  BY DEF ScTypes
<1>s. ASSUME NEW c \in ScConfigs, scStream' = [scStream EXCEPT !.config = c]
      PROVE  scStream' \in [config : ScConfigs, sealed : BOOLEAN, exists : BOOLEAN]
  BY <1>0, <1>s
<1>1. CASE scStream' = scStream
  BY <1>0, <1>1
<1>2. CASE ScOtherChanges
  <2>1. CASE scStream' = [scStream EXCEPT !.config.limit = 2]
    <3>1. "limit" \in ScFields /\ 2 \in ScValues("limit")
      BY DEF ScFields, ScValues
    <3>2. [scStream.config EXCEPT ![ "limit" ] = 2] \in ScConfigs
      BY <1>0, <3>1, ScConfigSet
    <3> QED BY <1>0, <2>1, <3>2
  <2> QED BY <1>0, <1>2, <2>1 DEF ScOtherChanges
<1>3. CASE ScUpdateReaches
  <2>1. CASE scStream' = scStream
    BY <1>0, <2>1
  <2>2. CASE scStream' = [scStream EXCEPT !.config = ScMerge(scStream.config, scSave.next)]
    <3> DEFINE merged == ScMerge(scStream.config, scSave.next)
    <3>1. DOMAIN scSave.next = ScEditable /\ \A f \in ScEditable : scSave.next[f] \in ScValues(f)
      BY <1>0, <1>3 DEF ScUpdateReaches, ScCarries
    <3>2. ASSUME NEW f \in ScFields PROVE merged[f] \in ScValues(f)
      <4>1. scStream.config[f] \in ScValues(f)
        BY <1>0 DEF ScConfigs
      <4> QED BY <3>1, <4>1 DEF ScMerge, ScSent
    <3>3. \A f \in ScFields : ScValues(f) \subseteq 0 .. 2
      BY DEF ScValues
    <3>4. merged = [f \in ScFields |-> merged[f]]
      BY DEF ScMerge
    <3>5. merged \in ScConfigs
      <4> HIDE DEF merged
      <4> QED BY <3>2, <3>3, <3>4 DEF ScConfigs
    <3> QED BY <2>2, <3>5, <1>s
  <2> QED BY <1>3, <2>1, <2>2 DEF ScUpdateReaches
<1>4. CASE ScActReaches
  BY <1>0, <1>4 DEF ScActReaches
<1> QED BY <1>1, <1>2, <1>3, <1>4 DEF ScNext, ScFetch, ScStartEdit, ScMode, ScField, ScJson, ScBreakText,
   ScCancelEdit, ScOpenReview, ScCloseReview, ScSaveNow, ScUpdateAnswered, ScAsk, ScTypeName, ScPurgeOptions,
   ScCancelAsk, ScConfirmed, ScActAnswered, ScLeave, ScReturn, ScUse, scServer, scDialogs, scCalls, scCache,
   scVars

LEMMA ScEntryType == ScTypes /\ [ScNext]_scVars => scEntry' \in ScEntries /\ scShown' \in ScSeen \cup {ScNoDetail}
<1> SUFFICES ASSUME ScTypes, [ScNext]_scVars PROVE scEntry' \in ScEntries /\ scShown' \in ScSeen \cup {ScNoDetail}
  OBVIOUS
<1>0. scEntry \in ScEntries /\ scShown \in ScSeen \cup {ScNoDetail} /\ ScClosedEntry \in ScEntries
  BY DEF ScTypes, ScClosedEntry, ScEntries
<1>1. scShown' \in ScSeen \cup {ScNoDetail}
  <2>1. [config |-> scStream.config, sealed |-> scStream.sealed] \in ScSeen
    BY DEF ScTypes, ScSeen
  <2>2. scShown' = scShown \/ scShown' = [config |-> scStream.config, sealed |-> scStream.sealed]
    BY DEF ScNext, ScFetch, ScOtherChanges, ScStartEdit, ScMode, ScField, ScJson, ScBreakText, ScCancelEdit,
       ScOpenReview, ScCloseReview, ScSaveNow, ScUpdateReaches, ScUpdateAnswered, ScAsk, ScTypeName,
       ScPurgeOptions, ScCancelAsk, ScConfirmed, ScActReaches, ScActAnswered, ScLeave, ScReturn, ScFetched,
       ScUse, scServer, scDialogs, scCalls, scCache, scVars
  <2> QED BY <1>0, <2>1, <2>2
<1>2. CASE scEntry' = scEntry \/ scEntry' = ScClosedEntry
  BY <1>0, <1>1, <1>2
<1>3. ASSUME scEntry' = ScSeeded(scEntry, scShown') \/ scEntry' = ScSeeded(scEntry, scShown) PROVE scEntry' \in ScEntries
  <2>1. ScSeeded(scEntry, scShown') \in ScEntries
    BY <1>0, <1>1, ScSeeds
  <2>2. ScSeeded(scEntry, scShown) \in ScEntries
    BY <1>0, ScSeeds
  <2> QED BY <1>3, <2>1, <2>2
<1>4. CASE ScStartEdit
  <2>1. [scEntry EXCEPT !.editing = TRUE] \in ScEntries
    BY <1>0 DEF ScEntries
  <2>2. scEntry' = ScSeeded([scEntry EXCEPT !.editing = TRUE], scShown)
    BY <1>4 DEF ScStartEdit
  <2>3. ScSeeded([scEntry EXCEPT !.editing = TRUE], scShown) \in ScEntries
    BY <1>0, <2>1, ScSeeds
  <2> QED BY <1>1, <2>2, <2>3
<1>5. ASSUME NEW mode \in {"form", "json"}, ScMode(mode) PROVE scEntry' \in ScEntries
  BY <1>0, <1>5 DEF ScMode, ScEntries
<1>6. ASSUME NEW f \in ScFields, NEW v \in ScValues(f), ScField(f, v) \/ ScJson(f, v) PROVE scEntry' \in ScEntries
  <2>1. scEntry.draft \in ScConfigs /\ scEntry' = [scEntry EXCEPT !.draft[f] = v]
    BY <1>0, <1>6 DEF ScField, ScJson, ScEditorShown, ScHasDraft, ScEntries
  <2>2. [scEntry.draft EXCEPT ![f] = v] \in ScConfigs
    BY <2>1, ScConfigSet
  <2> QED BY <1>0, <2>1, <2>2 DEF ScEntries
<1>7. \/ scEntry' = scEntry \/ scEntry' = ScClosedEntry \/ ScStartEdit
      \/ scEntry' = ScSeeded(scEntry, scShown') \/ scEntry' = ScSeeded(scEntry, scShown)
      \/ \E mode \in {"form", "json"} : ScMode(mode)
      \/ \E f \in ScFields : \E v \in ScValues(f) : ScField(f, v) \/ ScJson(f, v)
  BY DEF ScNext, ScFetch, ScOtherChanges, ScBreakText, ScCancelEdit, ScOpenReview, ScCloseReview, ScSaveNow,
     ScUpdateReaches, ScUpdateAnswered, ScAsk, ScTypeName, ScPurgeOptions, ScCancelAsk, ScConfirmed,
     ScActReaches, ScActAnswered, ScLeave, ScReturn, ScFetched, ScUse, scServer, scDialogs, scCalls, scCache,
     scVars
<1> QED BY <1>1, <1>2, <1>3, <1>4, <1>5, <1>6, <1>7

LEMMA ScTypesStep == ScTypes /\ [ScNext]_scVars => ScTypes'
<1> SUFFICES ASSUME ScTypes, [ScNext]_scVars PROVE ScTypes'
  OBVIOUS
<1>1. (scMissing \in BOOLEAN)' /\ (scReadOnly \in BOOLEAN)' /\ (scOpen \in BOOLEAN)' /\ (scReview \in BOOLEAN)'
  BY Zenon DEF ScTypes, ScNext, ScFetch, ScOtherChanges, ScStartEdit, ScMode, ScField, ScJson, ScBreakText,
     ScCancelEdit, ScOpenReview, ScCloseReview, ScSaveNow, ScUpdateReaches, ScUpdateAnswered, ScAsk,
     ScTypeName, ScPurgeOptions, ScCancelAsk, ScConfirmed, ScActReaches, ScActAnswered, ScLeave, ScReturn,
     ScFetched, ScUse, scServer, scDialogs, scCalls, scCache, scVars
<1>2. (scText \in {"fine", "invalid", "broken"})'
  BY DEF ScTypes, ScNext, ScFetch, ScOtherChanges, ScStartEdit, ScMode, ScField, ScJson, ScBreakText,
     ScCancelEdit, ScOpenReview, ScCloseReview, ScSaveNow, ScUpdateReaches, ScUpdateAnswered, ScAsk,
     ScTypeName, ScPurgeOptions, ScCancelAsk, ScConfirmed, ScActReaches, ScActAnswered, ScLeave, ScReturn,
     ScUse, scServer, scDialogs, scCalls, scCache, scVars
<1>3. (scConfirm \in ScAsks)'
  <2>1. scConfirm \in ScAsks /\ ScNoConfirm \in ScAsks
    BY DEF ScTypes, ScNoConfirm, ScAsks
  <2>2. CASE \/ \E type \in {"purge", "seal", "delete"} : ScAsk(type)
             \/ ScTypeName \/ \E how \in {"all", "some", "invalid"} : ScPurgeOptions(how)
    BY <2>1, <2>2 DEF ScAsk, ScTypeName, ScPurgeOptions, ScAsks
  <2>3. \/ scConfirm' = scConfirm \/ scConfirm' = ScNoConfirm \/ \E type \in {"purge", "seal", "delete"} : ScAsk(type)
        \/ ScTypeName \/ \E how \in {"all", "some", "invalid"} : ScPurgeOptions(how)
    BY DEF ScNext, ScFetch, ScOtherChanges, ScStartEdit, ScMode, ScField, ScJson, ScBreakText, ScCancelEdit,
       ScOpenReview, ScCloseReview, ScSaveNow, ScUpdateReaches, ScUpdateAnswered, ScCancelAsk, ScConfirmed,
       ScActReaches, ScActAnswered, ScLeave, ScReturn, ScUse, scServer, scDialogs, scCalls, scCache, scVars
  <2> QED BY <2>1, <2>2, <2>3
<1>4. ScCarries(scSave)'
  <2>1. CASE scSave' = scSave
    BY <2>1 DEF ScTypes, ScCarries
  <2>2. CASE scSave' = ScIdle
    BY <2>2 DEF ScIdle, ScCarries
  <2>3. CASE ScSaveNow
    <3>1. /\ scSave' = [state |-> "sent", next |-> ScPayload(scEntry.draft), listed |-> ScListed, shown |-> scShown.config]
          /\ scEntry.draft \in ScConfigs
      BY <2>3 DEF ScSaveNow, ScHasDraft, ScTypes, ScEntries
    <3>2. ScListed \subseteq ScFields
      BY DEF ScListed, ScDiffer, ScPayload, ScEditable
    <3>3. DOMAIN ScPayload(scEntry.draft) = ScEditable
          /\ \A f \in ScEditable : ScPayload(scEntry.draft)[f] \in ScValues(f)
      BY <3>1 DEF ScPayload, ScEditable, ScConfigs
    <3> QED BY <3>1, <3>2, <3>3 DEF ScCarries
  <2>4. CASE ScUpdateReaches
    <3>1. PICK state \in {"done", "failed"} : scSave' = [scSave EXCEPT !.state = state]
      BY <2>4 DEF ScUpdateReaches
    <3> QED BY <3>1 DEF ScTypes, ScCarries
  <2> QED BY <2>1, <2>2, <2>3, <2>4 DEF ScNext, ScFetch, ScOtherChanges, ScStartEdit, ScMode, ScField, ScJson,
     ScBreakText, ScCancelEdit, ScOpenReview, ScCloseReview, ScUpdateAnswered, ScAsk, ScTypeName,
     ScPurgeOptions, ScCancelAsk, ScConfirmed, ScActReaches, ScActAnswered, ScLeave, ScReturn, ScUse,
     scServer, scDialogs, scCalls, scCache, scVars
<1>5. (scAct \in ScActs)'
  <2>1. scAct \in ScActs /\ ScNoAct \in ScActs
    BY DEF ScTypes, ScNoAct, ScActs
  <2>2. CASE ScConfirmed \/ ScActReaches
    BY <2>1, <2>2 DEF ScConfirmed, ScActReaches, ScActs, ScTypes, ScAsks
  <2>3. scAct' = scAct \/ scAct' = ScNoAct \/ ScConfirmed \/ ScActReaches
    BY DEF ScNext, ScFetch, ScOtherChanges, ScStartEdit, ScMode, ScField, ScJson, ScBreakText, ScCancelEdit,
       ScOpenReview, ScCloseReview, ScSaveNow, ScUpdateReaches, ScUpdateAnswered, ScAsk, ScTypeName,
       ScPurgeOptions, ScCancelAsk, ScActAnswered, ScLeave, ScReturn, ScUse, scServer, scDialogs, scCalls,
       scCache, scVars
  <2> QED BY <2>1, <2>2, <2>3
<1>6. (scOthers \in 0 .. ScMaxOthers)' /\ (scPresses \in 0 .. ScMaxPresses)'
  <2>1. scOthers' = scOthers \/ (scOthers < ScMaxOthers /\ scOthers' = scOthers + 1)
    BY DEF ScNext, ScFetch, ScOtherChanges, ScStartEdit, ScMode, ScField, ScJson, ScBreakText, ScCancelEdit,
       ScOpenReview, ScCloseReview, ScSaveNow, ScUpdateReaches, ScUpdateAnswered, ScAsk, ScTypeName,
       ScPurgeOptions, ScCancelAsk, ScConfirmed, ScActReaches, ScActAnswered, ScLeave, ScReturn, ScUse,
       scServer, scDialogs, scCalls, scCache, scVars
  <2>2. scPresses' = scPresses \/ ScUse
    BY DEF ScNext, ScFetch, ScOtherChanges, ScStartEdit, ScMode, ScField, ScJson, ScBreakText, ScCancelEdit,
       ScOpenReview, ScCloseReview, ScSaveNow, ScUpdateReaches, ScUpdateAnswered, ScAsk, ScTypeName,
       ScPurgeOptions, ScCancelAsk, ScConfirmed, ScActReaches, ScActAnswered, ScLeave, ScReturn, scServer,
       scDialogs, scCalls, scCache, scVars
  <2>3. scOthers \in 0 .. ScMaxOthers /\ scPresses \in 0 .. ScMaxPresses
    BY DEF ScTypes
  <2> QED BY <2>1, <2>2, <2>3, ScAssumption DEF ScUse, ScAssumption
<1> QED BY <1>1, <1>2, <1>3, <1>4, <1>5, <1>6, ScStreamType, ScEntryType DEF ScTypes

\* Every reachable state of the stream's configuration has its type (StreamConfigTab.tsx).
THEOREM ScTypeCorrect == ScSpec => []ScTypeOK
<1>1. ScInit => ScTypes
  <2> SUFFICES ASSUME ScInit PROVE ScTypes
    OBVIOUS
  <2>1. PICK config \in ScConfigs : scStream = [config |-> config, sealed |-> FALSE, exists |-> TRUE]
    BY DEF ScInit
  <2>2. scStream \in [config : ScConfigs, sealed : BOOLEAN, exists : BOOLEAN]
    BY <2>1
  <2>3. ScClosedEntry \in ScEntries /\ ScNoConfirm \in ScAsks /\ ScNoAct \in ScActs
    BY DEF ScClosedEntry, ScEntries, ScNoConfirm, ScAsks, ScNoAct, ScActs
  <2>4. ScCarries(ScIdle)
    BY DEF ScCarries, ScIdle
  <2>5. 0 \in 0 .. ScMaxOthers /\ 0 \in 0 .. ScMaxPresses
    BY ScAssumption DEF ScAssumption
  <2> QED BY <2>2, <2>3, <2>4, <2>5 DEF ScInit, ScTypes
<1>2. ScTypes => ScTypeOK
  BY DEF ScTypes, ScTypeOK, ScSeen, ScEntries, ScAsks, ScActs, ScCarries
<1> QED BY <1>1, <1>2, ScTypesStep, PTL DEF ScSpec

---------------------------------------------------------------------------
(*************************************************************************)
(* The consumers tab: an update is of the consumer it was drafted for.   *)
(*************************************************************************)

\* The draft of an edit is of the consumer that is selected.
CtIsEntry(e) ==
    /\ DOMAIN e = {"selected", "creating", "editing", "mode", "draft"}
    /\ e.draft # CtNone => {"of", "config"} \subseteq DOMAIN e.draft
    /\ ~e.creating /\ e.draft # CtNone => e.draft.of = e.selected

\* An update under way is of the consumer its draft was made from, and sets what
\* the review listed, and the limit to what was shown if it did not list it.
CtCallInv ==
    /\ "state" \in DOMAIN ctCall
    /\ ctCall.state = "sent" /\ ctCall.type = "update" =>
          /\ ctCall.draft.of = ctCall.name
          /\ DOMAIN ctCall.payload \subseteq {"limit"} \cup ctCall.listed
          /\ "limit" \notin ctCall.listed => ctCall.payload.limit = ctCall.shown.limit

CtInv == CtIsEntry(ctEntry) /\ CtCallInv

LEMMA CtSettles ==
    ASSUME NEW e, CtIsEntry(e), NEW shown, NEW a
    PROVE  CtIsEntry(CtSettled(e, shown, a))
<1>1. ASSUME NEW d, CtIsEntry(d) PROVE CtIsEntry(CtSeeded(d, shown))
  <2>1. CASE d.draft = CtNone /\ d.creating
    <3>1. CtSeeded(d, shown) = [d EXCEPT !.draft = CtNewDraft]
      BY <2>1 DEF CtSeeded
    <3> QED BY <1>1, <2>1, <3>1 DEF CtIsEntry, CtNewDraft
  <2>2. CASE CtSeeded(d, shown) = [d EXCEPT !.draft = CtToDraft(d.selected, shown[d.selected])]
    BY <1>1, <2>2 DEF CtIsEntry, CtToDraft
  <2>3. CASE CtSeeded(d, shown) = d
    BY <1>1, <2>3
  <2> QED BY <2>1, <2>2, <2>3 DEF CtSeeded
<1>2. CtIsEntry(CtDropped(e, shown, a))
  <2>1. CASE CtDropped(e, shown, a) = e
    BY <2>1
  <2>2. CASE CtDropped(e, shown, a) = [e EXCEPT !.selected = "", !.editing = FALSE, !.draft = CtNone]
    BY <2>2 DEF CtIsEntry
  <2> QED BY <2>1, <2>2 DEF CtDropped
<1> QED BY <1>1, <1>2 DEF CtSettled

LEMMA CtSelects == ASSUME NEW name PROVE CtIsEntry(CtSelected(name))
BY DEF CtIsEntry, CtSelected, CtClosed

\* Every entry is made of the one before.
LEMMA CtEntryStep == CtInv /\ [CtNext]_ctVars => CtIsEntry(ctEntry')
<1> SUFFICES ASSUME CtInv, [CtNext]_ctVars PROVE CtIsEntry(ctEntry')
  OBVIOUS
<1>0. CtIsEntry(ctEntry)
  BY DEF CtInv
<1>s. ASSUME NEW e, CtIsEntry(e), CtSet(e) PROVE CtIsEntry(ctEntry')
  BY <1>s, CtSettles DEF CtSet
<1>a. ASSUME NEW e, CtIsEntry(e), CtAfterCall(e) PROVE CtIsEntry(ctEntry')
  BY <1>a, CtSettles DEF CtAfterCall
<1>1. CASE CtFetch \/ CtFetchFails
  BY <1>0, <1>1, CtSettles DEF CtFetch, CtFetchFails
<1>2. ASSUME NEW n \in CtNames, CtSelect(n) \/ CtLink(n) PROVE CtIsEntry(ctEntry')
  BY <1>2, <1>s, CtSettles, CtSelects DEF CtSelect, CtLink
<1>3. ASSUME NEW n \in CtNames, CtTypeName(n) PROVE CtIsEntry(ctEntry')
  <2>1. CtSet([ctEntry EXCEPT !.draft.of = n]) /\ ctEntry.creating /\ ctEntry.draft # CtNone
    BY <1>3 DEF CtTypeName, CtEditorOpen, CtCreates
  <2>2. CtIsEntry([ctEntry EXCEPT !.draft.of = n])
    BY <1>0, <2>1 DEF CtIsEntry
  <2> QED BY <2>1, <2>2, <1>s
<1>4. CASE CtNew
  <2>1. CtSet([ctEntry EXCEPT !.creating = TRUE, !.selected = "", !.draft = CtNone])
    BY <1>4 DEF CtNew
  <2>2. CtIsEntry([ctEntry EXCEPT !.creating = TRUE, !.selected = "", !.draft = CtNone])
    BY <1>0 DEF CtIsEntry
  <2> QED BY <2>1, <2>2, <1>s
<1>5. CASE CtEdit
  <2>1. CtSet([ctEntry EXCEPT !.editing = TRUE])
    BY <1>5 DEF CtEdit
  <2>2. CtIsEntry([ctEntry EXCEPT !.editing = TRUE])
    BY <1>0 DEF CtIsEntry
  <2> QED BY <2>1, <2>2, <1>s
<1>6. ASSUME NEW mode, CtMode(mode) PROVE CtIsEntry(ctEntry')
  <2>1. CtIsEntry([ctEntry EXCEPT !.mode = mode])
    BY <1>0 DEF CtIsEntry
  <2> QED BY <2>1, <1>6, <1>s DEF CtMode
<1>7. ASSUME NEW f, NEW v, CtTyped(f, v) PROVE CtIsEntry(ctEntry')
  <2>1. CtSet([ctEntry EXCEPT !.draft.config[f] = v]) /\ ctEntry.draft # CtNone
    BY <1>7 DEF CtTyped, CtEditorOpen
  <2>2. CtIsEntry([ctEntry EXCEPT !.draft.config[f] = v])
    BY <1>0, <2>1 DEF CtIsEntry
  <2> QED BY <2>1, <2>2, <1>s
<1>8. CASE CtCancel
  <2>1. CtIsEntry([ctEntry EXCEPT !.creating = FALSE, !.draft = CtNone])
    BY <1>0 DEF CtIsEntry
  <2>2. CtIsEntry([ctEntry EXCEPT !.editing = FALSE, !.mode = "form", !.draft = CtNone])
    BY <1>0 DEF CtIsEntry
  <2> QED BY <2>1, <2>2, <1>8, <1>s DEF CtCancel
<1>9. CASE CtCallAnswered
  <2>1. CtIsEntry([ctEntry EXCEPT !.creating = FALSE, !.draft = CtNone])
    BY <1>0 DEF CtIsEntry
  <2>2. CtIsEntry([ctEntry EXCEPT !.editing = FALSE, !.draft = CtNone])
    BY <1>0 DEF CtIsEntry
  <2> QED BY <2>1, <2>2, <1>0, <1>9, <1>a DEF CtCallAnswered
<1>10. CASE CtActAnswered
  <2>1. CtIsEntry([ctEntry EXCEPT !.selected = "", !.editing = FALSE, !.draft = CtNone])
    BY <1>0 DEF CtIsEntry
  <2>2. CtIsEntry(CtDeselected(ctEntry))
    BY <1>0, <2>1 DEF CtDeselected
  <2> QED BY <2>2, <1>0, <1>10, <1>a DEF CtActAnswered
<1>11. CASE CtReturn
  BY <1>0, <1>11, <1>s DEF CtReturn
<1>12. CASE ctEntry' = ctEntry
  BY <1>0, <1>12
<1>13. CASE \/ CtOtherChanges \/ CtCreate \/ CtShowDiff \/ CtCloseDiff \/ CtUpdate \/ CtCreateReaches \/ CtUpdateReaches
            \/ CtOption \/ CtCancelAsk \/ CtConfirmed \/ CtActReaches \/ CtLeave
            \/ \E type \in {"pause", "resume", "reset", "unpin", "delete"} : CtAsk(type) \/ CtActNow(type)
  BY <1>12, <1>13 DEF CtOtherChanges, CtCreate, CtShowDiff, CtCloseDiff, CtUpdate, CtCreateReaches, CtUpdateReaches,
     CtOption, CtCancelAsk, CtConfirmed, CtActReaches, CtLeave, CtAsk, CtActNow
<1>14. CASE \/ \E v \in CtValues("limit") : CtTypeLimit(v)
            \/ \E v \in CtValues("filter") : CtTypeFilter(v)
            \/ \E v \in CtValues("priority") : CtTypePriority(v)
            \/ \E v \in CtValues("kind") : CtTypeKind(v)
            \/ \E f \in CtFields : \E v \in CtValues(f) : CtTypeJson(f, v)
  BY <1>7, <1>14 DEF CtTypeLimit, CtTypeFilter, CtTypePriority, CtTypeKind, CtTypeJson
<1>15. CASE UNCHANGED ctVars
  BY <1>12, <1>15 DEF ctVars
<1>16. CASE CtNext
  BY <1>1, <1>2, <1>3, <1>4, <1>5, <1>6, <1>8, <1>9, <1>10, <1>11, <1>13, <1>14, <1>16 DEF CtNext
<1> QED BY <1>15, <1>16

\* Who changes the call.
LEMMA CtCallDoes ==
    ASSUME [CtNext]_ctVars, ~CtCreate, ~CtUpdate, ~CtCreateReaches, ~CtUpdateReaches, ~CtCallAnswered
    PROVE  ctCall' = ctCall
BY DEF CtNext, ctVars, ctCalls, CtFetch, CtFetchFails, CtOtherChanges, CtSelect, CtLink, CtTypeName, CtNew, CtEdit,
   CtMode, CtTypeLimit, CtTypeFilter, CtTypePriority, CtTypeKind, CtTypeJson, CtTyped, CtCancel, CtShowDiff,
   CtCloseDiff, CtAsk, CtActNow, CtOption, CtCancelAsk, CtConfirmed, CtActReaches, CtActAnswered, CtLeave, CtReturn

LEMMA CtCallStep == CtInv /\ [CtNext]_ctVars => CtCallInv'
<1> SUFFICES ASSUME CtInv, [CtNext]_ctVars PROVE CtCallInv'
  OBVIOUS
<1>0. CtIsEntry(ctEntry) /\ CtCallInv
  BY DEF CtInv
<1>1. CASE ctCall' = ctCall
  BY <1>0, <1>1 DEF CtCallInv
<1>2. CASE CtCreate
  <2>1. ctCall'.type = "create" /\ "state" \in DOMAIN ctCall'
    BY <1>2 DEF CtCreate, CtNoCall
  <2> QED BY <2>1 DEF CtCallInv
<1>3. CASE CtUpdate
  <2> DEFINE listed == CtDiffer(CtOriginal.config, ctEntry.draft.config)
             payload == CtPayload(CtOriginal.config, ctEntry.draft.config)
  <2>1. ctCall' = [type |-> "update", name |-> ctEntry.selected, draft |-> ctEntry.draft, payload |-> payload,
                   listed |-> listed, shown |-> ctShown[ctEntry.selected], state |-> "sent"]
        /\ CtEdits /\ ctEntry.draft # CtNone
    BY <1>3 DEF CtUpdate, CtHasChanges
  <2>2. ~ctEntry.creating
    BY <2>1 DEF CtEdits, CtOnScreen, CtCreates
  <2>3. ctEntry.draft.of = ctEntry.selected
    BY <1>0, <2>1, <2>2 DEF CtIsEntry
  <2>4. DOMAIN payload \subseteq {"limit"} \cup listed
    BY DEF CtPayload
  <2>5. payload.limit = ctEntry.draft.config.limit
    BY DEF CtPayload
  <2>6. CtOriginal.config.limit = ctShown[ctEntry.selected].limit
    BY DEF CtOriginal, CtToDraft, CtFields
  <2>7. "limit" \notin listed => CtOriginal.config.limit = ctEntry.draft.config.limit
    BY DEF CtDiffer, CtFields
  <2> HIDE DEF listed, payload
  <2> QED BY <2>1, <2>3, <2>4, <2>5, <2>6, <2>7 DEF CtCallInv
<1>4. CASE CtCreateReaches \/ CtUpdateReaches
  <2>1. PICK state \in {"done", "failed"} : ctCall' = [ctCall EXCEPT !.state = state] /\ ctCall.state = "sent"
    BY <1>4 DEF CtCreateReaches, CtUpdateReaches, CtFails
  <2> QED BY <1>0, <2>1 DEF CtCallInv
<1>5. CASE CtCallAnswered
  BY <1>5 DEF CtCallAnswered, CtNoCall, CtCallInv
<1> QED BY <1>1, <1>2, <1>3, <1>4, <1>5, CtCallDoes

LEMMA CtInvariant == CtSpec => []CtInv
<1>1. CtInit => CtInv
  <2>1. CtIsEntry(CtClosed) /\ CtNoCall.state = "none" /\ "state" \in DOMAIN CtNoCall
    BY DEF CtIsEntry, CtClosed, CtNoCall
  <2> QED BY <2>1 DEF CtInit, CtInv, CtCallInv
<1>2. CtInv /\ [CtNext]_ctVars => CtInv'
  BY CtEntryStep, CtCallStep DEF CtInv
<1> QED BY <1>1, <1>2, PTL DEF CtSpec

LEMMA CtReviewedStepKept == CtInv /\ [CtNext]_ctVars => CtReviewedStep
<1> SUFFICES ASSUME CtInv, [CtNext]_ctVars, ctCall.state = "sent", ctCall.type = "update", ctCall'.state = "done"
             PROVE  /\ ctCall.draft.of = ctCall.name
                    /\ \A f \in CtDiffer(ctConsumers[ctCall.name], ctConsumers'[ctCall.name]) :
                          \/ f \in ctCall.listed
                          \/ f = "limit" /\ ctConsumers[ctCall.name].limit # ctCall.shown.limit
  BY DEF CtReviewedStep
<1>0. CtCallInv
  BY DEF CtInv
<1>1. CtUpdateReaches
  <2>1. ~CtCreateReaches /\ ~CtCallAnswered
    BY DEF CtCreateReaches, CtCallAnswered
  <2>0. CtNoCall.state = "none"
    BY DEF CtNoCall
  <2>2. ctCall # CtNoCall
    BY <2>0
  <2>3. ~CtCreate /\ ~CtUpdate
    BY <2>2 DEF CtCreate, CtUpdate
  <2> QED BY <2>1, <2>3, CtCallDoes
<1> DEFINE before == ctConsumers[ctCall.name]
           after == ctConsumers'[ctCall.name]
<1>2. after = CtMerge(before, ctCall.payload)
  <2>1. ~CtFails
    BY <1>0 DEF CtFails, CtCallInv
  <2> QED BY <1>1, <2>1 DEF CtUpdateReaches
<1>3. ASSUME NEW f \in CtDiffer(before, after)
      PROVE  f \in ctCall.listed \/ (f = "limit" /\ before.limit # ctCall.shown.limit)
  <2>1. f \in DOMAIN ctCall.payload /\ after[f] = ctCall.payload[f] /\ before[f] # after[f]
    BY <1>2, <1>3 DEF CtDiffer, CtMerge
  <2> HIDE DEF before, after
  <2> QED BY <1>0, <2>1 DEF CtCallInv
<1> QED BY <1>0, <1>3 DEF CtCallInv

\* An update changes the consumer its draft was made from, and of it what the
\* review listed, or a limit another client had changed since it was shown.
THEOREM ConsumerUpdatesAreReviewed == CtSpec => [][CtReviewedStep]_ctVars
BY CtReviewedStepKept, CtInvariant, PTL DEF CtSpec

\* Consumers by name, the entry, and what a call carries.
CtPool(consumers) == DOMAIN consumers \subseteq CtNames /\ \A n \in DOMAIN consumers : consumers[n] \in CtConfigs

CtEntries == [selected : CtNames \cup {""}, creating : BOOLEAN, editing : BOOLEAN, mode : {"form", "json"},
              draft : CtDrafts \cup {CtNone}]

CtCarries(call) ==
    /\ "state" \in DOMAIN call /\ call.state \in {"none", "sent", "done", "failed"} /\ call.listed \subseteq CtFields
    /\ call.state = "sent" =>
          /\ \A f \in CtFields \cap DOMAIN call.payload : call.payload[f] \in CtValues(f)
          /\ call.type = "create" => call.payload \in CtConfigs

CtTypes ==
    /\ CtPool(ctConsumers) /\ (ctShown = CtNotRead \/ CtPool(ctShown))
    /\ ctReadOnly \in BOOLEAN /\ ctOpen \in BOOLEAN /\ ctAwait \in BOOLEAN /\ ctReview \in BOOLEAN /\ ctAsks \in BOOLEAN
    /\ ctEntry \in CtEntries /\ CtCarries(ctCall)
    /\ ctConfirm \in [type : {"none", "pause", "reset", "delete"}, name : CtNames \cup {""}, valid : BOOLEAN,
                      dontAsk : BOOLEAN]
    /\ {"type", "state"} \subseteq DOMAIN ctAct /\ ctAct.type \in {"none", "pause", "resume", "reset", "unpin", "delete"}
    /\ ctAct.state \in {"none", "sent", "done", "failed"}
    /\ ctOthers \in 0 .. CtMaxOthers /\ ctPresses \in 0 .. CtMaxPresses

LEMMA CtBoundsAre == CtMaxOthers \in Nat /\ CtMaxPresses \in Nat
BY Zenon, CtAssumption DEF CtAssumption

\* A configuration is one value for each field.
LEMMA CtConfigIs ==
    ASSUME NEW g, g = [f \in CtFields |-> g[f]], \A f \in CtFields : g[f] \in CtValues(f)
    PROVE  g \in CtConfigs
<1>1. /\ g["limit"] \in CtValues("limit") /\ g["filter"] \in CtValues("filter")
      /\ g["priority"] \in CtValues("priority") /\ g["kind"] \in CtValues("kind")
  BY DEF CtFields
<1>2. g = [limit |-> g["limit"], filter |-> g["filter"], priority |-> g["priority"], kind |-> g["kind"]]
  BY DEF CtFields
<1> QED BY <1>1, <1>2 DEF CtConfigs

LEMMA CtConfigHas ==
    ASSUME NEW c \in CtConfigs, NEW f \in CtFields PROVE c[f] \in CtValues(f)
BY DEF CtConfigs, CtFields

LEMMA CtConfigSet ==
    ASSUME NEW c \in CtConfigs, NEW f \in CtFields, NEW v \in CtValues(f)
    PROVE  [c EXCEPT ![f] = v] \in CtConfigs
BY DEF CtConfigs, CtFields

LEMMA CtDrafted ==
    ASSUME NEW name \in CtNames \cup {""}, NEW c \in CtConfigs PROVE CtToDraft(name, c) \in CtDrafts
<1> DEFINE g == [f \in CtFields |-> IF f = "kind" THEN "pull" ELSE c[f]]
<1>1. \A f \in CtFields : g[f] \in CtValues(f)
  BY CtConfigHas DEF CtValues
<1>2. g = [f \in CtFields |-> g[f]]
  OBVIOUS
<1>3. CtToDraft(name, c) = [of |-> name, config |-> g]
  BY DEF CtToDraft
<1> HIDE DEF g
<1>4. g \in CtConfigs
  BY <1>1, <1>2, CtConfigIs, Zenon
<1>5. \A d \in CtConfigs : [of |-> name, config |-> d] \in CtDrafts
  BY DEF CtDrafts
<1> QED BY <1>3, <1>4, <1>5, Zenon

LEMMA CtDefaultIs == CtDefault \in CtConfigs /\ CtNewDraft \in CtDrafts
BY DEF CtDefault, CtConfigs, CtValues, CtNewDraft, CtDrafts

LEMMA CtSettlesType ==
    ASSUME NEW e \in CtEntries, NEW shown, shown = CtNotRead \/ CtPool(shown), NEW a
    PROVE  CtSettled(e, shown, a) \in CtEntries
<1>1. ASSUME NEW d \in CtEntries PROVE CtSeeded(d, shown) \in CtEntries
  <2>1. CASE CtSeeded(d, shown) = [d EXCEPT !.draft = CtNewDraft]
    BY <2>1, CtDefaultIs DEF CtEntries
  <2>2. CASE CtHeld(d.selected, shown) /\ CtSeeded(d, shown) = [d EXCEPT !.draft = CtToDraft(d.selected, shown[d.selected])]
    <3>1. shown[d.selected] \in CtConfigs /\ d.selected \in CtNames
      BY <2>2 DEF CtHeld, CtPool
    <3>2. CtToDraft(d.selected, shown[d.selected]) \in CtDrafts
      BY <3>1, CtDrafted
    <3> QED BY <2>2, <3>2 DEF CtEntries
  <2>3. CASE CtSeeded(d, shown) = d
    BY <2>3
  <2> QED BY <2>1, <2>2, <2>3 DEF CtSeeded
<1>2. CtDropped(e, shown, a) \in CtEntries
  <2>1. [e EXCEPT !.selected = "", !.editing = FALSE, !.draft = CtNone] \in CtEntries
    BY DEF CtEntries
  <2> QED BY <2>1 DEF CtDropped
<1> QED BY <1>1, <1>2 DEF CtSettled

LEMMA CtEntryType == CtTypes /\ [CtNext]_ctVars => ctEntry' \in CtEntries
<1> SUFFICES ASSUME CtTypes, [CtNext]_ctVars PROVE ctEntry' \in CtEntries
  OBVIOUS
<1>0. ctEntry \in CtEntries /\ CtPool(ctConsumers) /\ (ctShown = CtNotRead \/ CtPool(ctShown))
  BY DEF CtTypes
<1>c. \A n \in CtNames \cup {""} : CtSelected(n) \in CtEntries
  BY DEF CtSelected, CtClosed, CtEntries
<1>s. ASSUME NEW e \in CtEntries, CtSet(e) PROVE ctEntry' \in CtEntries
  BY <1>0, <1>s, CtSettlesType DEF CtSet
<1>a. ASSUME NEW e \in CtEntries, CtAfterCall(e) PROVE ctEntry' \in CtEntries
  BY <1>0, <1>a, CtSettlesType DEF CtAfterCall, CtAnswered
<1>e. /\ [ctEntry EXCEPT !.creating = FALSE, !.draft = CtNone] \in CtEntries
      /\ [ctEntry EXCEPT !.editing = FALSE, !.draft = CtNone] \in CtEntries
      /\ [ctEntry EXCEPT !.editing = FALSE, !.mode = "form", !.draft = CtNone] \in CtEntries
      /\ [ctEntry EXCEPT !.selected = "", !.editing = FALSE, !.draft = CtNone] \in CtEntries
      /\ [ctEntry EXCEPT !.creating = TRUE, !.selected = "", !.draft = CtNone] \in CtEntries
      /\ [ctEntry EXCEPT !.editing = TRUE] \in CtEntries
      /\ \A mode \in {"form", "json"} : [ctEntry EXCEPT !.mode = mode] \in CtEntries
  BY <1>0 DEF CtEntries
<1>1. CASE CtFetch \/ CtFetchFails
  BY <1>0, <1>1, CtSettlesType DEF CtFetch, CtFetchFails, CtAnswered
<1>2. ASSUME NEW n \in CtNames, CtSelect(n) \/ CtLink(n) PROVE ctEntry' \in CtEntries
  BY <1>0, <1>2, <1>c, <1>s, CtSettlesType DEF CtSelect, CtLink
<1>3. ASSUME NEW n \in CtNames, CtTypeName(n) PROVE ctEntry' \in CtEntries
  <2>1. CtSet([ctEntry EXCEPT !.draft.of = n]) /\ ctEntry.draft \in CtDrafts
    BY <1>0, <1>3 DEF CtTypeName, CtEditorOpen, CtEntries
  <2>2. [ctEntry EXCEPT !.draft.of = n] \in CtEntries
    <3>1. [ctEntry.draft EXCEPT !.of = n] \in CtDrafts
      BY <2>1 DEF CtDrafts
    <3> QED BY <1>0, <3>1 DEF CtEntries
  <2> QED BY <2>1, <2>2, <1>s
<1>4. ASSUME NEW f \in CtFields, NEW v \in CtValues(f), CtTyped(f, v) PROVE ctEntry' \in CtEntries
  <2>1. CtSet([ctEntry EXCEPT !.draft.config[f] = v]) /\ ctEntry.draft \in CtDrafts
    BY <1>0, <1>4 DEF CtTyped, CtEditorOpen, CtEntries
  <2>2. [ctEntry.draft.config EXCEPT ![f] = v] \in CtConfigs
    BY <2>1, CtConfigSet DEF CtDrafts
  <2>3. [ctEntry.draft EXCEPT !.config[f] = v] \in CtDrafts
    BY <2>1, <2>2 DEF CtDrafts
  <2>4. [ctEntry EXCEPT !.draft.config[f] = v] \in CtEntries
    BY <1>0, <2>3 DEF CtEntries
  <2> QED BY <2>1, <2>4, <1>s
<1>5. CASE CtNew \/ CtEdit \/ CtCancel \/ \E mode \in {"form", "json"} : CtMode(mode)
  BY <1>5, <1>e, <1>s DEF CtNew, CtEdit, CtCancel, CtMode
<1>6. CASE CtCallAnswered
  BY <1>0, <1>6, <1>a, <1>e DEF CtCallAnswered
<1>7. CASE CtActAnswered
  <2>1. CtDeselected(ctEntry) \in CtEntries
    BY <1>0, <1>e DEF CtDeselected
  <2> QED BY <2>1, <1>0, <1>7, <1>a DEF CtActAnswered
<1>8. CASE CtReturn
  BY <1>0, <1>8, <1>s DEF CtReturn
<1>9. CASE \/ \E v \in CtValues("limit") : CtTypeLimit(v)
           \/ \E v \in CtValues("filter") : CtTypeFilter(v)
           \/ \E v \in CtValues("priority") : CtTypePriority(v)
           \/ \E v \in CtValues("kind") : CtTypeKind(v)
           \/ \E f \in CtFields : \E v \in CtValues(f) : CtTypeJson(f, v)
  <2>1. {"limit", "filter", "priority", "kind"} \subseteq CtFields
    BY DEF CtFields
  <2> QED BY <1>4, <1>9, <2>1 DEF CtTypeLimit, CtTypeFilter, CtTypePriority, CtTypeKind, CtTypeJson
<1>10. CASE ctEntry' = ctEntry
  BY <1>0, <1>10
<1> QED
  BY <1>1, <1>2, <1>3, <1>5, <1>6, <1>7, <1>8, <1>9, <1>10
  DEF CtNext, ctVars, CtOtherChanges, CtCreate, CtShowDiff, CtCloseDiff, CtUpdate, CtCreateReaches, CtUpdateReaches,
      CtOption, CtCancelAsk, CtConfirmed, CtActReaches, CtLeave, CtAsk, CtActNow

LEMMA CtPoolStep == CtTypes /\ [CtNext]_ctVars => CtPool(ctConsumers')
<1> SUFFICES ASSUME CtTypes, [CtNext]_ctVars PROVE CtPool(ctConsumers')
  OBVIOUS
<1>0. CtPool(ctConsumers) /\ CtCarries(ctCall)
  BY DEF CtTypes
<1>1. CASE ctConsumers' = ctConsumers
  BY <1>0, <1>1
<1>2. CASE CtOtherChanges
  <2>1. PICK n \in CtNames :
          \/ n \in DOMAIN ctConsumers /\ \E v \in {"one", "many"} :
                ctConsumers' = [ctConsumers EXCEPT ![n].filter = v]
          \/ n \in DOMAIN ctConsumers /\ ctConsumers' = [ctConsumers EXCEPT ![n].limit = 1]
          \/ n \in DOMAIN ctConsumers /\ ctConsumers' = [m \in DOMAIN ctConsumers \ {n} |-> ctConsumers[m]]
          \/ n \notin DOMAIN ctConsumers
             /\ ctConsumers' = [m \in DOMAIN ctConsumers \cup {n} |-> IF m = n THEN CtDefault ELSE ctConsumers[m]]
    BY <1>2 DEF CtOtherChanges
  <2>2. ASSUME NEW v \in {"one", "many"}, NEW c \in CtConfigs
        PROVE  [c EXCEPT !.filter = v] \in CtConfigs /\ [c EXCEPT !.limit = 1] \in CtConfigs
    BY DEF CtConfigs, CtValues
  <2> QED BY <1>0, <2>1, <2>2, CtDefaultIs DEF CtPool
<1>3. CASE CtCreateReaches
  <2>1. \/ ctConsumers' = ctConsumers
        \/ /\ ctCall.name \in CtNames
           /\ ctConsumers' = [n \in DOMAIN ctConsumers \cup {ctCall.name} |->
                                 IF n = ctCall.name THEN ctCall.payload ELSE ctConsumers[n]]
    BY <1>3 DEF CtCreateReaches, CtFails
  <2>2. ctCall.payload \in CtConfigs
    BY <1>0, <1>3 DEF CtCreateReaches, CtCarries
  <2> QED BY <1>0, <2>1, <2>2 DEF CtPool
<1>4. CASE CtUpdateReaches
  <2>1. \/ ctConsumers' = ctConsumers
        \/ /\ ctCall.name \in DOMAIN ctConsumers
           /\ ctConsumers' = [ctConsumers EXCEPT ![ctCall.name] = CtMerge(@, ctCall.payload)]
    BY <1>4 DEF CtUpdateReaches, CtFails
  <2>2. \A f \in CtFields \cap DOMAIN ctCall.payload : ctCall.payload[f] \in CtValues(f)
    BY <1>0, <1>4 DEF CtUpdateReaches, CtCarries
  <2>3. ASSUME NEW c \in CtConfigs PROVE CtMerge(c, ctCall.payload) \in CtConfigs
    <3> DEFINE g == CtMerge(c, ctCall.payload)
    <3>1. g = [f \in CtFields |-> g[f]]
      BY DEF CtMerge
    <3>2. \A f \in CtFields : g[f] \in CtValues(f)
      BY <2>2, <2>3, CtConfigHas DEF CtMerge
    <3>3. g \in CtConfigs
      <4> HIDE DEF g
      <4> QED BY <3>1, <3>2, CtConfigIs, Zenon
    <3> QED BY <3>3
  <2> QED BY <1>0, <2>1, <2>3 DEF CtPool
<1>5. CASE CtActReaches
  <2>1. \/ ctConsumers' = ctConsumers
        \/ \E gone : ctConsumers' = [n \in DOMAIN ctConsumers \ gone |-> ctConsumers[n]]
    BY <1>5 DEF CtActReaches
  <2> QED BY <1>0, <2>1 DEF CtPool
<1> QED
  BY <1>1, <1>2, <1>3, <1>4, <1>5
  DEF CtNext, CtFetch, CtFetchFails, CtSelect, CtLink, CtTypeName, CtNew, CtEdit, CtMode, CtTypeLimit,
     CtTypeFilter, CtTypePriority, CtTypeKind, CtTypeJson, CtCancel, CtCreate, CtShowDiff, CtCloseDiff,
     CtUpdate, CtCallAnswered, CtAsk, CtActNow, CtOption, CtCancelAsk, CtConfirmed, CtActAnswered, CtLeave,
     CtReturn, CtAnswered, CtUse, CtSet, CtTyped, CtAfterCall, CtStart, ctServer, ctDialogs, ctCalls, ctVars

LEMMA CtCallType == CtTypes /\ [CtNext]_ctVars => CtCarries(ctCall')
<1> SUFFICES ASSUME CtTypes, [CtNext]_ctVars PROVE CtCarries(ctCall')
  OBVIOUS
<1>0. CtCarries(ctCall) /\ ctEntry \in CtEntries /\ CtNone \notin CtDrafts
  BY DEF CtTypes, CtNone, CtDrafts
<1>1. CASE ctCall' = ctCall
  BY <1>0, <1>1
<1>2. CASE CtCreate
  <2>1. ctEntry.draft.config \in CtConfigs
    BY <1>0, <1>2 DEF CtCreate, CtEditorOpen, CtEntries, CtDrafts
  <2>2. /\ "state" \in DOMAIN ctCall' /\ ctCall'.state = "sent" /\ ctCall'.listed = {}
        /\ ctCall'.payload = ctEntry.draft.config
    BY <1>2 DEF CtCreate, CtNoCall
  <2> QED BY <2>1, <2>2, CtConfigHas DEF CtCarries
<1>3. CASE CtUpdate
  <2>1. ctEntry.draft.config \in CtConfigs
    BY <1>0, <1>3 DEF CtUpdate, CtHasChanges, CtEntries, CtDrafts
  <2>2. /\ "state" \in DOMAIN ctCall' /\ ctCall'.state = "sent" /\ ctCall'.type = "update"
        /\ ctCall'.listed = CtDiffer(CtOriginal.config, ctEntry.draft.config)
        /\ ctCall'.payload = CtPayload(CtOriginal.config, ctEntry.draft.config)
    BY <1>3 DEF CtUpdate
  <2>3. ctCall'.listed \subseteq CtFields
    BY <2>2 DEF CtDiffer
  <2>4. \A f \in CtFields \cap DOMAIN ctCall'.payload : ctCall'.payload[f] = ctEntry.draft.config[f]
    BY <2>2 DEF CtPayload
  <2> QED BY <2>1, <2>2, <2>3, <2>4, CtConfigHas DEF CtCarries
<1>4. CASE CtCreateReaches \/ CtUpdateReaches
  <2>1. PICK state \in {"done", "failed"} : ctCall' = [ctCall EXCEPT !.state = state]
    BY <1>4 DEF CtCreateReaches, CtUpdateReaches, CtFails
  <2> QED BY <1>0, <2>1 DEF CtCarries
<1>5. CASE CtCallAnswered
  BY <1>5 DEF CtCallAnswered, CtNoCall, CtCarries
<1> QED BY <1>1, <1>2, <1>3, <1>4, <1>5, CtCallDoes

LEMMA CtTypesStep == CtTypes /\ [CtNext]_ctVars => CtTypes'
<1> SUFFICES ASSUME CtTypes, [CtNext]_ctVars PROVE CtTypes'
  OBVIOUS
<1>1. (ctShown = CtNotRead \/ CtPool(ctShown))'
  <2>1. ctShown' = ctShown \/ ctShown' = ctConsumers
    BY DEF CtNext, CtFetch, CtFetchFails, CtOtherChanges, CtSelect, CtLink, CtTypeName, CtNew, CtEdit,
       CtMode, CtTypeLimit, CtTypeFilter, CtTypePriority, CtTypeKind, CtTypeJson, CtCancel, CtCreate,
       CtShowDiff, CtCloseDiff, CtUpdate, CtCreateReaches, CtUpdateReaches, CtCallAnswered, CtAsk, CtActNow,
       CtOption, CtCancelAsk, CtConfirmed, CtActReaches, CtActAnswered, CtLeave, CtReturn, CtAnswered,
       CtUse, CtSet, CtTyped, CtFails, CtAfterCall, CtStart, ctServer, ctDialogs, ctCalls, ctVars
  <2> QED BY <2>1 DEF CtTypes, CtPool
<1>2. /\ (ctReadOnly \in BOOLEAN)' /\ (ctOpen \in BOOLEAN)' /\ (ctAwait \in BOOLEAN)' /\ (ctReview \in BOOLEAN)'
      /\ (ctAsks \in BOOLEAN)'
  BY Zenon DEF CtTypes, CtNext, CtFetch, CtFetchFails, CtOtherChanges, CtSelect, CtLink, CtTypeName, CtNew,
     CtEdit, CtMode, CtTypeLimit, CtTypeFilter, CtTypePriority, CtTypeKind, CtTypeJson, CtCancel, CtCreate,
     CtShowDiff, CtCloseDiff, CtUpdate, CtCreateReaches, CtUpdateReaches, CtCallAnswered, CtAsk, CtActNow,
     CtOption, CtCancelAsk, CtConfirmed, CtActReaches, CtActAnswered, CtLeave, CtReturn, CtAnswered, CtUse,
     CtSet, CtTyped, CtFails, CtAfterCall, CtStart, ctServer, ctDialogs, ctCalls, ctVars
<1>3. (ctConfirm \in [type : {"none", "pause", "reset", "delete"}, name : CtNames \cup {""}, valid : BOOLEAN,
                      dontAsk : BOOLEAN])'
  <2> DEFINE Confirms == [type : {"none", "pause", "reset", "delete"}, name : CtNames \cup {""}, valid : BOOLEAN,
                          dontAsk : BOOLEAN]
  <2>1. ctConfirm \in Confirms /\ CtNoConfirm \in Confirms
    BY DEF CtTypes, CtNoConfirm
  <2>2. ASSUME NEW type, CtAsk(type) PROVE ctConfirm' \in Confirms
    <3>1. type \in {"pause", "reset", "delete"} /\ ctEntry.selected \in CtNames \cup {""}
      BY <2>2 DEF CtAsk, CtAsked, CtTypes, CtEntries
    <3> QED BY <2>2, <3>1 DEF CtAsk, CtNoConfirm
  <2>3. CASE CtOption
    BY <2>1, <2>3 DEF CtOption
  <2>4. ctConfirm' = ctConfirm \/ ctConfirm' = CtNoConfirm \/ CtOption \/ \E type : CtAsk(type)
    BY DEF CtNext, CtFetch, CtFetchFails, CtOtherChanges, CtSelect, CtLink, CtTypeName, CtNew, CtEdit,
       CtMode, CtTypeLimit, CtTypeFilter, CtTypePriority, CtTypeKind, CtTypeJson, CtCancel, CtCreate,
       CtShowDiff, CtCloseDiff, CtUpdate, CtCreateReaches, CtUpdateReaches, CtCallAnswered, CtActNow,
       CtCancelAsk, CtConfirmed, CtActReaches, CtActAnswered, CtLeave, CtReturn, CtAnswered, CtUse, CtSet,
       CtTyped, CtFails, CtAfterCall, CtStart, ctServer, ctDialogs, ctCalls, ctVars
  <2> QED BY <2>1, <2>2, <2>3, <2>4
<1>4. /\ ({"type", "state"} \subseteq DOMAIN ctAct)' /\ (ctAct.type \in {"none", "pause", "resume", "reset", "unpin", "delete"})'
      /\ (ctAct.state \in {"none", "sent", "done", "failed"})'
  <2>1. CASE ctAct' = ctAct
    BY <2>1 DEF CtTypes
  <2>2. CASE ctAct' = CtNoAct
    BY <2>2 DEF CtNoAct
  <2> DEFINE Types == {"none", "pause", "resume", "reset", "unpin", "delete"}
  <2>3. ASSUME NEW type \in Types, NEW name, NEW d, CtStart(type, name, d)
        PROVE  /\ ({"type", "state"} \subseteq DOMAIN ctAct)' /\ (ctAct.type \in Types)'
               /\ (ctAct.state \in {"none", "sent", "done", "failed"})'
    BY <2>3 DEF CtStart
  <2>4. CASE CtActReaches
    <3>1. PICK state \in {"done", "failed"} : ctAct' = [ctAct EXCEPT !.state = state]
      BY <2>4 DEF CtActReaches
    <3> QED BY <3>1 DEF CtTypes
  <2>5. CASE CtConfirmed
    <3>1. ctConfirm.type \in {"none", "pause", "resume", "reset", "unpin", "delete"}
      BY DEF CtTypes
    <3>2. CtStart(ctConfirm.type, ctConfirm.name, ctConfirm.dontAsk)
      BY <2>5 DEF CtConfirmed
    <3> QED BY <2>3, <3>1, <3>2
  <2>6. ASSUME NEW type \in {"pause", "resume", "reset", "unpin", "delete"}, CtActNow(type)
        PROVE  /\ ({"type", "state"} \subseteq DOMAIN ctAct)' /\ (ctAct.type \in Types)'
               /\ (ctAct.state \in {"none", "sent", "done", "failed"})'
    <3>1. PICK name : CtStart(type, name, FALSE)
      BY <2>6 DEF CtActNow
    <3>2. type \in Types
      OBVIOUS
    <3> HIDE DEF Types
    <3> QED BY <2>3, <3>1, <3>2
  <2>7. \/ ctAct' = ctAct \/ ctAct' = CtNoAct \/ CtActReaches \/ CtConfirmed
        \/ \E type \in {"pause", "resume", "reset", "unpin", "delete"} : CtActNow(type)
    BY DEF CtNext, CtFetch, CtFetchFails, CtOtherChanges, CtSelect, CtLink, CtTypeName, CtNew, CtEdit,
       CtMode, CtTypeLimit, CtTypeFilter, CtTypePriority, CtTypeKind, CtTypeJson, CtCancel, CtCreate,
       CtShowDiff, CtCloseDiff, CtUpdate, CtCreateReaches, CtUpdateReaches, CtCallAnswered, CtAsk, CtOption,
       CtCancelAsk, CtActAnswered, CtLeave, CtReturn, CtAnswered, CtUse, CtSet, CtTyped, CtFails,
       CtAfterCall, ctServer, ctDialogs, ctCalls, ctVars
  <2> QED BY <2>1, <2>2, <2>4, <2>5, <2>6, <2>7
<1>5. (ctOthers \in 0 .. CtMaxOthers)' /\ (ctPresses \in 0 .. CtMaxPresses)'
  <2>1. ctOthers' = ctOthers \/ (ctOthers < CtMaxOthers /\ ctOthers' = ctOthers + 1)
    BY DEF CtNext, CtFetch, CtFetchFails, CtOtherChanges, CtSelect, CtLink, CtTypeName, CtNew, CtEdit,
       CtMode, CtTypeLimit, CtTypeFilter, CtTypePriority, CtTypeKind, CtTypeJson, CtCancel, CtCreate,
       CtShowDiff, CtCloseDiff, CtUpdate, CtCreateReaches, CtUpdateReaches, CtCallAnswered, CtAsk, CtActNow,
       CtOption, CtCancelAsk, CtConfirmed, CtActReaches, CtActAnswered, CtLeave, CtReturn, CtAnswered,
       CtUse, CtSet, CtTyped, CtFails, CtAfterCall, CtStart, ctServer, ctDialogs, ctCalls, ctVars
  <2>2. ctPresses' = ctPresses \/ CtUse
    BY DEF CtNext, CtFetch, CtFetchFails, CtOtherChanges, CtSelect, CtLink, CtTypeName, CtNew, CtEdit,
       CtMode, CtTypeLimit, CtTypeFilter, CtTypePriority, CtTypeKind, CtTypeJson, CtCancel, CtCreate,
       CtShowDiff, CtCloseDiff, CtUpdate, CtCreateReaches, CtUpdateReaches, CtCallAnswered, CtAsk, CtActNow,
       CtOption, CtCancelAsk, CtConfirmed, CtActReaches, CtActAnswered, CtLeave, CtReturn, CtAnswered,
       CtSet, CtTyped, CtFails, CtAfterCall, CtStart, ctServer, ctDialogs, ctCalls, ctVars
  <2>3. ctOthers \in 0 .. CtMaxOthers /\ ctPresses \in 0 .. CtMaxPresses
    BY DEF CtTypes
  <2> QED BY <2>1, <2>2, <2>3, CtBoundsAre DEF CtUse
<1> QED BY <1>1, <1>2, <1>3, <1>4, <1>5, CtPoolStep, CtEntryType, CtCallType DEF CtTypes

\* Every reachable state of the consumers tab has its type (StreamConsumersTab.tsx).
THEOREM CtTypeCorrect == CtSpec => []CtTypeOK
<1>1. CtInit => CtTypes
  <2> SUFFICES ASSUME CtInit PROVE CtTypes
    OBVIOUS
  <2>1. PICK s \in SUBSET CtNames : ctConsumers = [n \in s |-> CtDefault]
    BY DEF CtInit
  <2>2. CtPool(ctConsumers)
    BY <2>1, CtDefaultIs DEF CtPool
  <2>3. CtClosed \in CtEntries /\ CtCarries(CtNoCall)
    BY DEF CtClosed, CtEntries, CtCarries, CtNoCall
  <2>4. 0 \in 0 .. CtMaxOthers /\ 0 \in 0 .. CtMaxPresses
    BY CtBoundsAre
  <2>5. /\ CtNoConfirm \in [type : {"none", "pause", "reset", "delete"}, name : CtNames \cup {""}, valid : BOOLEAN,
                             dontAsk : BOOLEAN]
        /\ {"type", "state"} \subseteq DOMAIN CtNoAct /\ CtNoAct.type = "none" /\ CtNoAct.state = "none"
    BY DEF CtNoConfirm, CtNoAct
  <2> QED BY <2>2, <2>3, <2>4, <2>5 DEF CtInit, CtTypes
<1>2. CtTypes => CtTypeOK
  BY DEF CtTypes, CtTypeOK, CtPool, CtEntries, CtCarries
<1> QED BY <1>1, <1>2, CtTypesStep, PTL DEF CtSpec

---------------------------------------------------------------------------
(*************************************************************************)
(* The connection editor: what a save sets and what a probe tried.       *)
(*************************************************************************)

\* What is stored, cached and typed, and an update under way: it carries the
\* settings exactly when they differ from those the form was filled with.
CeTypes ==
    /\ ceSaved \in CeConnections \cup {CeGone} /\ ceList \in CeConnections \cup {CeGone, CeNotRead}
    /\ cePage \in {"editor", "list", "elsewhere"} /\ ceMode \in {"create", "edit"}
    /\ ceForm \in CeForms /\ ceSnapshot \in CeForms
    /\ ceUpload # CeNoUpload => ceUpload.form \in CeForms

CeSaveInv ==
    /\ "state" \in DOMAIN ceSave
    /\ ceSave.state = "sent" =>
          /\ ceSave.form \in CeForms /\ ceSave.form.name = "n" /\ ceSave.form.urls \in {"u", "v"}
          /\ ceSave.form.settings \in {"", "p"}
          /\ ceSave.settings => ceSave.form.settings # ceSave.snapshot.settings

LEMMA CeFieldSets ==
    ASSUME NEW form \in CeForms
    PROVE  /\ \A v \in {"", "n"} : [form EXCEPT !.name = v] \in CeForms
           /\ \A v \in {"none", "u", "v", "bad"} : [form EXCEPT !.urls = v] \in CeForms
           /\ \A v \in {"none", "blank", "typed"} : [form EXCEPT !.auth = v] \in CeForms
           /\ \A v \in {"none", "cert"} : [form EXCEPT !.tls = v] \in CeForms
           /\ \A v \in {"", "p", "bad"} : [form EXCEPT !.settings = v] \in CeForms
           /\ \A v \in BOOLEAN : [form EXCEPT !.readOnly = v] \in CeForms
BY DEF CeForms

LEMMA CeFilled ==
    ASSUME NEW c \in CeConnections
    PROVE  /\ CeToForm(c) \in CeForms
           /\ \A f \in {"urls", "tls", "settings"} : CeToForm(c)[f] = c[f]
<1> DEFINE auth == IF c.auth = "none" THEN "none" ELSE "blank"
<1>1. CeToForm(c) = [c EXCEPT !.auth = auth] /\ auth \in {"none", "blank"}
  BY DEF CeToForm
<1> HIDE DEF auth
<1> QED BY <1>1 DEF CeConnections, CeForms

LEMMA CeApart == CeGone \notin CeConnections /\ CeNotRead \notin CeConnections /\ CeGone # CeNotRead
<1>1. "gone" \in DOMAIN CeGone /\ "gone" \in DOMAIN CeNotRead
  BY DEF CeGone, CeNotRead
<1>2. \A c \in CeConnections : "gone" \notin DOMAIN c
  BY DEF CeConnections
<1>3. CeGone.gone = TRUE /\ CeNotRead.gone = FALSE
  BY DEF CeGone, CeNotRead
<1> QED BY <1>1, <1>2, <1>3

LEMMA CeBlankIs == CeBlank \in CeForms /\ CeTypedIn \in CeForms
BY DEF CeBlank, CeTypedIn, CeForms

LEMMA CeChanges ==
    ASSUME NEW c \in CeConnections
    PROVE  /\ [c EXCEPT !.urls = "v"] \in CeConnections
           /\ \A v \in {"", "p"} : [c EXCEPT !.settings = v] \in CeConnections
           /\ [c EXCEPT !.readOnly = TRUE] \in CeConnections
BY DEF CeConnections

LEMMA CeUpdates ==
    ASSUME ceSave.form \in CeForms, ceSave.form.name = "n", ceSave.form.urls \in {"u", "v"},
           ceSave.form.settings \in {"", "p"}, ceSaved \in CeConnections,
           NEW auth \in {"none", "secret", "bare"}
    PROVE  /\ CeUpdated(auth) \in CeConnections
           /\ ~ceSave.settings => CeUpdated(auth).settings = ceSaved.settings
<1> DEFINE settings == IF ceSave.settings THEN ceSave.form.settings ELSE ceSaved.settings
<1>1. settings \in {"", "p"}
  BY DEF CeConnections
<1>2. CeUpdated(auth) = [ceSave.form EXCEPT !.auth = auth, !.settings = settings]
  BY DEF CeUpdated, CeForms
<1>3. ~ceSave.settings => settings = ceSaved.settings
  OBVIOUS
<1> HIDE DEF settings
<1> QED BY <1>1, <1>2, <1>3 DEF CeConnections, CeForms

LEMMA CeMergesAuth ==
    ASSUME NEW saved, NEW sent \in {"none", "blank", "typed"}, NEW auth \in CeMergedAuth(saved, sent)
    PROVE  auth \in {"none", "secret", "bare"}
BY DEF CeMergedAuth

\* Who changes what is stored, and the save.
LEMMA CeTypesStep == CeTypes /\ CeSaveInv /\ [CeNext]_ceVars => CeTypes'
<1> SUFFICES ASSUME CeTypes, CeSaveInv, [CeNext]_ceVars PROVE CeTypes'
  OBVIOUS
<1>1. CASE CeFetch
  <2>1. ceList' = ceSaved /\ ceSaved' = ceSaved /\ UNCHANGED <<cePage, ceMode, ceUpload>>
    BY <1>1 DEF CeFetch, ceServer
  <2>2. CASE ceSaved \in CeConnections
    <3>1. \/ ceForm' = CeToForm(ceSaved) /\ ceSnapshot' = CeToForm(ceSaved)
          \/ UNCHANGED <<ceForm, ceSnapshot>>
      BY <1>1 DEF CeFetch
    <3> QED BY <2>1, <2>2, <3>1, CeFilled DEF CeTypes
  <2>3. CASE ceSaved = CeGone
    <3>1. UNCHANGED <<ceForm, ceSnapshot>>
      BY <1>1, <2>3 DEF CeFetch
    <3> QED BY <2>1, <2>3, <3>1 DEF CeTypes
  <2> QED BY <2>2, <2>3 DEF CeTypes
<1>2. CASE CeOtherChanges
  <2>1. ceSaved # CeGone /\ UNCHANGED <<ceList, cePage, ceMode, ceSnapshot, ceForm, ceUpload>>
    BY <1>2 DEF CeOtherChanges, ceBase, ceEdited
  <2>2. PICK settings \in {"", "p"} :
           ceSaved' \in {CeGone, [ceSaved EXCEPT !.urls = "v"], [ceSaved EXCEPT !.settings = settings],
                         [ceSaved EXCEPT !.readOnly = TRUE]}
    <3>1. (IF ceSaved.settings = "" THEN "p" ELSE "") \in {"", "p"}
      OBVIOUS
    <3> QED BY <1>2, <3>1 DEF CeOtherChanges
  <2> QED BY <2>1, <2>2, CeChanges DEF CeTypes
<1>3. ASSUME NEW f, NEW v, CeTyped(f, v), [ceForm EXCEPT ![f] = v] \in CeForms
      PROVE  CeTypes'
  BY <1>3 DEF CeTyped, CeSetField, CeTypes, ceServer, ceBase
<1>4. CASE \/ CeTypeName("") \/ CeTypeName("n") \/ (\E v \in BOOLEAN : CeTypeReadOnly(v))
           \/ (\E v \in {"u", "v", "bad"} : CeTypeUrls(v)) \/ (\E v \in {"none", "blank", "typed"} : CeTypeAuth(v))
           \/ CeTypeTls \/ (\E v \in {"", "p", "bad"} : CeTypeSettings(v))
  <2>1. ceForm \in CeForms
    BY DEF CeTypes
  <2>2. ASSUME CeTypeName("") \/ CeTypeName("n") PROVE CeTypes'
    BY <2>1, <2>2, <1>3, CeFieldSets DEF CeTypeName
  <2>3. ASSUME NEW v \in BOOLEAN, CeTypeReadOnly(v) PROVE CeTypes'
    BY <2>1, <2>3, <1>3, CeFieldSets DEF CeTypeReadOnly
  <2>4. ASSUME NEW v \in {"u", "v", "bad"}, CeTypeUrls(v) PROVE CeTypes'
    BY <2>1, <2>4, <1>3, CeFieldSets DEF CeTypeUrls
  <2>5. ASSUME NEW v \in {"none", "blank", "typed"}, CeTypeAuth(v) PROVE CeTypes'
    BY <2>1, <2>5, <1>3, CeFieldSets DEF CeTypeAuth
  <2>6. ASSUME CeTypeTls PROVE CeTypes'
    BY <2>1, <2>6, <1>3, CeFieldSets DEF CeTypeTls
  <2>7. ASSUME NEW v \in {"", "p", "bad"}, CeTypeSettings(v) PROVE CeTypes'
    BY <2>1, <2>7, <1>3, CeFieldSets DEF CeTypeSettings
  <2> QED BY <1>4, <2>2, <2>3, <2>4, <2>5, <2>6, <2>7
<1>5. CASE CeRemoveTls
  <2>1. [ceForm EXCEPT !.tls = "none"] \in CeForms
    BY CeFieldSets DEF CeTypes
  <2> QED BY <1>5, <2>1 DEF CeRemoveTls, CeTypes, ceServer, ceBase
<1>6. CASE CeUploadChosen
  <2>1. ceUpload'.form \in CeForms /\ UNCHANGED <<ceSaved, ceList, cePage, ceMode, ceForm, ceSnapshot>>
    BY <1>6 DEF CeUploadChosen, CeTypes, ceServer, ceBase, ceEdited
  <2> QED BY <2>1 DEF CeTypes
<1>7. CASE CeUploadRead
  <2>1. [ceUpload.form EXCEPT !.auth = "typed"] \in CeForms
    BY <1>7, CeFieldSets DEF CeUploadRead, CeTypes
  <2> QED BY <1>7, <2>1 DEF CeUploadRead, CeTypes, ceServer, ceBase
<1>8. CASE CeSaveReaches
  <2>1. UNCHANGED <<ceList, cePage, ceMode, ceForm, ceSnapshot, ceUpload>>
    BY <1>8 DEF CeSaveReaches, ceBase, ceEdited
  <2>2. CASE ceSaved' = ceSaved
    BY <2>1, <2>2 DEF CeTypes
  <2>3. ASSUME NEW auth \in CeMergedAuth(ceSaved.auth, ceSave.form.auth), ceSaved' = CeUpdated(auth),
               ceSave.state = "sent", ceSaved # CeGone
        PROVE  CeTypes'
    <3>1. auth \in {"none", "secret", "bare"}
      BY <2>3, CeMergesAuth DEF CeSaveInv, CeForms
    <3>2. ceSaved' \in CeConnections
      BY <2>3, <3>1, CeUpdates DEF CeSaveInv, CeTypes
    <3> QED BY <2>1, <3>2 DEF CeTypes
  <2> QED BY <1>8, <2>2, <2>3 DEF CeSaveReaches
<1>9. CASE CeSaveAnswered
  <2>1. UNCHANGED <<ceSaved, ceList, ceMode, ceForm, ceSnapshot>> /\ cePage' \in {"list", cePage}
        /\ ceUpload' \in {ceUpload, CeNoUpload}
    BY <1>9 DEF CeSaveAnswered, ceServer, ceBase, ceEdited
  <2> QED BY <2>1 DEF CeTypes
<1>10. ASSUME NEW page \in {"list", "elsewhere"}, CeLeaves(page) PROVE CeTypes'
  BY <1>10 DEF CeLeaves, CeTypes, ceServer, ceBase, ceEdited
<1>11. CASE UNCHANGED <<ceSaved, ceList, cePage, ceMode, ceForm, ceSnapshot, ceUpload>>
  BY <1>11 DEF CeTypes
<1>12. CASE CeCancel \/ CeDiscardAnswered \/ CeGoes("list") \/ CeGoes("elsewhere")
  BY <1>10, <1>11, <1>12 DEF CeCancel, CeDiscardAnswered, CeGoes, ceServer, ceBase, ceEdited
<1>13. ASSUME NEW mode \in {"edit", "create"}, CeReopen(mode) PROVE CeTypes'
  <2>1. UNCHANGED <<ceSaved, ceList, ceUpload>> /\ cePage' = "editor" /\ ceMode' = mode
        /\ ceSnapshot' = ceForm' /\ (ceForm' = CeBlank \/ (ceForm' = CeToForm(ceList) /\ ceList \in CeConnections))
    BY <1>13 DEF CeReopen, ceServer
  <2> QED BY <2>1, CeBlankIs, CeFilled DEF CeTypes
<1>14. CASE CeOpenTls \/ CeTestStart \/ CeTestReaches \/ CeTestAnswered \/ CeSaveStart \/ UNCHANGED ceVars
  BY <1>11, <1>14 DEF CeOpenTls, CeTestStart, CeTestReaches, CeTestAnswered, CeSaveStart, ceVars, ceServer, ceBase,
     ceEdited
<1> QED BY <1>1, <1>2, <1>4, <1>5, <1>6, <1>7, <1>8, <1>9, <1>12, <1>13, <1>14 DEF CeNext

\* Who changes the save under way.
LEMMA CeSaveDoes ==
    ASSUME [CeNext]_ceVars, ~CeSaveStart, ~CeSaveReaches, ~CeSaveAnswered
    PROVE  ceSave' = ceSave
BY DEF CeNext, ceVars, CeFetch, CeOtherChanges, CeTypeName, CeTypeReadOnly, CeTypeUrls, CeTypeAuth, CeTypeTls,
   CeTypeSettings, CeTyped, CeOpenTls, CeRemoveTls, CeUploadChosen, CeUploadRead, CeTestStart, CeTestReaches,
   CeTestAnswered, CeCancel, CeDiscardAnswered, CeGoes, CeLeaves, CeReopen

LEMMA CeSaveStep == CeTypes /\ CeSaveInv /\ [CeNext]_ceVars => CeSaveInv'
<1> SUFFICES ASSUME CeTypes, CeSaveInv, [CeNext]_ceVars PROVE CeSaveInv'
  OBVIOUS
<1>1. CASE ceSave' = ceSave
  BY <1>1 DEF CeSaveInv
<1>2. CASE CeSaveStart
  <2>1. ceErrors' = CeNameWrong \cup CeUrlsWrong \cup CeSettingsWrong
        /\ (ceErrors' = {} => ceSave' = [state |-> "sent", type |-> ceMode, form |-> ceForm, snapshot |-> ceSnapshot,
                                      settings |-> CeSettingsChanged(ceForm, ceSnapshot)])
        /\ (ceErrors' # {} => ceSave' = CeNoCall)
    BY <1>2 DEF CeSaveStart
  <2>2. CASE ceErrors' = {}
    <3>1. ceForm.name = "n" /\ ceForm.urls \in {"u", "v"} /\ ceForm.settings \in {"", "p"} /\ ceForm \in CeForms
      <4>1. CeNameWrong = {} /\ CeUrlsWrong = {} /\ CeSettingsWrong = {}
        BY <2>1, <2>2
      <4>2. ceForm.name # "" /\ ceForm.urls \notin {"none", "bad"} /\ ceForm.settings # "bad"
        BY <4>1 DEF CeNameWrong, CeUrlsWrong, CeSettingsWrong
      <4> QED BY <4>2 DEF CeTypes, CeForms
    <3>2. PICK settings : /\ ceSave' = [state |-> "sent", type |-> ceMode, form |-> ceForm, snapshot |-> ceSnapshot,
                                     settings |-> settings]
                          /\ settings => ceForm.settings # ceSnapshot.settings
      BY <2>1, <2>2 DEF CeSettingsChanged
    <3>3. /\ "state" \in DOMAIN ceSave' /\ ceSave'.form = ceForm
          /\ ceSave'.settings => ceSave'.form.settings # ceSave'.snapshot.settings
      BY <3>2
    <3> QED BY <3>1, <3>3 DEF CeSaveInv
  <2>3. CASE ceErrors' # {}
    <3>1. ceSave' = CeNoCall
      BY <2>1, <2>3
    <3>2. "state" \in DOMAIN CeNoCall /\ CeNoCall.state # "sent"
      BY DEF CeNoCall
    <3>3. "state" \in DOMAIN ceSave' /\ ceSave'.state # "sent"
      BY <3>1, <3>2
    <3> QED BY <3>3 DEF CeSaveInv
  <2> QED BY <2>2, <2>3
<1>3. CASE CeSaveReaches
  <2>1. PICK state \in {"done", "failed"} : ceSave' = [ceSave EXCEPT !.state = state]
    BY <1>3 DEF CeSaveReaches
  <2>2. "state" \in DOMAIN ceSave
    BY DEF CeSaveInv
  <2>3. "state" \in DOMAIN ceSave' /\ ceSave'.state # "sent"
    BY <2>1, <2>2
  <2> QED BY <2>3 DEF CeSaveInv
<1>4. CASE CeSaveAnswered
  BY <1>4 DEF CeSaveAnswered, CeSaveInv, CeNoCall
<1> QED BY <1>1, <1>2, <1>3, <1>4, CeSaveDoes

LEMMA CeSaveInvariant == CeSpec => [](CeTypes /\ CeSaveInv)
<1>1. CeInit => CeTypes /\ CeSaveInv
  <2> SUFFICES ASSUME CeInit PROVE CeTypes /\ CeSaveInv
    OBVIOUS
  <2>1. ceSaved \in CeConnections
    <3>1. PICK auth \in {"none", "secret"}, settings \in {"", "p"} :
             ceSaved = [name |-> "n", urls |-> "u", auth |-> auth, tls |-> "none", settings |-> settings, readOnly |-> FALSE]
      BY DEF CeInit
    <3> QED BY <3>1 DEF CeConnections
  <2>2. CeTypes
    BY <2>1, CeBlankIs DEF CeInit, CeTypes
  <2>3. CeSaveInv
    BY DEF CeInit, CeSaveInv, CeNoCall
  <2> QED BY <2>2, <2>3
<1>2. CeTypes /\ CeSaveInv /\ [CeNext]_ceVars => (CeTypes /\ CeSaveInv)'
  BY CeTypesStep, CeSaveStep
<1> QED BY <1>1, <1>2, PTL DEF CeSpec

LEMMA CeSettingsStepKept == CeTypes /\ CeSaveInv /\ [CeNext]_ceVars => CeSettingsStep
<1> SUFFICES ASSUME CeTypes, CeSaveInv, [CeNext]_ceVars, ceSave.state = "sent", ceSave'.state = "done",
                    ceSaved'.settings # ceSaved.settings
             PROVE  ceSave.form.settings # ceSave.snapshot.settings
  BY DEF CeSettingsStep
<1>1. CeNoCall.state = "none"
  BY DEF CeNoCall
<1>2. CeSaveReaches
  <2>1. ~CeSaveStart /\ ~CeSaveAnswered
    BY <1>1 DEF CeSaveStart, CeOffersSave, CeSaveAnswered
  <2> QED BY <2>1, CeSaveDoes
<1>3. PICK auth \in CeMergedAuth(ceSaved.auth, ceSave.form.auth) : ceSaved' = CeUpdated(auth) /\ ceSaved # CeGone
  BY <1>2 DEF CeSaveReaches
<1>4. auth \in {"none", "secret", "bare"}
  BY CeMergesAuth DEF CeSaveInv, CeForms
<1>5. ceSaved \in CeConnections
  BY <1>3 DEF CeTypes
<1>6. ceSave.settings
  BY <1>3, <1>4, <1>5, CeUpdates DEF CeSaveInv
<1> QED BY <1>6 DEF CeSaveInv

\* A save sets the settings of the connection only if the user edited them.
THEOREM SettingsAreKept == CeSpec => [][CeSettingsStep]_ceVars
BY CeSettingsStepKept, CeSaveInvariant, PTL DEF CeSpec

\* A probe of a saved connection was begun from its filled form, with what was
\* typed or what was stored then; what is told of it was tried with the parts
\* stored and the settings that were sent.
CeBegun(r, form) ==
    /\ form \in CeForms
    /\ r.edit => ceHydrated /\ r.known \in CeConnections /\ (~r.usedSaved => ~CeUsedSaved(form, ceSnapshot))

CeTold(r, form) ==
    /\ ~r.edit => r.probed = form
    /\ r.edit =>
          /\ r.saved \in CeConnections
          /\ \A f \in {"urls", "auth", "tls"} : r.probed[f] = CeToForm(r.saved)[f]
          /\ r.probed.settings = IF CeSettingsSent(r.known, form) THEN form.settings ELSE r.saved.settings

CeProbeInv ==
    /\ cePage # "editor" => ceTest = CeNoCall
    /\ cePage = "editor" /\ ceMode = "edit" /\ ceList \in CeConnections => ceHydrated
    /\ ceTest.state \in {"sent", "done"} => CeBegun(ceTest, ceTest.form)
    /\ ceTest.state = "done" => CeTold(ceTest, ceTest.form)
    /\ ceResult # CeNoResult => CeBegun(ceResult, ceResult.snap) /\ CeTold(ceResult, ceResult.snap)

\* What the probe of a saved connection tries.
LEMMA CeProbes ==
    ASSUME NEW c \in CeConnections, NEW form \in CeForms, NEW known
    PROVE  LET probed == [CeToForm(c) EXCEPT !.settings = IF CeSettingsSent(known, form) THEN form.settings ELSE @] IN
           /\ \A f \in {"urls", "auth", "tls"} : probed[f] = CeToForm(c)[f]
           /\ probed.settings = IF CeSettingsSent(known, form) THEN form.settings ELSE c.settings
<1>1. CeToForm(c) \in CeForms /\ CeToForm(c).settings = c.settings
  BY CeFilled
<1> QED BY <1>1 DEF CeForms

\* A probe that was begun stays so while the form is filled no other way.
LEMMA CeBegunStays ==
    ASSUME NEW r, NEW form, CeBegun(r, form),
           ceHydrated => UNCHANGED <<ceHydrated, ceSnapshot>>
    PROVE  /\ form \in CeForms
           /\ r.edit => ceHydrated' /\ r.known \in CeConnections /\ (~r.usedSaved => ~CeUsedSaved(form, ceSnapshot'))
BY DEF CeBegun

LEMMA CeProbesStay ==
    ASSUME CeProbeInv, ceHydrated => UNCHANGED <<ceHydrated, ceSnapshot>>,
           ceTest' = ceTest \/ ceTest' = CeNoCall, ceResult' = ceResult \/ ceResult' = CeNoResult,
           cePage' # "editor" => ceTest' = CeNoCall,
           cePage' = "editor" /\ ceMode' = "edit" /\ ceList' \in CeConnections => ceHydrated'
    PROVE  CeProbeInv'
<1>1. CeNoCall.state = "none"
  BY DEF CeNoCall
<1>2. ASSUME ceTest'.state \in {"sent", "done"}
      PROVE  CeBegun(ceTest, ceTest.form)' /\ (ceTest'.state = "done" => CeTold(ceTest, ceTest.form)')
  <2>1. ceTest' = ceTest
    BY <1>1, <1>2
  <2>2. CeBegun(ceTest, ceTest.form) /\ (ceTest.state = "done" => CeTold(ceTest, ceTest.form))
    BY <1>2, <2>1 DEF CeProbeInv
  <2>3. CeBegun(ceTest, ceTest.form)'
    BY <2>1, <2>2, CeBegunStays DEF CeBegun
  <2>4. CeTold(ceTest, ceTest.form) => CeTold(ceTest, ceTest.form)'
    BY <2>1 DEF CeTold
  <2> QED BY <2>1, <2>2, <2>3, <2>4
<1>3. ASSUME ceResult' # CeNoResult
      PROVE  CeBegun(ceResult, ceResult.snap)' /\ CeTold(ceResult, ceResult.snap)'
  <2>1. ceResult' = ceResult
    BY <1>3
  <2>2. CeBegun(ceResult, ceResult.snap) /\ CeTold(ceResult, ceResult.snap)
    BY <1>3, <2>1 DEF CeProbeInv
  <2>3. CeBegun(ceResult, ceResult.snap)'
    BY <2>1, <2>2, CeBegunStays DEF CeBegun
  <2>4. CeTold(ceResult, ceResult.snap)'
    BY <2>1, <2>2 DEF CeTold
  <2> QED BY <2>3, <2>4
<1> QED BY <1>2, <1>3 DEF CeProbeInv

LEMMA CeProbeStep == CeTypes /\ CeProbeInv /\ [CeNext]_ceVars => CeProbeInv'
<1> SUFFICES ASSUME CeTypes, CeProbeInv, [CeNext]_ceVars PROVE CeProbeInv'
  OBVIOUS
<1>0. /\ cePage # "editor" => ceTest = CeNoCall
      /\ cePage = "editor" /\ ceMode = "edit" /\ ceList \in CeConnections => ceHydrated
  BY DEF CeProbeInv
<1>1. CASE CeFetch
  <2>1. UNCHANGED <<cePage, ceMode, ceTest, ceResult>> /\ ceList' = ceSaved
    BY <1>1 DEF CeFetch
  <2>2. ceHydrated => UNCHANGED <<ceHydrated, ceSnapshot>>
    BY <1>1 DEF CeFetch
  <2>3. cePage = "editor" /\ ceMode = "edit" /\ ceSaved \in CeConnections => ceHydrated'
    <3>1. ceSaved \in CeConnections => ceSaved # CeGone
      BY CeApart
    <3> QED BY <1>1, <3>1 DEF CeFetch
  <2> QED BY <1>0, <2>1, <2>2, <2>3, CeProbesStay
<1>2. CASE UNCHANGED <<cePage, ceMode, ceSnapshot, ceHydrated, ceList, ceTest, ceResult>>
  BY <1>0, <1>2, CeProbesStay
<1>3. CASE CeSaveAnswered
  <2>1. UNCHANGED <<ceMode, ceSnapshot, ceHydrated, ceList, ceResult>> /\ cePage' \in {"list", cePage}
        /\ ceTest' = IF cePage' = cePage THEN ceTest ELSE CeNoCall
    BY <1>3 DEF CeSaveAnswered, ceBase
  <2> QED BY <1>0, <2>1, CeProbesStay
<1>4. ASSUME NEW page \in {"list", "elsewhere"}, CeLeaves(page) PROVE CeProbeInv'
  <2>1. UNCHANGED <<ceMode, ceSnapshot, ceHydrated, ceList, ceResult>> /\ cePage' = page /\ ceTest' = CeNoCall
    BY <1>4 DEF CeLeaves, ceBase
  <2> QED BY <2>1, CeProbesStay
<1>5. CASE CeCancel \/ CeDiscardAnswered \/ CeGoes("list") \/ CeGoes("elsewhere")
  BY <1>2, <1>4, <1>5 DEF CeCancel, CeDiscardAnswered, CeGoes, ceBase
<1>6. ASSUME NEW mode \in {"edit", "create"}, CeReopen(mode) PROVE CeProbeInv'
  <2>1. cePage = "list" /\ ceTest' = ceTest /\ ceResult' = CeNoResult /\ ceList' = ceList /\ ceMode' = mode
        /\ cePage' = "editor" /\ ceHydrated' = (mode = "edit" /\ ceList \in CeConnections)
    BY <1>6 DEF CeReopen
  <2>2. ceTest' = CeNoCall /\ CeNoCall.state = "none"
    BY <1>0, <2>1 DEF CeNoCall
  <2> QED BY <2>1, <2>2 DEF CeProbeInv
<1>7. CASE CeTestStart
  <2>1. UNCHANGED <<cePage, ceMode, ceSnapshot, ceHydrated, ceList, ceResult>> /\ CeOnScreen
    BY <1>7 DEF CeTestStart, ceBase, CeOffersTest, CeFront
  <2>2. CASE ceTest' = CeNoCall
    BY <1>0, <2>1, <2>2, CeProbesStay
  <2>3. CASE ceTest' = [state |-> "sent", form |-> ceForm, edit |-> ceMode = "edit",
                        usedSaved |-> ceMode = "edit" /\ CeUsedSaved(ceForm, ceSnapshot), known |-> ceList]
    <3>1. ceTest'.state = "sent" /\ ceTest'.form = ceForm /\ ceTest'.known = ceList
          /\ (ceTest'.edit => ceMode = "edit")
      BY <2>3
    <3>2. ceTest'.usedSaved <=> ceMode = "edit" /\ CeUsedSaved(ceForm, ceSnapshot)
      BY <2>3
    <3>3. ceMode = "edit" => ceList \in CeConnections /\ ceHydrated /\ cePage = "editor"
      BY <1>0, <2>1 DEF CeOnScreen, CeHydrating, CeNotFound, CeTypes
    <3>4. CeBegun(ceTest, ceTest.form)'
      BY <2>1, <3>1, <3>2, <3>3 DEF CeBegun, CeTypes
    <3>5. ceResult' # CeNoResult => CeBegun(ceResult, ceResult.snap)' /\ CeTold(ceResult, ceResult.snap)'
      BY <2>1 DEF CeProbeInv, CeBegun, CeTold
    <3>6. cePage' = "editor"
      BY <2>1 DEF CeOnScreen
    <3> QED BY <1>0, <2>1, <3>1, <3>4, <3>5, <3>6 DEF CeProbeInv
  <2> QED BY <1>7, <2>2, <2>3 DEF CeTestStart
<1>8. CASE CeTestReaches
  <2>1. UNCHANGED <<cePage, ceMode, ceSnapshot, ceHydrated, ceList, ceResult>> /\ ceTest.state = "sent"
    BY <1>8 DEF CeTestReaches, ceBase
  <2>2. cePage = "editor"
    BY <1>0, <2>1 DEF CeNoCall
  <2>3. ceResult' # CeNoResult => CeBegun(ceResult, ceResult.snap)' /\ CeTold(ceResult, ceResult.snap)'
    BY <2>1 DEF CeProbeInv, CeBegun, CeTold
  <2>4. CASE ceTest' = [state |-> "failed"]
    <3>1. ceTest'.state = "failed"
      BY <2>4
    <3> QED BY <1>0, <2>1, <2>2, <2>3, <3>1 DEF CeProbeInv
  <2>5. ASSUME NEW ok \in BOOLEAN, ~ceTest.edit \/ ceSaved # CeGone,
               ceTest' = [state |-> "done", form |-> ceTest.form, usedSaved |-> ceTest.usedSaved, ok |-> ok,
                          probed |-> CeProbed, saved |-> ceSaved, known |-> ceTest.known, edit |-> ceTest.edit]
        PROVE  CeProbeInv'
    <3>1. CeBegun(ceTest, ceTest.form)
      BY <2>1 DEF CeProbeInv
    <3>2. ceTest'.state = "done" /\ ceTest'.form = ceTest.form /\ ceTest'.usedSaved = ceTest.usedSaved
          /\ ceTest'.probed = CeProbed /\ ceTest'.saved = ceSaved /\ ceTest'.known = ceTest.known /\ ceTest'.edit = ceTest.edit
      BY <2>5
    <3>3. CeBegun(ceTest, ceTest.form)'
      BY <2>1, <3>1, <3>2 DEF CeBegun
    <3>4. ~ceTest.edit => CeProbed = ceTest.form
      BY DEF CeProbed
    <3>5. ASSUME ceTest.edit
          PROVE  /\ ceSaved \in CeConnections
                 /\ \A f \in {"urls", "auth", "tls"} : CeProbed[f] = CeToForm(ceSaved)[f]
                 /\ CeProbed.settings = IF CeSettingsSent(ceTest.known, ceTest.form) THEN ceTest.form.settings ELSE ceSaved.settings
      <4>1. ceSaved \in CeConnections /\ ceTest.form \in CeForms
        BY <2>5, <3>1, <3>5 DEF CeTypes, CeBegun
      <4>2. CeProbed = [CeToForm(ceSaved) EXCEPT !.settings = IF CeSettingsSent(ceTest.known, ceTest.form) THEN ceTest.form.settings ELSE @]
        BY <3>5 DEF CeProbed
      <4> QED BY <4>1, <4>2, CeProbes
    <3>6. CeTold(ceTest, ceTest.form)'
      BY <3>2, <3>4, <3>5 DEF CeTold
    <3> QED BY <1>0, <2>1, <2>2, <2>3, <3>3, <3>6 DEF CeProbeInv
  <2> QED BY <1>8, <2>4, <2>5 DEF CeTestReaches
<1>9. CASE CeTestAnswered
  <2>1. UNCHANGED <<cePage, ceMode, ceSnapshot, ceHydrated, ceList>> /\ ceTest' = CeNoCall
    BY <1>9 DEF CeTestAnswered, ceBase
  <2>2. CASE ceResult' = CeNoResult
    BY <1>0, <2>1, <2>2, CeProbesStay
  <2>3. CASE ceTest.state = "done"
    <3>1. ceResult'.snap = ceTest.form /\ ceResult'.usedSaved = ceTest.usedSaved /\ ceResult'.probed = ceTest.probed
          /\ ceResult'.saved = ceTest.saved /\ ceResult'.known = ceTest.known /\ ceResult'.edit = ceTest.edit
      BY <1>9, <2>3 DEF CeTestAnswered
    <3>2. CeBegun(ceTest, ceTest.form) /\ CeTold(ceTest, ceTest.form)
      BY <2>3 DEF CeProbeInv
    <3>3. CeBegun(ceResult, ceResult.snap)'
      BY <2>1, <3>1, <3>2 DEF CeBegun
    <3>4. CeTold(ceResult, ceResult.snap)'
      BY <3>1, <3>2 DEF CeTold
    <3>5. CeNoCall.state = "none"
      BY DEF CeNoCall
    <3> QED BY <1>0, <2>1, <3>3, <3>4, <3>5 DEF CeProbeInv
  <2> QED BY <1>9, <2>2, <2>3 DEF CeTestAnswered
<1>10. CASE \/ CeOtherChanges \/ CeTypeName("") \/ CeTypeName("n") \/ (\E v \in BOOLEAN : CeTypeReadOnly(v))
            \/ (\E v \in {"u", "v", "bad"} : CeTypeUrls(v)) \/ (\E v \in {"none", "blank", "typed"} : CeTypeAuth(v))
            \/ CeTypeTls \/ CeOpenTls \/ CeRemoveTls \/ (\E v \in {"", "p", "bad"} : CeTypeSettings(v))
            \/ CeUploadChosen \/ CeUploadRead \/ CeSaveStart \/ CeSaveReaches \/ UNCHANGED ceVars
  BY <1>2, <1>10 DEF CeOtherChanges, CeTypeName, CeTypeReadOnly, CeTypeUrls, CeTypeAuth, CeTypeTls, CeTypeSettings,
     CeTyped, CeOpenTls, CeRemoveTls, CeUploadChosen, CeUploadRead, CeSaveStart, CeSaveReaches, ceVars, ceBase, ceEdited
<1> QED BY <1>1, <1>3, <1>5, <1>6, <1>7, <1>8, <1>9, <1>10 DEF CeNext

\* The parts of what was probed are those of the form, unless the connection
\* was changed at the server.
LEMMA CeHonest == CeTypes /\ CeProbeInv => CeProbeHonest
<1> SUFFICES ASSUME CeTypes, CeProbeInv, ceResult # CeNoResult, ~CeStale, ~ceResult.usedSaved,
                    NEW f \in {"urls", "auth", "tls", "settings"}
             PROVE  \/ ceResult.probed[f] = ceForm[f]
                    \/ ceResult.edit /\ CeToForm(ceResult.saved)[f] # ceSnapshot[f]
                    \/ ceResult.edit /\ ceResult.saved[f] # ceResult.known[f]
  BY DEF CeProbeHonest
<1>1. ceResult.snap = ceForm /\ CeBegun(ceResult, ceForm) /\ CeTold(ceResult, ceForm)
  BY DEF CeStale, CeProbeInv
<1>2. CASE ~ceResult.edit
  BY <1>1, <1>2 DEF CeTold
<1>3. CASE ceResult.edit /\ f \in {"urls", "auth", "tls"}
  <2>1. ceForm.urls = ceSnapshot.urls /\ ceForm.auth = ceSnapshot.auth /\ ceForm.tls = ceSnapshot.tls
    BY <1>1, <1>3 DEF CeBegun, CeUsedSaved, CeSavedParts
  <2>2. ceResult.probed[f] = CeToForm(ceResult.saved)[f]
    BY <1>1, <1>3 DEF CeTold
  <2>3. ceForm[f] = ceSnapshot[f]
    BY <1>3, <2>1
  <2> QED BY <1>3, <2>2, <2>3
<1>4. CASE ceResult.edit /\ f = "settings" /\ CeSettingsSent(ceResult.known, ceForm)
  BY <1>1, <1>4 DEF CeTold
<1>5. CASE ceResult.edit /\ f = "settings" /\ ~CeSettingsSent(ceResult.known, ceForm)
  <2>1. ceResult.probed.settings = ceResult.saved.settings
    BY <1>1, <1>5 DEF CeTold
  <2>2. ceForm.settings = "" /\ ceResult.known.settings = ""
    BY <1>1, <1>5 DEF CeSettingsSent, CeBegun
  <2> QED BY <1>5, <2>1, <2>2
<1> QED BY <1>2, <1>3, <1>4, <1>5

\* A probe shown without a warning tried what the form says.
THEOREM ProbeIsHonest == CeSpec => []CeProbeHonest
<1>1. CeInit => CeProbeInv
  <2>1. CeNoCall.state = "none"
    BY DEF CeNoCall
  <2> QED BY <2>1, CeApart DEF CeInit, CeProbeInv
<1>2. CeTypes /\ CeSaveInv /\ CeProbeInv /\ [CeNext]_ceVars => CeProbeInv'
  BY CeProbeStep
<1> QED BY <1>1, <1>2, CeSaveInvariant, CeHonest, PTL DEF CeSpec

\* The flags, the marks and the counters of the editor.
CeFlags ==
    /\ ceHydrated \in BOOLEAN /\ ceTlsOpen \in BOOLEAN /\ ceDiscard \in BOOLEAN
    /\ ceErrors \subseteq {"name", "urls", "settings"}
    /\ ceTest.state \in {"none", "sent", "done", "failed"}
    /\ "state" \in DOMAIN ceSave /\ ceSave.state \in {"none", "sent", "done", "failed"}
    /\ ceOthers \in 0 .. CeMaxOthers /\ cePresses \in 0 .. CeMaxPresses

LEMMA CeFlagsStep == CeFlags /\ [CeNext]_ceVars => CeFlags'
<1> SUFFICES ASSUME CeFlags, [CeNext]_ceVars PROVE CeFlags'
  OBVIOUS
<1>1. (ceHydrated \in BOOLEAN)' /\ (ceTlsOpen \in BOOLEAN)' /\ (ceDiscard \in BOOLEAN)'
  BY Zenon DEF CeFlags, CeNext, CeFetch, CeOtherChanges, CeTypeName, CeTypeReadOnly, CeTypeUrls, CeTypeAuth,
     CeTypeTls, CeOpenTls, CeRemoveTls, CeTypeSettings, CeUploadChosen, CeUploadRead, CeTestStart,
     CeTestReaches, CeTestAnswered, CeSaveStart, CeSaveReaches, CeSaveAnswered, CeCancel, CeDiscardAnswered,
     CeGoes, CeReopen, CeTyped, CeUse, CeLeaves, CeSetField, ceServer, ceBase, ceEdited, ceVars
<1>2. (ceErrors \subseteq {"name", "urls", "settings"})'
  BY DEF CeFlags, CeUrlsWrong, CeSettingsWrong, CeNameWrong, CeNext, CeFetch, CeOtherChanges, CeTypeName,
     CeTypeReadOnly, CeTypeUrls, CeTypeAuth, CeTypeTls, CeOpenTls, CeRemoveTls, CeTypeSettings,
     CeUploadChosen, CeUploadRead, CeTestStart, CeTestReaches, CeTestAnswered, CeSaveStart, CeSaveReaches,
     CeSaveAnswered, CeCancel, CeDiscardAnswered, CeGoes, CeReopen, CeTyped, CeUse, CeLeaves, CeSetField,
     ceServer, ceBase, ceEdited, ceVars
<1>a. "state" \in DOMAIN CeNoCall /\ CeNoCall.state = "none"
  BY DEF CeNoCall
<1>3. (ceTest.state \in {"none", "sent", "done", "failed"})'
  <2>1. \/ ceTest' = ceTest \/ ceTest' = CeNoCall \/ CeTestStart \/ CeTestReaches
    BY DEF CeNext, CeFetch, CeOtherChanges, CeTypeName, CeTypeReadOnly, CeTypeUrls, CeTypeAuth, CeTypeTls,
       CeOpenTls, CeRemoveTls, CeTypeSettings, CeUploadChosen, CeUploadRead, CeTestAnswered, CeSaveStart,
       CeSaveReaches, CeSaveAnswered, CeCancel, CeDiscardAnswered, CeGoes, CeReopen, CeTyped, CeUse,
       CeLeaves, CeSetField, ceServer, ceBase, ceEdited, ceVars
  <2>2. CeTestStart => ceTest'.state \in {"sent", "none"}
    BY <1>a DEF CeTestStart
  <2>3. CeTestReaches => ceTest'.state \in {"done", "failed"}
    BY DEF CeTestReaches
  <2> QED BY <1>a, <2>1, <2>2, <2>3 DEF CeFlags
<1>4. ("state" \in DOMAIN ceSave /\ ceSave.state \in {"none", "sent", "done", "failed"})'
  <2>1. CASE ceSave' = ceSave \/ ceSave' = CeNoCall
    BY <1>a, <2>1 DEF CeFlags
  <2>2. CASE CeSaveStart
    BY <1>a, <2>2 DEF CeSaveStart
  <2>3. CASE CeSaveReaches
    <3>1. PICK s \in {"done", "failed"} : ceSave' = [ceSave EXCEPT !.state = s]
      BY <2>3 DEF CeSaveReaches
    <3> QED BY <3>1 DEF CeFlags
  <2> QED
    BY <2>1, <2>2, <2>3, CeSaveDoes DEF CeSaveAnswered
<1>5. (ceOthers \in 0 .. CeMaxOthers /\ cePresses \in 0 .. CeMaxPresses)'
  <2>1. ceOthers' = ceOthers \/ (ceOthers < CeMaxOthers /\ ceOthers' = ceOthers + 1)
    BY DEF CeNext, CeFetch, CeOtherChanges, CeTypeName, CeTypeReadOnly, CeTypeUrls, CeTypeAuth, CeTypeTls,
       CeOpenTls, CeRemoveTls, CeTypeSettings, CeUploadChosen, CeUploadRead, CeTestStart, CeTestReaches,
       CeTestAnswered, CeSaveStart, CeSaveReaches, CeSaveAnswered, CeCancel, CeDiscardAnswered, CeGoes,
       CeReopen, CeTyped, CeUse, CeLeaves, CeSetField, ceServer, ceBase, ceEdited, ceVars
  <2>2. cePresses' = cePresses \/ CeUse
    BY DEF CeNext, CeFetch, CeOtherChanges, CeTypeName, CeTypeReadOnly, CeTypeUrls, CeTypeAuth, CeTypeTls,
       CeOpenTls, CeRemoveTls, CeTypeSettings, CeUploadChosen, CeUploadRead, CeTestStart, CeTestReaches,
       CeTestAnswered, CeSaveStart, CeSaveReaches, CeSaveAnswered, CeCancel, CeDiscardAnswered, CeGoes,
       CeReopen, CeTyped, CeLeaves, CeSetField, ceServer, ceBase, ceEdited, ceVars
  <2> QED BY <2>1, <2>2, CeAssumption DEF CeAssumption, CeFlags, CeUse
<1> QED BY <1>1, <1>2, <1>3, <1>4, <1>5 DEF CeFlags

\* Every reachable state of the connection editor has its type (ConnectionEditPage.tsx).
THEOREM CeTypeCorrect == CeSpec => []CeTypeOK
<1>1. CeInit => CeFlags
  <2>1. "state" \in DOMAIN CeNoCall /\ CeNoCall.state = "none"
    BY DEF CeNoCall
  <2>2. CeInit => /\ ceHydrated = FALSE /\ ceTlsOpen = FALSE /\ ceDiscard = FALSE /\ ceErrors = {}
                  /\ ceTest = CeNoCall /\ ceSave = CeNoCall /\ ceOthers = 0 /\ cePresses = 0
    BY DEF CeInit
  <2>3. 0 \in 0 .. CeMaxOthers /\ 0 \in 0 .. CeMaxPresses
    BY CeAssumption DEF CeAssumption
  <2> QED BY <2>1, <2>2, <2>3 DEF CeFlags
<1>2. CeFlags /\ [CeNext]_ceVars => CeFlags'
  BY CeFlagsStep
<1>3. CeTypes /\ CeFlags => CeTypeOK
  BY DEF CeTypes, CeFlags, CeTypeOK
<1> QED BY <1>1, <1>2, <1>3, CeSaveInvariant, PTL DEF CeSpec

---------------------------------------------------------------------------
(*************************************************************************)
(* The active connection: what is named is what the requests go to.      *)
(*************************************************************************)

\* What is stored beside the active connection is of that connection, and the
\* layout, once it is mounted, is of both; the start page has no layout.
CsSessionInv ==
    /\ csInfo.id = csActive
    /\ csLayout.mounted => csLayout.id = csActive /\ csLayout.current = csActive
    /\ csPage = "start" => ~csLayout.mounted


LEMMA CsAnsweredKeeps ==
    ASSUME CsSessionInv, CsAnswered
    PROVE  CsSessionInv'
<1>1. CASE csLayout.mounted /\ csLayout.id \in DOMAIN csSaved
  <2>1. csLayout' = CsMounted(csLayout.id, csLayout.id) /\ csInfo' = [id |-> csLayout.id, readOnly |-> csSaved[csLayout.id]]
        /\ csActive' = csActive /\ csPage' = csPage
    BY <1>1 DEF CsAnswered, CsResolved, CsStoreInfo
  <2> QED BY <1>1, <2>1 DEF CsSessionInv, CsMounted
<1>2. CASE CsResume(csSaved)
  <2>1. CASE UNCHANGED <<csStored, csLayout, csPage>>
    BY <2>1 DEF CsSessionInv, csStored
  <2>2. CASE csPage = "start" /\ (UNCHANGED csStored \/ CsClearActive)
    <3>1. csInfo'.id = csActive' /\ ~csLayout.mounted
      <4>1. CsNoInfo.id = ""
        BY DEF CsNoInfo
      <4>2. csInfo'.id = csActive'
        BY <2>2, <4>1 DEF CsSessionInv, csStored, CsClearActive
      <4> QED BY <2>2, <4>2 DEF CsSessionInv
    <3>2. CASE csPage' = "work" /\ csLayout' = CsMounted(csActive', csInfo'.id)
      BY <3>1, <3>2 DEF CsSessionInv, CsMounted
    <3>3. CASE UNCHANGED <<csLayout, csPage>>
      BY <3>1, <3>3 DEF CsSessionInv
    <3> QED BY <1>2, <2>2, <3>2, <3>3 DEF CsResume, CsMountFromStorage
  <2> QED BY <1>2, <2>1, <2>2 DEF CsResume
<1> QED BY <1>1, <1>2 DEF CsAnswered, CsResolved

LEMMA CsSessionStep == CsSessionInv /\ [CsNext]_csVars => CsSessionInv'
<1> SUFFICES ASSUME CsSessionInv, [CsNext]_csVars PROVE CsSessionInv'
  OBVIOUS
<1>1. CASE CsAnswered
  BY <1>1, CsAnsweredKeeps
<1>2. CASE UNCHANGED <<csStored, csLayout, csPage>>
  BY <1>2 DEF CsSessionInv, csStored
<1>3. CASE CsConnectAnswered
  <2>1. CASE UNCHANGED <<csStored, csPage>> /\ UNCHANGED csLayout
    BY <2>1, <1>2
  <2>2. CASE csConnect.state # "failed"
    <3>1. csActive' = csConnect.id /\ csInfo' = [id |-> csConnect.id, readOnly |-> csConnect.readOnly]
          /\ csPage' = "work" /\ csLayout' = CsMounted(csActive', csInfo'.id)
      BY <1>3, <2>2 DEF CsConnectAnswered, CsSetActive, CsStoreInfo, CsMountFromStorage
    <3> QED BY <3>1 DEF CsSessionInv, CsMounted
  <2> QED BY <1>3, <2>1, <2>2 DEF CsConnectAnswered
<1>4. CASE CsOpenConnections
  BY <1>4 DEF CsOpenConnections, CsWorks, CsSessionInv, csStored
<1>5. CASE CsSwitched
  <2>1. csActive' = csSwitch.id /\ csInfo' = [id |-> csSwitch.id, readOnly |-> csSwitch.readOnly]
        /\ csPage' = "work" /\ csLayout' = CsMounted(csSwitch.id, csSwitch.id)
    BY <1>5 DEF CsSwitched, CsSwitchTo, CsSetActive, CsStoreInfo
  <2> QED BY <2>1 DEF CsSessionInv, CsMounted
<1>6. CASE \E reason \in BOOLEAN : CsToStart(reason)
  <2>1. csActive' = "" /\ csInfo' = CsNoInfo /\ csLayout' = CsUnmounted
    BY <1>6 DEF CsToStart, CsClearActive
  <2>2. CsNoInfo.id = "" /\ ~CsUnmounted.mounted
    BY DEF CsNoInfo, CsUnmounted
  <2> QED BY <2>1, <2>2 DEF CsSessionInv
<1>7. CASE CsDropped
  <2>1. CASE csPage' = "work" /\ csLayout' = CsMounted(csActive, csInfo.id) /\ UNCHANGED csStored
    BY <2>1 DEF CsSessionInv, CsMounted, csStored
  <2> QED BY <1>2, <1>7, <2>1 DEF CsDropped
<1>8. CASE CsFetch
  BY <1>1, <1>8 DEF CsFetch
<1>9. CASE CsCallAnswered
  BY <1>1, <1>2, <1>9 DEF CsCallAnswered
<1>10. CASE \E id \in CsIds : CsPinged(id)
  BY <1>1, <1>10 DEF CsPinged
<1>11. CASE CsDisconnect
  BY <1>6, <1>11 DEF CsDisconnect
<1>12. CASE CsInvalid
  BY <1>6, <1>12 DEF CsInvalid
<1> QED
  BY <1>2, <1>3, <1>4, <1>5, <1>7, <1>8, <1>9, <1>10, <1>11, <1>12 DEF CsNext, csVars, CsOtherChanges, CsConnectSaved,
     CsConnectNew, CsSwitchStart, CsTestNew, CsShowForm, CsConnectReaches, CsDismiss, CsOpenMenu, CsPollAnswers,
     CsMinutePasses, CsAskDelete, CsCopy, CsImport, CsImportCli, CsAdd, CsPing, CsDeleteAnswered, CsCallReaches, CsPingAll

\* The connection that is named and whose policy is in force is the one the
\* requests go to.
THEOREM ShownIsActive == CsSpec => []CsShownIsActive
<1>1. CsInit => CsSessionInv
  <2>1. CsNoInfo.id = "" /\ ~CsUnmounted.mounted
    BY DEF CsNoInfo, CsUnmounted
  <2>2. ASSUME CsInit PROVE csInfo.id = csActive
    <3>1. CASE csActive = ""
      BY <2>1, <2>2, <3>1 DEF CsInit
    <3>2. CASE csActive # ""
      BY <2>2, <3>2 DEF CsInit
    <3> QED BY <3>1, <3>2
  <2> QED BY <2>1, <2>2 DEF CsInit, CsSessionInv
<1>2. CsSessionInv => CsShownIsActive
  BY DEF CsSessionInv, CsShownIsActive
<1> QED BY <1>1, <1>2, CsSessionStep, PTL DEF CsSpec

LEMMA CsMaxIs == CsMaxPresses \in Nat
BY Zenon, CsAssumption DEF CsAssumption

\* What a call under way names is a connection's id.
CsNames(call) ==
    /\ {"state", "type", "id"} \subseteq DOMAIN call /\ call.state \in {"none", "sent", "done", "failed"}
    /\ call.id \in CsIds \cup {""} /\ (call.state # "none" => call.id \in CsIds)

CsTypes ==
    /\ DOMAIN csSaved \subseteq CsIds /\ (csList = CsNotRead \/ DOMAIN csList \subseteq CsIds)
    /\ csActive \in CsIds \cup {""} /\ csInfo.id \in CsIds \cup {""}
    /\ csLayout.mounted \in BOOLEAN /\ csLayout.id \in CsIds \cup {""} /\ csLayout.current \in CsIds \cup {""}
    /\ csSwitch.id \in CsIds \cup {""} /\ csDelete \in CsIds \cup {""}
    /\ csPage \in {"start", "work", "connections"} /\ csForm \in {"closed", "open", "wrong"}
    /\ csChecked \in BOOLEAN /\ csReason \in BOOLEAN /\ csDropping \in BOOLEAN /\ csMenu \in BOOLEAN
    /\ CsNames(csConnect) /\ CsNames(csCall)
    /\ csSince \in {"well", "failing", "sustained"} /\ csPings \subseteq CsIds
    /\ {"left", "total"} \subseteq DOMAIN csAll /\ csAll.left \subseteq csAll.total /\ csAll.total \subseteq CsIds
    /\ csPresses \in 0 .. CsMaxPresses

LEMMA CsInitTypes == CsInit => CsTypes
<1> SUFFICES ASSUME CsInit PROVE CsTypes
  OBVIOUS
<1>1. PICK s \in SUBSET CsIds : \E f \in [s -> BOOLEAN] : csSaved = f
  BY DEF CsInit
<1>2. DOMAIN csSaved \subseteq CsIds
  BY <1>1
<1>3. 0 \in 0 .. CsMaxPresses
  BY CsMaxIs
<1>4. CsNames(CsNoConnect) /\ CsNames(CsNoCall)
  BY DEF CsNames, CsNoConnect, CsNoCall
<1>5. csInfo.id \in CsIds \cup {""} /\ CsNoInfo.id = ""
  BY DEF CsInit, CsNoInfo
<1> QED BY <1>2, <1>3, <1>4, <1>5 DEF CsInit, CsTypes, CsUnmounted, CsNoAll

\* An answer leaves the storage and the layout what they are.
LEMMA CsAnsweredTypes ==
    ASSUME CsTypes, CsAnswered
    PROVE  /\ DOMAIN csList' \subseteq CsIds
           /\ csActive' \in CsIds \cup {""} /\ csInfo'.id \in CsIds \cup {""}
           /\ csLayout'.mounted \in BOOLEAN /\ csLayout'.id \in CsIds \cup {""}
           /\ csLayout'.current \in CsIds \cup {""}
           /\ csPage' \in {"start", "work", "connections"} /\ csChecked' \in BOOLEAN
<1>1. csList' = csSaved
  BY DEF CsAnswered
<1>2. CASE csLayout.mounted /\ csLayout.id \in DOMAIN csSaved
  <2>1. /\ csLayout' = CsMounted(csLayout.id, csLayout.id) /\ csInfo'.id = csLayout.id
        /\ UNCHANGED <<csActive, csPage, csChecked>>
    BY <1>2 DEF CsAnswered, CsResolved, CsStoreInfo
  <2>2. /\ csLayout'.mounted = TRUE /\ csLayout'.id = csLayout.id /\ csLayout'.current = csLayout.id
    BY <2>1 DEF CsMounted
  <2> QED BY <1>1, <2>1, <2>2 DEF CsTypes
<1>3. CASE ~(csLayout.mounted /\ csLayout.id \in DOMAIN csSaved)
  <2>1. CsResume(csSaved)
    BY <1>3 DEF CsAnswered, CsResolved
  <2>2. csActive' \in CsIds \cup {""} /\ csInfo'.id \in CsIds \cup {""}
    <3>1. CASE UNCHANGED csStored
      BY <3>1 DEF csStored, CsTypes
    <3>2. CASE CsClearActive
      BY <3>2 DEF CsClearActive, CsNoInfo
    <3> QED BY <2>1, <3>1, <3>2 DEF CsResume
  <2>3. csPage' \in {"start", "work", "connections"} /\ csChecked' \in BOOLEAN
    BY <2>1 DEF CsResume, CsTypes
  <2>4. csLayout' = csLayout \/ csLayout' = CsMounted(csActive', csInfo'.id)
    BY <2>1 DEF CsResume, CsMountFromStorage
  <2>5. CASE csLayout' = csLayout
    BY <1>1, <2>2, <2>3, <2>5 DEF CsTypes
  <2>6. CASE csLayout' = CsMounted(csActive', csInfo'.id)
    <3>1. /\ csLayout'.mounted = TRUE /\ csLayout'.id = csActive' /\ csLayout'.current = csInfo'.id
      BY <2>6 DEF CsMounted
    <3> QED BY <1>1, <2>2, <2>3, <3>1 DEF CsTypes
  <2> QED BY <2>4, <2>5, <2>6
<1> QED BY <1>2, <1>3

LEMMA CsTypesStep == CsTypes /\ [CsNext]_csVars => CsTypes'
<1> SUFFICES ASSUME CsTypes, [CsNext]_csVars PROVE CsTypes'
  OBVIOUS
<1>a. CsListed \subseteq CsIds
  BY DEF CsListed, CsTypes
<1>b. CsNames(CsNoConnect) /\ CsNames(CsNoCall) /\ CsNoInfo.id = ""
  BY DEF CsNames, CsNoConnect, CsNoCall, CsNoInfo
<1>1. DOMAIN csSaved' \subseteq CsIds
  <2>1. CASE csSaved' = csSaved
    BY <2>1 DEF CsTypes
  <2>2. CASE CsOtherChanges
    <3>1. PICK i \in DOMAIN csSaved : \/ csSaved' = [csSaved EXCEPT ![i] = ~@]
                                      \/ csSaved' = [j \in DOMAIN csSaved \ {i} |-> csSaved[j]]
      BY <2>2 DEF CsOtherChanges
    <3> QED BY <3>1 DEF CsTypes
  <2>3. CASE CsConnectReaches
    <3>1. \/ csSaved' = csSaved
          \/ csSaved' = [i \in DOMAIN csSaved \cup {csConnect.id} |-> i \in DOMAIN csSaved /\ csSaved[i]]
      BY <2>3 DEF CsConnectReaches
    <3>2. csConnect.id \in CsIds
      BY <2>3 DEF CsConnectReaches, CsTypes, CsNames
    <3>3. DOMAIN csSaved' \subseteq DOMAIN csSaved \cup {csConnect.id}
      BY <3>1
    <3> QED BY <3>2, <3>3 DEF CsTypes
  <2>4. CASE CsCallReaches
    <3>1. \/ csSaved' = csSaved
          \/ csSaved' = [i \in DOMAIN csSaved \ {csCall.id} |-> csSaved[i]]
          \/ csSaved' = [i \in DOMAIN csSaved \cup {csCall.id} |-> i \in DOMAIN csSaved /\ csSaved[i]]
      BY <2>4 DEF CsCallReaches
    <3>2. csCall.id \in CsIds
      BY <2>4 DEF CsCallReaches, CsTypes, CsNames
    <3>3. DOMAIN csSaved' \subseteq DOMAIN csSaved \cup {csCall.id}
      BY <3>1
    <3> QED BY <3>2, <3>3 DEF CsTypes
  <2> QED BY <2>1, <2>2, <2>3, <2>4 DEF CsNext, CsFetch, CsConnectSaved, CsConnectNew, CsSwitchStart,
     CsTestNew, CsShowForm, CsConnectAnswered, CsDismiss, CsOpenMenu, CsOpenConnections, CsSwitched,
     CsDisconnect, CsPollAnswers, CsMinutePasses, CsInvalid, CsDropped, CsAskDelete, CsCopy, CsImport,
     CsImportCli, CsPing, CsPinged, CsDeleteAnswered, CsCallAnswered, CsPingAll, CsUse, CsSetActive,
     CsStoreInfo, CsMountFromStorage, CsSwitchTo, CsToStart, CsAdd, CsResolved, CsClearActive, CsResume,
     csMoves, csCards, csStored, csStart, csVars
<1>2. csList' = csList \/ CsAnswered
  BY DEF CsNext, CsFetch, CsOtherChanges, CsConnectSaved, CsConnectNew, CsSwitchStart, CsTestNew, CsShowForm,
     CsConnectReaches, CsConnectAnswered, CsDismiss, CsOpenMenu, CsOpenConnections, CsSwitched, CsDisconnect,
     CsPollAnswers, CsMinutePasses, CsInvalid, CsDropped, CsAskDelete, CsCopy, CsImport, CsImportCli, CsPing,
     CsPinged, CsDeleteAnswered, CsCallReaches, CsCallAnswered, CsPingAll, CsUse, CsSetActive, CsStoreInfo,
     CsMountFromStorage, CsSwitchTo, CsToStart, CsAdd, CsResolved, CsClearActive, CsResume, csMoves, csCards,
     csStored, csStart, csVars
<1>3. (csActive \in CsIds \cup {""})' /\ (csInfo.id \in CsIds \cup {""})'
  <2>1. CASE UNCHANGED csStored
    BY <2>1 DEF csStored, CsTypes
  <2>2. CASE CsAnswered
    BY <2>2, CsAnsweredTypes
  <2>3. CASE CsClearActive
    BY <1>b, <2>3 DEF CsClearActive
  <2>4. CASE CsConnectAnswered
    <3>1. CASE csConnect.state = "done"
      <4>1. csActive' = csConnect.id /\ csInfo'.id = csConnect.id
        BY <2>4, <3>1 DEF CsConnectAnswered, CsSetActive, CsStoreInfo
      <4> QED BY <4>1 DEF CsTypes, CsNames
    <3> QED BY <2>1, <2>4, <3>1 DEF CsConnectAnswered
  <2>5. CASE CsSwitched
    <3>1. csActive' = csSwitch.id /\ csInfo'.id = csSwitch.id
      BY <2>5 DEF CsSwitched, CsSwitchTo, CsSetActive, CsStoreInfo
    <3> QED BY <3>1 DEF CsTypes
  <2> QED BY <2>1, <2>2, <2>3, <2>4, <2>5 DEF CsNext, CsFetch, CsOtherChanges, CsConnectSaved, CsConnectNew,
     CsSwitchStart, CsTestNew, CsShowForm, CsConnectReaches, CsDismiss, CsOpenMenu, CsOpenConnections,
     CsDisconnect, CsPollAnswers, CsMinutePasses, CsInvalid, CsDropped, CsAskDelete, CsCopy, CsImport,
     CsImportCli, CsPing, CsPinged, CsDeleteAnswered, CsCallReaches, CsCallAnswered, CsPingAll, CsUse,
     CsSetActive, CsStoreInfo, CsMountFromStorage, CsSwitchTo, CsToStart, CsAdd, CsResolved, CsResume,
     csMoves, csCards, csStart, csVars
<1>4. (csLayout.mounted \in BOOLEAN)' /\ (csLayout.id \in CsIds \cup {""})' /\ (csLayout.current \in CsIds \cup {""})'
  <2>1. CASE UNCHANGED csLayout
    BY <2>1 DEF CsTypes
  <2>2. CASE CsAnswered
    BY <2>2, CsAnsweredTypes
  <2>3. ASSUME NEW id \in CsIds \cup {""}, NEW current \in CsIds \cup {""}, csLayout' = CsMounted(id, current)
        PROVE  (csLayout.mounted \in BOOLEAN)' /\ (csLayout.id \in CsIds \cup {""})' /\ (csLayout.current \in CsIds \cup {""})'
    BY <2>3 DEF CsMounted
  <2>4. CASE csLayout' = CsUnmounted
    BY <2>4 DEF CsUnmounted
  <2>5. CASE CsConnectAnswered
    BY <1>3, <2>1, <2>3, <2>5 DEF CsConnectAnswered, CsMountFromStorage
  <2>6. CASE CsSwitched
    BY <2>3, <2>6 DEF CsSwitched, CsSwitchTo, CsTypes
  <2>7. CASE CsDropped
    BY <2>1, <2>3, <2>7 DEF CsDropped, CsTypes
  <2> QED
    BY <2>1, <2>2, <2>4, <2>5, <2>6, <2>7
    DEF CsNext, CsFetch, CsOtherChanges, CsConnectSaved, CsConnectNew, CsSwitchStart, CsTestNew, CsShowForm,
       CsConnectReaches, CsDismiss, CsOpenMenu, CsOpenConnections, CsDisconnect, CsPollAnswers,
       CsMinutePasses, CsInvalid, CsAskDelete, CsCopy, CsImport, CsImportCli, CsPing, CsPinged,
       CsDeleteAnswered, CsCallReaches, CsCallAnswered, CsPingAll, CsUse, CsSetActive, CsStoreInfo,
       CsSwitchTo, CsToStart, CsAdd, CsResolved, CsClearActive, CsResume, csMoves, csCards, csStored,
       csStart, csVars
<1>5. (csSwitch.id \in CsIds \cup {""})' /\ (csDelete \in CsIds \cup {""})'
  <2>1. \/ UNCHANGED csSwitch \/ csSwitch' = CsNoInfo \/ \E id \in CsIds : CsSwitchStart(id)
    BY DEF CsNext, CsFetch, CsOtherChanges, CsConnectSaved, CsConnectNew, CsTestNew, CsShowForm,
       CsConnectReaches, CsConnectAnswered, CsDismiss, CsOpenMenu, CsOpenConnections, CsSwitched,
       CsDisconnect, CsPollAnswers, CsMinutePasses, CsInvalid, CsDropped, CsAskDelete, CsCopy, CsImport,
       CsImportCli, CsPing, CsPinged, CsDeleteAnswered, CsCallReaches, CsCallAnswered, CsPingAll, CsUse,
       CsSetActive, CsStoreInfo, CsMountFromStorage, CsSwitchTo, CsToStart, CsAdd, CsResolved,
       CsClearActive, CsResume, csMoves, csCards, csStored, csStart, csVars
  <2>2. ASSUME NEW id \in CsIds, CsSwitchStart(id) PROVE csSwitch'.id = id
    BY <2>2 DEF CsSwitchStart
  <2>3. csDelete' \in {"", csDelete} \cup CsIds
    BY DEF CsNext, CsFetch, CsOtherChanges, CsConnectSaved, CsConnectNew, CsSwitchStart, CsTestNew,
       CsShowForm, CsConnectReaches, CsConnectAnswered, CsDismiss, CsOpenMenu, CsOpenConnections,
       CsSwitched, CsDisconnect, CsPollAnswers, CsMinutePasses, CsInvalid, CsDropped, CsAskDelete, CsCopy,
       CsImport, CsImportCli, CsPing, CsPinged, CsDeleteAnswered, CsCallReaches, CsCallAnswered, CsPingAll,
       CsUse, CsSetActive, CsStoreInfo, CsMountFromStorage, CsSwitchTo, CsToStart, CsAdd, CsResolved,
       CsClearActive, CsResume, csMoves, csCards, csStored, csStart, csVars
  <2> QED BY <1>b, <2>1, <2>2, <2>3 DEF CsTypes
<1>6. (csPage \in {"start", "work", "connections"})' /\ (csChecked \in BOOLEAN)'
  <2>1. CASE CsAnswered
    BY <2>1, CsAnsweredTypes
  <2> QED BY <2>1 DEF CsTypes, CsNext, CsFetch, CsOtherChanges, CsConnectSaved, CsConnectNew, CsSwitchStart,
     CsTestNew, CsShowForm, CsConnectReaches, CsConnectAnswered, CsDismiss, CsOpenMenu, CsOpenConnections,
     CsSwitched, CsDisconnect, CsPollAnswers, CsMinutePasses, CsInvalid, CsDropped, CsAskDelete, CsCopy,
     CsImport, CsImportCli, CsPing, CsPinged, CsDeleteAnswered, CsCallReaches, CsCallAnswered, CsPingAll,
     CsUse, CsSetActive, CsStoreInfo, CsMountFromStorage, CsSwitchTo, CsToStart, CsAdd, CsResolved,
     CsClearActive, CsResume, csMoves, csCards, csStored, csStart, csVars
<1>7. (csForm \in {"closed", "open", "wrong"})' /\ (csSince \in {"well", "failing", "sustained"})'
  BY DEF CsTypes, CsNext, CsFetch, CsOtherChanges, CsConnectSaved, CsConnectNew, CsSwitchStart, CsTestNew,
     CsShowForm, CsConnectReaches, CsConnectAnswered, CsDismiss, CsOpenMenu, CsOpenConnections, CsSwitched,
     CsDisconnect, CsPollAnswers, CsMinutePasses, CsInvalid, CsDropped, CsAskDelete, CsCopy, CsImport,
     CsImportCli, CsPing, CsPinged, CsDeleteAnswered, CsCallReaches, CsCallAnswered, CsPingAll, CsUse,
     CsSetActive, CsStoreInfo, CsMountFromStorage, CsSwitchTo, CsToStart, CsAdd, CsResolved, CsClearActive,
     CsResume, csMoves, csCards, csStored, csStart, csVars
<1>8. (csReason \in BOOLEAN)' /\ (csDropping \in BOOLEAN)' /\ (csMenu \in BOOLEAN)'
  BY DEF CsTypes, CsNext, CsFetch, CsOtherChanges, CsConnectSaved, CsConnectNew, CsSwitchStart, CsTestNew,
     CsShowForm, CsConnectReaches, CsConnectAnswered, CsDismiss, CsOpenMenu, CsOpenConnections, CsSwitched,
     CsDisconnect, CsPollAnswers, CsMinutePasses, CsInvalid, CsDropped, CsAskDelete, CsCopy, CsImport,
     CsImportCli, CsPing, CsPinged, CsDeleteAnswered, CsCallReaches, CsCallAnswered, CsPingAll, CsUse,
     CsSetActive, CsStoreInfo, CsMountFromStorage, CsSwitchTo, CsToStart, CsAdd, CsResolved, CsClearActive,
     CsResume, csMoves, csCards, csStored, csStart, csVars
<1>9. CsNames(csConnect)'
  <2>1. CASE csConnect' = csConnect \/ csConnect' = CsNoConnect
    BY <1>b, <2>1 DEF CsTypes, CsNames
  <2>2. ASSUME NEW id \in CsIds, CsConnectSaved(id) \/ CsConnectNew(id) PROVE CsNames(csConnect)'
    <3>1. CASE CsConnectSaved(id)
      BY <3>1 DEF CsConnectSaved, CsNames
    <3>2. CASE csConnect' = [CsNoConnect EXCEPT !.state = "sent", !.type = "new", !.id = id]
      BY <3>2 DEF CsNames, CsNoConnect
    <3> QED BY <2>1, <2>2, <3>1, <3>2 DEF CsConnectNew
  <2>3. CASE CsConnectReaches
    <3>1. PICK state \in {"done", "failed"} : csConnect' = [csConnect EXCEPT !.state = state]
      BY <2>3 DEF CsConnectReaches
    <3> QED BY <2>3, <3>1 DEF CsConnectReaches, CsTypes, CsNames
  <2> QED BY <2>1, <2>2, <2>3 DEF CsNext, CsFetch, CsOtherChanges, CsSwitchStart, CsTestNew, CsShowForm,
     CsConnectAnswered, CsDismiss, CsOpenMenu, CsOpenConnections, CsSwitched, CsDisconnect, CsPollAnswers,
     CsMinutePasses, CsInvalid, CsDropped, CsAskDelete, CsCopy, CsImport, CsImportCli, CsPing, CsPinged,
     CsDeleteAnswered, CsCallReaches, CsCallAnswered, CsPingAll, CsUse, CsSetActive, CsStoreInfo,
     CsMountFromStorage, CsSwitchTo, CsToStart, CsAdd, CsResolved, CsClearActive, CsResume, csMoves, csCards,
     csStored, csStart, csVars
<1>10. CsNames(csCall)'
  <2>1. CASE csCall' = csCall \/ csCall' = CsNoCall
    BY <1>b, <2>1 DEF CsTypes, CsNames
  <2>2. ASSUME NEW id \in CsIds, NEW type, csCall' = [CsNoCall EXCEPT !.state = "sent", !.type = type, !.id = id]
        PROVE  CsNames(csCall)'
    BY <2>2 DEF CsNames, CsNoCall
  <2>3. CASE CsCallReaches
    <3>1. PICK state \in {"done", "failed"} : csCall' = [csCall EXCEPT !.state = state]
      BY <2>3 DEF CsCallReaches
    <3> QED BY <2>3, <3>1 DEF CsCallReaches, CsTypes, CsNames
  <2>4. csDelete # "" => csDelete \in CsIds
    BY DEF CsTypes
  <2>5. ASSUME NEW confirmed, CsDeleteAnswered(confirmed) PROVE CsNames(csCall)'
    BY <2>1, <2>2, <2>4, <2>5 DEF CsDeleteAnswered
  <2> QED BY <2>1, <2>2, <2>3, <2>5 DEF CsNext, CsFetch, CsOtherChanges, CsConnectSaved, CsConnectNew,
     CsSwitchStart, CsTestNew, CsShowForm, CsConnectReaches, CsConnectAnswered, CsDismiss, CsOpenMenu,
     CsOpenConnections, CsSwitched, CsDisconnect, CsPollAnswers, CsMinutePasses, CsInvalid, CsDropped,
     CsAskDelete, CsCopy, CsImport, CsImportCli, CsPing, CsPinged, CsCallAnswered, CsPingAll, CsUse,
     CsSetActive, CsStoreInfo, CsMountFromStorage, CsSwitchTo, CsToStart, CsAdd, CsResolved, CsClearActive,
     CsResume, csMoves, csCards, csStored, csStart, csVars
<1>11. (csPings \subseteq CsIds)' /\ ({"left", "total"} \subseteq DOMAIN csAll)'
       /\ (csAll.left \subseteq csAll.total /\ csAll.total \subseteq CsIds)'
  <2>1. CASE UNCHANGED <<csPings, csAll>>
    BY <2>1 DEF CsTypes
  <2>2. ASSUME NEW id \in CsIds, CsPing(id) PROVE (csPings \subseteq CsIds)' /\ ({"left", "total"} \subseteq DOMAIN csAll)'
               /\ (csAll.left \subseteq csAll.total /\ csAll.total \subseteq CsIds)'
    BY <2>2 DEF CsPing, CsTypes
  <2>3. CASE CsPingAll
    BY <1>a, <2>3 DEF CsPingAll, CsTypes
  <2>4. ASSUME NEW id \in CsIds, CsPinged(id) PROVE (csPings \subseteq CsIds)' /\ ({"left", "total"} \subseteq DOMAIN csAll)'
               /\ (csAll.left \subseteq csAll.total /\ csAll.total \subseteq CsIds)'
    BY <2>4 DEF CsPinged, CsTypes, CsNoAll
  <2> QED BY <2>1, <2>2, <2>3, <2>4 DEF CsNext, CsFetch, CsOtherChanges, CsConnectSaved, CsConnectNew,
     CsSwitchStart, CsTestNew, CsShowForm, CsConnectReaches, CsConnectAnswered, CsDismiss, CsOpenMenu,
     CsOpenConnections, CsSwitched, CsDisconnect, CsPollAnswers, CsMinutePasses, CsInvalid, CsDropped,
     CsAskDelete, CsCopy, CsImport, CsImportCli, CsDeleteAnswered, CsCallReaches, CsCallAnswered, CsUse,
     CsSetActive, CsStoreInfo, CsMountFromStorage, CsSwitchTo, CsToStart, CsAdd, CsResolved, CsClearActive,
     CsResume, csMoves, csCards, csStored, csStart, csVars
<1>12. (csPresses \in 0 .. CsMaxPresses)'
  <2>1. csPresses' = csPresses \/ CsUse
    BY DEF CsNext, CsFetch, CsOtherChanges, CsConnectSaved, CsConnectNew, CsSwitchStart, CsTestNew,
       CsShowForm, CsConnectReaches, CsConnectAnswered, CsDismiss, CsOpenMenu, CsOpenConnections,
       CsSwitched, CsDisconnect, CsPollAnswers, CsMinutePasses, CsInvalid, CsDropped, CsAskDelete, CsCopy,
       CsImport, CsImportCli, CsPing, CsPinged, CsDeleteAnswered, CsCallReaches, CsCallAnswered, CsPingAll,
       CsSetActive, CsStoreInfo, CsMountFromStorage, CsSwitchTo, CsToStart, CsAdd, CsResolved,
       CsClearActive, CsResume, csMoves, csCards, csStored, csStart, csVars
  <2>2. csPresses \in 0 .. CsMaxPresses
    BY DEF CsTypes
  <2> QED BY <2>1, <2>2, CsMaxIs DEF CsUse
<1> QED
  BY <1>1, <1>2, <1>3, <1>4, <1>5, <1>6, <1>7, <1>8, <1>9, <1>10, <1>11, <1>12, CsAnsweredTypes DEF CsTypes

\* Every reachable state of the connection and the saved ones has its type
\* (useActiveConnection, ConnectionSelector.tsx, ConnectionCard.tsx, ConnectionsPage.tsx).
THEOREM CsTypeCorrect == CsSpec => []CsTypeOK
<1>1. CsTypes => CsTypeOK
  BY DEF CsTypes, CsTypeOK, CsListed, CsNames
<1> QED BY <1>1, CsInitTypes, CsTypesStep, PTL DEF CsSpec

---------------------------------------------------------------------------
(*************************************************************************)
(* The publish page: a verdict is of the body beside it.                 *)
(*************************************************************************)

\* What waits for the timer, and the validations that count, are of what is shown.
PbValidationInv ==
    /\ DOMAIN pbVal = {"timer", "calls", "busy", "verdict"} /\ pbVal.timer \in {<<>>, PbKeyNow}
    /\ \A c \in pbVal.calls : "live" \in DOMAIN c /\ (c.live => c.of = PbKeyNow)

PbVerdictInv == PbValidationInv /\ PbVerdictCurrent

\* What a step does to what is validated: another form is validated anew.
LEMMA PbRendersAnew ==
    ASSUME PbVerdictInv, NEW own, NEW p, NEW drafts, NEW mode, NEW checked, PbRender(own, p, drafts, mode, checked)
    PROVE  PbVerdictInv'
<1> DEFINE kept == PbDropForeign(own, p, drafts)
           key == PbKey(kept.pattern, kept.drafts, mode, checked)
           another == kept.pattern # pbPattern
<1>1. PbKeyNow' = key
  BY DEF PbRender, PbKeyNow
<1>2. pbVal' = PbRevalidated(key, another)
  BY DEF PbRender
<1> HIDE DEF key, another
<1> DEFINE verdict == IF another THEN <<>> ELSE pbVal.verdict
           fresh == [pbVal EXCEPT !.verdict = verdict]
<1>3. CASE key = PbKeyNow
  <2>1. pbVal' = fresh
    BY <1>2, <1>3 DEF PbRevalidated
  <2>2. /\ DOMAIN pbVal' = {"timer", "calls", "busy", "verdict"} /\ pbVal'.timer = pbVal.timer
        /\ pbVal'.calls = pbVal.calls /\ pbVal'.busy = pbVal.busy /\ pbVal'.verdict \in {pbVal.verdict, <<>>}
    BY <2>1 DEF PbVerdictInv, PbValidationInv
  <2>3. PbValidationInv'
    BY <1>1, <1>3, <2>2 DEF PbVerdictInv, PbValidationInv
  <2>4. PbVerdictCurrent'
    BY <1>1, <1>3, <2>2 DEF PbVerdictInv, PbVerdictCurrent
  <2> QED BY <2>3, <2>4 DEF PbVerdictInv
<1>4. CASE key # PbKeyNow
  <2>1. /\ DOMAIN pbVal' = {"timer", "calls", "busy", "verdict"} /\ pbVal'.timer = key
        /\ pbVal'.calls = {[c EXCEPT !.live = FALSE] : c \in pbVal.calls}
        /\ key = <<>> => pbVal'.verdict = <<>>
    <3>1. DOMAIN fresh = {"timer", "calls", "busy", "verdict"} /\ fresh.calls = pbVal.calls
      BY DEF PbVerdictInv, PbValidationInv
    <3>2. pbVal' = [fresh EXCEPT !.timer = key, !.calls = {[c EXCEPT !.live = FALSE] : c \in @},
                                 !.busy = key # <<>> /\ @, !.verdict = IF key = <<>> THEN <<>> ELSE @]
      BY <1>2, <1>4 DEF PbRevalidated
    <3> HIDE DEF fresh
    <3> QED BY <3>1, <3>2
  <2>2. \A c \in pbVal'.calls : "live" \in DOMAIN c /\ ~c.live
    BY <2>1 DEF PbVerdictInv, PbValidationInv
  <2>3. PbValidationInv'
    BY <1>1, <2>1, <2>2 DEF PbValidationInv
  <2>4. PbVerdictCurrent'
    BY <2>1 DEF PbVerdictCurrent
  <2> QED BY <2>3, <2>4 DEF PbVerdictInv
<1> QED BY <1>3, <1>4

LEMMA PbValidates == PbVerdictInv /\ PbValidate => PbVerdictInv'
<1> SUFFICES ASSUME PbVerdictInv, PbValidate PROVE PbVerdictInv'
  OBVIOUS
<1>1. PbKeyNow' = PbKeyNow
  BY DEF PbValidate, PbKeyNow
<1>2. /\ DOMAIN pbVal' = {"timer", "calls", "busy", "verdict"} /\ pbVal'.timer = <<>> /\ pbVal'.busy
      /\ pbVal'.calls = pbVal.calls \cup {[of |-> pbVal.timer, live |-> TRUE]}
  BY DEF PbValidate, PbVerdictInv, PbValidationInv
<1>3. pbVal.timer = PbKeyNow
  BY DEF PbValidate, PbVerdictInv, PbValidationInv
<1>4. PbValidationInv'
  BY <1>1, <1>2, <1>3 DEF PbVerdictInv, PbValidationInv
<1>5. PbVerdictCurrent'
  BY <1>2 DEF PbVerdictCurrent
<1> QED BY <1>4, <1>5 DEF PbVerdictInv

LEMMA PbAnswers ==
    ASSUME PbVerdictInv, NEW c \in pbVal.calls, NEW ok \in BOOLEAN, PbValidated(c, ok)
    PROVE  PbVerdictInv'
<1>1. PbKeyNow' = PbKeyNow
  BY DEF PbValidated, PbKeyNow
<1>2. CASE c.live
  <2>1. /\ DOMAIN pbVal' = {"timer", "calls", "busy", "verdict"} /\ pbVal'.timer = pbVal.timer
        /\ pbVal'.calls = pbVal.calls \ {c} /\ pbVal'.verdict \in {c.of, <<>>}
    BY <1>2 DEF PbValidated, PbTake, PbVerdictInv, PbValidationInv
  <2>2. pbVal'.verdict \in {PbKeyNow, <<>>}
    BY <1>2, <2>1 DEF PbVerdictInv, PbValidationInv
  <2>3. PbValidationInv'
    BY <1>1, <2>1 DEF PbVerdictInv, PbValidationInv
  <2> QED BY <1>1, <2>2, <2>3 DEF PbVerdictInv, PbVerdictCurrent
<1>3. CASE ~c.live
  <2>1. /\ DOMAIN pbVal' = {"timer", "calls", "busy", "verdict"} /\ pbVal'.timer = pbVal.timer
        /\ pbVal'.calls = pbVal.calls \ {c} /\ pbVal'.verdict = pbVal.verdict /\ pbVal'.busy = pbVal.busy
    BY <1>3 DEF PbValidated, PbTake, PbVerdictInv, PbValidationInv
  <2>3. PbValidationInv'
    BY <1>1, <2>1 DEF PbVerdictInv, PbValidationInv
  <2>4. PbVerdictCurrent'
    BY <1>1, <2>1 DEF PbVerdictInv, PbVerdictCurrent
  <2> QED BY <2>3, <2>4 DEF PbVerdictInv
<1> QED BY <1>2, <1>3

LEMMA PbVerdictStep == PbVerdictInv /\ [PbNext]_pbVars => PbVerdictInv'
<1> SUFFICES ASSUME PbVerdictInv, [PbNext]_pbVars PROVE PbVerdictInv'
  OBVIOUS
<1>1. CASE UNCHANGED <<pbForm, pbChecked>>
  <2>1. PbKeyNow' = PbKeyNow /\ pbVal' = pbVal
    BY <1>1 DEF PbKeyNow, pbForm
  <2> QED BY <2>1 DEF PbVerdictInv, PbValidationInv, PbVerdictCurrent
<1>2. CASE \E own, p, drafts, mode, checked : PbRender(own, p, drafts, mode, checked)
  BY <1>2, PbRendersAnew
<1>3. CASE PbValidate
  BY <1>3, PbValidates
<1>4. CASE \E c \in pbVal.calls, ok \in BOOLEAN : PbValidated(c, ok)
  BY <1>4, PbAnswers
<1>5. CASE \E p, d : PbEdit(p, d)
  BY <1>2, <1>5 DEF PbEdit
<1>6. CASE \E what, body : PbBodyCame(what, body)
  BY <1>1, <1>5, <1>6 DEF PbBodyCame
<1>7. CASE \/ \E own \in SUBSET PbListed : PbSubjects(own)
           \/ \E mode \in {"auto", "json", "proto"} : PbSetMode(mode)
           \/ PbCheckHelpers
  BY <1>2, <1>7 DEF PbSubjects, PbSetMode, PbCheckHelpers
<1>8. CASE \/ \E p \in PbPatterns \cup {""} : PbChoosePattern(p)
           \/ \E body \in PbBodies \ {"example"} : PbTypeBody(body)
           \/ \E h \in PbHeaders : PbEditHeaders(h)
           \/ \E yes \in BOOLEAN : PbFillWildcards(yes)
           \/ PbUndoLoad \/ \E t \in pbTemplates : PbLoadTemplate(t)
           \/ \E e \in pbHistory : PbLoadEntry(e)
  BY <1>5, <1>8 DEF PbChoosePattern, PbTypeBody, PbEditHeaders, PbFillWildcards, PbUndoLoad, PbLoadTemplate, PbLoadEntry
<1> QED
  BY <1>1, <1>3, <1>4, <1>6, <1>7, <1>8 DEF PbNext, pbVars, PbSetOptions, PbPublish, PbPublished, PbUseExample,
     PbPrefillFromLast, PbOpenMenu, PbSaveTemplate, PbDeleteTemplate

LEMMA PbVerdictHolds == PbSpec => []PbVerdictInv
<1>1. PbInit => PbVerdictInv
  <2> SUFFICES ASSUME PbInit PROVE PbVerdictInv
    OBVIOUS
  <2>1. pbVal = [timer |-> PbKeyNow, calls |-> {}, busy |-> FALSE, verdict |-> <<>>]
    BY DEF PbInit
  <2>2. PbValidationInv
    BY <2>1 DEF PbValidationInv
  <2>3. PbVerdictCurrent
    BY <2>1 DEF PbVerdictCurrent
  <2> QED BY <2>2, <2>3 DEF PbVerdictInv
<1> QED BY <1>1, PbVerdictStep, PTL DEF PbSpec

\* A verdict shown beside the Publish button is about the type and the body shown.
THEOREM VerdictIsCurrent == PbSpec => []PbVerdictCurrent
<1>1. PbVerdictInv => PbVerdictCurrent
  BY DEF PbVerdictInv
<1> QED BY <1>1, PbVerdictHolds, PTL

\* Drafts are kept under patterns.
PbSubject == PbPatterns \cup {""}
PbAreDrafts(drafts) == DOMAIN drafts \subseteq PbPatterns /\ \A p \in DOMAIN drafts : drafts[p] \in PbDraft
PbFormTyped ==
    /\ pbPattern \in PbSubject /\ PbAreDrafts(pbDrafts)
    /\ pbMode \in {"auto", "json", "proto"} /\ pbVal.busy \in BOOLEAN
PbEntries == [pattern : PbSubject, body : PbBodies]

\* And so are what is put into the form from elsewhere.
PbSideTyped ==
    /\ pbPending \subseteq PbEntries
    /\ \A e \in pbHistory : e.pattern \in PbSubject /\ e.body \in PbBodies
    /\ \A t \in pbTemplates : t.pattern \in PbSubject /\ t.draft \in PbDraft
    /\ pbUndo # PbNoUndo => pbUndo.pattern \in PbSubject /\ pbUndo.draft \in PbDraft

LEMMA PbShows == ASSUME NEW drafts, PbAreDrafts(drafts), NEW p PROVE PbDraftOf(drafts, p) \in PbDraft
BY DEF PbDraftOf, PbAreDrafts, PbEmptyDraft, PbDraft, PbBodies, PbHeaders

LEMMA PbRenders ==
    ASSUME PbVerdictInv, PbFormTyped, NEW own, NEW p \in PbSubject, NEW drafts, PbAreDrafts(drafts),
           NEW mode \in {"auto", "json", "proto"}, NEW checked, PbRender(own, p, drafts, mode, checked)
    PROVE  PbFormTyped'
<1>1. pbPattern' \in PbSubject /\ PbAreDrafts(pbDrafts') /\ pbMode' \in {"auto", "json", "proto"}
  BY DEF PbRender, PbDropForeign, PbWithout, PbAreDrafts, PbSubject
<1>2. \A key, new : PbRevalidated(key, new).busy \in BOOLEAN
  BY DEF PbRevalidated, PbVerdictInv, PbValidationInv, PbFormTyped
<1>3. \E key, new : pbVal' = PbRevalidated(key, new)
  BY DEF PbRender
<1> QED BY <1>1, <1>2, <1>3 DEF PbFormTyped

LEMMA PbEdits ==
    ASSUME PbVerdictInv, PbFormTyped, NEW p \in PbSubject, NEW d \in PbDraft, PbEdit(p, d)
    PROVE  PbFormTyped'
<1>1. PbAreDrafts(PbWithDraft(pbDrafts, p, d))
  BY DEF PbWithDraft, PbFormTyped, PbAreDrafts, PbSubject
<1> QED BY <1>1, PbRenders DEF PbEdit, PbFormTyped

LEMMA PbFormStep == PbVerdictInv /\ PbFormTyped /\ PbSideTyped /\ [PbNext]_pbVars => PbFormTyped'
<1> SUFFICES ASSUME PbVerdictInv, PbFormTyped, PbSideTyped, [PbNext]_pbVars PROVE PbFormTyped'
  OBVIOUS
<1>0. PbShown \in PbDraft /\ PbAreDrafts(pbDrafts) /\ pbPattern \in PbSubject /\ pbMode \in {"auto", "json", "proto"}
  BY PbShows DEF PbFormTyped, PbShown
<1>1. CASE UNCHANGED pbForm
  BY <1>1 DEF pbForm, PbFormTyped
<1>2. CASE PbValidate \/ \E c \in pbVal.calls, ok \in BOOLEAN : PbValidated(c, ok)
  BY <1>2 DEF PbValidate, PbValidated, PbTake, PbFormTyped, PbVerdictInv, PbValidationInv
<1>3. CASE PbCheckHelpers \/ \E own \in SUBSET PbListed : PbSubjects(own)
  BY <1>0, <1>3, PbRenders DEF PbCheckHelpers, PbSubjects
<1>4. CASE \E mode \in {"auto", "json", "proto"} : PbSetMode(mode)
  BY <1>0, <1>4, PbRenders DEF PbSetMode
<1>5. ASSUME NEW p \in PbPatterns \cup {""}, PbChoosePattern(p) PROVE PbFormTyped'
  <2>1. [PbDraftOf(pbDrafts, p) EXCEPT !.filled = p \notin PbWild] \in PbDraft
    BY <1>0, PbShows DEF PbDraft
  <2> QED BY <1>5, <2>1, PbEdits DEF PbChoosePattern, PbSubject
<1>6. ASSUME NEW body \in PbBodies, PbEdit(pbPattern, [PbShown EXCEPT !.body = body]) PROVE PbFormTyped'
  <2>1. [PbShown EXCEPT !.body = body] \in PbDraft
    BY <1>0 DEF PbDraft
  <2> QED BY <1>0, <1>6, <2>1, PbEdits
<1>7. CASE \E body \in PbBodies \ {"example"} : PbTypeBody(body)
  BY <1>6, <1>7 DEF PbTypeBody
<1>8. CASE \/ \E body \in {"", "example"} : PbBodyCame("example", body)
           \/ \E body \in {"", "good", "bad"} : PbBodyCame("prefill", body)
  <2>1. "example" \in PbBodies /\ "good" \in PbBodies /\ "bad" \in PbBodies
    BY DEF PbBodies
  <2> QED BY <1>1, <1>6, <1>8, <2>1 DEF PbBodyCame
<1>9. ASSUME NEW h \in PbHeaders, PbEditHeaders(h) PROVE PbFormTyped'
  <2>1. [PbShown EXCEPT !.headers = h] \in PbDraft
    BY <1>0 DEF PbDraft
  <2> QED BY <1>0, <1>9, <2>1, PbEdits DEF PbEditHeaders
<1>10. ASSUME NEW yes \in BOOLEAN, PbFillWildcards(yes) PROVE PbFormTyped'
  <2>1. [PbShown EXCEPT !.filled = yes] \in PbDraft
    BY <1>0 DEF PbDraft
  <2> QED BY <1>0, <1>10, <2>1, PbEdits DEF PbFillWildcards
<1>11. CASE PbUndoLoad
  BY <1>11, PbEdits DEF PbUndoLoad, PbSideTyped
<1>12. ASSUME NEW t \in pbTemplates, PbLoadTemplate(t) PROVE PbFormTyped'
  <2>1. t.pattern \in PbSubject /\ t.draft \in PbDraft
    BY DEF PbSideTyped
  <2>2. [t.draft EXCEPT !.filled = @ \/ t.pattern \notin PbWild] \in PbDraft
    BY <2>1 DEF PbDraft
  <2> QED BY <1>12, <2>1, <2>2, PbEdits DEF PbLoadTemplate
<1>13. ASSUME NEW e \in pbHistory, PbLoadEntry(e) PROVE PbFormTyped'
  <2>1. [body |-> e.body, filled |-> TRUE, headers |-> "none"] \in PbDraft
    BY DEF PbSideTyped, PbDraft, PbHeaders
  <2> QED BY <1>13, <2>1, PbEdits DEF PbLoadEntry, PbSideTyped
<1> QED
  BY <1>1, <1>2, <1>3, <1>4, <1>5, <1>7, <1>8, <1>9, <1>10, <1>11, <1>12, <1>13 DEF PbNext, pbVars, PbSetOptions,
     PbPublish, PbPublished, PbUseExample, PbPrefillFromLast, PbOpenMenu, PbSaveTemplate, PbDeleteTemplate

LEMMA PbSideStep == PbFormTyped /\ PbSideTyped /\ [PbNext]_pbVars => PbSideTyped'
<1> SUFFICES ASSUME PbFormTyped, PbSideTyped, [PbNext]_pbVars PROVE PbSideTyped'
  OBVIOUS
<1>0. PbShown \in PbDraft /\ PbShown.body \in PbBodies /\ pbPattern \in PbSubject
  BY PbShows DEF PbFormTyped, PbShown, PbDraft
<1>1. pbPending' \subseteq PbEntries
  <2>1. pbPending' \subseteq pbPending \cup {[pattern |-> pbPattern, body |-> PbShown.body]}
    BY DEF PbNext, pbVars, PbSubjects, PbChoosePattern, PbTypeBody, PbEditHeaders, PbSetMode, PbSetOptions,
       PbFillWildcards, PbPublish, PbPublished, PbUseExample, PbPrefillFromLast, PbCheckHelpers, PbValidate,
       PbBodyCame, PbValidated, PbOpenMenu, PbSaveTemplate, PbUndoLoad, PbDeleteTemplate, PbLoadTemplate, PbLoadEntry
  <2> QED BY <1>0, <2>1 DEF PbEntries, PbSideTyped
<1>2. \A e \in pbHistory' : e.pattern \in PbSubject /\ e.body \in PbBodies
  <2>1. \/ pbHistory' = pbHistory
        \/ \E e \in pbPending, ok \in BOOLEAN : pbHistory' = pbHistory \cup {[pattern |-> e.pattern, body |-> e.body, ok |-> ok]}
    BY DEF PbNext, pbVars, pbSide, PbSubjects, PbChoosePattern, PbTypeBody, PbEditHeaders, PbSetMode, PbSetOptions,
       PbFillWildcards, PbPublish, PbPublished, PbUseExample, PbPrefillFromLast, PbCheckHelpers, PbValidate,
       PbBodyCame, PbValidated, PbOpenMenu, PbSaveTemplate, PbUndoLoad, PbDeleteTemplate, PbLoadTemplate, PbLoadEntry
  <2> QED BY <2>1 DEF PbSideTyped, PbEntries
<1>3. \A t \in pbTemplates' : t.pattern \in PbSubject /\ t.draft \in PbDraft
  <2>1. pbTemplates' \subseteq pbTemplates \cup {[pattern |-> pbPattern, draft |-> PbShown]}
    BY DEF PbNext, pbVars, pbSide, PbSubjects, PbChoosePattern, PbTypeBody, PbEditHeaders, PbSetMode, PbSetOptions,
       PbFillWildcards, PbPublish, PbPublished, PbUseExample, PbPrefillFromLast, PbCheckHelpers, PbValidate,
       PbBodyCame, PbValidated, PbOpenMenu, PbSaveTemplate, PbUndoLoad, PbDeleteTemplate, PbLoadTemplate, PbLoadEntry
  <2> QED BY <1>0, <2>1 DEF PbSideTyped
<1>4. pbUndo' # PbNoUndo => pbUndo'.pattern \in PbSubject /\ pbUndo'.draft \in PbDraft
  <2>1. pbUndo' \in {pbUndo, PbNoUndo, [pattern |-> pbPattern, draft |-> PbShown]}
    BY DEF PbNext, pbVars, pbSide, PbSubjects, PbChoosePattern, PbTypeBody, PbEditHeaders, PbSetMode, PbSetOptions,
       PbFillWildcards, PbPublish, PbPublished, PbUseExample, PbPrefillFromLast, PbCheckHelpers, PbValidate,
       PbBodyCame, PbValidated, PbOpenMenu, PbSaveTemplate, PbUndoLoad, PbDeleteTemplate, PbLoadTemplate, PbLoadEntry
  <2> QED BY <1>0, <2>1 DEF PbSideTyped
<1> QED BY <1>1, <1>2, <1>3, <1>4 DEF PbSideTyped

\* Every reachable state of the publish page has its type (PublishContent.tsx).
THEOREM PbTypeCorrect == PbSpec => []PbTypeOK
<1>0. DOMAIN <<>> = {}
  OBVIOUS
<1>1. PbInit => PbFormTyped /\ PbSideTyped
  <2> SUFFICES ASSUME PbInit PROVE PbFormTyped /\ PbSideTyped
    OBVIOUS
  <2>1. PbAreDrafts(pbDrafts) /\ pbPattern \in PbSubject
    <3>1. PICK last \in PbPatterns \cup {""} : \E bodies \in UNION {[P -> {"good"}] : P \in {{}, PbListed}} :
            pbPattern = last /\ pbDrafts = PbMigrated(last, bodies)
      BY DEF PbInit
    <3>2. PICK P \in {{}, PbListed} : \E bodies \in [P -> {"good"}] : pbDrafts = PbMigrated(last, bodies)
      BY <3>1
    <3>3. PICK bodies \in [P -> {"good"}] : pbDrafts = PbMigrated(last, bodies)
      BY <3>2
    <3>4. P \subseteq PbPatterns
      BY <3>2, PbAssumption DEF PbAssumption
    <3>5. DOMAIN bodies = P /\ \A p \in P : bodies[p] \in PbBodies
      BY DEF PbBodies
    <3>6. \A p \in P : [PbEmptyDraft EXCEPT !.body = bodies[p]] \in PbDraft
      BY <3>5 DEF PbEmptyDraft, PbDraft, PbHeaders
    <3> QED BY <3>1, <3>3, <3>4, <3>5, <3>6, <1>0 DEF PbMigrated, PbAreDrafts, PbSubject
  <2>2. \A p \in PbPatterns : PbTemplate(p).pattern \in PbSubject /\ PbTemplate(p).draft \in PbDraft
    BY DEF PbTemplate, PbEmptyDraft, PbDraft, PbBodies, PbHeaders, PbSubject
  <2> QED BY <2>1, <2>2 DEF PbInit, PbFormTyped, PbSideTyped
<1>2. PbFormTyped => PbTypeOK
  BY DEF PbFormTyped, PbTypeOK, PbAreDrafts, PbSubject
<1> QED BY <1>1, <1>2, PbFormStep, PbSideStep, PbVerdictHolds, PTL DEF PbSpec

---------------------------------------------------------------------------
(*************************************************************************)
(* The request page: a reply shown is decoded as what is chosen.         *)
(*************************************************************************)

RqIsCall(c) == {"id", "as", "live"} \subseteq DOMAIN c

RqIsRequest(r) == DOMAIN r = {"id", "status", "subject", "type"} /\ r.id \in Nat /\ (r.status # "none" => r.id > 0)

\* A call that counts is of the reply that is shown, and of the type it is decoded
\* as: what else was asked for was disowned.
RqCallsInv ==
    /\ RqIsRequest(rqLast) /\ DOMAIN rqAs = RqSubjects
    /\ \A c \in rqCalls : /\ RqIsCall(c)
                          /\ c.live => rqOn /\ rqLast.status = "replied" /\ c.id = rqLast.id /\ c.as = RqDecodeAs

RqDecodeInv == RqCallsInv /\ RqDecodingRuns

RqDisowned == {[c EXCEPT !.live = FALSE] : c \in rqCalls}

LEMMA RqDisowns == RqCallsInv => \A c \in RqDisowned : RqIsCall(c) /\ ~c.live
BY DEF RqCallsInv, RqDisowned, RqIsCall

\* A step that disowns every call and shows no reply to decode.
LEMMA RqStops ==
    ASSUME RqCallsInv, rqCalls' = RqDisowned, RqIsRequest(rqLast'), DOMAIN rqAs' = RqSubjects, ~RqIsDecoding'
    PROVE  RqDecodeInv'
<1>1. RqCallsInv'
  BY RqDisowns DEF RqCallsInv
<1> QED BY <1>1 DEF RqDecodeInv, RqDecodingRuns

\* A step that disowns every call and makes the one that is waited for.
LEMMA RqStartsOver ==
    ASSUME RqCallsInv, RqIsRequest(rqLast'), DOMAIN rqAs' = RqSubjects, rqOn', rqLast'.status = "replied",
           rqCalls' = RqDisowned \cup {[id |-> rqLast'.id, as |-> RqDecodeAs', live |-> TRUE]}
    PROVE  RqDecodeInv'
<1> DEFINE call == [id |-> rqLast'.id, as |-> RqDecodeAs', live |-> TRUE]
<1>1. RqIsCall(call) /\ call.live /\ call.id = rqLast'.id /\ call.as = RqDecodeAs'
  BY DEF RqIsCall
<1> HIDE DEF call
<1>2. call \in rqCalls' /\ \A c \in rqCalls' : c = call \/ (RqIsCall(c) /\ ~c.live)
  BY RqDisowns DEF call
<1>3. RqCallsInv'
  BY <1>1, <1>2 DEF RqCallsInv
<1>4. RqDecodingRuns'
  BY <1>1, <1>2 DEF RqDecodingRuns
<1> QED BY <1>3, <1>4 DEF RqDecodeInv

\* The effect, when the reply or the type is another.
LEMMA RqRunsAnew ==
    ASSUME RqCallsInv, NEW last, NEW as, rqCalls' = RqDecoding(last, as), ~(rqOn /\ RqDecodeAs = as /\ rqLast = last),
           rqLast' = last, RqIsRequest(last), DOMAIN rqAs' = RqSubjects, rqOn', RqDecodeAs' = as
    PROVE  RqDecodeInv'
<1>1. CASE last.status # "replied" \/ as = "none"
  <2>1. rqCalls' = RqDisowned /\ ~RqIsDecoding'
    BY <1>1 DEF RqDecoding, RqDisowned, RqIsDecoding
  <2> QED BY <2>1, RqStops
<1>2. CASE last.status = "replied" /\ as # "none"
  <2>1. rqCalls' = RqDisowned \cup {[id |-> last.id, as |-> as, live |-> TRUE]}
    BY <1>2 DEF RqDecoding, RqDisowned
  <2> QED BY <1>2, <2>1, RqStartsOver
<1> QED BY <1>1, <1>2

\* A request that is shown keeps its subject, so the type its reply is decoded as
\* does not follow the draft.
LEMMA RqAsKept ==
    ASSUME rqLast'.id > 0, rqLast.id = rqLast'.id, rqLast'.subject = rqLast.subject, rqLast'.type = rqLast.type,
           rqAs' = rqAs
    PROVE  RqDecodeAs' = RqDecodeAs
BY DEF RqDecodeAs, RqReplied

LEMMA RqDraftStep ==
    ASSUME RqDecodeInv, UNCHANGED <<rqAs, rqOn, rqLast, rqCalls, rqDecoded>>
    PROVE  RqDecodeInv'
<1>1. CASE rqLast.status # "none"
  <2>1. RqDecodeAs' = RqDecodeAs
    BY <1>1, RqAsKept DEF RqDecodeInv, RqCallsInv, RqIsRequest
  <2> QED BY <2>1 DEF RqDecodeInv, RqCallsInv, RqDecodingRuns, RqIsDecoding, RqShown, RqIsRequest
<1>2. CASE rqLast.status = "none"
  <2>1. RqCallsInv'
    BY <1>2 DEF RqDecodeInv, RqCallsInv
  <2>2. ~RqIsDecoding'
    BY <1>2 DEF RqIsDecoding
  <2> QED BY <2>1, <2>2 DEF RqDecodeInv, RqDecodingRuns
<1> QED BY <1>1, <1>2

LEMMA RqDecodeAnswerStep ==
    ASSUME RqDecodeInv, NEW c \in rqCalls, RqDecodeAnswer(c)
    PROVE  RqDecodeInv'
<1>0. RqCallsInv /\ RqDecodingRuns /\ UNCHANGED <<rqLast, rqAs, rqOn, rqDraft>> /\ rqCalls' = rqCalls \ {c}
  BY DEF RqDecodeInv, RqDecodeAnswer
<1>1. RqDecodeAs' = RqDecodeAs
  BY <1>0 DEF RqDecodeAs, RqReplied
<1>2. RqCallsInv'
  BY <1>0, <1>1 DEF RqCallsInv
<1>3. CASE c.live
  <2>1. rqDecoded' = [id |-> rqLast.id, as |-> RqDecodeAs] /\ rqLast.status = "replied" /\ rqLast.id \in Nat /\ rqLast.id > 0
    BY <1>0, <1>3 DEF RqDecodeAnswer, RqKeep, RqCallsInv, RqIsRequest
  <2>2. RqShown' = rqDecoded'
    BY <1>0, <1>1, <2>1 DEF RqShown
  <2>3. rqDecoded'.id # RqNoDecoding.id
    BY <2>1 DEF RqNoDecoding
  <2>4. ~RqIsDecoding'
    BY <2>2, <2>3 DEF RqIsDecoding
  <2> QED BY <1>2, <2>4 DEF RqDecodeInv, RqDecodingRuns
<1>4. CASE ~c.live
  <2>1. rqDecoded' = rqDecoded
    BY <1>4 DEF RqDecodeAnswer, RqKeep
  <2>2. RqIsDecoding' => RqIsDecoding
    BY <1>0, <1>1, <2>1 DEF RqIsDecoding, RqShown
  <2>3. RqDecodingRuns'
    BY <1>0, <1>1, <1>4, <2>2 DEF RqDecodingRuns
  <2> QED BY <1>2, <2>3 DEF RqDecodeInv
<1> QED BY <1>3, <1>4

LEMMA RqChooses ==
    ASSUME RqDecodeInv, NEW as \in RqTypes \cup {"none"}, RqChooseType(as)
    PROVE  RqDecodeInv'
<1>1. RqCallsInv /\ rqLast' = rqLast /\ rqOn' /\ rqOn /\ rqDraft' = rqDraft /\ RqReplied \in RqSubjects /\ as # RqDecodeAs
      /\ rqAs' = [rqAs EXCEPT ![RqReplied] = as] /\ rqCalls' = RqDecoding(rqLast, as)
  BY DEF RqDecodeInv, RqChooseType, RqUsePage
<1>2. RqReplied' = RqReplied
  BY <1>1 DEF RqReplied
<1>3. rqAs'[RqReplied'] = as /\ as # "unset" /\ DOMAIN rqAs' = RqSubjects
  BY <1>1, <1>2, RqAssumption DEF RqAssumption, RqCallsInv
<1>4. RqDecodeAs' = as
  BY <1>1, <1>2, <1>3 DEF RqDecodeAs
<1> QED BY <1>1, <1>3, <1>4, RqRunsAnew DEF RqCallsInv

LEMMA RqAnswers ==
    ASSUME RqDecodeInv, NEW status \in {"replied", "no-responders", "timeout", "error"}, RqAnswer(status)
    PROVE  RqDecodeInv'
<1>1. RqCallsInv /\ rqLast' = [rqLast EXCEPT !.status = status] /\ UNCHANGED <<rqAs, rqOn>>
      /\ rqCalls' = (IF rqOn THEN RqDecoding(rqLast', RqDecodeAs) ELSE rqCalls) /\ rqLast.status = "pending"
  BY DEF RqDecodeInv, RqAnswer, RqPending
<1>2. /\ RqIsRequest(rqLast') /\ rqLast'.status = status /\ rqLast'.id = rqLast.id /\ rqLast'.id > 0
      /\ rqLast'.subject = rqLast.subject /\ rqLast'.type = rqLast.type /\ rqLast' # rqLast
  BY <1>1 DEF RqCallsInv, RqIsRequest
<1>3. RqDecodeAs' = RqDecodeAs
  BY <1>1, <1>2, RqAsKept
<1>4. CASE rqOn
  BY <1>1, <1>2, <1>3, <1>4, RqRunsAnew DEF RqCallsInv
<1>5. CASE ~rqOn
  <2>1. RqCallsInv'
    BY <1>1, <1>2, <1>5 DEF RqCallsInv
  <2>2. ~RqIsDecoding'
    BY <1>1, <1>5 DEF RqIsDecoding
  <2> QED BY <2>1, <2>2 DEF RqDecodeInv, RqDecodingRuns
<1> QED BY <1>4, <1>5

LEMMA RqSends == RqDecodeInv /\ RqSend => RqDecodeInv'
<1> SUFFICES ASSUME RqDecodeInv, RqSend PROVE RqDecodeInv'
  OBVIOUS
<1>1. RqCallsInv /\ rqCalls' = RqDisowned /\ rqAs' = rqAs
      /\ \E subject, type : rqLast' = [id |-> rqLast.id + 1, status |-> "pending", subject |-> subject, type |-> type]
  BY DEF RqDecodeInv, RqSend, RqDisowned
<1>2. RqIsRequest(rqLast') /\ rqLast'.status = "pending"
  BY <1>1 DEF RqCallsInv, RqIsRequest
<1>3. ~RqIsDecoding' /\ DOMAIN rqAs' = RqSubjects
  BY <1>1, <1>2 DEF RqIsDecoding, RqCallsInv
<1> QED BY <1>1, <1>2, <1>3, RqStops

LEMMA RqComesAndGoes == RqDecodeInv /\ (RqLeave \/ RqReturn \/ RqReload) => RqDecodeInv'
<1> SUFFICES ASSUME RqDecodeInv, RqLeave \/ RqReturn \/ RqReload PROVE RqDecodeInv'
  OBVIOUS
<1>0. RqCallsInv
  BY DEF RqDecodeInv
<1>1. CASE RqLeave
  <2>1. rqCalls' = RqDisowned /\ UNCHANGED <<rqAs, rqLast>> /\ ~rqOn'
    BY <1>1 DEF RqLeave, RqDisowned
  <2>2. ~RqIsDecoding'
    BY <2>1 DEF RqIsDecoding
  <2> QED BY <1>0, <2>1, <2>2, RqStops DEF RqCallsInv
<1>2. CASE RqReturn
  <2>1. rqCalls' = RqDecoding(rqLast, RqDecodeAs) /\ UNCHANGED <<rqAs, rqLast, rqDraft>> /\ ~rqOn /\ rqOn'
    BY <1>2 DEF RqReturn
  <2>2. RqDecodeAs' = RqDecodeAs
    BY <2>1 DEF RqDecodeAs, RqReplied
  <2> QED BY <1>0, <2>1, <2>2, RqRunsAnew DEF RqCallsInv
<1>3. CASE RqReload
  <2>1. rqCalls' = {} /\ rqLast' = RqNoRequest /\ rqAs' = rqAs
    BY <1>3 DEF RqReload
  <2>2. RqIsRequest(RqNoRequest) /\ RqNoRequest.status = "none"
    BY DEF RqNoRequest, RqIsRequest
  <2>3. RqCallsInv' /\ ~RqIsDecoding'
    BY <1>0, <2>1, <2>2 DEF RqCallsInv, RqIsDecoding
  <2> QED BY <2>3 DEF RqDecodeInv, RqDecodingRuns
<1> QED BY <1>1, <1>2, <1>3

LEMMA RqDecodeStep == RqDecodeInv /\ [RqNext]_rqVars => RqDecodeInv'
<1> SUFFICES ASSUME RqDecodeInv, [RqNext]_rqVars PROVE RqDecodeInv'
  OBVIOUS
<1>1. CASE UNCHANGED <<rqAs, rqOn, rqLast, rqCalls, rqDecoded>>
  BY <1>1, RqDraftStep
<1>2. CASE \E c \in rqCalls : RqDecodeAnswer(c)
  BY <1>2, RqDecodeAnswerStep
<1>3. CASE \E as \in RqTypes \cup {"none"} : RqChooseType(as)
  BY <1>3, RqChooses
<1>4. CASE \E status \in {"replied", "no-responders", "timeout", "error"} : RqAnswer(status)
  BY <1>4, RqAnswers
<1>5. CASE RqSend \/ RqLeave \/ RqReturn \/ RqReload
  BY <1>5, RqSends, RqComesAndGoes
<1> QED
  BY <1>1, <1>2, <1>3, <1>4, <1>5 DEF RqNext, rqVars, RqEdit, RqEditDialog, RqSetMode, RqExampleCame, RqDialogAnswer,
     RqOpenDialog, RqUseExample, RqDialogSend, RqCloseDialog

\* A reply that is to be decoded is decoded or being decoded.
THEOREM DecodingRuns == RqSpec => []RqDecodingRuns
<1>1. RqInit => RqDecodeInv
  <2> SUFFICES ASSUME RqInit PROVE RqDecodeInv
    OBVIOUS
  <2>1. RqIsRequest(RqNoRequest) /\ RqNoRequest.status = "none"
    BY DEF RqNoRequest, RqIsRequest
  <2>2. RqCallsInv /\ ~RqIsDecoding
    BY <2>1 DEF RqInit, RqCallsInv, RqIsDecoding
  <2> QED BY <2>2 DEF RqDecodeInv, RqDecodingRuns
<1>2. RqDecodeInv => RqDecodingRuns
  BY DEF RqDecodeInv
<1> QED BY <1>1, <1>2, RqDecodeStep, PTL DEF RqSpec

---------------------------------------------------------------------------
(*************************************************************************)
(* The pages of an object bucket: a preview follows its uploads.         *)
(*************************************************************************)

\* An entry of the cache of contents, and one that holds, and is about to be
\* given, nothing older than floor that it takes for current.
ObEntries == [data : Nat, stale : BOOLEAN, read : {"idle", "asked", "served"}, served : Nat]
ObSound(e, floor) ==
    /\ e.read = "served" => e.served >= floor
    /\ e.data # 0 /\ ~e.stale => e.data >= floor

ObTypes ==
    /\ obBucket \in [there : BOOLEAN, sealed : BOOLEAN, objects : [ObNames -> Nat], compressed : BOOLEAN]
    /\ obPuts \in Nat /\ obContent \in [ObNames -> ObEntries] /\ obFloor \in [ObNames -> Nat]
    /\ obDescribed \in BOOLEAN
    /\ obUpload \in [name : ObNames \cup {""}, described : BOOLEAN, version : Nat, here : BOOLEAN,
                     state : {"none", "sent", "done"}]

\* The bucket is never behind what a content must have reached.
ObBucketInv ==
    /\ \A n \in ObNames : obFloor[n] <= obPuts /\ (obBucket.objects[n] = 0 \/ obBucket.objects[n] >= obFloor[n])
    /\ obUpload.state # "none" => obUpload.name \in ObNames
    /\ obUpload.state = "done" =>
          /\ obUpload.version <= obPuts
          /\ obBucket.objects[obUpload.name] = 0 \/ obBucket.objects[obUpload.name] >= obUpload.version

\* Only the content on the page is read.
ObContentInv ==
    /\ \A n \in ObNames : ObSound(obContent[n], obFloor[n])
    /\ \A n \in ObNames : n \in ObWanted(obPage, obSelected) \/ obContent[n].read = "idle"

ObInv == ObTypes /\ ObBucketInv /\ ObContentInv

\* What an entry becomes is an entry, and no less sound.
LEMMA ObEntry ==
    ASSUME NEW e \in ObEntries, NEW floor \in Nat
    PROVE  /\ ObNoEntry \in ObEntries /\ ObSound(ObNoEntry, floor) /\ ObNoEntry.read = "idle"
           /\ ObAsk(e) \in ObEntries /\ ObIdle(e) \in ObEntries /\ ObIdle(e).read = "idle"
           /\ ObSound(e, floor) => ObSound(ObAsk(e), floor) /\ ObSound(ObIdle(e), floor)
           /\ \A w \in BOOLEAN : ObDropped(w) \in ObEntries /\ ObSound(ObDropped(w), floor)
           /\ ObDropped(FALSE).read = "idle"
<1>1. ObNoEntry \in ObEntries /\ ObNoEntry.read = "idle" /\ ObNoEntry.data = 0
  BY DEF ObNoEntry, ObEntries
<1>2. ObSound(ObNoEntry, floor)
  BY <1>1 DEF ObSound
<1>3. ASSUME NEW d \in ObEntries
      PROVE  /\ ObAsk(d) \in ObEntries /\ ObAsk(d).read = "asked" /\ ObAsk(d).data = d.data /\ ObAsk(d).stale = d.stale
             /\ ObIdle(d) \in ObEntries /\ ObIdle(d).read = "idle" /\ ObIdle(d).data = d.data /\ ObIdle(d).stale = d.stale
  BY <1>3 DEF ObAsk, ObIdle, ObEntries
<1>4. ASSUME NEW d \in ObEntries, ObSound(d, floor) PROVE ObSound(ObAsk(d), floor) /\ ObSound(ObIdle(d), floor)
  BY <1>3, <1>4 DEF ObSound
<1> QED BY <1>1, <1>2, <1>3, <1>4 DEF ObDropped

\* An entry that an upload made stale; when the page shows its content, it is asked for again.
LEMMA ObInvalidated ==
    ASSUME NEW e \in ObEntries, NEW w \in BOOLEAN, NEW floor \in Nat
    PROVE  /\ ObInvalid(e, w) \in ObEntries
           /\ ~w /\ e.read = "idle" => ObInvalid(e, w).read = "idle"
           /\ e.data = 0 /\ ObSound(e, floor) => ObSound(ObInvalid(e, w), floor)
           /\ e.data # 0 /\ (w \/ e.read = "idle") => ObSound(ObInvalid(e, w), floor)
<1> DEFINE s == [e EXCEPT !.stale = TRUE]
<1>1. s \in ObEntries /\ s.stale /\ s.read = e.read /\ s.data = e.data /\ s.served = e.served
  BY DEF ObEntries
<1>2. ObAsk(s) \in ObEntries /\ ObAsk(s).read = "asked" /\ ObAsk(s).stale
  BY <1>1 DEF ObAsk, ObEntries
<1>3. ObInvalid(e, w) = IF w /\ (e.data # 0 \/ e.read = "idle") THEN ObAsk(s) ELSE s
  BY DEF ObInvalid
<1> HIDE DEF s
<1>4. CASE w /\ (e.data # 0 \/ e.read = "idle")
  <2>1. ObInvalid(e, w) = ObAsk(s)
    BY <1>3, <1>4
  <2>2. ObSound(ObAsk(s), floor)
    BY <1>2 DEF ObSound
  <2> QED BY <1>2, <1>4, <2>1, <2>2
<1>5. CASE ~(w /\ (e.data # 0 \/ e.read = "idle"))
  <2>1. ObInvalid(e, w) = s
    BY <1>3, <1>5
  <2>2. ObSound(e, floor) => ObSound(s, floor)
    BY <1>1 DEF ObSound
  <2>3. e.read = "idle" => ObSound(s, floor)
    BY <1>1 DEF ObSound
  <2> QED BY <1>1, <1>5, <2>1, <2>2, <2>3
<1> QED BY <1>4, <1>5

\* A change of what the page shows leaves the contents sound, and reads of the
\* others idle.
LEMMA ObViews ==
    ASSUME ObTypes, ObContentInv, NEW page, NEW selected, NEW old \in BOOLEAN
    PROVE  /\ ObViewed(page, selected, old) \in [ObNames -> ObEntries]
           /\ \A n \in ObNames :
                 /\ ObSound(ObViewed(page, selected, old)[n], obFloor[n])
                 /\ n \in ObWanted(page, selected) \/ ObViewed(page, selected, old)[n].read = "idle"
<1> DEFINE was == ObWanted(obPage, obSelected)
           is == ObWanted(page, selected)
           v == ObViewed(page, selected, old)
<1>1. ASSUME NEW n \in ObNames
      PROVE  v[n] \in ObEntries /\ ObSound(v[n], obFloor[n]) /\ (n \in is \/ v[n].read = "idle")
  <2>1. obContent[n] \in ObEntries /\ obFloor[n] \in Nat /\ ObSound(obContent[n], obFloor[n])
        /\ (n \in was \/ obContent[n].read = "idle")
    BY <1>1 DEF ObTypes, ObContentInv
  <2>2. \/ n \in was \ is /\ v[n] = ObIdle(obContent[n])
        \/ n \in is \ was /\ v[n] = ObAsk(obContent[n])
        \/ n \notin was \ is /\ v[n] = obContent[n]
    <3>1. CASE n \in was \ is
      BY <3>1 DEF ObViewed
    <3>2. CASE n \in is \ was
      <4>1. n \notin was \ is
        BY <3>2
      <4> HIDE DEF was, is
      <4>2. CASE obContent[n].data = 0 \/ obContent[n].stale \/ old
        BY <3>2, <4>1, <4>2 DEF ObViewed, was, is
      <4>3. CASE ~(obContent[n].data = 0 \/ obContent[n].stale \/ old)
        BY <3>2, <4>1, <4>3 DEF ObViewed, was, is
      <4> QED BY <4>2, <4>3
    <3>3. CASE n \notin was \ is /\ n \notin is \ was
      BY <3>3 DEF ObViewed
    <3> QED BY <3>1, <3>2, <3>3
  <2>3. ObAsk(obContent[n]) \in ObEntries /\ ObSound(ObAsk(obContent[n]), obFloor[n])
    BY <2>1, ObEntry
  <2>4. ObIdle(obContent[n]) \in ObEntries /\ ObSound(ObIdle(obContent[n]), obFloor[n]) /\ ObIdle(obContent[n]).read = "idle"
    BY <2>1, ObEntry
  <2> HIDE DEF was, is, v
  <2>5. CASE n \in was \ is /\ v[n] = ObIdle(obContent[n])
    BY <2>4, <2>5
  <2>6. CASE n \in is \ was /\ v[n] = ObAsk(obContent[n])
    BY <2>3, <2>6
  <2>7. CASE n \notin was \ is /\ v[n] = obContent[n]
    BY <2>1, <2>7
  <2> QED BY <2>2, <2>5, <2>6, <2>7
<1>2. v \in [ObNames -> ObEntries]
  <2>1. v = [n \in ObNames |-> v[n]]
    BY DEF ObViewed
  <2> HIDE DEF v
  <2> QED BY <1>1, <2>1
<1> QED BY <1>1, <1>2

LEMMA ObViewKeeps ==
    ASSUME ObTypes, ObContentInv, NEW page, NEW selected, ObView(page, selected), UNCHANGED obFloor
    PROVE  obContent' \in [ObNames -> ObEntries] /\ ObContentInv'
<1>1. PICK old \in BOOLEAN : obContent' = ObViewed(page, selected, old)
  BY DEF ObView
<1>2. obPage' = page /\ obSelected' = selected
  BY DEF ObView
<1>3. ObViewed(page, selected, old) \in [ObNames -> ObEntries]
      /\ \A n \in ObNames :
            /\ ObSound(ObViewed(page, selected, old)[n], obFloor[n])
            /\ n \in ObWanted(page, selected) \/ ObViewed(page, selected, old)[n].read = "idle"
  BY ObViews
<1> HIDE DEF ObContentInv
<1>4. ObContentInv'
  BY <1>1, <1>2, <1>3 DEF ObContentInv
<1> QED BY <1>1, <1>3, <1>4

\* A new version is later than all before it.
LEMMA ObPuts ==
    ASSUME ObTypes, ObBucketInv, NEW n \in ObNames, obBucket' = ObPut(obBucket, n), obPuts' = obPuts + 1, UNCHANGED obFloor
    PROVE  /\ obBucket' \in [there : BOOLEAN, sealed : BOOLEAN, objects : [ObNames -> Nat], compressed : BOOLEAN]
           /\ obPuts' \in Nat /\ obPuts' > obPuts
           /\ \A m \in ObNames : obBucket'.objects[m] = IF m = n THEN obPuts + 1 ELSE obBucket.objects[m]
           /\ \A m \in ObNames : obFloor'[m] <= obPuts' /\ (obBucket'.objects[m] = 0 \/ obBucket'.objects[m] >= obFloor'[m])
<1>1. obBucket'.objects = [obBucket.objects EXCEPT ![n] = obPuts + 1] /\ obBucket' = [obBucket EXCEPT !.objects = [obBucket.objects EXCEPT ![n] = obPuts + 1]]
  BY DEF ObPut, ObTypes
<1>2. obPuts + 1 \in Nat /\ [obBucket.objects EXCEPT ![n] = obPuts + 1] \in [ObNames -> Nat]
  <2>1. obBucket.objects \in [ObNames -> Nat]
    BY DEF ObTypes
  <2>2. obPuts \in Nat
    BY DEF ObTypes
  <2>3. obPuts + 1 \in Nat
    BY <2>2
  <2> QED BY <2>1, <2>3
<1>3. \A m \in ObNames : obBucket'.objects[m] = IF m = n THEN obPuts + 1 ELSE obBucket.objects[m]
  BY <1>1 DEF ObTypes
<1>4. ASSUME NEW m \in ObNames
      PROVE  obFloor'[m] <= obPuts' /\ (obBucket'.objects[m] = 0 \/ obBucket'.objects[m] >= obFloor'[m])
  <2>1. obFloor[m] \in Nat /\ obPuts \in Nat /\ obFloor[m] <= obPuts /\ (obBucket.objects[m] = 0 \/ obBucket.objects[m] >= obFloor[m])
    BY DEF ObTypes, ObBucketInv
  <2> QED BY <1>3, <2>1
<1>5. obBucket' \in [there : BOOLEAN, sealed : BOOLEAN, objects : [ObNames -> Nat], compressed : BOOLEAN]
  BY <1>1, <1>2 DEF ObTypes
<1>6. obPuts' \in Nat /\ obPuts' > obPuts
  <2>1. obPuts \in Nat
    BY DEF ObTypes
  <2> QED BY <2>1
<1> QED BY <1>3, <1>4, <1>5, <1>6

\* A bucket of which objects went keeps the rest.
LEMMA ObGoes ==
    ASSUME ObTypes, ObBucketInv, UNCHANGED <<obPuts, obFloor, obUpload>>,
           obBucket' \in [there : BOOLEAN, sealed : BOOLEAN, objects : [ObNames -> Nat], compressed : BOOLEAN],
           \A n \in ObNames : obBucket'.objects[n] \in {0, obBucket.objects[n]}
    PROVE  ObBucketInv'
BY DEF ObTypes, ObBucketInv

LEMMA ObSameBucket ==
    ASSUME ObBucketInv, UNCHANGED <<obBucket, obPuts, obFloor>>, obUpload' = obUpload \/ obUpload'.state = "none"
    PROVE  ObBucketInv'
BY DEF ObBucketInv

\* The upload is left: its success is then a success of no page.
LEMMA ObLeaves ==
    ASSUME ObTypes, obUpload' = ObLeft(obUpload, ObNoUpload)
    PROVE  /\ obUpload' \in [name : ObNames \cup {""}, described : BOOLEAN, version : Nat, here : BOOLEAN,
                             state : {"none", "sent", "done"}]
           /\ obUpload'.state = obUpload.state /\ obUpload'.name = obUpload.name /\ obUpload'.version = obUpload.version
<1>1. CASE obUpload = ObNoUpload
  BY <1>1 DEF ObLeft, ObTypes
<1>2. CASE obUpload # ObNoUpload
  BY <1>2 DEF ObLeft, ObTypes
<1> QED BY <1>1, <1>2

LEMMA ObLeavesBucket ==
    ASSUME ObTypes, ObBucketInv, UNCHANGED <<obBucket, obPuts, obFloor>>, obUpload' = ObLeft(obUpload, ObNoUpload)
    PROVE  ObBucketInv'
BY ObLeaves DEF ObBucketInv

LEMMA ObTypesStep == ObInv /\ [ObNext]_obVars => ObTypes'
<1> SUFFICES ASSUME ObTypes, ObBucketInv, ObContentInv, [ObNext]_obVars PROVE ObTypes'
  BY DEF ObInv
<1> DEFINE Same == UNCHANGED <<obBucket, obPuts, obContent, obFloor, obUpload>>
<1>1. CASE Same /\ obDescribed' \in BOOLEAN
  BY <1>1 DEF ObTypes
<1>2. ASSUME NEW n \in ObNames, ObServe(n) PROVE ObTypes'
  <2>1. obContent[n] \in ObEntries /\ obBucket.objects[n] \in Nat
    BY DEF ObTypes
  <2>2. ObIdle(obContent[n]) \in ObEntries
    BY <2>1 DEF ObIdle, ObEntries
  <2>3. [obContent[n] EXCEPT !.read = "served", !.served = obBucket.objects[n]] \in ObEntries
    BY <2>1 DEF ObEntries
  <2> QED BY <1>2, <2>2, <2>3 DEF ObServe, ObTypes, obServer, obState, obCalls
<1>3. ASSUME NEW n \in ObNames, ObContentRead(n) PROVE ObTypes'
  <2>1. obContent[n] \in ObEntries
    BY DEF ObTypes
  <2>2. [ObNoEntry EXCEPT !.data = obContent[n].served] \in ObEntries
    BY <2>1 DEF ObEntries, ObNoEntry
  <2> QED BY <1>3, <2>2 DEF ObContentRead, ObTypes, obServer, obState, obCalls
<1>4. ASSUME NEW n \in ObNames, ObReadFails(n) PROVE ObTypes'
  <2>1. obContent[n] \in ObEntries
    BY DEF ObTypes
  <2>2. ObIdle(obContent[n]) \in ObEntries
    BY <2>1 DEF ObIdle, ObEntries
  <2> QED BY <1>4, <2>2 DEF ObReadFails, ObTypes, obServer, obState, obCalls
<1>5. ASSUME NEW n \in ObNames, ObOtherPuts(n) PROVE ObTypes'
  <2>1. obBucket' = ObPut(obBucket, n) /\ obPuts' = obPuts + 1 /\ UNCHANGED <<obFloor, obContent, obDescribed, obUpload>>
    BY <1>5 DEF ObOtherPuts, obCaches, obState, obCalls
  <2> QED BY <2>1, ObPuts DEF ObTypes
<1>6. ASSUME NEW n \in ObNames, ObOtherDeletes(n) PROVE ObTypes'
  <2>1. obBucket' = [obBucket EXCEPT !.objects[n] = 0] /\ UNCHANGED <<obPuts, obFloor, obContent, obDescribed, obUpload>>
    BY <1>6 DEF ObOtherDeletes, obCaches, obState, obCalls
  <2> QED BY <2>1 DEF ObTypes
<1>7. CASE ObGo
  <2>1. PICK p : ObView(p, ObNone) /\ obDescribed' = FALSE /\ obUpload' = ObLeft(obUpload, ObNoUpload)
                 /\ UNCHANGED <<obBucket, obPuts, obFloor>>
    BY <1>7 DEF ObGo, ObMount, obServer
  <2> QED BY <2>1, ObViewKeeps, ObLeaves DEF ObTypes
<1>8. CASE ObSelect
  <2>1. PICK p, s : ObView(p, s) /\ UNCHANGED <<obBucket, obPuts, obFloor, obDescribed, obUpload>>
    BY <1>8 DEF ObSelect, obServer, obCalls
  <2> QED BY <2>1, ObViewKeeps DEF ObTypes
<1>9. CASE ObCreated
  <2>1. CASE Same /\ UNCHANGED obDescribed
    BY <1>1, <2>1 DEF ObTypes
  <2>2. CASE obBucket' = ObPayload(obForm) /\ ObMount("bucket") /\ obUpload' = ObLeft(obUpload, ObNoUpload)
             /\ UNCHANGED <<obPuts, obFloor>>
    <3>1. ObPayload(obForm) \in [there : BOOLEAN, sealed : BOOLEAN, objects : [ObNames -> Nat], compressed : BOOLEAN]
      BY DEF ObPayload, ObNewBucket, ObNoBucket
    <3>2. ObView("bucket", ObNone) /\ obDescribed' = FALSE
      BY <2>2 DEF ObMount
    <3> QED BY <2>2, <3>1, <3>2, ObViewKeeps, ObLeaves DEF ObTypes
  <2> QED BY <1>9, <2>1, <2>2 DEF ObCreated, obState
<1>10. CASE ObUploadFile
  <2>1. PICK n \in ObNames : obUpload' = [ObNoUpload EXCEPT !.name = n, !.described = obDescribed, !.state = "sent"]
    BY <1>10 DEF ObUploadFile
  <2>2. obDescribed \in BOOLEAN
    BY DEF ObTypes
  <2>3. obUpload' = [name |-> n, described |-> obDescribed, version |-> 0, here |-> TRUE, state |-> "sent"]
    BY <2>1 DEF ObNoUpload
  <2>4. obUpload' \in [name : ObNames \cup {""}, described : BOOLEAN, version : Nat, here : BOOLEAN,
                       state : {"none", "sent", "done"}]
    BY <2>2, <2>3
  <2> QED BY <1>10, <2>4 DEF ObUploadFile, ObTypes, obServer, obCaches, obState
<1>11. CASE ObUploadDone
  <2>1. CASE UNCHANGED obServer /\ obUpload' = ObNoUpload
    <3>1. ObNoUpload \in [name : ObNames \cup {""}, described : BOOLEAN, version : Nat, here : BOOLEAN,
                          state : {"none", "sent", "done"}]
      BY DEF ObNoUpload
    <3> QED BY <1>11, <2>1, <3>1 DEF ObUploadDone, ObTypes, obServer, obCaches, obState
  <2>2. CASE obBucket' = ObPut(obBucket, obUpload.name) /\ obPuts' = obPuts + 1
             /\ obUpload' = [obUpload EXCEPT !.state = "done", !.version = obPuts + 1]
    <3>1. obUpload.name \in ObNames
      BY <1>11 DEF ObUploadDone, ObBucketInv
    <3>2. UNCHANGED <<obFloor, obContent, obDescribed>>
      BY <1>11 DEF ObUploadDone, obCaches, obState
    <3>3. obPuts + 1 \in Nat
      BY <2>2, <3>1, <3>2, ObPuts
    <3>4. obUpload' \in [name : ObNames \cup {""}, described : BOOLEAN, version : Nat, here : BOOLEAN,
                         state : {"none", "sent", "done"}]
      BY <2>2, <3>3 DEF ObTypes
    <3> QED BY <2>2, <3>1, <3>2, <3>4, ObPuts DEF ObTypes
  <2> QED BY <1>11, <2>1, <2>2 DEF ObUploadDone
<1>12. CASE ObUploaded
  <2>1. ObNoUpload \in [name : ObNames \cup {""}, described : BOOLEAN, version : Nat, here : BOOLEAN,
                        state : {"none", "sent", "done"}]
    BY DEF ObNoUpload
  <2>2. obUpload.name \in ObNames /\ obUpload.version \in Nat /\ obContent[obUpload.name] \in ObEntries /\ obFloor[obUpload.name] \in Nat
    BY <1>12 DEF ObUploaded, ObBucketInv, ObTypes
  <2>3. obFloor' \in [ObNames -> Nat]
    <3>1. \E v \in Nat : obFloor' = [obFloor EXCEPT ![obUpload.name] = v]
      BY <1>12, <2>2 DEF ObUploaded
    <3> QED BY <3>1 DEF ObTypes
  <2>4. obContent' \in [ObNames -> ObEntries]
    <3>1. ObInvalid(obContent[obUpload.name], obUpload.name \in ObWanted(obPage, obSelected)) \in ObEntries
      <4>1. (obUpload.name \in ObWanted(obPage, obSelected)) \in BOOLEAN
        OBVIOUS
      <4> QED BY <2>2, <4>1, ObInvalidated
    <3>2. \E e \in ObEntries : obContent' = [obContent EXCEPT ![obUpload.name] = e]
      BY <1>12, <2>2, <3>1 DEF ObUploaded, ObAfterUpload
    <3> QED BY <3>2 DEF ObTypes
  <2>5. obDescribed' \in BOOLEAN /\ UNCHANGED <<obBucket, obPuts>> /\ obUpload' = ObNoUpload
    BY <1>12 DEF ObUploaded, obServer
  <2> QED BY <2>1, <2>3, <2>4, <2>5 DEF ObTypes
<1>13. CASE ObActDone
  <2>1. UNCHANGED <<obPuts, obContent, obFloor, obDescribed, obUpload>>
    BY <1>13 DEF ObActDone, obCaches, obState
  <2>2. obBucket' \in {obBucket, ObNoBucket, [obBucket EXCEPT !.sealed = TRUE], [obBucket EXCEPT !.objects[obAct.name] = 0]}
    BY <1>13 DEF ObActDone
  <2>3. obBucket' \in [there : BOOLEAN, sealed : BOOLEAN, objects : [ObNames -> Nat], compressed : BOOLEAN]
    <3>1. CASE obBucket' = ObNoBucket
      BY <3>1 DEF ObNoBucket
    <3>2. CASE obBucket' = [obBucket EXCEPT !.sealed = TRUE]
      BY <3>2 DEF ObTypes
    <3>3. CASE obBucket' = [obBucket EXCEPT !.objects[obAct.name] = 0]
      BY <3>3 DEF ObTypes
    <3> QED BY <2>2, <3>1, <3>2, <3>3 DEF ObTypes
  <2> QED BY <2>1, <2>3 DEF ObTypes
<1>14. CASE ObActAnswered
  <2>1. UNCHANGED <<obBucket, obPuts>>
    BY <1>14 DEF ObActAnswered, obServer
  <2>2. CASE ObBucketDeleted
    <3>1. ObView("list", ObNone) /\ obDescribed' = FALSE /\ obUpload' = ObLeft(obUpload, ObNoUpload) /\ UNCHANGED obFloor
      BY <2>2 DEF ObBucketDeleted, ObMount
    <3> QED BY <2>1, <3>1, ObViewKeeps, ObLeaves DEF ObTypes
  <2>3. CASE ObBucketSealed \/ ObActFailed
    BY <2>1, <2>3 DEF ObBucketSealed, ObActFailed, ObTypes, obCaches
  <2>4. CASE ObObjectDeleted
    <3>1. UNCHANGED <<obDescribed, obUpload>> /\ obFloor' = [obFloor EXCEPT ![obAct.name] = 0]
      BY <2>4 DEF ObObjectDeleted
    <3> DEFINE s == IF obAct.here /\ obAct.selected = obAct.name THEN ObNone ELSE obSelected
               w == obAct.name \in ObWanted(obPage, s)
    <3>2. obContent' = [ObViewed(obPage, s, FALSE) EXCEPT ![obAct.name] = ObDropped(w)]
      BY <2>4 DEF ObObjectDeleted
    <3> HIDE DEF s, w
    <3>3. ObViewed(obPage, s, FALSE) \in [ObNames -> ObEntries]
      BY ObViews
    <3>4. ObDropped(w) \in ObEntries
      BY DEF ObDropped, ObAsk, ObNoEntry, ObEntries
    <3>5. obContent' \in [ObNames -> ObEntries]
      BY <3>2, <3>3, <3>4
    <3> QED BY <2>1, <3>1, <3>5 DEF ObTypes
  <2> QED BY <1>14, <2>2, <2>3, <2>4 DEF ObActAnswered
<1>15. CASE ObDescribe
  BY <1>1, <1>15 DEF ObDescribe, obServer, obCaches, obCalls
<1>16. CASE ObRead \/ ObSearchFor \/ ObTypeForm \/ ObCreate \/ ObRequest \/ ObTypeName \/ ObConfirmAction \/ ObCancel \/ UNCHANGED obVars
  BY <1>16 DEF ObTypes, ObRead, ObSearchFor, ObTypeForm, ObCreate, ObRequest, ObTypeName, ObConfirmAction, ObCancel, obVars,
     obServer, obCaches, obState, obCalls
<1> QED
  BY <1>2, <1>3, <1>4, <1>5, <1>6, <1>7, <1>8, <1>9, <1>10, <1>11, <1>12, <1>13, <1>14, <1>15, <1>16 DEF ObNext

LEMMA ObBucketStep == ObInv /\ [ObNext]_obVars => ObBucketInv'
<1> SUFFICES ASSUME ObTypes, ObBucketInv, ObContentInv, [ObNext]_obVars PROVE ObBucketInv'
  BY DEF ObInv
<1>1. ASSUME NEW n \in ObNames, ObServe(n) \/ ObContentRead(n) \/ ObReadFails(n) PROVE ObBucketInv'
  BY <1>1, ObSameBucket DEF ObServe, ObContentRead, ObReadFails, obServer, obCalls
<1>2. ASSUME NEW n \in ObNames, ObOtherPuts(n) PROVE ObBucketInv'
  <2>1. obBucket' = ObPut(obBucket, n) /\ obPuts' = obPuts + 1 /\ UNCHANGED <<obFloor, obUpload>>
    BY <1>2 DEF ObOtherPuts, obCaches, obCalls
  <2>2. /\ obPuts' \in Nat /\ obPuts' > obPuts
        /\ \A m \in ObNames : obBucket'.objects[m] = IF m = n THEN obPuts + 1 ELSE obBucket.objects[m]
        /\ \A m \in ObNames : obFloor'[m] <= obPuts' /\ (obBucket'.objects[m] = 0 \/ obBucket'.objects[m] >= obFloor'[m])
    BY <2>1, ObPuts
  <2>3. ASSUME obUpload.state = "done"
        PROVE  /\ obUpload.version <= obPuts'
               /\ obBucket'.objects[obUpload.name] = 0 \/ obBucket'.objects[obUpload.name] >= obUpload.version
    <3>1. obUpload.name \in ObNames /\ obUpload.version \in Nat /\ obUpload.version <= obPuts /\ obPuts \in Nat
          /\ (obBucket.objects[obUpload.name] = 0 \/ obBucket.objects[obUpload.name] >= obUpload.version)
      BY <2>3 DEF ObBucketInv, ObTypes
    <3> QED BY <2>1, <2>2, <3>1
  <2>4. obUpload.state # "none" => obUpload.name \in ObNames
    BY DEF ObBucketInv
  <2> QED BY <2>1, <2>2, <2>3, <2>4 DEF ObBucketInv
<1>3. ASSUME NEW n \in ObNames, ObOtherDeletes(n) PROVE ObBucketInv'
  <2>1. obBucket' = [obBucket EXCEPT !.objects[n] = 0] /\ UNCHANGED <<obPuts, obFloor, obUpload>>
    BY <1>3 DEF ObOtherDeletes, obCaches, obCalls
  <2>2. obBucket'.objects = [obBucket.objects EXCEPT ![n] = 0]
    BY <2>1 DEF ObTypes
  <2>3. \A m \in ObNames : obBucket'.objects[m] \in {0, obBucket.objects[m]}
    BY <2>2 DEF ObTypes
  <2>4. obBucket' \in [there : BOOLEAN, sealed : BOOLEAN, objects : [ObNames -> Nat], compressed : BOOLEAN]
    BY <2>1 DEF ObTypes
  <2> QED BY <2>1, <2>3, <2>4, ObGoes
<1>4. CASE ObGo
  <2>1. UNCHANGED <<obBucket, obPuts, obFloor>> /\ obUpload' = ObLeft(obUpload, ObNoUpload)
    BY <1>4 DEF ObGo, obServer
  <2> QED BY <2>1, ObLeavesBucket
<1>5. CASE ObSelect
  BY <1>5, ObSameBucket DEF ObSelect, obServer, obCalls
<1>6. CASE ObCreated
  <2>1. CASE UNCHANGED <<obBucket, obUpload>>
    BY <1>6, <2>1, ObSameBucket DEF ObCreated
  <2>2. CASE obBucket' = ObPayload(obForm) /\ obUpload' = ObLeft(obUpload, ObNoUpload) /\ UNCHANGED <<obPuts, obFloor>>
    <3>1. ObPayload(obForm).objects = [n \in ObNames |-> 0]
      BY DEF ObPayload, ObNewBucket, ObNoBucket
    <3>2. obUpload'.state = obUpload.state /\ obUpload'.name = obUpload.name /\ obUpload'.version = obUpload.version
      BY <2>2, ObLeaves
    <3> QED BY <2>2, <3>1, <3>2 DEF ObBucketInv
  <2> QED BY <1>6, <2>1, <2>2 DEF ObCreated
<1>7. CASE ObUploadFile
  <2>1. PICK n \in ObNames : obUpload' = [ObNoUpload EXCEPT !.name = n, !.described = obDescribed, !.state = "sent"]
    BY <1>7 DEF ObUploadFile
  <2>2. obUpload'.name = n /\ obUpload'.state = "sent"
    BY <2>1 DEF ObNoUpload
  <2>3. UNCHANGED <<obBucket, obPuts, obFloor>>
    BY <1>7 DEF ObUploadFile, obServer, obCaches
  <2> QED BY <2>2, <2>3 DEF ObBucketInv
<1>8. CASE ObUploadDone
  <2>1. CASE UNCHANGED obServer /\ obUpload' = ObNoUpload
    <3>1. ObNoUpload.state = "none"
      BY DEF ObNoUpload
    <3> QED BY <1>8, <2>1, <3>1, ObSameBucket DEF ObUploadDone, obServer, obCaches
  <2>2. CASE obBucket' = ObPut(obBucket, obUpload.name) /\ obPuts' = obPuts + 1
             /\ obUpload' = [obUpload EXCEPT !.state = "done", !.version = obPuts + 1]
    <3>1. obUpload.name \in ObNames
      BY <1>8 DEF ObUploadDone, ObBucketInv
    <3>2. UNCHANGED obFloor
      BY <1>8 DEF ObUploadDone, obCaches
    <3>3. obUpload'.name = obUpload.name /\ obUpload'.version = obPuts + 1
      BY <2>2 DEF ObTypes
    <3>4. /\ obPuts' \in Nat /\ obPuts' > obPuts
          /\ \A m \in ObNames : obBucket'.objects[m] = IF m = obUpload.name THEN obPuts + 1 ELSE obBucket.objects[m]
          /\ \A m \in ObNames : obFloor'[m] <= obPuts' /\ (obBucket'.objects[m] = 0 \/ obBucket'.objects[m] >= obFloor'[m])
      BY <2>2, <3>1, <3>2, ObPuts
    <3>5. obBucket'.objects[obUpload'.name] = obPuts'
      BY <2>2, <3>1, <3>3, <3>4
    <3>6. obUpload'.version = obPuts' /\ obUpload'.name \in ObNames
      BY <2>2, <3>1, <3>3
    <3>7. obUpload'.version <= obPuts' /\ obBucket'.objects[obUpload'.name] >= obUpload'.version
      BY <3>4, <3>5, <3>6
    <3> QED BY <3>4, <3>6, <3>7 DEF ObBucketInv
  <2> QED BY <1>8, <2>1, <2>2 DEF ObUploadDone
<1>9. CASE ObUploaded
  <2>1. obUpload'.state = "none" /\ UNCHANGED <<obBucket, obPuts>>
    BY <1>9 DEF ObUploaded, ObNoUpload, obServer
  <2>2. obFloor' = [obFloor EXCEPT ![obUpload.name] = IF obContent[obUpload.name].data = 0 THEN @ ELSE obUpload.version]
    BY <1>9 DEF ObUploaded
  <2>3. \A m \in ObNames : obFloor'[m] = obFloor[m] \/ (m = obUpload.name /\ obFloor'[m] = obUpload.version)
    BY <2>2 DEF ObTypes
  <2>4. obUpload.version <= obPuts
        /\ (obBucket.objects[obUpload.name] = 0 \/ obBucket.objects[obUpload.name] >= obUpload.version)
    BY <1>9 DEF ObUploaded, ObBucketInv
  <2> QED BY <2>1, <2>3, <2>4 DEF ObBucketInv
<1>10. CASE ObActDone
  <2>1. UNCHANGED <<obPuts, obFloor, obUpload>>
    BY <1>10 DEF ObActDone, obCaches
  <2>2. obBucket' \in {obBucket, ObNoBucket, [obBucket EXCEPT !.sealed = TRUE], [obBucket EXCEPT !.objects[obAct.name] = 0]}
    BY <1>10 DEF ObActDone
  <2>3. CASE obBucket' = ObNoBucket
    <3>1. ObNoBucket.objects = [n \in ObNames |-> 0]
          /\ ObNoBucket \in [there : BOOLEAN, sealed : BOOLEAN, objects : [ObNames -> Nat], compressed : BOOLEAN]
      BY DEF ObNoBucket
    <3> QED BY <2>1, <2>3, <3>1, ObGoes
  <2>4. CASE obBucket' = [obBucket EXCEPT !.sealed = TRUE]
    <3>1. obBucket' \in [there : BOOLEAN, sealed : BOOLEAN, objects : [ObNames -> Nat], compressed : BOOLEAN]
          /\ obBucket'.objects = obBucket.objects
      BY <2>4 DEF ObTypes
    <3> QED BY <2>1, <3>1, ObGoes
  <2>5. CASE obBucket' = [obBucket EXCEPT !.objects[obAct.name] = 0]
    <3>1. obBucket' \in [there : BOOLEAN, sealed : BOOLEAN, objects : [ObNames -> Nat], compressed : BOOLEAN]
      BY <2>5 DEF ObTypes
    <3>2. obBucket'.objects = [obBucket.objects EXCEPT ![obAct.name] = 0]
      BY <2>5 DEF ObTypes
    <3>3. \A m \in ObNames : obBucket'.objects[m] \in {0, obBucket.objects[m]}
      BY <3>2 DEF ObTypes
    <3> QED BY <2>1, <3>1, <3>3, ObGoes
  <2>6. CASE obBucket' = obBucket
    BY <2>1, <2>6, ObSameBucket
  <2> QED BY <2>2, <2>3, <2>4, <2>5, <2>6
<1>11. CASE ObActAnswered
  <2>1. UNCHANGED <<obBucket, obPuts>>
    BY <1>11 DEF ObActAnswered, obServer
  <2>2. CASE ObBucketDeleted
    BY <2>1, <2>2, ObLeavesBucket DEF ObBucketDeleted
  <2>3. CASE ObBucketSealed \/ ObActFailed
    BY <2>1, <2>3, ObSameBucket DEF ObBucketSealed, ObActFailed, obCaches
  <2>4. CASE ObObjectDeleted
    <3>1. UNCHANGED obUpload /\ obFloor' = [obFloor EXCEPT ![obAct.name] = 0]
      BY <2>4 DEF ObObjectDeleted
    <3>2. \A m \in ObNames : obFloor'[m] = obFloor[m] \/ obFloor'[m] = 0
      BY <3>1 DEF ObTypes
    <3>3. \A m \in ObNames : obBucket.objects[m] \in Nat /\ obPuts \in Nat
      BY DEF ObTypes
    <3> QED BY <2>1, <3>1, <3>2, <3>3 DEF ObBucketInv
  <2> QED BY <1>11, <2>2, <2>3, <2>4 DEF ObActAnswered
<1>12. CASE ObRead \/ ObSearchFor \/ ObTypeForm \/ ObCreate \/ ObRequest \/ ObTypeName \/ ObConfirmAction \/ ObCancel \/ ObDescribe \/ UNCHANGED obVars
  BY <1>12, ObSameBucket DEF ObRead, ObSearchFor, ObTypeForm, ObCreate, ObRequest, ObTypeName, ObConfirmAction, ObCancel, ObDescribe, obVars,
     obServer, obCaches, obState, obCalls
<1> QED BY <1>1, <1>2, <1>3, <1>4, <1>5, <1>6, <1>7, <1>8, <1>9, <1>10, <1>11, <1>12 DEF ObNext

\* One entry changed, which stays sound and, out of view, idle.
LEMMA ObOneEntry ==
    ASSUME ObTypes, ObContentInv, NEW n \in ObNames, NEW e \in ObEntries, obContent' = [obContent EXCEPT ![n] = e],
           UNCHANGED <<obFloor, obPage, obSelected>>, ObSound(e, obFloor[n]),
           n \in ObWanted(obPage, obSelected) \/ e.read = "idle"
    PROVE  ObContentInv'
<1>1. \A m \in ObNames : obContent'[m] = IF m = n THEN e ELSE obContent[m]
  BY DEF ObTypes
<1>2. \A m \in ObNames : ObSound(obContent'[m], obFloor[m])
  BY <1>1 DEF ObContentInv
<1>3. \A m \in ObNames : m \in ObWanted(obPage, obSelected) \/ obContent'[m].read = "idle"
  BY <1>1 DEF ObContentInv
<1> QED BY <1>2, <1>3 DEF ObContentInv, ObWanted

LEMMA ObContentStep == ObInv /\ [ObNext]_obVars => ObContentInv'
<1> SUFFICES ASSUME ObTypes, ObBucketInv, ObContentInv, [ObNext]_obVars PROVE ObContentInv'
  BY DEF ObInv
<1>1. CASE UNCHANGED <<obContent, obFloor, obPage, obSelected>>
  BY <1>1 DEF ObContentInv, ObWanted
<1>2. ASSUME NEW n \in ObNames PROVE /\ obContent[n] \in ObEntries /\ obFloor[n] \in Nat /\ ObSound(obContent[n], obFloor[n])
                                     /\ n \in ObWanted(obPage, obSelected) \/ obContent[n].read = "idle"
                                     /\ obBucket.objects[n] = 0 \/ obBucket.objects[n] >= obFloor[n]
                                     /\ obBucket.objects[n] \in Nat
  BY DEF ObTypes, ObContentInv, ObBucketInv
<1>3. ASSUME NEW n \in ObNames, ObServe(n) PROVE ObContentInv'
  <2>1. UNCHANGED <<obFloor, obPage, obSelected>> /\ n \in ObWanted(obPage, obSelected)
    BY <1>2, <1>3 DEF ObServe, obState
  <2>2. CASE obBucket.objects[n] = 0
    <3>1. obContent' = [obContent EXCEPT ![n] = ObIdle(obContent[n])]
      BY <1>3, <2>2 DEF ObServe
    <3> QED BY <1>2, <2>1, <3>1, ObEntry, ObOneEntry
  <2>3. CASE obBucket.objects[n] # 0
    <3> DEFINE e == [obContent[n] EXCEPT !.read = "served", !.served = obBucket.objects[n]]
    <3>1. obContent' = [obContent EXCEPT ![n] = e]
      BY <1>3, <2>3 DEF ObServe
    <3>2. e \in ObEntries /\ e.served = obBucket.objects[n] /\ e.data = obContent[n].data /\ e.stale = obContent[n].stale
      BY <1>2 DEF ObEntries
    <3>3. ObSound(e, obFloor[n])
      BY <1>2, <2>3, <3>2 DEF ObSound
    <3> HIDE DEF e
    <3> QED BY <2>1, <3>1, <3>2, <3>3, ObOneEntry
  <2> QED BY <2>2, <2>3
<1>4. ASSUME NEW n \in ObNames, ObContentRead(n) PROVE ObContentInv'
  <2> DEFINE e == [ObNoEntry EXCEPT !.data = obContent[n].served]
  <2>1. UNCHANGED <<obFloor, obPage, obSelected>> /\ obContent' = [obContent EXCEPT ![n] = e] /\ obContent[n].read = "served"
    BY <1>4 DEF ObContentRead, obState
  <2>2. e \in ObEntries /\ e.data = obContent[n].served /\ e.read = "idle"
    BY <1>2 DEF ObNoEntry, ObEntries
  <2>3. obContent[n].served >= obFloor[n]
    BY <1>2, <2>1 DEF ObSound
  <2>4. ObSound(e, obFloor[n])
    BY <2>2, <2>3 DEF ObSound
  <2> HIDE DEF e
  <2> QED BY <2>1, <2>2, <2>4, ObOneEntry
<1>5. ASSUME NEW n \in ObNames, ObReadFails(n) PROVE ObContentInv'
  <2>1. UNCHANGED <<obFloor, obPage, obSelected>> /\ obContent' = [obContent EXCEPT ![n] = ObIdle(obContent[n])]
    BY <1>5 DEF ObReadFails, obState
  <2> QED BY <1>2, <2>1, ObEntry, ObOneEntry
<1>6. ASSUME NEW n \in ObNames, ObOtherPuts(n) \/ ObOtherDeletes(n) PROVE ObContentInv'
  BY <1>1, <1>6 DEF ObOtherPuts, ObOtherDeletes, obCaches, obState
<1>7. CASE ObGo
  <2>1. PICK p : ObView(p, ObNone) /\ UNCHANGED obFloor
    BY <1>7 DEF ObGo, ObMount
  <2> QED BY <2>1, ObViewKeeps
<1>8. CASE ObSelect
  <2>1. PICK p, s : ObView(p, s) /\ UNCHANGED obFloor
    BY <1>8 DEF ObSelect
  <2> QED BY <2>1, ObViewKeeps
<1>9. CASE ObCreated
  <2>1. CASE UNCHANGED <<obPage, obContent, obState>>
    BY <1>1, <1>9, <2>1 DEF ObCreated, obState
  <2>2. CASE ObMount("bucket")
    <3>1. ObView("bucket", ObNone) /\ UNCHANGED obFloor
      BY <1>9, <2>2 DEF ObMount, ObCreated
    <3> QED BY <3>1, ObViewKeeps
  <2> QED BY <1>9, <2>1, <2>2 DEF ObCreated
<1>10. CASE ObUploaded
  <2> DEFINE n == obUpload.name
             w == n \in ObWanted(obPage, obSelected)
  <2>1. n \in ObNames /\ obUpload.version \in Nat
    BY <1>10 DEF ObUploaded, ObBucketInv, ObTypes
  <2>2. UNCHANGED <<obPage, obSelected>>
        /\ obContent' = [obContent EXCEPT ![n] = IF @ = ObNoEntry THEN @ ELSE ObInvalid(@, w)]
        /\ obFloor' = [obFloor EXCEPT ![n] = IF obContent[n].data = 0 THEN @ ELSE obUpload.version]
    BY <1>10 DEF ObUploaded, ObAfterUpload
  <2>3. \A m \in ObNames : obFloor'[m] = IF m = n /\ obContent[n].data # 0 THEN obUpload.version ELSE obFloor[m]
    BY <2>2 DEF ObTypes
  <2>4. \A m \in ObNames : obContent'[m] = IF m = n /\ obContent[n] # ObNoEntry THEN ObInvalid(obContent[n], w) ELSE obContent[m]
    BY <2>2 DEF ObTypes
  <2> HIDE DEF n, w
  <2>5. w \in BOOLEAN /\ (w \/ obContent[n].read = "idle")
    BY <1>2, <2>1 DEF w
  <2>6. ASSUME NEW m \in ObNames
        PROVE  ObSound(obContent'[m], obFloor'[m]) /\ (m \in ObWanted(obPage, obSelected) \/ obContent'[m].read = "idle")
    <3>1. CASE m # n
      BY <1>2, <2>3, <2>4, <3>1
    <3>2. CASE m = n /\ obContent[n].data = 0
      <4>1. CASE obContent[n] = ObNoEntry
        <5>1. obFloor'[m] = obFloor[m] /\ obContent'[m] = obContent[m]
          BY <2>3, <2>4, <3>2, <4>1
        <5> QED BY <1>2, <5>1
      <4>2. CASE obContent[n] # ObNoEntry
        <5>1. obFloor'[m] = obFloor[m] /\ obContent'[m] = ObInvalid(obContent[n], w)
          BY <2>3, <2>4, <3>2, <4>2
        <5>2. ObSound(ObInvalid(obContent[n], w), obFloor[n]) /\ (~w /\ obContent[n].read = "idle" => ObInvalid(obContent[n], w).read = "idle")
          BY <1>2, <2>1, <2>5, <3>2, ObInvalidated
        <5> QED BY <2>5, <3>2, <5>1, <5>2 DEF w
      <4> QED BY <4>1, <4>2
    <3>3. CASE m = n /\ obContent[n].data # 0
      <4>1. obContent[n] # ObNoEntry
        BY <3>3 DEF ObNoEntry
      <4>2. obFloor'[m] = obUpload.version /\ obContent'[m] = ObInvalid(obContent[n], w)
        BY <2>3, <2>4, <3>3, <4>1
      <4>3. obContent[n] \in ObEntries
        BY <1>2, <2>1
      <4>4. ObSound(ObInvalid(obContent[n], w), obUpload.version) /\ (~w /\ obContent[n].read = "idle" => ObInvalid(obContent[n], w).read = "idle")
        BY <2>1, <2>5, <3>3, <4>3, ObInvalidated
      <4> QED BY <2>5, <3>3, <4>2, <4>4 DEF w
    <3> QED BY <3>1, <3>2, <3>3
  <2> QED BY <2>2, <2>6 DEF ObContentInv, ObWanted
<1>11. CASE ObActAnswered
  <2>1. CASE ObBucketDeleted
    <3>1. ObView("list", ObNone) /\ UNCHANGED obFloor
      BY <2>1 DEF ObBucketDeleted, ObMount
    <3> QED BY <3>1, ObViewKeeps
  <2>2. CASE ObBucketSealed \/ ObActFailed
    BY <1>1, <2>2 DEF ObBucketSealed, ObActFailed, obCaches
  <2>3. CASE ObObjectDeleted
    <3> DEFINE s == IF obAct.here /\ obAct.selected = obAct.name THEN ObNone ELSE obSelected
               w == obAct.name \in ObWanted(obPage, s)
               v == ObViewed(obPage, s, FALSE)
    <3>1. /\ obContent' = [v EXCEPT ![obAct.name] = ObDropped(w)] /\ obFloor' = [obFloor EXCEPT ![obAct.name] = 0]
          /\ obSelected' = s /\ UNCHANGED obPage
      BY <2>3 DEF ObObjectDeleted
    <3> HIDE DEF s
    <3>2. v \in [ObNames -> ObEntries] /\ \A m \in ObNames : ObSound(v[m], obFloor[m]) /\ (m \in ObWanted(obPage, s) \/ v[m].read = "idle")
      BY ObViews
    <3> HIDE DEF v
    <3>3. \A m \in ObNames : /\ obContent'[m] = IF m = obAct.name THEN ObDropped(w) ELSE v[m]
                             /\ obFloor'[m] = IF m = obAct.name THEN 0 ELSE obFloor[m]
      BY <3>1, <3>2 DEF ObTypes
    <3>4. ObSound(ObDropped(w), 0) /\ (w \/ ObDropped(w).read = "idle")
      BY ObEntry DEF ObDropped, ObNoEntry, ObSound, ObAsk
    <3>5. ASSUME NEW m \in ObNames
          PROVE  ObSound(obContent'[m], obFloor'[m]) /\ (m \in ObWanted(obPage, s) \/ obContent'[m].read = "idle")
      <4>1. CASE m = obAct.name
        BY <3>3, <3>4, <4>1
      <4>2. CASE m # obAct.name
        BY <3>2, <3>3, <4>2
      <4> QED BY <4>1, <4>2
    <3> QED BY <3>1, <3>5 DEF ObContentInv, ObWanted
  <2> QED BY <1>11, <2>1, <2>2, <2>3 DEF ObActAnswered
<1>12. CASE \/ ObRead \/ ObSearchFor \/ ObTypeForm \/ ObCreate \/ ObRequest \/ ObTypeName \/ ObConfirmAction \/ ObCancel \/ ObDescribe
            \/ ObUploadFile \/ ObUploadDone \/ ObActDone \/ UNCHANGED obVars
  BY <1>1, <1>12 DEF ObRead, ObSearchFor, ObTypeForm, ObCreate, ObRequest, ObTypeName, ObConfirmAction, ObCancel, ObDescribe, obVars,
     ObUploadFile, ObUploadDone, ObActDone, obServer, obCaches, obState, obCalls
<1> QED BY <1>3, <1>4, <1>5, <1>6, <1>7, <1>8, <1>9, <1>10, <1>11, <1>12 DEF ObNext

LEMMA ObInvariant == ObSpec => []ObInv
<1>1. ObInit => ObInv
  <2> SUFFICES ASSUME ObInit PROVE ObInv
    OBVIOUS
  <2>1. ObNoEntry \in ObEntries /\ ObSound(ObNoEntry, 0) /\ ObNoEntry.read = "idle"
    BY DEF ObNoEntry, ObEntries, ObSound
  <2>2. obBucket \in [there : BOOLEAN, sealed : BOOLEAN, objects : [ObNames -> Nat], compressed : BOOLEAN]
    <3>1. CASE obBucket = ObNoBucket
      BY <3>1 DEF ObNoBucket
    <3>2. ASSUME NEW n \in ObNames, obBucket = [ObNewBucket EXCEPT !.objects[n] = 1]
          PROVE  obBucket \in [there : BOOLEAN, sealed : BOOLEAN, objects : [ObNames -> Nat], compressed : BOOLEAN]
      <4>1. ObNewBucket \in [there : BOOLEAN, sealed : BOOLEAN, objects : [ObNames -> Nat], compressed : BOOLEAN]
        BY DEF ObNewBucket, ObNoBucket
      <4> QED BY <3>2, <4>1
    <3> QED BY <3>1, <3>2 DEF ObInit
  <2>3. obUpload \in [name : ObNames \cup {""}, described : BOOLEAN, version : Nat, here : BOOLEAN,
                      state : {"none", "sent", "done"}] /\ obUpload.state = "none"
    BY DEF ObInit, ObNoUpload
  <2>4. obPuts = 1 /\ obDescribed = FALSE /\ obContent = [n \in ObNames |-> ObNoEntry] /\ obFloor = [n \in ObNames |-> 0]
    BY DEF ObInit
  <2>5. ObTypes
    BY <2>1, <2>2, <2>3, <2>4 DEF ObTypes
  <2>6. ObBucketInv
    <3>1. \A n \in ObNames : obBucket.objects[n] \in Nat
      BY <2>2
    <3>2. \A n \in ObNames : obFloor[n] = 0
      BY <2>4
    <3>3. \A n \in ObNames : obFloor[n] <= obPuts /\ (obBucket.objects[n] = 0 \/ obBucket.objects[n] >= obFloor[n])
      <4> SUFFICES ASSUME NEW n \in ObNames PROVE 0 <= 1 /\ (obBucket.objects[n] = 0 \/ obBucket.objects[n] >= 0)
        BY <2>4, <3>2
      <4> QED BY <3>1
    <3> QED BY <2>3, <3>3 DEF ObBucketInv
  <2>7. ObContentInv
    BY <2>1, <2>4 DEF ObContentInv
  <2> QED BY <2>5, <2>6, <2>7 DEF ObInv
<1>2. ObInv /\ [ObNext]_obVars => ObInv'
  BY ObTypesStep, ObBucketStep, ObContentStep DEF ObInv
<1> QED BY <1>1, <1>2, PTL DEF ObSpec

\* A preview that was on the page when an object of its name was uploaded is
\* replaced by one that is no older than the upload.
THEOREM PreviewReplaced == ObSpec => []ObPreviewReplaced
<1>1. ObInv => ObPreviewReplaced
  BY DEF ObInv, ObContentInv, ObSound, ObPreviewReplaced
<1> QED BY <1>1, ObInvariant, PTL

ObConfirms == [type : {"none", "delete-object", "seal-bucket", "delete-bucket"}, name : ObNames \cup {""}, typed : BOOLEAN]
ObActs == [type : {"none", "delete-object", "seal-bucket", "delete-bucket"}, name : ObNames \cup {""},
           selected : ObNames \cup {""}, here : BOOLEAN, state : {"none", "sent", "done", "failed"}]

\* No version is known anywhere that was never written.
ObVersions ==
    /\ obPuts \in 1 .. ObMaxPuts
    /\ \A n \in ObNames : obBucket.objects[n] <= ObMaxPuts
    /\ \A n \in ObNames : obContent[n].data <= ObMaxPuts /\ obContent[n].served <= ObMaxPuts
    /\ obList \in [ObNames -> 0 .. ObMaxPuts]

\* Only the page of the bucket has a selection and a dialog.
ObScreen ==
    /\ obPage \in {"list", "new", "bucket"}
    /\ obSelected.name \in ObNames \cup {""} /\ obConfirm \in ObConfirms /\ obAct \in ObActs
    /\ obPage # "bucket" => obSelected = ObNone /\ obConfirm = ObNoConfirm

LEMMA ObScreenStep == ObScreen /\ [ObNext]_obVars => ObScreen'
<1> SUFFICES ASSUME ObScreen, [ObNext]_obVars PROVE ObScreen'
  OBVIOUS
<1>0. /\ obPage \in {"list", "new", "bucket"} /\ obSelected.name \in ObNames \cup {""} /\ obConfirm \in ObConfirms
      /\ obAct \in ObActs /\ (obPage # "bucket" => obSelected = ObNone /\ obConfirm = ObNoConfirm)
      /\ ObNone.name = "" /\ ObNoConfirm \in ObConfirms /\ ObNoAct \in ObActs
  BY DEF ObScreen, ObNone, ObNoConfirm, ObConfirms, ObNoAct, ObActs
<1>1. (obAct \in ObActs)'
  <2>1. ObLeft(obAct, ObNoAct) \in ObActs
    BY <1>0 DEF ObLeft, ObActs
  <2>2. ASSUME NEW type \in {"delete-object", "seal-bucket", "delete-bucket"}, NEW name \in ObNames \cup {""}, ObPerform(type, name)
        PROVE  obAct' \in ObActs
    BY <1>0, <2>2 DEF ObPerform, ObActs
  <2>3. CASE ObConfirmAction
    <3>1. ObPerform(obConfirm.type, obConfirm.name) /\ obConfirm # ObNoConfirm
          /\ (obConfirm.type = "delete-object" \/ obConfirm.typed)
      BY <2>3 DEF ObConfirmAction
    <3>2. obConfirm.name \in ObNames \cup {""} /\ obConfirm.type \in {"none", "delete-object", "seal-bucket", "delete-bucket"}
      BY <1>0 DEF ObConfirms
    <3> QED BY <1>0, <3>1, <3>2 DEF ObPerform, ObActs
  <2>4. CASE ObActDone
    <3>1. PICK state \in {"done", "failed"} : obAct' = [obAct EXCEPT !.state = state]
      BY <2>4 DEF ObActDone
    <3> QED BY <1>0, <3>1 DEF ObActs
  <2>5. \/ obAct' = obAct \/ obAct' = ObNoAct \/ obAct' = ObLeft(obAct, ObNoAct)
        \/ \E n \in ObNames : ObPerform("delete-object", n)
        \/ ObConfirmAction \/ ObActDone
    BY DEF ObNext, ObRead, ObGo, ObSelect, ObSearchFor, ObTypeForm, ObCreate, ObCreated, ObServe,
       ObContentRead, ObReadFails, ObOtherPuts, ObOtherDeletes, ObUploadFile, ObDescribe, ObUploadDone,
       ObUploaded, ObRequest, ObTypeName, ObCancel, ObActAnswered, ObUse, ObDialogCloses, obServer, obState,
       obCalls, obCaches, obVars
  <2> QED BY <1>0, <2>1, <2>2, <2>3, <2>4, <2>5
<1>2. \/ UNCHANGED <<obPage, obSelected, obConfirm>>
      \/ \E p \in {"list", "new", "bucket"} : obPage' = p /\ obSelected' = ObNone /\ obConfirm' = ObNoConfirm
      \/ ObSelect \/ ObRequest \/ ObTypeName
      \/ UNCHANGED <<obPage, obSelected>> /\ obConfirm' = ObNoConfirm
      \/ ObObjectDeleted
  BY DEF ObNext, ObRead, ObGo, ObSearchFor, ObTypeForm, ObCreate, ObCreated, ObServe, ObContentRead,
     ObReadFails, ObOtherPuts, ObOtherDeletes, ObUploadFile, ObDescribe, ObUploadDone, ObUploaded,
     ObConfirmAction, ObCancel, ObActDone, ObActAnswered, ObUse, ObMount, ObView, ObBucketDeleted,
     ObBucketSealed, ObActFailed, ObDialogCloses, obServer, obState, obCalls, obCaches, obVars
<1>3. CASE UNCHANGED <<obPage, obSelected, obConfirm>>
  BY <1>0, <1>1, <1>3 DEF ObScreen
<1>4. CASE \E p \in {"list", "new", "bucket"} : obPage' = p /\ obSelected' = ObNone /\ obConfirm' = ObNoConfirm
  BY <1>0, <1>1, <1>4 DEF ObScreen
<1>5. CASE ObSelect
  <2>1. PICK n \in ObNames : ObView(obPage, [name |-> n, version |-> obList[n]])
    BY <1>5 DEF ObSelect
  <2>2. obPage' = "bucket" /\ obSelected'.name = n /\ UNCHANGED obConfirm
    BY <1>5, <2>1 DEF ObSelect, ObView, ObFree
  <2> QED BY <1>0, <1>1, <2>2 DEF ObScreen
<1>6. CASE ObRequest
  <2>1. UNCHANGED <<obPage, obSelected>> /\ obPage = "bucket"
    BY <1>6 DEF ObRequest, ObFree, obCaches
  <2>2. \/ UNCHANGED obConfirm
        \/ \E type \in {"delete-object", "seal-bucket", "delete-bucket"}, name \in ObNames \cup {""} :
              obConfirm' = [type |-> type, name |-> name, typed |-> FALSE]
    BY <1>6 DEF ObRequest
  <2>3. obConfirm' \in ObConfirms
    <3>1. CASE UNCHANGED obConfirm
      BY <1>0, <3>1
    <3>2. ASSUME NEW type \in {"delete-object", "seal-bucket", "delete-bucket"}, NEW name \in ObNames \cup {""},
                 obConfirm' = [type |-> type, name |-> name, typed |-> FALSE]
          PROVE  obConfirm' \in ObConfirms
      BY <3>2 DEF ObConfirms
    <3> QED BY <2>2, <3>1, <3>2
  <2> QED BY <1>0, <1>1, <2>1, <2>3 DEF ObScreen
<1>7. CASE ObTypeName
  <2>1. obConfirm' = [obConfirm EXCEPT !.typed = ~obConfirm.typed] /\ obConfirm # ObNoConfirm /\ UNCHANGED <<obPage, obSelected>>
    <3>1. obConfirm' = [obConfirm EXCEPT !.typed = ~@] /\ obConfirm.type \in {"seal-bucket", "delete-bucket"}
      BY <1>7 DEF ObTypeName
    <3>2. UNCHANGED <<obPage, obSelected>>
      BY <1>7 DEF ObTypeName
    <3>3. ObNoConfirm.type = "none"
      BY DEF ObNoConfirm
    <3>4. obConfirm # ObNoConfirm
      BY <3>1, <3>3
    <3> QED BY Zenon, <3>1, <3>2, <3>4
  <2>2. obConfirm' \in ObConfirms
    BY <1>0, <2>1 DEF ObConfirms
  <2> QED BY <1>0, <1>1, <2>1, <2>2 DEF ObScreen
<1>8. CASE UNCHANGED <<obPage, obSelected>> /\ obConfirm' = ObNoConfirm
  BY <1>0, <1>1, <1>8 DEF ObScreen
<1>9. CASE ObObjectDeleted
  <2>1. UNCHANGED obPage /\ (obSelected' = ObNone \/ obSelected' = obSelected) /\ (obConfirm' = ObNoConfirm \/ obConfirm' = obConfirm)
    BY <1>9 DEF ObObjectDeleted, ObDialogCloses
  <2> QED BY <1>0, <1>1, <2>1 DEF ObScreen
<1> QED BY <1>2, <1>3, <1>4, <1>5, <1>6, <1>7, <1>8, <1>9

ObFits(e) == e.data <= ObMaxPuts /\ e.served <= ObMaxPuts

\* What becomes of an entry names no later version.
LEMMA ObFitting ==
    ASSUME NEW e \in ObEntries, ObFits(e), ObMaxPuts \in Nat
    PROVE  /\ ObFits(ObNoEntry) /\ ObFits(ObAsk(e)) /\ ObFits(ObIdle(e))
           /\ \A w \in BOOLEAN : ObFits(ObInvalid(e, w)) /\ ObFits(ObDropped(w))
<1>1. ObNoEntry.data = 0 /\ ObNoEntry.served = 0 /\ ObNoEntry \in ObEntries
  BY DEF ObNoEntry, ObEntries
<1>2. ASSUME NEW d \in ObEntries, d.data <= ObMaxPuts PROVE ObFits(ObAsk(d)) /\ ObFits(ObIdle(d))
  <2>1. ObAsk(d).data = d.data /\ ObAsk(d).served = 0 /\ ObIdle(d).data = d.data /\ ObIdle(d).served = 0
    BY DEF ObAsk, ObIdle, ObEntries
  <2> QED BY <1>2, <2>1 DEF ObFits
<1>3. ObFits(ObNoEntry)
  BY <1>1 DEF ObFits
<1>4. ASSUME NEW w \in BOOLEAN PROVE ObFits(ObInvalid(e, w)) /\ ObFits(ObDropped(w))
  <2> DEFINE s == [e EXCEPT !.stale = TRUE]
  <2>1. s \in ObEntries /\ s.data = e.data /\ s.served = e.served
    BY DEF ObEntries
  <2>2. ObInvalid(e, w) = ObAsk(s) \/ ObInvalid(e, w) = s
    BY DEF ObInvalid
  <2> HIDE DEF s
  <2>3. ObFits(s) /\ ObFits(ObAsk(s))
    BY <1>2, <2>1 DEF ObFits
  <2>4. ObFits(ObDropped(w))
    <3>1. 0 <= ObMaxPuts
      OBVIOUS
    <3>2. ObFits(ObAsk(ObNoEntry))
      BY <1>1, <1>2, <3>1
    <3> QED BY <1>3, <3>2 DEF ObDropped
  <2> QED BY <2>2, <2>3, <2>4
<1> QED BY <1>2, <1>3, <1>4 DEF ObFits

LEMMA ObViewFits ==
    ASSUME ObTypes, ObVersions, ObMaxPuts \in Nat, NEW page, NEW selected, NEW old \in BOOLEAN, NEW n \in ObNames
    PROVE  ObFits(ObViewed(page, selected, old)[n])
<1>1. obContent[n] \in ObEntries /\ ObFits(obContent[n])
  BY DEF ObTypes, ObVersions, ObFits
<1>2. ObFits(ObAsk(obContent[n])) /\ ObFits(ObIdle(obContent[n]))
  BY <1>1, ObFitting
<1>3. ObViewed(page, selected, old)[n] \in {ObIdle(obContent[n]), ObAsk(obContent[n]), obContent[n]}
  BY DEF ObViewed
<1> QED BY <1>1, <1>2, <1>3

\* A page of the bucket shows no version that was not written.
LEMMA ObVersionsStep == ObInv /\ ObScreen /\ ObVersions /\ [ObNext]_obVars => ObVersions'
<1> SUFFICES ASSUME ObTypes, ObBucketInv, ObScreen, ObVersions, [ObNext]_obVars PROVE ObVersions'
  BY DEF ObInv
<1>0. ObMaxPuts \in Nat /\ obPuts \in 1 .. ObMaxPuts /\ obList \in [ObNames -> 0 .. ObMaxPuts]
      /\ obBucket \in [there : BOOLEAN, sealed : BOOLEAN, objects : [ObNames -> Nat], compressed : BOOLEAN]
      /\ \A n \in ObNames : obBucket.objects[n] <= ObMaxPuts
  BY ObAssumption DEF ObAssumption, ObVersions, ObTypes
<1>b. ObMaxPuts \in Nat /\ obPuts \in 1 .. ObMaxPuts
  BY <1>0
<1>00. 0 \in 0 .. ObMaxPuts /\ 0 <= ObMaxPuts /\ obPuts \in Nat /\ (obPuts < ObMaxPuts => obPuts + 1 <= ObMaxPuts)
  BY <1>b
<1>1. (obPuts \in 1 .. ObMaxPuts)'
  <2>1. obPuts' = obPuts \/ (obPuts < ObMaxPuts /\ obPuts' = obPuts + 1)
    BY DEF ObNext, ObRead, ObGo, ObSelect, ObSearchFor, ObTypeForm, ObCreate, ObCreated, ObServe,
       ObContentRead, ObReadFails, ObOtherPuts, ObOtherDeletes, ObUploadFile, ObDescribe, ObUploadDone,
       ObUploaded, ObRequest, ObTypeName, ObConfirmAction, ObCancel, ObActDone, ObActAnswered, ObUse,
       ObView, ObDialogCloses, obServer, obState, obCalls, obCaches, obVars
  <2> QED BY <1>0, <2>1
<1>2. (\A n \in ObNames : obBucket.objects[n] <= ObMaxPuts)'
  <2>1. CASE obBucket' = obBucket
    BY <1>0, <2>1
  <2>2. CASE obPuts < ObMaxPuts /\ \E m \in ObNames \cup {""} : obBucket' = ObPut(obBucket, m)
    <3>1. PICK m \in ObNames \cup {""} : obBucket' = [obBucket EXCEPT !.objects[m] = obPuts + 1]
      BY <2>2 DEF ObPut
    <3>2. obBucket'.objects = [obBucket.objects EXCEPT ![m] = obPuts + 1]
      BY <1>0, <3>1
    <3>3. ASSUME NEW n \in ObNames PROVE obBucket'.objects[n] <= ObMaxPuts
      <4>1. obBucket'.objects[n] = obPuts + 1 \/ obBucket'.objects[n] = obBucket.objects[n]
        BY <1>0, <3>2
      <4>2. obPuts + 1 <= ObMaxPuts
        BY Zenon, <1>00, <2>2
      <4> QED BY <1>0, <4>1, <4>2
    <3> QED BY <3>3
  <2>3. CASE \E m \in ObNames \cup {""} : obBucket' = [obBucket EXCEPT !.objects[m] = 0]
    <3>1. PICK m \in ObNames \cup {""} : obBucket' = [obBucket EXCEPT !.objects[m] = 0]
      BY <2>3
    <3>2. obBucket'.objects = [obBucket.objects EXCEPT ![m] = 0]
      BY <1>0, <3>1
    <3>3. \A n \in ObNames : obBucket'.objects[n] = 0 \/ obBucket'.objects[n] = obBucket.objects[n]
      BY <1>0, <3>2
    <3>4. 0 <= ObMaxPuts
      BY <1>00
    <3> QED BY <1>0, <3>3, <3>4
  <2>4. CASE obBucket' = [obBucket EXCEPT !.sealed = TRUE]
    <3>1. obBucket'.objects = obBucket.objects
      BY <1>0, <2>4
    <3> QED BY <1>0, <3>1
  <2>5. CASE obBucket' = ObNoBucket \/ obBucket' = ObPayload(obForm)
    <3>1. ObNoBucket.objects = [n \in ObNames |-> 0] /\ ObPayload(obForm).objects = [n \in ObNames |-> 0]
      BY DEF ObPayload, ObNewBucket, ObNoBucket
    <3>2. obBucket'.objects = [n \in ObNames |-> 0]
      BY <2>5, <3>1
    <3>3. 0 <= ObMaxPuts
      BY <1>00
    <3> QED BY <3>2, <3>3
  <2>6. obUpload.name \in ObNames \cup {""} /\ obAct.name \in ObNames \cup {""}
    BY DEF ObTypes, ObScreen, ObActs
  <2>7. \/ obBucket' = obBucket
        \/ obPuts < ObMaxPuts /\ \E m \in ObNames \cup {""} : obBucket' = ObPut(obBucket, m)
        \/ \E m \in ObNames \cup {""} : obBucket' = [obBucket EXCEPT !.objects[m] = 0]
        \/ obBucket' = [obBucket EXCEPT !.sealed = TRUE] \/ obBucket' = ObNoBucket \/ obBucket' = ObPayload(obForm)
    BY <2>6 DEF ObNext, ObRead, ObGo, ObSelect, ObSearchFor, ObTypeForm, ObCreate, ObCreated, ObServe,
       ObContentRead, ObReadFails, ObOtherPuts, ObOtherDeletes, ObUploadFile, ObDescribe, ObUploadDone,
       ObUploaded, ObRequest, ObTypeName, ObConfirmAction, ObCancel, ObActDone, ObActAnswered, ObUse,
       ObView, ObDialogCloses, obServer, obState, obCalls, obCaches, obVars
  <2> QED BY <2>1, <2>2, <2>3, <2>4, <2>5, <2>7
<1>3. (obList \in [ObNames -> 0 .. ObMaxPuts])'
  <2>1. obBucket.objects \in [ObNames -> 0 .. ObMaxPuts]
    <3>1. obBucket.objects \in [ObNames -> Nat] /\ \A n \in ObNames : obBucket.objects[n] \in 0 .. ObMaxPuts
      BY <1>0
    <3> QED BY <3>1
  <2>2. ObNotRead \in [ObNames -> 0 .. ObMaxPuts]
    BY <1>00 DEF ObNotRead
  <2>3. obList' \in {obList, obBucket.objects, ObNotRead}
    BY DEF ObNext, ObRead, ObGo, ObSelect, ObSearchFor, ObTypeForm, ObCreate, ObCreated, ObServe,
       ObContentRead, ObReadFails, ObOtherPuts, ObOtherDeletes, ObUploadFile, ObDescribe, ObUploadDone,
       ObUploaded, ObRequest, ObTypeName, ObConfirmAction, ObCancel, ObActDone, ObActAnswered, ObUse,
       ObView, ObBucketDeleted, ObBucketSealed, ObObjectDeleted, ObActFailed, ObDialogCloses, obServer,
       obState, obCalls, obCaches, obVars
  <2> QED BY <1>0, <2>1, <2>2, <2>3
<1>4. ASSUME NEW n \in ObNames PROVE ObFits(obContent'[n])
  <2>1. obContent[n] \in ObEntries /\ ObFits(obContent[n]) /\ obBucket.objects[n] \in Nat /\ obBucket.objects[n] <= ObMaxPuts
    BY <1>0 DEF ObTypes, ObVersions, ObFits
  <2>2. ObFits(ObNoEntry) /\ ObFits(ObAsk(obContent[n])) /\ ObFits(ObIdle(obContent[n]))
        /\ \A w \in BOOLEAN : ObFits(ObInvalid(obContent[n], w)) /\ ObFits(ObDropped(w))
    BY <1>0, <2>1, ObFitting
  <2>3. CASE obContent' = obContent
    BY <2>1, <2>3
  <2>4. ASSUME NEW m \in ObNames, NEW e, ObFits(e) \/ m # n, obContent' = [obContent EXCEPT ![m] = e] PROVE ObFits(obContent'[n])
    BY <2>1, <2>4 DEF ObTypes
  <2>5. ASSUME NEW m \in ObNames, ObServe(m) PROVE ObFits(obContent'[n])
    <3>1. CASE obContent' = [obContent EXCEPT ![m] = ObIdle(obContent[m])]
      BY <2>2, <2>4, <3>1
    <3>2. CASE obContent' = [obContent EXCEPT ![m] = [obContent[m] EXCEPT !.read = "served", !.served = obBucket.objects[m]]]
      <4>1. [obContent[n] EXCEPT !.read = "served", !.served = obBucket.objects[n]].data = obContent[n].data
            /\ [obContent[n] EXCEPT !.read = "served", !.served = obBucket.objects[n]].served = obBucket.objects[n]
        BY <2>1 DEF ObEntries
      <4>2. ObFits([obContent[n] EXCEPT !.read = "served", !.served = obBucket.objects[n]])
        BY <2>1, <4>1 DEF ObFits
      <4> QED BY <2>4, <3>2, <4>2
    <3> QED BY <2>5, <3>1, <3>2 DEF ObServe
  <2>6. ASSUME NEW m \in ObNames, ObContentRead(m) PROVE ObFits(obContent'[n])
    <3>1. obContent' = [obContent EXCEPT ![m] = [ObNoEntry EXCEPT !.data = obContent[m].served]]
      BY <2>6 DEF ObContentRead
    <3>2. [ObNoEntry EXCEPT !.data = obContent[n].served].data = obContent[n].served
          /\ [ObNoEntry EXCEPT !.data = obContent[n].served].served = 0
      BY DEF ObNoEntry
    <3>3. ObFits([ObNoEntry EXCEPT !.data = obContent[n].served])
      BY <1>0, <2>1, <3>2 DEF ObFits
    <3> QED BY <2>4, <3>1, <3>3
  <2>7. ASSUME NEW m \in ObNames, ObReadFails(m) PROVE ObFits(obContent'[n])
    <3>1. obContent' = [obContent EXCEPT ![m] = ObIdle(obContent[m])]
      BY <2>7 DEF ObReadFails
    <3> QED BY <2>2, <2>4, <3>1
  <2>8. ASSUME NEW page, NEW selected, ObView(page, selected) PROVE ObFits(obContent'[n])
    <3>1. PICK old \in BOOLEAN : obContent' = ObViewed(page, selected, old)
      BY <2>8 DEF ObView
    <3> QED BY <1>0, <3>1, ObViewFits
  <2>9. CASE ObUploaded
    <3>1. obUpload.name \in ObNames
      BY <2>9 DEF ObUploaded, ObBucketInv
    <3>2. (obUpload.name \in ObWanted(obPage, obSelected)) \in BOOLEAN
      OBVIOUS
    <3>3. PICK e : obContent' = [obContent EXCEPT ![obUpload.name] = e]
                   /\ e \in {obContent[obUpload.name], ObInvalid(obContent[obUpload.name], obUpload.name \in ObWanted(obPage, obSelected))}
      BY <2>9, <3>1 DEF ObUploaded, ObAfterUpload, ObTypes
    <3>4. ObFits(e) \/ obUpload.name # n
      BY <2>1, <2>2, <3>2, <3>3
    <3> QED BY <2>4, <3>1, <3>3, <3>4
  <2>10. CASE ObObjectDeleted
    <3> DEFINE selected == IF obAct.here /\ obAct.selected = obAct.name THEN ObNone ELSE obSelected
               w == obAct.name \in ObWanted(obPage, selected)
    <3>1. w \in BOOLEAN /\ obContent' = [ObViewed(obPage, selected, FALSE) EXCEPT ![obAct.name] = ObDropped(w)]
      BY <2>10 DEF ObObjectDeleted
    <3> HIDE DEF w, selected
    <3>2. ObFits(ObViewed(obPage, selected, FALSE)[n])
      BY <1>0, ObViewFits
    <3>3. obContent'[n] = ObDropped(w) \/ obContent'[n] = ObViewed(obPage, selected, FALSE)[n]
      BY <3>1 DEF ObViewed
    <3> QED BY <2>2, <3>1, <3>2, <3>3
  <2>11. \/ obContent' = obContent \/ \E m \in ObNames : ObServe(m) \/ ObContentRead(m) \/ ObReadFails(m)
         \/ (\E page, selected : ObView(page, selected)) \/ ObUploaded \/ ObObjectDeleted
    BY DEF ObNext, ObRead, ObGo, ObSelect, ObSearchFor, ObTypeForm, ObCreate, ObCreated, ObOtherPuts,
       ObOtherDeletes, ObUploadFile, ObDescribe, ObUploadDone, ObRequest, ObTypeName, ObConfirmAction,
       ObCancel, ObActDone, ObActAnswered, ObUse, ObMount, ObBucketDeleted, ObBucketSealed, ObActFailed,
       ObDialogCloses, obServer, obState, obCalls, obCaches, obVars
  <2> QED BY <2>3, <2>5, <2>6, <2>7, <2>8, <2>9, <2>10, <2>11
<1> QED BY <1>1, <1>2, <1>3, <1>4 DEF ObVersions, ObFits

\* Every reachable state of the object bucket's pages has its type (ObjectsTab).
THEOREM ObTypeCorrect == ObSpec => []ObTypeOK
<1>1. ObInit => ObVersions /\ ObScreen
  <2> SUFFICES ASSUME ObInit PROVE ObVersions /\ ObScreen
    OBVIOUS
  <2>1. ObMaxPuts \in Nat \ {0}
    BY ObAssumption DEF ObAssumption
  <2>2. 0 \in 0 .. ObMaxPuts /\ 1 \in 1 .. ObMaxPuts /\ 0 <= ObMaxPuts /\ 1 <= ObMaxPuts
    BY <2>1
  <2>3. \A n \in ObNames : obBucket.objects[n] \in {0, 1}
    <3>1. ObNoBucket.objects = [n \in ObNames |-> 0] /\ "objects" \in DOMAIN ObNewBucket /\ ObNewBucket.objects = [n \in ObNames |-> 0]
      BY DEF ObNoBucket, ObNewBucket
    <3>2. CASE obBucket = ObNoBucket
      BY <3>1, <3>2
    <3>3. ASSUME NEW m \in ObNames, obBucket = [ObNewBucket EXCEPT !.objects[m] = 1] PROVE \A n \in ObNames : obBucket.objects[n] \in {0, 1}
      <4>1. obBucket.objects = [ObNewBucket.objects EXCEPT ![m] = 1]
        BY <3>1, <3>3
      <4> QED BY <3>1, <4>1
    <3> QED BY <3>2, <3>3 DEF ObInit
  <2>4. \A n \in ObNames : obBucket.objects[n] <= ObMaxPuts
    BY <2>2, <2>3
  <2>5. ObNoEntry.data = 0 /\ ObNoEntry.served = 0
    BY DEF ObNoEntry
  <2>6. ObVersions
    BY <2>2, <2>4, <2>5 DEF ObInit, ObVersions, ObNotRead
  <2>7. ObScreen
    BY DEF ObInit, ObScreen, ObNone, ObNoConfirm, ObConfirms, ObNoAct, ObActs
  <2> QED BY <2>6, <2>7
<1>2. ObScreen /\ [ObNext]_obVars => ObScreen'
  BY ObScreenStep
<1>3. ObInv /\ ObScreen /\ ObVersions /\ [ObNext]_obVars => ObVersions'
  BY ObVersionsStep
<1>4. ObInv /\ ObScreen /\ ObVersions => ObTypeOK
  <2> SUFFICES ASSUME ObTypes, ObScreen, ObVersions PROVE ObTypeOK
    BY DEF ObInv
  <2>1. ObMaxPuts \in Nat
    BY ObAssumption DEF ObAssumption
  <2>2. obBucket \in [there : BOOLEAN, sealed : BOOLEAN, objects : [ObNames -> 0 .. ObMaxPuts], compressed : BOOLEAN]
    <3>1. obBucket \in [there : BOOLEAN, sealed : BOOLEAN, objects : [ObNames -> Nat], compressed : BOOLEAN]
          /\ \A n \in ObNames : obBucket.objects[n] \in Nat /\ obBucket.objects[n] <= ObMaxPuts
      BY <2>1 DEF ObTypes, ObVersions
    <3>2. obBucket.objects \in [ObNames -> 0 .. ObMaxPuts]
      <4>1. \A n \in ObNames : obBucket.objects[n] \in 0 .. ObMaxPuts
        BY <2>1, <3>1
      <4> QED BY <3>1, <4>1
    <3> QED BY <3>1, <3>2
  <2>3. obContent \in [ObNames -> [data : 0 .. ObMaxPuts, stale : BOOLEAN, read : {"idle", "asked", "served"}, served : 0 .. ObMaxPuts]]
    <3>1. ASSUME NEW n \in ObNames
          PROVE  obContent[n] \in [data : 0 .. ObMaxPuts, stale : BOOLEAN, read : {"idle", "asked", "served"}, served : 0 .. ObMaxPuts]
      <4>1. obContent[n] \in ObEntries /\ obContent[n].data <= ObMaxPuts /\ obContent[n].served <= ObMaxPuts
        BY DEF ObTypes, ObVersions
      <4>2. obContent[n].data \in 0 .. ObMaxPuts /\ obContent[n].served \in 0 .. ObMaxPuts
        BY <2>1, <4>1 DEF ObEntries
      <4> QED BY <4>1, <4>2 DEF ObEntries
    <3> QED BY <3>1 DEF ObTypes
  <2> QED BY <2>2, <2>3 DEF ObTypeOK, ObVersions, ObScreen, ObActs
<1> QED BY <1>1, <1>2, <1>3, <1>4, ObInvariant, PTL DEF ObSpec

---------------------------------------------------------------------------
(*************************************************************************)
(* The proto sources: a source is checked, and made once.                *)
(*************************************************************************)

PsIsJob(job) == DOMAIN job = {"op", "stage", "form", "existing", "into", "checked", "sent", "here"}

\* A press that has begun, and has not made its source yet.
PsIsUnderWay(job) == job.here /\ job.stage \in {"checking", "sending"} /\ job.into = 0

\* A form that made a source is a form for new ones, and remembers the source;
\* a press that would make one was begun by a form that has made none.
PsFormInv ==
    /\ PsIsJob(psJob) /\ psCreated = psTold /\ (psTold # 0 => psPage = "new")
    /\ PsIsUnderWay(psJob) => psTold = 0

PsJobInv == PsFormInv /\ PsSendsChecked

LEMMA PsNoneIs == PsIsJob(PsNoJob) /\ PsNoJob.stage = "none"
BY DEF PsIsJob, PsNoJob

\* What a press leaves of the job it began with.
LEMMA PsPersists ==
    ASSUME NEW job, PsIsJob(job)
    PROVE  /\ PsIsJob(PsPersist(job)) /\ PsPersist(job).stage = "sending" /\ PsPersist(job).sent = PsSent(job)
           /\ PsPersist(job).here = job.here /\ PsPersist(job).into = job.into /\ PsPersist(job).checked = job.checked
BY DEF PsPersist, PsIsJob

\* Without a validation there is no target to send.
LEMMA PsUnchecked ==
    ASSUME PsOpen, ~PsToValidate, NEW job, job.form = psForm,
           job.existing = IF psPage = "edit" THEN psDetail[psId] ELSE PsNoSource
    PROVE  PsSent(job) = ""
<1>1. CASE psForm.type = "upload"
  BY <1>1 DEF PsSent, PsTarget
<1>2. CASE psForm.type # "upload"
  BY <1>2 DEF PsSent, PsToValidate, PsOpen
<1> QED BY <1>1, <1>2

LEMMA PsPresses ==
    ASSUME PsJobInv, PsOpen, NEW op, NEW validate \in BOOLEAN, PsPress(op, validate), validate \/ ~PsToValidate,
           UNCHANGED <<psCreated, psTold, psPage>>
    PROVE  PsJobInv'
<1> DEFINE existing == IF psPage = "edit" THEN psDetail[psId] ELSE PsNoSource
           into == IF psPage = "edit" THEN psId ELSE psCreated
           job == [PsNoJob EXCEPT !.op = op, !.stage = "checking", !.form = psForm, !.here = TRUE,
                    !.existing = existing, !.into = into]
<1>1. PsIsJob(job) /\ job.form = psForm /\ job.existing = existing /\ job.into = into /\ job.stage = "checking"
  BY PsNoneIs DEF PsIsJob
<1>2. psJob' = IF validate THEN job ELSE PsPersist(job)
  BY DEF PsPress
<1>3. into = 0 => psTold = 0
  BY DEF PsJobInv, PsFormInv
<1> HIDE DEF job, into
<1>4. CASE validate
  <2>1. psJob' = job
    BY <1>2, <1>4
  <2>2. PsFormInv'
    BY <1>1, <1>3, <2>1 DEF PsJobInv, PsFormInv, PsIsUnderWay
  <2>3. PsSendsChecked'
    BY <1>1, <2>1 DEF PsSendsChecked
  <2> QED BY <2>2, <2>3 DEF PsJobInv
<1>5. CASE ~validate
  <2>1. psJob' = PsPersist(job)
    BY <1>2, <1>5
  <2>2. PsFormInv'
    BY <1>1, <1>3, <2>1, PsPersists DEF PsJobInv, PsFormInv, PsIsUnderWay
  <2>3. PsSent(job) = ""
    BY <1>1, <1>5, PsUnchecked
  <2>4. PsSendsChecked'
    BY <1>1, <2>1, <2>3, PsPersists DEF PsSendsChecked
  <2> QED BY <2>2, <2>4 DEF PsJobInv
<1> QED BY <1>4, <1>5

LEMMA PsJobEnds ==
    ASSUME PsJobInv, psJob' = PsNoJob \/ (PsIsJob(psJob') /\ psJob'.stage \in {"uploading", "compiling"}),
           psCreated' = psTold', psTold' # 0 => psPage' = "new"
    PROVE  PsJobInv'
<1>1. PsIsJob(psJob') /\ psJob'.stage \notin {"checking", "sending"}
  BY PsNoneIs
<1> QED BY <1>1 DEF PsJobInv, PsFormInv, PsIsUnderWay, PsSendsChecked

LEMMA PsValidatedStep == PsJobInv /\ PsValidated => PsJobInv'
<1> SUFFICES ASSUME PsJobInv, PsValidated PROVE PsJobInv'
  OBVIOUS
<1> DEFINE target == PsTarget(psJob.form.type, psJob.form)
           job == [psJob EXCEPT !.checked = target]
<1>0. UNCHANGED <<psCreated, psTold, psPage>> /\ PsIsJob(psJob) /\ psJob.stage = "checking"
  BY DEF PsValidated, psFields, PsJobInv, PsFormInv
<1>1. CASE psJob' = PsNoJob
  BY <1>0, <1>1, PsJobEnds DEF PsJobInv, PsFormInv
<1>2. CASE psJob' = PsPersist(job)
  <2>1. /\ PsIsJob(job) /\ job.checked = target /\ job.form = psJob.form /\ job.here = psJob.here
        /\ job.into = psJob.into
    BY <1>0 DEF PsIsJob
  <2>2. PsSent(job) \in {"", target}
    BY <2>1 DEF PsSent
  <2> HIDE DEF job, target
  <2>3. PsFormInv'
    BY <1>0, <1>2, <2>1, PsPersists DEF PsJobInv, PsFormInv, PsIsUnderWay
  <2>4. PsSendsChecked'
    BY <1>2, <2>1, <2>2, PsPersists DEF PsSendsChecked
  <2> QED BY <2>3, <2>4 DEF PsJobInv
<1> QED BY <1>1, <1>2 DEF PsValidated

\* A page that is mounted has made no source, and the press goes on without it.
LEMMA PsMounts ==
    ASSUME PsJobInv, NEW page, NEW id, PsMount(page, id), psJob' = PsNoJob \/ psJob' = PsLeft(psJob, PsNoJob)
    PROVE  PsJobInv'
<1>0. psCreated' = 0 /\ psTold' = 0
  BY DEF PsMount
<1>1. CASE psJob' = PsNoJob
  BY <1>0, <1>1, PsJobEnds
<1>2. CASE psJob' = [psJob EXCEPT !.here = FALSE]
  <2>1. PsIsJob(psJob') /\ psJob'.stage = psJob.stage /\ psJob'.sent = psJob.sent /\ psJob'.checked = psJob.checked
    BY <1>2 DEF PsJobInv, PsFormInv, PsIsJob
  <2> QED BY <1>0, <2>1 DEF PsJobInv, PsFormInv, PsSendsChecked
<1> QED BY <1>1, <1>2 DEF PsLeft

LEMMA PsGoing ==
    ASSUME PsJobInv, NEW id, PsGoesOn(id)
    PROVE  PsJobInv'
<1>1. CASE PsLeave
  BY <1>1, PsMounts DEF PsLeave
<1>2. CASE ~PsLeave
  <2> DEFINE stage == IF psJob.op = "save" THEN "uploading" ELSE "compiling"
  <2>1. psJob' = [psJob EXCEPT !.stage = stage, !.into = id] /\ psPage' = psPage
        /\ psCreated' = (IF psJob.here /\ psPage = "new" THEN PsRemembered(id) ELSE psCreated)
        /\ psTold' = IF psJob.here /\ psPage = "new" THEN id ELSE psTold
    BY <1>2 DEF PsGoesOn
  <2>2. stage \in {"uploading", "compiling"}
    OBVIOUS
  <2> HIDE DEF stage
  <2>3. PsIsJob(psJob') /\ psJob'.stage = stage
    BY <2>1 DEF PsJobInv, PsFormInv, PsIsJob
  <2>4. psCreated' = psTold' /\ (psTold' # 0 => psPage' = "new")
    BY <2>1 DEF PsJobInv, PsFormInv, PsRemembered
  <2> QED BY <2>2, <2>3, <2>4, PsJobEnds
<1> QED BY <1>1, <1>2

LEMMA PsFailing == PsJobInv /\ PsFails => PsJobInv'
<1> SUFFICES ASSUME PsJobInv, PsFails PROVE PsJobInv'
  OBVIOUS
<1>1. psJob' = PsNoJob /\ UNCHANGED <<psCreated, psTold, psPage>>
  BY DEF PsFails, psFields
<1> QED BY <1>1, PsJobEnds DEF PsJobInv, PsFormInv

LEMMA PsJobStep == PsJobInv /\ [PsNext]_psVars => PsJobInv'
<1> SUFFICES ASSUME PsJobInv, [PsNext]_psVars PROVE PsJobInv'
  OBVIOUS
<1>1. CASE UNCHANGED <<psJob, psCreated, psTold, psPage>>
  BY <1>1 DEF PsJobInv, PsFormInv, PsSendsChecked
<1>2. CASE PsSubmit
  <2>1. PsOpen /\ UNCHANGED <<psCreated, psTold, psPage>>
        /\ \E op : \E validate \in BOOLEAN : PsPress(op, validate) /\ (validate \/ ~PsToValidate)
    <3>1. PsToValidate \in BOOLEAN
      BY DEF PsToValidate
    <3> QED BY <1>2, <3>1 DEF PsSubmit, psFields
  <2> QED BY <2>1, PsPresses
<1>3. CASE PsValidated
  BY <1>3, PsValidatedStep
<1>4. CASE PsCreates \/ PsUpdates
  BY <1>4, PsGoing, PsFailing DEF PsCreates, PsUpdates
<1>5. CASE PsBuilt
  <2>1. CASE PsLeave
    BY <2>1, PsMounts DEF PsLeave
  <2>2. CASE PsFails
    BY <2>2, PsFailing
  <2>3. CASE psJob' = PsNoJob /\ UNCHANGED <<psCreated, psTold, psPage>>
    BY <2>3, PsJobEnds DEF PsJobInv, PsFormInv
  <2> QED BY <1>5, <2>1, <2>2, <2>3 DEF PsBuilt, psFields
<1>6. CASE PsGo
  BY <1>6, PsMounts DEF PsGo
<1>7. CASE PsReadSource
  BY <1>1, <1>7 DEF PsReadSource
<1> QED
  BY <1>1, <1>2, <1>3, <1>4, <1>5, <1>6, <1>7 DEF PsNext, psVars, psFields, PsReadList, PsType, PsChoose, PsCardAnswered,
     PsOtherChanges, PsCardPress

\* A save sends no target but the one its own validation accepted, and a form
\* that was told of a source it made makes no second one.
THEOREM SourceSavedOnce == PsSpec => [](PsSendsChecked /\ PsCreatesOnce)
<1>1. PsInit => PsJobInv
  BY PsNoneIs DEF PsInit, PsJobInv, PsFormInv, PsIsUnderWay, PsSendsChecked
<1>2. PsJobInv => PsSendsChecked /\ PsCreatesOnce
  BY DEF PsJobInv, PsFormInv, PsIsUnderWay, PsCreatesOnce
<1> QED BY <1>1, <1>2, PsJobStep, PTL DEF PsSpec

PsForms == [type : PsTypes, repository : PsNames, localPath : PsNames, watcherEnabled : BOOLEAN, pendingUpload : BOOLEAN]
PsJobs == [op : {"none", "validate", "save", "compile"}, stage : {"none", "checking", "sending", "uploading", "compiling"},
           form : PsForms, existing : PsSource, into : PsIds \cup {0}, checked : PsNames, sent : PsNames, here : BOOLEAN]
PsCalls == [kind : {"none", "enabled", "watcher", "refresh", "select", "upload", "delete"}, id : PsIds \cup {0},
            on : BOOLEAN, here : BOOLEAN]

PsKnown == psSources \in [PsIds -> PsSource] /\ psList \in [PsIds -> PsSource] /\ psDetail \in [PsIds -> PsSource]
PsWhere == psPage \in {"list", "new", "edit"} /\ psId \in PsIds \cup {0} /\ (psPage = "edit") = (psId # 0)
PsOnForm == psForm \in PsForms /\ psCreated \in PsIds \cup {0}
PsUnderWay == psJob \in PsJobs /\ psCall \in PsCalls /\ (psCall # PsNoCall => psCall.id \in PsIds)

PsAllTypes == PsKnown /\ PsWhere /\ PsOnForm /\ PsUnderWay

\* The values the pages start from.
LEMMA PsNothing ==
    /\ PsNoSource \in PsSource /\ PsEmptyForm \in PsForms /\ PsNoJob \in PsJobs /\ PsNoCall \in PsCalls
    /\ 0 \notin PsIds /\ PsNoJob.existing = PsNoSource
<1>1. "" \in PsNames /\ "git" \in PsTypes /\ "none" \in PsOutcomes
  BY DEF PsNames, PsTypes, PsOutcomes
<1>2. PsNoSource \in PsSource /\ PsEmptyForm \in PsForms
  BY <1>1 DEF PsNoSource, PsSource, PsEmptyForm, PsForms
<1>3. PsNoJob \in PsJobs
  BY <1>1, <1>2 DEF PsNoJob, PsJobs
<1>4. PsNoCall \in PsCalls
  BY DEF PsNoCall, PsCalls
<1>5. 0 \notin PsIds
  BY PsAssumption DEF PsAssumption
<1> QED BY <1>2, <1>3, <1>4, <1>5 DEF PsNoJob

LEMMA PsHydrates == ASSUME NEW s \in PsSource PROVE PsHydrate(s) \in PsForms
BY DEF PsHydrate, PsSource, PsForms

LEMMA PsCompiles == ASSUME NEW s \in PsSource, NEW o \in PsOutcomes PROVE PsCompiled(s, o) \in PsSource
<1>1. (s.activeSchema \/ o = "valid") \in BOOLEAN
  BY DEF PsSource
<1> QED BY <1>1 DEF PsCompiled, PsSource

LEMMA PsTargetIs == ASSUME NEW type, NEW s, s.repository \in PsNames, s.localPath \in PsNames PROVE PsTarget(type, s) \in PsNames
BY DEF PsTarget, PsNames

\* The source that a press makes or changes.
LEMMA PsStores ==
    ASSUME NEW s \in PsSource, NEW job \in PsJobs
    PROVE  PsStored(s, job) \in PsSource
<1> DEFINE new == IF s.there THEN s
                  ELSE [PsNoSource EXCEPT !.there = TRUE, !.enabled = TRUE, !.type = job.form.type,
                           !.watcherEnabled = (job.form.type = "local" /\ job.form.watcherEnabled)]
<1>1. new \in PsSource
  <2>1. job.form.type \in PsTypes /\ (job.form.type = "local" /\ job.form.watcherEnabled) \in BOOLEAN
    BY DEF PsJobs, PsForms
  <2>2. [PsNoSource EXCEPT !.there = TRUE, !.enabled = TRUE, !.type = job.form.type,
           !.watcherEnabled = (job.form.type = "local" /\ job.form.watcherEnabled)] \in PsSource
    BY <2>1, PsNothing DEF PsSource
  <2> QED BY <2>2
<1>2. job.sent \in PsNames
  BY DEF PsJobs
<1>3. PsStored(s, job) \in {new, [new EXCEPT !.repository = job.sent], [new EXCEPT !.localPath = job.sent]}
  BY DEF PsStored
<1> HIDE DEF new
<1> QED BY <1>1, <1>2, <1>3 DEF PsSource

\* A press that goes on with what its form held.
LEMMA PsPersistIs ==
    ASSUME NEW job \in PsJobs
    PROVE  PsPersist(job) \in PsJobs
<1>1. job.form.repository \in PsNames /\ job.form.localPath \in PsNames
  BY DEF PsJobs, PsForms
<1>2. PsTarget(job.form.type, job.form) \in PsNames
  BY <1>1, PsTargetIs
<1>3. PsSent(job) \in PsNames
  BY <1>2 DEF PsSent, PsNames
<1> QED BY <1>3 DEF PsPersist, PsJobs

LEMMA PsSourcesStep == PsAllTypes /\ [PsNext]_psVars => PsKnown'
<1> SUFFICES ASSUME PsAllTypes, [PsNext]_psVars PROVE PsKnown'
  OBVIOUS
<1>0. psSources \in [PsIds -> PsSource] /\ psList \in [PsIds -> PsSource] /\ psDetail \in [PsIds -> PsSource]
      /\ psJob \in PsJobs /\ PsNoSource \in PsSource
  BY PsNothing DEF PsAllTypes, PsKnown, PsUnderWay
<1>p. ASSUME NEW i, NEW s, i \in PsIds => s \in PsSource, psSources' = [psSources EXCEPT ![i] = s] PROVE psSources' \in [PsIds -> PsSource]
  BY <1>0, <1>p
<1>1. psList' \in [PsIds -> PsSource]
  <2>1. psList' = psList \/ psList' = psSources
    BY DEF PsNext, PsReadList, PsReadSource, PsGo, PsType, PsChoose, PsSubmit, PsValidated, PsCreates,
       PsUpdates, PsBuilt, PsCardAnswered, PsOtherChanges, PsCardPress, PsUse, psServer, psFields, psShown,
       psCaches, psVars
  <2> QED BY <1>0, <2>1
<1>2. psDetail' \in [PsIds -> PsSource]
  <2>1. psDetail' = psDetail \/ (psPage = "edit" /\ psDetail' = [psDetail EXCEPT ![psId] = psSources[psId]])
    BY DEF PsNext, PsReadList, PsReadSource, PsGo, PsType, PsChoose, PsSubmit, PsValidated, PsCreates,
       PsUpdates, PsBuilt, PsCardAnswered, PsOtherChanges, PsCardPress, PsUse, psServer, psFields, psShown,
       psCaches, psVars
  <2>2. psPage = "edit" => psId \in PsIds
    BY DEF PsAllTypes, PsWhere
  <2> QED BY <1>0, <2>1, <2>2
<1>3. psSources' \in [PsIds -> PsSource]
  <2>1. ASSUME NEW i \in PsIds, PsOtherChanges(i) PROVE psSources' \in [PsIds -> PsSource]
    <3>1. CASE psSources' = [psSources EXCEPT ![i] = PsNoSource]
      BY <1>0, <1>p, <3>1
    <3>2. ASSUME NEW x \in PsTargets, psSources' = [psSources EXCEPT ![i].repository = x] PROVE psSources' \in [PsIds -> PsSource]
      <4>1. [psSources[i] EXCEPT !.repository = x] \in PsSource
        BY <1>0 DEF PsSource, PsNames
      <4> QED BY <1>p, <3>2, <4>1
    <3>3. ASSUME NEW o \in {"valid", "invalid"}, psSources' = [psSources EXCEPT ![i] = PsCompiled(psSources[i], o)]
          PROVE  psSources' \in [PsIds -> PsSource]
      <4>1. o \in PsOutcomes
        BY DEF PsOutcomes
      <4> QED BY <1>0, <1>p, <3>3, <4>1, PsCompiles
    <3> QED BY <2>1, <3>1, <3>2, <3>3 DEF PsOtherChanges
  <2>2. ASSUME NEW i \in PsIds, psSources' = [psSources EXCEPT ![i] = PsStored(PsNoSource, psJob)] PROVE psSources' \in [PsIds -> PsSource]
    BY <1>0, <1>p, <2>2, PsStores
  <2>3. CASE psSources' = [psSources EXCEPT ![psJob.into] = PsStored(psSources[psJob.into], psJob)]
    BY <1>0, <1>p, <2>3, PsStores
  <2>4. ASSUME NEW o \in {"valid", "invalid"}, psSources' = [psSources EXCEPT ![psJob.into] = PsCompiled(psSources[psJob.into], o)]
        PROVE  psSources' \in [PsIds -> PsSource]
    <3>1. o \in PsOutcomes
      BY DEF PsOutcomes
    <3> QED BY <1>0, <1>p, <2>4, <3>1, PsCompiles
  <2>5. ASSUME NEW o \in PsOutcomes, psSources' = [psSources EXCEPT ![psCall.id] = PsCalled(psSources[psCall.id], psCall, o)]
        PROVE  psSources' \in [PsIds -> PsSource]
    <3>1. ASSUME NEW s \in PsSource PROVE PsCalled(s, psCall, o) \in PsSource
      <4>1. psCall.on \in BOOLEAN
        BY DEF PsAllTypes, PsUnderWay, PsCalls
      <4>2. PsCompiled(s, o) \in PsSource
        BY PsCompiles
      <4>3. (PsCompiled(s, o).selectedRef \/ o = "valid") \in BOOLEAN
        OBVIOUS
      <4>4. [PsCompiled(s, o) EXCEPT !.selectedRef = @ \/ o = "valid"] \in PsSource
        BY <4>2, <4>3 DEF PsSource
      <4>5. [s EXCEPT !.enabled = psCall.on] \in PsSource /\ [s EXCEPT !.watcherEnabled = psCall.on] \in PsSource
        BY <4>1 DEF PsSource
      <4> QED BY <1>0, <4>2, <4>4, <4>5 DEF PsCalled
    <3> QED BY <1>0, <1>p, <2>5, <3>1
  <2>6. \/ psSources' = psSources \/ \E i \in PsIds : PsOtherChanges(i)
        \/ \E i \in PsIds : psSources' = [psSources EXCEPT ![i] = PsStored(PsNoSource, psJob)]
        \/ psSources' = [psSources EXCEPT ![psJob.into] = PsStored(psSources[psJob.into], psJob)]
        \/ \E o \in {"valid", "invalid"} : psSources' = [psSources EXCEPT ![psJob.into] = PsCompiled(psSources[psJob.into], o)]
        \/ PsCardAnswered
    BY DEF PsNext, PsReadList, PsReadSource, PsGo, PsType, PsChoose, PsSubmit, PsValidated, PsCreates,
       PsUpdates, PsBuilt, PsCardPress, PsUse, psServer, psFields, psShown, psCaches, psVars
  <2>7. CASE PsCardAnswered
    <3>1. PICK o \in PsOutcomes :
            psSources' \in {psSources} \cup {[psSources EXCEPT ![psCall.id] = PsCalled(psSources[psCall.id], psCall, o)]}
      BY <2>7 DEF PsCardAnswered, PsOutcomes
    <3> QED BY <1>0, <2>5, <3>1
  <2> QED BY <1>0, <2>1, <2>2, <2>3, <2>4, <2>6, <2>7
<1> QED BY <1>1, <1>2, <1>3 DEF PsKnown

LEMMA PsFormStep == PsAllTypes /\ [PsNext]_psVars => PsWhere' /\ PsOnForm'
<1> SUFFICES ASSUME PsAllTypes, [PsNext]_psVars PROVE PsWhere' /\ PsOnForm'
  OBVIOUS
<1>0. /\ psSources \in [PsIds -> PsSource] /\ psList \in [PsIds -> PsSource] /\ psDetail \in [PsIds -> PsSource]
      /\ psPage \in {"list", "new", "edit"} /\ psId \in PsIds \cup {0} /\ (psPage = "edit") = (psId # 0)
      /\ psForm \in PsForms /\ psCreated \in PsIds \cup {0}
      /\ psJob \in PsJobs /\ PsEmptyForm \in PsForms /\ 0 \notin PsIds
  BY PsNothing DEF PsAllTypes, PsKnown, PsWhere, PsOnForm, PsUnderWay
<1>1. CASE UNCHANGED <<psPage, psId, psForm, psCreated>>
  BY <1>0, <1>1 DEF PsWhere, PsOnForm
<1>2. ASSUME NEW page \in {"list", "new", "edit"}, NEW id \in PsIds \cup {0}, (page = "edit") = (id # 0), PsMount(page, id)
      PROVE  PsWhere' /\ PsOnForm'
  <2>1. psPage' = page /\ psId' = id /\ psCreated' = 0
    BY <1>2 DEF PsMount
  <2>2. psForm' \in PsForms
    <3>1. CASE page = "edit"
      <4>1. PsHydrate(psDetail[id]) \in PsForms
        BY <1>0, <1>2, <3>1, PsHydrates
      <4> QED BY <1>0, <1>2, <4>1 DEF PsMount
    <3>2. CASE page # "edit"
      BY <1>0, <1>2, <3>2 DEF PsMount
    <3> QED BY <3>1, <3>2
  <2> QED BY <1>2, <2>1, <2>2 DEF PsWhere, PsOnForm
<1>3. CASE PsReadSource
  <2>1. psId \in PsIds /\ psDetail' = [psDetail EXCEPT ![psId] = psSources[psId]]
    BY <1>0, <1>3 DEF PsReadSource
  <2>2. psDetail'[psId] \in PsSource
    BY <1>0, <2>1
  <2>3. PsHydrate(psDetail'[psId]) \in PsForms
    BY <2>2, PsHydrates
  <2>4. psForm' = psForm \/ psForm' = PsHydrate(psDetail'[psId])
    BY <1>3 DEF PsReadSource
  <2>5. UNCHANGED <<psPage, psId, psCreated>>
    BY <1>3 DEF PsReadSource
  <2> QED BY <1>0, <2>3, <2>4, <2>5 DEF PsWhere, PsOnForm
<1>4. CASE PsType \/ PsChoose
  <2>1. \/ \E x \in PsNames : psForm' = [psForm EXCEPT !.repository = x] \/ psForm' = [psForm EXCEPT !.localPath = x]
        \/ \E t \in PsTypes : psForm' = [psForm EXCEPT !.type = t]
        \/ psForm' = [psForm EXCEPT !.watcherEnabled = ~psForm.watcherEnabled]
        \/ psForm' = [psForm EXCEPT !.pendingUpload = TRUE]
    BY <1>4 DEF PsType, PsChoose
  <2>2. psForm' \in PsForms
    BY <1>0, <2>1 DEF PsForms
  <2>3. UNCHANGED <<psPage, psId, psCreated>>
    BY <1>4 DEF PsType, PsChoose
  <2> QED BY <1>0, <2>2, <2>3 DEF PsWhere, PsOnForm
<1>5. ASSUME NEW id \in PsIds, PsGoesOn(id) PROVE PsWhere' /\ PsOnForm'
  <2>1. CASE PsLeave
    BY <1>2, <2>1 DEF PsLeave
  <2>2. CASE ~PsLeave
    <3>1. UNCHANGED <<psPage, psId, psForm>> /\ psCreated' \in {psCreated, id}
      BY <1>5, <2>2 DEF PsGoesOn, PsRemembered
    <3> QED BY <1>0, <3>1 DEF PsWhere, PsOnForm
  <2> QED BY <2>1, <2>2
<1>6. CASE PsUpdates
  <2>1. PsGoesOn(psJob.into) \/ PsFails
    BY <1>6 DEF PsUpdates
  <2>2. psJob.into \in PsIds
    BY <1>0, <1>6 DEF PsUpdates, PsJobs
  <2> QED BY <1>1, <1>5, <2>1, <2>2 DEF PsFails, psFields
<1>7. CASE PsCreates
  BY <1>1, <1>5, <1>7 DEF PsCreates, PsFails, psFields
<1>8. CASE PsLeave
  BY <1>2, <1>8 DEF PsLeave
<1>9. CASE PsGo
  <2>1. PICK page \in {"list", "new", "edit"}, id \in PsIds \cup {0} : (page = "edit") = (id # 0) /\ PsMount(page, id)
    BY <1>0, <1>9 DEF PsGo
  <2> QED BY <1>2, <2>1
<1>10. UNCHANGED <<psPage, psId, psForm, psCreated>> \/ PsReadSource \/ PsType \/ PsChoose \/ PsUpdates \/ PsCreates \/ PsLeave \/ PsGo
  BY DEF PsNext, PsReadList, PsSubmit, PsValidated, PsBuilt, PsCardAnswered, PsOtherChanges, PsCardPress,
     PsUse, PsFails, psServer, psFields, psShown, psCaches, psVars
<1> QED BY <1>1, <1>3, <1>4, <1>6, <1>7, <1>8, <1>9, <1>10

LEMMA PsWayStep == PsAllTypes /\ [PsNext]_psVars => PsUnderWay'
<1> SUFFICES ASSUME PsAllTypes, [PsNext]_psVars PROVE PsUnderWay'
  OBVIOUS
<1>0. /\ psList \in [PsIds -> PsSource] /\ psDetail \in [PsIds -> PsSource] /\ psPage \in {"list", "new", "edit"}
      /\ psId \in PsIds \cup {0} /\ (psPage = "edit") = (psId # 0)
      /\ psForm \in PsForms /\ psCreated \in PsIds \cup {0} /\ psJob \in PsJobs
      /\ psCall \in PsCalls /\ (psCall # PsNoCall => psCall.id \in PsIds)
      /\ PsNoSource \in PsSource /\ PsNoJob \in PsJobs /\ PsNoCall \in PsCalls
  BY PsNothing DEF PsAllTypes, PsKnown, PsWhere, PsOnForm, PsUnderWay
<1>1. psJob' \in PsJobs
  <2>1. PsLeft(psJob, PsNoJob) \in PsJobs
    BY <1>0 DEF PsLeft, PsJobs
  <2>2. ASSUME NEW op \in {"validate", "save", "compile"}, NEW validate, PsPress(op, validate) PROVE psJob' \in PsJobs
    <3> DEFINE existing == IF psPage = "edit" THEN psDetail[psId] ELSE PsNoSource
               into == IF psPage = "edit" THEN psId ELSE psCreated
               job == [PsNoJob EXCEPT !.op = op, !.stage = "checking", !.form = psForm, !.here = TRUE,
                        !.existing = existing, !.into = into]
    <3>1. existing \in PsSource /\ into \in PsIds \cup {0}
      BY <1>0
    <3>2. psJob' = IF validate THEN job ELSE PsPersist(job)
      BY <2>2 DEF PsPress
    <3> HIDE DEF existing, into
    <3>3. job \in PsJobs
      BY <1>0, <3>1 DEF PsJobs
    <3> HIDE DEF job
    <3>4. PsPersist(job) \in PsJobs
      BY <3>3, PsPersistIs
    <3> QED BY <3>2, <3>3, <3>4
  <2>3. CASE PsValidated
    <3> DEFINE target == PsTarget(psJob.form.type, psJob.form)
               job == [psJob EXCEPT !.checked = target]
    <3>1. psJob.form.repository \in PsNames /\ psJob.form.localPath \in PsNames
      BY <1>0 DEF PsJobs, PsForms
    <3>2. target \in PsNames
      BY <3>1, PsTargetIs
    <3>3. psJob' = PsPersist(job) \/ psJob' = PsNoJob
      BY <2>3 DEF PsValidated
    <3> HIDE DEF target
    <3>4. job \in PsJobs
      BY <1>0, <3>2 DEF PsJobs
    <3> HIDE DEF job
    <3>5. PsPersist(job) \in PsJobs
      BY <3>4, PsPersistIs
    <3> QED BY <1>0, <3>3, <3>5
  <2>4. ASSUME NEW id \in PsIds, PsGoesOn(id) PROVE psJob' \in PsJobs
    <3>1. CASE psJob' = PsNoJob
      BY <1>0, <3>1
    <3>2. ASSUME NEW stage \in {"uploading", "compiling"}, psJob' = [psJob EXCEPT !.stage = stage, !.into = id] PROVE psJob' \in PsJobs
      BY <1>0, <3>2 DEF PsJobs
    <3>3. psJob' = PsNoJob \/ \E stage \in {"uploading", "compiling"} : psJob' = [psJob EXCEPT !.stage = stage, !.into = id]
      BY <2>4 DEF PsGoesOn, PsLeave
    <3> QED BY <3>1, <3>2, <3>3
  <2>5. CASE PsUpdates
    <3>1. PsGoesOn(psJob.into) \/ psJob' = PsNoJob
      BY <2>5 DEF PsUpdates, PsFails
    <3>2. psJob.into \in PsIds
      BY <1>0, <2>5 DEF PsUpdates, PsJobs
    <3> QED BY <1>0, <2>4, <3>1, <3>2
  <2>6. CASE PsCreates
    BY <1>0, <2>4, <2>6 DEF PsCreates, PsFails
  <2>7. CASE PsSubmit
    BY <2>2, <2>7 DEF PsSubmit
  <2>8. psJob' = psJob \/ psJob' = PsNoJob \/ psJob' = PsLeft(psJob, PsNoJob) \/ PsValidated \/ PsUpdates \/ PsCreates \/ PsSubmit
    BY DEF PsNext, PsReadList, PsReadSource, PsGo, PsType, PsChoose, PsBuilt, PsCardAnswered,
       PsOtherChanges, PsCardPress, PsUse, PsFails, PsLeave, psServer, psFields, psShown, psCaches, psVars
  <2> QED BY <1>0, <2>1, <2>3, <2>5, <2>6, <2>7, <2>8
<1>2. psCall' \in PsCalls /\ (psCall' # PsNoCall => psCall'.id \in PsIds)
  <2>1. PsLeft(psCall, PsNoCall) \in PsCalls /\ (PsLeft(psCall, PsNoCall) # PsNoCall => PsLeft(psCall, PsNoCall).id \in PsIds)
    <3>1. CASE psCall = PsNoCall
      BY <1>0, <3>1 DEF PsLeft
    <3>2. CASE psCall # PsNoCall
      BY <1>0, <3>2 DEF PsLeft, PsCalls
    <3> QED BY <3>1, <3>2
  <2>2. ASSUME NEW i \in PsIds, PsCardPress(i) PROVE psCall' \in PsCalls /\ (psCall' # PsNoCall => psCall'.id \in PsIds)
    <3>1. CASE psCall' = psCall
      BY <1>0, <3>1
    <3>2. ASSUME NEW kind \in {"enabled", "watcher", "refresh", "select", "upload", "delete"}, NEW on \in BOOLEAN, PsAsk(kind, i, on)
          PROVE  psCall' \in PsCalls /\ (psCall' # PsNoCall => psCall'.id \in PsIds)
      BY <2>2, <3>2 DEF PsAsk, PsCalls
    <3>3. (~psList[i].enabled) \in BOOLEAN /\ (~psList[i].watcherEnabled) \in BOOLEAN
      OBVIOUS
    <3>4. \/ psCall' = psCall
          \/ \E kind \in {"enabled", "watcher", "refresh", "select", "upload", "delete"} : \E on \in BOOLEAN : PsAsk(kind, i, on)
      BY <2>2, <3>3 DEF PsCardPress, PsBuild
    <3> QED BY <3>1, <3>2, <3>4
  <2>3. psCall' = psCall \/ psCall' = PsNoCall \/ psCall' = PsLeft(psCall, PsNoCall) \/ \E i \in PsIds : PsCardPress(i)
    BY DEF PsNext, PsReadList, PsReadSource, PsGo, PsType, PsChoose, PsSubmit, PsValidated, PsCreates,
       PsUpdates, PsBuilt, PsCardAnswered, PsOtherChanges, PsUse, PsGoesOn, PsFails, PsLeave, psServer,
       psFields, psShown, psCaches, psVars
  <2> QED BY <1>0, <2>1, <2>2, <2>3
<1> QED BY <1>1, <1>2 DEF PsUnderWay

\* Every reachable state of the pages of the proto sources has its type
\* (ProtoSourceEditPage, ProtoSourceCard).
THEOREM PsTypeCorrect == PsSpec => []PsTypeOK
<1>1. PsInit => PsAllTypes /\ PsJobInv
  <2> SUFFICES ASSUME PsInit PROVE PsAllTypes
    BY PsNoneIs DEF PsInit, PsJobInv, PsFormInv, PsIsUnderWay, PsSendsChecked
  <2>1. (CHOOSE x \in PsTargets : TRUE) \in PsTargets
    BY PsAssumption DEF PsAssumption
  <2> DEFINE first(t) == [PsNoSource EXCEPT !.there = TRUE, !.enabled = TRUE, !.type = t,
                            !.repository = IF t = "git" THEN CHOOSE x \in PsTargets : TRUE ELSE "",
                            !.localPath = IF t = "local" THEN CHOOSE x \in PsTargets : TRUE ELSE "",
                            !.watcherEnabled = (t = "local")]
  <2>2. ASSUME NEW t \in PsTypes PROVE first(t) \in PsSource
    <3> DEFINE some == CHOOSE x \in PsTargets : TRUE
    <3>1. some \in PsNames /\ "" \in PsNames
      BY <2>1 DEF PsNames
    <3> HIDE DEF some
    <3>2. [PsNoSource EXCEPT !.there = TRUE, !.enabled = TRUE, !.type = t, !.repository = IF t = "git" THEN some ELSE "",
             !.localPath = IF t = "local" THEN some ELSE "", !.watcherEnabled = (t = "local")] \in PsSource
      BY <3>1, PsNothing DEF PsSource
    <3> QED BY <3>2 DEF some
  <2>3. PICK s \in PsSource : psSources = [i \in PsIds |-> IF i = 1 THEN s ELSE PsNoSource]
    <3>1. psSources \in {[i \in PsIds |-> IF i = 1 THEN s ELSE PsNoSource] : s \in {first(t) : t \in PsTypes}}
      BY DEF PsInit
    <3> HIDE DEF first
    <3> QED BY <2>2, <3>1
  <2>4. PsKnown
    BY <2>3, PsNothing DEF PsInit, PsKnown
  <2>5. PsWhere /\ PsOnForm /\ PsUnderWay
    BY PsNothing DEF PsInit, PsWhere, PsOnForm, PsUnderWay
  <2> QED BY <2>4, <2>5 DEF PsAllTypes
<1>2. PsAllTypes /\ [PsNext]_psVars => PsAllTypes'
  BY PsSourcesStep, PsFormStep, PsWayStep DEF PsAllTypes
<1>3. PsAllTypes /\ PsJobInv => PsTypeOK
  BY DEF PsAllTypes, PsKnown, PsWhere, PsOnForm, PsUnderWay, PsTypeOK, PsForms, PsJobs, PsJobInv, PsFormInv
<1> QED BY <1>1, <1>2, <1>3, PsJobStep, PTL DEF PsSpec
=============================================================================
