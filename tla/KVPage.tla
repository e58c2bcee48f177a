------------------------------- MODULE KVPage -------------------------------
(***************************************************************************)
(* The page of a key-value bucket (components/kv/KVStorePage.tsx): search   *)
(* and selection of a key, its editor, creation, deletion and purge of     *)
(* keys, clearing and deletion of the bucket.  Other clients write to the  *)
(* same bucket.  The page is mounted anew for every bucket (router.tsx,    *)
(* KeyedByParam), so one bucket is enough; its watch is in KVWatch.        *)
(***************************************************************************)
EXTENDS Naturals, FiniteSets

CONSTANTS
    KvKeys,       \* keys of the bucket
    KvMaxSeq,     \* bound on the revisions written
    KvMaxPresses  \* bound on the user's steps

ASSUME KvAssumption ==
    KvKeys # {} /\ IsFiniteSet(KvKeys) /\ KvMaxSeq \in Nat \ {0} /\ KvMaxPresses \in Nat

VARIABLES
    kvStore,    \* the bucket: the revision a key holds, 0 when it holds none
    kvSeq,      \* last revision given
    kvInfo,     \* what the bucket and the connection allow
    kvList,     \* the cached answer to ListKVKeys
    kvEntry,    \* the cached revision of each key
    kvSelected, kvCreating, kvNew, kvDraft, kvRaw, kvHistory,
    kvSearch,   \* the search text, as what it selects
    kvConfirm,  \* confirmAction
    kvCall,     \* the mutation under way
    kvPresses

kvServer == <<kvStore, kvSeq>>
kvCaches == <<kvList, kvEntry>>
kvEditor == <<kvSelected, kvCreating, kvNew, kvDraft, kvRaw, kvHistory>>
kvFixed == <<kvInfo>>
kvVars == <<kvServer, kvFixed, kvCaches, kvEditor, kvSearch, kvConfirm, kvCall, kvPresses>>

KvNone == "no key"
KvNoDraft == [key |-> KvNone, rev |-> 0, began |-> 0]
KvNoCall == [what |-> "none", key |-> KvNone, from |-> KvNone, rev |-> 0, began |-> 0, answer |-> "none"]
KvNoConfirm == [type |-> "none", name |-> KvNone, typed |-> FALSE]
KvNoNew == [name |-> KvNone, ttl |-> "none"]

\* One restriction at a time.
KvInfos == {i \in [readOnly : BOOLEAN, mirror : BOOLEAN, keyTtl : BOOLEAN] :
              Cardinality({f \in DOMAIN i : i[f]}) <= 1}

KvInit ==
    /\ \E k \in KvKeys : kvStore = [x \in KvKeys |-> IF x = k THEN 1 ELSE 0]
    /\ kvSeq = 1 /\ kvInfo \in KvInfos
    /\ kvList = {} /\ kvEntry = [x \in KvKeys |-> 0]
    /\ kvSelected = KvNone /\ kvCreating = FALSE /\ kvNew = KvNoNew /\ kvDraft = KvNoDraft
    /\ kvRaw = FALSE /\ kvHistory = FALSE /\ kvSearch = "none" /\ kvConfirm = KvNoConfirm
    /\ kvCall = KvNoCall /\ kvPresses = 0

KvUse == kvPresses < KvMaxPresses /\ kvPresses' = kvPresses + 1

---------------------------------------------------------------------------
\* The server.

KvHeld == {k \in KvKeys : kvStore[k] # 0}

KvWrite(op, k) ==
    /\ kvSeq < KvMaxSeq /\ kvSeq' = kvSeq + 1
    /\ kvStore' = [kvStore EXCEPT ![k] = IF op = "put" THEN kvSeq + 1 ELSE 0]

KvOtherWrites(op, k) ==
    /\ KvWrite(op, k) /\ UNCHANGED <<kvFixed, kvCaches, kvEditor, kvSearch, kvConfirm, kvCall, kvPresses>>

\* A PutKVKey with a revision is refused unless the key still holds it.
KvAccepts(call) == CASE call.what = "put" -> call.rev = 0 \/ kvStore[call.key] = call.rev
                     [] OTHER -> TRUE

---------------------------------------------------------------------------
\* The caches.

\* The list follows the bucket some time after a change (KVWatch).
KvListFetched ==
    /\ kvList # KvHeld /\ kvList' = KvHeld
    /\ UNCHANGED <<kvServer, kvFixed, kvEntry, kvEditor, kvSearch, kvConfirm, kvCall, kvPresses>>

\* useKVKey: the selected key is read when it is selected and again after a
\* change of it was seen; an answer for a key that is gone leaves what there was.
KvEntryFetched ==
    /\ kvSelected # KvNone /\ kvStore[kvSelected] \notin {0, kvEntry[kvSelected]}
    /\ kvEntry' = [kvEntry EXCEPT ![kvSelected] = kvStore[kvSelected]]
    /\ UNCHANGED <<kvServer, kvFixed, kvList, kvEditor, kvSearch, kvConfirm, kvCall, kvPresses>>

---------------------------------------------------------------------------
\* The list.

\* filteredKeys.
KvFilteredKeys == IF kvSearch = "none" THEN kvList ELSE kvList \cap {kvSearch}
KvOfferedKeys == IF kvInfo.mirror \/ kvConfirm # KvNoConfirm \/ kvHistory THEN {} ELSE KvFilteredKeys

KvSearchFor(what) ==
    /\ KvUse /\ ~kvInfo.mirror /\ what # kvSearch /\ kvSearch' = what
    /\ UNCHANGED <<kvServer, kvFixed, kvCaches, kvEditor, kvConfirm, kvCall>>

KvSelect(k) ==
    /\ KvUse /\ k \in KvOfferedKeys /\ (kvSelected # k \/ kvCreating)
    /\ kvSelected' = k /\ kvCreating' = FALSE /\ kvHistory' = FALSE
    /\ UNCHANGED <<kvServer, kvFixed, kvCaches, kvNew, kvDraft, kvRaw, kvSearch, kvConfirm, kvCall>>

\* The actions of the key and of the bucket; the list offers the first two
\* for each of its keys as well.
KvOffers(k) ==
    IF kvInfo.readOnly \/ kvConfirm # KvNoConfirm \/ kvHistory THEN {}
    ELSE (IF ~kvInfo.mirror /\ k \in KvOfferedKeys \cup ({kvSelected} \ {KvNone})
          THEN {"delete-key", "purge-key"} ELSE {})
         \cup (IF k = KvNone THEN {"delete-bucket"} \cup (IF kvInfo.mirror THEN {} ELSE {"clear-bucket"}) ELSE {})

KvStartCreating ==
    /\ KvUse /\ ~kvInfo.readOnly /\ ~kvInfo.mirror /\ ~kvCreating /\ kvConfirm = KvNoConfirm
    /\ kvCreating' = TRUE /\ kvSelected' = KvNone /\ kvHistory' = FALSE /\ kvNew' = KvNoNew
    /\ UNCHANGED <<kvServer, kvFixed, kvCaches, kvDraft, kvRaw, kvSearch, kvConfirm, kvCall>>

---------------------------------------------------------------------------
\* The editor.

KvValueDirty == kvDraft.key = kvSelected /\ kvSelected # KvNone
KvEditorOffers ==
    (IF kvSelected = KvNone \/ kvEntry[kvSelected] = 0 THEN {} ELSE {"raw", "history"})
    \cup (IF kvInfo.readOnly \/ kvSelected = KvNone \/ kvRaw THEN {}
          ELSE {"edit", "reset"} \cup (IF kvCall = KvNoCall THEN {"save"} ELSE {}))

\* Mutant: an edit goes by the revision that is shown now.
KvDraftOnLatest(began) == kvEntry[kvSelected]

\* setEditingValue: a draft keeps the revision it was begun on.
KvDraftRevision(began) == began

KvEdit ==
    LET began == IF KvValueDirty THEN kvDraft.began ELSE kvEntry[kvSelected] IN
    /\ KvUse /\ "edit" \in KvEditorOffers /\ kvEntry[kvSelected] # 0
    /\ kvDraft' = [key |-> kvSelected, rev |-> KvDraftRevision(began), began |-> began]
    /\ UNCHANGED <<kvServer, kvFixed, kvCaches, kvSelected, kvCreating, kvNew, kvRaw, kvHistory, kvSearch, kvConfirm, kvCall>>

KvReset ==
    /\ KvUse /\ "reset" \in KvEditorOffers /\ kvDraft # KvNoDraft /\ kvDraft' = KvNoDraft
    /\ UNCHANGED <<kvServer, kvFixed, kvCaches, kvSelected, kvCreating, kvNew, kvRaw, kvHistory, kvSearch, kvConfirm, kvCall>>

KvToggleRaw ==
    /\ KvUse /\ "raw" \in KvEditorOffers /\ kvRaw' = ~kvRaw
    /\ UNCHANGED <<kvServer, kvFixed, kvCaches, kvSelected, kvCreating, kvNew, kvDraft, kvHistory, kvSearch, kvConfirm, kvCall>>

KvShowHistory ==
    /\ KvUse /\ (kvHistory \/ "history" \in KvEditorOffers) /\ kvHistory' = ~kvHistory
    /\ UNCHANGED <<kvServer, kvFixed, kvCaches, kvSelected, kvCreating, kvNew, kvDraft, kvRaw, kvSearch, kvConfirm, kvCall>>

KvTypeNew(name, ttl) ==
    /\ KvUse /\ kvCreating /\ kvNew' = [name |-> name, ttl |-> ttl] /\ kvNew' # kvNew
    /\ (ttl # "none" => kvInfo.keyTtl)
    /\ UNCHANGED <<kvServer, kvFixed, kvCaches, kvSelected, kvCreating, kvDraft, kvRaw, kvHistory, kvSearch, kvConfirm, kvCall>>

KvSave ==
    /\ KvUse /\ "save" \in KvEditorOffers /\ (KvValueDirty \/ kvEntry[kvSelected] # 0)
    /\ kvCall' = [what |-> "put", key |-> kvSelected, from |-> kvSelected, answer |-> "none",
                  rev |-> IF KvValueDirty THEN kvDraft.rev ELSE kvEntry[kvSelected],
                  began |-> IF KvValueDirty THEN kvDraft.began ELSE kvEntry[kvSelected]]
    /\ UNCHANGED <<kvServer, kvFixed, kvCaches, kvEditor, kvSearch, kvConfirm>>

\* Goes without a revision: an existing key is overwritten.
KvCreate ==
    /\ KvUse /\ kvCreating /\ kvNew.name # KvNone /\ kvNew.ttl # "bad" /\ kvCall = KvNoCall
    /\ kvCall' = [KvNoCall EXCEPT !.what = "create", !.key = kvNew.name]
    /\ UNCHANGED <<kvServer, kvFixed, kvCaches, kvEditor, kvSearch, kvConfirm>>

KvCancelCreate ==
    /\ KvUse /\ kvCreating /\ kvCreating' = FALSE
    /\ UNCHANGED <<kvServer, kvFixed, kvCaches, kvSelected, kvNew, kvDraft, kvRaw, kvHistory, kvSearch, kvConfirm, kvCall>>

---------------------------------------------------------------------------
\* Deletion.

\* A bucket is deleted or cleared only after its name was typed.  A setting
\* lets single keys go without a dialog.
KvRequest(type, k, ask) ==
    /\ KvUse /\ type \in KvOffers(k) /\ (ask \/ (kvCall = KvNoCall /\ k # KvNone))
    /\ IF ask THEN kvConfirm' = [type |-> type, name |-> k, typed |-> FALSE] /\ UNCHANGED kvCall
       ELSE kvCall' = [KvNoCall EXCEPT !.what = type, !.key = k, !.from = kvSelected] /\ UNCHANGED kvConfirm
    /\ UNCHANGED <<kvServer, kvFixed, kvCaches, kvEditor, kvSearch>>

KvTypeConfirm ==
    /\ KvUse /\ kvConfirm.type \in {"delete-bucket", "clear-bucket"} /\ kvConfirm' = [kvConfirm EXCEPT !.typed = ~@]
    /\ UNCHANGED <<kvServer, kvFixed, kvCaches, kvEditor, kvSearch, kvCall>>

KvConfirmed ==
    /\ KvUse /\ kvConfirm # KvNoConfirm /\ (kvConfirm.name = KvNone => kvConfirm.typed) /\ kvCall = KvNoCall
    /\ kvCall' = [KvNoCall EXCEPT !.what = kvConfirm.type, !.key = kvConfirm.name, !.from = kvSelected]
    /\ UNCHANGED <<kvServer, kvFixed, kvCaches, kvEditor, kvSearch, kvConfirm>>

KvCancelConfirm ==
    /\ KvUse /\ kvConfirm # KvNoConfirm /\ kvConfirm' = KvNoConfirm
    /\ UNCHANGED <<kvServer, kvFixed, kvCaches, kvEditor, kvSearch, kvCall>>

---------------------------------------------------------------------------
\* The server carries out the call under way, or refuses it.
KvCarryOut ==
    /\ kvCall.what # "none" /\ kvCall.answer = "none" /\ KvAccepts(kvCall)
    /\ CASE kvCall.what \in {"put", "create"} -> KvWrite("put", kvCall.key)
         [] kvCall.what \in {"delete-key", "purge-key"} -> KvWrite("delete", kvCall.key)
         [] OTHER -> kvStore' = [k \in KvKeys |-> 0] /\ UNCHANGED kvSeq
    /\ kvCall' = [kvCall EXCEPT !.answer = "done"]
    /\ UNCHANGED <<kvFixed, kvCaches, kvEditor, kvSearch, kvConfirm, kvPresses>>

\* A failure is told and leaves what was typed.
KvRefused ==
    /\ kvCall.what # "none" /\ kvCall.answer = "none" /\ kvCall' = KvNoCall
    /\ kvConfirm' = IF kvCall.what \in {"put", "create"} THEN kvConfirm ELSE KvNoConfirm
    /\ UNCHANGED <<kvServer, kvFixed, kvCaches, kvEditor, kvSearch, kvPresses>>

KvSaved ==
    /\ kvCall.what \in {"put", "create"} /\ kvCall.answer = "done" /\ kvCall' = KvNoCall
    /\ IF kvCall.what = "create" THEN kvCreating' = FALSE /\ kvNew' = KvNoNew /\ UNCHANGED kvDraft
       ELSE kvDraft' = KvNoDraft /\ UNCHANGED <<kvCreating, kvNew>>
    /\ UNCHANGED <<kvServer, kvFixed, kvCaches, kvSelected, kvRaw, kvHistory, kvSearch, kvConfirm, kvPresses>>

\* Deselects the key if it was selected when the call was made.  The page of a
\* bucket that was deleted is left.
KvDone ==
    /\ kvCall.what \notin {"none", "put", "create"} /\ kvCall.answer = "done"
    /\ kvCall' = KvNoCall /\ kvConfirm' = KvNoConfirm
    /\ kvSelected' = IF kvCall.key \in {KvNone, kvCall.from} THEN KvNone ELSE kvSelected
    /\ kvHistory' = (kvHistory /\ kvSelected' = kvSelected)
    /\ kvDraft' = IF kvCall.what = "clear-bucket" THEN KvNoDraft ELSE kvDraft
    /\ kvEntry' = [k \in KvKeys |-> IF kvCall.key \in {KvNone, k} THEN 0 ELSE kvEntry[k]]
    /\ kvPresses' = IF kvCall.what = "delete-bucket" THEN KvMaxPresses ELSE kvPresses
    /\ UNCHANGED <<kvServer, kvFixed, kvList, kvCreating, kvNew, kvRaw, kvSearch>>

KvNext ==
    \/ \E k \in KvKeys : KvSelect(k) \/ \E op \in {"put", "delete"} : KvOtherWrites(op, k)
    \/ KvListFetched \/ KvEntryFetched
    \/ \E what \in KvKeys \cup {"none"} : KvSearchFor(what)
    \/ KvStartCreating \/ KvEdit \/ KvReset \/ KvToggleRaw \/ KvShowHistory \/ KvSave \/ KvCreate \/ KvCancelCreate
    \/ \E name \in KvKeys, ttl \in {"none", "ok", "bad"} : KvTypeNew(name, ttl)
    \/ \E type \in {"delete-key", "purge-key", "delete-bucket", "clear-bucket"}, k \in KvKeys \cup {KvNone}, ask \in BOOLEAN :
          KvRequest(type, k, ask)
    \/ KvTypeConfirm \/ KvConfirmed \/ KvCancelConfirm \/ KvCarryOut \/ KvRefused \/ KvSaved \/ KvDone

KvSpec == KvInit /\ [][KvNext]_kvVars

---------------------------------------------------------------------------
KvTypeOK ==
    /\ kvStore \in [KvKeys -> 0..KvMaxSeq] /\ kvList \subseteq KvKeys /\ kvSelected \in KvKeys \cup {KvNone}
    /\ kvEntry \in [KvKeys -> 0..KvMaxSeq] /\ kvDraft.key \in KvKeys \cup {KvNone}

\* A save replaces the revision the user began to edit, never one that
\* another client wrote meanwhile.
KvSaveStep ==
    (kvCall.what = "put" /\ kvCall.answer = "none" /\ kvCall'.answer = "done") => kvStore[kvCall.key] = kvCall.began
=============================================================================
