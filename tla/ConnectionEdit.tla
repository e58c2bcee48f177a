---------------------------- MODULE ConnectionEdit ----------------------------
(***************************************************************************)
(* The editor of a saved connection (settings/page/ConnectionEditPage with   *)
(* connections/manager/ConnectionForm): the form filled once from the cached *)
(* list, the probe of what is typed, the discard guard and the save.         *)
(* Secrets are write-only: a stored one is a blank field, and a blank field  *)
(* is sent as a method without its secret.  What the server's merge does to  *)
(* a stored secret then is left open, as the merge is a library's.           *)
(***************************************************************************)
EXTENDS Naturals

CONSTANTS
    CeMaxOthers,  \* bound on the other clients' changes
    CeMaxPresses  \* bound on what the user types, tests and saves

ASSUME CeAssumption == CeMaxOthers \in Nat /\ CeMaxPresses \in Nat

VARIABLES
    ceSaved,     \* the connection at the server
    ceList,      \* what the cached list has of it
    cePage,      \* the page on screen
    ceMode,      \* creating or editing
    ceForm, ceSnapshot, ceHydrated,
    ceTlsOpen,
    ceErrors,    \* the fields marked wrong
    ceTest,      \* the probe under way
    ceResult,    \* the probe shown
    ceSave,      \* the create or update under way
    ceUpload,    \* the form a file chosen is read into
    ceDiscard,   \* the question about unsaved edits
    ceOthers, cePresses

ceServer == <<ceSaved, ceOthers>>
ceEdited == <<ceForm, ceTlsOpen>>
ceBase == <<ceMode, ceSnapshot, ceHydrated>>
ceVars == <<ceServer, ceList, cePage, ceBase, ceEdited, ceErrors, ceTest, ceResult, ceSave, ceUpload, ceDiscard, cePresses>>

---------------------------------------------------------------------------
(* urls: servers u and v, none, or an address that does not parse.            *)
(* auth: in the form none, a method whose secret is left blank, or a secret    *)
(* typed; at the server none, a method with its secret or without it.          *)
(* settings: the inbox prefix and the JetStream domain or API prefix.          *)

CeForms == [name : {"", "n"}, urls : {"none", "u", "v", "bad"}, auth : {"none", "blank", "typed"},
            tls : {"none", "cert"}, settings : {"", "p", "bad"}, readOnly : BOOLEAN]

CeConnections == [name : {"n"}, urls : {"u", "v"}, auth : {"none", "secret", "bare"},
                  tls : {"none", "cert"}, settings : {"", "p"}, readOnly : BOOLEAN]

CeBlank == [name |-> "", urls |-> "none", auth |-> "none", tls |-> "none", settings |-> "", readOnly |-> FALSE]

\* A new connection of which as much was typed as a save needs.
CeTypedIn == [CeBlank EXCEPT !.name = "n", !.urls = "u"]

CeGone == [gone |-> TRUE]
CeNotRead == [gone |-> FALSE]

\* formFromConnection: the secrets themselves are never returned.
CeToForm(c) == [c EXCEPT !.auth = IF c.auth = "none" THEN "none" ELSE "blank"]

\* savedPartsOf.
CeSavedParts(form) == <<form.urls, form.auth, form.tls>>

\* Mutant: the servers are compared, the credentials and TLS are not.
CeUsedSavedUrls(form, snapshot) == form.urls # snapshot.urls

\* testUsedSaved.
CeUsedSaved(form, snapshot) == CeSavedParts(form) # CeSavedParts(snapshot)

\* Mutant: the settings go with every update.
CeSettingsAlways(form, snapshot) == TRUE

\* connectionConfigChanged.
CeSettingsChanged(form, snapshot) == form.settings # snapshot.settings

\* toApiConnectionConfig: nothing, when neither the saved nor the typed settings say anything.
CeSettingsSent(known, form) == (known \in CeConnections /\ known.settings # "") \/ form.settings # ""

CeNoCall == [state |-> "none"]
CeNoResult == [shown |-> FALSE]
CeNoUpload == [pending |-> FALSE]

CeInit ==
    /\ ceMode \in {"create", "edit"}
    /\ \E auth \in {"none", "secret"} : \E settings \in {"", "p"} :
          /\ ceMode = "create" => auth = "none" /\ settings = ""
          /\ ceSaved = [name |-> "n", urls |-> "u", auth |-> auth, tls |-> "none", settings |-> settings, readOnly |-> FALSE]
    /\ ceList = CeNotRead /\ cePage = "editor"
    /\ ceForm = CeBlank \/ (ceMode = "create" /\ ceForm = CeTypedIn)
    /\ ceSnapshot = CeBlank /\ ceHydrated = FALSE
    /\ ceTlsOpen = FALSE /\ ceErrors = {}
    /\ ceTest = CeNoCall /\ ceResult = CeNoResult /\ ceSave = CeNoCall
    /\ ceUpload = CeNoUpload /\ ceDiscard = FALSE /\ ceOthers = 0 /\ cePresses = 0

CeUse == cePresses < CeMaxPresses /\ cePresses' = cePresses + 1

\* Spinner, "Connection not found", or the form.
CeHydrating == ceMode = "edit" /\ ceList = CeNotRead
CeNotFound == ceMode = "edit" /\ ceList = CeGone
CeOnScreen == cePage = "editor" /\ ~CeHydrating /\ ~CeNotFound
CeFront == CeOnScreen /\ ~ceDiscard

CeDirty == ceForm # ceSnapshot
CeStale == ceResult # CeNoResult /\ ceResult.snap # ceForm

---------------------------------------------------------------------------
\* The list, and the effect that fills the form once.

CeFetch ==
    /\ cePage # "elsewhere" /\ ceList # ceSaved /\ ceList' = ceSaved
    /\ IF cePage = "editor" /\ ceMode = "edit" /\ ceSaved # CeGone /\ ~ceHydrated
       THEN /\ ceForm' = CeToForm(ceSaved) /\ ceSnapshot' = CeToForm(ceSaved) /\ ceHydrated' = TRUE
            /\ ceTlsOpen' = (ceTlsOpen \/ ceSaved.tls # "none")
       ELSE UNCHANGED <<ceForm, ceSnapshot, ceHydrated, ceTlsOpen>>
    /\ UNCHANGED <<ceServer, cePage, ceMode, ceErrors, ceTest, ceResult, ceSave, ceUpload, ceDiscard, cePresses>>

CeOtherChanges ==
    /\ ceOthers < CeMaxOthers /\ ceOthers' = ceOthers + 1 /\ ceSaved # CeGone
    /\ ceSaved' \in {CeGone, [ceSaved EXCEPT !.urls = "v"], [ceSaved EXCEPT !.settings = IF @ = "" THEN "p" ELSE ""],
                     [ceSaved EXCEPT !.readOnly = TRUE]}
    /\ ceSaved' # ceSaved
    /\ UNCHANGED <<ceList, cePage, ceBase, ceEdited, ceErrors, ceTest, ceResult, ceSave, ceUpload, ceDiscard, cePresses>>

---------------------------------------------------------------------------
\* The form.

\* update, updateTls: the whole form, with one field changed.
CeSetField(f, v) ==
    /\ ceForm[f] # v /\ ceForm' = [ceForm EXCEPT ![f] = v]
    /\ ceTlsOpen' = (ceTlsOpen \/ (f = "tls" /\ v # "none"))

CeTyped(f, v) ==
    /\ CeUse /\ CeFront /\ CeSetField(f, v)
    /\ UNCHANGED <<ceServer, ceList, cePage, ceBase, ceErrors, ceTest, ceResult, ceSave, ceUpload, ceDiscard>>

CeTypeName(v) == CeTyped("name", v)
CeTypeReadOnly(v) == CeTyped("readOnly", v)
CeTypeUrls(v) == CeTyped("urls", v)
CeTypeAuth(v) == CeTyped("auth", v)
CeTypeTls == ceTlsOpen /\ CeTyped("tls", "cert")
CeTypeSettings(v) == CeTyped("settings", v)

CeOpenTls ==
    /\ CeUse /\ CeFront /\ ~ceTlsOpen /\ ceTlsOpen' = TRUE
    /\ UNCHANGED <<ceServer, ceList, cePage, ceBase, ceForm, ceErrors, ceTest, ceResult, ceSave, ceUpload, ceDiscard>>

CeRemoveTls ==
    /\ CeUse /\ CeFront /\ ceTlsOpen /\ ceTlsOpen' = FALSE
    /\ ceForm' = [ceForm EXCEPT !.tls = "none"]
    /\ UNCHANGED <<ceServer, ceList, cePage, ceBase, ceErrors, ceTest, ceResult, ceSave, ceUpload, ceDiscard>>

\* uploadFile: the form of the render that offered the button is kept.
CeUploadChosen ==
    /\ CeUse /\ CeFront /\ ceForm.auth # "none" /\ ceUpload = CeNoUpload
    /\ ceUpload' = [pending |-> TRUE, form |-> ceForm]
    /\ UNCHANGED <<ceServer, ceList, cePage, ceBase, ceEdited, ceErrors, ceTest, ceResult, ceSave, ceDiscard>>

\* The file read goes into that form, and replaces what was typed meanwhile.
CeUploadRead ==
    /\ ceUpload # CeNoUpload /\ ceUpload' = CeNoUpload
    /\ ceForm' = [ceUpload.form EXCEPT !.auth = "typed"]
    /\ UNCHANGED <<ceServer, ceList, cePage, ceBase, ceTlsOpen, ceErrors, ceTest, ceResult, ceSave, ceDiscard, cePresses>>

---------------------------------------------------------------------------
\* The probe.

CeUrlsWrong == IF ceForm.urls \in {"none", "bad"} THEN {"urls"} ELSE {}
CeSettingsWrong == IF ceForm.settings = "bad" THEN {"settings"} ELSE {}
CeNameWrong == IF ceForm.name = "" THEN {"name"} ELSE {}

\* The Test button.
CeOffersTest == CeFront /\ ceForm.urls # "none" /\ ceTest = CeNoCall

\* handleTest: a saved connection is named, so that its stored parts are used.
CeTestStart ==
    /\ CeUse /\ CeOffersTest
    /\ ceErrors' = (ceErrors \cap {"name"}) \cup CeUrlsWrong \cup CeSettingsWrong
    /\ ceTest' = IF ceErrors' \subseteq {"name"}
                 THEN [state |-> "sent", form |-> ceForm, edit |-> ceMode = "edit",
                       usedSaved |-> ceMode = "edit" /\ CeUsedSaved(ceForm, ceSnapshot),
                       known |-> ceList]
                 ELSE CeNoCall
    /\ UNCHANGED <<ceServer, ceList, cePage, ceBase, ceEdited, ceResult, ceSave, ceUpload, ceDiscard>>

\* TestConnection: the saved servers, credentials and TLS replace those of the request.
CeProbed ==
    IF ceTest.edit
    THEN [CeToForm(ceSaved) EXCEPT !.settings = IF CeSettingsSent(ceTest.known, ceTest.form) THEN ceTest.form.settings ELSE @]
    ELSE ceTest.form

CeTestReaches ==
    /\ ceTest.state = "sent"
    /\ \/ /\ ~ceTest.edit \/ ceSaved # CeGone
          /\ \E ok \in BOOLEAN :
                ceTest' = [state |-> "done", form |-> ceTest.form, usedSaved |-> ceTest.usedSaved, ok |-> ok,
                           probed |-> CeProbed, saved |-> ceSaved, known |-> ceTest.known, edit |-> ceTest.edit]
       \/ ceTest' = [state |-> "failed"]
    /\ UNCHANGED <<ceServer, ceList, cePage, ceBase, ceEdited, ceErrors, ceResult, ceSave, ceUpload, ceDiscard, cePresses>>

CeTestAnswered ==
    /\ ceTest.state \in {"done", "failed"} /\ ceTest' = CeNoCall
    /\ ceResult' =
          IF ceTest.state = "failed" THEN CeNoResult
          ELSE [shown |-> TRUE, ok |-> ceTest.ok, snap |-> ceTest.form, usedSaved |-> ceTest.usedSaved,
                probed |-> ceTest.probed, saved |-> ceTest.saved, known |-> ceTest.known, edit |-> ceTest.edit]
    /\ UNCHANGED <<ceServer, ceList, cePage, ceBase, ceEdited, ceErrors, ceSave, ceUpload, ceDiscard, cePresses>>

---------------------------------------------------------------------------
\* Saving and leaving.

\* The footer: an edit without changes cannot be saved.
CeOffersSave == CeFront /\ ceSave = CeNoCall /\ (ceMode = "edit" => CeDirty)

CeSaveStart ==
    /\ CeUse /\ CeOffersSave
    /\ ceErrors' = CeNameWrong \cup CeUrlsWrong \cup CeSettingsWrong
    /\ ceSave' = IF ceErrors' = {}
                 THEN [state |-> "sent", type |-> ceMode, form |-> ceForm, snapshot |-> ceSnapshot,
                       settings |-> CeSettingsChanged(ceForm, ceSnapshot)]
                 ELSE CeNoCall
    /\ UNCHANGED <<ceServer, ceList, cePage, ceBase, ceEdited, ceTest, ceResult, ceUpload, ceDiscard>>

\* What the merge leaves of the stored secret when the method comes without one.
CeMergedAuth(saved, sent) ==
    CASE sent = "none" -> {"none"}
      [] sent = "typed" -> {"secret"}
      [] sent = "blank" -> IF saved = "secret" THEN {"secret", "bare"} ELSE {"bare"}

\* Update: auth and TLS come with every update, the settings when they were edited.
CeUpdated(auth) ==
    [ceSave.form EXCEPT !.auth = auth, !.settings = IF ceSave.settings THEN @ ELSE ceSaved.settings]

\* A created connection is another one and touches nothing here.
CeSaveReaches ==
    /\ ceSave.state = "sent"
    /\ \/ /\ ceSave.type = "edit" /\ ceSaved # CeGone
          /\ \E auth \in CeMergedAuth(ceSaved.auth, ceSave.form.auth) : ceSaved' = CeUpdated(auth)
          /\ ceSave' = [ceSave EXCEPT !.state = "done"]
       \/ ceSave.type = "create" /\ ceSave' = [ceSave EXCEPT !.state = "done"] /\ UNCHANGED ceSaved
       \/ ceSave' = [ceSave EXCEPT !.state = "failed"] /\ UNCHANGED ceSaved
    /\ UNCHANGED <<ceOthers, ceList, cePage, ceBase, ceEdited, ceErrors, ceTest, ceResult, ceUpload, ceDiscard, cePresses>>

\* A success leads to the list from wherever the user is by then.
CeSaveAnswered ==
    /\ ceSave.state \in {"done", "failed"} /\ ceSave' = CeNoCall
    /\ cePage' = IF ceSave.state = "done" THEN "list" ELSE cePage
    /\ ceTest' = IF cePage' = cePage THEN ceTest ELSE CeNoCall
    /\ ceUpload' = IF cePage' = cePage THEN ceUpload ELSE CeNoUpload
    /\ ceDiscard' = (ceDiscard /\ cePage' = cePage)
    /\ UNCHANGED <<ceServer, ceList, ceBase, ceEdited, ceErrors, ceResult, cePresses>>

\* The component is gone: its probe and its file are answered to nobody.  The
\* save goes on; the model has one save at a time.
CeLeaves(page) ==
    /\ cePage' = page /\ ceDiscard' = FALSE
    /\ ceTest' = CeNoCall /\ ceUpload' = CeNoUpload
    /\ UNCHANGED <<ceServer, ceList, ceBase, ceEdited, ceErrors, ceResult, ceSave>>

\* handleCancel, of Back, Cancel and the form's close button.
CeCancel ==
    /\ CeFront /\ UNCHANGED cePresses
    /\ IF CeDirty
       THEN ceDiscard' = TRUE
            /\ UNCHANGED <<ceServer, ceList, cePage, ceBase, ceEdited, ceErrors, ceTest, ceResult, ceSave, ceUpload>>
       ELSE CeLeaves("list")

CeDiscardAnswered ==
    /\ CeOnScreen /\ ceDiscard /\ UNCHANGED cePresses
    /\ \/ CeLeaves("list")
       \/ ceDiscard' = FALSE
          /\ UNCHANGED <<ceServer, ceList, cePage, ceBase, ceEdited, ceErrors, ceTest, ceResult, ceSave, ceUpload>>

\* "Back to connections", or another page of the menu.
CeGoes(page) ==
    /\ UNCHANGED cePresses /\ cePage # page /\ (page = "list" => cePage = "editor" /\ CeNotFound)
    /\ CeLeaves(page)

\* The editor opened again is a new one.
CeReopen(mode) ==
    /\ UNCHANGED cePresses /\ cePage = "list" /\ cePage' = "editor" /\ ceMode' = mode
    /\ LET known == mode = "edit" /\ ceList \in CeConnections IN
          /\ ceForm' = IF known THEN CeToForm(ceList) ELSE CeBlank
          /\ ceSnapshot' = ceForm' /\ ceHydrated' = known
          /\ ceTlsOpen' = (known /\ ceList.tls # "none")
    /\ ceErrors' = {} /\ ceResult' = CeNoResult
    /\ UNCHANGED <<ceServer, ceList, ceTest, ceSave, ceUpload, ceDiscard>>

CeNext ==
    \/ CeFetch \/ CeOtherChanges
    \/ CeTypeName("") \/ CeTypeName("n") \/ (\E v \in BOOLEAN : CeTypeReadOnly(v))
    \/ (\E v \in {"u", "v", "bad"} : CeTypeUrls(v)) \/ (\E v \in {"none", "blank", "typed"} : CeTypeAuth(v))
    \/ CeTypeTls \/ CeOpenTls \/ CeRemoveTls \/ (\E v \in {"", "p", "bad"} : CeTypeSettings(v))
    \/ CeUploadChosen \/ CeUploadRead
    \/ CeTestStart \/ CeTestReaches \/ CeTestAnswered
    \/ CeSaveStart \/ CeSaveReaches \/ CeSaveAnswered
    \/ CeCancel \/ CeDiscardAnswered \/ CeGoes("list") \/ CeGoes("elsewhere")
    \/ CeReopen("edit") \/ CeReopen("create")

CeSpec == CeInit /\ [][CeNext]_ceVars

---------------------------------------------------------------------------
CeTypeOK ==
    /\ ceSaved \in CeConnections \cup {CeGone} /\ ceList \in CeConnections \cup {CeGone, CeNotRead}
    /\ cePage \in {"editor", "list", "elsewhere"} /\ ceMode \in {"create", "edit"}
    /\ ceForm \in CeForms /\ ceSnapshot \in CeForms
    /\ {ceHydrated, ceTlsOpen, ceDiscard} \subseteq BOOLEAN /\ ceErrors \subseteq {"name", "urls", "settings"}
    /\ ceTest.state \in {"none", "sent", "done", "failed"} /\ ceSave.state \in {"none", "sent", "done", "failed"}
    /\ ceOthers \in 0 .. CeMaxOthers /\ cePresses \in 0 .. CeMaxPresses

\* A probe shown without a warning tried what the form says: when neither "Form
\* changed" nor "used the saved" is shown, each part probed is the form's, or the
\* saved connection had been changed since it was read.
CeProbeHonest ==
    ceResult # CeNoResult /\ cePage = "editor" /\ ~CeStale /\ ~ceResult.usedSaved =>
        \A f \in {"urls", "auth", "tls", "settings"} :
            \/ ceResult.probed[f] = ceForm[f]
            \/ ceResult.edit /\ CeToForm(ceResult.saved)[f] # ceSnapshot[f]
            \/ ceResult.edit /\ ceResult.saved[f] # ceResult.known[f]

\* A save sets the connection settings only when the user edited them, so it
\* never takes back what another client set of them.
CeSettingsStep ==
    ceSave.state = "sent" /\ ceSave'.state = "done" /\ ceSaved # ceSaved' =>
        (ceSaved'.settings # ceSaved.settings => ceSave.form.settings # ceSave.snapshot.settings)
=============================================================================
