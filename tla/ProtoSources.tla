---------------------------- MODULE ProtoSources ----------------------------
(***************************************************************************)
(* The settings pages of the proto sources: the form that validates, saves, *)
(* uploads and compiles (settings/page/ProtoSourceEditPage), and the cards  *)
(* of the list (proto/ProtoSourceCard) with their refs, uploads and watcher. *)
(* A module of the Buf Schema Registry is handled as a Git repository is.   *)
(***************************************************************************)
EXTENDS Naturals

CONSTANTS
    PsIds,       \* sources there can be
    PsTargets,   \* repositories and directories, "" for none typed
    PsMaxOthers, \* bound on the changes of other clients and of the watcher
    PsMaxPresses \* bound on the user's steps

ASSUME PsAssumption ==
    PsIds \subseteq Nat \ {0} /\ PsTargets # {} /\ "" \notin PsTargets /\ PsMaxOthers \in Nat /\ PsMaxPresses \in Nat

VARIABLES
    psSources, psOthers,  \* the server's sources, changes made elsewhere
    psList, psDetail,     \* the cached list and the cached single sources
    psPage, psId,         \* the page: the list, a new source, or the source edited
    psForm, psHydrated,   \* the fields; the source they were filled from
    psVerdict, psOutcome, \* the last validation shown, the last compilation shown
    psCreated,            \* createdIdRef: the source this form has made
    psTold,               \* history: the source this form was told it has made
    psJob, psCall,        \* the press under way on the form, the call under way of a card
    psCard,               \* each card: picker, confirmation, outcome
    psPresses

psServer == <<psSources, psOthers>>
psCaches == <<psList, psDetail>>
psFields == <<psForm, psHydrated, psCreated, psTold>>
psShown == <<psVerdict, psOutcome>>
psVars == <<psServer, psCaches, psPage, psId, psFields, psShown, psJob, psCall, psCard, psPresses>>

---------------------------------------------------------------------------
PsTypes == {"git", "local", "upload"}
PsNames == PsTargets \cup {""}
PsOutcomes == {"none", "valid", "invalid"}

PsSource == [there : BOOLEAN, type : PsTypes, repository : PsNames, localPath : PsNames,
             watcherEnabled : BOOLEAN, enabled : BOOLEAN, selectedRef : BOOLEAN,
             lastCompile : PsOutcomes, activeSchema : BOOLEAN]
PsNoSource == [there |-> FALSE, type |-> "git", repository |-> "", localPath |-> "",
               watcherEnabled |-> FALSE, enabled |-> FALSE, selectedRef |-> FALSE,
               lastCompile |-> "none", activeSchema |-> FALSE]
PsEmptyForm == [type |-> "git", repository |-> "", localPath |-> "", watcherEnabled |-> TRUE, pendingUpload |-> FALSE]
PsNoVerdict == [type |-> "none", target |-> "", valid |-> FALSE]
PsNoJob == [op |-> "none", stage |-> "none", form |-> PsEmptyForm, existing |-> PsNoSource,
            into |-> 0, checked |-> "", sent |-> "", here |-> FALSE]
PsNoCall == [kind |-> "none", id |-> 0, on |-> FALSE, here |-> FALSE]
PsFreshCard == [picker |-> FALSE, confirm |-> FALSE, outcome |-> "none"]

\* What a form or a source of a type reads from.
PsTarget(type, s) == CASE type = "git" -> s.repository [] type = "local" -> s.localPath [] OTHER -> ""

\* A schema that compiles becomes the active one, another leaves it.
PsCompiled(s, o) == [s EXCEPT !.lastCompile = o, !.activeSchema = @ \/ o = "valid"]

PsHydrate(s) == [type |-> s.type, repository |-> s.repository, localPath |-> s.localPath,
                 watcherEnabled |-> s.watcherEnabled, pendingUpload |-> FALSE]

PsInit ==
    /\ psSources \in {[i \in PsIds |-> IF i = 1 THEN s ELSE PsNoSource] :
                        s \in {[PsNoSource EXCEPT !.there = TRUE, !.enabled = TRUE, !.type = t,
                                    !.repository = IF t = "git" THEN CHOOSE x \in PsTargets : TRUE ELSE "",
                                    !.localPath = IF t = "local" THEN CHOOSE x \in PsTargets : TRUE ELSE "",
                                    !.watcherEnabled = (t = "local")] : t \in PsTypes}}
    /\ psOthers = 0
    /\ psList = [i \in PsIds |-> PsNoSource] /\ psDetail = psList
    /\ psPage \in {"list", "new"} /\ psId = 0
    /\ psForm = PsEmptyForm /\ psHydrated = 0 /\ psCreated = 0 /\ psTold = 0
    /\ psVerdict = PsNoVerdict /\ psOutcome = "none"
    /\ psJob = PsNoJob /\ psCall = PsNoCall /\ psCard = [i \in PsIds |-> PsFreshCard]
    /\ psPresses = 0

PsUse == psPresses < PsMaxPresses /\ psPresses' = psPresses + 1

---------------------------------------------------------------------------
\* Reads, other clients and the file watcher.

\* useProtoSources
PsReadList ==
    /\ psPage = "list" /\ psList # psSources /\ psList' = psSources
    /\ UNCHANGED <<psServer, psDetail, psPage, psId, psFields, psShown, psJob, psCall, psCard, psPresses>>

\* useProtoSource; the first answer, a cached one too, fills the form once.
PsReadSource ==
    LET existing == psDetail'[psId] IN
    /\ psPage = "edit" /\ psDetail' = [psDetail EXCEPT ![psId] = psSources[psId]]
    /\ IF psHydrated = psId \/ ~existing.there THEN UNCHANGED <<psForm, psHydrated>>
       ELSE psForm' = PsHydrate(existing) /\ psHydrated' = psId
    /\ <<psDetail', psForm'>> # <<psDetail, psForm>>
    /\ UNCHANGED <<psServer, psList, psPage, psId, psCreated, psTold, psShown, psJob, psCall, psCard, psPresses>>

PsOtherChanges(i) ==
    /\ psOthers < PsMaxOthers /\ psOthers' = psOthers + 1 /\ psSources[i].there
    /\ psSources' \in {[psSources EXCEPT ![i] = PsNoSource]}
          \cup {[psSources EXCEPT ![i].repository = x] : x \in IF psSources[i].type = "git" THEN PsTargets ELSE {}}
          \cup {[psSources EXCEPT ![i] = PsCompiled(@, o)] :
                  o \in IF psSources[i].watcherEnabled /\ psSources[i].enabled THEN {"valid", "invalid"} ELSE {}}
    /\ UNCHANGED <<psCaches, psPage, psId, psFields, psShown, psJob, psCall, psCard, psPresses>>

---------------------------------------------------------------------------
\* Moving about.  A page is mounted anew; what it had under way goes on.

PsMount(page, id) ==
    LET cached == page = "edit" /\ psDetail[id].there IN
    /\ psPage' = page /\ psId' = id
    /\ psForm' = IF cached THEN PsHydrate(psDetail[id]) ELSE PsEmptyForm
    /\ psHydrated' = IF cached THEN id ELSE 0
    /\ psCreated' = 0 /\ psTold' = 0
    /\ psVerdict' = PsNoVerdict /\ psOutcome' = "none"
    /\ psCard' = [i \in PsIds |-> PsFreshCard]

PsLeft(call, none) == IF call = none THEN none ELSE [call EXCEPT !.here = FALSE]

PsGo ==
    /\ PsUse
    /\ \/ psPage # "list" /\ PsMount("list", 0)
       \/ psPage = "list" /\ PsMount("new", 0)
       \/ psPage = "list" /\ \E i \in PsIds : psList[i].there /\ PsMount("edit", i)
    /\ psJob' = PsLeft(psJob, PsNoJob) /\ psCall' = PsLeft(psCall, PsNoCall)
    /\ UNCHANGED <<psServer, psCaches>>

---------------------------------------------------------------------------
\* The form.

PsOpen == psPage = "new" \/ (psPage = "edit" /\ psDetail[psId].there)

\* Fields can be changed unless a create or an update is under way, the type
\* of a new source and its watcher at any time.
PsLoading == psJob.here /\ psJob.stage = "sending"

\* A change of the target clears the verdict shown beside it.
PsType ==
    /\ PsUse /\ PsOpen /\ ~PsLoading
    /\ psForm' \in {[psForm EXCEPT !.repository = x] : x \in IF psForm.type = "git" THEN PsNames ELSE {}}
          \cup {[psForm EXCEPT !.localPath = x] : x \in IF psForm.type = "local" THEN PsNames ELSE {}}
    /\ psForm' # psForm
    /\ psVerdict' = IF psVerdict.type = psForm.type THEN PsNoVerdict ELSE psVerdict
    /\ UNCHANGED <<psServer, psCaches, psPage, psId, psHydrated, psCreated, psTold, psOutcome, psJob, psCall, psCard>>

PsChoose ==
    /\ PsUse /\ psPage = "new"
    /\ psForm' \in {[psForm EXCEPT !.type = t] : t \in PsTypes}
          \cup (IF psForm.type = "local" THEN {[psForm EXCEPT !.watcherEnabled = ~@]} ELSE {})
          \cup (IF psForm.type = "upload" /\ ~PsLoading THEN {[psForm EXCEPT !.pendingUpload = TRUE]} ELSE {})
    /\ psForm' # psForm
    /\ UNCHANGED <<psServer, psCaches, psPage, psId, psHydrated, psCreated, psTold, psShown, psJob, psCall, psCard>>

\* pathOrRepoChanged, of a target that can be validated.
PsToValidate ==
    /\ psForm.type # "upload"
    /\ psPage = "edit" => PsTarget(psForm.type, psForm) # PsTarget(psForm.type, psDetail[psId])

\* Mutant: the fields are read when the validation has ended.
PsSentLatest(job) ==
    LET target == PsTarget(psForm.type, psForm)
        known == PsTarget(psForm.type, job.existing)
    IN  IF target = known THEN "" ELSE target

\* persist: what is sent of the target.  An update of a source that is edited
\* carries what differs from the source as it was known at the press, and
\* otherwise the target as it was at the press.
PsSent(job) ==
    LET target == PsTarget(job.form.type, job.form)
        known == PsTarget(job.form.type, job.existing)
    IN  IF target = known THEN "" ELSE target

\* The request is made from what the form held when the button was pressed.
PsPersist(job) == [job EXCEPT !.stage = "sending", !.sent = PsSent(job)]

PsPress(op, validate) ==
    LET job == [PsNoJob EXCEPT !.op = op, !.stage = "checking", !.form = psForm, !.here = TRUE,
                    !.existing = IF psPage = "edit" THEN psDetail[psId] ELSE PsNoSource,
                    !.into = IF psPage = "edit" THEN psId ELSE psCreated]
    IN  /\ psJob = PsNoJob /\ psJob' = IF validate THEN job ELSE PsPersist(job)
        /\ psVerdict' = IF validate /\ psVerdict.type = psForm.type THEN PsNoVerdict ELSE psVerdict

\* The three buttons of the form; one press at a time here.
PsSubmit ==
    /\ PsUse /\ PsOpen /\ (psForm.type = "upload" \/ PsTarget(psForm.type, psForm) # "")
    /\ \/ psForm.type # "upload" /\ PsPress("validate", TRUE) /\ UNCHANGED psOutcome
       \/ PsPress("save", PsToValidate) /\ UNCHANGED psOutcome
       \/ /\ psForm.type = "local" \/ (psForm.type = "upload" /\ psPage = "edit")
          /\ PsPress("compile", PsToValidate) /\ psOutcome' = "none"
    /\ UNCHANGED <<psServer, psCaches, psPage, psId, psFields, psCall, psCard>>

\* The verdict is shown beside whatever the field holds by then; a save goes
\* on with what it was pressed for.
PsValidated ==
    LET target == PsTarget(psJob.form.type, psJob.form) IN
    /\ psJob.stage = "checking"
    /\ \E valid \in BOOLEAN :
          /\ psVerdict' = IF psJob.here THEN [type |-> psJob.form.type, target |-> target, valid |-> valid] ELSE psVerdict
          /\ psJob' = IF valid /\ psJob.op # "validate" THEN PsPersist([psJob EXCEPT !.checked = target]) ELSE PsNoJob
    /\ UNCHANGED <<psServer, psCaches, psPage, psId, psFields, psOutcome, psCall, psCard, psPresses>>

\* createSource makes a source of the type, updateSource keeps what is not sent.
PsStored(s, job) ==
    LET new == IF s.there THEN s
               ELSE [PsNoSource EXCEPT !.there = TRUE, !.enabled = TRUE, !.type = job.form.type,
                        !.watcherEnabled = (job.form.type = "local" /\ job.form.watcherEnabled)]
    IN  CASE job.sent = "" -> new
          [] job.form.type = "git" -> [new EXCEPT !.repository = job.sent]
          [] OTHER -> [new EXCEPT !.localPath = job.sent]

\* The page leaves for the list, from wherever the user is by then.
PsLeave ==
    /\ PsMount("list", 0)
    /\ psJob' = PsNoJob /\ psCall' = PsLeft(psCall, PsNoCall)

\* Mutant: a source is remembered only once the press has succeeded as a whole.
PsRememberedLate(id) == IF psJob.form.pendingUpload THEN psCreated ELSE id

\* The source a later press of the form updates.
PsRemembered(id) == id

\* The call has answered: an upload or a compilation follows, or the page is left.
PsGoesOn(id) ==
    IF psJob.op = "save" /\ ~(psJob.form.type = "upload" /\ psJob.form.pendingUpload) THEN PsLeave
    ELSE /\ psJob' = [psJob EXCEPT !.stage = (IF psJob.op = "save" THEN "uploading" ELSE "compiling"), !.into = id]
         /\ psCreated' = IF psJob.here /\ psPage = "new" THEN PsRemembered(id) ELSE psCreated
         /\ psTold' = IF psJob.here /\ psPage = "new" THEN id ELSE psTold
         /\ UNCHANGED <<psPage, psId, psForm, psHydrated, psShown, psCall, psCard>>

PsFails ==
    /\ psJob' = PsNoJob
    /\ UNCHANGED <<psPage, psId, psFields, psShown, psCall, psCard>>

\* A create that reaches the server may still be answered with a failure.
PsCreates ==
    /\ psJob.stage = "sending" /\ psJob.into = 0
    /\ \/ \E i \in {j \in PsIds : ~psSources[j].there} :
             psSources' = [psSources EXCEPT ![i] = PsStored(PsNoSource, psJob)] /\ (PsGoesOn(i) \/ PsFails)
       \/ UNCHANGED psSources /\ PsFails
    /\ UNCHANGED <<psOthers, psCaches, psPresses>>

PsUpdates ==
    /\ psJob.stage = "sending" /\ psJob.into # 0
    /\ \/ /\ psSources[psJob.into].there /\ (PsGoesOn(psJob.into) \/ PsFails)
          /\ psSources' = [psSources EXCEPT ![psJob.into] = PsStored(@, psJob)]
       \/ UNCHANGED psSources /\ PsFails
    /\ UNCHANGED <<psOthers, psCaches, psPresses>>

\* The upload or the compilation.  An uploaded schema is refused by a source
\* that was created as one of another type.
PsBuilt ==
    /\ psJob.stage \in {"uploading", "compiling"}
    /\ \/ /\ psSources[psJob.into].there
          /\ psJob.stage = "uploading" => psSources[psJob.into].type = "upload"
          /\ \E o \in {"valid", "invalid"} :
                /\ psSources' = [psSources EXCEPT ![psJob.into] = PsCompiled(@, o)]
                /\ IF psJob.stage = "uploading" /\ o = "valid" THEN PsLeave
                   ELSE /\ psOutcome' = (IF psJob.here THEN o ELSE psOutcome) /\ psJob' = PsNoJob
                        /\ UNCHANGED <<psPage, psId, psFields, psVerdict, psCall, psCard>>
       \/ UNCHANGED psSources /\ PsFails
    /\ UNCHANGED <<psOthers, psCaches, psPresses>>

---------------------------------------------------------------------------
\* The cards of the list; one call at a time here.

PsCardIs(i, card) == psCard' = [psCard EXCEPT ![i] = card]

PsAsk(kind, i, on) == psCall = PsNoCall /\ psCall' = [kind |-> kind, id |-> i, on |-> on, here |-> TRUE]

\* Starting a compilation empties the outcome of the card, save for an upload's.
PsBuild(kind, i) == PsAsk(kind, i, FALSE) /\ PsCardIs(i, [psCard[i] EXCEPT !.outcome = "none"])

\* The picker of an upload card without a schema is open from the start.
PsPicker(i) == psCard[i].picker \/ (psList[i].type = "upload" /\ ~psList[i].activeSchema)

PsCardPress(i) ==
    /\ PsUse /\ psPage = "list" /\ psList[i].there
    /\ \/ PsAsk("enabled", i, ~psList[i].enabled) /\ UNCHANGED psCard
       \/ psList[i].type = "local" /\ PsAsk("watcher", i, ~psList[i].watcherEnabled) /\ UNCHANGED psCard
       \/ (psList[i].type = "local" \/ (psList[i].type = "git" /\ psList[i].selectedRef)) /\ PsBuild("refresh", i)
       \/ psList[i].type = "git" /\ PsPicker(i) /\ PsBuild("select", i)
       \/ psList[i].type = "upload" /\ PsPicker(i) /\ PsBuild("upload", i)
       \/ (psList[i].type = "git" \/ (psList[i].type = "upload" /\ psList[i].activeSchema)) /\ PsCardIs(i, [psCard[i] EXCEPT !.picker = ~@]) /\ UNCHANGED psCall
       \/ PsCardIs(i, [psCard[i] EXCEPT !.confirm = ~@]) /\ UNCHANGED psCall
       \/ psCard[i].confirm /\ PsAsk("delete", i, FALSE) /\ UNCHANGED psCard
    /\ UNCHANGED <<psServer, psCaches, psPage, psId, psFields, psShown, psJob>>

\* What the server makes of a card's call, and of the outcome o of a compilation.
PsCalled(s, call, o) ==
    CASE call.kind = "enabled" -> [s EXCEPT !.enabled = call.on]
      [] call.kind = "watcher" -> [s EXCEPT !.watcherEnabled = call.on]
      [] call.kind = "delete" -> PsNoSource
      [] call.kind = "select" -> [PsCompiled(s, o) EXCEPT !.selectedRef = @ \/ o = "valid"]
      [] OTHER -> PsCompiled(s, o)

\* What the answer does to the card: a deletion closes its question whatever
\* came of it, a valid ref or upload closes its picker.
PsCardAfter(card, kind, o) ==
    CASE kind = "delete" -> [card EXCEPT !.confirm = FALSE]
      [] kind \in {"select", "upload"} /\ o # "none" -> [card EXCEPT !.outcome = o, !.picker = @ /\ o = "invalid"]
      [] kind = "refresh" /\ o # "none" -> [card EXCEPT !.outcome = o]
      [] OTHER -> card

PsCardAnswered ==
    LET builds == psCall.kind \in {"refresh", "select", "upload"} IN
    /\ psCall # PsNoCall /\ psCall' = PsNoCall
    /\ \E o \in IF builds THEN PsOutcomes ELSE {"none"} :
          /\ psSources' \in {psSources} \cup
                (IF psSources[psCall.id].there /\ (builds => o # "none")
                 THEN {[psSources EXCEPT ![psCall.id] = PsCalled(@, psCall, o)]} ELSE {})
          /\ o # "none" => psSources[psCall.id].there /\ psSources'[psCall.id] = PsCalled(psSources[psCall.id], psCall, o)
          /\ psCard' = IF psCall.here THEN [psCard EXCEPT ![psCall.id] = PsCardAfter(@, psCall.kind, o)] ELSE psCard
    /\ UNCHANGED <<psOthers, psCaches, psPage, psId, psFields, psShown, psJob, psPresses>>

---------------------------------------------------------------------------
PsNext ==
    \/ PsReadList \/ PsReadSource \/ PsGo \/ PsType \/ PsChoose
    \/ PsSubmit \/ PsValidated \/ PsCreates \/ PsUpdates \/ PsBuilt \/ PsCardAnswered
    \/ \E i \in PsIds : PsOtherChanges(i) \/ PsCardPress(i)

PsSpec == PsInit /\ [][PsNext]_psVars

---------------------------------------------------------------------------
\* The state is of its type.
PsTypeOK ==
    /\ psSources \in [PsIds -> PsSource] /\ psList \in [PsIds -> PsSource] /\ psDetail \in [PsIds -> PsSource]
    /\ psPage \in {"list", "new", "edit"} /\ psId \in PsIds \cup {0} /\ (psPage = "edit") = (psId # 0)
    /\ psForm.type \in PsTypes /\ psForm.repository \in PsNames /\ psForm.localPath \in PsNames
    /\ psJob.stage \in {"none", "checking", "sending", "uploading", "compiling"} /\ psJob.sent \in PsNames
    /\ psCreated # 0 => psPage = "new"

\* A save sends no target but the one that its own validation accepted,
\* whatever was typed while the validation ran (validateBeforeSave, persist).
PsSendsChecked == (psJob.stage = "sending" /\ psJob.sent # "") => psJob.sent = psJob.checked

\* A form that was told of a source it made makes no second one: a press after
\* a failed upload or compilation goes on with the first (createdIdRef).
PsCreatesOnce == (psJob.stage = "sending" /\ psJob.into = 0 /\ psJob.here) => psTold = 0
=============================================================================
