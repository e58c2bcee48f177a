-------------------------- MODULE ConnectionSession --------------------------
(***************************************************************************)
(* The connection the client works with: picked on the start page            *)
(* (ConnectionSelector), kept in local storage, shown by the layout and its   *)
(* header (ConnectedLayout, CompactHeader), left on purpose or because the    *)
(* health poll gives it up (useConnectionValidation); and the list of saved    *)
(* connections (ConnectionsPage), which deletes, copies, imports and pings     *)
(* them.  One browser tab.                                                    *)
(***************************************************************************)
EXTENDS Naturals

CONSTANTS
    CsIds,        \* ids of connections
    CsMaxPresses  \* bound on the user's steps

ASSUME CsAssumption == "" \notin CsIds /\ CsMaxPresses \in Nat

VARIABLES
    csSaved,    \* the saved connections, each read-only or not
    csList,     \* the cached list of them
    csActive,   \* the id in local storage
    csInfo,     \* what local storage keeps beside it
    csLayout,   \* the layout's id and connection, when it is mounted
    csPage,
    csChecked,  \* the start page looked for an active connection
    csForm,     \* the start page's form: closed, open, or open with an error
    csConnect,  \* the probe or creation of the start page
    csSwitch,   \* the connection a switch under way leads to
    csDropping, \* a lost connection is being left
    csReason,   \* why the start page is shown
    csSince,    \* since when the health poll fails
    csMenu, csDelete,
    csCall,     \* the delete, copy or import under way
    csPings,    \* connections being pinged
    csAll,      \* those "Ping all" has left, and those it began with
    csPresses

csStored == <<csActive, csInfo>>
csStart == <<csChecked, csForm, csConnect, csReason>>
csMoves == <<csSwitch, csDropping>>
csCards == <<csDelete, csCall, csPings, csAll>>
csVars == <<csSaved, csList, csStored, csLayout, csPage, csStart, csMoves, csSince, csMenu, csCards, csPresses>>

---------------------------------------------------------------------------
CsNotRead == [i \in {"unread"} |-> FALSE]
CsNoInfo == [id |-> "", readOnly |-> TRUE]
CsUnmounted == [mounted |-> FALSE, id |-> "", current |-> ""]
CsMounted(id, current) == [mounted |-> TRUE, id |-> id, current |-> current]
CsNoCall == [state |-> "none", type |-> "", id |-> ""]
CsNoConnect == [state |-> "none", type |-> "", id |-> "", readOnly |-> FALSE]
CsNoAll == [left |-> {}, total |-> {}]

CsListed == IF csList = CsNotRead THEN {} ELSE DOMAIN csList

CsInit ==
    /\ \E s \in SUBSET CsIds : \E f \in [s -> BOOLEAN] : csSaved = f
    /\ csList = CsNotRead /\ csActive \in CsIds \cup {""}
    /\ csInfo = IF csActive = "" THEN CsNoInfo ELSE [id |-> csActive, readOnly |-> TRUE]
    /\ csLayout = CsUnmounted /\ csPage = "start"
    /\ csChecked = FALSE /\ csForm = "closed" /\ csConnect = CsNoConnect /\ csReason = FALSE
    /\ csSwitch = CsNoInfo /\ csDropping = FALSE /\ csSince = "well"
    /\ csMenu = FALSE /\ csDelete = "" /\ csCall = CsNoCall /\ csPings = {} /\ csAll = CsNoAll
    /\ csPresses = 0

CsUse == csPresses < CsMaxPresses /\ csPresses' = csPresses + 1

---------------------------------------------------------------------------
\* Local storage.

CsSetActive(id) == csActive' = id
CsClearActive == csActive' = "" /\ csInfo' = CsNoInfo
CsStoreInfo(id, readOnly) == csInfo' = [id |-> id, readOnly |-> readOnly]

\* What a mounting layout reads.
CsMountFromStorage == csLayout' = CsMounted(csActive', csInfo'.id)

\* useConnectionPolicy: the listed connection, else the stored one of the same
\* id, else read-only until something is known.
CsPolicyOf ==
    IF csActive \in CsListed THEN [known |-> TRUE, readOnly |-> csList[csActive]]
    ELSE IF csInfo.id = csActive /\ csActive # "" THEN [known |-> TRUE, readOnly |-> csInfo.readOnly]
    ELSE [known |-> FALSE, readOnly |-> TRUE]

---------------------------------------------------------------------------
\* The list of connections, and what follows from an answer.

\* The start page resumes the stored connection, or forgets one that is gone.
CsResume(list) ==
    IF csPage # "start" \/ csChecked THEN UNCHANGED <<csStored, csLayout, csPage, csChecked>>
    ELSE /\ csChecked' = TRUE
         /\ IF csActive = "" \/ csActive \in DOMAIN list
            THEN UNCHANGED csStored ELSE CsClearActive
         /\ IF csActive' = "" THEN UNCHANGED <<csLayout, csPage>>
            ELSE csPage' = "work" /\ CsMountFromStorage

\* handleConnectionResolved: the header names the connection from the list.
CsResolved(list) ==
    IF csLayout.mounted /\ csLayout.id \in DOMAIN list
    THEN /\ csLayout' = CsMounted(csLayout.id, csLayout.id)
         /\ CsStoreInfo(csLayout.id, list[csLayout.id])
         /\ UNCHANGED <<csActive, csPage, csChecked>>
    ELSE CsResume(list)

CsAnswered == csList' = csSaved /\ CsResolved(csSaved)

CsFetch ==
    /\ csList # csSaved \/ ~csChecked
    /\ CsAnswered
    /\ UNCHANGED <<csSaved, csForm, csConnect, csReason, csMoves, csSince, csMenu, csCards, csPresses>>

\* Another client changes whether writes are let through, or deletes.
CsOtherChanges ==
    /\ CsUse
    /\ \E i \in DOMAIN csSaved :
          \/ csSaved' = [csSaved EXCEPT ![i] = ~@]
          \/ csSaved' = [j \in DOMAIN csSaved \ {i} |-> csSaved[j]]
    /\ UNCHANGED <<csList, csStored, csLayout, csPage, csStart, csMoves, csSince, csMenu, csCards>>

---------------------------------------------------------------------------
\* The start page.

\* Nothing is rendered while the stored connection is resumed.
CsResuming == csActive # "" /\ (csList = CsNotRead \/ csActive \in CsListed)
CsStartShown == csPage = "start" /\ ~CsResuming

CsConnectSaved(id) ==
    /\ CsUse /\ CsStartShown /\ csForm = "closed" /\ csConnect = CsNoConnect /\ id \in CsListed
    /\ csConnect' = [state |-> "sent", type |-> "saved", id |-> id, readOnly |-> csList[id]]
    /\ UNCHANGED <<csSaved, csList, csStored, csLayout, csPage, csChecked, csForm, csReason, csMoves, csSince, csMenu, csCards>>

\* validateUrls: an entry that is refused marks the form.
CsConnectNew(id) ==
    /\ CsUse /\ CsStartShown /\ csForm # "closed" /\ csConnect = CsNoConnect
    /\ \/ csForm' = "wrong" /\ UNCHANGED csConnect
       \/ csForm' = "open" /\ csConnect' = [CsNoConnect EXCEPT !.state = "sent", !.type = "new", !.id = id]
    /\ UNCHANGED <<csSaved, csList, csStored, csLayout, csPage, csChecked, csReason, csMoves, csSince, csMenu, csCards>>

\* A probe of the form's addresses connects to nothing.
CsTestNew ==
    /\ CsUse /\ CsStartShown /\ csForm = "open" /\ csForm' = "wrong"
    /\ UNCHANGED <<csSaved, csList, csStored, csLayout, csPage, csChecked, csConnect, csReason, csMoves, csSince, csMenu, csCards>>

CsShowForm ==
    /\ CsUse /\ CsStartShown
    /\ csForm' = IF csForm = "closed" THEN "open" ELSE "closed"
    /\ UNCHANGED <<csSaved, csList, csStored, csLayout, csPage, csChecked, csConnect, csReason, csMoves, csSince, csMenu, csCards>>

CsConnectReaches ==
    /\ csConnect.state = "sent"
    /\ \/ /\ csConnect.type = "saved" /\ csConnect.id \in DOMAIN csSaved
          /\ csConnect' = [csConnect EXCEPT !.state = "done"] /\ UNCHANGED csSaved
       \/ /\ csConnect.type = "new" /\ csConnect.id \notin DOMAIN csSaved
          /\ csSaved' = [i \in DOMAIN csSaved \cup {csConnect.id} |-> i \in DOMAIN csSaved /\ csSaved[i]]
          /\ csConnect' = [csConnect EXCEPT !.state = "done"]
       \/ csConnect' = [csConnect EXCEPT !.state = "failed"] /\ UNCHANGED csSaved
    /\ UNCHANGED <<csList, csStored, csLayout, csPage, csChecked, csForm, csReason, csMoves, csSince, csMenu, csCards, csPresses>>

\* The connection that was probed or created is the active one from here on.
CsConnectAnswered ==
    /\ csConnect.state \in {"done", "failed"} /\ csConnect' = CsNoConnect
    /\ IF csConnect.state = "failed"
       THEN /\ csForm' = (IF csConnect.type = "new" /\ csForm # "closed" THEN "wrong" ELSE csForm)
            /\ UNCHANGED <<csStored, csLayout, csPage, csSince, csReason>>
       ELSE /\ CsSetActive(csConnect.id)
            /\ CsStoreInfo(csConnect.id, csConnect.readOnly)
            /\ csPage' = "work" /\ CsMountFromStorage
            /\ csSince' = "well" /\ csReason' = FALSE /\ csForm' = "closed"
    /\ UNCHANGED <<csSaved, csList, csChecked, csMoves, csMenu, csCards, csPresses>>

CsDismiss ==
    /\ CsUse /\ CsStartShown /\ csReason /\ csReason' = FALSE
    /\ UNCHANGED <<csSaved, csList, csStored, csLayout, csPage, csChecked, csForm, csConnect, csMoves, csSince, csMenu, csCards>>

---------------------------------------------------------------------------
\* The layout and its header.

CsWorks == csPage \in {"work", "connections"} /\ csLayout.mounted

CsOpenMenu ==
    /\ CsUse /\ CsWorks /\ csMenu' = ~csMenu
    /\ UNCHANGED <<csSaved, csList, csStored, csLayout, csPage, csStart, csMoves, csSince, csCards>>

CsOpenConnections ==
    /\ CsUse /\ CsWorks /\ csPage' = (IF csPage = "work" THEN "connections" ELSE "work")
    /\ csMenu' = FALSE /\ csDelete' = ""
    /\ UNCHANGED <<csSaved, csList, csStored, csLayout, csStart, csMoves, csSince, csCall, csPings, csAll>>

\* handleSwitchConnection, of the header's menu and of the cards: the queries
\* under way are cancelled first.
CsSwitchStart(id) ==
    /\ CsUse /\ CsWorks /\ csSwitch = CsNoInfo /\ id \in CsListed
    /\ csMenu \/ (csPage = "connections" /\ id # csLayout.current)
    /\ csSwitch' = [id |-> id, readOnly |-> csList[id]] /\ csMenu' = FALSE
    /\ UNCHANGED <<csSaved, csList, csStored, csLayout, csPage, csStart, csDropping, csSince, csCards>>

\* Mutant: the switch leaves the stored id as it was.
CsSwitchShown(connection) ==
    /\ csActive' = csActive /\ CsStoreInfo(connection.id, connection.readOnly)
    /\ csPage' = "work" /\ csLayout' = CsMounted(connection.id, connection.id) /\ UNCHANGED csChecked

\* Then the stores are reset and the connection is another; a layout that was
\* left meanwhile is mounted again from what is stored.
CsSwitchTo(connection) ==
    /\ CsSetActive(connection.id) /\ CsStoreInfo(connection.id, connection.readOnly)
    /\ csPage' = "work" /\ csLayout' = CsMounted(connection.id, connection.id) /\ UNCHANGED csChecked

CsSwitched ==
    /\ csSwitch # CsNoInfo /\ csSwitch' = CsNoInfo
    /\ CsSwitchTo(csSwitch)
    /\ csSince' = "well" /\ csDelete' = "" /\ csReason' = FALSE
    /\ UNCHANGED <<csSaved, csList, csForm, csConnect, csDropping, csMenu, csCall, csPings, csAll, csPresses>>

CsToStart(reason) ==
    /\ CsClearActive /\ csLayout' = CsUnmounted /\ csPage' = "start"
    /\ csChecked' = TRUE /\ csForm' = "closed" /\ csReason' = reason /\ csMenu' = FALSE /\ csDelete' = ""

\* Disconnect, of the layout and of the command palette.
CsDisconnect ==
    /\ CsUse /\ CsWorks /\ CsToStart(FALSE)
    /\ UNCHANGED <<csSaved, csList, csConnect, csMoves, csSince, csCall, csPings, csAll>>

---------------------------------------------------------------------------
\* The health poll.

CsPollAnswers(outcome) ==
    /\ CsWorks /\ csLayout.id \in DOMAIN csSaved
    /\ \/ outcome \in {"ok", "refused"} /\ csSince # "well" /\ csSince' = "well"
       \/ outcome = "unreachable" /\ csSince = "well" /\ csSince' = "failing"
    /\ UNCHANGED <<csSaved, csList, csStored, csLayout, csPage, csStart, csMoves, csMenu, csCards, csPresses>>

\* SUSTAINED_FAILURE_MS.
CsMinutePasses ==
    /\ csSince = "failing" /\ csSince' = "sustained"
    /\ UNCHANGED <<csSaved, csList, csStored, csLayout, csPage, csStart, csMoves, csMenu, csCards, csPresses>>

\* handleInvalidConnection: gone, or failing for too long.
CsInvalid ==
    /\ CsWorks /\ csLayout.id # ""
    /\ csLayout.id \notin DOMAIN csSaved \/ csSince = "sustained"
    /\ CsToStart(FALSE) /\ csSince' = "well" /\ csDropping' = TRUE
    /\ UNCHANGED <<csSaved, csList, csConnect, csSwitch, csCall, csPings, csAll, csPresses>>

\* Its queries dropped, the start page says why; a connection picked by then is resumed.
CsDropped ==
    /\ csDropping /\ csDropping' = FALSE
    /\ IF csActive = "" THEN csReason' = TRUE /\ UNCHANGED <<csLayout, csPage>>
       ELSE csPage' = "work" /\ csLayout' = CsMounted(csActive, csInfo.id) /\ UNCHANGED csReason
    /\ csDelete' = ""
    /\ UNCHANGED <<csSaved, csList, csStored, csChecked, csForm, csConnect, csSwitch, csSince, csMenu, csCall, csPings, csAll, csPresses>>

---------------------------------------------------------------------------
\* The saved connections.

CsCards == csPage = "connections" /\ csDelete = ""
CsOffers(id) == CsCards /\ id \in CsListed /\ csAll = CsNoAll

CsAskDelete(id) ==
    /\ CsUse /\ CsOffers(id) /\ csDelete' = id
    /\ UNCHANGED <<csSaved, csList, csStored, csLayout, csPage, csStart, csMoves, csSince, csMenu, csCall, csPings, csAll>>

CsDeleteAnswered(confirmed) ==
    /\ CsUse /\ csDelete # "" /\ csCall = CsNoCall
    /\ IF confirmed THEN csCall' = [CsNoCall EXCEPT !.state = "sent", !.type = "delete", !.id = csDelete]
                         /\ UNCHANGED csDelete
       ELSE csDelete' = "" /\ UNCHANGED csCall
    /\ UNCHANGED <<csSaved, csList, csStored, csLayout, csPage, csStart, csMoves, csSince, csMenu, csPings, csAll>>

\* A copy, or the connections of a file or of the nats command line: one that
\* the list has already is skipped.
CsAdd(type, id) ==
    /\ CsUse /\ CsCards /\ csCall = CsNoCall /\ id \notin CsListed
    /\ type = "copy" => csAll = CsNoAll /\ CsListed # {}
    /\ csCall' = [CsNoCall EXCEPT !.state = "sent", !.type = type, !.id = id]
    /\ UNCHANGED <<csSaved, csList, csStored, csLayout, csPage, csStart, csMoves, csSince, csMenu, csDelete, csPings, csAll>>

CsCopy(id) == CsAdd("copy", id)
CsImport(id) == CsAdd("import", id)
CsImportCli(id) == CsAdd("cli", id)

CsCallReaches ==
    /\ csCall.state = "sent"
    /\ \/ /\ csCall.type = "delete" /\ csCall.id \in DOMAIN csSaved
          /\ csSaved' = [i \in DOMAIN csSaved \ {csCall.id} |-> csSaved[i]]
          /\ csCall' = [csCall EXCEPT !.state = "done"]
       \/ /\ csCall.type # "delete" /\ csCall.id \notin DOMAIN csSaved
          /\ csSaved' = [i \in DOMAIN csSaved \cup {csCall.id} |-> i \in DOMAIN csSaved /\ csSaved[i]]
          /\ csCall' = [csCall EXCEPT !.state = "done"]
       \/ csCall' = [csCall EXCEPT !.state = "failed"] /\ UNCHANGED csSaved
    /\ UNCHANGED <<csList, csStored, csLayout, csPage, csStart, csMoves, csSince, csMenu, csDelete, csPings, csAll, csPresses>>

\* The list is read again after a success; the question is closed in any case.
CsCallAnswered ==
    /\ csCall.state \in {"done", "failed"} /\ csCall' = CsNoCall
    /\ csDelete' = IF csCall.type = "delete" THEN "" ELSE csDelete
    /\ IF csCall.state = "done" THEN CsAnswered
       ELSE UNCHANGED <<csList, csStored, csLayout, csPage, csChecked>>
    /\ UNCHANGED <<csSaved, csForm, csConnect, csReason, csMoves, csSince, csMenu, csPings, csAll, csPresses>>

CsPing(id) ==
    /\ CsUse /\ CsOffers(id) /\ id \notin csPings /\ csPings' = csPings \cup {id}
    /\ UNCHANGED <<csSaved, csList, csStored, csLayout, csPage, csStart, csMoves, csSince, csMenu, csDelete, csCall, csAll>>

\* handlePingAll: the connections of the list as it began.
CsPingAll ==
    /\ CsUse /\ CsCards /\ csAll = CsNoAll /\ CsListed # {}
    /\ csAll' = [left |-> CsListed, total |-> CsListed] /\ csPings' = csPings \cup CsListed
    /\ UNCHANGED <<csSaved, csList, csStored, csLayout, csPage, csStart, csMoves, csSince, csMenu, csDelete, csCall>>

\* Each answer has the list read again, for the probe is kept with the connection.
CsPinged(id) ==
    /\ id \in csPings /\ csPings' = csPings \ {id}
    /\ csAll' = IF csAll.left \ {id} = {} THEN CsNoAll ELSE [csAll EXCEPT !.left = @ \ {id}]
    /\ CsAnswered
    /\ UNCHANGED <<csSaved, csForm, csConnect, csReason, csMoves, csSince, csMenu, csDelete, csCall, csPresses>>

CsNext ==
    \/ CsFetch \/ CsOtherChanges
    \/ (\E id \in CsIds : CsConnectSaved(id) \/ CsConnectNew(id) \/ CsSwitchStart(id))
    \/ CsTestNew \/ CsShowForm \/ CsConnectReaches \/ CsConnectAnswered \/ CsDismiss
    \/ CsOpenMenu \/ CsOpenConnections \/ CsSwitched \/ CsDisconnect
    \/ (\E outcome \in {"ok", "unreachable", "refused"} : CsPollAnswers(outcome))
    \/ CsMinutePasses \/ CsInvalid \/ CsDropped
    \/ (\E id \in CsIds : CsAskDelete(id) \/ CsCopy(id) \/ CsImport(id) \/ CsImportCli(id) \/ CsPing(id) \/ CsPinged(id))
    \/ (\E confirmed \in BOOLEAN : CsDeleteAnswered(confirmed))
    \/ CsCallReaches \/ CsCallAnswered \/ CsPingAll

CsSpec == CsInit /\ [][CsNext]_csVars

---------------------------------------------------------------------------
CsTypeOK ==
    /\ DOMAIN csSaved \subseteq CsIds /\ CsListed \subseteq CsIds
    /\ {csActive, csInfo.id, csLayout.id, csLayout.current, csSwitch.id, csDelete} \subseteq CsIds \cup {""}
    /\ csPage \in {"start", "work", "connections"} /\ csForm \in {"closed", "open", "wrong"}
    /\ {csChecked, csReason, csDropping, csMenu, csLayout.mounted} \subseteq BOOLEAN
    /\ csConnect.state \in {"none", "sent", "done", "failed"} /\ csCall.state \in {"none", "sent", "done", "failed"}
    /\ csSince \in {"well", "failing", "sustained"} /\ csPings \subseteq CsIds
    /\ csAll.left \subseteq csAll.total /\ csAll.total \subseteq CsIds /\ csPresses \in 0 .. CsMaxPresses

\* The header's name and the policy that decides which writes are offered are
\* those of the connection the requests go to: what is stored names the layout's
\* connection, whichever of a switch, a disconnection, a lost connection and an
\* answer of the list comes last.
CsShownIsActive ==
    csLayout.mounted /\ csLayout.id # "" =>
        /\ csActive = csLayout.id /\ csLayout.current = csLayout.id
        /\ csInfo.id = csLayout.id
=============================================================================
