------------------------------ MODULE WebClient ------------------------------
(***************************************************************************)
(* The web client: its pages next to each other.                           *)
(*                                                                         *)
(* Each area is one page, or one part of a page, with the calls it has     *)
(* under way.  The router shows one page at a time and the areas share no  *)
(* state that one of them writes and another reads, so a behaviour stays   *)
(* in the area it starts in: the states of the client are those of its     *)
(* areas, next to each other and not multiplied with each other.           *)
(***************************************************************************)
EXTENDS LiveView, MessageSearch, MessageList, MessageViewer, MessageTable,
        PublishPage, RequestReply, TemplatesPage, KVWatch, KVPage,
        StreamConfig, ConsumersTab, ConsumerHealth, ConnectionEdit,
        ConnectionSession, ObjectStore, ProtoSources

CONSTANT HcPinned  \* the configurations the consumer looked at may have

VARIABLE webArea  \* the page that is shown

webVars == <<webArea, lvVars, msVars, mlVars, vwVars, mtVars, pbVars, rqVars, tpVars,
             kwVars, kvVars, scVars, ctVars, hcVars, ceVars, csVars, obVars,
             psVars>>

\* Every area starts as its module says; an area that is not shown starts in
\* one of its states, and where a bound would otherwise have to be smaller the
\* page starts as a writable one that is open.
WebInit ==
    /\ webArea \in {"subscribe", "search", "list", "message", "table",
                   "publish", "request", "templates", "watch", "bucket",
                   "config", "consumers", "consumer", "connection",
                   "connections", "objects", "protos"}
    /\ LvInit /\ (webArea # "subscribe" => lvConn = CHOOSE c \in LvConns : TRUE)
    /\ MsInit
    /\ MlInit /\ (webArea # "list" => mlLast = 1 /\ mlMode = "history")
    /\ VwInit /\ (webArea # "message" => vwAccess = "open" /\ vwParam = 0 /\ vwSel = 0 /\ vwMapped = {} /\ ~vwNav.backward)
    /\ MtInit /\ (webArea # "table" => mtMode = "history" /\ mtAuto)
    /\ PbInit /\ pbPattern \in PbWild \cup {""} /\ (webArea # "publish" => pbPattern = "" /\ pbDrafts = PbMigrated("", [p \in {} |-> "good"])) /\ pbTemplates = {PbTemplate(CHOOSE p \in PbListed \cap PbWild : TRUE)}
    /\ RqInit
    /\ TpInit /\ (webArea # "templates" => tpLink = "none" /\ tpLegacy = [list |-> "none", flag |-> TRUE])
    /\ KwInit /\ (webArea # "watch" => kwHeld = {})
    /\ KvInit /\ (webArea # "bucket" => kvInfo = [readOnly |-> FALSE, mirror |-> FALSE, keyTtl |-> FALSE] /\ kvStore[CHOOSE k \in KvKeys : TRUE] = 1)
    /\ ScInit /\ (webArea # "config" => scReadOnly = FALSE /\ scStream.config = [f \in ScFields |-> 0])
    /\ CtInit /\ ~ctReadOnly /\ DOMAIN ctConsumers = CtNames
    /\ HcInit /\ (webArea # "consumer" => hcConfig = CHOOSE c \in HcPinned : TRUE) /\ hcPage = "overview" /\ hcConfig \in HcPinned
    /\ CeInit /\ (ceMode = "edit" => ceSaved.settings = "p") /\ (webArea # "connection" => ceMode = "create" /\ ceForm = CeBlank)
    /\ CsInit /\ (webArea # "connections" => DOMAIN csSaved = CsIds /\ (\A i \in CsIds : ~csSaved[i]) /\ csActive = "")
    /\ ObInit /\ (webArea # "objects" => obBucket = ObNoBucket) /\ obAsks = (obBucket # [ObNewBucket EXCEPT !.objects[CHOOSE n \in ObNames : TRUE] = 1]) /\ ~obReadOnly /\ obPage = "bucket"
    /\ PsInit /\ psPage = "list" /\ (webArea # "protos" => psSources[1].type = "git")

\* The page that is shown takes its steps; the others stay as they are.
WebSubscribe ==
    /\ webArea = "subscribe"
    /\ UNCHANGED <<webArea, msVars, mlVars, vwVars, mtVars, pbVars, rqVars,
                    tpVars, kwVars, kvVars, scVars, ctVars, hcVars, ceVars,
                    csVars, obVars, psVars>>
    /\ LvNext

WebSearch ==
    /\ webArea = "search"
    /\ UNCHANGED <<webArea, lvVars, mlVars, vwVars, mtVars, pbVars, rqVars,
                    tpVars, kwVars, kvVars, scVars, ctVars, hcVars, ceVars,
                    csVars, obVars, psVars>>
    /\ MsNext

WebList ==
    /\ webArea = "list"
    /\ UNCHANGED <<webArea, lvVars, msVars, vwVars, mtVars, pbVars, rqVars,
                    tpVars, kwVars, kvVars, scVars, ctVars, hcVars, ceVars,
                    csVars, obVars, psVars>>
    /\ MlNext

WebMessage ==
    /\ webArea = "message"
    /\ UNCHANGED <<webArea, lvVars, msVars, mlVars, mtVars, pbVars, rqVars,
                    tpVars, kwVars, kvVars, scVars, ctVars, hcVars, ceVars,
                    csVars, obVars, psVars>>
    /\ VwNext

WebTable ==
    /\ webArea = "table"
    /\ UNCHANGED <<webArea, lvVars, msVars, mlVars, vwVars, pbVars, rqVars,
                    tpVars, kwVars, kvVars, scVars, ctVars, hcVars, ceVars,
                    csVars, obVars, psVars>>
    /\ MtNext

WebPublish ==
    /\ webArea = "publish"
    /\ UNCHANGED <<webArea, lvVars, msVars, mlVars, vwVars, mtVars, rqVars,
                    tpVars, kwVars, kvVars, scVars, ctVars, hcVars, ceVars,
                    csVars, obVars, psVars>>
    /\ PbNext

WebRequest ==
    /\ webArea = "request"
    /\ UNCHANGED <<webArea, lvVars, msVars, mlVars, vwVars, mtVars, pbVars,
                    tpVars, kwVars, kvVars, scVars, ctVars, hcVars, ceVars,
                    csVars, obVars, psVars>>
    /\ RqNext

WebTemplates ==
    /\ webArea = "templates"
    /\ UNCHANGED <<webArea, lvVars, msVars, mlVars, vwVars, mtVars, pbVars,
                    rqVars, kwVars, kvVars, scVars, ctVars, hcVars, ceVars,
                    csVars, obVars, psVars>>
    /\ TpNext

WebWatch ==
    /\ webArea = "watch"
    /\ UNCHANGED <<webArea, lvVars, msVars, mlVars, vwVars, mtVars, pbVars,
                    rqVars, tpVars, kvVars, scVars, ctVars, hcVars, ceVars,
                    csVars, obVars, psVars>>
    /\ KwNext

WebBucket ==
    /\ webArea = "bucket"
    /\ UNCHANGED <<webArea, lvVars, msVars, mlVars, vwVars, mtVars, pbVars,
                    rqVars, tpVars, kwVars, scVars, ctVars, hcVars, ceVars,
                    csVars, obVars, psVars>>
    /\ KvNext

WebConfig ==
    /\ webArea = "config"
    /\ UNCHANGED <<webArea, lvVars, msVars, mlVars, vwVars, mtVars, pbVars,
                    rqVars, tpVars, kwVars, kvVars, ctVars, hcVars, ceVars,
                    csVars, obVars, psVars>>
    /\ ScNext

WebConsumers ==
    /\ webArea = "consumers"
    /\ UNCHANGED <<webArea, lvVars, msVars, mlVars, vwVars, mtVars, pbVars,
                    rqVars, tpVars, kwVars, kvVars, scVars, hcVars, ceVars,
                    csVars, obVars, psVars>>
    /\ CtNext

WebConsumer ==
    /\ webArea = "consumer"
    /\ UNCHANGED <<webArea, lvVars, msVars, mlVars, vwVars, mtVars, pbVars,
                    rqVars, tpVars, kwVars, kvVars, scVars, ctVars, ceVars,
                    csVars, obVars, psVars>>
    /\ HcNext

WebConnection ==
    /\ webArea = "connection"
    /\ UNCHANGED <<webArea, lvVars, msVars, mlVars, vwVars, mtVars, pbVars,
                    rqVars, tpVars, kwVars, kvVars, scVars, ctVars, hcVars,
                    csVars, obVars, psVars>>
    /\ CeNext

WebConnections ==
    /\ webArea = "connections"
    /\ UNCHANGED <<webArea, lvVars, msVars, mlVars, vwVars, mtVars, pbVars,
                    rqVars, tpVars, kwVars, kvVars, scVars, ctVars, hcVars,
                    ceVars, obVars, psVars>>
    /\ CsNext

WebObjects ==
    /\ webArea = "objects"
    /\ UNCHANGED <<webArea, lvVars, msVars, mlVars, vwVars, mtVars, pbVars,
                    rqVars, tpVars, kwVars, kvVars, scVars, ctVars, hcVars,
                    ceVars, csVars, psVars>>
    /\ ObNext

WebProtos ==
    /\ webArea = "protos"
    /\ UNCHANGED <<webArea, lvVars, msVars, mlVars, vwVars, mtVars, pbVars,
                    rqVars, tpVars, kwVars, kvVars, scVars, ctVars, hcVars,
                    ceVars, csVars, obVars>>
    /\ PsNext

WebNext ==
    \/ WebSubscribe \/ WebSearch \/ WebList \/ WebMessage \/ WebTable
    \/ WebPublish \/ WebRequest \/ WebTemplates \/ WebWatch \/ WebBucket
    \/ WebConfig \/ WebConsumers \/ WebConsumer \/ WebConnection
    \/ WebConnections \/ WebObjects \/ WebProtos

---------------------------------------------------------------------------
\* The state of the area that is shown is of its type.
WebTypeOK ==
    /\ webArea = "subscribe" => LvTypeOK
    /\ webArea = "search" => MsTypeOK
    /\ webArea = "list" => MlTypeOK
    /\ webArea = "message" => VwTypeOK
    /\ webArea = "table" => MtTypeOK
    /\ webArea = "publish" => PbTypeOK
    /\ webArea = "request" => RqTypeOK
    /\ webArea = "templates" => TpTypeOK
    /\ webArea = "watch" => KwTypeOK
    /\ webArea = "bucket" => KvTypeOK
    /\ webArea = "config" => ScTypeOK
    /\ webArea = "consumers" => CtTypeOK
    /\ webArea = "consumer" => HcTypeOK
    /\ webArea = "connection" => CeTypeOK
    /\ webArea = "connections" => CsTypeOK
    /\ webArea = "objects" => ObTypeOK
    /\ webArea = "protos" => PsTypeOK

\* The feed of the Subscribe page is live or says that it is not, and holds what
\* arrived for the connection that is shown: LvNeverSilent, LvFeedHonest.
WebFeedTold == LvNeverSilent /\ LvFeedHonest

\* What passes for whole is whole: a search's answer (MessageSearch), the list
\* of messages and its export (MessageList), and the payload a resend gives to
\* the publish form (MessageViewer).
WebWhole == MsSearchWhole /\ MlUnbroken /\ MlExportWhole /\ VwResendWhole

\* What an answer is shown beside is what was asked: a verdict beside the body
\* that was validated (PublishPage), a decoding beside the reply it is of
\* (RequestReply), a list of keys beside the bucket the watch reports on
\* (KVWatch), the result of a connection test beside the settings that were
\* tested (ConnectionEdit), the pages beside the connection they read
\* (ConnectionSession), a preview no older than the upload that replaced it
\* (ObjectStore), a proto source saved from the path that its validation
\* accepted, and saved once (ProtoSources).
WebAnswersCurrent ==
    /\ PbVerdictCurrent /\ RqDecodingRuns /\ KwLiveListTrue
    /\ CeProbeHonest /\ CsShownIsActive /\ ObPreviewReplaced
    /\ PsSendsChecked /\ PsCreatesOnce

\* The user's place is kept: an arrow's late answer does not take the panel from
\* a message picked meanwhile (MessageViewer), and rows that arrive do not move
\* the one that is read (MessageTable).
WebPlaceKept == VwStepsToNeighbour /\ MtReadingKept

\* Nothing of the user's or of another client's is lost without being told: the
\* part of a deletion that failed is still selected (TemplatesPage), a save
\* replaces the revision the user began to edit and no newer one (KVPage), and
\* an update carries what the user changed and leaves the rest to the server
\* (StreamConfig, ConsumersTab, ConnectionEdit).
WebNothingLost ==
    [][TpRetryStep /\ KvSaveStep /\ ScReviewedStep /\ CtReviewedStep /\ CeSettingsStep]_webVars
=============================================================================
