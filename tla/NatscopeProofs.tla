--------------------------- MODULE NatscopeProofs ----------------------------
(***************************************************************************)
(* What is proved of the parts of Natscope by themselves holds in Natscope *)
(* too: a part starts in one of its initial states, and a step of another  *)
(* part, or of the client, leaves it as it is.                             *)
(***************************************************************************)
EXTENDS Natscope, ServerPartsProofs, WebProofs, PagesProofs

\* Every step of Natscope is one of the part that is looked at, and a stutter of
\* the others.
LEMMA PartsStart == NatInit => WebInit /\ PvInit /\ FwInit /\ VtInit /\ SkInit
BY DEF NatInit

LEMMA ProtosStep == [NatNext]_natVars => [PvNext]_pvVars
BY DEF NatNext, natVars, natServer, NatWeb, NatProtos, NatFiles, NatSecrets, NatBucket

LEMMA SecretsStep == [NatNext]_natVars => [VtNext]_vtVars
BY DEF NatNext, natVars, natServer, NatWeb, NatProtos, NatFiles, NatSecrets, NatBucket

LEMMA BucketStep == [NatNext]_natVars => [SkNext]_skVars
BY DEF NatNext, natVars, natServer, NatWeb, NatProtos, NatFiles, NatSecrets, NatBucket

LEMMA DirectoriesStep == [NatNext]_natVars => [FwNext]_fwVars
BY DEF NatNext, natVars, natServer, NatWeb, NatProtos, NatFiles, NatSecrets, NatBucket

LEMMA PagesStep == [NatNext]_natVars => [WebNext]_webVars
BY DEF NatNext, natVars, natServer, NatWeb, NatProtos, NatFiles, NatSecrets, NatBucket

\* A step of one area leaves the others as they are.
LEMMA AreaSteps ==
    [WebNext]_webVars =>
        /\ [LvNext]_lvVars /\ [HcNext]_hcVars /\ [TpNext]_tpVars /\ [KvNext]_kvVars /\ [ScNext]_scVars
        /\ [CtNext]_ctVars /\ [CeNext]_ceVars /\ [VwNext]_vwVars /\ [MtNext]_mtVars /\ [PbNext]_pbVars
        /\ [RqNext]_rqVars /\ [KwNext]_kwVars /\ [CsNext]_csVars /\ [ObNext]_obVars /\ [PsNext]_psVars
        /\ [MlNext]_mlVars /\ [MsNext]_msVars
<1> USE DEF WebNext, webVars, WebSubscribe, WebSearch, WebList, WebMessage, WebTable, WebPublish, WebRequest,
        WebTemplates, WebWatch, WebBucket, WebConfig, WebConsumers, WebConsumer, WebConnection,
        WebConnections, WebObjects, WebProtos
<1>1. [WebNext]_webVars => [LvNext]_lvVars
  OBVIOUS
<1>2. [WebNext]_webVars => [HcNext]_hcVars
  OBVIOUS
<1>3. [WebNext]_webVars => [TpNext]_tpVars
  OBVIOUS
<1>4. [WebNext]_webVars => [KvNext]_kvVars
  OBVIOUS
<1>5. [WebNext]_webVars => [ScNext]_scVars
  OBVIOUS
<1>6. [WebNext]_webVars => [CtNext]_ctVars
  OBVIOUS
<1>7. [WebNext]_webVars => [CeNext]_ceVars
  OBVIOUS
<1>8. [WebNext]_webVars => [VwNext]_vwVars
  OBVIOUS
<1>9. [WebNext]_webVars => [MtNext]_mtVars
  OBVIOUS
<1>10. [WebNext]_webVars => [PbNext]_pbVars
  OBVIOUS
<1>11. [WebNext]_webVars => [RqNext]_rqVars
  OBVIOUS
<1>12. [WebNext]_webVars => [KwNext]_kwVars
  OBVIOUS
<1>13. [WebNext]_webVars => [CsNext]_csVars
  OBVIOUS
<1>14. [WebNext]_webVars => [ObNext]_obVars
  OBVIOUS
<1>15. [WebNext]_webVars => [PsNext]_psVars
  OBVIOUS
<1>16. [WebNext]_webVars => [MlNext]_mlVars
  OBVIOUS
<1>17. [WebNext]_webVars => [MsNext]_msVars
  OBVIOUS
<1> QED BY <1>1, <1>2, <1>3, <1>4, <1>5, <1>6, <1>7, <1>8, <1>9, <1>10, <1>11, <1>12, <1>13, <1>14, <1>15, <1>16, <1>17

LEMMA FeedByItself == Spec => LvSpec
<1>1. NatInit => LvInit
  BY PartsStart DEF WebInit
<1> QED BY <1>1, PagesStep, AreaSteps, PTL DEF Spec, LvSpec

LEMMA ConsumerByItself == Spec => HcSpec
<1>1. NatInit => HcInit
  BY PartsStart DEF WebInit
<1> QED BY <1>1, PagesStep, AreaSteps, PTL DEF Spec, HcSpec

LEMMA ProtosByThemselves == Spec => PvSpec
BY PartsStart, ProtosStep, PTL DEF Spec, PvSpec

LEMMA SecretsByThemselves == Spec => VtSpec
BY PartsStart, SecretsStep, PTL DEF Spec, VtSpec

LEMMA BucketByItself == Spec => SkSpec
BY PartsStart, BucketStep, PTL DEF Spec, SkSpec

LEMMA DirectoriesByThemselves == Spec => FwSpec
BY PartsStart, DirectoriesStep, PTL DEF Spec, FwSpec

\* After any crash, and whatever the disk did, the secrets can be read again or
\* the start fails and says so.
THEOREM SecretsRecover == Spec => []VtRecovers
BY SecretsByThemselves, VaultRecovers, PTL

\* The list a page shows of a bucket is what the bucket holds, once what the
\* watch sent has arrived.
THEOREM BucketWatchIsTrue == Spec => []SkWatchTrue
BY BucketByItself, SkWatchIsTrue, PTL

\* The registry serves what is stored.
THEOREM RegistryServesStored == Spec => []PvSchemasServed
BY ProtosByThemselves, SchemasAreServed, PTL

\* A change to the files of a source leads to a compilation of the source, in the
\* watcher of directories and in the service it asks to compile.
THEOREM ChangesFollowed == Spec => []NatChangesFollowed
<1>1. Spec => []FwChangeFollowed
  BY DirectoriesByThemselves, ChangesAreFollowed, PTL
<1>2. Spec => []PvChangePending /\ []PvWatchTrue
  BY ProtosByThemselves, ChangesArePending, WatchFollowsDocument, PTL
<1>3. FwChangeFollowed /\ PvChangePending /\ PvWatchTrue => NatChangesFollowed
  BY DEF NatChangesFollowed
<1> QED BY <1>1, <1>2, <1>3, PTL

\* No schema of a directory is replaced by one of older files, and no deleted
\* source is written back.
THEOREM NeverBack == Spec => NatNeverBack
<1>1. PvInv /\ [NatNext]_natVars => [PvForwardStep]_natVars
  <2> SUFFICES ASSUME PvInv, [NatNext]_natVars, natVars' # natVars PROVE PvForwardStep
    OBVIOUS
  <2> QED BY ProtosStep, PvForwardHolds
<1> QED BY <1>1, ProtosByThemselves, PvInvariant, PTL DEF Spec, NatNeverBack

\* The feed of the Subscribe page is live or says that it is not, and holds what
\* arrived for the connection that is shown.
THEOREM FeedIsTold == Spec => []WebFeedTold
<1>1. Spec => []LvNeverSilent /\ []LvFeedHonest
  BY FeedByItself, FeedNeverSilent, FeedIsHonest, PTL
<1>2. LvNeverSilent /\ LvFeedHonest => WebFeedTold
  BY DEF WebFeedTold
<1> QED BY <1>1, <1>2, PTL

\* What the consumer page says of a message (delivered, waiting, missed, never
\* matched) is what became of it.
THEOREM ConsumerVerdicts == Spec => []HcVerdictsTrue
BY ConsumerByItself, VerdictsAreTrue, PTL

---------------------------------------------------------------------------
(***************************************************************************)
(* The pages the promises of WebClient are about.                          *)
(***************************************************************************)

LEMMA TemplatesByItself == Spec => TpSpec
<1>1. NatInit => TpInit
  BY PartsStart DEF WebInit
<1> QED BY <1>1, PagesStep, AreaSteps, PTL DEF Spec, TpSpec

LEMMA BucketPageByItself == Spec => KvSpec
<1>1. NatInit => KvInit
  BY PartsStart DEF WebInit
<1> QED BY <1>1, PagesStep, AreaSteps, PTL DEF Spec, KvSpec

LEMMA ConfigByItself == Spec => ScSpec
<1>1. NatInit => ScInit
  BY PartsStart DEF WebInit
<1> QED BY <1>1, PagesStep, AreaSteps, PTL DEF Spec, ScSpec

LEMMA ConsumersTabByItself == Spec => CtSpec
<1>1. NatInit => CtInit
  BY PartsStart DEF WebInit
<1> QED BY <1>1, PagesStep, AreaSteps, PTL DEF Spec, CtSpec

LEMMA EditorByItself == Spec => CeSpec
<1>1. NatInit => CeInit
  BY PartsStart DEF WebInit
<1> QED BY <1>1, PagesStep, AreaSteps, PTL DEF Spec, CeSpec

LEMMA ViewerByItself == Spec => VwSpec
<1>1. NatInit => VwInit
  BY PartsStart DEF WebInit
<1> QED BY <1>1, PagesStep, AreaSteps, PTL DEF Spec, VwSpec

LEMMA TableByItself == Spec => MtSpec
<1>1. NatInit => MtInit
  BY PartsStart DEF WebInit
<1> QED BY <1>1, PagesStep, AreaSteps, PTL DEF Spec, MtSpec

LEMMA PublishingByItself == Spec => PbSpec
<1>1. NatInit => PbInit
  BY PartsStart DEF WebInit
<1> QED BY <1>1, PagesStep, AreaSteps, PTL DEF Spec, PbSpec

LEMMA RequestsByItself == Spec => RqSpec
<1>1. NatInit => RqInit
  BY PartsStart DEF WebInit
<1> QED BY <1>1, PagesStep, AreaSteps, PTL DEF Spec, RqSpec

LEMMA KeyListByItself == Spec => KwSpec
<1>1. NatInit => KwInit
  BY PartsStart DEF WebInit
<1> QED BY <1>1, PagesStep, AreaSteps, PTL DEF Spec, KwSpec

LEMMA SessionByItself == Spec => CsSpec
<1>1. NatInit => CsInit
  BY PartsStart DEF WebInit
<1> QED BY <1>1, PagesStep, AreaSteps, PTL DEF Spec, CsSpec

LEMMA ObjectsByItself == Spec => ObSpec
<1>1. NatInit => ObInit
  BY PartsStart DEF WebInit
<1> QED BY <1>1, PagesStep, AreaSteps, PTL DEF Spec, ObSpec

LEMMA SourcesByItself == Spec => PsSpec
<1>1. NatInit => PsInit
  BY PartsStart DEF WebInit
<1> QED BY <1>1, PagesStep, AreaSteps, PTL DEF Spec, PsSpec

LEMMA ListByItself == Spec => MlSpec
<1>1. NatInit => MlInit
  BY PartsStart DEF WebInit
<1> QED BY <1>1, PagesStep, AreaSteps, PTL DEF Spec, MlSpec

LEMMA SearchByItself == Spec => MsSpec
<1>1. NatInit => MsInit
  BY PartsStart DEF WebInit
<1> QED BY <1>1, PagesStep, AreaSteps, PTL DEF Spec, MsSpec

\* A search shows the first part of its answer and in the end all of it, the list
\* an unbroken run of the stream, an export what it says, and a resend the message.
THEOREM ShownWhole == Spec => []WebWhole
<1>1. Spec => []MsSearchWhole
  BY SearchByItself, SearchIsWhole, PTL
<1>2. Spec => []MlUnbroken /\ []MlExportWhole
  BY ListByItself, ListIsUnbroken, ExportIsWhole, PTL
<1>3. Spec => []VwResendWhole
  BY ViewerByItself, ResendIsWhole, PTL
<1> QED BY <1>1, <1>2, <1>3, PTL DEF WebWhole

\* A client that saves or deletes loses nothing the user did not see: what a bulk
\* deletion could not delete stays selected, a save replaces what was read, and an
\* update of a stream, a consumer or a connection sets what was reviewed or edited.
THEOREM NothingLost == Spec => WebNothingLost
<1> DEFINE Inv == TpInv /\ KvInv /\ ScInv /\ CtInv /\ CeTypes /\ CeSaveInv
           Step == TpRetryStep /\ KvSaveStep /\ ScReviewedStep /\ CtReviewedStep /\ CeSettingsStep
<1>1. Inv /\ [NatNext]_natVars => Step
  <2>1. Inv /\ [NatNext]_natVars => TpRetryStep
    BY PagesStep, AreaSteps, TpRetryStepKept
  <2>2. Inv /\ [NatNext]_natVars => KvSaveStep
    BY PagesStep, AreaSteps, KvSaveStepKept
  <2>3. Inv /\ [NatNext]_natVars => ScReviewedStep
    BY PagesStep, AreaSteps, ScReviewedStepKept
  <2>4. Inv /\ [NatNext]_natVars => CtReviewedStep
    BY PagesStep, AreaSteps, CtReviewedStepKept
  <2>5. Inv /\ [NatNext]_natVars => CeSettingsStep
    BY PagesStep, AreaSteps, CeSettingsStepKept
  <2> QED BY <2>1, <2>2, <2>3, <2>4, <2>5
<1>2. Spec => []Inv
  <2>1. Spec => []TpInv /\ []KvInv
    BY TemplatesByItself, BucketPageByItself, TpInvariant, KvInvariant, PTL
  <2>2. Spec => []ScInv /\ []CtInv
    BY ConfigByItself, ConsumersTabByItself, ScInvariant, CtInvariant, PTL
  <2>3. Spec => [](CeTypes /\ CeSaveInv)
    BY EditorByItself, CeSaveInvariant, PTL
  <2> QED BY <2>1, <2>2, <2>3, PTL
<1> QED BY <1>1, <1>2, PTL DEF Spec, WebNothingLost

\* An arrow selects the nearest message it can reach, unless a row was picked
\* meanwhile, and rows that arrive leave the row that is read in view.
THEOREM PlaceKept == Spec => WebPlaceKept
BY ViewerByItself, TableByItself, StepsToNeighbour, ReadingIsKept, PTL DEF WebPlaceKept

\* An answer is shown only beside what was asked: the verdict beside the body, a
\* decoding beside its reply, the keys beside the bucket, a probe's result beside
\* the form, the pages beside their connection, a preview beside what was uploaded,
\* and a source is made once, from the path its validation accepted.
THEOREM AnswersCurrent == Spec => []WebAnswersCurrent
<1>1. Spec => []PbVerdictCurrent /\ []RqDecodingRuns
  BY PublishingByItself, RequestsByItself, VerdictIsCurrent, DecodingRuns, PTL
<1>2. Spec => []KwLiveListTrue /\ []CeProbeHonest
  BY KeyListByItself, EditorByItself, LiveListIsTrue, ProbeIsHonest, PTL
<1>3. Spec => []CsShownIsActive /\ []ObPreviewReplaced
  BY SessionByItself, ObjectsByItself, ShownIsActive, PreviewReplaced, PTL
<1>4. Spec => [](PsSendsChecked /\ PsCreatesOnce)
  BY SourcesByItself, SourceSavedOnce, PTL
<1> QED BY <1>1, <1>2, <1>3, <1>4, PTL DEF WebAnswersCurrent
\* The state of the part that is looked at, and in the client of its page, is of
\* its type: what a form, a list, a watch or a stored document holds is always
\* something the code that reads it next can be given.
THEOREM TypesAreRight == Spec => []NatTypeOK
<1>1. Spec => []LvTypeOK /\ []HcTypeOK /\ []KwTypeOK
  BY FeedByItself, ConsumerByItself, KeyListByItself, LvTypeCorrect, HcTypeCorrect, KwTypeCorrect, PTL
<1>2. Spec => []MsTypeOK /\ []MlTypeOK
  BY SearchByItself, ListByItself, MsTypeCorrect, MlTypeCorrect, PTL
<1>3. Spec => []VwTypeOK /\ []MtTypeOK
  BY ViewerByItself, TableByItself, VwTypeCorrect, MtTypeCorrect, PTL
<1>4. Spec => []PbTypeOK /\ []RqTypeOK /\ []TpTypeOK
  BY PublishingByItself, RequestsByItself, TemplatesByItself, PbTypeCorrect, RqTypeCorrect, TpTypeCorrect, PTL
<1>5. Spec => []KvTypeOK /\ []ScTypeOK /\ []CtTypeOK
  BY BucketPageByItself, ConfigByItself, ConsumersTabByItself, KvTypeCorrect, ScTypeCorrect, CtTypeCorrect, PTL
<1>6. Spec => []CeTypeOK /\ []CsTypeOK
  BY EditorByItself, SessionByItself, CeTypeCorrect, CsTypeCorrect, PTL
<1>7. Spec => []ObTypeOK /\ []PsTypeOK
  BY ObjectsByItself, SourcesByItself, ObTypeCorrect, PsTypeCorrect, PTL
<1>8. Spec => []PvTypeOK /\ []FwTypeOK
  BY ProtosByThemselves, DirectoriesByThemselves, PvTypeCorrect, FwTypeCorrect, PTL
<1>9. Spec => []VtTypeOK /\ []SkTypeOK
  BY SecretsByThemselves, BucketByItself, VtTypeCorrect, SkTypeCorrect, PTL
<1>10. /\ LvTypeOK /\ HcTypeOK /\ KwTypeOK /\ MsTypeOK /\ MlTypeOK /\ VwTypeOK /\ MtTypeOK
       /\ PbTypeOK /\ RqTypeOK /\ TpTypeOK /\ KvTypeOK /\ ScTypeOK /\ CtTypeOK
       /\ CeTypeOK /\ CsTypeOK /\ ObTypeOK /\ PsTypeOK
       /\ PvTypeOK /\ FwTypeOK /\ VtTypeOK /\ SkTypeOK
       => NatTypeOK
  BY DEF NatTypeOK, WebTypeOK
<1> QED BY <1>1, <1>2, <1>3, <1>4, <1>5, <1>6, <1>7, <1>8, <1>9, <1>10, PTL
=============================================================================
