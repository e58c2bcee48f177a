----------------------------- MODULE ObjectStore -----------------------------
(***************************************************************************)
(* The pages of an object bucket (components/management/objects/ObjectsTab): *)
(* creating the bucket, the list and the preview of its objects, uploading, *)
(* deleting, sealing and deleting the bucket.  Other clients write to the   *)
(* same bucket.  The page is mounted anew for every bucket (router.tsx,     *)
(* KeyedByParam), so one bucket is enough.                                  *)
(***************************************************************************)
EXTENDS Naturals

CONSTANTS
    ObNames,      \* names of objects
    ObLarge,      \* versions too large to preview
    ObMaxPuts,    \* bound on the versions written
    ObMaxPresses  \* bound on the user's steps

ASSUME ObAssumption == ObMaxPuts \in Nat \ {0} /\ ObMaxPresses \in Nat /\ ObLarge \subseteq 1..ObMaxPuts

VARIABLES
    obBucket,    \* the bucket: whether it exists, is sealed, and the version of each object
    obPuts,      \* versions written so far
    obInfo,      \* the cached list of buckets: what it says of this one
    obList,      \* the cached list of objects
    obContent,   \* the cached content of each object and the read of it
    obFloor,     \* history: the version the content must have reached
    obPage, obReadOnly,
    obSelected, obSearch, obDescribed, obForm, obConfirm,
    obAsks,      \* deletions of objects are confirmed first
    obUpload, obAct, obCreate,  \* the calls under way
    obPresses

obServer == <<obBucket, obPuts>>
obCaches == <<obInfo, obList, obContent, obFloor>>
obState == <<obSelected, obSearch, obDescribed, obForm, obConfirm>>
obCalls == <<obUpload, obAct, obCreate>>
obVars == <<obServer, obCaches, obPage, obReadOnly, obState, obAsks, obCalls, obPresses>>

---------------------------------------------------------------------------
\* Objects are listed with their version, 0 when there is none; the selection
\* is the entry of the list as it was when it was clicked.

ObNoBucket == [there |-> FALSE, sealed |-> FALSE, objects |-> [n \in ObNames |-> 0], compressed |-> FALSE]
ObNewBucket == [ObNoBucket EXCEPT !.there = TRUE]
ObNotRead == [n \in ObNames |-> 0]
ObNone == [name |-> "", version |-> 0]
ObNoConfirm == [type |-> "none", name |-> "", typed |-> FALSE]
ObNoForm == [named |-> FALSE, compression |-> FALSE, mode |-> "form"]
ObNoUpload == [name |-> "", described |-> FALSE, version |-> 0, here |-> TRUE, state |-> "none"]
ObNoAct == [type |-> "none", name |-> "", selected |-> "", here |-> TRUE, state |-> "none"]
ObNoEntry == [data |-> 0, stale |-> FALSE, read |-> "idle", served |-> 0]

\* createObjectBucket: the request has no field for the compression the form offers.
ObPayload(form) == [ObNewBucket EXCEPT !.compressed = FALSE]

ObTooLarge(selected) == selected.version \in ObLarge

\* The content the page asks for: none for an object listed as too large.
ObWanted(page, selected) == IF page = "bucket" /\ selected.name # "" /\ ~ObTooLarge(selected) THEN {selected.name} ELSE {}

ObAsk(e) == [e EXCEPT !.read = "asked", !.served = 0]
ObIdle(e) == [e EXCEPT !.read = "idle", !.served = 0]

\* A cached content that is no longer known to be current: what is shown of it
\* is read again, and a read that replaces a content starts over.
ObInvalid(e, wanted) ==
    LET s == [e EXCEPT !.stale = TRUE] IN
    IF wanted /\ (e.data # 0 \/ e.read = "idle") THEN ObAsk(s) ELSE s

\* A content dropped from the cache; the page that shows it asks for it anew.
ObDropped(wanted) == IF wanted THEN ObAsk(ObNoEntry) ELSE ObNoEntry

\* The page and the selection change: a read nobody waits for is aborted, a
\* content that comes into view is read when it is missing, stale or old.
ObViewed(page, selected, old) ==
    LET was == ObWanted(obPage, obSelected)
        is == ObWanted(page, selected)
    IN [n \in ObNames |->
          CASE n \in was \ is -> ObIdle(obContent[n])
            [] n \in is \ was /\ (obContent[n].data = 0 \/ obContent[n].stale \/ old) -> ObAsk(obContent[n])
            [] OTHER -> obContent[n]]

ObView(page, selected) ==
    /\ obPage' = page /\ obSelected' = selected
    /\ \E old \in BOOLEAN : obContent' = ObViewed(page, selected, old)

ObInit ==
    /\ obBucket \in {ObNoBucket} \cup {[ObNewBucket EXCEPT !.objects[n] = 1] : n \in ObNames}
    /\ obPuts = 1 /\ obInfo = ObNoBucket /\ obList = ObNotRead
    /\ obContent = [n \in ObNames |-> ObNoEntry] /\ obFloor = [n \in ObNames |-> 0]
    /\ obPage \in {"list", "new", "bucket"} /\ obReadOnly \in BOOLEAN
    /\ obSelected = ObNone /\ obSearch = {} /\ obDescribed = FALSE /\ obForm = ObNoForm /\ obConfirm = ObNoConfirm
    /\ obAsks \in BOOLEAN
    /\ obUpload = ObNoUpload /\ obAct = ObNoAct /\ obCreate = "none" /\ obPresses = 0

ObUse == obPresses < ObMaxPresses /\ obPresses' = obPresses + 1

---------------------------------------------------------------------------
\* Reads and other clients.

\* useObjectBuckets and useObjects, when the page is mounted and when a call
\* of this page has made them stale.
ObRead ==
    /\ obInfo' = obBucket
    /\ obList' = IF obPage = "bucket" THEN obBucket.objects ELSE obList
    /\ <<obInfo', obList'>> # <<obInfo, obList>>
    /\ UNCHANGED <<obServer, obContent, obFloor, obPage, obReadOnly, obState, obAsks, obCalls, obPresses>>

ObServe(n) ==
    /\ obContent[n].read = "asked"
    /\ obContent' = [obContent EXCEPT ![n] = IF obBucket.objects[n] = 0 THEN ObIdle(@) ELSE [@ EXCEPT !.read = "served", !.served = obBucket.objects[n]]]
    /\ UNCHANGED <<obServer, obInfo, obList, obFloor, obPage, obReadOnly, obState, obAsks, obCalls, obPresses>>

ObContentRead(n) ==
    /\ obContent[n].read = "served"
    /\ obContent' = [obContent EXCEPT ![n] = [ObNoEntry EXCEPT !.data = obContent[n].served]]
    /\ UNCHANGED <<obServer, obInfo, obList, obFloor, obPage, obReadOnly, obState, obAsks, obCalls, obPresses>>

ObReadFails(n) ==
    /\ obContent[n].read # "idle"
    /\ obContent' = [obContent EXCEPT ![n] = ObIdle(@)]
    /\ UNCHANGED <<obServer, obInfo, obList, obFloor, obPage, obReadOnly, obState, obAsks, obCalls, obPresses>>

ObPut(bucket, name) == [bucket EXCEPT !.objects[name] = obPuts + 1]

ObOtherPuts(n) ==
    /\ obPuts < ObMaxPuts /\ obBucket.there /\ ~obBucket.sealed
    /\ obBucket' = ObPut(obBucket, n) /\ obPuts' = obPuts + 1
    /\ UNCHANGED <<obCaches, obPage, obReadOnly, obState, obAsks, obCalls, obPresses>>

ObOtherDeletes(n) ==
    /\ obBucket.objects[n] # 0 /\ ~obBucket.sealed /\ obBucket' = [obBucket EXCEPT !.objects[n] = 0]
    /\ UNCHANGED <<obPuts, obCaches, obPage, obReadOnly, obState, obAsks, obCalls, obPresses>>

---------------------------------------------------------------------------
\* Moving about.  Leaving a page unmounts it; the calls it made go on.

ObMount(page) ==
    /\ ObView(page, ObNone)
    /\ obSearch' = {} /\ obDescribed' = FALSE /\ obForm' = ObNoForm /\ obConfirm' = ObNoConfirm

\* A call of a page that is gone no longer reaches the state of a page.
ObLeft(call, none) == IF call = none THEN none ELSE [call EXCEPT !.here = FALSE]

ObGo ==
    /\ ObUse /\ \E p \in {"list", "new", "bucket"} \ {obPage} : ObMount(p)
    /\ obUpload' = ObLeft(obUpload, ObNoUpload) /\ obAct' = ObLeft(obAct, ObNoAct)
    /\ UNCHANGED <<obServer, obInfo, obList, obFloor, obReadOnly, obAsks, obCreate>>

ObFree == obPage = "bucket" /\ obConfirm = ObNoConfirm

ObSelect ==
    /\ ObUse /\ ObFree
    /\ \E n \in ObNames \ obSearch :
          obList[n] # 0 /\ ObView(obPage, [name |-> n, version |-> obList[n]])
    /\ UNCHANGED <<obServer, obInfo, obList, obFloor, obReadOnly, obSearch, obDescribed, obForm, obConfirm, obAsks, obCalls>>

\* The search hides the names that do not match.
ObSearchFor ==
    /\ ObUse /\ ObFree /\ \E s \in {{}, ObNames} \cup {{n} : n \in ObNames} : s # obSearch /\ obSearch' = s
    /\ UNCHANGED <<obServer, obCaches, obPage, obReadOnly, obSelected, obDescribed, obForm, obConfirm, obAsks, obCalls>>

---------------------------------------------------------------------------
\* Creating the bucket.

ObTypeForm ==
    /\ ObUse /\ obPage = "new" /\ ~obReadOnly
    /\ \E f \in [named : BOOLEAN, compression : BOOLEAN, mode : {"form", "json"}] : f # obForm /\ obForm' = f
    /\ UNCHANGED <<obServer, obCaches, obPage, obReadOnly, obSelected, obSearch, obDescribed, obConfirm, obAsks, obCalls>>

ObCreate ==
    /\ ObUse /\ obPage = "new" /\ ~obReadOnly /\ obCreate = "none" /\ obForm.named
    /\ obCreate' = "sent"
    /\ UNCHANGED <<obServer, obCaches, obPage, obReadOnly, obState, obAsks, obUpload, obAct>>

\* A new bucket is shown wherever the user is by then; a taken name is refused.
ObCreated ==
    /\ obCreate = "sent" /\ obCreate' = "none"
    /\ \/ /\ ~obBucket.there /\ obBucket' = ObPayload(obForm)
          /\ ObMount("bucket")
          /\ obUpload' = ObLeft(obUpload, ObNoUpload) /\ obAct' = ObLeft(obAct, ObNoAct)
       \/ UNCHANGED <<obBucket, obPage, obContent, obState, obUpload, obAct>>
    /\ UNCHANGED <<obPuts, obInfo, obList, obFloor, obReadOnly, obAsks, obPresses>>

---------------------------------------------------------------------------
\* Uploading.  One upload at a time here; the page does not prevent a second.

ObUploadFile ==
    /\ ObUse /\ ObFree /\ ~obReadOnly /\ ~obInfo.sealed /\ obUpload = ObNoUpload
    /\ \E n \in ObNames : obUpload' = [ObNoUpload EXCEPT !.name = n, !.described = obDescribed, !.state = "sent"]
    /\ UNCHANGED <<obServer, obCaches, obPage, obReadOnly, obState, obAsks, obAct, obCreate>>

ObDescribe ==
    /\ ObUse /\ ObFree /\ ~obReadOnly /\ ~obInfo.sealed /\ obSelected = ObNone /\ obDescribed' = ~obDescribed
    /\ UNCHANGED <<obServer, obCaches, obPage, obReadOnly, obSelected, obSearch, obForm, obConfirm, obAsks, obCalls>>

ObUploadDone ==
    /\ obUpload.state = "sent"
    /\ \/ /\ obPuts < ObMaxPuts /\ obBucket.there /\ ~obBucket.sealed
          /\ obBucket' = ObPut(obBucket, obUpload.name) /\ obPuts' = obPuts + 1 /\ obUpload' = [obUpload EXCEPT !.state = "done", !.version = obPuts + 1]
       \/ UNCHANGED obServer /\ obUpload' = ObNoUpload
    /\ UNCHANGED <<obCaches, obPage, obReadOnly, obState, obAsks, obAct, obCreate, obPresses>>

\* Mutant: an upload has only the list read again.
ObListAfterUpload(name) == obContent

\* What the caches hold once an upload has succeeded.
ObAfterUpload(name) ==
    [obContent EXCEPT ![name] = IF @ = ObNoEntry THEN @ ELSE ObInvalid(@, name \in ObWanted(obPage, obSelected))]

\* A late success empties the description typed for the next upload.
ObUploaded ==
    /\ obUpload.state = "done" /\ obUpload' = ObNoUpload
    /\ obContent' = ObAfterUpload(obUpload.name)
    /\ obFloor' = [obFloor EXCEPT ![obUpload.name] = IF obContent[obUpload.name].data = 0 THEN @ ELSE obUpload.version]
    /\ obList' = obBucket.objects /\ obInfo' = obBucket
    /\ obDescribed' = (obDescribed /\ ~obUpload.here)
    /\ UNCHANGED <<obServer, obPage, obReadOnly, obSelected, obSearch, obForm, obConfirm, obAsks, obAct, obCreate, obPresses>>

---------------------------------------------------------------------------
\* Sealing and deleting.

ObPerform(type, name) ==
    obAct' = [type |-> type, name |-> name, selected |-> obSelected.name, here |-> TRUE, state |-> "sent"]

ObRequest ==
    /\ ObUse /\ ObFree /\ ~obReadOnly
    /\ \/ \E n \in ObNames :
             /\ n = obSelected.name \/ (obList[n] # 0 /\ n \notin obSearch)
             /\ IF obAsks THEN obConfirm' = [type |-> "delete-object", name |-> n, typed |-> FALSE] /\ UNCHANGED obAct
                ELSE obAct = ObNoAct /\ ObPerform("delete-object", n) /\ UNCHANGED obConfirm
       \/ /\ obInfo.there /\ ~obInfo.sealed /\ UNCHANGED obAct
          /\ obConfirm' = [type |-> "seal-bucket", name |-> "", typed |-> FALSE]
       \/ obConfirm' = [type |-> "delete-bucket", name |-> "", typed |-> FALSE] /\ UNCHANGED obAct
    /\ UNCHANGED <<obServer, obCaches, obPage, obReadOnly, obSelected, obSearch, obDescribed, obForm, obAsks, obUpload, obCreate>>

ObTypeName ==
    /\ ObUse /\ obConfirm.type \in {"seal-bucket", "delete-bucket"} /\ obConfirm' = [obConfirm EXCEPT !.typed = ~@]
    /\ UNCHANGED <<obServer, obCaches, obPage, obReadOnly, obSelected, obSearch, obDescribed, obForm, obAsks, obCalls>>

ObConfirmAction ==
    /\ ObUse /\ obConfirm # ObNoConfirm /\ (obConfirm.type = "delete-object" \/ obConfirm.typed) /\ obAct = ObNoAct
    /\ ObPerform(obConfirm.type, obConfirm.name)
    /\ UNCHANGED <<obServer, obCaches, obPage, obReadOnly, obState, obAsks, obUpload, obCreate>>

\* Cancel closes the dialog, not the call.
ObCancel ==
    /\ ObUse /\ obConfirm # ObNoConfirm /\ obConfirm' = ObNoConfirm
    /\ UNCHANGED <<obServer, obCaches, obPage, obReadOnly, obSelected, obSearch, obDescribed, obForm, obAsks, obCalls>>

ObActDone ==
    /\ obAct.state = "sent"
    /\ \/ /\ obAct' = [obAct EXCEPT !.state = "done"] /\ obBucket.there
          /\ obBucket' =
                CASE obAct.type = "delete-bucket" -> ObNoBucket
                  [] obAct.type = "seal-bucket" -> [obBucket EXCEPT !.sealed = TRUE]
                  [] OTHER -> [obBucket EXCEPT !.objects[obAct.name] = 0]
          /\ obAct.type = "delete-object" => ~obBucket.sealed
       \/ obAct' = [obAct EXCEPT !.state = "failed"] /\ UNCHANGED obBucket
    /\ UNCHANGED <<obPuts, obCaches, obPage, obReadOnly, obState, obAsks, obUpload, obCreate, obPresses>>

\* Whatever came of it, the dialog on the screen is closed.
ObDialogCloses == obConfirm' = (IF obAct.here THEN ObNoConfirm ELSE obConfirm)

\* The bucket is left from wherever the user is by then.
ObBucketDeleted ==
    /\ obAct.state = "done" /\ obAct.type = "delete-bucket"
    /\ obList' = ObNotRead /\ obInfo' = obBucket
    /\ ObMount("list") /\ obUpload' = ObLeft(obUpload, ObNoUpload) /\ UNCHANGED obFloor

ObBucketSealed ==
    /\ obAct.state = "done" /\ obAct.type = "seal-bucket" /\ obInfo' = obBucket /\ ObDialogCloses
    /\ UNCHANGED <<obList, obContent, obFloor, obPage, obSelected, obSearch, obDescribed, obForm, obUpload>>

\* The object is deselected when it was the selected one when the call was made.
ObObjectDeleted ==
    LET selected == IF obAct.here /\ obAct.selected = obAct.name THEN ObNone ELSE obSelected
        wanted == obAct.name \in ObWanted(obPage, selected)
    IN
    /\ obAct.state = "done" /\ obAct.type = "delete-object" /\ ObDialogCloses
    /\ obContent' = [ObViewed(obPage, selected, FALSE) EXCEPT ![obAct.name] = ObDropped(wanted)]
    /\ obFloor' = [obFloor EXCEPT ![obAct.name] = 0]
    /\ obList' = obBucket.objects /\ obSelected' = selected
    /\ UNCHANGED <<obInfo, obPage, obSearch, obDescribed, obForm, obUpload>>

ObActFailed ==
    /\ obAct.state = "failed" /\ ObDialogCloses
    /\ UNCHANGED <<obCaches, obPage, obSelected, obSearch, obDescribed, obForm, obUpload>>

ObActAnswered ==
    /\ ObBucketDeleted \/ ObBucketSealed \/ ObObjectDeleted \/ ObActFailed
    /\ obAct' = ObNoAct
    /\ UNCHANGED <<obServer, obReadOnly, obAsks, obCreate, obPresses>>

---------------------------------------------------------------------------
ObNext ==
    \/ ObRead \/ ObGo \/ ObSelect \/ ObSearchFor \/ ObTypeForm \/ ObCreate \/ ObCreated
    \/ \E n \in ObNames : ObServe(n) \/ ObContentRead(n) \/ ObReadFails(n) \/ ObOtherPuts(n) \/ ObOtherDeletes(n)
    \/ ObUploadFile \/ ObDescribe \/ ObUploadDone \/ ObUploaded
    \/ ObRequest \/ ObTypeName \/ ObConfirmAction \/ ObCancel \/ ObActDone \/ ObActAnswered

ObSpec == ObInit /\ [][ObNext]_obVars

---------------------------------------------------------------------------
\* The state is of its type.
ObTypeOK ==
    /\ obBucket \in [there : BOOLEAN, sealed : BOOLEAN, objects : [ObNames -> 0..ObMaxPuts], compressed : BOOLEAN]
    /\ obPuts \in 1..ObMaxPuts /\ obList \in [ObNames -> 0..ObMaxPuts]
    /\ obContent \in [ObNames -> [data : 0..ObMaxPuts, stale : BOOLEAN, read : {"idle", "asked", "served"}, served : 0..ObMaxPuts]]
    /\ obPage \in {"list", "new", "bucket"}
    /\ obSelected.name \in ObNames \cup {""} /\ obAct.name \in ObNames \cup {""}
    /\ obPage # "bucket" => obSelected = ObNone /\ obConfirm = ObNoConfirm

\* A preview that was on the page when an object of its name was uploaded is
\* replaced: once no read of it runs and the cache takes it for current, it is
\* no older than that upload, whatever reads were under way meanwhile.
ObPreviewReplaced ==
    \A n \in ObNames :
        LET e == obContent[n] IN
        (e.data # 0 /\ ~e.stale /\ e.read = "idle") => e.data >= obFloor[n]
=============================================================================
