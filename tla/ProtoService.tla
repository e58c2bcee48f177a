---------------------------- MODULE ProtoService ----------------------------
(***************************************************************************)
(* One proto source of the server (internal/services/proto/proto): its     *)
(* document, its stored schemas, the registry cache in front of them       *)
(* (services/proto/registry), the directory watch of a local source and a  *)
(* live session's decoder.  Requests, the callback of the file watcher and *)
(* the build in the background run as goroutines.  A compile holds the     *)
(* source's lock from reading the files until its result is announced;     *)
(* everything else reads the document, changes its copy and writes it back *)
(* with no lock.                                                           *)
(*                                                                         *)
(* A transaction of the store is one step.  A schema is the revision it is *)
(* stored under, the version of the files and the settings it was compiled *)
(* from.  Sources share nothing but the announcement, so there is one.     *)
(***************************************************************************)
EXTENDS Integers, FiniteSets

CONSTANTS
    PvWorkers,    \* goroutines at a time
    PvKeep,       \* maxStoredRevisions
    PvMaxVersion, \* bound on the versions of the files, or of what is uploaded
    PvMaxOps      \* bound on the requests

ASSUME PvAssumption == PvWorkers \subseteq Nat \ {0} /\ PvKeep \in Nat \ {0} /\ PvMaxVersion \in Nat \ {0} /\ PvMaxOps \in Nat

VARIABLES
    pvType,    \* local, git or upload
    pvDoc,     \* the document of the source
    pvSchemas, \* the stored schemas
    pvAge,     \* how many schemas were stored since that of each revision
    pvFiles,   \* revisions whose files are stored
    pvCache,   \* snapshots in the registry cache
    pvNow,     \* the version of the files: in the directory, or the head of the branch
    pvEntry,   \* the file watcher has an entry for the source
    pvTimer,   \* its debounce timer is armed
    pvLock,    \* the goroutine that holds the compile lock, or 0
    pvWork,    \* pvWork[w]: what goroutine w does
    pvLive,    \* a session's decoder: dirty, its snapshot, the schema it is parsing
    pvOps,
    pvOwed,    \* history: the files changed under a watch and were not read since
    pvLost,    \* history: a write put back what another one had changed
    pvCrossed, \* history: a watch was set by a request that others had overtaken
    pvRaced    \* history: revisions cached from a schema that was replaced meanwhile

pvStore == <<pvDoc, pvSchemas, pvAge, pvFiles>>
pvWatch == <<pvEntry, pvTimer, pvOwed, pvCrossed>>
pvReg == <<pvCache, pvRaced>>
pvVars == <<pvType, pvStore, pvReg, pvNow, pvWatch, pvLock, pvWork, pvLive, pvOps, pvLost>>

---------------------------------------------------------------------------
PvNoRev == -1
PvLocalRevision == 0
PvRevs == {PvLocalRevision} \cup 1..PvMaxVersion
PvNoSchema == [rev |-> PvNoRev, of |-> 0, set |-> 0]
PvNoRef == [name |-> "", rev |-> PvNoRev]

\* ProtoSourceNew: enabled, nothing selected, nothing compiled.
PvNew == [there |-> TRUE, enabled |-> TRUE, watcher |-> FALSE, set |-> 0, ref |-> PvNoRef, active |-> PvNoRev, ok |-> TRUE]
PvGone == [PvNew EXCEPT !.there = FALSE]

PvIdle == [op |-> "none", pc |-> "idle", base |-> PvGone, doc |-> PvGone, ref |-> PvNoRef, of |-> 0, set |-> 0, ok |-> TRUE]
PvNoDecoder == [dirty |-> FALSE, snap |-> PvNoSchema, load |-> PvNoSchema]

\* Mutant: a local source has the revision recorded in its document.
PvActiveRecorded(doc) ==
    IF ~doc.there \/ ~doc.enabled THEN PvNoRev ELSE IF pvType = "git" THEN doc.ref.rev ELSE doc.active

\* activeRevision, and no revision for a source that is deleted or disabled.
PvActive(doc) ==
    IF ~doc.there \/ ~doc.enabled THEN PvNoRev
    ELSE CASE pvType = "local" -> PvLocalRevision
           [] pvType = "upload" -> doc.active
           [] pvType = "git" -> doc.ref.rev

\* GetBySourceRevision
PvAt(schemas, rev) ==
    LET found == {s \in schemas : s.rev = rev}
    IN  IF found = {} THEN PvNoSchema ELSE CHOOSE s \in found : TRUE
PvStored(rev) == PvAt(pvSchemas, rev)

PvCached(rev) == {c \in pvCache : c.rev = rev}

\* Save replaces the schema of the same revision.
PvSaved(s) == {t \in pvSchemas : t.rev # s.rev} \cup {s}

\* The PvKeep schemas that were stored last (pruneRevisions sorts by CompiledAt).
PvYoung ==
    {s.rev : s \in {t \in pvSchemas : Cardinality({u \in pvSchemas : pvAge[u.rev] < pvAge[t.rev]}) < PvKeep}}

\* Mutant: the active schema is pruned like any other.
PvKeptNewest(rev) == PvYoung \cup {rev}

\* pruneRevisions: the newest stay, and the one saved and the active one.
PvKept(rev) == PvYoung \cup {rev} \cup (IF pvDoc.there THEN {pvDoc.active} ELSE {})

\* What a ref resolves to: the branch to its head, the tag to the first commit.
PvResolved(name) == [name |-> name, rev |-> IF name = "main" THEN pvNow ELSE 1]

\* A source just created, or one whose schema was built before the server started.
PvInit ==
    /\ pvType \in {"local", "git", "upload"} /\ pvNow = 1
    /\ \/ pvDoc = PvNew /\ pvSchemas = {} /\ pvEntry = FALSE
       \/ LET rev == IF pvType = "local" THEN PvLocalRevision ELSE 1
          IN  /\ pvDoc = [PvNew EXCEPT !.active = rev, !.watcher = (pvType = "local"),
                              !.ref = IF pvType = "git" THEN PvResolved("main") ELSE PvNoRef]
              /\ pvSchemas = {[rev |-> rev, of |-> 1, set |-> 0]}
              /\ pvEntry = (pvType = "local")
    /\ pvAge = [r \in PvRevs |-> 0] /\ pvFiles = {s.rev : s \in pvSchemas} \ {PvLocalRevision}
    /\ pvCache = {} /\ pvTimer = FALSE /\ pvLock = 0
    /\ pvWork = [w \in PvWorkers |-> PvIdle] /\ pvLive = PvNoDecoder /\ pvOps = 0
    /\ pvOwed = FALSE /\ pvLost = FALSE /\ pvCrossed = FALSE /\ pvRaced = {}

---------------------------------------------------------------------------
PvGoto(w, work) == pvWork' = [pvWork EXCEPT ![w] = work]
PvStep(w, place) == PvGoto(w, [pvWork[w] EXCEPT !.pc = place])

\* The goroutine is done; the compile lock goes with it.
PvDone(w) == PvGoto(w, PvIdle) /\ pvLock' = IF pvLock = w THEN 0 ELSE pvLock

\* Goroutines are alike: the next one is the first that is free.
PvFree(w) == pvWork[w] = PvIdle /\ \A v \in PvWorkers : v < w => pvWork[v] # PvIdle

\* A request reads the document first; without one it fails.
PvAsked(w, work) ==
    /\ PvFree(w) /\ pvDoc.there /\ pvOps < PvMaxOps
    /\ pvOps' = pvOps + 1
    /\ PvGoto(w, work)
    /\ UNCHANGED <<pvType, pvStore, pvReg, pvNow, pvWatch, pvLock, pvLive, pvLost>>

\* UpdateSource: the settings of the compile stand for what a client may set.
PvUpdateSource(w) ==
    PvAsked(w, [PvIdle EXCEPT !.op = "update", !.pc = "put", !.base = pvDoc, !.doc = [pvDoc EXCEPT !.set = 1 - @]])

PvSetEnabled(w) ==
    \E b \in BOOLEAN : PvAsked(w, [PvIdle EXCEPT !.op = "enable", !.pc = "put", !.base = pvDoc, !.doc = [pvDoc EXCEPT !.enabled = b]])

PvSetWatcher(w) ==
    /\ pvType = "local"
    /\ \E b \in BOOLEAN : PvAsked(w, [PvIdle EXCEPT !.op = "watcher", !.pc = "put", !.base = pvDoc, !.doc = [pvDoc EXCEPT !.watcher = b]])

\* SelectRef resolves the ref before it takes the lock.
PvSelectRef(w) ==
    /\ pvType = "git"
    /\ \E n \in {"main", "v1"} : PvAsked(w, [PvIdle EXCEPT !.op = "select", !.pc = "lock", !.ref = PvResolved(n)])

\* UploadSchema; the revision is a hash of the content, so the content itself.
PvUploadSchema(w) ==
    /\ pvType = "upload"
    /\ \E c \in 1..PvMaxVersion :
        PvAsked(w, [PvIdle EXCEPT !.op = "upload", !.pc = "lock", !.ref.rev = c, !.of = c, !.set = pvDoc.set])

\* RefreshSource, of the ref selected, the uploaded files or the directory.
PvRefreshSource(w) ==
    LET work == [PvIdle EXCEPT !.op = "refresh", !.pc = "lock"] IN
    CASE pvType = "git" -> pvDoc.ref.name # "" /\ PvAsked(w, [work EXCEPT !.ref = PvResolved(pvDoc.ref.name)])
      [] pvType = "upload" -> pvDoc.active # PvNoRev /\ PvAsked(w, [work EXCEPT !.ref.rev = pvDoc.active, !.of = pvDoc.active, !.set = pvDoc.set])
      [] pvType = "local" -> PvAsked(w, [work EXCEPT !.ref.rev = PvLocalRevision, !.set = pvDoc.set])

\* DeleteSource: the document goes first.
PvDeleteSource(w) ==
    /\ PvFree(w) /\ pvDoc.there /\ pvOps < PvMaxOps
    /\ pvOps' = pvOps + 1
    /\ pvDoc' = PvGone
    /\ PvGoto(w, [PvIdle EXCEPT !.op = "delete", !.pc = "watch"])
    /\ UNCHANGED <<pvType, pvSchemas, pvAge, pvFiles, pvReg, pvNow, pvWatch, pvLock, pvLive, pvLost>>

\* The descriptors and the files of the source are deleted.
PvDrop(w) ==
    /\ pvWork[w].pc = "drop"
    /\ pvSchemas' = {} /\ pvFiles' = {}
    /\ PvStep(w, "inv")
    /\ UNCHANGED <<pvType, pvDoc, pvAge, pvReg, pvNow, pvWatch, pvLock, pvLive, pvOps, pvLost>>

---------------------------------------------------------------------------
\* Where a goroutine goes on after it wrote the document, and whether that
\* ends its hold of the compile lock.
PvAfterPut(w) ==
    LET work == pvWork[w]
        next == CASE work.op = "update" -> "done"
                  [] work.op = "watcher" -> "watch"
                  [] work.op = "enable" -> IF pvType = "local" THEN "watch" ELSE "inv"
                  [] OTHER -> IF ~work.ok THEN "done"
                              ELSE IF work.pc \in {"patch", "patchPut"} THEN "inv"
                              ELSE IF pvType = "git" THEN "patch"
                              ELSE IF work.op = "upload" THEN "inv"
                              ELSE "load"
    IN  /\ pvLock' = IF pvLock = w /\ (next = "done" \/ work.op = "upload") THEN 0 ELSE pvLock
        /\ PvGoto(w, CASE next = "done" -> PvIdle
                       [] next \in {"inv", "load"} -> [PvIdle EXCEPT !.op = work.op, !.pc = next]
                       [] next = "watch" -> [work EXCEPT !.pc = next, !.base = PvGone]
                       [] next = "patch" -> [work EXCEPT !.pc = next, !.base = PvGone, !.doc = PvGone])

\* Mutant: a write does not look for the document it replaces.
PvPutOver(w) ==
    /\ pvWork[w].pc \in {"put", "recordPut", "patchPut"}
    /\ pvDoc' = pvWork[w].doc /\ pvLost' = (pvLost \/ pvDoc # pvWork[w].base)
    /\ PvAfterPut(w)
    /\ UNCHANGED <<pvType, pvSchemas, pvAge, pvFiles, pvReg, pvNow, pvWatch, pvLive, pvOps>>

\* Update writes the whole document; one that was deleted is not found, which
\* fails a request but not a compile (patchSource).
PvPut(w) ==
    /\ pvWork[w].pc \in {"put", "recordPut", "patchPut"}
    /\ IF pvDoc.there
       THEN /\ pvDoc' = pvWork[w].doc /\ pvLost' = (pvLost \/ pvDoc # pvWork[w].base)
            /\ PvAfterPut(w)
       ELSE /\ UNCHANGED <<pvDoc, pvLost>>
            /\ IF pvWork[w].pc = "put" THEN PvDone(w) ELSE PvAfterPut(w)
    /\ UNCHANGED <<pvType, pvSchemas, pvAge, pvFiles, pvReg, pvNow, pvWatch, pvLive, pvOps>>

\* recordCompile and switchRef read the document anew.
PvReread(w, place, doc) ==
    IF pvDoc.there
    THEN PvGoto(w, [pvWork[w] EXCEPT !.pc = place, !.base = pvDoc, !.doc = doc]) /\ UNCHANGED pvLock
    ELSE PvAfterPut(w)

PvRecord(w) ==
    /\ pvWork[w].pc = "record"
    /\ LET work == pvWork[w]
           active == IF work.ok /\ pvType # "git" THEN work.ref.rev ELSE pvDoc.active
       IN  PvReread(w, "recordPut", [pvDoc EXCEPT !.ok = work.ok, !.active = active])
    /\ UNCHANGED <<pvType, pvStore, pvReg, pvNow, pvWatch, pvLive, pvOps, pvLost>>

PvPatch(w) ==
    /\ pvWork[w].pc = "patch"
    /\ PvReread(w, "patchPut", [pvDoc EXCEPT !.ref = pvWork[w].ref, !.active = pvWork[w].ref.rev])
    /\ UNCHANGED <<pvType, pvStore, pvReg, pvNow, pvWatch, pvLive, pvOps, pvLost>>

---------------------------------------------------------------------------
\* The watch of a local source.  A new entry, or none, forgets the timer.
PvSetWatch(on) == pvEntry' = on /\ pvTimer' = FALSE /\ pvOwed' = FALSE

\* What a request does to the watch follows from the copy it wrote; SetWatcher
\* goes on with the build in the background.
PvRewatch(w) ==
    /\ pvWork[w].pc = "watch"
    /\ LET work == pvWork[w]
           on == work.op # "delete" /\ work.doc.watcher /\ (work.op = "watcher" \/ work.doc.enabled)
           off == work.op = "delete" \/ (work.op = "watcher" /\ ~work.doc.watcher) \/ (work.op = "enable" /\ ~work.doc.enabled)
       IN  /\ IF on \/ (off /\ pvEntry) THEN PvSetWatch(on) ELSE UNCHANGED <<pvEntry, pvTimer, pvOwed>>
           /\ pvCrossed' = (pvCrossed \/ (work.op # "delete"
                  /\ (~pvDoc.there \/ pvDoc.watcher # work.doc.watcher \/ pvDoc.enabled # work.doc.enabled)))
           /\ CASE work.op = "delete" -> PvStep(w, "drop")
                [] work.op = "enable" -> PvGoto(w, [work EXCEPT !.pc = "inv", !.doc = PvGone])
                [] work.op = "watcher" -> PvGoto(w, IF on /\ work.doc.enabled THEN [PvIdle EXCEPT !.op = "warm", !.pc = "warm"] ELSE PvIdle)
    /\ UNCHANGED <<pvType, pvStore, pvReg, pvNow, pvLock, pvLive, pvOps, pvLost>>

PvLocalWork(op) == [PvIdle EXCEPT !.op = op, !.pc = "lock", !.ref.rev = PvLocalRevision, !.set = pvDoc.set]

\* warmUp refreshes a source that has no schema.
PvWarmUp(w) ==
    /\ pvWork[w].pc = "warm"
    /\ PvGoto(w, IF PvStored(PvLocalRevision) # PvNoSchema \/ ~pvDoc.there THEN PvIdle ELSE PvLocalWork("warm"))
    /\ UNCHANGED <<pvType, pvStore, pvReg, pvNow, pvWatch, pvLock, pvLive, pvOps, pvLost>>

\* The timer fires; its callback runs whatever becomes of the watch.
PvFire(w) ==
    /\ pvTimer /\ PvFree(w)
    /\ pvTimer' = FALSE
    /\ PvGoto(w, [PvIdle EXCEPT !.op = "callback", !.pc = "check"])
    /\ UNCHANGED <<pvType, pvStore, pvReg, pvNow, pvEntry, pvOwed, pvCrossed, pvLock, pvLive, pvOps, pvLost>>

\* onFileWatcherChange reads the document before it waits for the lock.
PvCheck(w) ==
    /\ pvWork[w].pc = "check"
    /\ PvGoto(w, IF pvDoc.there /\ pvDoc.enabled /\ pvDoc.watcher THEN PvLocalWork("callback") ELSE PvIdle)
    /\ UNCHANGED <<pvType, pvStore, pvReg, pvNow, pvWatch, pvLock, pvLive, pvOps, pvLost>>

\* The files change; the watcher arms the timer.  A source that is disabled may
\* be watched, but its callback reads nothing.
PvChange ==
    /\ pvType # "upload" /\ pvNow < PvMaxVersion
    /\ pvNow' = pvNow + 1
    /\ pvTimer' = (pvTimer \/ pvEntry) /\ pvOwed' = (pvOwed \/ (pvEntry /\ pvDoc.there /\ pvDoc.enabled /\ pvDoc.watcher))
    /\ UNCHANGED <<pvType, pvStore, pvReg, pvEntry, pvCrossed, pvLock, pvWork, pvLive, pvOps, pvLost>>

---------------------------------------------------------------------------
\* The compile, under the lock.

PvLeave(w) == PvGoto(w, PvIdle) /\ UNCHANGED pvLock

\* The files are read and compiled, or one of both fails.
PvCompiled(w, work) ==
    /\ pvLock' = w
    /\ \E ok \in BOOLEAN : PvGoto(w, [work EXCEPT !.pc = IF ok THEN "save" ELSE "record", !.ok = ok])

\* Mutant: the directory is compiled without the lock.
PvLockNot(w) ==
    /\ pvWork[w].pc = "lock" /\ (pvType = "local" \/ pvLock = 0)
    /\ CASE pvType = "local" ->
              pvOwed' = FALSE /\ PvCompiled(w, [pvWork[w] EXCEPT !.of = pvNow])
         [] pvType = "upload" ->
              /\ UNCHANGED pvOwed
              /\ IF pvWork[w].op = "refresh" /\ pvWork[w].ref.rev \notin pvFiles THEN PvLeave(w) ELSE PvCompiled(w, pvWork[w])
         [] pvType = "git" ->
              /\ UNCHANGED pvOwed
              /\ IF ~pvDoc.there \/ (pvWork[w].op = "refresh" /\ pvDoc.ref.name # pvWork[w].ref.name) THEN PvLeave(w)
                 ELSE pvLock' = w /\ PvGoto(w, [pvWork[w] EXCEPT !.pc = "look", !.set = pvDoc.set])
    /\ UNCHANGED <<pvType, pvStore, pvReg, pvNow, pvEntry, pvTimer, pvCrossed, pvLive, pvOps, pvLost>>

\* The goroutine gets the lock.  A directory is read and compiled; uploaded
\* files are compiled if they are still there; switchRef reads the document and
\* stops if the source went, or the ref it refreshes is no longer selected.
PvGetLock(w) ==
    /\ pvWork[w].pc = "lock" /\ pvLock = 0
    /\ CASE pvType = "local" ->
              pvOwed' = FALSE /\ PvCompiled(w, [pvWork[w] EXCEPT !.of = pvNow])
         [] pvType = "upload" ->
              /\ UNCHANGED pvOwed
              /\ IF pvWork[w].op = "refresh" /\ pvWork[w].ref.rev \notin pvFiles THEN PvLeave(w) ELSE PvCompiled(w, pvWork[w])
         [] pvType = "git" ->
              /\ UNCHANGED pvOwed
              /\ IF ~pvDoc.there \/ (pvWork[w].op = "refresh" /\ pvDoc.ref.name # pvWork[w].ref.name) THEN PvLeave(w)
                 ELSE pvLock' = w /\ PvGoto(w, [pvWork[w] EXCEPT !.pc = "look", !.set = pvDoc.set])
    /\ UNCHANGED <<pvType, pvStore, pvReg, pvNow, pvEntry, pvTimer, pvCrossed, pvLive, pvOps, pvLost>>

\* switchRef takes the stored schema of the revision; a refresh only one of the
\* same settings.  Otherwise it fetches, unless it has the files, and compiles.
PvLook(w) ==
    /\ pvWork[w].pc = "look"
    /\ LET work == pvWork[w]
           d == PvStored(work.ref.rev)
       IN  IF d # PvNoSchema /\ (work.op = "refresh" => d.set = work.set)
           THEN PvStep(w, "patch") /\ UNCHANGED pvLock
           ELSE PvCompiled(w, [work EXCEPT !.of = work.ref.rev])
    /\ UNCHANGED <<pvType, pvStore, pvReg, pvNow, pvWatch, pvLive, pvOps, pvLost>>

\* saveSchema: the schema is stored,
PvSave(w) ==
    /\ pvWork[w].pc = "save"
    /\ pvSchemas' = PvSaved([rev |-> pvWork[w].ref.rev, of |-> pvWork[w].of, set |-> pvWork[w].set])
    /\ pvAge' = [r \in PvRevs |-> IF r = pvWork[w].ref.rev THEN 0 ELSE pvAge[r] + 1]
    /\ pvFiles' = IF pvType = "local" THEN pvFiles ELSE pvFiles \cup {pvWork[w].ref.rev}
    /\ PvStep(w, "saved")
    /\ UNCHANGED <<pvType, pvDoc, pvReg, pvNow, pvWatch, pvLock, pvLive, pvOps, pvLost>>

\* Mutant: only the schemas that are pruned leave the cache.
PvInvalidateNot(w) ==
    /\ pvWork[w].pc = "saved"
    /\ PvStep(w, IF Cardinality(pvSchemas) > PvKeep THEN "prune" ELSE "record")
    /\ UNCHANGED <<pvType, pvStore, pvReg, pvNow, pvWatch, pvLock, pvLive, pvOps, pvLost>>

\* its snapshot leaves the cache,
PvInvalidate(w) ==
    /\ pvWork[w].pc = "saved"
    /\ pvCache' = pvCache \ PvCached(pvWork[w].ref.rev) /\ pvRaced' = pvRaced \ {pvWork[w].ref.rev}
    /\ PvStep(w, IF Cardinality(pvSchemas) > PvKeep THEN "prune" ELSE "record")
    /\ UNCHANGED <<pvType, pvStore, pvNow, pvWatch, pvLock, pvLive, pvOps, pvLost>>

\* and the oldest are pruned, with their files and snapshots.
PvPrune(w) ==
    /\ pvWork[w].pc = "prune"
    /\ LET keep == PvKept(pvWork[w].ref.rev)
       IN  /\ pvSchemas' = {s \in pvSchemas : s.rev \in keep}
           /\ pvFiles' = pvFiles \cap keep
           /\ pvCache' = {c \in pvCache : c.rev \in keep} /\ pvRaced' = pvRaced \cap keep
    /\ PvStep(w, "record")
    /\ UNCHANGED <<pvType, pvDoc, pvAge, pvNow, pvWatch, pvLock, pvLive, pvOps, pvLost>>

---------------------------------------------------------------------------
\* The registry cache and those who read it.

\* GetOrBuild stores what it parsed, whatever was invalidated meanwhile.
PvCacheWith(s) ==
    /\ pvCache' = (pvCache \ PvCached(s.rev)) \cup {s}
    /\ pvRaced' = IF s = PvStored(s.rev) THEN pvRaced \ {s.rev} ELSE pvRaced \cup {s.rev}

\* InvalidateSource
PvInvalidateSource(w) ==
    /\ pvWork[w].pc = "inv"
    /\ pvCache' = {} /\ pvRaced' = {}
    /\ PvStep(w, "load")
    /\ UNCHANGED <<pvType, pvStore, pvNow, pvWatch, pvLock, pvLive, pvOps, pvLost>>

\* notifyReload looks at the active snapshots for conflicts, which builds the
\* one of this source unless it is cached;
PvLoad(w) ==
    /\ pvWork[w].pc = "load"
    /\ LET rev == PvActive(pvDoc)
           d == PvStored(rev)
       IN  IF d # PvNoSchema /\ PvCached(rev) = {}
           THEN PvGoto(w, [pvWork[w] EXCEPT !.pc = "insert", !.ref.rev = rev, !.of = d.of, !.set = d.set])
           ELSE PvStep(w, "tell")
    /\ UNCHANGED <<pvType, pvStore, pvReg, pvNow, pvWatch, pvLock, pvLive, pvOps, pvLost>>

PvInsert(w) ==
    /\ pvWork[w].pc = "insert"
    /\ PvCacheWith([rev |-> pvWork[w].ref.rev, of |-> pvWork[w].of, set |-> pvWork[w].set])
    /\ PvGoto(w, [PvIdle EXCEPT !.op = pvWork[w].op, !.pc = "tell"])
    /\ UNCHANGED <<pvType, pvStore, pvNow, pvWatch, pvLock, pvLive, pvOps, pvLost>>

\* then it marks the decoders, and the goroutine ends.
PvTell(w) ==
    /\ pvWork[w].pc = "tell"
    /\ pvLive' = [pvLive EXCEPT !.dirty = TRUE]
    /\ PvDone(w)
    /\ UNCHANGED <<pvType, pvStore, pvReg, pvNow, pvWatch, pvOps, pvLost>>

\* Reset and Init of a dirty decoder, at the next message.
PvReset ==
    /\ pvLive.dirty /\ pvLive.load = PvNoSchema
    /\ pvLive' = PvNoDecoder
    /\ UNCHANGED <<pvType, pvStore, pvReg, pvNow, pvWatch, pvLock, pvWork, pvOps, pvLost>>

\* snapshotFor: a message resolves the snapshot the session keeps.
PvResolve ==
    /\ ~pvLive.dirty /\ pvLive.snap = PvNoSchema /\ pvLive.load = PvNoSchema
    /\ LET rev == PvActive(pvDoc) IN
       \/ \E c \in PvCached(rev) : pvLive' = [pvLive EXCEPT !.snap = c]
       \/ PvCached(rev) = {} /\ PvStored(rev) # PvNoSchema /\ pvLive' = [pvLive EXCEPT !.load = PvStored(rev)]
    /\ UNCHANGED <<pvType, pvStore, pvReg, pvNow, pvWatch, pvLock, pvWork, pvOps, pvLost>>

PvFill ==
    /\ pvLive.load # PvNoSchema
    /\ pvLive' = [pvLive EXCEPT !.snap = pvLive.load, !.load = PvNoSchema]
    /\ PvCacheWith(pvLive.load)
    /\ UNCHANGED <<pvType, pvStore, pvNow, pvWatch, pvLock, pvWork, pvOps, pvLost>>

PvRequest(w) ==
    PvUpdateSource(w) \/ PvSetEnabled(w) \/ PvSetWatcher(w) \/ PvSelectRef(w) \/ PvUploadSchema(w)
    \/ PvRefreshSource(w) \/ PvDeleteSource(w)
PvGo(w) ==
    PvDrop(w) \/ PvPut(w) \/ PvRecord(w) \/ PvPatch(w) \/ PvRewatch(w) \/ PvWarmUp(w) \/ PvFire(w) \/ PvCheck(w)
    \/ PvGetLock(w) \/ PvLook(w) \/ PvSave(w) \/ PvInvalidate(w) \/ PvPrune(w)
    \/ PvInvalidateSource(w) \/ PvLoad(w) \/ PvInsert(w) \/ PvTell(w)

PvNext == (\E w \in PvWorkers : PvRequest(w) \/ PvGo(w)) \/ PvChange \/ PvReset \/ PvResolve \/ PvFill

\* A source by itself.
PvSpec == PvInit /\ [][PvNext]_pvVars

---------------------------------------------------------------------------
PvSchema == [rev : {PvNoRev} \cup PvRevs, of : 0..PvMaxVersion, set : {0, 1}]
PvRefs == [name : {"", "main", "v1"}, rev : {PvNoRev} \cup PvRevs]
PvDocs == [there : BOOLEAN, enabled : BOOLEAN, watcher : BOOLEAN, set : {0, 1}, ref : PvRefs,
           active : {PvNoRev} \cup PvRevs, ok : BOOLEAN]
PvWork ==
    [op : {"none", "update", "enable", "watcher", "select", "upload", "refresh", "delete", "warm", "callback"},
     pc : {"idle", "put", "lock", "watch", "drop", "inv", "load", "insert", "tell", "warm", "check", "look",
           "save", "saved", "prune", "record", "recordPut", "patch", "patchPut"},
     base : PvDocs, doc : PvDocs, ref : PvRefs, of : 0..PvMaxVersion, set : {0, 1}, ok : BOOLEAN]

\* Every variable has its type; a revision is stored once; the lock is held by
\* a goroutine that works.
PvTypeOK ==
    /\ pvType \in {"local", "git", "upload"} /\ pvDoc \in PvDocs
    /\ pvSchemas \subseteq PvSchema /\ pvAge \in [PvRevs -> Nat]
    /\ \A s, t \in pvSchemas : s.rev = t.rev => s = t
    /\ pvFiles \subseteq 1..PvMaxVersion /\ pvCache \subseteq PvSchema
    /\ pvNow \in 1..PvMaxVersion /\ pvEntry \in BOOLEAN /\ pvTimer \in BOOLEAN
    /\ pvLock \in {0} \cup {w \in PvWorkers : pvWork[w] # PvIdle}
    /\ pvWork \in [PvWorkers -> PvWork]
    /\ pvLive \in [dirty : BOOLEAN, snap : PvSchema, load : PvSchema]
    /\ pvOps \in 0..PvMaxOps /\ {pvOwed, pvLost, pvCrossed} \subseteq BOOLEAN
    /\ pvRaced \subseteq PvRevs

PvBusy(places) == \E w \in PvWorkers : pvWork[w].pc \in places
PvSettled == (\A w \in PvWorkers : pvWork[w] = PvIdle) /\ ~pvTimer /\ ~pvLive.dirty /\ pvLive.load = PvNoSchema

\* A cached snapshot is the stored schema of its revision, unless the schema
\* was just saved or deleted and its invalidation is about to come, or it was
\* replaced while the snapshot was parsed.
PvCacheTrue ==
    \A c \in pvCache :
        \/ c = PvStored(c.rev) \/ c.rev \in pvRaced
        \/ \E w \in PvWorkers : pvWork[w].pc = "saved" /\ pvWork[w].ref.rev = c.rev
        \/ \E w \in PvWorkers : pvWork[w].pc = "inv" /\ pvWork[w].op = "delete"

\* When nothing is under way, a session decodes with the stored schema of the
\* revision that is active, unless a cached snapshot was overtaken or a write
\* of the document put an older selection back.
PvDecoderTrue ==
    (PvSettled /\ pvRaced = {} /\ ~pvLost /\ PvActive(pvDoc) # PvNoRev /\ pvLive.snap # PvNoSchema)
        => pvLive.snap = PvStored(PvActive(pvDoc))

\* The selected revision of a source has a stored schema, at every moment.
PvActiveStored ==
    (pvType # "local" /\ ~pvLost /\ PvActive(pvDoc) # PvNoRev) => PvStored(PvActive(pvDoc)) # PvNoSchema

\* What the registry serves is what is stored: PvCacheTrue, PvDecoderTrue,
\* PvActiveStored.
PvSchemasServed == PvCacheTrue /\ PvDecoderTrue /\ PvActiveStored

\* When nothing is under way, an enabled source whose watcher is on is watched,
\* and none is watched whose watcher is off or that was deleted, unless requests
\* overtook each other.
PvWatchTrue ==
    (pvType = "local" /\ PvSettled /\ ~pvLost /\ ~pvCrossed) =>
        /\ pvDoc.there /\ pvDoc.enabled /\ pvDoc.watcher => pvEntry
        /\ pvEntry => pvDoc.there /\ pvDoc.watcher

\* A change of the files of an enabled, watched source is read later: the timer runs, or
\* a goroutine is about to read them, or the watch is about to end.
PvChangePending ==
    pvOwed => pvTimer \/ PvBusy({"check", "lock", "watch"}) \/ pvLost \/ pvCrossed

\* A stored schema of a directory is never replaced by one of older files
\* (locks.go), and a deleted source stays deleted.
PvForwardStep ==
    /\ LET before == PvStored(PvLocalRevision)
           after == PvAt(pvSchemas', PvLocalRevision)
       IN  before # PvNoSchema /\ after # PvNoSchema => after.of >= before.of
    /\ ~pvDoc.there => ~pvDoc'.there
=============================================================================
