----------------------------- MODULE FileWatcher -----------------------------
(***************************************************************************)
(* The watcher of directories (internal/services/filewatcher): each source *)
(* that is watched has an entry with a debounce timer, and the directories *)
(* under its root are watched one by one through fsnotify, which is        *)
(* external: it queues an event for a change in a directory it watches.    *)
(* Requests and the loop that handles the events take turns by a lock; the *)
(* directories change whenever they like, also while the lock is held.     *)
(*                                                                         *)
(* The roots stay.  A directory that appears may hold proto files already. *)
(***************************************************************************)
EXTENDS Integers, Sequences, FiniteSets, Functions

CONSTANTS
    FwSources,    \* the local sources
    FwDirs,       \* every directory there may be
    FwParent,     \* its parent, for those that are below another
    FwRoot,       \* FwRoot[s]: the directory of source s
    FwMaxChanges, \* bound on the changes of directories and files
    FwMaxOps      \* bound on the requests

ASSUME FwAssumption ==
    /\ FwParent \in [DOMAIN FwParent -> FwDirs] /\ DOMAIN FwParent \subseteq FwDirs
    /\ FwSources # {} /\ FwRoot \in [FwSources -> FwDirs]
    /\ FwMaxChanges \in Nat /\ FwMaxOps \in Nat

VARIABLES
    fwThere,   \* the directories there are
    fwSub,     \* those fsnotify watches
    fwEvents,  \* its queue
    fwEntries, \* the sources that have an entry
    fwTimer,   \* those whose timer is armed
    fwMap,     \* dirMap: the source of a watched directory
    fwOp,      \* who holds the lock, and what is left to add
    fwDue,     \* the directory the loop is about to take the lock again for, if any
    fwChanges, fwOps,
    fwOwed,    \* history: sources with a change no callback followed
    fwStolen,  \* history: sources that share a directory with another one
    fwMissed   \* history: sources where a directory appeared in one that was found and not yet watched,
               \* or went before it was watched, or came back before its removal was handled

fwHistory == <<fwOwed, fwStolen, fwMissed>>
fwVars == <<fwThere, fwSub, fwEvents, fwEntries, fwTimer, fwMap, fwOp, fwDue, fwChanges, fwOps, fwHistory>>

---------------------------------------------------------------------------
\* The sets of directories that hold the parent of each of theirs, and with
\* them the directories above each, itself included.
FwClosed == {D \in SUBSET FwDirs : \A d \in D \cap DOMAIN FwParent : FwParent[d] \in D}
FwAbove == [d \in FwDirs |-> {e \in FwDirs : \A D \in FwClosed : d \in D => e \in D}]
FwBelow == [d \in FwDirs |-> {e \in FwDirs : d \in FwAbove[e]}]

\* collectDirs
FwCollected(d) == FwBelow[d] \cap fwThere

FwOwners(d) == {s \in fwEntries : FwRoot[s] \in FwAbove[d]}
FwWithout(dirs) == Restrict(fwMap, DOMAIN fwMap \ dirs)
FwOf(s) == {d \in DOMAIN fwMap : fwMap[d] = s}

FwNoOp == [op |-> "none", source |-> CHOOSE s \in FwSources : TRUE, left |-> {}]

FwInit ==
    /\ fwThere \in {D \in FwClosed : {FwRoot[s] : s \in FwSources} \subseteq D}
    /\ fwSub = {} /\ fwEvents = <<>> /\ fwEntries = {} /\ fwTimer = {} /\ fwMap = [d \in {} |-> FwNoOp.source]
    /\ fwOp = FwNoOp /\ fwDue = {} /\ fwChanges = 0 /\ fwOps = 0
    /\ fwOwed = {} /\ fwStolen = {} /\ fwMissed = {}

---------------------------------------------------------------------------
\* What changes below the roots.
FwChange(dir, event, from) ==
    /\ fwChanges < FwMaxChanges /\ fwChanges' = fwChanges + 1
    /\ fwEvents' = IF {from, dir} \cap fwSub # {} THEN Append(fwEvents, [event |-> event, dir |-> dir]) ELSE fwEvents
    /\ fwOwed' = fwOwed \cup FwOwners(dir)
    /\ UNCHANGED <<fwEntries, fwTimer, fwMap, fwOp, fwDue, fwOps, fwStolen>>

\* A proto file is written, created, removed or renamed.
FwTouch(d) == d \in fwThere /\ FwChange(d, "proto", d) /\ UNCHANGED <<fwThere, fwSub, fwMissed>>

FwAppear(d) ==
    /\ d \in DOMAIN FwParent \ fwThere /\ FwParent[d] \in fwThere
    /\ FwChange(d, "create", FwParent[d])
    /\ fwThere' = fwThere \cup {d}
    /\ fwMissed' = IF FwParent[d] \in fwOp.left THEN fwMissed \cup {fwOp.source} ELSE fwMissed
    /\ UNCHANGED fwSub

\* A directory goes with all below it; fsnotify forgets them.
FwVanish(d) ==
    /\ d \in fwThere \cap DOMAIN FwParent /\ \A s \in FwSources : FwRoot[s] \notin FwBelow[d]
    /\ FwChange(d, "remove", FwParent[d])
    /\ fwThere' = fwThere \ FwBelow[d] /\ fwSub' = fwSub \ FwBelow[d]
    /\ fwMissed' = IF d \in DOMAIN fwMap THEN fwMissed ELSE fwMissed \cup FwOwners(d)

---------------------------------------------------------------------------
\* removeWatchLocked: the timer is stopped, what the source had is not watched.
\* A change that the old watch had seen is the caller's to read.
FwForget(s) ==
    /\ fwTimer' = fwTimer \ {s} /\ fwOwed' = fwOwed \ {s}
    /\ fwSub' = fwSub \ FwOf(s) /\ fwMap' = FwWithout(FwOf(s))

\* Watch takes the lock, removes an earlier watch and looks for the directories.
FwWatch(s) ==
    /\ fwOp.op = "none" /\ fwOps < FwMaxOps
    /\ fwOps' = fwOps + 1
    /\ IF s \in fwEntries THEN FwForget(s) ELSE UNCHANGED <<fwTimer, fwOwed, fwSub, fwMap>>
    /\ fwEntries' = fwEntries \ {s} /\ fwMissed' = fwMissed \ {s}
    /\ fwOp' = [FwNoOp EXCEPT !.op = "watch", !.source = s, !.left = FwCollected(FwRoot[s])]
    /\ UNCHANGED <<fwThere, fwEvents, fwDue, fwChanges, fwStolen>>

FwUnwatch(s) ==
    /\ fwOp.op = "none" /\ fwOps < FwMaxOps
    /\ fwOps' = fwOps + 1
    /\ s \in fwEntries /\ FwForget(s) /\ fwEntries' = fwEntries \ {s}
    /\ UNCHANGED <<fwThere, fwEvents, fwOp, fwDue, fwChanges, fwStolen, fwMissed>>

\* One directory is watched, for the source that asks, whoever had it; one that
\* went meanwhile is not, but is in the map.
FwAdd(d) ==
    /\ d \in fwOp.left
    /\ fwSub' = fwSub \cup ({d} \cap fwThere)
    /\ fwMap' = [e \in DOMAIN fwMap \cup {d} |-> IF e = d THEN fwOp.source ELSE fwMap[e]]
    /\ fwStolen' = fwStolen \cup {s \in FwSources : s \in FwOwners(d) \ {fwOp.source}}
                            \cup (IF FwOwners(d) \subseteq {fwOp.source} THEN {} ELSE {fwOp.source})
    /\ fwOp' = [fwOp EXCEPT !.left = @ \ {d}]
    /\ UNCHANGED <<fwThere, fwEvents, fwEntries, fwTimer, fwDue, fwChanges, fwOps, fwOwed, fwMissed>>

\* All are; the lock is given back.
FwAdded ==
    /\ fwOp.op # "none" /\ fwOp.left = {} /\ fwOp' = FwNoOp
    /\ fwEntries' = IF fwOp.op = "watch" THEN fwEntries \cup {fwOp.source} ELSE fwEntries
    /\ UNCHANGED <<fwThere, fwSub, fwEvents, fwTimer, fwMap, fwDue, fwChanges, fwOps, fwHistory>>

---------------------------------------------------------------------------
\* scheduleBySubpath: the source of the directory, or else the one whose root
\* is the longest prefix.
FwArm(d) ==
    LET nearest == {s \in FwOwners(d) : \A t \in FwOwners(d) : FwRoot[t] \in FwAbove[FwRoot[s]]}
        known == IF d \in DOMAIN fwMap THEN {fwMap[d]} \cap fwEntries ELSE nearest
    IN  IF known = {} THEN UNCHANGED fwTimer ELSE \E s \in known : fwTimer' = fwTimer \cup {s}

\* Mutant: a new directory is watched, and nobody is told of what is in it.
FwScheduleNot ==
    /\ fwOp.op = "none" /\ fwDue # {} /\ fwDue' = {}
    /\ UNCHANGED <<fwThere, fwSub, fwEvents, fwEntries, fwTimer, fwMap, fwOp, fwChanges, fwOps, fwHistory>>

\* The loop takes the lock again for the timer.
FwSchedule ==
    /\ fwOp.op = "none" /\ fwDue' = {}
    /\ \E d \in fwDue : FwArm(d)
    /\ UNCHANGED <<fwThere, fwSub, fwEvents, fwEntries, fwMap, fwOp, fwChanges, fwOps, fwHistory>>

FwNextEvent(event) ==
    /\ fwOp.op = "none" /\ fwDue = {} /\ fwEvents # <<>> /\ Head(fwEvents).event = event
    /\ fwEvents' = Tail(fwEvents)

\* handleEvent, of a proto file,
FwProtoEvent ==
    /\ FwNextEvent("proto")
    /\ FwArm(Head(fwEvents).dir)
    /\ UNCHANGED <<fwThere, fwSub, fwEntries, fwMap, fwOp, fwDue, fwChanges, fwOps, fwHistory>>

\* of a directory that appeared and is still there: addSubtree takes any of the
\* sources it is below,
FwCreateEvent ==
    /\ FwNextEvent("create")
    /\ LET d == Head(fwEvents).dir IN
       IF d \notin fwThere THEN UNCHANGED <<fwOp, fwDue>>
       ELSE /\ fwDue' = {d}
            /\ IF FwOwners(d) = {} THEN UNCHANGED fwOp
               ELSE \E s \in FwOwners(d) : fwOp' = [op |-> "subtree", source |-> s, left |-> FwCollected(d)]
    /\ UNCHANGED <<fwThere, fwSub, fwEntries, fwTimer, fwMap, fwChanges, fwOps, fwHistory>>

\* of a watched directory that went: removeSubtreeWatches.  One that came back
\* and was watched anew by a request loses that watch to the late event.
FwRemoveEvent ==
    /\ FwNextEvent("remove")
    /\ LET d == Head(fwEvents).dir IN
       IF d \notin DOMAIN fwMap THEN UNCHANGED <<fwSub, fwMap, fwDue, fwMissed>>
       ELSE /\ fwSub' = fwSub \ (FwBelow[d] \cap DOMAIN fwMap) /\ fwMap' = FwWithout(FwBelow[d])
            /\ fwDue' = {FwParent[d]}
            /\ fwMissed' = IF d \in fwThere /\ [event |-> "create", dir |-> d] \notin Range(fwEvents)
                           THEN fwMissed \cup FwOwners(d) ELSE fwMissed
    /\ UNCHANGED <<fwThere, fwEntries, fwTimer, fwOp, fwChanges, fwOps, fwOwed, fwStolen>>

\* The timer of a source runs out, and its callback reads the directory.
FwFire(s) ==
    /\ s \in fwTimer
    /\ fwTimer' = fwTimer \ {s} /\ fwOwed' = fwOwed \ {s}
    /\ UNCHANGED <<fwThere, fwSub, fwEvents, fwEntries, fwMap, fwOp, fwDue, fwChanges, fwOps, fwStolen, fwMissed>>

FwNext ==
    \/ \E s \in FwSources : FwWatch(s) \/ FwUnwatch(s) \/ FwFire(s)
    \/ \E d \in FwDirs : FwTouch(d) \/ FwAppear(d) \/ FwVanish(d) \/ FwAdd(d)
    \/ FwAdded \/ FwSchedule \/ FwProtoEvent \/ FwCreateEvent \/ FwRemoveEvent

FwSpec == FwInit /\ [][FwNext]_fwVars

---------------------------------------------------------------------------
\* Every variable has its type, timers run for entries, and fsnotify watches
\* directories that are there and in the map.
FwTypeOK ==
    /\ fwThere \subseteq FwDirs /\ fwSub \subseteq fwThere \cap DOMAIN fwMap
    /\ fwEvents \in Seq([event : {"proto", "create", "remove"}, dir : FwDirs])
    /\ fwEntries \subseteq FwSources /\ fwTimer \subseteq fwEntries
    /\ fwMap \in [DOMAIN fwMap -> FwSources] /\ DOMAIN fwMap \subseteq FwDirs
    /\ fwOp \in [op : {"none", "watch", "subtree"}, source : FwSources, left : SUBSET FwDirs] /\ fwDue \subseteq FwDirs
    /\ fwChanges \in 0..FwMaxChanges /\ fwOps \in 0..FwMaxOps
    /\ fwOwed \subseteq FwSources /\ fwStolen \subseteq FwSources /\ fwMissed \subseteq FwSources

\* A change below the root of a watched source is followed by its callback:
\* nothing is owed once the events are handled and the timers ran out.  Left
\* out are sources that share directories, and those where a directory appeared
\* in one that was found and not watched yet, or went before it was watched, or
\* came back before its removal was handled.
FwChangeFollowed ==
    (fwEvents = <<>> /\ fwTimer = {} /\ fwOp.op = "none" /\ fwDue = {}) => fwOwed \subseteq fwStolen \cup fwMissed
=============================================================================
