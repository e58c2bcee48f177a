------------------------------ MODULE Natscope ------------------------------
(***************************************************************************)
(* The web client and the parts of the server that are modelled next to it *)
(* and do not share state with each other: the proto sources with their    *)
(* registry, the file watcher, the secrets of saved connections and the    *)
(* watch of a bucket.  Where one part calls another, the caller's module   *)
(* has what the other can answer; so, as in WebClient, a behaviour stays   *)
(* in the part it starts in.                                               *)
(***************************************************************************)
EXTENDS WebClient, ProtoService, FileWatcher, SecretStore, ServerKVWatch

VARIABLE natPart  \* the part that is looked at

natServer == <<pvVars, fwVars, vtVars, skVars>>
natVars == <<natPart, webVars, natServer>>

\* A part that is not looked at starts in one of its states; the directories are
\* all there at first, and a key from outside goes with a platform that syncs.
NatInit ==
    /\ natPart \in {"web", "protos", "files", "secrets", "bucket"}
    /\ (natPart # "web" => webArea = "search") /\ WebInit
    /\ PvInit /\ (natPart # "protos" => pvType = "git" /\ pvSchemas = {})
    /\ FwInit /\ fwThere = FwDirs
    /\ VtInit /\ (vtSupplied => vtDirSyncs) /\ (natPart # "secrets" => ~vtSupplied /\ ~vtDirSyncs)
    /\ SkInit /\ (natPart # "bucket" => skLast = 0)

NatWeb == natPart = "web" /\ UNCHANGED <<natPart, natServer>> /\ WebNext
NatProtos == natPart = "protos" /\ UNCHANGED <<natPart, webVars, fwVars, vtVars, skVars>> /\ PvNext
NatFiles == natPart = "files" /\ UNCHANGED <<natPart, webVars, pvVars, vtVars, skVars>> /\ FwNext
NatSecrets == natPart = "secrets" /\ UNCHANGED <<natPart, webVars, pvVars, fwVars, skVars>> /\ VtNext
NatBucket == natPart = "bucket" /\ UNCHANGED <<natPart, webVars, pvVars, fwVars, vtVars>> /\ SkNext

NatNext == NatWeb \/ NatProtos \/ NatFiles \/ NatSecrets \/ NatBucket

Spec == NatInit /\ [][NatNext]_natVars

---------------------------------------------------------------------------
\* The state of the part that is looked at is of its type.
NatTypeOK ==
    /\ natPart = "web" => WebTypeOK
    /\ natPart = "protos" => PvTypeOK
    /\ natPart = "files" => FwTypeOK
    /\ natPart = "secrets" => VtTypeOK
    /\ natPart = "bucket" => SkTypeOK

\* A change of a directory is followed to the end: the watcher calls back
\* (FileWatcher), the schema is compiled from what is there then, and a source
\* is watched exactly when it says so (ProtoService).
NatChangesFollowed == FwChangeFollowed /\ PvChangePending /\ PvWatchTrue

\* A stored schema of a directory is never replaced by one of older files
\* (locks.go), and a deleted source stays deleted (ProtoService).
NatNeverBack == [][PvForwardStep]_natVars
=============================================================================
