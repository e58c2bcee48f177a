----------------------------- MODULE SecretStore -----------------------------
(***************************************************************************)
(* Saved connections and their secrets: the documents are in the database, *)
(* the secrets in the encrypted file vault (internal/pkg/secrets).  A      *)
(* write of a connection is one transaction of the database, which writes  *)
(* the vault before it commits; the vault is a map in memory that is       *)
(* written whole to a file.  A write, a rename or a commit may fail, the   *)
(* program may be killed at any step, and the power may go: what was not   *)
(* synced by then may be on the disk or not.                               *)
(*                                                                         *)
(* The database admits one writing transaction at a time.  A secret is the *)
(* number of the write it came with, 0 for none.                           *)
(***************************************************************************)
EXTENDS Integers

CONSTANTS
    VtIds,      \* the saved connections
    VtMaxOps,   \* bound on the writes
    VtMaxFaults \* bound on the failures, kills and power losses

ASSUME VtAssumption == VtIds # {} /\ VtMaxOps \in Nat /\ VtMaxFaults \in Nat

VARIABLES
    vtSupplied,  \* the key comes from outside, not from the key file
    vtDirSyncs,  \* the platform can sync a directory
    vtPhase,     \* the program: down, creating its key file, up, or failed to start
    vtKey,       \* the key file: none, empty, or the number of the key it holds
    vtKeySafe,   \* what the key file may be after a power loss
    vtFile,      \* the vault file: none, or whole or not, its key and its data
    vtFileSafe,  \* what the vault file may be after a power loss
    vtMem,       \* the map in memory
    vtDocs,      \* the connections in the database
    vtTx,        \* the transaction under way
    vtOps, vtFaults,
    vtWant,      \* history: the secret of the last write that succeeded
    vtTried,     \* history: the secrets of the writes since that did not, or are under way
    vtUnwritten, \* history: removals that succeeded while the disk kept the secret
    vtKeyLost    \* history: a kill or a power loss cut the key file short

vtDisk == <<vtKey, vtKeySafe, vtFile, vtFileSafe>>
vtHistory == <<vtWant, vtTried, vtUnwritten, vtKeyLost>>
vtVars == <<vtSupplied, vtDirSyncs, vtPhase, vtDisk, vtMem, vtDocs, vtTx, vtOps, vtFaults, vtHistory>>

---------------------------------------------------------------------------
VtNoKey == "none"
VtMade == {"k1", "k2", "k3"}
VtKeys == {"none", "empty"} \cup VtMade
VtEmpty == [i \in VtIds |-> 0]
VtNoFile == [there |-> FALSE, whole |-> TRUE, key |-> VtNoKey, data |-> VtEmpty]
VtNoTx == [pc |-> "idle", id |-> CHOOSE i \in VtIds : TRUE, secret |-> 0, doc |-> FALSE]

\* An installation that was never started.
VtInit ==
    /\ vtSupplied \in BOOLEAN /\ vtDirSyncs \in BOOLEAN
    /\ vtPhase = "down"
    /\ vtKey = VtNoKey /\ vtKeySafe = {VtNoKey} /\ vtFile = VtNoFile /\ vtFileSafe = {VtNoFile}
    /\ vtMem = VtEmpty /\ vtDocs = {} /\ vtTx = VtNoTx /\ vtOps = 0 /\ vtFaults = 0
    /\ vtWant = VtEmpty /\ vtTried = [i \in VtIds |-> {}] /\ vtUnwritten = {} /\ vtKeyLost = FALSE

\* load: no file is an empty vault; a file that is cut or sealed with another
\* key keeps the program from starting.
VtLoad(key) ==
    IF ~vtFile.there THEN vtPhase' = "up" /\ vtMem' = VtEmpty
    ELSE IF vtFile.whole /\ vtFile.key = key THEN vtPhase' = "up" /\ vtMem' = vtFile.data
    ELSE vtPhase' = "failed" /\ UNCHANGED vtMem

VtKeyInUse == IF vtSupplied THEN "k1" ELSE vtKey

\* NewFile: the key is given, read, or made, which creates the file first.
VtStart ==
    /\ vtPhase = "down"
    /\ IF vtSupplied THEN VtLoad("k1") /\ UNCHANGED <<vtKey, vtKeySafe>>
       ELSE CASE vtKey = "empty" -> vtPhase' = "failed" /\ UNCHANGED <<vtMem, vtKey, vtKeySafe>>
              [] vtKey = VtNoKey -> /\ vtPhase' = "creating" /\ vtKey' = "empty" /\ vtKeySafe' = vtKeySafe \cup {"empty"}
                                    /\ UNCHANGED vtMem
              [] OTHER -> VtLoad(vtKey) /\ UNCHANGED <<vtKey, vtKeySafe>>
    /\ UNCHANGED <<vtSupplied, vtDirSyncs, vtFile, vtFileSafe, vtDocs, vtTx, vtOps, vtFaults, vtHistory>>

\* A new key is one that sealed nothing.
VtWriteKey ==
    /\ vtPhase = "creating"
    /\ LET key == CHOOSE k \in VtMade : \A f \in {vtFile} \cup vtFileSafe : k # f.key
       IN  vtKey' = key /\ vtKeySafe' = vtKeySafe \cup {key} /\ VtLoad(key)
    /\ UNCHANGED <<vtSupplied, vtDirSyncs, vtFile, vtFileSafe, vtDocs, vtTx, vtOps, vtFaults, vtHistory>>

\* The system writes the key file back in its own time; nothing syncs it.
VtKeySettles ==
    /\ vtPhase # "creating" /\ vtKeySafe # {vtKey}
    /\ vtKeySafe' = {vtKey}
    /\ UNCHANGED <<vtSupplied, vtDirSyncs, vtPhase, vtKey, vtFile, vtFileSafe, vtMem, vtDocs, vtTx, vtOps, vtFaults, vtHistory>>

---------------------------------------------------------------------------
\* A transaction begins: it will store the secret and the document, or remove
\* both.  No other one changes the map meanwhile.
VtBegin(i, secret, doc) ==
    /\ vtPhase = "up" /\ vtTx.pc = "idle" /\ vtOps < VtMaxOps
    /\ vtOps' = vtOps + 1
    /\ vtTx' = [pc |-> "vault", id |-> i, secret |-> secret, doc |-> doc]
    /\ vtTried' = [vtTried EXCEPT ![i] = @ \cup {secret}]
    /\ UNCHANGED <<vtSupplied, vtDirSyncs, vtPhase, vtDisk, vtMem, vtDocs, vtFaults, vtWant, vtUnwritten, vtKeyLost>>

VtSave(i) == i \notin vtDocs /\ \E s \in {0, vtOps + 1} : VtBegin(i, s, TRUE)

\* A new secret; a blank one, which keeps the stored one (mergeSecrets); or
\* credentials of another kind, which drop it.
VtUpdate(i) == i \in vtDocs /\ \E s \in {vtOps + 1, vtMem[i], 0} : VtBegin(i, s, TRUE)

VtDelete(i) == i \in vtDocs /\ VtBegin(i, 0, FALSE)

\* Put and Delete of the vault change the map first.  To remove what the map
\* does not have writes nothing.
VtVault ==
    /\ vtTx.pc = "vault"
    /\ LET i == vtTx.id
           nothing == vtTx.secret = 0 /\ vtMem[i] = 0
       IN  /\ vtMem' = [vtMem EXCEPT ![i] = vtTx.secret]
           /\ vtTx' = [vtTx EXCEPT !.pc = IF nothing THEN "commit" ELSE "write"]
           /\ vtUnwritten' = IF nothing /\ \E f \in vtFileSafe : f.data[i] # 0 THEN vtUnwritten \cup {i} ELSE vtUnwritten
    /\ UNCHANGED <<vtSupplied, vtDirSyncs, vtPhase, vtDisk, vtDocs, vtOps, vtFaults, vtWant, vtTried, vtKeyLost>>

\* A step of the transaction fails: the database rolls back, the map does not.
VtAbort ==
    /\ vtTx.pc \in {"write", "rename", "commit"} /\ vtFaults < VtMaxFaults
    /\ vtFaults' = vtFaults + 1
    /\ vtTx' = VtNoTx
    /\ UNCHANGED <<vtSupplied, vtDirSyncs, vtPhase, vtDisk, vtMem, vtDocs, vtOps, vtHistory>>

\* writeFileSync: the new file is written beside the old one, and synced.
VtWrite ==
    /\ vtTx.pc = "write"
    /\ vtTx' = [vtTx EXCEPT !.pc = "rename"]
    /\ UNCHANGED <<vtSupplied, vtDirSyncs, vtPhase, vtDisk, vtMem, vtDocs, vtOps, vtFaults, vtHistory>>

VtSealed == [there |-> TRUE, whole |-> TRUE, key |-> VtKeyInUse, data |-> vtMem]

\* Mutant: the new file was not synced before it takes the place of the old one.
VtRenameUnsynced ==
    /\ vtTx.pc = "rename"
    /\ vtFile' = VtSealed /\ vtFileSafe' = vtFileSafe \cup {VtSealed, [VtSealed EXCEPT !.whole = FALSE]}
    /\ vtTx' = [vtTx EXCEPT !.pc = "sync"]
    /\ UNCHANGED <<vtSupplied, vtDirSyncs, vtPhase, vtKey, vtKeySafe, vtMem, vtDocs, vtOps, vtFaults, vtHistory>>

\* It takes the place of the old one, on the disk now or later,
VtRename ==
    /\ vtTx.pc = "rename"
    /\ vtFile' = VtSealed /\ vtFileSafe' = vtFileSafe \cup {VtSealed}
    /\ vtTx' = [vtTx EXCEPT !.pc = "sync"]
    /\ UNCHANGED <<vtSupplied, vtDirSyncs, vtPhase, vtKey, vtKeySafe, vtMem, vtDocs, vtOps, vtFaults, vtHistory>>

\* and syncDir makes sure of it where it can: what the new file has no more is
\* off the disk.  The entry of the key file is in the same directory, its content
\* is not.
VtSyncDir ==
    /\ vtTx.pc = "sync"
    /\ vtFileSafe' = IF vtDirSyncs THEN {vtFile} ELSE vtFileSafe
    /\ vtKeySafe' = IF vtDirSyncs /\ ~vtSupplied THEN vtKeySafe \ {VtNoKey} ELSE vtKeySafe
    /\ vtUnwritten' = IF vtDirSyncs THEN {i \in vtUnwritten \ {vtTx.id} : vtFile.data[i] # 0} ELSE vtUnwritten
    /\ vtTx' = [vtTx EXCEPT !.pc = "commit"]
    /\ UNCHANGED <<vtSupplied, vtDirSyncs, vtPhase, vtKey, vtFile, vtMem, vtDocs, vtOps, vtFaults, vtWant, vtTried, vtKeyLost>>

\* The commit of the database is durable.
VtCommit ==
    /\ vtTx.pc = "commit"
    /\ vtDocs' = IF vtTx.doc THEN vtDocs \cup {vtTx.id} ELSE vtDocs \ {vtTx.id}
    /\ vtWant' = [vtWant EXCEPT ![vtTx.id] = vtTx.secret] /\ vtTried' = [vtTried EXCEPT ![vtTx.id] = {}]
    /\ vtTx' = VtNoTx
    /\ UNCHANGED <<vtSupplied, vtDirSyncs, vtPhase, vtDisk, vtMem, vtOps, vtFaults, vtUnwritten, vtKeyLost>>

---------------------------------------------------------------------------
VtDown ==
    /\ vtPhase \in {"creating", "up"} /\ vtFaults < VtMaxFaults
    /\ vtFaults' = vtFaults + 1
    /\ vtPhase' = "down" /\ vtMem' = VtEmpty /\ vtTx' = VtNoTx
    /\ UNCHANGED <<vtSupplied, vtDirSyncs, vtDocs, vtOps, vtWant, vtTried, vtUnwritten>>

\* The program is killed: what it wrote is there.
VtKill ==
    /\ VtDown
    /\ vtKeyLost' = (vtKeyLost \/ vtPhase = "creating")
    /\ UNCHANGED vtDisk

\* The power goes.
VtPowerLoss ==
    /\ VtDown
    /\ vtKey' \in vtKeySafe /\ vtFile' \in vtFileSafe
    /\ vtKeySafe' = {vtKey'} /\ vtFileSafe' = {vtFile'}
    /\ vtKeyLost' = (vtKeyLost \/ vtPhase = "creating" \/ vtKey' # vtKey)

VtNext ==
    \/ VtStart \/ VtWriteKey \/ VtKeySettles
    \/ \E i \in VtIds : VtSave(i) \/ VtUpdate(i) \/ VtDelete(i)
    \/ VtVault \/ VtAbort \/ VtWrite \/ VtRename \/ VtSyncDir \/ VtCommit
    \/ VtKill \/ VtPowerLoss

\* The saved connections by themselves.
VtSpec == VtInit /\ [][VtNext]_vtVars

---------------------------------------------------------------------------
VtSecrets == 0..VtMaxOps
VtFiles == [there : BOOLEAN, whole : BOOLEAN, key : VtKeys, data : [VtIds -> VtSecrets]]

\* Every variable has its type, and what the files are now they may be after a
\* power loss.
VtTypeOK ==
    /\ vtSupplied \in BOOLEAN /\ vtDirSyncs \in BOOLEAN
    /\ vtPhase \in {"down", "creating", "up", "failed"}
    /\ vtKey \in vtKeySafe /\ vtKeySafe \subseteq VtKeys
    /\ vtFile \in vtFileSafe /\ vtFileSafe \subseteq VtFiles
    /\ vtMem \in [VtIds -> VtSecrets] /\ vtDocs \subseteq VtIds
    /\ vtTx \in [pc : {"idle", "vault", "write", "rename", "sync", "commit"}, id : VtIds, secret : VtSecrets, doc : BOOLEAN]
    /\ vtOps \in 0..VtMaxOps /\ vtFaults \in 0..VtMaxFaults
    /\ vtWant \in [VtIds -> VtSecrets] /\ vtTried \in [VtIds -> SUBSET VtSecrets]
    /\ vtUnwritten \subseteq VtIds /\ vtKeyLost \in BOOLEAN

\* A vault that was opened once opens again after every kill and power loss,
\* unless it was the key file that was cut short.
VtOpens == vtPhase = "failed" => vtKeyLost

\* A connection has the secret of the last write that succeeded, or of a later
\* one that failed half-way: never an older one, and never none.  Left out are
\* platforms that cannot sync a directory, and a removal that was told to be
\* done while a write that had failed left the secret on the disk (vtUnwritten).
VtSecretsKept ==
    (vtPhase = "up" /\ vtDirSyncs) =>
        \A i \in VtIds \ vtUnwritten : vtMem[i] \in {vtWant[i]} \cup vtTried[i]

\* Secrets survive failures and crashes: VtOpens and VtSecretsKept.
VtRecovers == VtOpens /\ VtSecretsKept
=============================================================================
