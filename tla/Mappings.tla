------------------------------ MODULE Mappings ------------------------------
(***************************************************************************)
(* Subject mappings (internal/services/mappings/mappings/service.go over   *)
(* internal/storages/mappings/bbolt/storage.go) and the decoders of live   *)
(* sessions that follow them.  A mutation commits to the store, then reads *)
(* every mapping back, swaps the cached resolver and calls back to mark    *)
(* the sessions' decoders dirty: no lock is held over these steps.         *)
(*                                                                         *)
(* The store serialises its transactions, so each is one step.  A key is a *)
(* pattern with its source; message type and framing are one value; a      *)
(* resolver is the set of mappings it was built from.                      *)
(***************************************************************************)
EXTENDS Integers, Sequences

CONSTANTS
    Mutators, \* requests that change mappings, each in a goroutine
    Sessions, \* live sessions
    Ids,      \* ids given to new mappings, none of them twice
    Keys,     \* (pattern, source id) pairs
    Types,    \* message types
    Pins,     \* pinned fingerprints
    NoPin, Absent,
    Batches,  \* sets of mappings a client may send at once, as sequences
    MaxCommits, \* bound on changes
    MaxFailures \* bound on failing reads of the store

Docs == [key : Keys, type : Types, pin : Pins \cup {NoPin}]
Stores == [Ids -> Docs \cup {Absent}]
Places == {"idle", "got", "committed", "listed", "stored"}

ASSUME MappingsAssumption ==
    /\ Absent \notin Docs /\ NoPin \notin Pins
    /\ Batches \subseteq Seq(Docs)
    /\ MaxCommits \in Nat /\ MaxFailures \in Nat

VARIABLES
    store,    \* the bucket: id -> mapping, or Absent
    used,     \* ids given out so far
    resolver, \* the cached resolver, as the store it was built from
    pc,       \* pc[g]: the mutator's place
    draft,    \* draft[g]: the mapping an Update has read and merged, its id
    list,     \* list[g]: what ListAll returned to it
    ready,    \* ready[s]: the session's decoder is initialised
    held,     \* held[s]: the resolver it was initialised with
    dirty,    \* dirty[s]: decoderDirty
    commits, failures,
    overlap,  \* the latest change committed while another's rebuild ran (history)
    failed    \* the latest read for a rebuild failed (history)

mutVars == <<store, used, commits, overlap>>
decVars == <<ready, held, dirty>>
readVars == <<failures, failed>>
vars == <<store, used, resolver, pc, draft, list, ready, held, dirty, commits, failures, overlap, failed>>

Empty == [i \in Ids |-> Absent]
NoDraft == [id |-> Absent, doc |-> Absent]

\* New builds the resolver eagerly; the sessions have decoded nothing yet.
Init ==
    /\ store = Empty /\ used = {} /\ resolver = Empty
    /\ pc = [g \in Mutators |-> "idle"]
    /\ draft = [g \in Mutators |-> NoDraft] /\ list = [g \in Mutators |-> Empty]
    /\ ready = [s \in Sessions |-> FALSE] /\ held = [s \in Sessions |-> Empty]
    /\ dirty = [s \in Sessions |-> FALSE]
    /\ commits = 0 /\ failures = 0 /\ overlap = FALSE /\ failed = FALSE

Under(k) == {i \in Ids : store[i] # Absent /\ store[i].key = k}
Rebuilding == {g \in Mutators : pc[g] \in {"committed", "listed"}}
Step(g, place) == pc' = [pc EXCEPT ![g] = place]

-----------------------------------------------------------------------------
\* Transactions.

\* Every change that commits leads to afterMutation.
Committed(g) ==
    /\ commits < MaxCommits /\ commits' = commits + 1
    /\ overlap' = (Rebuilding # {})
    /\ Step(g, "committed")
    /\ UNCHANGED <<resolver, list, decVars, readVars>>

\* Mutant: the mapping's own row does not excuse the others.
IsFreeOnce(k, id) == Under(k) = {} \/ id \in used

\* assertPatternFree
IsFree(k, id) == Under(k) \subseteq {id}

\* Mutant: the id is not remembered as given out.
CreateForgetful(g) ==
    /\ pc[g] = "idle"
    /\ \E id \in Ids \ used, d \in Docs :
        /\ IsFree(d.key, id)
        /\ store' = [store EXCEPT ![id] = d]
    /\ Committed(g)
    /\ UNCHANGED <<used, draft>>

Create(g) ==
    /\ pc[g] = "idle"
    /\ \E id \in Ids \ used, d \in Docs :
        /\ IsFree(d.key, id)
        /\ store' = [store EXCEPT ![id] = d]
        /\ used' = used \cup {id}
    /\ Committed(g)
    /\ UNCHANGED draft

\* Update: Get, then the merge with the request, which may set any field.
UpdateGet(g) ==
    /\ pc[g] = "idle"
    /\ \E id \in Ids, d \in Docs :
        /\ store[id] # Absent
        /\ draft' = [draft EXCEPT ![g] = [id |-> id, doc |-> d]]
    /\ Step(g, "got")
    /\ UNCHANGED <<mutVars, resolver, list, decVars, readVars>>

\* Update: Save upserts whatever the row became since.
UpdateSave(g) ==
    /\ pc[g] = "got" /\ IsFree(draft[g].doc.key, draft[g].id)
    /\ store' = [store EXCEPT ![draft[g].id] = draft[g].doc]
    /\ draft' = [draft EXCEPT ![g] = NoDraft]
    /\ Committed(g)
    /\ UNCHANGED used

\* The key is taken: the request fails and nothing changes.
UpdateRefused(g) ==
    /\ pc[g] = "got" /\ ~IsFree(draft[g].doc.key, draft[g].id)
    /\ draft' = [draft EXCEPT ![g] = NoDraft]
    /\ Step(g, "idle")
    /\ UNCHANGED <<mutVars, resolver, list, decVars, readVars>>

Delete(g) ==
    /\ pc[g] = "idle"
    /\ \E id \in Ids : store[id] # Absent /\ store' = [store EXCEPT ![id] = Absent]
    /\ Committed(g)
    /\ UNCHANGED <<used, draft>>

\* firstDuplicateKey finds none.
NoDuplicate(b) == \A i, j \in DOMAIN b : b[i].key = b[j].key => i = j

\* Mutant: the item as it came.
MergedBare(d) == d

\* What an item becomes: the row under its key keeps its id, and its pin when
\* the item has none.
Merged(d) ==
    [d EXCEPT !.pin = IF d.pin = NoPin /\ Under(d.key) # {}
                      THEN store[CHOOSE i \in Under(d.key) : TRUE].pin ELSE d.pin]

\* Rows under a key of the batch are replaced, rows under no key of it deleted,
\* and each key without a row gets a fresh id.
BulkSave(g) ==
    /\ pc[g] = "idle"
    /\ \E b \in Batches, row \in [Keys -> Ids] :
        /\ NoDuplicate(b)
        /\ \A n \in DOMAIN b :
            IF Under(b[n].key) = {}
            THEN row[b[n].key] \notin used
            ELSE row[b[n].key] \in Under(b[n].key)
        /\ \A m, n \in DOMAIN b : row[b[m].key] = row[b[n].key] => m = n
        /\ store' = [i \in Ids |->
                        IF \E n \in DOMAIN b : row[b[n].key] = i
                        THEN Merged(b[CHOOSE n \in DOMAIN b : row[b[n].key] = i]) ELSE Absent]
        /\ used' = used \cup {row[b[n].key] : n \in DOMAIN b}
    /\ Committed(g)
    /\ UNCHANGED draft

-----------------------------------------------------------------------------
\* afterMutation.

\* rebuildResolver reads the store; a failed read gives an empty resolver.
ListAll(g) ==
    /\ pc[g] = "committed"
    /\ \/ list' = [list EXCEPT ![g] = store] /\ failed' = FALSE /\ UNCHANGED failures
       \/ /\ failures < MaxFailures /\ failures' = failures + 1
          /\ list' = [list EXCEPT ![g] = Empty] /\ failed' = TRUE
    /\ Step(g, "listed")
    /\ UNCHANGED <<mutVars, resolver, draft, decVars>>

\* Mutant: a resolver that is already there stays.
StoreFirst(g) ==
    /\ pc[g] = "listed"
    /\ resolver' = IF resolver = Empty THEN list[g] ELSE resolver
    /\ Step(g, "stored")
    /\ UNCHANGED <<mutVars, draft, list, decVars, readVars>>

\* Mutant: nobody calls back.
StoreSilently(g) ==
    /\ pc[g] = "listed"
    /\ resolver' = list[g]
    /\ Step(g, "idle")
    /\ UNCHANGED <<mutVars, draft, list, decVars, readVars>>

StoreResolver(g) ==
    /\ pc[g] = "listed"
    /\ resolver' = list[g]
    /\ Step(g, "stored")
    /\ UNCHANGED <<mutVars, draft, list, decVars, readVars>>

\* The callback: BroadcastProtoReload.
Notify(g) ==
    /\ pc[g] = "stored"
    /\ dirty' = [s \in Sessions |-> TRUE]
    /\ Step(g, "idle")
    /\ UNCHANGED <<mutVars, resolver, draft, list, ready, held, readVars>>

-----------------------------------------------------------------------------
\* The decoder of a session: the loop takes the flag, and initialises it for
\* the next message.

Reset(s) ==
    /\ dirty[s]
    /\ dirty' = [dirty EXCEPT ![s] = FALSE] /\ ready' = [ready EXCEPT ![s] = FALSE]
    /\ UNCHANGED <<mutVars, resolver, pc, draft, list, held, readVars>>

InitDecoder(s) ==
    /\ ~ready[s]
    /\ held' = [held EXCEPT ![s] = resolver] /\ ready' = [ready EXCEPT ![s] = TRUE]
    /\ UNCHANGED <<mutVars, resolver, pc, draft, list, dirty, readVars>>

Mutate(g) == Create(g) \/ UpdateGet(g) \/ UpdateSave(g) \/ UpdateRefused(g) \/ Delete(g) \/ BulkSave(g)
AfterMutation(g) == ListAll(g) \/ StoreResolver(g) \/ Notify(g)

Next ==
    \/ \E g \in Mutators : Mutate(g) \/ AfterMutation(g)
    \/ \E s \in Sessions : Reset(s) \/ InitDecoder(s)

Spec == Init /\ [][Next]_vars

-----------------------------------------------------------------------------
\* The values the variables range over; what is stored has an id given out.
TypeOK ==
    /\ store \in Stores /\ resolver \in Stores
    /\ used \subseteq Ids /\ \A i \in Ids : store[i] # Absent => i \in used
    /\ pc \in [Mutators -> Places]
    /\ draft \in [Mutators -> [id : Ids, doc : Docs] \cup {NoDraft}]
    /\ \A g \in Mutators : pc[g] = "got" => draft[g] # NoDraft /\ draft[g].id \in used
    /\ list \in [Mutators -> Stores]
    /\ ready \in [Sessions -> BOOLEAN] /\ dirty \in [Sessions -> BOOLEAN]
    /\ held \in [Sessions -> Stores]
    /\ commits \in 0 .. MaxCommits /\ failures \in 0 .. MaxFailures
    /\ overlap \in BOOLEAN /\ failed \in BOOLEAN

\* Save and BulkSave keep (pattern, source) unique, also when an update saves
\* a mapping it read before others changed, renamed or deleted it.
UniqueKeys ==
    \A i, j \in Ids :
        store[i] # Absent /\ store[j] # Absent /\ store[i].key = store[j].key => i = j

\* "each re-inits its proto decoder before the next message": however changes
\* interleave, a session that has nothing to reload decodes with the resolver
\* of the service, save for the moment before the callback.
SessionsFollow ==
    \A s \in Sessions :
        ready[s] /\ ~dirty[s] => held[s] = resolver \/ \E g \in Mutators : pc[g] = "stored"

\* A change that committed while no other was rebuilding shows in the
\* resolver once the rebuilds are done, unless the store could not be read.
AloneCurrent == Rebuilding = {} /\ ~overlap => resolver = store \/ failed

\* Only an update renames a row or clears its pin: a batch replaces the set by
\* key, "unset keeps an existing pin" (mappings_service.proto).
PinsKept ==
    [][\A g \in Mutators, i \in Ids :
        pc[g] = "idle" /\ pc'[g] = "committed" /\ store[i] # Absent /\ store'[i] # Absent
            => /\ store'[i].key = store[i].key
               /\ store'[i].pin = NoPin => store[i].pin = NoPin]_vars

\* service.go: "Maintains a cached MappingResolver callers can read lock-free;
\* swapped atomically after every mutation." With every mutation done, the
\* resolver is that of the mappings stored.
ResolverCurrent == (\A g \in Mutators : pc[g] = "idle") => resolver = store \/ failed
=============================================================================
