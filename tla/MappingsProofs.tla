--------------------------- MODULE MappingsProofs ---------------------------
(***************************************************************************)
(* Proofs about the subject mappings, for any number of requests, sessions *)
(* and mappings and any set of batches.                                    *)
(*                                                                         *)
(* UniqueKeys and SessionsFollow are inductive with the types.  That a     *)
(* change made alone shows needs more: while the latest change committed   *)
(* with no rebuild running, at most one rebuild runs, and what it has read *)
(* is what the store still holds.                                          *)
(***************************************************************************)
EXTENDS Mappings, TLAPS

AloneInv ==
    ~overlap =>
        /\ \A g, h \in Rebuilding : g = h
        /\ \A g \in Mutators : pc[g] = "listed" => list[g] = store \/ failed
        /\ Rebuilding = {} => resolver = store \/ failed

IInv == TypeOK /\ UniqueKeys /\ SessionsFollow /\ AloneInv

USE DEF Places

\* The service starts with an empty store and a resolver built from it.
LEMMA InitIInv == Init => IInv
<1>. SUFFICES ASSUME Init PROVE IInv
  OBVIOUS
<1>1. Empty \in Stores /\ \A i \in Ids : Empty[i] = Absent
  BY DEF Empty, Stores
<1>2. TypeOK
  <2>1. store \in Stores /\ resolver \in Stores /\ list \in [Mutators -> Stores]
        /\ held \in [Sessions -> Stores] /\ \A i \in Ids : store[i] # Absent => i \in used
    BY <1>1 DEF Init
  <2>2. pc \in [Mutators -> Places] /\ draft \in [Mutators -> [id : Ids, doc : Docs] \cup {NoDraft}]
        /\ \A g \in Mutators : pc[g] # "got"
    BY DEF Init
  <2>3. commits \in 0 .. MaxCommits /\ failures \in 0 .. MaxFailures
    BY MappingsAssumption DEF Init
  <2>. QED BY <2>1, <2>2, <2>3 DEF Init, TypeOK
<1>3. UniqueKeys /\ SessionsFollow
  BY <1>1 DEF Init, UniqueKeys, SessionsFollow
<1>4. AloneInv
  BY DEF Init, AloneInv, Rebuilding
<1>. QED BY <1>2, <1>3, <1>4 DEF IInv

-----------------------------------------------------------------------------
\* Types.

\* A mapping an update carries is a mapping.
LEMMA DraftType ==
  ASSUME TypeOK, NEW g \in Mutators, pc[g] = "got"
  PROVE  draft[g].id \in Ids /\ draft[g].doc \in Docs /\ draft[g].id \in used
  BY DEF TypeOK

\* A batch item merged with the row under its key is a mapping with that key.
LEMMA MergedType ==
  ASSUME TypeOK, NEW d \in Docs
  PROVE  Merged(d) \in Docs /\ Merged(d).key = d.key
<1>1. Under(d.key) # {} => store[CHOOSE i \in Under(d.key) : TRUE] \in Docs
  <2>1. \A i \in Under(d.key) : store[i] \in Docs
    BY DEF Under, TypeOK, Stores
  <2>. QED BY <2>1
<1>. QED BY <1>1 DEF Merged, Docs

\* What every change that commits does to the types.
LEMMA CommittedType ==
  ASSUME TypeOK, NEW g \in Mutators, Committed(g),
         store' \in Stores, used' \subseteq Ids, used \subseteq used',
         \A i \in Ids : store'[i] # Absent => i \in used',
         draft' \in [Mutators -> [id : Ids, doc : Docs] \cup {NoDraft}],
         \A h \in Mutators : h # g => draft'[h] = draft[h]
  PROVE  TypeOK'
<1>1. pc' \in [Mutators -> Places] /\ \A h \in Mutators : pc'[h] = "got" => h # g /\ pc[h] = "got"
  BY DEF TypeOK, Committed, Step
<1>2. \A h \in Mutators : pc'[h] = "got" => draft'[h] # NoDraft /\ draft'[h].id \in used'
  BY <1>1 DEF TypeOK
<1>3. commits' \in 0 .. MaxCommits /\ overlap' \in BOOLEAN
  BY MappingsAssumption DEF TypeOK, Committed
<1>. QED BY <1>1, <1>2, <1>3 DEF TypeOK, Committed, decVars, readVars

\* Create keeps the types.
LEMMA CreateType ==
  ASSUME TypeOK, NEW g \in Mutators, Create(g)
  PROVE  TypeOK'
<1>1. PICK id \in Ids \ used, d \in Docs :
        store' = [store EXCEPT ![id] = d] /\ used' = used \cup {id}
  BY DEF Create
<1>2. store' \in Stores /\ used' \subseteq Ids /\ used \subseteq used'
      /\ \A i \in Ids : store'[i] # Absent => i \in used'
  BY <1>1 DEF TypeOK, Stores
<1>. QED BY <1>2, CommittedType DEF Create, TypeOK

\* Saving an update keeps the types.
LEMMA UpdateSaveType ==
  ASSUME TypeOK, NEW g \in Mutators, UpdateSave(g)
  PROVE  TypeOK'
<1>1. draft[g].id \in Ids /\ draft[g].doc \in Docs /\ draft[g].id \in used
  BY DraftType DEF UpdateSave
<1>2. store' \in Stores /\ used' = used /\ \A i \in Ids : store'[i] # Absent => i \in used'
  BY <1>1 DEF UpdateSave, TypeOK, Stores
<1>3. draft' \in [Mutators -> [id : Ids, doc : Docs] \cup {NoDraft}]
      /\ \A h \in Mutators : h # g => draft'[h] = draft[h]
  BY DEF UpdateSave, TypeOK
<1>. QED BY <1>2, <1>3, CommittedType DEF UpdateSave, TypeOK

\* Delete keeps the types.
LEMMA DeleteType ==
  ASSUME TypeOK, NEW g \in Mutators, Delete(g)
  PROVE  TypeOK'
<1>1. store' \in Stores /\ used' = used /\ \A i \in Ids : store'[i] # Absent => i \in used'
  BY DEF Delete, TypeOK, Stores
<1>. QED BY <1>1, CommittedType DEF Delete, TypeOK

\* Item n of batch b went to the row row[b[n].key].
BatchRows(b, row) ==
    /\ store' \in Stores
    /\ \A i \in Ids : store'[i] # Absent =>
        \E n \in DOMAIN b : row[b[n].key] = i /\ store'[i] = Merged(b[n]) /\ store'[i].key = b[n].key

\* What a batch makes of the store: each item's row, and nothing else.
LEMMA BatchStore ==
  ASSUME TypeOK, NEW g \in Mutators, BulkSave(g)
  PROVE  \E b \in Batches, row \in [Keys -> Ids] :
            /\ NoDuplicate(b) /\ BatchRows(b, row)
            /\ \A n \in DOMAIN b : b[n] \in Docs
            /\ \A n \in DOMAIN b : IF Under(b[n].key) = {} THEN row[b[n].key] \notin used
                                   ELSE row[b[n].key] \in Under(b[n].key)
            /\ used' = used \cup {row[b[n].key] : n \in DOMAIN b}
<1>1. PICK b \in Batches, row \in [Keys -> Ids] :
        /\ NoDuplicate(b)
        /\ \A n \in DOMAIN b : IF Under(b[n].key) = {} THEN row[b[n].key] \notin used
                               ELSE row[b[n].key] \in Under(b[n].key)
        /\ store' = [i \in Ids |-> IF \E n \in DOMAIN b : row[b[n].key] = i
                 THEN Merged(b[CHOOSE n \in DOMAIN b : row[b[n].key] = i]) ELSE Absent]
        /\ used' = used \cup {row[b[n].key] : n \in DOMAIN b}
  BY DEF BulkSave
<1>2. b \in Seq(Docs) /\ \A n \in DOMAIN b : b[n] \in Docs
  BY MappingsAssumption
<1>3. ASSUME NEW i \in Ids, store'[i] # Absent
      PROVE  \E n \in DOMAIN b : /\ row[b[n].key] = i
                                 /\ store'[i] = Merged(b[n]) /\ store'[i].key = b[n].key
                                 /\ store'[i] \in Docs
  <2>1. \E n \in DOMAIN b : row[b[n].key] = i
    BY <1>1, <1>3
  <2>2. PICK n \in DOMAIN b : n = (CHOOSE m \in DOMAIN b : row[b[m].key] = i) /\ row[b[n].key] = i
    BY <2>1
  <2>3. store'[i] = Merged(b[n])
    BY <1>1, <2>1, <2>2
  <2>. QED BY <1>2, <2>2, <2>3, MergedType
<1>4. store' \in Stores
  <2>1. \A i \in Ids : store'[i] \in Docs \cup {Absent}
    BY <1>3
  <2>. QED BY <1>1, <2>1 DEF Stores
<1>5. BatchRows(b, row)
  BY <1>3, <1>4 DEF BatchRows
<1>. QED BY <1>1, <1>2, <1>5

\* BulkSave keeps the types.
LEMMA BulkSaveType ==
  ASSUME TypeOK, NEW g \in Mutators, BulkSave(g)
  PROVE  TypeOK'
<1>1. PICK b \in Batches, row \in [Keys -> Ids] :
        /\ BatchRows(b, row) /\ \A n \in DOMAIN b : b[n] \in Docs
        /\ used' = used \cup {row[b[n].key] : n \in DOMAIN b}
  BY BatchStore
<1>2. \A n \in DOMAIN b : b[n].key \in Keys
  BY <1>1 DEF Docs
<1>3. used' \subseteq Ids /\ used \subseteq used'
  BY <1>1, <1>2 DEF TypeOK
<1>4. store' \in Stores /\ \A i \in Ids : store'[i] # Absent => i \in used'
  BY <1>1 DEF BatchRows
<1>. QED BY <1>3, <1>4, CommittedType DEF BulkSave, TypeOK

\* Every step keeps the types.
LEMMA TypeStep ==
  ASSUME TypeOK, [Next]_vars
  PROVE  TypeOK'
<1>1. CASE UNCHANGED vars
  BY <1>1 DEF TypeOK, vars
<1>2. ASSUME NEW g \in Mutators, UpdateGet(g) PROVE TypeOK'
  <2>1. PICK id \in Ids, d \in Docs :
          store[id] # Absent /\ draft' = [draft EXCEPT ![g] = [id |-> id, doc |-> d]]
    BY <1>2 DEF UpdateGet
  <2>2. [id |-> id, doc |-> d] # NoDraft /\ id \in used
    BY <2>1, MappingsAssumption DEF NoDraft, TypeOK
  <2>3. draft' \in [Mutators -> [id : Ids, doc : Docs] \cup {NoDraft}]
        /\ \A h \in Mutators : pc'[h] = "got" => draft'[h] # NoDraft /\ draft'[h].id \in used
    BY <1>2, <2>1, <2>2 DEF TypeOK, UpdateGet, Step
  <2>4. pc' \in [Mutators -> Places]
    BY <1>2 DEF TypeOK, UpdateGet, Step
  <2>. QED BY <1>2, <2>3, <2>4 DEF TypeOK, UpdateGet, mutVars, decVars, readVars
<1>3. ASSUME NEW g \in Mutators, UpdateRefused(g) PROVE TypeOK'
  <2>1. pc' \in [Mutators -> Places] /\ \A h \in Mutators : pc'[h] = "got" => h # g /\ pc[h] = "got"
    BY <1>3 DEF TypeOK, UpdateRefused, Step
  <2>2. draft' \in [Mutators -> [id : Ids, doc : Docs] \cup {NoDraft}]
        /\ \A h \in Mutators : pc'[h] = "got" => draft'[h] # NoDraft /\ draft'[h].id \in used
    BY <1>3, <2>1 DEF TypeOK, UpdateRefused
  <2>. QED BY <1>3, <2>1, <2>2 DEF TypeOK, UpdateRefused, mutVars, decVars, readVars
<1>4. ASSUME NEW g \in Mutators, ListAll(g) PROVE TypeOK'
  <2>1. list' \in [Mutators -> Stores] /\ failed' \in BOOLEAN /\ failures' \in 0 .. MaxFailures
    <3>1. Empty \in Stores
      BY DEF Empty, Stores
    <3>2. list' \in [Mutators -> Stores] /\ failed' \in BOOLEAN
      BY <1>4, <3>1 DEF TypeOK, ListAll
    <3>3. failures' \in 0 .. MaxFailures
      BY <1>4, MappingsAssumption DEF TypeOK, ListAll
    <3>. QED BY <3>2, <3>3
  <2>2. pc' \in [Mutators -> Places] /\ \A h \in Mutators : pc'[h] = "got" => pc[h] = "got"
    BY <1>4 DEF TypeOK, ListAll, Step
  <2>. QED BY <1>4, <2>1, <2>2 DEF TypeOK, ListAll, mutVars, decVars
<1>5. ASSUME NEW g \in Mutators, StoreResolver(g) PROVE TypeOK'
  <2>1. pc' \in [Mutators -> Places] /\ \A h \in Mutators : pc'[h] = "got" => pc[h] = "got"
    BY <1>5 DEF TypeOK, StoreResolver, Step
  <2>. QED BY <1>5, <2>1 DEF TypeOK, StoreResolver, mutVars, decVars, readVars
<1>6. ASSUME NEW g \in Mutators, Notify(g) PROVE TypeOK'
  <2>1. pc' \in [Mutators -> Places] /\ \A h \in Mutators : pc'[h] = "got" => pc[h] = "got"
    BY <1>6 DEF TypeOK, Notify, Step
  <2>. QED BY <1>6, <2>1 DEF TypeOK, Notify, mutVars, readVars
<1>7. ASSUME NEW s \in Sessions, Reset(s) \/ InitDecoder(s) PROVE TypeOK'
  BY <1>7 DEF TypeOK, Reset, InitDecoder, mutVars, readVars
<1>. QED
  BY <1>1, <1>2, <1>3, <1>4, <1>5, <1>6, <1>7, CreateType, UpdateSaveType, DeleteType, BulkSaveType
  DEF Next, Mutate, AfterMutation

-----------------------------------------------------------------------------
\* Keys.

\* A row saved under a key that is free leaves the keys unique.
LEMMA SaveUnique ==
  ASSUME TypeOK, UniqueKeys, NEW id \in Ids, NEW d \in Docs, IsFree(d.key, id),
         store' = [store EXCEPT ![id] = d]
  PROVE  UniqueKeys'
<1>1. \A i \in Ids : store'[i] = IF i = id THEN d ELSE store[i]
  BY DEF TypeOK, Stores
<1>2. \A i \in Ids : store[i] # Absent /\ store[i].key = d.key => i = id
  BY DEF IsFree, Under
<1>3. d # Absent
  BY MappingsAssumption
<1>. QED BY <1>1, <1>2, <1>3 DEF UniqueKeys

\* A batch without duplicates leaves the keys unique: a row for each of its keys.
LEMMA BulkSaveUnique ==
  ASSUME TypeOK, NEW g \in Mutators, BulkSave(g)
  PROVE  UniqueKeys'
<1>1. PICK b \in Batches, row \in [Keys -> Ids] : NoDuplicate(b) /\ BatchRows(b, row)
  BY BatchStore
<1>2. \A i \in Ids : store'[i] # Absent =>
        \E n \in DOMAIN b : row[b[n].key] = i /\ store'[i].key = b[n].key
  BY <1>1 DEF BatchRows
<1>3. ASSUME NEW i \in Ids, NEW j \in Ids, store'[i] # Absent, store'[j] # Absent,
             store'[i].key = store'[j].key
      PROVE  i = j
  <2>1. PICK m \in DOMAIN b : row[b[m].key] = i /\ store'[i].key = b[m].key
    BY <1>2, <1>3
  <2>2. PICK n \in DOMAIN b : row[b[n].key] = j /\ store'[j].key = b[n].key
    BY <1>2, <1>3
  <2>. QED BY <1>1, <1>3, <2>1, <2>2 DEF NoDuplicate
<1>. QED BY <1>3 DEF UniqueKeys

\* Every step keeps the keys unique.
LEMMA UniqueStep ==
  ASSUME TypeOK, UniqueKeys, [Next]_vars
  PROVE  UniqueKeys'
<1>1. ASSUME store' = store PROVE UniqueKeys'
  BY <1>1 DEF UniqueKeys
<1>2. ASSUME NEW g \in Mutators, Create(g) PROVE UniqueKeys'
  BY <1>2, SaveUnique DEF Create
<1>3. ASSUME NEW g \in Mutators, UpdateSave(g) PROVE UniqueKeys'
  <2>1. draft[g].id \in Ids /\ draft[g].doc \in Docs
    BY <1>3, DraftType DEF UpdateSave
  <2>. QED BY <1>3, <2>1, SaveUnique DEF UpdateSave
<1>4. ASSUME NEW g \in Mutators, Delete(g) PROVE UniqueKeys'
  BY <1>4 DEF Delete, UniqueKeys, TypeOK, Stores
<1>. QED
  BY <1>1, <1>2, <1>3, <1>4, BulkSaveUnique
  DEF Next, Mutate, AfterMutation, UpdateGet, UpdateRefused, ListAll, StoreResolver, Notify, Reset,
      InitDecoder, mutVars, vars

-----------------------------------------------------------------------------
\* Sessions and the resolver.

\* Every step keeps the sessions with the resolver, or the callback to come.
LEMMA FollowStep ==
  ASSUME TypeOK, SessionsFollow, [Next]_vars
  PROVE  SessionsFollow'
<1>1. ASSUME UNCHANGED <<resolver, decVars>>,
             \A g \in Mutators : pc[g] = "stored" => pc'[g] = "stored"
      PROVE  SessionsFollow'
  BY <1>1 DEF SessionsFollow, decVars
<1>2. ASSUME NEW g \in Mutators, Create(g) \/ UpdateSave(g) \/ Delete(g) \/ BulkSave(g)
      PROVE  SessionsFollow'
  <2>1. Committed(g) /\ pc[g] # "stored"
    BY <1>2 DEF Create, UpdateSave, Delete, BulkSave
  <2>. QED BY <1>1, <2>1 DEF Committed, Step, TypeOK
<1>3. ASSUME NEW g \in Mutators, UpdateGet(g) \/ UpdateRefused(g) \/ ListAll(g)
      PROVE  SessionsFollow'
  BY <1>1, <1>3 DEF UpdateGet, UpdateRefused, ListAll, Step, TypeOK
<1>4. ASSUME NEW g \in Mutators, StoreResolver(g) PROVE SessionsFollow'
  <2>1. pc'[g] = "stored"
    BY <1>4 DEF StoreResolver, Step, TypeOK
  <2>. QED BY <2>1 DEF SessionsFollow
<1>5. ASSUME NEW g \in Mutators, Notify(g) PROVE SessionsFollow'
  BY <1>5 DEF Notify, SessionsFollow
<1>6. ASSUME NEW s \in Sessions, Reset(s) PROVE SessionsFollow'
  BY <1>6 DEF Reset, SessionsFollow, TypeOK
<1>7. ASSUME NEW s \in Sessions, InitDecoder(s) PROVE SessionsFollow'
  BY <1>7 DEF InitDecoder, SessionsFollow, TypeOK
<1>8. CASE UNCHANGED vars
  BY <1>1, <1>8 DEF vars, decVars
<1>. QED
  BY <1>2, <1>3, <1>4, <1>5, <1>6, <1>7, <1>8 DEF Next, Mutate, AfterMutation

-----------------------------------------------------------------------------
\* A change made alone.

\* A change that commits while no rebuild runs starts the only one.
LEMMA AloneCommit ==
  ASSUME TypeOK, AloneInv, NEW g \in Mutators, Committed(g), pc[g] \in {"idle", "got"}
  PROVE  AloneInv'
<1>. SUFFICES ASSUME ~overlap' PROVE Rebuilding' = {g} /\ pc'[g] = "committed"
  BY DEF AloneInv, Rebuilding
<1>1. Rebuilding = {}
  BY DEF Committed
<1>. QED BY <1>1 DEF Committed, Step, TypeOK, Rebuilding

\* Every step keeps what a change made alone rests on.
LEMMA AloneStep ==
  ASSUME TypeOK, AloneInv, [Next]_vars
  PROVE  AloneInv'
<1>1. ASSUME UNCHANGED <<store, resolver, list, overlap, failed>>, Rebuilding' = Rebuilding,
             \A g \in Mutators : pc'[g] = "listed" => pc[g] = "listed"
      PROVE  AloneInv'
  BY <1>1 DEF AloneInv
<1>2. ASSUME NEW g \in Mutators, Create(g) \/ UpdateSave(g) \/ Delete(g) \/ BulkSave(g)
      PROVE  AloneInv'
  BY <1>2, AloneCommit DEF Create, UpdateSave, Delete, BulkSave
<1>3. ASSUME NEW g \in Mutators, UpdateGet(g) \/ UpdateRefused(g) \/ Notify(g)
      PROVE  AloneInv'
  BY <1>1, <1>3
  DEF UpdateGet, UpdateRefused, Notify, Step, TypeOK, Rebuilding, mutVars, readVars
<1>4. ASSUME NEW g \in Mutators, ListAll(g) PROVE AloneInv'
  <2>. SUFFICES ASSUME ~overlap PROVE AloneInv'
    BY <1>4 DEF AloneInv, ListAll, mutVars
  <2>1. g \in Rebuilding /\ Rebuilding' = Rebuilding /\ store' = store /\ overlap' = overlap
    BY <1>4 DEF ListAll, Rebuilding, Step, TypeOK, mutVars
  <2>2. list'[g] = store \/ failed'
    BY <1>4 DEF ListAll, TypeOK
  <2>3. \A h \in Rebuilding : h = g
    BY <2>1 DEF AloneInv
  <2>4. \A h \in Mutators : pc'[h] = "listed" => h \in Rebuilding'
    BY DEF Rebuilding
  <2>5. \A h \in Mutators : pc'[h] = "listed" => list'[h] = store' \/ failed'
    BY <2>1, <2>2, <2>3, <2>4
  <2>. QED BY <2>1, <2>3, <2>5 DEF AloneInv
<1>5. ASSUME NEW g \in Mutators, StoreResolver(g) PROVE AloneInv'
  <2>. SUFFICES ASSUME ~overlap PROVE AloneInv'
    BY <1>5 DEF AloneInv, StoreResolver, mutVars
  <2>1. g \in Rebuilding /\ (list[g] = store \/ failed) /\ \A h \in Rebuilding : h = g
    BY <1>5 DEF StoreResolver, Rebuilding, AloneInv
  <2>2. Rebuilding' = {}
    BY <1>5, <2>1 DEF StoreResolver, Rebuilding, Step, TypeOK
  <2>3. resolver' = store' \/ failed'
    BY <1>5, <2>1 DEF StoreResolver, mutVars, readVars
  <2>. QED BY <2>2, <2>3 DEF AloneInv, Rebuilding
<1>6. ASSUME NEW s \in Sessions, Reset(s) \/ InitDecoder(s) PROVE AloneInv'
  BY <1>1, <1>6 DEF Reset, InitDecoder, Rebuilding, mutVars, readVars
<1>7. CASE UNCHANGED vars
  BY <1>1, <1>7 DEF vars, Rebuilding
<1>. QED
  BY <1>2, <1>3, <1>4, <1>5, <1>6, <1>7 DEF Next, Mutate, AfterMutation

-----------------------------------------------------------------------------
\* The inductive invariant holds in every reachable state.
THEOREM Inductive == Spec => []IInv
<1>1. IInv /\ [Next]_vars => IInv'
  BY TypeStep, UniqueStep, FollowStep, AloneStep DEF IInv
<1>. QED BY InitIInv, <1>1, PTL DEF Spec

\* Every reachable state has its types: no row without an id given out, no
\* update in flight without its mapping.
THEOREM TypeCorrect == Spec => []TypeOK
BY Inductive, PTL DEF IInv

\* (pattern, source) stays unique under any interleaving of Create, Update,
\* Delete and BulkSave.
THEOREM UniqueKeysHolds == Spec => []UniqueKeys
BY Inductive, PTL DEF IInv

\* A session with nothing to reload decodes with the service's resolver.
THEOREM SessionsFollowHolds == Spec => []SessionsFollow
BY Inductive, PTL DEF IInv

\* A change committed while no rebuild ran is in the resolver once all are done.
THEOREM AloneCurrentHolds == Spec => []AloneCurrent
<1>1. IInv => AloneCurrent
  BY DEF IInv, AloneInv, AloneCurrent
<1>. QED BY Inductive, <1>1, PTL

\* A batch keeps the id and the pin of the row under each of its keys.
LEMMA BatchKeeps ==
  ASSUME TypeOK, UniqueKeys, NEW g \in Mutators, BulkSave(g),
         NEW i \in Ids, store[i] # Absent, store'[i] # Absent
  PROVE  store'[i].key = store[i].key /\ (store'[i].pin = NoPin => store[i].pin = NoPin)
<1>1. PICK b \in Batches, row \in [Keys -> Ids] :
        /\ BatchRows(b, row) /\ \A n \in DOMAIN b : b[n] \in Docs
        /\ \A n \in DOMAIN b : IF Under(b[n].key) = {} THEN row[b[n].key] \notin used
                               ELSE row[b[n].key] \in Under(b[n].key)
  BY BatchStore
<1>2. PICK n \in DOMAIN b : row[b[n].key] = i /\ store'[i] = Merged(b[n]) /\ store'[i].key = b[n].key
  BY <1>1 DEF BatchRows
<1>3. i \in Under(b[n].key)
  BY <1>1, <1>2 DEF TypeOK
<1>4. Under(b[n].key) = {i}
  BY <1>3 DEF Under, UniqueKeys
<1>5. (CHOOSE j \in Under(b[n].key) : TRUE) = i
  BY <1>4
<1>6. store'[i].pin = IF b[n].pin = NoPin THEN store[i].pin ELSE b[n].pin
  BY <1>1, <1>2, <1>3, <1>5 DEF Merged, Docs
<1>. QED BY <1>2, <1>3, <1>6 DEF Under

\* Only an update renames a row or clears its pin.
THEOREM PinsKeptHolds == Spec => PinsKept
<1> DEFINE Kept ==
      \A g \in Mutators, i \in Ids :
        pc[g] = "idle" /\ pc'[g] = "committed" /\ store[i] # Absent /\ store'[i] # Absent
            => /\ store'[i].key = store[i].key
               /\ store'[i].pin = NoPin => store[i].pin = NoPin
<1>1. IInv /\ [Next]_vars => [Kept]_vars
  <2>. SUFFICES ASSUME IInv, Next, NEW g \in Mutators, NEW i \in Ids,
                       pc[g] = "idle", pc'[g] = "committed", store[i] # Absent, store'[i] # Absent
                PROVE  store'[i].key = store[i].key /\ (store'[i].pin = NoPin => store[i].pin = NoPin)
    OBVIOUS
  <2>1. Create(g) \/ Delete(g) \/ BulkSave(g)
    BY DEF Next, Mutate, AfterMutation, Create, UpdateGet, UpdateSave, UpdateRefused, Delete, BulkSave,
           ListAll, StoreResolver, Notify, Reset, InitDecoder, Committed, Step, IInv, TypeOK
  <2>2. CASE Create(g)
    BY <2>2 DEF Create, IInv, TypeOK, Stores
  <2>3. CASE Delete(g)
    BY <2>3 DEF Delete, IInv, TypeOK, Stores
  <2>4. CASE BulkSave(g)
    BY <2>4, BatchKeeps DEF IInv
  <2>. QED BY <2>1, <2>2, <2>3, <2>4
<1>. QED BY Inductive, <1>1, PTL DEF Spec, PinsKept
=============================================================================
