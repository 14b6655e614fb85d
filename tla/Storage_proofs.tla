--------------------------- MODULE Storage_proofs ---------------------------
(***************************************************************************)
(* Proofs about what outlives objects and processes, for any objects,      *)
(* nodes, references, tries, keys and files: the nodes of tries (Store),   *)
(* the keys that tries know by their hashes (FatTrie), the key store       *)
(* (SecretStore), and what a host saves of its network (SavedNetwork); and *)
(* about the sets of numbers that range masks hold, for any such numbers   *)
(* and masks (RangeMask).  They share no state.                            *)
(***************************************************************************)
EXTENDS Store, FatTrie, SecretStore, SavedNetwork, RangeMask, FiniteSetTheorems, WellFoundedInduction, TLAPS

\* The inductive invariant: a node that nobody has written to disk is counted
\* exactly in memory, and no user has saved it.
Exact(d, h) == h \notin disk => Refs(main[d], h) = held[d][h] /\ saved[d][h] = 0
IInv == TypeOK /\ \A d \in Db, h \in Hash : Exact(d, h)
-----------------------------------------------------------------------------
(* The operations of MemoryDB.                                             *)

MemoryOK(m) == DOMAIN m \in SUBSET Hash /\ m \in [DOMAIN m -> Nat]

\* insert adds one reference to one node.
LEMMA InsertedRefs ==
    ASSUME NEW m, MemoryOK(m), NEW h \in Hash
    PROVE  /\ MemoryOK(Inserted(m, h))
           /\ Refs(Inserted(m, h), h) = Refs(m, h) + 1
           /\ \A k \in Hash \ {h} : Refs(Inserted(m, h), k) = Refs(m, k)
  BY DEF MemoryOK, Inserted, Refs, Has

\* kill takes one reference from one node, if it has one in memory.
LEMMA KilledRefs ==
    ASSUME NEW m, MemoryOK(m), NEW h \in Hash
    PROVE  /\ MemoryOK(Killed(m, h))
           /\ Refs(Killed(m, h), h) = IF Refs(m, h) = 0 THEN 0 ELSE Refs(m, h) - 1
           /\ \A k \in Hash \ {h} : Refs(Killed(m, h), k) = Refs(m, k)
  BY DEF MemoryOK, Killed, Refs, Has

\* purge changes no count.
LEMMA PurgedRefs ==
    ASSUME NEW m, MemoryOK(m)
    PROVE  /\ MemoryOK(Purged(m))
           /\ \A k \in Hash : Refs(Purged(m), k) = Refs(m, k)
  BY DEF MemoryOK, Purged, Keys, Refs, Has

LEMMA NoEntriesRefs ==
    MemoryOK(NoEntries) /\ \A h \in Hash : Refs(NoEntries, h) = 0
  BY DEF MemoryOK, NoEntries, Refs, Has

\* A commit writes every node that has references.
LEMMA BatchRefs ==
    ASSUME NEW m, MemoryOK(m)
    PROVE  /\ Batch(m) \in SUBSET Hash
           /\ \A h \in Hash : h \notin Batch(m) => Refs(m, h) = 0
  BY DEF MemoryOK, Batch, Keys, Refs, Has

\* Types in terms of one object.
LEMMA Types ==
    TypeOK <=> /\ main = [d \in Db |-> main[d]]
               /\ \A d \in Db : MemoryOK(main[d])
               /\ disk \in SUBSET Hash
               /\ hasDisk \in BOOLEAN
               /\ held \in [Db -> [Hash -> Nat]]
               /\ saved \in [Db -> [Hash -> Nat]]
  BY DEF TypeOK, MemoryOK

LEMMA TypesNext ==
    TypeOK' <=> /\ main' = [d \in Db |-> main'[d]]
                /\ \A d \in Db : MemoryOK(main'[d])
                /\ disk' \in SUBSET Hash
                /\ hasDisk' \in BOOLEAN
                /\ held' \in [Db -> [Hash -> Nat]]
                /\ saved' \in [Db -> [Hash -> Nat]]
  BY DEF TypeOK, MemoryOK
-----------------------------------------------------------------------------
LEMMA InitInv == Init => IInv
  BY NoEntriesRefs, Types DEF Init, IInv, Exact, NoRefs

LEMMA RestartInv ==
    ASSUME IInv, Restart, disk \subseteq disk', disk' \in SUBSET Hash
    PROVE  IInv'
  <1>1. PICK from \in [Db -> Db] : /\ held' = [d \in Db |-> saved[from[d]]]
                                   /\ saved' = [d \in Db |-> saved[from[d]]]
    BY DEF Restart
  <1>2. TypeOK'
    BY <1>1, NoEntriesRefs, Types, TypesNext DEF Restart, IInv
  <1>3. ASSUME NEW d \in Db, NEW h \in Hash
        PROVE  Exact(d, h)'
    <2>1. Exact(from[d], h)
      BY DEF IInv
    <2> QED
      BY <1>1, <2>1, NoEntriesRefs DEF Exact, Restart
  <1> QED
    BY <1>2, <1>3 DEF IInv

LEMMA NextInv == IInv /\ [Next]_vars => IInv'
  <1> SUFFICES ASSUME IInv, [Next]_vars PROVE IInv'
    OBVIOUS
  <1> USE Types, TypesNext
  <1>1. ASSUME NEW d \in Db, NEW h \in Hash, Insert(d, h)
        PROVE  IInv'
    <2>1. MemoryOK(main[d])
      BY DEF IInv
    <2>2. TypeOK'
      <3>1. main' = [e \in Db |-> main'[e]] /\ \A e \in Db : MemoryOK(main'[e])
        BY <1>1, <2>1, InsertedRefs DEF Insert, IInv
      <3>2. held' \in [Db -> [Hash -> Nat]]
        BY <1>1 DEF Insert, IInv
      <3> QED
        BY <1>1, <3>1, <3>2 DEF Insert, IInv
    <2>3. ASSUME NEW e \in Db, NEW k \in Hash
          PROVE  Exact(e, k)'
      <3>1. Exact(e, k)
        BY DEF IInv
      <3>2. Refs(main[e], k)' = IF e = d /\ k = h THEN Refs(main[e], k) + 1 ELSE Refs(main[e], k)
        BY <1>1, <2>1, InsertedRefs DEF Insert, IInv
      <3> QED
        BY <1>1, <3>1, <3>2 DEF Insert, Exact, IInv
    <2> QED
      BY <2>2, <2>3 DEF IInv
  <1>2. ASSUME NEW d \in Db, NEW h \in Hash, Kill(d, h)
        PROVE  IInv'
    <2>1. MemoryOK(main[d])
      BY DEF IInv
    <2>2. TypeOK'
      <3>1. main' = [e \in Db |-> main'[e]] /\ \A e \in Db : MemoryOK(main'[e])
        BY <1>2, <2>1, KilledRefs DEF Kill, IInv
      <3>2. held' \in [Db -> [Hash -> Nat]]
        <4>1. held \in [Db -> [Hash -> Nat]] /\ held[d] \in [Hash -> Nat] /\ held[d][h] \in Nat
          BY DEF IInv
        <4>2. (IF held[d][h] = 0 THEN 0 ELSE held[d][h] - 1) \in Nat
          BY <4>1
        <4> QED
          BY <1>2, <4>1, <4>2 DEF Kill
      <3> QED
        BY <1>2, <3>1, <3>2 DEF Kill, IInv
    <2>3. ASSUME NEW e \in Db, NEW k \in Hash
          PROVE  Exact(e, k)'
      <3>1. Exact(e, k)
        BY DEF IInv
      <3>2. Refs(main[e], k)' = IF e = d /\ k = h
                                THEN IF Refs(main[e], k) = 0 THEN 0 ELSE Refs(main[e], k) - 1
                                ELSE Refs(main[e], k)
        BY <1>2, <2>1, KilledRefs DEF Kill, IInv
      <3> QED
        BY <1>2, <3>1, <3>2 DEF Kill, Exact, IInv
    <2> QED
      BY <2>2, <2>3 DEF IInv
  <1>3. ASSUME NEW d \in Db, Purge(d)
        PROVE  IInv'
    <2>1. MemoryOK(main[d])
      BY DEF IInv
    <2>2. TypeOK'
      BY <1>3, <2>1, PurgedRefs DEF Purge, IInv
    <2>3. ASSUME NEW e \in Db, NEW k \in Hash
          PROVE  Exact(e, k)'
      <3>1. Exact(e, k) /\ Refs(main[e], k)' = Refs(main[e], k)
        BY <1>3, <2>1, PurgedRefs DEF Purge, IInv
      <3> QED
        BY <1>3, <3>1 DEF Purge, Exact
    <2> QED
      BY <2>2, <2>3 DEF IInv
  <1>4. ASSUME NEW d \in Db, Commit(d)
        PROVE  IInv'
    <2>1. CASE ~ hasDisk
      BY <1>4, <2>1 DEF Commit, IInv, Exact
    <2>2. CASE hasDisk
      <3>1. MemoryOK(main[d])
        BY DEF IInv
      <3>2. TypeOK'
        BY <1>4, <2>2, <3>1, NoEntriesRefs, BatchRefs DEF Commit, IInv
      <3>3. ASSUME NEW e \in Db, NEW k \in Hash
            PROVE  Exact(e, k)'
        <4>1. Exact(e, k)
          BY DEF IInv
        <4>2. e = d /\ k \notin disk' => Refs(main[e], k) = 0
          BY <1>4, <2>2, <3>1, BatchRefs DEF Commit
        <4>3. Refs(main[e], k)' = IF e = d THEN 0 ELSE Refs(main[e], k)
          BY <1>4, <2>2, NoEntriesRefs DEF Commit, IInv
        <4> QED
          BY <1>4, <2>2, <4>1, <4>2, <4>3 DEF Commit, Exact, IInv
      <3> QED
        BY <3>2, <3>3 DEF IInv
    <2> QED
      BY <2>1, <2>2 DEF IInv
  <1>5. ASSUME NEW d \in Db, CommitDies(d)
        PROVE  IInv'
    <2>1. disk \subseteq disk' /\ disk' \in SUBSET Hash
      BY <1>5, BatchRefs DEF CommitDies, IInv
    <2> QED
      BY <1>5, <2>1, RestartInv DEF CommitDies
  <1>6. ASSUME NEW d \in Db, Rollback(d)
        PROVE  IInv'
    <2>1. TypeOK'
      BY <1>6, NoEntriesRefs DEF Rollback, IInv
    <2>2. ASSUME NEW e \in Db, NEW k \in Hash
          PROVE  Exact(e, k)'
      <3>1. Exact(e, k)
        BY DEF IInv
      <3>2. Refs(main[e], k)' = IF e = d THEN 0 ELSE Refs(main[e], k)
        BY <1>6, NoEntriesRefs DEF Rollback, IInv
      <3> QED
        BY <1>6, <3>1, <3>2 DEF Rollback, Exact, IInv
    <2> QED
      BY <2>1, <2>2 DEF IInv
  <1>7. ASSUME NEW d \in Db, NEW e \in Db, Copy(d, e)
        PROVE  IInv'
    <2>1. TypeOK'
      BY <1>7 DEF Copy, IInv
    <2>2. ASSUME NEW f \in Db, NEW k \in Hash
          PROVE  Exact(f, k)'
      <3>1. Exact(f, k) /\ Exact(d, k)
        BY DEF IInv
      <3>2. main'[f] = IF f = e THEN main[d] ELSE main[f]
        BY <1>7 DEF Copy, IInv
      <3> QED
        BY <1>7, <3>1, <3>2 DEF Copy, Exact, IInv
    <2> QED
      BY <2>1, <2>2 DEF IInv
  <1>8. CASE Crash
    BY <1>8, RestartInv DEF Crash, IInv
  <1>9. CASE UNCHANGED vars
    BY <1>9 DEF vars, IInv, Exact
  <1> QED
    BY <1>1, <1>2, <1>3, <1>4, <1>5, <1>6, <1>7, <1>8, <1>9 DEF Next

\* The inductive invariant holds in every reachable state: what MemoryDB::kill
\* and OverlayDB::commit rely on.
THEOREM Invariance == Spec => []IInv
  BY InitInv, NextInv, PTL DEF Spec

\* A node to which its user holds a reference is found: MemoryDB::lookup and
\* OverlayDB::lookup together never miss it.
THEOREM ReferencedAreFound == Spec => []ReferencedFound
  <1>1. IInv => ReferencedFound
    <2> SUFFICES ASSUME IInv, NEW d \in Db, NEW h \in Hash, held[d][h] > 0,
                        NEW enforce \in BOOLEAN
                 PROVE  Exists(main[d], disk, h, enforce)
      BY DEF ReferencedFound
    <2>1. Exact(d, h) /\ held[d][h] \in Nat
      BY DEF IInv, TypeOK
    <2> QED
      BY <2>1 DEF Exact, Exists, InMemory, Refs, Has
  <1> QED
    BY <1>1, Invariance, PTL

\* What a user had when it committed stays on disk: OverlayDB::commit never
\* deletes, whatever other users do.
THEOREM SavedStaysOnDisk == Spec => []SavedOnDisk
  <1>1. IInv => SavedOnDisk
    <2> SUFFICES ASSUME IInv, NEW d \in Db, NEW h \in Hash, saved[d][h] > 0
                 PROVE  h \in disk
      BY DEF SavedOnDisk
    <2>1. Exact(d, h)
      BY DEF IInv
    <2> QED
      BY <2>1 DEF Exact
  <1> QED
    BY <1>1, Invariance, PTL

\* The count of a node that nobody has written is exact: MemoryDB::insert and
\* kill balance.
THEOREM CountsAreExact == Spec => []ExactUntilWritten
  <1>1. IInv => ExactUntilWritten
    BY DEF IInv, Exact, ExactUntilWritten
  <1> QED
    BY <1>1, Invariance, PTL
-----------------------------------------------------------------------------
(* The keys of FatGenericTrieDB.  KeysKnown is not inductive: a rollback    *)
(* and a restart go back to earlier keys, which must be on disk by then,    *)
(* as those in m_aux may be gone.                                           *)

Known(d, t, k) == k \in aux[d] \/ (auxOnDisk /\ k \in diskAux)

FatTypeOK == /\ trieKeys \in [Overlay -> [Trie -> SUBSET TrieKey]]
             /\ trieSaved \in [Overlay -> [Trie -> SUBSET TrieKey]]
             /\ aux \in [Overlay -> SUBSET TrieKey]

FatInv == /\ FatTypeOK
          /\ \A d \in Overlay, t \in Trie :
                /\ \A k \in trieKeys[d][t] : Known(d, t, k)
                /\ \A k \in trieSaved[d][t] : auxOnDisk /\ k \in diskAux

LEMMA FatInitInv == FatInit => FatInv
  BY DEF FatInit, FatInv, FatTypeOK, Known

LEMMA FatNextInv == FatInv /\ [FatNext]_(fatVars) => FatInv'
  <1> SUFFICES ASSUME FatInv, [FatNext]_(fatVars) PROVE FatInv'
    OBVIOUS
  <1> USE DEF FatInv, FatTypeOK, Known
  <1>1. ASSUME NEW d \in Overlay, NEW t \in Trie, NEW k \in TrieKey, InsertKey(d, t, k) PROVE FatInv'
    BY <1>1 DEF InsertKey
  <1>2. ASSUME NEW d \in Overlay, NEW t \in Trie, NEW k \in TrieKey, RemoveKey(d, t, k) PROVE FatInv'
    BY <1>2 DEF RemoveKey
  <1>3. ASSUME NEW d \in Overlay, CommitKeys(d) PROVE FatInv'
    <2>1. FatTypeOK'
      BY <1>3 DEF CommitKeys
    <2>2. ASSUME NEW e \in Overlay, NEW t \in Trie, NEW k \in trieKeys'[e][t] PROVE Known(e, t, k)'
      BY <1>3, <2>2 DEF CommitKeys
    <2>3. ASSUME NEW e \in Overlay, NEW t \in Trie, NEW k \in trieSaved'[e][t] PROVE (auxOnDisk /\ k \in diskAux)'
      BY <1>3, <2>3 DEF CommitKeys
    <2> QED  BY <2>1, <2>2, <2>3
  <1>4. ASSUME NEW d \in Overlay, RollbackKeys(d) PROVE FatInv'
    BY <1>4 DEF RollbackKeys
  <1>5. ASSUME NEW d \in Overlay, NEW e \in Overlay, CopyKeys(d, e) PROVE FatInv'
    BY <1>5 DEF CopyKeys
  <1>6. CASE CrashKeys
    BY <1>6 DEF CrashKeys
  <1>7. CASE UNCHANGED fatVars
    BY <1>7 DEF fatVars
  <1> QED  BY <1>1, <1>2, <1>3, <1>4, <1>5, <1>6, <1>7 DEF FatNext

\* An iterator of a FatGenericTrieDB finds the key behind each hash of its trie:
\* removing a key leaves it in m_aux for the other tries that have it, and what
\* a rollback or a restart goes back to is on disk (FatGenericTrieDB::remove,
\* OverlayDB::commit, rollback).
THEOREM KeysAreKnown == FatSpec => []KeysKnown
  <1>1. FatInv => KeysKnown
    BY DEF FatInv, FatTypeOK, Known, KeysKnown, At, lookupAux
  <1> QED  BY <1>1, FatInitInv, FatNextInv, PTL DEF FatSpec

-----------------------------------------------------------------------------
(* The key store: what save leaves in the directory wherever it stops, and *)
(* that secrets stay what they were.                                       *)

SavePlace == {Idle} \cup [at : {"next"}, todo : SUBSET Uuid]
             \cup [at : {"write"}, id : Uuid, todo : SUBSET Uuid]
             \cup [at : {"remove"}, name : Name, todo : SUBSET Uuid]

KeysTypeOK == /\ files \in [Name -> Key \cup {Absent, Broken, OddJSON}]
              /\ keys \in [Uuid -> Record \cup {Absent}]
              /\ cached \in [Uuid -> {Absent, "right", "wrong"}]
              /\ save \in SavePlace
              /\ dirty \in BOOLEAN /\ stored \subseteq Uuid /\ unflushed \subseteq Uuid /\ faults \in Nat

\* A file that holds a key holds u.
Owned(n, u) == IsKey(files[n]) => files[n].id = u

\* The file of an id holds no other key, and a key in memory came from a file that
\* holds no other key.
OwnFiles == /\ \A u \in Uuid : Owned(u, u)
            /\ \A u \in Uuid : keys[u] # Absent =>
                  /\ keys[u].enc.id = u
                  /\ keys[u].file # Absent => Owned(keys[u].file, u)
                  /\ keys[u].file \in Uuid => keys[u].file = u

Written(u) == keys[u] # Absent /\ keys[u].file = u /\ files[u] = keys[u].enc

\* save has written the keys that it is through with, if their writes were not lost,
\* and removes only files whose key it has written to another one.
Saving == save # Idle =>
    /\ \A u \in save.todo : keys[u] # Absent
    /\ save.at = "write" => keys[save.id] # Absent /\ save.id \notin save.todo
    /\ save.at = "remove" => /\ save.name \notin Uuid
                             /\ IsKey(files[save.name]) =>
                                    Written(files[save.name].id) \/ files[save.name].id \in unflushed
    /\ \A u \in Uuid \ unflushed :
          keys[u] # Absent /\ u \notin save.todo /\ (save.at = "write" => u # save.id) => Written(u)

\* A secret is cached only of a key that is there.
CachedKnown == \A u \in Uuid : cached[u] # Absent => keys[u] # Absent

KeysInv == KeysTypeOK /\ OwnFiles /\ Saving /\ SavedAsKept
-----------------------------------------------------------------------------
(* Keys, files and load *)

DiskOK == files \in [Name -> Key \cup {Absent, Broken, OddJSON}]

\* What is in a file is a key or not.
LEMMA KeyValues ==
    ASSUME SecretStoreConstants, DiskOK
    PROVE  /\ \A n \in Name : IsKey(files[n]) <=> files[n] \in Key
           /\ \A k \in Key : IsKey(k)
           /\ ~IsKey(Absent) /\ ~IsKey(Broken)
           /\ Absent \notin Name
  BY DEF SecretStoreConstants, Distinct, DiskOK, IsKey

\* What load puts into memory: of each id, a file's key.
LEMMA LoadedKeys ==
    ASSUME SecretStoreConstants, DiskOK, NEW k, Loaded(k)
    PROVE  /\ k \in [Uuid -> Record \cup {Absent}]
           /\ \A u \in Uuid : k[u] # Absent =>
                 /\ k[u].file \in Name /\ IsKey(files[k[u].file]) /\ files[k[u].file].id = u
                 /\ k[u].enc = files[k[u].file] /\ k[u].enc \in Key
  <1>1. PICK seen \in SUBSET {n \in Name : IsKey(files[n])}, last \in [Uuid -> Name] :
           /\ \A u \in Uuid : seen \cap FilesOf(u) # {} => last[u] \in seen \cap FilesOf(u)
           /\ k = [u \in Uuid |-> IF seen \cap FilesOf(u) = {} THEN Absent
                                  ELSE [enc |-> files[last[u]], file |-> last[u]]]
    BY DEF Loaded
  <1>2. ASSUME NEW u \in Uuid, seen \cap FilesOf(u) # {}
        PROVE  /\ last[u] \in Name /\ IsKey(files[last[u]]) /\ files[last[u]].id = u
               /\ files[last[u]] \in Key
    BY <1>1, <1>2, KeyValues DEF FilesOf
  <1>3. ASSUME NEW u \in Uuid
        PROVE  k[u] = Absent \/ (seen \cap FilesOf(u) # {} /\ k[u] = [enc |-> files[last[u]], file |-> last[u]])
    BY <1>1
  <1>4. k \in [Uuid -> Record \cup {Absent}]
    BY <1>1, <1>2 DEF Record
  <1> QED  BY <1>2, <1>3, <1>4

\* The invariant once the store has been read anew.
LEMMA LoadedInv ==
    ASSUME SecretStoreConstants, KeysTypeOK, \A u \in Uuid : Owned(u, u), Loaded(keys'),
           files' = files, save' = Idle, cached' = [u \in Uuid |-> Absent], dirty' = FALSE,
           stored' \subseteq Uuid, unflushed' = {}, faults' \in Nat
    PROVE  KeysInv'
  <1> USE DEF DiskOK
  <1>1. keys' \in [Uuid -> Record \cup {Absent}]
    BY LoadedKeys DEF KeysTypeOK
  <1>2. ASSUME NEW u \in Uuid, keys'[u] # Absent
        PROVE  /\ keys'[u].file \in Name /\ IsKey(files[keys'[u].file])
               /\ files[keys'[u].file].id = u /\ keys'[u].enc = files[keys'[u].file]
    BY <1>2, LoadedKeys DEF KeysTypeOK
  <1>3. KeysTypeOK'
    BY <1>1 DEF KeysTypeOK, SavePlace
  <1>4. OwnFiles'
    BY <1>2 DEF OwnFiles, Owned, IsKey
  <1>5. SavedAsKept'
    BY <1>2, KeyValues DEF SavedAsKept, KeysTypeOK
  <1>6. Saving'
    BY DEF Saving
  <1> QED  BY <1>3, <1>4, <1>5, <1>6 DEF KeysInv

LEMMA KeysInit == SecretStoreConstants /\ SecretInit => KeysInv
  <1> SUFFICES ASSUME SecretStoreConstants, SecretInit PROVE KeysInv
    OBVIOUS
  <1> USE DEF DiskOK
  <1>1. files \in [Name -> Key \cup {Absent, Broken, OddJSON}]
    BY DEF SecretInit
  <1>2. \A u \in Uuid : Owned(u, u)
    BY DEF SecretInit, Owned
  <1>3. keys \in [Uuid -> Record \cup {Absent}]
    BY <1>1, LoadedKeys DEF SecretInit
  <1>4. ASSUME NEW u \in Uuid, keys[u] # Absent
        PROVE  /\ keys[u].file \in Name /\ IsKey(files[keys[u].file])
               /\ files[keys[u].file].id = u /\ keys[u].enc = files[keys[u].file]
    BY <1>1, <1>4, LoadedKeys DEF SecretInit
  <1>5. KeysTypeOK
    BY <1>1, <1>3 DEF KeysTypeOK, SavePlace, SecretInit
  <1>6. OwnFiles
    BY <1>2, <1>4 DEF OwnFiles, Owned, IsKey
  <1>7. SavedAsKept
    BY <1>1, <1>4, KeyValues DEF SavedAsKept
  <1>8. Saving
    BY DEF Saving, SecretInit
  <1> QED  BY <1>5, <1>6, <1>7, <1>8 DEF KeysInv
-----------------------------------------------------------------------------
(* save *)

\* What a key in memory is.
LEMMA KeyInMemory ==
    ASSUME SecretStoreConstants, KeysInv, NEW u \in Uuid, keys[u] # Absent
    PROVE  /\ keys[u] \in Record /\ keys[u].enc \in Key /\ keys[u].enc.id = u
           /\ keys[u].file = Absent \/ (keys[u].file \in Name /\ Owned(keys[u].file, u))
           /\ keys[u].file \in Uuid => keys[u].file = u
  BY DEF KeysInv, KeysTypeOK, OwnFiles, Record

LEMMA SaveNextInv == ASSUME SecretStoreConstants, KeysInv, NEW u \in Uuid, SaveNext(u) PROVE KeysInv'
  <1> USE DEF SaveNext, DiskOK
  <1>1. save \in [at : {"next"}, todo : SUBSET Uuid]
    BY DEF KeysInv, KeysTypeOK, SavePlace, Idle
  <1>2. u \in Name /\ ~IsKey(Broken) /\ save' # Idle
    BY DEF Name, IsKey, Idle
  <1>3. KeysTypeOK'
    BY <1>1, <1>2 DEF KeysInv, KeysTypeOK, SavePlace
  <1>4. OwnFiles'
    BY <1>2, <1>3 DEF KeysInv, KeysTypeOK, OwnFiles, Owned
  <1>5. Saving'
    BY <1>1, <1>2 DEF KeysInv, KeysTypeOK, Saving, Written, Idle
  <1>6. SavedAsKept'
    BY <1>2 DEF SavedAsKept
  <1> QED  BY <1>3, <1>4, <1>5, <1>6 DEF KeysInv

\* Whether the system keeps what is written or not.
LEMMA SaveWritesInv ==
    ASSUME SecretStoreConstants, KeysInv, SaveWrites \/ SaveLosesWrite
    PROVE  KeysInv'
  <1>1. save \in [at : {"write"}, id : Uuid, todo : SUBSET Uuid]
    BY DEF KeysInv, KeysTypeOK, SavePlace, Idle, SaveWrites, SaveLosesWrite
  <1>a. PICK u \in Uuid : u = save.id
    BY <1>1
  <1>b. PICK old : old = keys[u].file
    OBVIOUS
  <1>2. u \in Name /\ keys[u] # Absent /\ u \notin save.todo /\ save # Idle
    <2>1. save.at = "write"
      BY DEF SaveWrites, SaveLosesWrite
    <2> QED  BY <1>1, <1>a, <2>1 DEF KeysInv, Saving, Name, Idle
  <1>3. /\ keys[u] \in Record /\ keys[u].enc \in Key /\ keys[u].enc.id = u
        /\ old = Absent \/ (old \in Name /\ Owned(old, u))
        /\ old \in Uuid => old = u
    BY <1>b, <1>2, KeyInMemory
  <1>4. /\ \/ files' = [files EXCEPT ![u] = keys[u].enc] /\ unflushed' = unflushed \ {u}
           \/ files' = files /\ unflushed' = unflushed \cup {u}
        /\ keys' = [keys EXCEPT ![u].file = u]
        /\ save' = IF old # Absent /\ old # u THEN [at |-> "remove", name |-> old, todo |-> save.todo]
                                            ELSE [at |-> "next", todo |-> save.todo]
        /\ UNCHANGED <<cached, dirty, stored>> /\ faults' \in Nat
    <2>1. CASE SaveWrites
      BY <1>a, <1>b, <2>1 DEF SaveWrites, AfterWriting, Obsolete, KeysInv, KeysTypeOK
    <2>2. CASE SaveLosesWrite
      BY <1>a, <1>b, <2>2 DEF SaveLosesWrite, AfterWriting, Obsolete, KeysInv, KeysTypeOK
    <2> QED  BY <2>1, <2>2
  <1>5. save' # Idle /\ save'.todo = save.todo /\ save'.at # "write"
    BY <1>4 DEF Idle
  <1>6. keys'[u] = [enc |-> keys[u].enc, file |-> u] /\ keys'[u] \in Record
    BY <1>2, <1>3, <1>4 DEF KeysInv, KeysTypeOK, Record
  <1>7. keys'[u] # Absent /\ keys'[u].file = u /\ keys'[u].enc = keys[u].enc
    BY <1>6 DEF SecretStoreConstants, Distinct
  <1>8. \A v \in Uuid \ {u} : keys'[v] = keys[v]
    BY <1>4 DEF KeysInv, KeysTypeOK
  <1>9. /\ files'[u] = keys[u].enc \/ (files'[u] = files[u] /\ u \in unflushed')
        /\ \A n \in Name \ {u} : files'[n] = files[n]
        /\ \A v \in Uuid \ {u} : v \in unflushed' <=> v \in unflushed
    BY <1>2, <1>4 DEF KeysInv, KeysTypeOK
  <1>10. KeysTypeOK'
    <2>1. files' \in [Name -> Key \cup {Absent, Broken, OddJSON}]
      BY <1>3, <1>4 DEF KeysInv, KeysTypeOK
    <2>2. keys' \in [Uuid -> Record \cup {Absent}]
      BY <1>4, <1>6, <1>8 DEF KeysInv, KeysTypeOK
    <2>3. save' \in SavePlace
      BY <1>1, <1>3, <1>4 DEF SavePlace
    <2>4. unflushed' \subseteq Uuid
      BY <1>4 DEF KeysInv, KeysTypeOK
    <2> QED  BY <1>4, <2>1, <2>2, <2>3, <2>4 DEF KeysInv, KeysTypeOK
  <1>11. Written(u)' \/ u \in unflushed'
    BY <1>7, <1>9 DEF Written
  <1>12. OwnFiles'
    <2>1. \A v \in Uuid : Owned(v, v)'
      BY <1>3, <1>9 DEF KeysInv, OwnFiles, Owned, Name
    <2>2. ASSUME NEW v \in Uuid, keys'[v] # Absent
          PROVE  /\ keys'[v].enc.id = v
                 /\ keys'[v].file # Absent => Owned(keys[v].file, v)'
                 /\ keys'[v].file \in Uuid => keys'[v].file = v
      <3>1. CASE v = u
        BY <1>3, <1>7, <2>1, <3>1
      <3>2. CASE v # u
        <4>1. keys'[v] = keys[v]
          BY <1>8, <3>2
        <4>2. /\ keys[v].enc.id = v
              /\ keys[v].file = Absent \/ (keys[v].file \in Name /\ Owned(keys[v].file, v))
              /\ keys[v].file \in Uuid => keys[v].file = v
          BY <2>2, <4>1, KeyInMemory
        <4>3. keys[v].file # u
          BY <1>2, <3>2, <4>2
        <4> QED  BY <1>9, <4>1, <4>2, <4>3 DEF Owned
      <3> QED  BY <3>1, <3>2
    <2> QED  BY <2>1, <2>2 DEF OwnFiles
  <1>13. Saving'
    <2>1. \A v \in Uuid : v # u /\ Written(v) => Written(v)'
      BY <1>8, <1>9 DEF Written, Name
    <2>2. \A v \in Uuid \ unflushed' : keys'[v] # Absent /\ v \notin save.todo => Written(v)'
      BY <1>1, <1>2, <1>8, <1>9, <1>11, <1>a, <2>1 DEF KeysInv, Saving
    <2>3. \A v \in save.todo : keys'[v] # Absent
      BY <1>1, <1>2, <1>7, <1>8 DEF KeysInv, Saving
    <2>4. ASSUME save'.at = "remove"
          PROVE  save'.name \notin Uuid /\ (IsKey(files[save.name]) => Written(files[save.name].id) \/ files[save.name].id \in unflushed)'
      <3>1. old # Absent /\ old # u /\ save'.name = old
        BY <1>4, <2>4
      <3>2. old \in Name /\ old \notin Uuid /\ Owned(old, u)
        BY <1>3, <3>1
      <3>3. files'[old] = files[old]
        BY <1>9, <3>1, <3>2
      <3> QED  BY <1>11, <3>1, <3>2, <3>3 DEF Owned
    <2> QED  BY <1>5, <2>2, <2>3, <2>4 DEF Saving
  <1>14. SavedAsKept'
    BY <1>5 DEF SavedAsKept
  <1> QED  BY <1>10, <1>12, <1>13, <1>14 DEF KeysInv

LEMMA SaveRemovesInv == ASSUME SecretStoreConstants, KeysInv, SaveRemoves PROVE KeysInv'
  <1> USE DEF SaveRemoves, DiskOK
  <1>1. save \in [at : {"remove"}, name : Name, todo : SUBSET Uuid]
    BY DEF KeysInv, KeysTypeOK, SavePlace, Idle
  <1>2. save # Idle /\ save.name \in Name /\ save.name \notin Uuid
    BY <1>1 DEF KeysInv, Saving, Idle
  <1>3. files'[save.name] = Absent /\ \A n \in Name \ {save.name} : files'[n] = files[n]
    BY <1>2 DEF KeysInv, KeysTypeOK
  <1>4. KeysTypeOK'
    BY <1>1 DEF KeysInv, KeysTypeOK, SavePlace
  <1>5. \A n \in Name, u \in Uuid : Owned(n, u) => Owned(n, u)'
    BY <1>3 DEF Owned, IsKey
  <1>6. OwnFiles'
    BY <1>5, KeyInMemory DEF KeysInv, OwnFiles, Name
  <1>7. unflushed' = unflushed /\ \A u \in Uuid : Written(u) => Written(u)'
    BY <1>2, <1>3 DEF Written, Name
  <1>8. save' # Idle /\ save'.at = "next" /\ save'.todo = save.todo
    BY DEF Idle
  <1>9. Saving'
    BY <1>1, <1>2, <1>7, <1>8 DEF KeysInv, Saving
  <1>10. SavedAsKept'
    BY <1>8 DEF SavedAsKept
  <1> QED  BY <1>4, <1>6, <1>9, <1>10 DEF KeysInv

\* When save is through, all keys are written; when it fails, that is noted.
LEMMA SaveEndsInv == ASSUME SecretStoreConstants, KeysInv, SaveDone \/ SaveFails PROVE KeysInv'
  <1> USE DEF SaveDone, SaveFails
  <1>1. files' = files /\ keys' = keys /\ save' = Idle /\ dirty' \in BOOLEAN
    OBVIOUS
  <1>2. KeysTypeOK'
    <2>1. stored' \subseteq Uuid /\ faults' \in Nat
      BY DEF KeysInv, KeysTypeOK
    <2> QED  BY <1>1, <2>1 DEF KeysInv, KeysTypeOK, SavePlace
  <1>3. OwnFiles'
    BY <1>1 DEF KeysInv, OwnFiles, Owned
  <1>4. Saving'
    BY <1>1 DEF Saving
  <1>5. SavedAsKept'
    <2>1. CASE SaveFails
      BY <2>1 DEF SavedAsKept
    <2>2. CASE SaveDone
      <3>1. unflushed' = unflushed /\ \A u \in Uuid \ unflushed : keys[u] # Absent => Written(u)
        BY <2>2 DEF KeysInv, Saving, Idle
      <3>2. \A u \in Uuid : u # Absent
        BY DEF SecretStoreConstants, Distinct, Name
      <3> QED  BY <1>1, <3>1, <3>2 DEF SavedAsKept, Written
    <2> QED  BY <2>1, <2>2
  <1> QED  BY <1>2, <1>3, <1>4, <1>5 DEF KeysInv
-----------------------------------------------------------------------------
(* The operations *)

LEMMA RestartKeysInv == ASSUME SecretStoreConstants, KeysInv, RestartKeys PROVE KeysInv'
  <1>1. stored' \subseteq Uuid /\ faults' \in Nat
    BY DEF RestartKeys, KeysInv, KeysTypeOK
  <1> QED  BY <1>1, LoadedInv DEF RestartKeys, KeysInv, OwnFiles

\* A key comes to be in memory, or another one in its place.
LEMMA OwnFilesInv ==
    ASSUME SecretStoreConstants, KeysInv, files' = files,
           NEW u \in Uuid, NEW r \in Record, keys' = [keys EXCEPT ![u] = r],
           r.enc.id = u,
           r.file # Absent => Owned(r.file, u),
           r.file \in Uuid => r.file = u
    PROVE  keys' \in [Uuid -> Record \cup {Absent}] /\ OwnFiles'
  <1>1. keys' \in [Uuid -> Record \cup {Absent}]
    BY DEF KeysInv, KeysTypeOK
  <1>2. keys'[u] = r /\ \A v \in Uuid \ {u} : keys'[v] = keys[v]
    BY DEF KeysInv, KeysTypeOK
  <1>3. OwnFiles'
    BY <1>2 DEF KeysInv, OwnFiles, Owned
  <1> QED  BY <1>1, <1>3

\* save begins, and has all keys before it.
LEMMA SaveAllInv ==
    ASSUME SecretStoreConstants, KeysInv, files' = files, save' = SaveAll,
           keys' \in [Uuid -> Record \cup {Absent}], OwnFiles',
           cached' \in [Uuid -> {Absent, "right", "wrong"}],
           UNCHANGED <<dirty, stored, unflushed, faults>>
    PROVE  KeysInv'
  <1>1. save' # Idle /\ save'.at = "next" /\ save'.todo = {u \in Uuid : keys'[u] # Absent}
    BY DEF SaveAll, Idle
  <1>2. KeysTypeOK'
    BY DEF KeysInv, KeysTypeOK, SavePlace, SaveAll
  <1>3. Saving'
    BY <1>1 DEF Saving
  <1>4. SavedAsKept'
    BY <1>1 DEF SavedAsKept
  <1> QED  BY <1>2, <1>3, <1>4 DEF KeysInv

LEMMA ReadContentInv ==
    ASSUME SecretStoreConstants, KeysInv, NEW key \in Key, ReadKeyContent(key) \/ ImportKey(key)
    PROVE  KeysInv'
  <1> USE DEF ReadKeyContent, ImportKey, ReadContent
  <1> DEFINE r == [enc |-> key, file |-> Absent]
  <1>1. key.id \in Uuid /\ r \in Record /\ r.file \notin Uuid /\ r.enc.id = key.id /\ r.file = Absent
    BY DEF Key, Record, SecretStoreConstants, Distinct, Name
  <1>2. keys' = [keys EXCEPT ![key.id] = r] /\ files' = files
    OBVIOUS
  <1>3. keys' \in [Uuid -> Record \cup {Absent}] /\ OwnFiles'
    BY <1>1, <1>2, OwnFilesInv
  <1>4. CASE ImportKey(key)
    <2>1. cached' \in [Uuid -> {Absent, "right", "wrong"}] /\ save' = SaveAll /\ UNCHANGED <<dirty, stored, unflushed, faults>>
      BY <1>4 DEF KeysInv, KeysTypeOK
    <2> QED  BY <1>2, <1>3, <2>1, SaveAllInv
  <1>5. CASE ReadKeyContent(key)
    BY <1>3, <1>5 DEF KeysInv, KeysTypeOK, Saving, SavedAsKept
  <1> QED  BY <1>4, <1>5

LEMMA ReadKeyInv == ASSUME SecretStoreConstants, KeysInv, NEW n \in Name, ReadKey(n) PROVE KeysInv'
  <1> USE DEF ReadKey
  <1> DEFINE u == files[n].id
             r == [enc |-> files[n], file |-> n]
  <1>1. files[n] \in Key /\ n # Absent
    BY KeyValues DEF KeysInv, KeysTypeOK, DiskOK
  <1>2. u \in Uuid /\ r \in Record /\ r.enc.id = u /\ Owned(r.file, u)
    BY <1>1 DEF Key, Record, Owned
  <1>3. r.file \in Uuid => r.file = u
    BY DEF KeysInv, OwnFiles, Owned
  <1>4. keys' = [keys EXCEPT ![u] = r] /\ files' = files
    OBVIOUS
  <1>5. keys' \in [Uuid -> Record \cup {Absent}] /\ OwnFiles'
    BY <1>2, <1>3, <1>4, OwnFilesInv
  <1>6. SavedAsKept'
    <2>1. \A v \in Uuid : keys'[v] = IF v = u THEN r ELSE keys[v]
      BY <1>2, <1>4 DEF KeysInv, KeysTypeOK
    <2> QED  BY <1>1, <2>1 DEF KeysInv, SavedAsKept
  <1>7. KeysTypeOK' /\ Saving'
    BY <1>5 DEF KeysInv, KeysTypeOK, Saving
  <1> QED  BY <1>5, <1>6, <1>7 DEF KeysInv

LEMMA ImportSecretInv ==
    ASSUME SecretStoreConstants, KeysInv, NEW u \in Uuid, NEW pass \in Pass, ImportSecret(u, pass)
    PROVE  KeysInv'
  <1> USE DEF ImportSecret
  <1> DEFINE r == [enc |-> [id |-> u, pass |-> pass, mac |-> TRUE, secret |-> "right"], file |-> Absent]
  <1>1. r \in Record /\ r.file \notin Uuid /\ r.enc.id = u /\ r.file = Absent
    BY DEF Key, Record, SecretStoreConstants, Distinct, Name
  <1>2. keys' = [keys EXCEPT ![u] = r] /\ files' = files
    OBVIOUS
  <1>3. keys' \in [Uuid -> Record \cup {Absent}] /\ OwnFiles'
    BY <1>1, <1>2, OwnFilesInv
  <1>4. cached' \in [Uuid -> {Absent, "right", "wrong"}]
    BY DEF KeysInv, KeysTypeOK
  <1> QED  BY <1>2, <1>3, <1>4, SaveAllInv

\* What secret() returns.
LEMMA SecretOfType ==
    ASSUME SecretStoreConstants, KeysInv, NEW u \in Uuid, NEW pass, NEW useCache
    PROVE  /\ SecretOf(u, pass, useCache) \in {Absent, "right", "wrong"}
           /\ SecretOf(u, pass, useCache) # Absent => cached[u] # Absent \/ keys[u] # Absent
  <1>1. keys[u] # Absent => keys[u].enc.secret \in {"right", "wrong"}
    BY KeyInMemory DEF Key
  <1>2. cached[u] \in {Absent, "right", "wrong"}
    BY DEF KeysInv, KeysTypeOK
  <1> QED  BY <1>1, <1>2 DEF SecretOf, Decrypt

LEMMA RecodeInv ==
    ASSUME SecretStoreConstants, KeysInv, CachedKnown,
           NEW u \in Uuid, NEW new \in Pass, NEW pass \in Pass, Recode(u, new, pass)
    PROVE  KeysInv'
  <1> USE DEF Recode
  <1>1. PICK s : s = SecretOf(u, pass, TRUE)
    OBVIOUS
  <1>2. s \in {"right", "wrong"} /\ keys[u] # Absent
    BY <1>1, SecretOfType DEF CachedKnown
  <1>3. PICK enc : enc = [id |-> u, pass |-> new, mac |-> TRUE, secret |-> s]
    OBVIOUS
  <1>4. enc \in Key /\ enc.id = u
    BY <1>2, <1>3 DEF Key
  <1> DEFINE r == [enc |-> enc, file |-> keys[u].file]
  <1>5. /\ keys[u] \in Record
        /\ keys[u].file = Absent \/ (keys[u].file \in Name /\ Owned(keys[u].file, u))
        /\ keys[u].file \in Uuid => keys[u].file = u
    BY <1>2, KeyInMemory
  <1>6. r \in Record /\ r.enc.id = u /\ r.file = keys[u].file
    BY <1>4, <1>5 DEF Record
  <1>7. keys' = [keys EXCEPT ![u] = r] /\ files' = files
    <2>1. [keys[u] EXCEPT !.enc = enc] = r
      BY <1>5 DEF Record
    <2>2. keys' = [keys EXCEPT ![u].enc = enc] /\ files' = files
      BY <1>1, <1>3
    <2>3. [keys EXCEPT ![u].enc = enc] = [keys EXCEPT ![u] = [keys[u] EXCEPT !.enc = enc]]
      OBVIOUS
    <2> QED  BY <2>1, <2>2, <2>3
  <1>8. keys' \in [Uuid -> Record \cup {Absent}] /\ OwnFiles'
    BY <1>5, <1>6, <1>7, OwnFilesInv
  <1>9. cached' \in [Uuid -> {Absent, "right", "wrong"}]
    BY DEF KeysInv, KeysTypeOK
  <1> QED  BY <1>7, <1>8, <1>9, SaveAllInv

LEMMA KillInv == ASSUME SecretStoreConstants, KeysInv, NEW u \in Uuid, KillKey(u) PROVE KeysInv'
  <1> USE DEF KillKey
  <1>1. /\ \A v \in Uuid : keys'[v] = IF v = u THEN Absent ELSE keys[v]
        /\ keys' \in [Uuid -> Record \cup {Absent}]
    BY DEF KeysInv, KeysTypeOK
  <1>2. \A n \in Name : files'[n] = files[n] \/ (files'[n] = Absent /\ keys[u] # Absent /\ n = keys[u].file)
    BY DEF KeysInv, KeysTypeOK
  <1>3. files' \in [Name -> Key \cup {Absent, Broken, OddJSON}]
    BY DEF KeysInv, KeysTypeOK
  <1>4. KeysTypeOK'
    <2>1. cached' \in [Uuid -> {Absent, "right", "wrong"}] /\ stored' \subseteq Uuid
      BY DEF KeysInv, KeysTypeOK
    <2> QED  BY <1>1, <1>3, <2>1 DEF KeysInv, KeysTypeOK
  <1>5. \A n \in Name, v \in Uuid : Owned(n, v) => Owned(n, v)'
    BY <1>2 DEF Owned, IsKey
  <1>6. OwnFiles'
    BY <1>1, <1>5, KeyInMemory DEF KeysInv, OwnFiles, Name
  <1>7. Saving'
    BY DEF KeysInv, Saving
  <1>8. SavedAsKept'
    <2> SUFFICES ASSUME ~dirty, NEW v \in Uuid, v # u, v \notin unflushed, keys[v] # Absent
                 PROVE  keys[v].file # Absent /\ files'[keys[v].file] = keys[v].enc
      BY <1>1 DEF SavedAsKept
    <2>1. keys[v].file # Absent /\ files[keys[v].file] = keys[v].enc
      BY DEF KeysInv, SavedAsKept
    <2>2. keys[v].file \in Name /\ keys[v].enc \in Key /\ keys[v].enc.id = v
      BY <2>1, KeyInMemory
    <2>3. keys[v].file # keys[u].file \/ keys[u] = Absent
      BY <2>1, <2>2, KeyInMemory, KeyValues DEF KeysInv, KeysTypeOK, DiskOK, Owned
    <2> QED  BY <1>2, <2>1, <2>2, <2>3
  <1> QED  BY <1>4, <1>6, <1>7, <1>8 DEF KeysInv

LEMMA CacheInv ==
    ASSUME SecretStoreConstants, KeysInv,
           ClearCache \/ \E u \in Uuid, pass \in Pass, useCache \in BOOLEAN : Secret(u, pass, useCache)
    PROVE  KeysInv'
  <1>1. UNCHANGED <<files, keys, save, dirty, stored, unflushed, faults>>
    BY DEF ClearCache, Secret
  <1>2. cached' \in [Uuid -> {Absent, "right", "wrong"}]
    <2>1. ASSUME NEW u \in Uuid, NEW pass \in Pass, NEW useCache \in BOOLEAN, Secret(u, pass, useCache)
          PROVE  cached' \in [Uuid -> {Absent, "right", "wrong"}]
      BY <2>1, SecretOfType DEF Secret, KeysInv, KeysTypeOK
    <2> QED  BY <2>1 DEF ClearCache
  <1> QED
    BY <1>1, <1>2 DEF KeysInv, KeysTypeOK, OwnFiles, Owned, Saving, Written, SavedAsKept

LEMMA KeysNext == SecretStoreConstants /\ KeysInv /\ CachedKnown /\ [SecretNext]_secretVars => KeysInv'
  <1> SUFFICES ASSUME SecretStoreConstants, KeysInv, CachedKnown, [SecretNext]_secretVars PROVE KeysInv'
    OBVIOUS
  <1>1. CASE SaveWrites \/ SaveLosesWrite \/ SaveRemoves \/ SaveDone \/ SaveFails \/ RestartKeys \/ ClearCache
    BY <1>1, SaveWritesInv, SaveRemovesInv, SaveEndsInv, RestartKeysInv, CacheInv
  <1>2. CASE \E key \in Key : ReadKeyContent(key) \/ ImportKey(key)
    BY <1>2, ReadContentInv
  <1>3. CASE \E n \in Name : ReadKey(n)
    BY <1>3, ReadKeyInv
  <1>4. ASSUME NEW u \in Uuid, SaveNext(u) \/ KillKey(u) PROVE KeysInv'
    BY <1>4, SaveNextInv, KillInv
  <1>5. ASSUME NEW u \in Uuid, NEW pass \in Pass,
               \/ ImportSecret(u, pass)
               \/ \E useCache \in BOOLEAN : Secret(u, pass, useCache)
               \/ \E new \in Pass : Recode(u, new, pass)
        PROVE  KeysInv'
    BY <1>5, ImportSecretInv, CacheInv, RecodeInv
  <1>6. CASE UNCHANGED secretVars
    BY <1>6 DEF secretVars, KeysInv, KeysTypeOK, OwnFiles, Owned, Saving, Written, SavedAsKept
  <1> QED  BY <1>1, <1>2, <1>3, <1>4, <1>5, <1>6 DEF SecretNext

LEMMA CachedNext == SecretStoreConstants /\ KeysInv /\ CachedKnown /\ [SecretNext]_secretVars => CachedKnown'
  <1> SUFFICES ASSUME SecretStoreConstants, KeysInv, CachedKnown, [SecretNext]_secretVars, NEW v \in Uuid,
                      cached'[v] # Absent
               PROVE  keys'[v] # Absent
    BY DEF CachedKnown
  <1> USE DEF KeysInv, KeysTypeOK, CachedKnown
  <1>0. Absent \notin Record
    BY DEF SecretStoreConstants, Distinct
  <1>1. CASE cached' = cached /\ keys' = keys
    BY <1>1
  <1>2. CASE SaveWrites \/ SaveLosesWrite
    <2>1. keys[v] # Absent => keys[v] \in Record
      OBVIOUS
    <2>2. [keys EXCEPT ![save.id].file = save.id][v] =
             IF v = save.id THEN [keys[v] EXCEPT !.file = v] ELSE keys[v]
      OBVIOUS
    <2>3. keys[v] \in Record => [keys[v] EXCEPT !.file = v] \in Record
      BY DEF Record, Name
    <2> QED  BY <1>0, <1>2, <2>1, <2>2, <2>3 DEF SaveWrites, SaveLosesWrite
  <1>3. CASE SaveRemoves \/ SaveDone \/ SaveFails
    BY <1>1, <1>3 DEF SaveRemoves, SaveDone, SaveFails
  <1>4. CASE RestartKeys \/ ClearCache
    BY <1>4 DEF RestartKeys, ClearCache
  <1>5. ASSUME NEW key \in Key, ReadKeyContent(key) \/ ImportKey(key) PROVE keys'[v] # Absent
    <2>1. [enc |-> key, file |-> Absent] \in Record
      BY DEF Record
    <2> QED  BY <1>0, <1>5, <2>1 DEF ReadKeyContent, ImportKey, ReadContent
  <1>6. ASSUME NEW n \in Name, ReadKey(n) PROVE keys'[v] # Absent
    <2>1. [enc |-> files[n], file |-> n] \in Record
      BY <1>6, KeyValues DEF ReadKey, Record, DiskOK
    <2> QED  BY <1>0, <1>6, <2>1 DEF ReadKey
  <1>7. ASSUME NEW u \in Uuid, SaveNext(u) PROVE keys'[v] # Absent
    BY <1>1, <1>7 DEF SaveNext
  <1>8. ASSUME NEW u \in Uuid, KillKey(u) PROVE keys'[v] # Absent
    BY <1>8 DEF KillKey
  <1>9. ASSUME NEW u \in Uuid, NEW pass \in Pass, ImportSecret(u, pass) PROVE keys'[v] # Absent
    <2>1. [enc |-> [id |-> u, pass |-> pass, mac |-> TRUE, secret |-> "right"], file |-> Absent] \in Record
      BY DEF Record, Key
    <2> QED  BY <1>0, <1>9, <2>1 DEF ImportSecret
  <1>10. ASSUME NEW u \in Uuid, NEW pass \in Pass, NEW useCache \in BOOLEAN, Secret(u, pass, useCache)
         PROVE  keys'[v] # Absent
    BY <1>10, SecretOfType DEF Secret
  <1>11. ASSUME NEW u \in Uuid, NEW pass \in Pass, NEW new \in Pass, Recode(u, new, pass)
         PROVE  keys'[v] # Absent
    BY <1>11 DEF Recode
  <1>12. CASE UNCHANGED secretVars
    BY <1>1, <1>12 DEF secretVars
  <1> QED
    BY <1>2, <1>3, <1>4, <1>5, <1>6, <1>7, <1>8, <1>9, <1>10, <1>11, <1>12 DEF SecretNext

-----------------------------------------------------------------------------
(* Secrets.  All keys that this program writes have a MAC.                  *)

RightSecrets == /\ \A u \in Uuid : /\ keys[u] # Absent => keys[u].enc.secret = "right" /\ keys[u].enc.mac
                                   /\ cached[u] # Absent => cached[u] = "right"
                /\ \A n \in Name : IsKey(files[n]) => files[n].secret = "right" /\ files[n].mac

LEMMA SecretsInit == SecretStoreConstants /\ Macs \subseteq {TRUE} /\ SecretInit => RightSecrets
  <1> SUFFICES ASSUME SecretStoreConstants, Macs \subseteq {TRUE}, SecretInit PROVE RightSecrets
    OBVIOUS
  <1>1. \A n \in Name : IsKey(files[n]) => files[n].secret = "right" /\ files[n].mac
    BY DEF SecretInit
  <1>2. ASSUME NEW u \in Uuid, keys[u] # Absent PROVE keys[u].enc.secret = "right" /\ keys[u].enc.mac
    BY <1>1, <1>2, LoadedKeys DEF SecretInit, DiskOK
  <1> QED  BY <1>1, <1>2 DEF RightSecrets, SecretInit

\* With a MAC, decryption yields the secret or nothing.
LEMMA RightSecretOf ==
    ASSUME RightSecrets, NEW u \in Uuid, NEW pass, NEW useCache
    PROVE  SecretOf(u, pass, useCache) \in {Absent, "right"}
  BY DEF RightSecrets, SecretOf, Decrypt

LEMMA SecretsNext ==
    ASSUME SecretStoreConstants, Macs \subseteq {TRUE}, KeysInv, CachedKnown, RightSecrets, [SecretNext]_secretVars
    PROVE  RightSecrets'
  <1> USE DEF KeysInv, KeysTypeOK, RightSecrets
  <1>0. ~IsKey(Absent) /\ ~IsKey(Broken)
    BY DEF IsKey
  <1>1. CASE cached' = cached /\ keys' = keys /\ files' = files
    BY <1>1
  <1>2. CASE SaveWrites \/ SaveLosesWrite
    <2>1. PICK u \in Uuid : u = save.id /\ keys[u] # Absent
      BY <1>2 DEF SaveWrites, SaveLosesWrite, SavePlace, Saving, Idle
    <2>2. keys[u] \in Record /\ [keys[u] EXCEPT !.file = u] = [enc |-> keys[u].enc, file |-> u]
      BY <2>1, KeyInMemory DEF Record
    <2>3. keys' = [keys EXCEPT ![u] = [enc |-> keys[u].enc, file |-> u]]
      <3>1. keys' = [keys EXCEPT ![u].file = u]
        BY <1>2, <2>1 DEF SaveWrites, SaveLosesWrite
      <3>2. [keys EXCEPT ![u].file = u] = [keys EXCEPT ![u] = [keys[u] EXCEPT !.file = u]]
        OBVIOUS
      <3> QED  BY <2>2, <3>1, <3>2
    <2>4. files' \in {files, [files EXCEPT ![u] = keys[u].enc]} /\ cached' = cached
      BY <1>2, <2>1 DEF SaveWrites, SaveLosesWrite
    <2> HIDE DEF KeysInv
    <2>5. ASSUME NEW v \in Uuid, keys'[v] # Absent PROVE keys'[v].enc.secret = "right" /\ keys'[v].enc.mac
      BY <2>1, <2>3, <2>5 DEF KeysInv
    <2>6. ASSUME NEW n \in Name, IsKey(files'[n]) PROVE files'[n].secret = "right" /\ files'[n].mac
      BY <2>1, <2>4, <2>6 DEF KeysInv
    <2> QED  BY <2>4, <2>5, <2>6
  <1>3. CASE SaveRemoves
    BY <1>0, <1>3 DEF SaveRemoves
  <1>4. CASE SaveDone \/ SaveFails
    BY <1>1, <1>4 DEF SaveDone, SaveFails
  <1>5. CASE RestartKeys
    <2>1. ASSUME NEW u \in Uuid, keys'[u] # Absent PROVE keys'[u].enc.secret = "right" /\ keys'[u].enc.mac
      BY <1>5, <2>1, LoadedKeys DEF RestartKeys, DiskOK
    <2> QED  BY <1>5, <2>1 DEF RestartKeys
  <1>6. CASE ClearCache
    BY <1>6 DEF ClearCache
  <1>7. ASSUME NEW key \in Key, ReadKeyContent(key) \/ ImportKey(key) PROVE RightSecrets'
    <2>1. key.secret = "right" /\ key.mac = TRUE /\ key.id \in Uuid
      BY <1>7 DEF ReadKeyContent, ImportKey, ReadContent, Key
    <2> QED  BY <1>7, <2>1 DEF ReadKeyContent, ImportKey, ReadContent
  <1>8. ASSUME NEW n \in Name, ReadKey(n) PROVE RightSecrets'
    BY <1>8 DEF ReadKey
  <1>9. ASSUME NEW u \in Uuid, SaveNext(u) PROVE RightSecrets'
    BY <1>0, <1>9 DEF SaveNext
  <1>10. ASSUME NEW u \in Uuid, KillKey(u) PROVE RightSecrets'
    BY <1>0, <1>10 DEF KillKey
  <1>11. ASSUME NEW u \in Uuid, NEW pass \in Pass, ImportSecret(u, pass) PROVE RightSecrets'
    BY <1>11 DEF ImportSecret
  <1>12. ASSUME NEW u \in Uuid, NEW pass \in Pass, NEW useCache \in BOOLEAN, Secret(u, pass, useCache)
         PROVE  RightSecrets'
    BY <1>12, RightSecretOf DEF Secret
  <1>13. ASSUME NEW u \in Uuid, NEW pass \in Pass, NEW new \in Pass, Recode(u, new, pass)
         PROVE  RightSecrets'
    <2>1. SecretOf(u, pass, TRUE) = "right" /\ keys[u] # Absent
      BY <1>13, RightSecretOf, SecretOfType DEF Recode, CachedKnown
    <2>2. keys[u] \in Record
      BY <2>1
    <2>3. /\ keys' = [keys EXCEPT ![u].enc = [id |-> u, pass |-> new, mac |-> TRUE, secret |-> "right"]]
          /\ cached' = [cached EXCEPT ![u] = Absent] /\ files' = files
      BY <1>13, <2>1 DEF Recode
    <2> QED  BY <2>2, <2>3 DEF Record
  <1>14. CASE UNCHANGED secretVars
    BY <1>1, <1>14 DEF secretVars
  <1> QED
    BY <1>2, <1>3, <1>4, <1>5, <1>6, <1>7, <1>8, <1>9, <1>10, <1>11, <1>12, <1>13, <1>14 DEF SecretNext

LEMMA CachedInit == SecretInit => CachedKnown
  BY DEF SecretInit, CachedKnown

\* The inductive invariant: where save is, which keys it has written, and which file
\* is whose (SecretStore::save, load).
THEOREM KeysInvariance == ASSUME SecretStoreConstants PROVE SecretSpec => [](KeysInv /\ CachedKnown)
  BY KeysInit, CachedInit, KeysNext, CachedNext, PTL DEF SecretSpec

\* Once save has succeeded, and until a key is read without saving, the file of each
\* key holds what memory holds (SecretStore::save, kill, recode).
THEOREM FilesAgree == ASSUME SecretStoreConstants PROVE SecretSpec => []SavedAsKept
  <1>1. KeysInv => SavedAsKept
    BY DEF KeysInv
  <1> QED  BY <1>1, KeysInvariance, PTL

\* No password turns a secret into another, in memory, on disk or in the cache, if
\* all keys that are imported have a MAC, as those that SecretStore writes do; and
\* a key's file has what memory has (SecretStore::decrypt, secret, recode).
THEOREM AlwaysSecretsKept ==
    ASSUME SecretStoreConstants, Macs \subseteq {TRUE}
    PROVE  SecretSpec => []SecretsKept
  <1>1. CachedKnown /\ RightSecrets => SecretsIntact
    BY DEF CachedKnown, RightSecrets, SecretsIntact
  <1>2. SecretInit => RightSecrets
    BY SecretsInit
  <1>3. KeysInv /\ CachedKnown /\ RightSecrets /\ [SecretNext]_secretVars => RightSecrets'
    BY SecretsNext
  <1>4. SecretsIntact /\ SavedAsKept => SecretsKept
    BY DEF SecretsKept
  <1> QED  BY <1>1, <1>2, <1>3, <1>4, KeysInvariance, FilesAgree, PTL DEF SecretSpec
-----------------------------------------------------------------------------
(* Keys lost.  OneLostPerFault is not inductive: the file that save is      *)
(* writing must be that of the key that may be lost.                        *)

\* The files that will be left of a key: the one that save is about to remove is not,
\* when the write of the other one was lost.
Left(u) == IF u \in unflushed /\ save.at = "remove" THEN FilesOf(u) \ {save.name} ELSE FilesOf(u)

Lost == {u \in stored \cup unflushed : Left(u) = {}}

\* The key that save is writing is not lost, unless save goes no further.
Missed == IF save.at = "write" THEN Lost \ {save.id} ELSE Lost

\* Cardinalities of sets of ids.
LEMMA LostCounted ==
    ASSUME SecretStoreConstants, NEW S, S \subseteq Uuid, NEW x
    PROVE  /\ IsFiniteSet(S) /\ Cardinality(S) \in Nat
           /\ \A T : T \subseteq S \cup {x} => IsFiniteSet(T) /\ Cardinality(T) \in Nat /\ Cardinality(T) <= Cardinality(S) + 1
           /\ \A T : T \subseteq S => Cardinality(T) \in Nat /\ Cardinality(T) <= Cardinality(S)
  <1>1. IsFiniteSet(S) /\ Cardinality(S) \in Nat
    BY FS_Subset, FS_CardinalityType DEF SecretStoreConstants
  <1>2. IsFiniteSet(S \cup {x}) /\ Cardinality(S \cup {x}) \in Nat /\ Cardinality(S \cup {x}) <= Cardinality(S) + 1
    <2>1. /\ IsFiniteSet(S \cup {x})
          /\ Cardinality(S \cup {x}) = IF x \in S THEN Cardinality(S) ELSE Cardinality(S) + 1
      BY <1>1, FS_AddElement
    <2> QED  BY <1>1, <2>1
  <1>3. ASSUME NEW T, T \subseteq S \cup {x}
        PROVE  IsFiniteSet(T) /\ Cardinality(T) \in Nat /\ Cardinality(T) <= Cardinality(S) + 1
    <2>1. IsFiniteSet(T) /\ Cardinality(T) <= Cardinality(S \cup {x}) /\ Cardinality(T) \in Nat
      BY <1>2, <1>3, FS_Subset, FS_CardinalityType
    <2> QED  BY <1>1, <1>2, <2>1
  <1>4. ASSUME NEW T, T \subseteq S PROVE Cardinality(T) \in Nat /\ Cardinality(T) <= Cardinality(S)
    BY <1>1, <1>4, FS_Subset, FS_CardinalityType
  <1> QED  BY <1>1, <1>3, <1>4

\* What a step may do to the keys that are missed.
LEMMA MissedStep ==
    ASSUME SecretStoreConstants, KeysInv, [SecretNext]_secretVars
    PROVE  \/ Missed' \subseteq Missed /\ faults' = faults
           \/ faults' = faults + 1 /\ \E x : Missed' \subseteq Missed \cup {x}
  <1> DEFINE Goal == \/ Missed' \subseteq Missed /\ faults' = faults
                     \/ faults' = faults + 1 /\ \E x : Missed' \subseteq Missed \cup {x}
  <1> SUFFICES Goal
    OBVIOUS
  <1> USE DEF Missed, Lost
  <1>0. ~IsKey(Absent) /\ ~IsKey(Broken) /\ (\A n \in Name : IsKey(files[n]) <=> files[n] \in Key)
    BY KeyValues DEF KeysInv, KeysTypeOK, DiskOK
  <1>1. CASE /\ files' = files /\ stored' = stored /\ unflushed' \subseteq unflushed /\ faults' = faults
             /\ save.at \notin {"write", "remove"} /\ save'.at \notin {"write", "remove"}
    BY <1>1 DEF FilesOf, Left
  <1>2. CASE SaveWrites \/ SaveLosesWrite
    <2>1. PICK u \in Uuid : u = save.id /\ keys[u] # Absent
      BY <1>2 DEF SaveWrites, SaveLosesWrite, KeysInv, KeysTypeOK, SavePlace, Saving, Idle
    <2>2. save.at = "write" /\ save'.at # "write" /\ stored' = stored
      BY <1>2 DEF SaveWrites, SaveLosesWrite, AfterWriting
    <2>3. save'.at = "remove" => save'.name = keys[u].file /\ keys[u].file # Absent
      BY <1>2, <2>1 DEF SaveWrites, SaveLosesWrite, AfterWriting, Obsolete
    <2>4. /\ keys[u].enc \in Key /\ keys[u].enc.id = u /\ Owned(u, u) /\ u \in Name
          /\ keys[u].file # Absent => Owned(keys[u].file, u)
      BY <2>1, KeyInMemory DEF KeysInv, OwnFiles, Name
    <2>5. (\A n \in Name : n # u => files'[n] = files[n]) /\ unflushed' \subseteq unflushed \cup {u}
      BY <1>2, <2>1 DEF SaveWrites, SaveLosesWrite, KeysInv, KeysTypeOK
    <2>6. ASSUME NEW v \in Uuid, v # u PROVE FilesOf(v) \subseteq Left(v)'
      <3>1. FilesOf(v) \subseteq FilesOf(v)'
        BY <2>4, <2>5, <2>6 DEF FilesOf, Owned
      <3>2. save'.at = "remove" => save'.name \notin FilesOf(v)
        BY <2>3, <2>4, <2>6 DEF FilesOf, Owned
      <3> QED  BY <3>1, <3>2 DEF Left
    <2>7. \A v \in Missed' \ {u} : v \in Missed
      <3>1. \A v \in Missed' \ {u} : v \in Uuid /\ v \in stored \cup unflushed /\ FilesOf(v) = {}
        BY <2>2, <2>5, <2>6 DEF KeysInv, KeysTypeOK
      <3> QED  BY <2>1, <2>2, <3>1 DEF Left
    <2>8. CASE SaveWrites
      <3>1. files'[u] = keys[u].enc /\ u \notin unflushed' /\ faults' = faults
        BY <2>1, <2>4, <2>8 DEF SaveWrites, KeysInv, KeysTypeOK
      <3>2. u \in FilesOf(u)'
        BY <2>4, <3>1 DEF FilesOf, IsKey, SecretStoreConstants, Distinct
      <3>3. u \notin Missed'
        BY <3>1, <3>2 DEF Left
      <3> QED  BY <2>7, <3>1, <3>3
    <2>9. CASE SaveLosesWrite
      <3>1. faults' = faults + 1
        BY <2>9 DEF SaveLosesWrite
      <3> QED  BY <2>7, <3>1
    <2> QED  BY <1>2, <2>8, <2>9
  <1>3. ASSUME NEW u \in Uuid, SaveNext(u) PROVE Goal
    <2>1. /\ save.at = "next" /\ save'.at = "write" /\ save'.id = u
          /\ stored' = stored /\ unflushed' = unflushed /\ faults' = faults
      BY <1>3 DEF SaveNext
    <2>2. \A n \in Name : n # u => files'[n] = files[n]
      BY <1>3 DEF SaveNext, KeysInv, KeysTypeOK
    <2>3. ASSUME NEW v \in Uuid, v # u PROVE FilesOf(v) \subseteq FilesOf(v)'
      BY <2>2, <2>3 DEF FilesOf, KeysInv, OwnFiles, Owned
    <2> QED  BY <2>1, <2>3 DEF KeysInv, KeysTypeOK, Left
  <1>4. CASE SaveRemoves
    <2>1. /\ save.at = "remove" /\ save'.at = "next" /\ stored' = stored /\ unflushed' = unflushed
          /\ faults' = faults /\ save.name \notin Uuid /\ save # Idle
          /\ IsKey(files[save.name]) => Written(files[save.name].id) \/ files[save.name].id \in unflushed
      BY <1>4 DEF SaveRemoves, KeysInv, Saving, Idle
    <2>2. \A n \in Name : n # save.name => files'[n] = files[n]
      BY <1>4 DEF SaveRemoves, KeysInv, KeysTypeOK
    <2>3. ASSUME NEW v \in Uuid, NEW n \in Left(v) PROVE FilesOf(v)' # {}
      <3>1. CASE n # save.name
        BY <2>2, <3>1 DEF FilesOf, Left
      <3>2. CASE n = save.name
        <4>1. Written(v) /\ v \in Name /\ v # save.name
          BY <2>1, <3>2 DEF FilesOf, Left, Name
        <4>2. files[v] \in Key /\ files[v].id = v /\ files'[v] = files[v]
          BY <2>2, <4>1, KeyInMemory DEF Written
        <4>3. v \in FilesOf(v)'
          BY <1>0, <4>1, <4>2 DEF FilesOf, IsKey
        <4> QED  BY <4>3
      <3> QED  BY <3>1, <3>2
    <2>4. \A v \in Uuid : Left(v)' = FilesOf(v)'
      BY <2>1 DEF Left
    <2> QED  BY <2>1, <2>3, <2>4 DEF KeysInv, KeysTypeOK
  <1>5. CASE SaveDone
    <2>1. save.at = "next" /\ save'.at = "idle" /\ faults' = faults /\ files' = files /\ unflushed' = unflushed
      BY <1>5 DEF SaveDone, Idle
    <2>2. ASSUME NEW u \in Uuid \ unflushed, keys[u] # Absent PROVE FilesOf(u) # {}
      <3>1. Written(u)
        BY <1>5, <2>2 DEF SaveDone, KeysInv, Saving, Idle
      <3>2. files[u] \in Key /\ files[u].id = u /\ u \in Name
        BY <2>2, <3>1, KeyInMemory DEF Written, Name
      <3> QED  BY <1>0, <3>2 DEF FilesOf
    <2> QED  BY <1>5, <2>1, <2>2 DEF SaveDone, FilesOf, Left
  <1>6. CASE SaveFails
    <2>1. /\ files' = files /\ stored' = stored /\ unflushed' = unflushed
          /\ faults' = faults + 1 /\ save'.at = "idle"
      BY <1>6 DEF SaveFails, Idle
    <2>2. Missed' \subseteq Missed \cup {save.id}
      BY <2>1 DEF FilesOf, Left
    <2> QED  BY <2>1, <2>2
  <1>7. CASE RestartKeys
    <2>1. /\ files' = files /\ stored' = stored /\ unflushed' = {} /\ save'.at = "idle"
          /\ faults' = (IF save = Idle THEN faults ELSE faults + 1)
      BY <1>7 DEF RestartKeys, Idle
    <2>2. Missed' \subseteq Missed \cup {save.id}
      BY <2>1 DEF FilesOf, Left
    <2>3. save = Idle => Missed' \subseteq Missed
      BY <2>1 DEF FilesOf, Left, Idle
    <2> QED  BY <2>1, <2>2, <2>3
  <1>8. CASE ClearCache
    BY <1>1, <1>8 DEF ClearCache, Idle
  <1>9. ASSUME NEW key \in Key, ReadKeyContent(key) \/ ImportKey(key) PROVE Goal
    BY <1>1, <1>9 DEF ReadKeyContent, ImportKey, ReadContent, Idle, SaveAll
  <1>10. ASSUME NEW n \in Name, ReadKey(n) PROVE Goal
    BY <1>1, <1>10 DEF ReadKey, Idle
  <1>11. ASSUME NEW u \in Uuid, KillKey(u) PROVE Goal
    <2>1. /\ save.at = "idle" /\ save' = save /\ faults' = faults
          /\ stored' = stored \ {u} /\ unflushed' = unflushed \ {u}
      BY <1>11 DEF KillKey, Idle
    <2>2. \A n \in Name : files'[n] = files[n] \/ (keys[u] # Absent /\ n = keys[u].file)
      BY <1>11 DEF KillKey, KeysInv, KeysTypeOK
    <2>3. ASSUME NEW v \in Uuid, v # u PROVE FilesOf(v) \subseteq FilesOf(v)'
      <3> SUFFICES ASSUME NEW n \in FilesOf(v) PROVE n \in FilesOf(v)'
        OBVIOUS
      <3>1. n \in Name /\ IsKey(files[n]) /\ files[n].id = v /\ n # Absent
        BY DEF FilesOf, SecretStoreConstants, Distinct
      <3>2. keys[u] # Absent => n # keys[u].file
        BY <2>3, <3>1, KeyInMemory DEF Owned
      <3>3. files'[n] = files[n]
        BY <2>2, <3>1, <3>2
      <3> QED  BY <3>1, <3>3 DEF FilesOf
    <2> QED  BY <2>1, <2>3 DEF KeysInv, KeysTypeOK, Left
  <1>12. ASSUME NEW u \in Uuid, NEW pass \in Pass, ImportSecret(u, pass) PROVE Goal
    BY <1>1, <1>12 DEF ImportSecret, Idle, SaveAll
  <1>13. ASSUME NEW u \in Uuid, NEW pass \in Pass, NEW useCache \in BOOLEAN, Secret(u, pass, useCache) PROVE Goal
    BY <1>1, <1>13 DEF Secret, Idle
  <1>14. ASSUME NEW u \in Uuid, NEW pass \in Pass, NEW new \in Pass, Recode(u, new, pass) PROVE Goal
    BY <1>1, <1>14 DEF Recode, Idle, SaveAll
  <1>15. CASE UNCHANGED secretVars
    BY <1>15 DEF secretVars, FilesOf, Left
  <1> QED
    BY <1>2, <1>3, <1>4, <1>5, <1>6, <1>7, <1>8, <1>9, <1>10, <1>11, <1>12, <1>13, <1>14, <1>15 DEF SecretNext

MissedBounded == Cardinality(Missed) <= faults

LEMMA MissedNext ==
    ASSUME SecretStoreConstants, KeysInv, KeysInv', MissedBounded, [SecretNext]_secretVars
    PROVE  MissedBounded'
  <1>1. Missed \subseteq Uuid /\ faults \in Nat
    BY DEF KeysInv, KeysTypeOK, Missed, Lost
  <1>2. Cardinality(Missed) <= faults /\ Cardinality(Missed) \in Nat
    BY <1>1, LostCounted DEF MissedBounded
  <1>3. CASE Missed' \subseteq Missed /\ faults' = faults
    <2>1. Cardinality(Missed') \in Nat /\ Cardinality(Missed') <= Cardinality(Missed)
      BY <1>1, <1>3, LostCounted
    <2> QED  BY <1>1, <1>2, <1>3, <2>1 DEF MissedBounded
  <1>4. CASE faults' = faults + 1 /\ \E x : Missed' \subseteq Missed \cup {x}
    <2>1. PICK x : Missed' \subseteq Missed \cup {x}
      BY <1>4
    <2>2. Cardinality(Missed') \in Nat /\ Cardinality(Missed') <= Cardinality(Missed) + 1
      BY <1>1, <2>1, LostCounted
    <2> QED  BY <1>1, <1>2, <1>4, <2>2 DEF MissedBounded
  <1> QED  BY <1>3, <1>4, MissedStep

\* However many files and failures there are, each failure of save, noticed or not,
\* and each end of the process in the middle of it, costs one key at most: a file is removed only
\* after its key was written to another (SecretStore::save).
THEOREM LosesOnePerFault == ASSUME SecretStoreConstants PROVE SecretSpec => []OneLostPerFault
  <1>1. SecretInit => MissedBounded
    <2> SUFFICES ASSUME SecretInit PROVE MissedBounded
      OBVIOUS
    <2>1. Missed = {} /\ faults = 0
      BY DEF SecretInit, Missed, Lost
    <2> QED  BY <2>1, FS_EmptySet DEF MissedBounded
  <1>2. ASSUME KeysInv, MissedBounded PROVE OneLostPerFault
    <2>1. Missed \subseteq Uuid /\ faults \in Nat
      BY <1>2 DEF KeysInv, KeysTypeOK, Missed, Lost
    <2>2. Cardinality(Missed) \in Nat /\ Cardinality(Missed) <= faults
      BY <1>2, <2>1, LostCounted DEF MissedBounded
    <2> DEFINE gone == {u \in stored : FilesOf(u) = {}}
    <2>3. CASE save.at = "write"
      <3>1. gone \subseteq Missed \cup {save.id}
        BY <2>3 DEF Missed, Lost, Left
      <3>2. Cardinality(gone) \in Nat /\ Cardinality(gone) <= Cardinality(Missed) + 1
        BY <2>1, <3>1, LostCounted
      <3> QED  BY <2>1, <2>2, <2>3, <3>2 DEF OneLostPerFault
    <2>4. CASE save.at # "write"
      <3>1. gone \subseteq Missed
        BY <2>4 DEF Missed, Lost, Left
      <3>2. Cardinality(gone) \in Nat /\ Cardinality(gone) <= Cardinality(Missed)
        BY <2>1, <3>1, LostCounted
      <3> QED  BY <2>1, <2>2, <2>4, <3>2 DEF OneLostPerFault
    <2> QED  BY <2>3, <2>4
  <1>3. KeysInv /\ KeysInv' /\ MissedBounded /\ [SecretNext]_secretVars => MissedBounded'
    BY MissedNext
  <1>4. KeysInv /\ MissedBounded => OneLostPerFault
    BY <1>2
  <1> QED  BY <1>1, <1>3, <1>4, KeysInvariance, PTL DEF SecretSpec

-----------------------------------------------------------------------------
\* A set of natural numbers that is not empty has a least.
LEMMA LeastNumber ==
    ASSUME NEW T \in SUBSET Nat, T # {}
    PROVE  \E n \in T : \A m \in T : n <= m
  <1>1. PICK n \in T : \A m \in T : ~(<<m, n>> \in OpToRel(<, Nat))
    BY NatLessThanWellFounded, WFMin
  <1>2. \A m \in T : ~(m < n)
    BY <1>1 DEF OpToRel
  <1> QED  BY <1>2

-----------------------------------------------------------------------------
(* SavedNetwork.  What a record holds fits into the fields of its item, so   *)
(* that the items say what the records said.                                 *)

Address == {e.address : e \in Endpoints} \cup {"unspecified"}

PeerRecord == [endpoint : Endpoint, required : BOOLEAN, connected : Int, attempted : Int, failed : Int,
               reason : Reasons \cup {"NoDisconnect", "TCPError"}, score : -Bound .. Bound, rating : -Bound .. Bound]

RecordsTyped == DOMAIN peers \subseteq Others /\ IsFiniteSet(DOMAIN peers) /\ peers \in [DOMAIN peers -> PeerRecord]
TableTyped == DOMAIN table \subseteq Others /\ IsFiniteSet(DOMAIN table) /\ table \in [DOMAIN table -> Endpoint]

\* The records and the table are of other nodes, finitely many, and ratings stay
\* within their bound.
NetworkInv == RecordsTyped /\ TableTyped /\ now \in Int

\* What Put and Without leave, and that they leave it finite.
LEMMA PutIn ==
    ASSUME NEW A, NEW B, NEW f, f \in [DOMAIN f -> B], DOMAIN f \subseteq A, IsFiniteSet(DOMAIN f),
           NEW n \in A, NEW x \in B
    PROVE  /\ DOMAIN Put(f, n, x) = DOMAIN f \cup {n} /\ Put(f, n, x)[n] = x
           /\ \A m \in DOMAIN f : m # n => Put(f, n, x)[m] = f[m]
           /\ DOMAIN Put(f, n, x) \subseteq A /\ IsFiniteSet(DOMAIN Put(f, n, x))
           /\ Put(f, n, x) \in [DOMAIN Put(f, n, x) -> B]
  <1>1. IsFiniteSet(DOMAIN f \cup {n})
    BY FS_AddElement
  <1> QED  BY <1>1 DEF Put

LEMMA WithoutIn ==
    ASSUME NEW A, NEW B, NEW f, f \in [DOMAIN f -> B], DOMAIN f \subseteq A, IsFiniteSet(DOMAIN f), NEW n
    PROVE  /\ DOMAIN Without(f, n) \subseteq A /\ IsFiniteSet(DOMAIN Without(f, n))
           /\ Without(f, n) \in [DOMAIN Without(f, n) -> B]
  <1>1. IsFiniteSet(DOMAIN f \ {n})
    BY FS_Subset
  <1> QED  BY <1>1 DEF Without

LEMMA EndpointTyped ==
    ASSUME SavedNetworkConstants
    PROVE  /\ \A e \in Endpoints : e \in Endpoint /\ e.address \in Address
           /\ Unspecified \in Endpoint
           /\ \A e \in Endpoint, r \in BOOLEAN : NewPeer(e, r) \in PeerRecord
  <1>0. Bound \in Nat
    BY DEF SavedNetworkConstants
  <1>1. 0 \in -Bound .. Bound
    BY <1>0
  <1>2. \A e \in Endpoint, r \in BOOLEAN : NewPeer(e, r) \in PeerRecord
    BY <1>1 DEF NewPeer, PeerRecord
  <1>3. Unspecified \in Endpoint
    BY <1>1 DEF Endpoint, Unspecified
  <1>4. \A e \in Endpoints : e \in Endpoint /\ e.address \in Address
    BY DEF SavedNetworkConstants, Address
  <1> QED  BY <1>2, <1>3, <1>4

\* A rating is read as it was written.
LEMMA SignedReads ==
    ASSUME SavedNetworkConstants, NEW i \in -Bound .. Bound
    PROVE  Signed(Unsigned(i)) = i
  <1>1. Bound \in Nat /\ Modulus \in Nat /\ 2 * Bound < Modulus
    BY DEF SavedNetworkConstants
  <1>2. CASE i >= 0
    BY <1>1, <1>2 DEF Signed, Unsigned
  <1>3. CASE i < 0
    <2>1. i % Modulus = i + Modulus
      BY <1>1, <1>3, Z3
    <2> QED  BY <1>1, <1>3, <2>1 DEF Signed, Unsigned
  <1> QED  BY <1>2, <1>3

LEMMA PeerItemReads ==
    ASSUME SavedNetworkConstants, NetworkInv, NEW n \in DOMAIN peers
    PROVE  /\ Len(PeerItem(n)) = 11 /\ PeerItem(n)[4] = n
           /\ EndpointOf(PeerItem(n)) = peers[n].endpoint /\ PeerOf(PeerItem(n)) = peers[n]
           /\ PeerItem(n)[5] = peers[n].required
  <1> DEFINE p == peers[n]
  <1>1. p \in PeerRecord
    BY DEF NetworkInv, RecordsTyped
  <1>2. p.endpoint = [address |-> p.endpoint.address, udp |-> p.endpoint.udp, tcp |-> p.endpoint.tcp]
    BY <1>1 DEF PeerRecord, Endpoint
  <1>3. p = [endpoint |-> p.endpoint, required |-> p.required, connected |-> p.connected, attempted |-> p.attempted,
             failed |-> p.failed, reason |-> p.reason, score |-> p.score, rating |-> p.rating]
    BY <1>1 DEF PeerRecord
  <1>4. Signed(Unsigned(p.score)) = p.score /\ Signed(Unsigned(p.rating)) = p.rating
    BY <1>1, SignedReads DEF PeerRecord
  <1>5. PeerItem(n) = <<p.endpoint.address, p.endpoint.udp, p.endpoint.tcp, n, p.required, p.connected,
                        p.attempted, p.failed, p.reason, Unsigned(p.score), Unsigned(p.rating)>>
    BY DEF PeerItem
  <1> HIDE DEF p
  <1>6. EndpointOf(PeerItem(n)) = p.endpoint
    BY <1>2, <1>5 DEF EndpointOf
  <1>7. PeerOf(PeerItem(n)) = p
    BY <1>3, <1>4, <1>5, <1>6 DEF PeerOf
  <1> QED  BY <1>5, <1>6, <1>7 DEF p

-----------------------------------------------------------------------------
\* What is restored, item by item.

Reads(r, items) ==
    /\ r[0] = [peers |-> None, table |-> None, pinged |-> {}]
    /\ \A i \in 1 .. Len(items) : r[i] = RestoredItem(r[i - 1], items[i])

ReadsTo(r, k, items) ==
    /\ r = [i \in 0 .. k |-> r[i]]
    /\ r[0] = [peers |-> None, table |-> None, pinged |-> {}]
    /\ \A i \in 1 .. k : r[i] = RestoredItem(r[i - 1], items[i])

\* There is such a function, as far as the items go.
LEMMA ReadingExists ==
    ASSUME NEW items, Len(items) \in Nat
    PROVE  \E r : ReadsTo(r, Len(items), items)
  <1> DEFINE n == Len(items)
             Found(k) == \E r : ReadsTo(r, k, items)
             T == {k \in 0 .. n : ~Found(k)}
  <1> HIDE DEF Found
  <1>1. SUFFICES ASSUME T # {} PROVE FALSE
    BY DEF Found
  <1>2. PICK k \in T : \A m \in T : k <= m
    <2>1. T \in SUBSET Nat
      OBVIOUS
    <2> HIDE DEF T
    <2> QED  BY <1>1, <2>1, LeastNumber
  <1>3. CASE k = 0
    <2> DEFINE g == [i \in 0 .. 0 |-> [peers |-> None, table |-> None, pinged |-> {}]]
    <2>1. ReadsTo(g, 0, items)
      BY DEF ReadsTo
    <2> QED  BY <1>2, <1>3, <2>1 DEF Found
  <1>4. CASE k # 0
    <2>1. k - 1 \in 0 .. n /\ k - 1 \notin T /\ k \in Nat
      BY <1>2, <1>4
    <2>2. PICK f : ReadsTo(f, k - 1, items)
      BY <2>1 DEF Found
    <2> DEFINE g == [i \in 0 .. k |-> IF i = k THEN RestoredItem(f[k - 1], items[k]) ELSE f[i]]
    <2>3. \A i \in 0 .. (k - 1) : g[i] = f[i]
      BY <2>1
    <2>4. g[k] = RestoredItem(g[k - 1], items[k])
      BY <1>4, <2>1, <2>3
    <2>5. ASSUME NEW i \in 1 .. k PROVE g[i] = RestoredItem(g[i - 1], items[i])
      <3>1. CASE i = k
        BY <2>4, <3>1
      <3>2. CASE i # k
        <4>1. i \in 1 .. (k - 1) /\ i \in 0 .. (k - 1) /\ i - 1 \in 0 .. (k - 1)
          BY <2>1, <3>2
        <4> HIDE DEF g
        <4> QED  BY <2>2, <2>3, <4>1 DEF ReadsTo
      <3> QED  BY <3>1, <3>2
    <2>6. g[0] = [peers |-> None, table |-> None, pinged |-> {}]
      <3>1. 0 \in 0 .. (k - 1)
        BY <1>4, <2>1
      <3> HIDE DEF g
      <3> QED  BY <2>2, <2>3, <3>1 DEF ReadsTo
    <2>7. g = [i \in 0 .. k |-> g[i]]
      OBVIOUS
    <2> HIDE DEF g
    <2>8. ReadsTo(g, k, items)
      BY <2>5, <2>6, <2>7 DEF ReadsTo
    <2> QED  BY <1>2, <2>8 DEF Found
  <1> QED  BY <1>3, <1>4

LEMMA RestoringReads ==
    ASSUME NEW items, Len(items) \in Nat
    PROVE  Reads(Restoring(items), items)
  <1> DEFINE n == Len(items)
             start == [peers |-> None, table |-> None, pinged |-> {}]
             Def(r) == [i \in 0 .. n |-> IF i = 0 THEN start ELSE RestoredItem(r[i - 1], items[i])]
  <1>1. PICK f : ReadsTo(f, n, items)
    BY ReadingExists
  <1>2. f = Def(f)
    <2> HIDE DEF start
    <2>1. /\ f = [i \in 0 .. n |-> f[i]] /\ f[0] = start
          /\ \A i \in 1 .. n : f[i] = RestoredItem(f[i - 1], items[i])
      BY <1>1 DEF ReadsTo, start
    <2>2. \A i \in 0 .. n : i # 0 => i \in 1 .. n
      OBVIOUS
    <2>3. \A i \in 0 .. n : f[i] = IF i = 0 THEN start ELSE RestoredItem(f[i - 1], items[i])
      BY <2>1, <2>2
    <2> QED  BY <2>1, <2>3, Zenon
  <1> DEFINE o == Restoring(items)
  <1>3. o = CHOOSE r : r = Def(r)
    BY DEF Restoring
  <1>4. o = Def(o)
    <2> HIDE DEF Def, o
    <2> QED  BY <1>2, <1>3
  <1> HIDE DEF o
  <1>5. 0 \in 0 .. n /\ \A i \in 1 .. n : i \in 0 .. n /\ i # 0
    OBVIOUS
  <1>6. o[0] = start /\ \A i \in 1 .. n : o[i] = RestoredItem(o[i - 1], items[i])
    <2> HIDE DEF start
    <2>1. \A i \in 0 .. n : Def(o)[i] = IF i = 0 THEN start ELSE RestoredItem(o[i - 1], items[i])
      OBVIOUS
    <2> HIDE DEF Def
    <2> QED  BY <1>4, <1>5, <2>1
  <1> QED  BY <1>6 DEF Reads, o

\* A sequence of a finite set's elements has each of them.
LEMMA SeqHasAll ==
    ASSUME NEW S, IsFiniteSet(S), NEW s \in SetToSeqs(S)
    PROVE  /\ Len(s) \in Nat /\ DOMAIN s = 1 .. Len(s) /\ s \in Seq(S)
           /\ {s[i] : i \in DOMAIN s} = S
  <1> DEFINE c == Cardinality(S)
  <1>1. c \in Nat /\ s \in [1 .. c -> S] /\ \A i, j \in 1 .. c : i # j => s[i] # s[j]
    BY FS_CardinalityType DEF SetToSeqs
  <1>2. s \in Seq(S) /\ Len(s) = c /\ DOMAIN s = 1 .. c
    BY <1>1
  <1> DEFINE T == {s[i] : i \in 1 .. c}
  <1>3. T \subseteq S
    BY <1>1
  <1>4. T = S
    <2>1. SUFFICES ASSUME T # S PROVE FALSE
      OBVIOUS
    <2>2. IsFiniteSet(T) /\ Cardinality(T) < c
      <3> HIDE DEF T
      <3>1. IsFiniteSet(T) /\ Cardinality(T) <= c /\ (Cardinality(S) = Cardinality(T) => S = T)
        BY <1>3, FS_Subset
      <3>2. Cardinality(T) \in Nat
        BY <3>1, FS_CardinalityType
      <3> QED  BY <1>1, <2>1, <3>1, <3>2
    <2>3. IsFiniteSet(1 .. c) /\ Cardinality(1 .. c) = c
      BY <1>1, FS_Interval
    <2>4. s \in [1 .. c -> T]
      BY <1>1
    <2>5. \E i, j \in 1 .. c : i # j /\ s[i] = s[j]
      <3> HIDE DEF T
      <3> QED  BY <2>2, <2>3, <2>4, FS_PigeonHole
    <2> QED  BY <1>1, <2>5
  <1> QED  BY <1>1, <1>2, <1>4

\* One item of a peer that is saved, and one of a node: what they add.
LEMMA PeerItemAdds ==
    ASSUME SavedNetworkConstants, NetworkInv, NEW n \in DOMAIN peers, Saves(n), NEW p, NEW t, NEW g
    PROVE  RestoredItem([peers |-> p, table |-> t, pinged |-> g], PeerItem(n))
             = [peers |-> Put(p, n, peers[n]), table |-> Put(t, n, peers[n].endpoint), pinged |-> g]
  <1> DEFINE i == PeerItem(n)
             r == [peers |-> p, table |-> t, pinged |-> g]
  <1>1. /\ Len(i) = 11 /\ i[4] = n /\ EndpointOf(i) = peers[n].endpoint /\ PeerOf(i) = peers[n]
        /\ i[5] = peers[n].required
    BY PeerItemReads
  <1>2. EndpointOf(i).address \in V4 /\ (Allowed(EndpointOf(i)) \/ i[5])
    BY <1>1 DEF Saves
  <1> HIDE DEF i
  <1>3. RestoredItem(r, i) = [r EXCEPT !.peers = Put(p, n, peers[n]), !.table = Put(t, n, peers[n].endpoint)]
    BY <1>1, <1>2 DEF RestoredItem
  <1> QED  BY <1>3 DEF i

LEMMA NodeItemAdds ==
    ASSUME SavedNetworkConstants, NetworkInv, NEW n \in DOMAIN table, NEW p, NEW t, NEW g, NEW x,
           x = RestoredItem([peers |-> p, table |-> t, pinged |-> g], NodeItem(n))
    PROVE  /\ x = [peers |-> p, table |-> t, pinged |-> x.pinged]
           /\ g \subseteq x.pinged
           /\ Allowed(table[n]) /\ table[n].address \in V4 => n \in DOMAIN t \cup x.pinged
  <1> DEFINE i == NodeItem(n)
             e == table[n]
             r == [peers |-> p, table |-> t, pinged |-> g]
  <1>1. e \in Endpoint /\ n # Self
    BY DEF NetworkInv, TableTyped, SavedNetworkConstants
  <1>2. e = [address |-> e.address, udp |-> e.udp, tcp |-> e.tcp]
    BY <1>1 DEF Endpoint
  <1>3. i = <<e.address, e.udp, e.tcp, n>>
    BY DEF NodeItem
  <1> HIDE DEF i, e
  <1>4. Len(i) = 4 /\ i[4] = n /\ EndpointOf(i) = e
    BY <1>2, <1>3 DEF EndpointOf
  <1>5. CASE e.address \in V4 /\ Allowed(e) /\ n \notin DOMAIN t
    <2>1. RestoredItem(r, i) = [r EXCEPT !.pinged = @ \cup {n}]
      BY <1>1, <1>4, <1>5 DEF RestoredItem
    <2>2. RestoredItem(r, i) = [peers |-> p, table |-> t, pinged |-> g \cup {n}]
      BY <2>1
    <2> QED  BY <2>2 DEF i
  <1>6. CASE ~(e.address \in V4 /\ Allowed(e) /\ n \notin DOMAIN t)
    <2>1. RestoredItem(r, i) = r
      BY <1>1, <1>4, <1>6 DEF RestoredItem
    <2> QED  BY <2>1, <1>6 DEF i, e, r
  <1> QED  BY <1>5, <1>6

\* What has been restored when k items have been read: the peers among them, as
\* they were, and of the nodes those that are to be known or pinged.
ReadSoFar(r, order, nodes, k) ==
    \E p, t, g :
       /\ r = [peers |-> p, table |-> t, pinged |-> g]
       /\ DOMAIN p = {order[j] : j \in {j \in 1 .. Len(order) : j <= k}}
       /\ p \in [DOMAIN p -> PeerRecord] /\ \A n \in DOMAIN p : p[n] = peers[n]
       /\ DOMAIN t \subseteq Others /\ IsFiniteSet(DOMAIN t) /\ t \in [DOMAIN t -> Endpoint]
       /\ \A j \in 1 .. Len(nodes) :
             Len(order) + j <= k /\ Allowed(table[nodes[j]]) /\ table[nodes[j]].address \in V4
                => nodes[j] \in DOMAIN t \cup g

InOrder(order, nodes) ==
    /\ Len(ItemsOf(order, nodes)) = Len(order) + Len(nodes)
    /\ \A i \in 1 .. Len(order) : ItemsOf(order, nodes)[i] = PeerItem(order[i])
    /\ \A i \in 1 .. Len(nodes) : ItemsOf(order, nodes)[Len(order) + i] = NodeItem(nodes[i])

LEMMA ItemsInOrder ==
    ASSUME NEW order, Len(order) \in Nat, DOMAIN order = 1 .. Len(order),
           NEW nodes, Len(nodes) \in Nat, DOMAIN nodes = 1 .. Len(nodes)
    PROVE  InOrder(order, nodes)
  <1> DEFINE a == Len(order)
             b == Len(nodes)
             u == [i \in 1 .. a |-> PeerItem(order[i])]
             v == [i \in 1 .. b |-> NodeItem(nodes[i])]
  <1>0. a \in Nat /\ b \in Nat
    OBVIOUS
  <1> HIDE DEF a, b
  <1>1. Len(u) = a /\ DOMAIN u = 1 .. a /\ Len(v) = b /\ DOMAIN v = 1 .. b
    <2>1. Len(u) = a /\ DOMAIN u = 1 .. a
      BY <1>0
    <2>2. Len(v) = b /\ DOMAIN v = 1 .. b
      BY <1>0
    <2> QED  BY <2>1, <2>2
  <1>2. \A i \in 1 .. a : u[i] = PeerItem(order[i])
    OBVIOUS
  <1>3. \A i \in 1 .. b : v[i] = NodeItem(nodes[i])
    OBVIOUS
  <1>4. ItemsOf(order, nodes) = u \o v
    BY DEF ItemsOf, a, b
  <1> DEFINE X == {PeerItem(order[i]) : i \in 1 .. a} \cup {NodeItem(nodes[i]) : i \in 1 .. b}
  <1>5. u \in Seq(X) /\ v \in Seq(X)
    <2>1. (\A i \in 1 .. a : PeerItem(order[i]) \in X) /\ (\A i \in 1 .. b : NodeItem(nodes[i]) \in X)
      OBVIOUS
    <2> HIDE DEF X
    <2>2. u \in [1 .. a -> X]
      BY <2>1
    <2>3. v \in [1 .. b -> X]
      BY <2>1
    <2>4. u \in Seq(X)
      BY <1>0, <2>2
    <2>5. v \in Seq(X)
      BY <1>0, <2>3
    <2> QED  BY <2>4, <2>5
  <1> HIDE DEF u, v, X
  <1>6. Len(u \o v) = a + b /\ \A i \in 1 .. (a + b) : (u \o v)[i] = IF i <= a THEN u[i] ELSE v[i - a]
    BY <1>0, <1>1, <1>5
  <1>7. \A i \in 1 .. a : i \in 1 .. (a + b) /\ i <= a
    BY <1>0
  <1>8. \A i \in 1 .. b : a + i \in 1 .. (a + b) /\ ~(a + i <= a) /\ (a + i) - a = i
    BY <1>0
  <1>9. \A i \in 1 .. b : (u \o v)[a + i] = v[i]
    BY <1>6, <1>8
  <1> QED  BY <1>2, <1>3, <1>4, <1>6, <1>7, <1>9 DEF a, b, InOrder

LEMMA RestoredAll ==
    ASSUME SavedNetworkConstants, NetworkInv,
           NEW order \in SetToSeqs(Saved), NEW nodes \in SetToSeqs(DOMAIN table)
    PROVE  ReadSoFar(Restored(ItemsOf(order, nodes)), order, nodes, Len(order) + Len(nodes))
  <1> DEFINE items == ItemsOf(order, nodes)
             a == Len(order)
             b == Len(nodes)
             r == Restoring(items)
             Good(k) == ReadSoFar(r[k], order, nodes, k)
             T == {k \in 0 .. (a + b) : ~Good(k)}
  <1> HIDE DEF Good, r, a, b, items
  <1>0. IsFiniteSet(Saved) /\ IsFiniteSet(DOMAIN table) /\ Saved \subseteq DOMAIN peers
    <2>1. Saved \subseteq DOMAIN peers
      BY DEF Saved
    <2> QED  BY <2>1, FS_Subset DEF NetworkInv, RecordsTyped, TableTyped
  <1>1. /\ a \in Nat /\ DOMAIN order = 1 .. a /\ b \in Nat /\ DOMAIN nodes = 1 .. b
        /\ \A i \in 1 .. a : order[i] \in Saved
        /\ \A i \in 1 .. b : nodes[i] \in DOMAIN table
    BY <1>0, SeqHasAll DEF a, b
  <1>2. /\ Len(items) = a + b
        /\ \A i \in 1 .. a : items[i] = PeerItem(order[i])
        /\ \A i \in 1 .. b : items[a + i] = NodeItem(nodes[i])
    <2>1. /\ Len(order) \in Nat /\ DOMAIN order = 1 .. Len(order)
          /\ Len(nodes) \in Nat /\ DOMAIN nodes = 1 .. Len(nodes)
      BY <1>1 DEF a, b
    <2>2. InOrder(order, nodes)
      BY <2>1, ItemsInOrder
    <2> QED  BY <2>2 DEF items, a, b, InOrder
  <1>3. Reads(r, items)
    BY <1>1, <1>2, RestoringReads DEF r
  <1>4. SUFFICES T = {}
    <2>1. a + b \in 0 .. (a + b)
      BY <1>1
    <2>2. T = {} => Good(a + b)
      BY <2>1
    <2> QED  BY <1>2, <2>2 DEF Good, Restored, r, items, a, b
  <1>5. SUFFICES ASSUME T # {} PROVE FALSE
    OBVIOUS
  <1>6. PICK k \in T : \A m \in T : k <= m
    <2>1. T \in SUBSET Nat
      BY <1>1
    <2> HIDE DEF T
    <2> QED  BY <1>5, <2>1, LeastNumber
  <1>7. k \in 0 .. (a + b) /\ ~Good(k) /\ k \in Nat
    BY <1>1, <1>6
  <1>8. CASE k = 0
    <2>1. r[0] = [peers |-> None, table |-> None, pinged |-> {}]
      BY <1>3 DEF Reads
    <2>2. {order[j] : j \in {j \in 1 .. a : j <= 0}} = {} /\ \A j \in 1 .. b : ~(a + j <= 0)
      BY <1>1
    <2>3. DOMAIN None = {} /\ None = [n \in {} |-> None[n]] /\ IsFiniteSet({})
      BY FS_EmptySet DEF None
    <2>4. ReadSoFar(r[0], order, nodes, 0)
      BY <2>1, <2>2, <2>3 DEF ReadSoFar, a, b
    <2> QED  BY <1>7, <1>8, <2>4 DEF Good
  <1>9. CASE k # 0
    <2>1. k - 1 \in 0 .. (a + b) /\ k - 1 \notin T /\ k \in 1 .. (a + b)
      BY <1>1, <1>6, <1>7, <1>9
    <2>2. PICK p, t, g :
            /\ r[k - 1] = [peers |-> p, table |-> t, pinged |-> g]
            /\ DOMAIN p = {order[j] : j \in {j \in 1 .. a : j <= k - 1}}
            /\ p \in [DOMAIN p -> PeerRecord] /\ \A n \in DOMAIN p : p[n] = peers[n]
            /\ DOMAIN t \subseteq Others /\ IsFiniteSet(DOMAIN t) /\ t \in [DOMAIN t -> Endpoint]
            /\ \A j \in 1 .. b :
                  a + j <= k - 1 /\ Allowed(table[nodes[j]]) /\ table[nodes[j]].address \in V4
                     => nodes[j] \in DOMAIN t \cup g
      BY <2>1 DEF Good, ReadSoFar, a, b
    <2>3. r[k] = RestoredItem([peers |-> p, table |-> t, pinged |-> g], items[k])
      BY <1>2, <1>3, <2>1, <2>2 DEF Reads
    <2>4. CASE k <= a
      <3> DEFINE n == order[k]
                 q == Put(p, n, peers[n])
                 u == Put(t, n, peers[n].endpoint)
      <3>1. k \in 1 .. a /\ n \in DOMAIN peers /\ Saves(n) /\ items[k] = PeerItem(n)
        BY <1>1, <1>2, <2>1, <2>4 DEF Saved
      <3>2. r[k] = [peers |-> q, table |-> u, pinged |-> g]
        BY <2>3, <3>1, PeerItemAdds
      <3>3. n \in Others /\ peers[n] \in PeerRecord /\ peers[n].endpoint \in Endpoint
        BY <3>1 DEF NetworkInv, RecordsTyped, PeerRecord
      <3> HIDE DEF n
      <3>4. DOMAIN u \subseteq Others /\ IsFiniteSet(DOMAIN u) /\ u \in [DOMAIN u -> Endpoint]
        <4> DEFINE x == peers[n].endpoint
        <4> HIDE DEF x
        <4>1. x \in Endpoint
          BY <3>3 DEF x
        <4>2. DOMAIN Put(t, n, x) \subseteq Others /\ IsFiniteSet(DOMAIN Put(t, n, x))
              /\ Put(t, n, x) \in [DOMAIN Put(t, n, x) -> Endpoint]
          BY <2>2, <3>3, <4>1, PutIn
        <4> QED  BY <4>2 DEF x
      <3>5. DOMAIN q = DOMAIN p \cup {n} /\ \A m \in DOMAIN q : q[m] = peers[m]
        BY <2>2 DEF Put
      <3>6. DOMAIN q = {order[j] : j \in {j \in 1 .. a : j <= k}}
        <4>1. {j \in 1 .. a : j <= k} = {j \in 1 .. a : j <= k - 1} \cup {k}
          BY <1>1, <1>7, <3>1
        <4> QED  BY <2>2, <3>5, <4>1 DEF n
      <3>7. q \in [DOMAIN q -> PeerRecord]
        <4>1. \A m \in DOMAIN q : q[m] \in PeerRecord
          BY <2>2, <3>3, <3>5
        <4>2. q = [m \in DOMAIN q |-> q[m]]
          BY DEF Put
        <4> HIDE DEF q
        <4> QED  BY <4>1, <4>2
      <3>8. \A j \in 1 .. b : ~(a + j <= k)
        BY <1>1, <1>7, <2>4
      <3> HIDE DEF q, u
      <3>9. Good(k)
        BY <3>2, <3>4, <3>5, <3>6, <3>7, <3>8 DEF Good, ReadSoFar, a, b
      <3> QED  BY <1>7, <3>9
    <2>5. CASE ~(k <= a)
      <3> DEFINE i == k - a
                 n == nodes[i]
      <3>1. i \in 1 .. b /\ k = a + i /\ n \in DOMAIN table /\ items[k] = NodeItem(n)
        BY <1>1, <1>2, <2>1, <2>5
      <3>2. PICK h : /\ r[k] = [peers |-> p, table |-> t, pinged |-> h]
                     /\ g \subseteq h
                     /\ Allowed(table[n]) /\ table[n].address \in V4 => n \in DOMAIN t \cup h
        <4> HIDE DEF n, i
        <4>1. n \in DOMAIN table
          BY <3>1
        <4>2. r[k] = RestoredItem([peers |-> p, table |-> t, pinged |-> g], NodeItem(n))
          BY <2>3, <3>1
        <4> DEFINE x == r[k]
        <4>3. x = RestoredItem([peers |-> p, table |-> t, pinged |-> g], NodeItem(n))
          BY <4>2
        <4> HIDE DEF x
        <4>4. x = [peers |-> p, table |-> t, pinged |-> x.pinged]
          BY <4>1, <4>3, NodeItemAdds
        <4>5. g \subseteq x.pinged
          BY <4>1, <4>3, NodeItemAdds
        <4>6. Allowed(table[n]) /\ table[n].address \in V4 => n \in DOMAIN t \cup x.pinged
          BY <4>1, <4>3, NodeItemAdds
        <4> QED  BY <4>4, <4>5, <4>6 DEF x
      <3>3. {j \in 1 .. a : j <= k - 1} = {j \in 1 .. a : j <= k}
        BY <1>1, <1>7, <2>5
      <3>4. ASSUME NEW j \in 1 .. b, a + j <= k, Allowed(table[nodes[j]]), table[nodes[j]].address \in V4
            PROVE  nodes[j] \in DOMAIN t \cup h
        <4>1. CASE a + j <= k - 1
          BY <2>2, <3>2, <3>4, <4>1
        <4>2. CASE j = i
          BY <3>2, <3>4, <4>2
        <4>3. a + j <= k - 1 \/ j = i
          BY <1>1, <1>7, <3>1, <3>4
        <4> QED  BY <4>1, <4>2, <4>3
      <3> HIDE DEF n, i
      <3>5. DOMAIN p = {order[j] : j \in {j \in 1 .. a : j <= k}}
        BY <2>2, <3>3
      <3>6. ReadSoFar(r[k], order, nodes, k)
        BY <2>2, <3>2, <3>4, <3>5 DEF ReadSoFar, a, b
      <3> QED  BY <1>7, <3>6 DEF Good
    <2> QED  BY <2>4, <2>5
  <1> QED  BY <1>8, <1>9

\* What the next process starts with.
LEMMA StartedAgain ==
    ASSUME SavedNetworkConstants, NetworkInv, StartAgain
    PROVE  /\ alias' = alias /\ now' = now
           /\ DOMAIN peers' = Saved /\ (\A n \in Saved : peers'[n] = peers[n])
           /\ peers' \in [DOMAIN peers' -> PeerRecord]
           /\ DOMAIN table' \subseteq Others /\ IsFiniteSet(DOMAIN table') /\ table' \in [DOMAIN table' -> Endpoint]
           /\ \A n \in DOMAIN table :
                 Allowed(table[n]) /\ table[n].address \in V4 => n \in DOMAIN table' \cup pinged'
  <1>1. PICK order \in SetToSeqs(Saved), nodes \in SetToSeqs(DOMAIN table) :
           StartWith(<<alias, ItemsOf(order, nodes)>>)
    <2>1. PICK file \in Files : StartWith(file)
      BY DEF StartAgain
    <2>2. PICK order \in {s \in SetToSeqs(Saved) : Sorted(s)}, nodes \in SetToSeqs(DOMAIN table) :
             file = <<alias, ItemsOf(order, nodes)>>
      BY <2>1 DEF Files
    <2> QED  BY <2>1, <2>2
  <1> DEFINE items == ItemsOf(order, nodes)
             r == Restored(items)
  <1>2. /\ alias' = alias /\ now' = now
        /\ peers' = r.peers /\ table' = r.table /\ pinged' = r.pinged
    <2> HIDE DEF items
    <2>1. <<alias, items>> # NoFile /\ <<alias, items>>[1] = alias /\ <<alias, items>>[2] = items
      BY DEF NoFile
    <2> QED  BY <1>1, <2>1 DEF StartWith, NetworkAlias, items
  <1>3. ReadSoFar(r, order, nodes, Len(order) + Len(nodes))
    BY RestoredAll
  <1>4. IsFiniteSet(Saved) /\ IsFiniteSet(DOMAIN table)
    <2>1. Saved \subseteq DOMAIN peers
      BY DEF Saved
    <2> QED  BY <2>1, FS_Subset DEF NetworkInv, RecordsTyped, TableTyped
  <1>5. /\ Len(order) \in Nat /\ DOMAIN order = 1 .. Len(order) /\ {order[i] : i \in DOMAIN order} = Saved
        /\ Len(nodes) \in Nat /\ DOMAIN nodes = 1 .. Len(nodes) /\ {nodes[i] : i \in DOMAIN nodes} = DOMAIN table
    BY <1>4, SeqHasAll
  <1> HIDE DEF r
  <1>6. PICK p, t, g :
       /\ r = [peers |-> p, table |-> t, pinged |-> g]
       /\ DOMAIN p = {order[j] : j \in {j \in 1 .. Len(order) : j <= Len(order) + Len(nodes)}}
       /\ p \in [DOMAIN p -> PeerRecord] /\ \A n \in DOMAIN p : p[n] = peers[n]
       /\ DOMAIN t \subseteq Others /\ IsFiniteSet(DOMAIN t) /\ t \in [DOMAIN t -> Endpoint]
       /\ \A j \in 1 .. Len(nodes) :
             Len(order) + j <= Len(order) + Len(nodes) /\ Allowed(table[nodes[j]]) /\ table[nodes[j]].address \in V4
                => nodes[j] \in DOMAIN t \cup g
    BY <1>3 DEF ReadSoFar
  <1>7. peers' = p /\ table' = t /\ pinged' = g
    BY <1>2, <1>6
  <1>8. DOMAIN p = Saved
    <2>1. {j \in 1 .. Len(order) : j <= Len(order) + Len(nodes)} = DOMAIN order
      BY <1>5
    <2> QED  BY <1>5, <1>6, <2>1
  <1>9. ASSUME NEW n \in DOMAIN table, Allowed(table[n]), table[n].address \in V4
        PROVE  n \in DOMAIN t \cup g
    <2>1. PICK j \in 1 .. Len(nodes) : n = nodes[j]
      BY <1>5
    <2>2. Len(order) + j <= Len(order) + Len(nodes)
      BY <1>5
    <2> QED  BY <1>6, <1>9, <2>1, <2>2
  <1> QED  BY <1>2, <1>6, <1>7, <1>8, <1>9

LEMMA StartedAnew ==
    ASSUME SavedNetworkConstants, NetworkInv, StartAnew
    PROVE  peers' = None /\ table' = None /\ now' = now
  <1>1. Reads(Restoring(<<>>), <<>>)
    BY RestoringReads
  <1>2. Restored(<<>>) = [peers |-> None, table |-> None, pinged |-> {}]
    BY <1>1 DEF Reads, Restored
  <1> QED  BY <1>2 DEF StartAnew, StartWith, NoFile

LEMMA NoneTyped == DOMAIN None = {} /\ None = [n \in {} |-> None[n]] /\ IsFiniteSet({})
  BY FS_EmptySet DEF None

\* A change of one record.
LEMMA RecordChanged ==
    ASSUME NetworkInv, NEW n \in DOMAIN peers, NEW x \in PeerRecord, peers' = [peers EXCEPT ![n] = x]
    PROVE  RecordsTyped'
  BY DEF NetworkInv, RecordsTyped

LEMMA HalvedFits ==
    ASSUME SavedNetworkConstants, NEW i \in -Bound .. Bound
    PROVE  Halved(i) \in -Bound .. Bound
  BY DEF SavedNetworkConstants, Halved

LEMMA NetworkInvInit ==
    ASSUME SavedNetworkConstants, NetworkInit
    PROVE  NetworkInv
  BY NoneTyped DEF SavedNetworkConstants, NetworkInit, NetworkInv, RecordsTyped, TableTyped

LEMMA NetworkInvNext ==
    ASSUME SavedNetworkConstants, NetworkInv, NetworkNext
    PROVE  NetworkInv'
  <1>0. /\ RecordsTyped /\ TableTyped /\ now \in Int
        /\ \A m \in DOMAIN peers : peers[m] \in PeerRecord
        /\ \A m \in DOMAIN table : table[m] \in Endpoint
    BY DEF NetworkInv, RecordsTyped, TableTyped
  <1>1. ASSUME NEW n \in Others, NEW ok \in BOOLEAN, Dial(n, ok) PROVE NetworkInv'
    <2> DEFINE p == peers[n]
               x == [p EXCEPT !.attempted = now, !.failed = @ + 1, !.reason = IF ok THEN @ ELSE "TCPError"]
    <2>1. n \in DOMAIN peers /\ peers' = [peers EXCEPT ![n] = x] /\ UNCHANGED <<table, now>>
      BY <1>1 DEF Dial, Change
    <2>2. p \in PeerRecord
      BY <1>0, <2>1
    <2>3. x \in PeerRecord
      <3> DEFINE f == p.failed + 1
                 c == IF ok THEN p.reason ELSE "TCPError"
      <3>1. f \in Int /\ c \in Reasons \cup {"NoDisconnect", "TCPError"}
        BY <2>2 DEF PeerRecord
      <3>2. x = [p EXCEPT !.attempted = now, !.failed = f, !.reason = c]
        OBVIOUS
      <3> HIDE DEF p, f, c, x
      <3>3. [p EXCEPT !.attempted = now, !.failed = f, !.reason = c] \in PeerRecord
        BY <1>0, <2>2, <3>1 DEF PeerRecord
      <3> QED  BY <3>2, <3>3
    <2> HIDE DEF x
    <2>4. RecordsTyped'
      BY <2>1, <2>3, RecordChanged
    <2> QED  BY <1>0, <2>1, <2>4 DEF NetworkInv, TableTyped
  <1>2. ASSUME NEW n \in Others, NEW e \in Endpoints, SessionStarts(n, e.address) PROVE NetworkInv'
    <2> DEFINE known == CASE n \in DOMAIN peers -> peers[n]
                          [] n \in DOMAIN table -> NewPeer(table[n], FALSE)
                          [] OTHER -> NewPeer(Unspecified, FALSE)
               x == [Constructed(known) EXCEPT !.connected = now, !.endpoint.address = e.address]
    <2>1. peers' = Put(peers, n, x) /\ UNCHANGED <<table, now>>
      BY <1>2 DEF SessionStarts
    <2>2. known \in PeerRecord
      BY <1>0, EndpointTyped
    <2>3. x \in PeerRecord
      <3> HIDE DEF known
      <3>1. Constructed(known) \in PeerRecord
        BY <2>2 DEF Constructed, PeerRecord
      <3> DEFINE c == Constructed(known)
      <3>2. c \in PeerRecord
        BY <3>1
      <3> HIDE DEF c
      <3>3. [c.endpoint EXCEPT !.address = e.address] \in Endpoint
        <4>1. c.endpoint \in Endpoint
          BY <3>2 DEF PeerRecord
        <4> QED  BY <4>1, EndpointTyped DEF Endpoint, Address
      <3>4. [c EXCEPT !.connected = now, !.endpoint = [c.endpoint EXCEPT !.address = e.address]] \in PeerRecord
        BY <1>0, <3>2, <3>3 DEF PeerRecord
      <3>5. [c EXCEPT !.connected = now, !.endpoint.address = e.address]
              = [c EXCEPT !.connected = now, !.endpoint = [c.endpoint EXCEPT !.address = e.address]]
        BY <3>2 DEF PeerRecord
      <3> QED  BY <3>4, <3>5 DEF c
    <2> HIDE DEF x
    <2>4. RecordsTyped'
      <3>1. DOMAIN peers \subseteq Others /\ IsFiniteSet(DOMAIN peers) /\ peers \in [DOMAIN peers -> PeerRecord]
        BY <1>0 DEF RecordsTyped
      <3>2. DOMAIN Put(peers, n, x) \subseteq Others /\ IsFiniteSet(DOMAIN Put(peers, n, x))
            /\ Put(peers, n, x) \in [DOMAIN Put(peers, n, x) -> PeerRecord]
        BY <2>3, <3>1, PutIn
      <3> QED  BY <2>1, <3>2 DEF RecordsTyped
    <2> QED  BY <1>0, <2>1, <2>4 DEF NetworkInv, TableTyped
  <1>3. ASSUME NEW n \in Others, NEW r \in Ratings, AddRating(n, r) PROVE NetworkInv'
    <2> DEFINE p == peers[n]
               x == [p EXCEPT !.score = @ + r, !.rating = @ + r, !.failed = IF r >= 0 THEN 0 ELSE @]
    <2>1. /\ n \in DOMAIN peers /\ peers' = [peers EXCEPT ![n] = x] /\ UNCHANGED <<table, now>>
          /\ p.score + r \in -Bound .. Bound /\ p.rating + r \in -Bound .. Bound
      BY <1>3 DEF AddRating, Change
    <2>2. p \in PeerRecord
      BY <1>0, <2>1
    <2>3. x \in PeerRecord
      <3> DEFINE i == p.score + r
                 j == p.rating + r
                 f == IF r >= 0 THEN 0 ELSE p.failed
      <3>1. f \in Int /\ i \in -Bound .. Bound /\ j \in -Bound .. Bound
        BY <2>1, <2>2 DEF PeerRecord
      <3>2. x = [p EXCEPT !.score = i, !.rating = j, !.failed = f]
        OBVIOUS
      <3> HIDE DEF p, f, i, j, x
      <3>3. [p EXCEPT !.score = i, !.rating = j, !.failed = f] \in PeerRecord
        BY <2>2, <3>1 DEF PeerRecord
      <3> QED  BY <3>2, <3>3
    <2> HIDE DEF x
    <2>4. RecordsTyped'
      BY <2>1, <2>3, RecordChanged
    <2> QED  BY <1>0, <2>1, <2>4 DEF NetworkInv, TableTyped
  <1>4. ASSUME NEW n \in Others, NEW reason \in Reasons, SessionEnds(n, reason) PROVE NetworkInv'
    <2>0. CASE n \notin DOMAIN peers
      BY <1>0, <1>4, <2>0 DEF SessionEnds, NetworkInv, RecordsTyped, TableTyped
    <2>1. CASE n \in DOMAIN peers
      <3> DEFINE p == peers[n]
                 bad == reason = "BadProtocol"
                 x == [p EXCEPT !.reason = reason, !.connected = p.attempted,
                                !.score = IF bad THEN Halved(@) ELSE @,
                                !.rating = IF bad THEN Halved(@) ELSE @]
      <3>1. peers' = [peers EXCEPT ![n] = x] /\ UNCHANGED <<table, now>>
        BY <1>4, <2>1 DEF SessionEnds, Change
      <3>2. p \in PeerRecord
        BY <1>0, <2>1
      <3>3. Halved(p.score) \in -Bound .. Bound /\ Halved(p.rating) \in -Bound .. Bound
        BY <3>2, HalvedFits DEF PeerRecord
      <3>4. x \in PeerRecord
        <4> HIDE DEF p, bad
        <4> QED  BY <3>2, <3>3 DEF PeerRecord
      <3> HIDE DEF x
      <3>5. RecordsTyped'
        BY <2>1, <3>1, <3>4, RecordChanged
      <3> QED  BY <1>0, <3>1, <3>5 DEF NetworkInv, TableTyped
    <2> QED  BY <2>0, <2>1
  <1>5. ASSUME NEW n \in Others, NEW e \in Endpoints, RequirePeer(n, e) PROVE NetworkInv'
    <2> DEFINE p == peers[n]
               x == IF n \in DOMAIN peers THEN [p EXCEPT !.endpoint = e, !.required = TRUE] ELSE NewPeer(e, TRUE)
               y == IF n \in DOMAIN table THEN table[n] ELSE e
    <2>1. peers' = Put(peers, n, x) /\ table' = Put(table, n, y) /\ now' = now
      BY <1>5 DEF RequirePeer
    <2>2. x \in PeerRecord /\ y \in Endpoint
      <3>1. e \in Endpoint /\ NewPeer(e, TRUE) \in PeerRecord
        BY EndpointTyped
      <3>2. n \in DOMAIN peers => p \in PeerRecord
        BY <1>0
      <3> HIDE DEF p
      <3>3. n \in DOMAIN peers => [p EXCEPT !.endpoint = e, !.required = TRUE] \in PeerRecord
        BY <3>1, <3>2 DEF PeerRecord
      <3> QED  BY <1>0, <3>1, <3>3
    <2> HIDE DEF x, y
    <2>3. RecordsTyped' /\ TableTyped'
      BY <1>0, <2>1, <2>2, PutIn DEF RecordsTyped, TableTyped
    <2> QED  BY <1>0, <2>1, <2>3 DEF NetworkInv
  <1>6. ASSUME NEW n \in Others, NEW e \in Endpoints, NodeAdded(n, e) PROVE NetworkInv'
    <2> DEFINE p == peers[n]
               x == IF n \in DOMAIN peers THEN [p EXCEPT !.endpoint = e] ELSE NewPeer(e, FALSE)
    <2>1. peers' = Put(peers, n, x) /\ table' = Put(table, n, e) /\ now' = now
      BY <1>6 DEF NodeAdded
    <2>2. x \in PeerRecord /\ e \in Endpoint
      <3>1. e \in Endpoint /\ NewPeer(e, FALSE) \in PeerRecord
        BY EndpointTyped
      <3>2. n \in DOMAIN peers => p \in PeerRecord
        BY <1>0
      <3> HIDE DEF p
      <3>3. n \in DOMAIN peers => [p EXCEPT !.endpoint = e] \in PeerRecord
        BY <3>1, <3>2 DEF PeerRecord
      <3> QED  BY <3>1, <3>3
    <2> HIDE DEF x
    <2>3. RecordsTyped' /\ TableTyped'
      BY <1>0, <2>1, <2>2, PutIn DEF RecordsTyped, TableTyped
    <2> QED  BY <1>0, <2>1, <2>3 DEF NetworkInv
  <1>7. ASSUME NEW n \in Others, NodeDropped(n) PROVE NetworkInv'
    <2>1. /\ table' = Without(table, n) /\ now' = now
          /\ peers' = Without(peers, n) \/ peers' = peers
      BY <1>7 DEF NodeDropped
    <2>2. RecordsTyped' /\ TableTyped'
      <3>1. /\ peers \in [DOMAIN peers -> PeerRecord] /\ DOMAIN peers \subseteq Others /\ IsFiniteSet(DOMAIN peers)
            /\ table \in [DOMAIN table -> Endpoint] /\ DOMAIN table \subseteq Others /\ IsFiniteSet(DOMAIN table)
        BY <1>0 DEF RecordsTyped, TableTyped
      <3> DEFINE p == Without(peers, n)
                 t == Without(table, n)
      <3>2. DOMAIN p \subseteq Others /\ IsFiniteSet(DOMAIN p) /\ p \in [DOMAIN p -> PeerRecord]
        BY <3>1, WithoutIn
      <3>3. DOMAIN t \subseteq Others /\ IsFiniteSet(DOMAIN t) /\ t \in [DOMAIN t -> Endpoint]
        BY <3>1, WithoutIn
      <3> HIDE DEF p, t
      <3>4. (peers' = p \/ peers' = peers) /\ table' = t
        BY <2>1 DEF p, t
      <3> QED  BY <3>1, <3>2, <3>3, <3>4 DEF RecordsTyped, TableTyped
    <2> QED  BY <1>0, <2>1, <2>2 DEF NetworkInv
  <1>8. CASE StartAgain
    <2>1. Saved \subseteq DOMAIN peers /\ IsFiniteSet(Saved)
      <3>1. Saved \subseteq DOMAIN peers
        BY DEF Saved
      <3> QED  BY <1>0, <3>1, FS_Subset DEF RecordsTyped
    <2> QED  BY <1>0, <1>8, <2>1, StartedAgain DEF NetworkInv, RecordsTyped, TableTyped
  <1>9. CASE StartAnew
    BY <1>0, <1>9, StartedAnew, NoneTyped DEF NetworkInv, RecordsTyped, TableTyped
  <1>10. CASE Tick
    BY <1>0, <1>10 DEF Tick, NetworkInv, RecordsTyped, TableTyped
  <1> QED  BY <1>1, <1>2, <1>3, <1>4, <1>5, <1>6, <1>7, <1>8, <1>9, <1>10 DEF NetworkNext

\* The inductive invariant of the saved network.
THEOREM NetworkInvariance == ASSUME SavedNetworkConstants PROVE NetworkSpec => []NetworkInv
  <1>1. NetworkInit => NetworkInv
    BY NetworkInvInit
  <1>2. NetworkInv /\ [NetworkNext]_networkVars => NetworkInv'
    <2> SUFFICES ASSUME NetworkInv, [NetworkNext]_networkVars PROVE NetworkInv'
      OBVIOUS
    <2>1. CASE NetworkNext
      BY <2>1, NetworkInvNext
    <2>2. CASE UNCHANGED networkVars
      BY <2>2 DEF networkVars, NetworkInv, RecordsTyped, TableTyped
    <2> QED  BY <2>1, <2>2
  <1> QED  BY <1>1, <1>2, PTL DEF NetworkSpec

\* The next process has what this one saved, each record as it was
\* (saveNetwork, restoreNetwork), for any peers, endpoints and ratings that an
\* int holds.
THEOREM AlwaysRestoredIsSaved == ASSUME SavedNetworkConstants PROVE NetworkSpec => RestoredIsSaved
  <1> DEFINE Kept == StartAgain =>
                         /\ alias' = alias
                         /\ DOMAIN peers' = Saved
                         /\ \A n \in DOMAIN peers' : peers'[n] = peers[n]
                         /\ \A n \in DOMAIN table :
                                Allowed(table[n]) /\ table[n].address \in V4 =>
                                    n \in DOMAIN table' \cup pinged'
  <1>1. NetworkInv /\ [NetworkNext]_networkVars => [Kept]_networkVars
    <2> SUFFICES ASSUME NetworkInv, StartAgain PROVE Kept
      OBVIOUS
    <2> QED  BY StartedAgain
  <1>2. NetworkSpec => []NetworkInv
    BY NetworkInvariance
  <1> QED  BY <1>1, <1>2, PTL DEF NetworkSpec, RestoredIsSaved
-----------------------------------------------------------------------------
(* RangeMask.  A map from the begin of a range to its end is apart, between  *)
(* lo and hi, when no range is empty, none leaves lo .. hi, and none touches *)
(* another.                                                                  *)

Apart(R, lo, hi) ==
    /\ R \in [DOMAIN R -> Nat]
    /\ \A b \in DOMAIN R : b \in Nat /\ lo <= b /\ b < R[b] /\ R[b] <= hi
    /\ \A b, c \in DOMAIN R : b < c => R[b] < c

Covers(R, x) == \E b \in DOMAIN R : b <= x /\ x < R[b]

\* The least and the greatest of some numbers.
LEMMA MinIs ==
    ASSUME NEW S, S \subseteq Nat, S # {}
    PROVE  Min(S) \in S /\ \A x \in S : Min(S) <= x
  <1>1. PICK n \in S : \A m \in S : n <= m
    BY LeastNumber
  <1> QED  BY <1>1 DEF Min

LEMMA MaxIs ==
    ASSUME NEW S, NEW n \in Nat, S \subseteq 0 .. n, S # {}
    PROVE  Max(S) \in S /\ \A x \in S : x <= Max(S)
  <1> DEFINE T == {n - x : x \in S}
  <1>1. T \in SUBSET Nat /\ T # {}
    <2>1. \A x \in S : n - x \in Nat
      OBVIOUS
    <2> QED  BY <2>1
  <1>2. PICK k \in T : \A m \in T : k <= m
    <2> HIDE DEF T
    <2> QED  BY <1>1, LeastNumber
  <1>3. PICK y \in S : k = n - y
    <2>1. k \in T
      BY <1>2
    <2> QED  BY <2>1
  <1>4. ASSUME NEW x \in S PROVE x <= y
    <2>1. n - x \in T
      OBVIOUS
    <2>2. n - y <= n - x
      BY <1>2, <1>3, <2>1
    <2> QED  BY <2>2
  <1> QED  BY <1>4 DEF Max

\* What upper_bound finds, and the range before it.
LEMMA Neighbours ==
    ASSUME NEW lo, NEW hi \in Nat, NEW R, Apart(R, lo, hi), NEW i \in Nat
    PROVE  /\ UpTo(R, i) # {} => /\ Max(UpTo(R, i)) \in DOMAIN R /\ Max(UpTo(R, i)) <= i
                                 /\ \A b \in DOMAIN R : b <= i => b <= Max(UpTo(R, i))
           /\ UpTo(R, i) = {} => \A b \in DOMAIN R : b > i
           /\ After(R, i) # {} => /\ Min(After(R, i)) \in DOMAIN R /\ Min(After(R, i)) > i
                                  /\ \A b \in DOMAIN R : b > i => b >= Min(After(R, i))
           /\ After(R, i) = {} => \A b \in DOMAIN R : b <= i
  <1>0. \A b \in DOMAIN R : b \in Nat
    BY DEF Apart
  <1>1. UpTo(R, i) # {} => Max(UpTo(R, i)) \in UpTo(R, i) /\ \A b \in UpTo(R, i) : b <= Max(UpTo(R, i))
    <2>1. UpTo(R, i) \subseteq 0 .. i
      BY <1>0 DEF UpTo
    <2> QED  BY <2>1, MaxIs
  <1>2. After(R, i) # {} => Min(After(R, i)) \in After(R, i) /\ \A b \in After(R, i) : Min(After(R, i)) <= b
    <2>1. After(R, i) \subseteq Nat
      BY <1>0 DEF After
    <2> QED  BY <2>1, MinIs
  <1>3. UpTo(R, i) # {} => /\ Max(UpTo(R, i)) \in DOMAIN R /\ Max(UpTo(R, i)) <= i
                           /\ \A b \in DOMAIN R : b <= i => b <= Max(UpTo(R, i))
    <2> DEFINE top == Max(UpTo(R, i))
    <2> HIDE DEF top
    <2>1. UpTo(R, i) # {} => top \in UpTo(R, i) /\ \A b \in UpTo(R, i) : b <= top
      BY <1>1 DEF top
    <2>2. UpTo(R, i) # {} => top \in DOMAIN R /\ top <= i /\ \A b \in DOMAIN R : b <= i => b <= top
      BY <2>1 DEF UpTo
    <2> QED  BY <2>2 DEF top
  <1>4. After(R, i) # {} => /\ Min(After(R, i)) \in DOMAIN R /\ Min(After(R, i)) > i
                            /\ \A b \in DOMAIN R : b > i => b >= Min(After(R, i))
    <2> DEFINE bottom == Min(After(R, i))
    <2> HIDE DEF bottom
    <2>1. After(R, i) # {} => bottom \in After(R, i) /\ \A b \in After(R, i) : bottom <= b
      BY <1>2 DEF bottom
    <2>2. After(R, i) # {} => bottom \in DOMAIN R /\ bottom > i /\ \A b \in DOMAIN R : b > i => b >= bottom
      BY <1>0, <2>1 DEF After
    <2> QED  BY <2>2 DEF bottom
  <1>5. UpTo(R, i) = {} => \A b \in DOMAIN R : b > i
    BY <1>0 DEF UpTo
  <1>6. After(R, i) = {} => \A b \in DOMAIN R : b <= i
    BY <1>0 DEF After
  <1> QED  BY <1>3, <1>4, <1>5, <1>6

\* S is R with a range from b to e in the place of those that it covers or touches:
\* of one that begins at b, and of those that are gone.
Replaces(S, R, b, e, gone) ==
    /\ gone \subseteq DOMAIN R /\ \A a \in gone : b < a /\ R[a] = e
    /\ b \in DOMAIN R => R[b] < e
    /\ \A c \in DOMAIN R : (c < b => R[c] < b) /\ (c > b /\ c \notin gone => c > e)
    /\ DOMAIN S = (DOMAIN R \cup {b}) \ gone
    /\ S = [x \in DOMAIN S |-> IF x = b THEN e ELSE R[x]]

LEMMA Grows ==
    ASSUME NEW lo \in Nat, NEW hi \in Nat, NEW R, Apart(R, lo, hi),
           NEW b \in Nat, NEW e \in Nat, lo <= b, b < e, e <= hi,
           NEW S, NEW gone, Replaces(S, R, b, e, gone)
    PROVE  /\ Apart(S, lo, hi)
           /\ \A x \in Nat : Covers(S, x) <=> Covers(R, x) \/ (b <= x /\ x < e)
  <1>1. /\ \A c \in DOMAIN R : c \in Nat /\ lo <= c /\ c < R[c] /\ R[c] <= hi /\ R[c] \in Nat
        /\ \A c, d \in DOMAIN R : c < d => R[c] < d
    BY DEF Apart
  <1>2. /\ b \in DOMAIN S /\ S[b] = e
        /\ \A c \in DOMAIN S : c # b => c \in DOMAIN R /\ c \notin gone /\ S[c] = R[c]
        /\ \A c \in DOMAIN R : c \notin gone => c \in DOMAIN S
        /\ \A a \in gone : b < a /\ R[a] = e
        /\ b \in DOMAIN R => R[b] < e
        /\ \A c \in DOMAIN R : (c < b => R[c] < b) /\ (c > b /\ c \notin gone => c > e)
    BY DEF Replaces
  <1>3. \A c \in DOMAIN S : c \in Nat /\ lo <= c /\ c < S[c] /\ S[c] <= hi /\ S[c] \in Nat
    <2> SUFFICES ASSUME NEW c \in DOMAIN S
                 PROVE  c \in Nat /\ lo <= c /\ c < S[c] /\ S[c] <= hi /\ S[c] \in Nat
      OBVIOUS
    <2>1. CASE c = b
      BY <1>2, <2>1
    <2>2. CASE c # b
      BY <1>1, <1>2, <2>2
    <2> QED  BY <2>1, <2>2
  <1>4. ASSUME NEW c \in DOMAIN S, NEW d \in DOMAIN S, c < d PROVE S[c] < d
    <2>1. CASE c = b
      <3>1. d # b /\ d \in DOMAIN R /\ d \notin gone
        BY <1>2, <1>3, <1>4, <2>1
      <3> QED  BY <1>2, <1>4, <2>1, <3>1
    <2>2. CASE c # b /\ d = b
      BY <1>2, <1>4, <2>2
    <2>3. CASE c # b /\ d # b
      BY <1>1, <1>2, <1>4, <2>3
    <2> QED  BY <2>1, <2>2, <2>3
  <1>5. Apart(S, lo, hi)
    <2>1. S = [x \in DOMAIN S |-> S[x]]
      BY DEF Replaces
    <2>2. S \in [DOMAIN S -> Nat]
      BY <1>3, <2>1
    <2> QED  BY <1>3, <1>4, <2>2 DEF Apart
  <1>6. ASSUME NEW x \in Nat, Covers(S, x) PROVE Covers(R, x) \/ (b <= x /\ x < e)
    <2>1. PICK c \in DOMAIN S : c <= x /\ x < S[c]
      BY <1>6 DEF Covers
    <2>2. CASE c = b
      BY <1>2, <2>1, <2>2
    <2>3. CASE c # b
      BY <1>2, <2>1, <2>3 DEF Covers
    <2> QED  BY <2>2, <2>3
  <1>7. ASSUME NEW x \in Nat, b <= x, x < e PROVE Covers(S, x)
    BY <1>2, <1>7 DEF Covers
  <1>8. ASSUME NEW x \in Nat, Covers(R, x) PROVE Covers(S, x)
    <2>1. PICK c \in DOMAIN R : c <= x /\ x < R[c]
      BY <1>8 DEF Covers
    <2>2. c \in Nat /\ R[c] \in Nat
      BY <1>1
    <2>3. CASE c \in gone
      <3>1. b < c /\ R[c] = e
        BY <1>2, <2>3
      <3>2. b <= x /\ x < e
        BY <2>1, <2>2, <3>1
      <3> QED  BY <1>7, <3>2
    <2>4. CASE c = b
      <3>1. b <= x /\ x < e
        BY <1>2, <2>1, <2>2, <2>4
      <3> QED  BY <1>7, <3>1
    <2>5. CASE c \notin gone /\ c # b
      <3>1. c \in DOMAIN S /\ S[c] = R[c]
        BY <1>2, <2>5
      <3> QED  BY <2>1, <3>1 DEF Covers
    <2> QED  BY <2>3, <2>4, <2>5
  <1> QED  BY <1>5, <1>6, <1>7, <1>8

\* A turn of unionWith's loop leaves the ranges apart and keeps what they cover
\* together with what the loop has still to add, which becomes less.
Turned(R, i, end, lo, hi, S, j) ==
    /\ Apart(S, lo, hi) /\ j \in Nat /\ i < j
    /\ \A x \in Nat : Covers(S, x) \/ (j <= x /\ x < end) <=> Covers(R, x) \/ (i <= x /\ x < end)

LEMMA TurnUnites ==
    ASSUME NEW lo \in Nat, NEW hi \in Nat, NEW R, Apart(R, lo, hi),
           NEW i \in Nat, NEW end \in Nat, lo <= i, i < end, end <= hi
    PROVE  \E S, j : Turn([ranges |-> R, i |-> i], end) = [ranges |-> S, i |-> j] /\ Turned(R, i, end, lo, hi, S, j)
  <1> DEFINE a == Min(After(R, i))
             it == Max(UpTo(R, i))
             Grown(b) == IF TooHigh(R, i, end) THEN [ranges |-> Assign(R, b, end), i |-> end]
                         ELSE [ranges |-> Erase(Assign(R, b, R[a]), a), i |-> R[a]]
  <1>0. /\ \A b \in DOMAIN R : b \in Nat /\ lo <= b /\ b < R[b] /\ R[b] <= hi /\ R[b] \in Nat
        /\ \A b, c \in DOMAIN R : b < c => R[b] < c
    BY DEF Apart
  <1>1. Turn([ranges |-> R, i |-> i], end) =
            IF UpTo(R, i) = {} \/ R[it] < i THEN Grown(i) ELSE IF R[it] = i THEN Grown(it) ELSE [ranges |-> R, i |-> R[it]]
    BY DEF Turn
  <1>2. UpTo(R, i) # {} => it \in DOMAIN R /\ it <= i /\ \A b \in DOMAIN R : b <= i => b <= it
    BY Neighbours
  <1>3. UpTo(R, i) = {} => \A b \in DOMAIN R : b > i
    BY Neighbours
  <1>4. After(R, i) # {} => a \in DOMAIN R /\ a > i /\ \A b \in DOMAIN R : b > i => b >= a
    BY Neighbours
  <1>5. After(R, i) = {} => \A b \in DOMAIN R : b <= i
    BY Neighbours
  <1>6. TooHigh(R, i, end) <=> After(R, i) = {} \/ a > end
    BY DEF TooHigh
  \* A range that begins at b, either i or where a range begins that ends with i.
  <1>7. ASSUME NEW b \in Nat, lo <= b, b <= i,
               b \in DOMAIN R => R[b] = i,
               \A c \in DOMAIN R : c < b => R[c] < b,
               \A c \in DOMAIN R : c > b => c > i,
               b < i => b \in DOMAIN R
        PROVE  \E S, j : Grown(b) = [ranges |-> S, i |-> j] /\ Turned(R, i, end, lo, hi, S, j)
    <2>1. CASE TooHigh(R, i, end)
      <3> DEFINE S == Assign(R, b, end)
      <3>1. DOMAIN S = DOMAIN R \cup {b} /\ S = [x \in DOMAIN S |-> IF x = b THEN end ELSE R[x]]
        BY DEF Assign
      <3>2. \A c \in DOMAIN R : c > b => c > end
        <4> SUFFICES ASSUME NEW c \in DOMAIN R, c > b PROVE c > end
          OBVIOUS
        <4>1. c > i /\ c \in Nat
          BY <1>0, <1>7
        <4>2. After(R, i) # {} /\ c >= a
          BY <1>4, <1>5, <4>1
        <4>3. a > end /\ a \in Nat
          BY <1>0, <1>4, <1>6, <2>1, <4>2
        <4> HIDE DEF a
        <4> QED  BY <4>1, <4>2, <4>3
      <3>3. Grown(b) = [ranges |-> S, i |-> end]
        BY <2>1
      <3> HIDE DEF S, a, it, Grown
      <3>4. b < end /\ (b \in DOMAIN R => R[b] < end)
        BY <1>7
      <3>5. DOMAIN S = (DOMAIN R \cup {b}) \ {}
        BY <3>1
      <3>6. Apart(S, lo, hi) /\ \A x \in Nat : Covers(S, x) <=> Covers(R, x) \/ (b <= x /\ x < end)
        <4>1. Replaces(S, R, b, end, {})
          BY <1>7, <3>1, <3>2, <3>4, <3>5 DEF Replaces
        <4> QED  BY <1>7, <3>4, <4>1, Grows
      <3>7. \A x \in Nat : b <= x /\ x < i => Covers(R, x)
        BY <1>7 DEF Covers
      <3>8. \A x \in Nat : Covers(S, x) \/ (end <= x /\ x < end) <=> Covers(R, x) \/ (i <= x /\ x < end)
        BY <1>7, <3>6, <3>7
      <3>9. Turned(R, i, end, lo, hi, S, end)
        BY <3>6, <3>8 DEF Turned
      <3> QED  BY <3>3, <3>9
    <2>2. CASE ~TooHigh(R, i, end)
      <3> DEFINE e == R[a]
                 S == Erase(Assign(R, b, e), a)
      <3>1. a \in DOMAIN R /\ a \in Nat /\ a > i /\ a <= end /\ e \in Nat /\ a < e /\ e <= hi
            /\ \A c \in DOMAIN R : c > i => c >= a
        BY <1>0, <1>4, <1>6, <2>2
      <3>2. Grown(b) = [ranges |-> S, i |-> e]
        BY <2>2
      <3> HIDE DEF a, it, Grown, e
      <3>3. DOMAIN S = (DOMAIN R \cup {b}) \ {a} /\ S = [x \in DOMAIN S |-> IF x = b THEN e ELSE R[x]]
        BY DEF Assign, Erase, Restrict
      <3> HIDE DEF S
      <3>4. \A c \in DOMAIN R : c > b /\ c \notin {a} => c > e
        <4> SUFFICES ASSUME NEW c \in DOMAIN R, c > b, c # a PROVE c > e
          OBVIOUS
        <4>1. c \in Nat /\ c > i /\ c >= a
          BY <1>0, <1>7, <3>1
        <4>2. a < c
          BY <3>1, <4>1
        <4>3. R[a] < c
          BY <1>0, <3>1, <4>2
        <4> QED  BY <3>1, <4>1, <4>3 DEF e
      <3>5. \A c \in {a} : b < c /\ R[c] = e
        BY <1>7, <3>1 DEF e
      <3>6. b < e /\ (b \in DOMAIN R => R[b] < e) /\ {a} \subseteq DOMAIN R
        BY <1>7, <3>1
      <3>7. Apart(S, lo, hi) /\ \A x \in Nat : Covers(S, x) <=> Covers(R, x) \/ (b <= x /\ x < e)
        <4>1. Replaces(S, R, b, e, {a})
          BY <1>7, <3>3, <3>4, <3>5, <3>6 DEF Replaces
        <4> QED  BY <1>7, <3>1, <3>6, <4>1, Grows
      <3>8. \A x \in Nat : b <= x /\ x < i => Covers(R, x)
        BY <1>7 DEF Covers
      <3>9. \A x \in Nat : a <= x /\ x < e => Covers(R, x)
        BY <3>1 DEF Covers, e
      <3>10. \A x \in Nat : Covers(S, x) \/ (e <= x /\ x < end) <=> Covers(R, x) \/ (i <= x /\ x < end)
        <4> SUFFICES ASSUME NEW x \in Nat
                     PROVE  Covers(S, x) \/ (e <= x /\ x < end) <=> Covers(R, x) \/ (i <= x /\ x < end)
          OBVIOUS
        <4>1. Covers(S, x) <=> Covers(R, x) \/ (b <= x /\ x < e)
          BY <3>7
        <4>2. (b <= x /\ x < i => Covers(R, x)) /\ (a <= x /\ x < e => Covers(R, x))
          BY <3>8, <3>9
        <4> QED  BY <1>7, <3>1, <4>1, <4>2
      <3>11. Turned(R, i, end, lo, hi, S, e)
        BY <3>1, <3>7, <3>10 DEF Turned
      <3> QED  BY <3>2, <3>11
    <2> QED  BY <2>1, <2>2
  <1> HIDE DEF Grown
  <1>8. CASE UpTo(R, i) = {} \/ R[it] < i
    <2>1. \A c \in DOMAIN R : c <= i => R[c] < i
      <3> SUFFICES ASSUME NEW c \in DOMAIN R, c <= i PROVE R[c] < i
        OBVIOUS
      <3>1. UpTo(R, i) # {} /\ R[it] < i /\ it \in DOMAIN R /\ c <= it
        BY <1>0, <1>2, <1>3, <1>8
      <3> HIDE DEF it
      <3>2. CASE c = it
        BY <3>1, <3>2
      <3>3. CASE c # it
        <4>1. c < it
          BY <1>0, <3>1, <3>3
        <4>2. R[c] < it /\ it < R[it]
          BY <1>0, <3>1, <4>1
        <4> QED  BY <1>0, <3>1, <4>2
      <3> QED  BY <3>2, <3>3
    <2>2. i \notin DOMAIN R
      BY <1>0, <2>1
    <2>3. \A c \in DOMAIN R : c < i => R[c] < i
      BY <1>0, <2>1
    <2>4. \E S, j : Grown(i) = [ranges |-> S, i |-> j] /\ Turned(R, i, end, lo, hi, S, j)
      BY <1>7, <2>2, <2>3
    <2> QED  BY <1>1, <1>8, <2>4
  <1>9. CASE UpTo(R, i) # {} /\ R[it] = i
    <2>1. it \in DOMAIN R /\ it \in Nat /\ lo <= it /\ it <= i /\ R[it] = i
      BY <1>0, <1>2, <1>9
    <2> HIDE DEF it
    <2>2. \A c \in DOMAIN R : (c < it => R[c] < it) /\ (c > it => c > i)
      BY <1>0, <2>1
    <2>3. \E S, j : Grown(it) = [ranges |-> S, i |-> j] /\ Turned(R, i, end, lo, hi, S, j)
      BY <1>7, <2>1, <2>2
    <2> QED  BY <1>1, <1>9, <2>1, <2>3
  <1>10. CASE UpTo(R, i) # {} /\ ~(R[it] < i) /\ R[it] # i
    <2>1. it \in DOMAIN R /\ it \in Nat /\ it <= i /\ R[it] > i /\ R[it] \in Nat
      BY <1>0, <1>2, <1>10
    <2>2. Turn([ranges |-> R, i |-> i], end) = [ranges |-> R, i |-> R[it]]
      BY <1>1, <1>10
    <2> HIDE DEF it
    <2>3. \A x \in Nat : i <= x /\ x < R[it] => Covers(R, x)
      BY <2>1 DEF Covers
    <2>4. \A x \in Nat : Covers(R, x) \/ (R[it] <= x /\ x < end) <=> Covers(R, x) \/ (i <= x /\ x < end)
      BY <2>1, <2>3
    <2>5. Turned(R, i, end, lo, hi, R, R[it])
      BY <2>1, <2>4 DEF Turned
    <2> QED  BY <2>2, <2>5
  <1> QED  BY <1>8, <1>9, <1>10

\* A loop of n turns, whose k-th turn takes what Y[k - 1] has to what Y[k] has: there
\* is a sequence of the states it comes to, and all such stay in Y.
LEMMA LoopStays ==
    ASSUME NEW n \in Nat, NEW Y, NEW f, f[0] \in Y[0],
           \A k \in 1 .. n : f[k - 1] \in Y[k - 1] => f[k] \in Y[k]
    PROVE  \A k \in 0 .. n : f[k] \in Y[k]
  <1> DEFINE T == {k \in 0 .. n : f[k] \notin Y[k]}
  <1>1. SUFFICES ASSUME T # {} PROVE FALSE
    OBVIOUS
  <1>2. PICK k \in T : \A m \in T : k <= m
    <2>1. T \in SUBSET Nat
      OBVIOUS
    <2> HIDE DEF T
    <2> QED  BY <1>1, <2>1, LeastNumber
  <1>3. k \in 0 .. n /\ f[k] \notin Y[k] /\ k # 0
    BY <1>2
  <1>4. k \in 1 .. n /\ k - 1 \in 0 .. n /\ k - 1 < k
    BY <1>3
  <1>5. k - 1 \notin T
    <2> HIDE DEF T
    <2> QED  BY <1>2, <1>3, <1>4
  <1>6. f[k - 1] \in Y[k - 1]
    BY <1>4, <1>5
  <1> QED  BY <1>3, <1>4, <1>6

Runs(f, n, base, step) ==
    f = [k \in 0 .. n |-> f[k]] /\ f[0] = base /\ \A k \in 1 .. n : f[k] = step[k][f[k - 1]]

LEMMA LoopRuns ==
    ASSUME NEW n \in Nat, NEW base, NEW step
    PROVE  \E f : Runs(f, n, base, step)
  <1> DEFINE Found(m) == \E f : Runs(f, m, base, step)
             T == {m \in 0 .. n : ~Found(m)}
  <1> HIDE DEF Found
  <1>1. SUFFICES ASSUME T # {} PROVE FALSE
    BY DEF Found
  <1>2. PICK k \in T : \A m \in T : k <= m
    <2>1. T \in SUBSET Nat
      OBVIOUS
    <2> HIDE DEF T
    <2> QED  BY <1>1, <2>1, LeastNumber
  <1>3. k \in 0 .. n /\ ~Found(k)
    BY <1>2
  <1>4. k # 0
    <2> DEFINE g == [i \in 0 .. 0 |-> base]
    <2>1. Runs(g, 0, base, step)
      BY DEF Runs
    <2> QED  BY <1>3, <2>1 DEF Found
  <1>5. PICK f : Runs(f, k - 1, base, step)
    <2>1. k - 1 \in 0 .. n /\ k - 1 < k
      BY <1>3, <1>4
    <2>2. k - 1 \notin T
      <3> HIDE DEF T
      <3> QED  BY <1>2, <1>3, <2>1
    <2> QED  BY <2>1, <2>2 DEF Found
  <1> DEFINE g == [i \in 0 .. k |-> IF i = k THEN step[k][f[k - 1]] ELSE f[i]]
  <1>6. k \in Nat /\ k - 1 \in Nat /\ g = [i \in 0 .. k |-> g[i]]
    BY <1>3, <1>4
  <1>7. \A i \in 0 .. (k - 1) : g[i] = f[i]
    BY <1>6
  <1>8. g[k] = step[k][f[k - 1]]
    BY <1>6
  <1> HIDE DEF g
  <1>9. 0 \in 0 .. (k - 1) /\ k - 1 \in 0 .. (k - 1)
    BY <1>6
  <1>10. g[0] = base
    BY <1>5, <1>7, <1>9 DEF Runs
  <1>11. ASSUME NEW i \in 1 .. k PROVE g[i] = step[i][g[i - 1]]
    <2>1. CASE i = k
      BY <1>7, <1>8, <1>9, <2>1
    <2>2. CASE i # k
      <3>1. i \in 1 .. (k - 1) /\ i \in 0 .. (k - 1) /\ i - 1 \in 0 .. (k - 1)
        BY <1>6, <2>2
      <3>2. f[i] = step[i][f[i - 1]]
        BY <1>5, <3>1 DEF Runs
      <3> QED  BY <1>7, <3>1, <3>2
    <2> QED  BY <2>1, <2>2
  <1>12. Runs(g, k, base, step)
    BY <1>6, <1>10, <1>11 DEF Runs
  <1> QED  BY <1>3, <1>12 DEF Found

\* Maps from begins to ends that do not exceed hi, and those apart.
Ranges(lo, hi) == {R \in UNION {[D -> 0 .. hi] : D \in SUBSET (0 .. hi)} : Apart(R, lo, hi)}

LEMMA ApartIsIn ==
    ASSUME NEW lo \in Nat, NEW hi \in Nat, NEW R, Apart(R, lo, hi)
    PROVE  R \in Ranges(lo, hi)
  <1>1. \A b \in DOMAIN R : b \in 0 .. hi /\ R[b] \in 0 .. hi
    BY DEF Apart
  <1>2. R = [b \in DOMAIN R |-> R[b]]
    BY DEF Apart
  <1>3. R \in [DOMAIN R -> 0 .. hi] /\ DOMAIN R \in SUBSET (0 .. hi)
    BY <1>1, <1>2
  <1> QED  BY <1>3 DEF Ranges

\* The loop of unionWith leaves the ranges apart, and adds what is between first
\* and end.
LEMMA UnitedIs ==
    ASSUME Top \in Nat, NEW lo \in Nat, NEW hi \in 0 .. Top, NEW R, Apart(R, lo, hi),
           NEW first \in Nat, NEW end \in Nat, first < end => lo <= first /\ end <= hi
    PROVE  /\ Apart(United(R, <<first, end>>), lo, hi)
           /\ \A x \in Nat : Covers(United(R, <<first, end>>), x) <=> Covers(R, x) \/ (first <= x /\ x < end)
  <1> DEFINE start == [ranges |-> R, i |-> first]
             Next1(s) == IF s.i < end THEN Turn(s, end) ELSE s
             Sound(s) == \A x \in Nat : Covers(s.ranges, x) \/ (s.i <= x /\ x < end)
                                            <=> Covers(R, x) \/ (first <= x /\ x < end)
             Reached(k) == {s \in [ranges : Ranges(lo, hi), i : Nat] :
                               first <= s.i /\ (s.i >= end \/ s.i >= first + k) /\ Sound(s)}
             Y == [k \in 0 .. Top |-> Reached(k)]
             step == [k \in 1 .. Top |-> [s \in Y[k - 1] |-> Next1(s)]]
             Def(f) == [k \in 0 .. Top |-> IF k = 0 THEN start ELSE Next1(f[k - 1])]
             o == Uniting(R, <<first, end>>)
  <1>1. hi \in Nat /\ hi <= Top
    OBVIOUS
  <1>2. \A k \in 0 .. Top : Y[k] = Reached(k)
    OBVIOUS
  <1>3. start \in Y[0]
    <2>1. R \in Ranges(lo, hi)
      BY <1>1, ApartIsIn
    <2>2. start \in Reached(0)
      BY <2>1
    <2> QED  BY <2>2
  <1>4. \A k \in 1 .. Top : \A s \in Y[k - 1] : step[k][s] = Next1(s)
    OBVIOUS
  <1>5. o = CHOOSE f : f = Def(f)
    BY DEF Uniting
  <1> HIDE DEF Y, step, o
  <1>6. ASSUME NEW k \in 1 .. Top, NEW s \in Y[k - 1] PROVE Next1(s) \in Y[k]
    <2>1. k \in Nat /\ k \in 0 .. Top /\ k - 1 \in 0 .. Top
      OBVIOUS
    <2>2. s \in Reached(k - 1) /\ Y[k] = Reached(k)
      BY <1>2, <2>1
    <2>3. PICK S \in Ranges(lo, hi), i \in Nat : s = [ranges |-> S, i |-> i]
      BY <2>2
    <2>4. Apart(S, lo, hi) /\ s.ranges = S /\ s.i = i /\ first <= i /\ (i >= end \/ i >= first + (k - 1))
      BY <2>2, <2>3 DEF Ranges
    <2>5. \A x \in Nat : Covers(S, x) \/ (i <= x /\ x < end) <=> Covers(R, x) \/ (first <= x /\ x < end)
      BY <2>2, <2>4
    <2>6. CASE i < end
      <3>1. lo <= i /\ end <= hi
        BY <2>4, <2>6
      <3>2. PICK S2, j : /\ Turn([ranges |-> S, i |-> i], end) = [ranges |-> S2, i |-> j]
                         /\ Turned(S, i, end, lo, hi, S2, j)
        BY <1>1, <2>4, <2>6, <3>1, TurnUnites
      <3>3. /\ Apart(S2, lo, hi) /\ j \in Nat /\ i < j
            /\ \A x \in Nat : Covers(S2, x) \/ (j <= x /\ x < end) <=> Covers(S, x) \/ (i <= x /\ x < end)
        BY <3>2 DEF Turned
      <3>4. S2 \in Ranges(lo, hi)
        BY <1>1, <3>3, ApartIsIn
      <3> DEFINE s2 == [ranges |-> S2, i |-> j]
      <3>5. s2.ranges = S2 /\ s2.i = j /\ s2 \in [ranges : Ranges(lo, hi), i : Nat]
        BY <3>3, <3>4
      <3>6. Next1(s) = s2
        BY <2>3, <2>4, <2>6, <3>2
      <3> HIDE DEF s2, Next1
      <3>7. Sound(s2)
        BY <2>5, <3>3, <3>5
      <3>8. first <= j /\ (j >= end \/ j >= first + k)
        BY <2>1, <2>4, <2>6, <3>3
      <3>9. s2 \in Reached(k)
        BY <3>5, <3>7, <3>8
      <3> QED  BY <2>2, <3>6, <3>9
    <2>7. CASE ~(i < end)
      <3>1. Next1(s) = s
        BY <2>4, <2>7
      <3> HIDE DEF Next1
      <3>2. s.i >= end
        BY <2>4, <2>7
      <3>3. s \in Reached(k)
        BY <2>2, <3>2
      <3> QED  BY <2>2, <3>1, <3>3
    <2> QED  BY <2>6, <2>7
  <1> HIDE DEF Next1, start
  <1>7. PICK f : Runs(f, Top, start, step)
    BY LoopRuns
  <1>8. f = [k \in 0 .. Top |-> f[k]] /\ f[0] = start /\ \A k \in 1 .. Top : f[k] = step[k][f[k - 1]]
    BY <1>7 DEF Runs
  <1>9. \A k \in 0 .. Top : f[k] \in Y[k]
    <2>1. f[0] \in Y[0] /\ \A k \in 1 .. Top : f[k - 1] \in Y[k - 1] => f[k] \in Y[k]
      BY <1>3, <1>4, <1>6, <1>8
    <2> QED  BY <2>1, LoopStays
  <1>10. f = Def(f)
    <2>1. \A k \in 0 .. Top : f[k] = IF k = 0 THEN start ELSE Next1(f[k - 1])
      <3>1. \A k \in 0 .. Top : k # 0 => k \in 1 .. Top /\ k - 1 \in 0 .. Top
        OBVIOUS
      <3> QED  BY <1>4, <1>8, <1>9, <3>1
    <2> QED  BY <1>8, <2>1, Zenon
  <1>11. o = Def(o)
    <2> HIDE DEF Def
    <2> QED  BY <1>5, <1>10
  <1>12. o[0] = start /\ \A k \in 1 .. Top : o[k] = Next1(o[k - 1])
    <2>1. \A k \in 0 .. Top : Def(o)[k] = IF k = 0 THEN start ELSE Next1(o[k - 1])
      OBVIOUS
    <2>2. 0 \in 0 .. Top /\ \A k \in 1 .. Top : k \in 0 .. Top /\ k # 0
      OBVIOUS
    <2> HIDE DEF Def
    <2> QED  BY <1>11, <2>1, <2>2
  <1>13. o[Top] \in Y[Top]
    <2>1. o[0] \in Y[0] /\ \A k \in 1 .. Top : o[k - 1] \in Y[k - 1] => o[k] \in Y[k]
      BY <1>3, <1>6, <1>12
    <2>2. \A k \in 0 .. Top : o[k] \in Y[k]
      BY <2>1, LoopStays
    <2> QED  BY <2>2
  <1>14. o[Top] \in Reached(Top)
    BY <1>2, <1>13
  <1>15. United(R, <<first, end>>) = o[Top].ranges
    BY DEF United, o
  <1> DEFINE t == o[Top]
  <1>16. /\ t.ranges \in Ranges(lo, hi) /\ t.i \in Nat /\ first <= t.i /\ (t.i >= end \/ t.i >= first + Top)
         /\ Sound(t)
    BY <1>14
  <1> HIDE DEF t
  <1>17. t.i >= end
    BY <1>1, <1>16
  <1>18. \A x \in Nat : Covers(t.ranges, x) <=> Covers(R, x) \/ (first <= x /\ x < end)
    BY <1>16, <1>17
  <1> QED  BY <1>15, <1>16, <1>18 DEF t, Ranges

\* unionWith a mask adds what that covers.
LEMMA AddedIs ==
    ASSUME Top \in Nat, NEW lo \in Nat, NEW hi \in 0 .. Top, NEW R, Apart(R, lo, hi),
           NEW m, Apart(m.ranges, lo, hi)
    PROVE  /\ Apart(Adding(R, m)[Top], lo, hi)
           /\ \A x \in Nat : Covers(Adding(R, m)[Top], x) <=> Covers(R, x) \/ Covers(m.ranges, x)
  <1> DEFINE N == m.ranges
             Next1(k, S) == IF k - 1 \in Begins(m) THEN United(S, <<k - 1, Until(m, k - 1)>>) ELSE S
             Below(k, x) == \E b \in DOMAIN N : b < k /\ b <= x /\ x < N[b]
             Reached(k) == {S \in Ranges(lo, hi) : \A x \in Nat : Covers(S, x) <=> Covers(R, x) \/ Below(k, x)}
             Y == [k \in 0 .. Top |-> Reached(k)]
             step == [k \in 1 .. Top |-> [S \in Y[k - 1] |-> Next1(k, S)]]
             Def(f) == [k \in 0 .. Top |-> IF k = 0 THEN R ELSE Next1(k, f[k - 1])]
             o == Adding(R, m)
  <1>0. \A b \in DOMAIN N : b \in Nat /\ lo <= b /\ b < N[b] /\ N[b] <= hi /\ N[b] \in Nat
    BY DEF Apart
  <1>1. hi \in Nat /\ hi <= Top
    OBVIOUS
  <1>2. \A k \in 0 .. Top : Y[k] = Reached(k)
    OBVIOUS
  <1>3. R \in Y[0]
    <2>1. R \in Ranges(lo, hi)
      BY <1>1, ApartIsIn
    <2>2. \A x \in Nat : ~Below(0, x)
      BY <1>0
    <2> HIDE DEF Below
    <2>3. R \in Reached(0)
      BY <2>1, <2>2
    <2> HIDE DEF Reached
    <2> QED  BY <1>1, <1>2, <2>3
  <1>4. \A k \in 1 .. Top : \A S \in Y[k - 1] : step[k][S] = Next1(k, S)
    OBVIOUS
  <1>5. o = CHOOSE f : f = Def(f)
    BY DEF Adding
  <1> HIDE DEF Y, step, o
  <1>6. ASSUME NEW k \in 1 .. Top, NEW S \in Y[k - 1] PROVE Next1(k, S) \in Y[k]
    <2>1. k \in Nat /\ k - 1 \in Nat /\ k \in 0 .. Top /\ k - 1 \in 0 .. Top
      OBVIOUS
    <2>2. S \in Reached(k - 1) /\ Y[k] = Reached(k)
      BY <1>2, <2>1
    <2>3. S \in Ranges(lo, hi) /\ Apart(S, lo, hi) /\ \A x \in Nat : Covers(S, x) <=> Covers(R, x) \/ Below(k - 1, x)
      BY <2>2 DEF Ranges
    <2>4. CASE k - 1 \in DOMAIN N
      <3> DEFINE e == N[k - 1]
                 U == United(S, <<k - 1, e>>)
      <3>1. Next1(k, S) = U
        BY <2>4 DEF Begins, Until
      <3>2. e \in Nat /\ lo <= k - 1 /\ e <= hi
        BY <1>0, <2>4
      <3> HIDE DEF e
      <3>3. Apart(U, lo, hi) /\ \A x \in Nat : Covers(U, x) <=> Covers(S, x) \/ (k - 1 <= x /\ x < e)
        BY <2>1, <2>3, <3>2, UnitedIs
      <3> HIDE DEF U, Next1
      <3>4. U \in Ranges(lo, hi)
        BY <1>1, <3>3, ApartIsIn
      <3>5. \A x \in Nat : Below(k, x) <=> Below(k - 1, x) \/ (k - 1 <= x /\ x < e)
        BY <1>0, <2>1, <2>4 DEF e
      <3> HIDE DEF Below
      <3>6. \A x \in Nat : Covers(U, x) <=> Covers(R, x) \/ Below(k, x)
        BY <2>3, <3>3, <3>5
      <3> QED  BY <2>2, <3>1, <3>4, <3>6
    <2>5. CASE k - 1 \notin DOMAIN N
      <3>1. Next1(k, S) = S
        BY <2>5 DEF Begins
      <3>2. \A x \in Nat : Below(k, x) <=> Below(k - 1, x)
        <4>1. \A b \in DOMAIN N : b < k <=> b < k - 1
          BY <1>0, <2>1, <2>5
        <4> QED  BY <4>1
      <3> HIDE DEF Below, Next1
      <3>3. \A x \in Nat : Covers(S, x) <=> Covers(R, x) \/ Below(k, x)
        BY <2>3, <3>2
      <3> QED  BY <2>2, <2>3, <3>1, <3>3
    <2> QED  BY <2>4, <2>5
  <1> HIDE DEF Next1
  <1>7. PICK f : Runs(f, Top, R, step)
    BY LoopRuns
  <1>8. f = [k \in 0 .. Top |-> f[k]] /\ f[0] = R /\ \A k \in 1 .. Top : f[k] = step[k][f[k - 1]]
    BY <1>7 DEF Runs
  <1>9. \A k \in 0 .. Top : f[k] \in Y[k]
    <2>1. ASSUME NEW k \in 1 .. Top, f[k - 1] \in Y[k - 1] PROVE f[k] \in Y[k]
      <3>1. f[k] = Next1(k, f[k - 1])
        BY <1>4, <1>8, <2>1
      <3>2. Next1(k, f[k - 1]) \in Y[k]
        BY <1>6, <2>1
      <3> QED  BY <3>1, <3>2
    <2>2. f[0] \in Y[0]
      BY <1>3, <1>8
    <2> QED  BY <2>1, <2>2, LoopStays
  <1>10. f = Def(f)
    <2>1. \A k \in 0 .. Top : f[k] = IF k = 0 THEN R ELSE Next1(k, f[k - 1])
      <3>1. \A k \in 0 .. Top : k # 0 => k \in 1 .. Top /\ k - 1 \in 0 .. Top
        OBVIOUS
      <3> QED  BY <1>4, <1>8, <1>9, <3>1
    <2> QED  BY <1>8, <2>1, Zenon
  <1>11. o = Def(o)
    <2> HIDE DEF Def
    <2> QED  BY <1>5, <1>10
  <1>12. o[0] = R /\ \A k \in 1 .. Top : o[k] = Next1(k, o[k - 1])
    <2>1. \A k \in 0 .. Top : Def(o)[k] = IF k = 0 THEN R ELSE Next1(k, o[k - 1])
      OBVIOUS
    <2>2. 0 \in 0 .. Top /\ \A k \in 1 .. Top : k \in 0 .. Top /\ k # 0
      OBVIOUS
    <2> HIDE DEF Def
    <2> QED  BY <1>11, <2>1, <2>2
  <1>13. o[Top] \in Y[Top]
    <2>1. o[0] \in Y[0] /\ \A k \in 1 .. Top : o[k - 1] \in Y[k - 1] => o[k] \in Y[k]
      BY <1>3, <1>6, <1>12
    <2>2. \A k \in 0 .. Top : o[k] \in Y[k]
      BY <2>1, LoopStays
    <2> QED  BY <2>2
  <1>14. o[Top] \in Reached(Top)
    BY <1>2, <1>13
  <1> DEFINE U == o[Top]
  <1> HIDE DEF U
  <1>15. Apart(U, lo, hi) /\ \A x \in Nat : Covers(U, x) <=> Covers(R, x) \/ Below(Top, x)
    BY <1>14 DEF U, Ranges
  <1>16. \A x \in Nat : Below(Top, x) <=> Covers(N, x)
    <2>1. \A b \in DOMAIN N : b < Top
      BY <1>0, <1>1
    <2> QED  BY <2>1 DEF Covers
  <1> HIDE DEF Below
  <1>17. \A x \in Nat : Covers(U, x) <=> Covers(R, x) \/ Covers(N, x)
    BY <1>15, <1>16
  <1> QED  BY <1>15, <1>17 DEF U, o

\* inverted: the ranges of the complement, which are apart as well.
LEMMA InvertedIs ==
    ASSUME NEW m, NEW lo \in Nat, NEW hi \in Nat, lo <= hi, m.all = <<lo, hi>>, Apart(m.ranges, lo, hi)
    PROVE  /\ Apart(Inverted(m).ranges, lo, hi) /\ Inverted(m).all = m.all
           /\ \A x \in Nat : Covers(Inverted(m).ranges, x) <=> lo <= x /\ x < hi /\ ~Covers(m.ranges, x)
  <1> DEFINE R == m.ranges
             before(b) == {c \in Begins(m) : c < b}
             last(b) == IF before(b) = {} THEN m.all[1] ELSE Until(m, Max(before(b)))
             ends == {b \in Begins(m) \cup {m.all[2]} : b # last(b)}
             S == [x \in {last(b) : b \in ends} |-> CHOOSE b \in ends : last(b) = x]
  <1>0. /\ \A b \in DOMAIN R : b \in Nat /\ lo <= b /\ b < R[b] /\ R[b] <= hi /\ R[b] \in Nat
        /\ \A b, c \in DOMAIN R : b < c => R[b] < c
        /\ m.all[1] = lo /\ m.all[2] = hi
    BY DEF Apart
  <1>1. Inverted(m) = Mask(m.all, S)
    BY DEF Inverted
  \* What lies before an end: the end of the range before it, or lo.
  <1>2. ASSUME NEW b \in Begins(m) \cup {hi}
        PROVE  /\ b \in Nat /\ b <= hi /\ last(b) \in Nat /\ lo <= last(b) /\ last(b) <= b
               /\ \A c \in DOMAIN R : c < b => R[c] <= last(b)
               /\ last(b) # lo => \E p \in DOMAIN R : p < b /\ R[p] = last(b)
    <2>1. b \in Nat /\ lo <= b /\ b <= hi
      BY <1>0 DEF Begins
    <2>2. before(b) = {c \in DOMAIN R : c < b}
      BY DEF Begins
    <2>3. CASE before(b) = {}
      <3>1. last(b) = lo
        BY <1>0, <2>3
      <3>2. \A c \in DOMAIN R : ~(c < b)
        BY <2>2, <2>3
      <3> HIDE DEF last
      <3> QED  BY <2>1, <3>1, <3>2
    <2>4. CASE before(b) # {}
      <3> DEFINE p == Max(before(b))
      <3>1. before(b) \subseteq 0 .. hi
        BY <1>0, <2>1, <2>2
      <3> HIDE DEF before
      <3>2. p \in before(b) /\ \A c \in before(b) : c <= p
        BY <2>4, <3>1, MaxIs
      <3>3. last(b) = R[p]
        BY <2>4 DEF Until
      <3> HIDE DEF last, p
      <3>4. p \in DOMAIN R /\ p < b /\ \A c \in DOMAIN R : c < b => c <= p
        BY <2>2, <3>2
      <3>5. p \in Nat /\ R[p] \in Nat /\ lo <= R[p] /\ R[p] <= b
        <4>1. b \in DOMAIN R \/ b = hi
          BY DEF Begins
        <4> QED  BY <1>0, <2>1, <3>4, <4>1
      <3>6. \A c \in DOMAIN R : c < b => R[c] <= R[p]
        <4> SUFFICES ASSUME NEW c \in DOMAIN R, c < b PROVE R[c] <= R[p]
          OBVIOUS
        <4>1. c <= p /\ c \in Nat /\ R[c] \in Nat
          BY <1>0, <3>4
        <4>2. CASE c = p
          BY <3>5, <4>2
        <4>3. CASE c # p
          <5>1. c < p
            BY <3>5, <4>1, <4>3
          <5>2. R[c] < p /\ p < R[p]
            BY <1>0, <3>4, <5>1
          <5> QED  BY <3>5, <4>1, <5>2
        <4> QED  BY <4>2, <4>3
      <3> QED  BY <2>1, <3>3, <3>4, <3>5, <3>6
    <2> QED  BY <2>3, <2>4
  <1> HIDE DEF last
  <1>3. \A b \in ends : b \in Begins(m) \cup {hi} /\ b # last(b) /\ last(b) < b
    BY <1>0, <1>2
  <1>4. \A b \in Begins(m) \cup {hi} : b # last(b) => b \in ends
    BY <1>0
  <1> HIDE DEF ends
  <1>5. ASSUME NEW b \in ends, NEW c \in ends, b < c PROVE b < last(c)
    <2>1. b \in Begins(m) \cup {hi} /\ c \in Begins(m) \cup {hi} /\ b # hi
      BY <1>2, <1>3, <1>5
    <2>2. b \in DOMAIN R
      BY <2>1 DEF Begins
    <2>3. R[b] <= last(c) /\ b < R[b]
      BY <1>0, <1>2, <1>5, <2>1, <2>2
    <2>4. b \in Nat /\ R[b] \in Nat /\ last(c) \in Nat
      BY <1>0, <1>2, <2>1, <2>2
    <2> QED  BY <2>3, <2>4
  <1>6. \A b \in ends : b \in Nat /\ last(b) \in Nat /\ lo <= last(b) /\ last(b) < b /\ b <= hi
    BY <1>2, <1>3
  <1>7. ASSUME NEW b \in ends, NEW c \in ends, last(b) = last(c) PROVE b = c
    BY <1>5, <1>6, <1>7
  <1>8. DOMAIN S = {last(b) : b \in ends} /\ S = [x \in DOMAIN S |-> S[x]]
    OBVIOUS
  <1>9. ASSUME NEW b \in ends PROVE S[last(b)] = b
    <2>1. S[last(b)] = CHOOSE c \in ends : last(c) = last(b)
      OBVIOUS
    <2> HIDE DEF S
    <2> QED  BY <1>7, <2>1
  <1> HIDE DEF S
  <1>10. \A x \in DOMAIN S : \E b \in ends : x = last(b) /\ S[x] = b
    BY <1>8, <1>9
  <1>11. Apart(S, lo, hi)
    <2>1. \A x \in DOMAIN S : x \in Nat /\ lo <= x /\ x < S[x] /\ S[x] <= hi /\ S[x] \in Nat
      BY <1>6, <1>10
    <2>2. ASSUME NEW x \in DOMAIN S, NEW y \in DOMAIN S, x < y PROVE S[x] < y
      <3>1. PICK b \in ends : x = last(b) /\ S[x] = b
        BY <1>10
      <3>2. PICK c \in ends : y = last(c) /\ S[y] = c
        BY <1>10
      <3>3. b < c
        <4>1. SUFFICES ASSUME c < b \/ c = b PROVE FALSE
          BY <1>6
        <4>2. c < last(b) \/ c = b
          BY <1>5, <4>1
        <4> QED  BY <1>6, <2>2, <3>1, <3>2, <4>2
      <3> QED  BY <1>5, <3>1, <3>2, <3>3
    <2>3. S \in [DOMAIN S -> Nat]
      BY <1>8, <2>1
    <2> QED  BY <2>1, <2>2, <2>3 DEF Apart
  <1>12. ASSUME NEW x \in Nat, Covers(S, x) PROVE lo <= x /\ x < hi /\ ~Covers(R, x)
    <2>1. PICK b \in ends : last(b) <= x /\ x < b
      BY <1>10, <1>12 DEF Covers
    <2>2. lo <= x /\ x < hi
      BY <1>6, <2>1
    <2>3. ASSUME NEW c \in DOMAIN R, c <= x, x < R[c] PROVE FALSE
      <3>1. c < b /\ c \in Nat /\ R[c] \in Nat
        BY <1>0, <1>6, <2>1, <2>3
      <3>2. R[c] <= last(b)
        BY <1>2, <1>3, <3>1
      <3> QED  BY <1>6, <2>1, <2>3, <3>1, <3>2
    <2> QED  BY <2>2, <2>3 DEF Covers
  <1>13. ASSUME NEW x \in Nat, lo <= x, x < hi, ~Covers(R, x) PROVE Covers(S, x)
    <2> DEFINE B == {b \in Begins(m) \cup {hi} : b > x}
    <2>1. B \subseteq Nat /\ hi \in B
      BY <1>2, <1>13
    <2>2. PICK b \in B : \A c \in B : b <= c
      <3> HIDE DEF B
      <3> QED  BY <2>1, LeastNumber
    <2>3. b \in Begins(m) \cup {hi} /\ b > x
      OBVIOUS
    <2>4. last(b) <= x
      <3>1. CASE last(b) = lo
        BY <1>13, <3>1
      <3>2. CASE last(b) # lo
        <4>1. PICK p \in DOMAIN R : p < b /\ R[p] = last(b)
          BY <1>2, <2>3, <3>2
        <4>2. p \in Nat /\ R[p] \in Nat /\ b \in Nat
          BY <1>0, <1>2, <2>3
        <4>3. ~(p > x)
          <5>1. p > x => p \in B
            BY DEF Begins
          <5> HIDE DEF B
          <5> QED  BY <2>2, <4>1, <4>2, <5>1
        <4>4. ~(x < R[p])
          BY <1>13, <4>2, <4>3 DEF Covers
        <4> QED  BY <4>1, <4>2, <4>4
      <3> QED  BY <3>1, <3>2
    <2>5. b \in Nat /\ last(b) \in Nat
      BY <1>2, <2>3
    <2>6. b \in ends
      BY <1>4, <2>3, <2>4, <2>5
    <2>7. last(b) \in DOMAIN S /\ S[last(b)] = b
      BY <1>8, <1>9, <2>6
    <2> QED  BY <2>3, <2>4, <2>5, <2>7 DEF Covers
  <1>14. Inverted(m).all = m.all /\ Inverted(m).ranges = S
    BY <1>1 DEF Mask
  <1> QED  BY <1>11, <1>12, <1>13, <1>14

\* What the ranges have, as a set.
LEMMA ElementsAre ==
    ASSUME NEW m, NEW lo \in Nat, NEW hi \in Nat, Apart(m.ranges, lo, hi)
    PROVE  \A x : x \in Elements(m) <=> x \in Nat /\ Covers(m.ranges, x)
  <1> DEFINE R == m.ranges
  <1>1. \A b \in DOMAIN R : b \in Nat /\ R[b] \in Nat
    BY DEF Apart
  <1>2. \A x : x \in Elements(m) <=> \E b \in DOMAIN R : x \in b .. R[b] - 1
    BY DEF Elements, Begins, Until
  <1>3. \A b \in DOMAIN R : \A x : x \in b .. R[b] - 1 <=> x \in Nat /\ b <= x /\ x < R[b]
    BY <1>1
  <1> QED  BY <1>2, <1>3 DEF Covers

LEMMA SetsCount == ASSUME NEW S PROVE Sets!Cardinality(S) = Cardinality(S)
  BY DEF Sets!Cardinality, Cardinality

LEMMA Unwrapped == ASSUME NEW a \in Nat, NEW w \in Nat, a < w PROVE a % w = a
  OBVIOUS

\* n elements below which there are no others are the n smallest, and so are all
\* when there are less.
LEMMA SmallestAre ==
    ASSUME NEW E, IsFiniteSet(E), E \subseteq Nat, NEW n \in Nat,
           NEW A, A \subseteq E, \A a \in A, e \in E \ A : a < e,
           Cardinality(A) <= n, Cardinality(A) = n \/ A = E
    PROVE  Sets!Smallest(E, n) = A
  <1>1. IsFiniteSet(A) /\ Cardinality(A) \in Nat
    BY FS_Subset, FS_CardinalityType
  <1>2. ASSUME NEW a \in A PROVE Cardinality({j \in E : j < a}) < n
    <2> DEFINE B == {j \in E : j < a}
    <2>1. B \subseteq A
      <3>1. ASSUME NEW j \in E, j < a, j \notin A PROVE FALSE
        <4>1. a < j /\ a \in Nat /\ j \in Nat
          BY <1>2, <3>1
        <4> QED  BY <3>1, <4>1
      <3> QED  BY <3>1
    <2>2. a \notin B
      OBVIOUS
    <2> HIDE DEF B
    <2>3. Cardinality(B) <= Cardinality(A) /\ Cardinality(B) # Cardinality(A) /\ IsFiniteSet(B)
      BY <1>1, <2>1, <2>2, FS_Subset
    <2>4. Cardinality(B) \in Nat
      BY <2>3, FS_CardinalityType
    <2> QED  BY <1>1, <2>3, <2>4 DEF B
  <1>3. ASSUME NEW e \in E, e \notin A PROVE ~(Cardinality({j \in E : j < e}) < n)
    <2> DEFINE B == {j \in E : j < e}
    <2>1. A \subseteq B /\ B \subseteq E
      BY <1>3
    <2> HIDE DEF B
    <2>2. IsFiniteSet(B) /\ Cardinality(A) <= Cardinality(B)
      BY <2>1, FS_Subset
    <2>3. Cardinality(A) = n /\ Cardinality(B) \in Nat
      BY <1>3, <2>2, FS_CardinalityType
    <2> QED  BY <2>2, <2>3 DEF B
  <1>4. \A i \in E : Sets!Cardinality({j \in E : j < i}) = Cardinality({j \in E : j < i})
    BY SetsCount
  <1> QED  BY <1>2, <1>3, <1>4 DEF Sets!Smallest

LEMMA NumbersFinite == ASSUME Top \in Nat PROVE IsFiniteSet(0 .. Top)
  BY FS_Interval

\* lowest takes the smallest, as long as what it adds up fits into the type.
LEMMA LowestIs ==
    ASSUME Top \in Nat, Wrap \in Nat, NEW m, NEW lo \in Nat, NEW hi \in 0 .. Top, Apart(m.ranges, lo, hi),
           NEW n \in Nat, Top + n < Wrap
    PROVE  /\ Lowest(m, n).all = m.all /\ Apart(Lowest(m, n).ranges, lo, hi)
           /\ \A x \in Nat : Covers(Lowest(m, n).ranges, x) <=> x \in Sets!Smallest(Elements(m), n)
  <1> DEFINE R == m.ranges
             start == [items |-> n, ranges |-> Empty]
             Next1(k, s) == IF k - 1 \in Begins(m) /\ s.items # 0 THEN TakenFrom(m, s, k - 1) ELSE s
             Below(k, x) == \E b \in DOMAIN R : b < k /\ b <= x /\ x < R[b]
             Took(s) == {x \in 0 .. Top : Covers(s.ranges, x)}
             Sound(k, s) == /\ \A x \in Nat : Covers(s.ranges, x) => Below(k, x)
                            /\ \A x \in Nat : Below(k, x) /\ ~Covers(s.ranges, x) =>
                                   s.items = 0 /\ \A y \in Nat : Covers(s.ranges, y) => y < x
                            /\ Cardinality(Took(s)) = n - s.items
             Reached(k) == {s \in [items : 0 .. n, ranges : Ranges(lo, hi)] : Sound(k, s)}
             Y == [k \in 0 .. Top |-> Reached(k)]
             step == [k \in 1 .. Top |-> [s \in Y[k - 1] |-> Next1(k, s)]]
             Def(f) == [k \in 0 .. Top |-> IF k = 0 THEN start ELSE Next1(k, f[k - 1])]
             o == Taking(m, n)
  <1>0. /\ \A b \in DOMAIN R : b \in Nat /\ lo <= b /\ b < R[b] /\ R[b] <= hi /\ R[b] \in Nat
        /\ \A b, c \in DOMAIN R : b < c => R[b] < c
    BY DEF Apart
  <1>1. hi \in Nat /\ hi <= Top
    OBVIOUS
  <1>2. \A k \in 0 .. Top : Y[k] = Reached(k)
    OBVIOUS
  <1>3. start \in Y[0]
    <2>1. DOMAIN Empty = {} /\ Empty = [b \in {} |-> Empty[b]]
      BY DEF Empty
    <2>2. Apart(Empty, lo, hi) /\ \A x : ~Covers(Empty, x)
      BY <2>1 DEF Apart, Covers
    <2>3. Empty \in Ranges(lo, hi)
      BY <1>1, <2>2, ApartIsIn
    <2>4. start.items = n /\ start.ranges = Empty /\ start \in [items : 0 .. n, ranges : Ranges(lo, hi)]
      BY <2>3
    <2>5. Took(start) = {}
      BY <2>2, <2>4
    <2>6. \A x \in Nat : ~Below(0, x)
      BY <1>0
    <2> HIDE DEF start, Below, Took
    <2>7. Cardinality(Took(start)) = n - start.items
      BY <2>4, <2>5, FS_EmptySet
    <2>8. Sound(0, start)
      BY <2>2, <2>4, <2>6, <2>7
    <2>9. start \in Reached(0)
      BY <2>4, <2>8
    <2> QED  BY <1>1, <1>2, <2>9
  <1>4. \A k \in 1 .. Top : \A s \in Y[k - 1] : step[k][s] = Next1(k, s)
    OBVIOUS
  <1>5. o = CHOOSE f : f = Def(f)
    BY DEF Taking
  <1> HIDE DEF Y, step, o
  <1>6. ASSUME NEW k \in 1 .. Top, NEW s \in Y[k - 1] PROVE Next1(k, s) \in Y[k]
    <2> DEFINE b == k - 1
    <2>1. k \in Nat /\ b \in Nat /\ k \in 0 .. Top /\ b \in 0 .. Top
      OBVIOUS
    <2>2. s \in Reached(b) /\ Y[k] = Reached(k)
      BY <1>2, <2>1
    <2>3. PICK items \in 0 .. n, S \in Ranges(lo, hi) : s = [items |-> items, ranges |-> S]
      BY <2>2
    <2>4. s.items = items /\ s.ranges = S /\ Apart(S, lo, hi) /\ Sound(b, s)
      BY <2>2, <2>3 DEF Ranges
    <2>5. /\ \A x \in Nat : Covers(S, x) => Below(b, x)
          /\ \A x \in Nat : Below(b, x) /\ ~Covers(S, x) => items = 0 /\ \A y \in Nat : Covers(S, y) => y < x
          /\ Cardinality(Took(s)) = n - items
      BY <2>4
    <2> HIDE DEF Sound, Took
    <2>6. CASE b \in DOMAIN R /\ items # 0
      <3> DEFINE u == R[b]
                 end == IF b + items < u THEN b + items ELSE u
                 left == items - (end - b)
                 S2 == Assign(S, b, end)
                 s2 == [items |-> left, ranges |-> S2]
      <3>1. u \in Nat /\ b < u /\ u <= hi /\ lo <= b
        BY <1>0, <2>6
      <3> HIDE DEF u, b
      <3>2. end \in Nat /\ b < end /\ end <= u /\ left \in 0 .. n /\ end - b <= items
            /\ (left # 0 => end = u)
        BY <2>1, <2>6, <3>1
      <3>3. (b + items) % Wrap = b + items
        <4>1. b + items \in Nat /\ b + items < Wrap
          BY <2>1
        <4> QED  BY <4>1, Unwrapped
      <3> HIDE DEF end
      <3>4. left % Wrap = left
        <4>1. left \in Nat /\ left < Wrap
          BY <3>2
        <4> HIDE DEF left
        <4> QED  BY <4>1, Unwrapped
      <3>5. TakenFrom(m, s, b) = s2
        <4>1. Least((b + s.items) % Wrap, Until(m, b)) = end
          BY <2>4, <3>3 DEF Least, Until, end, u
        <4> QED  BY <2>4, <3>4, <4>1 DEF TakenFrom
      <3>6. Next1(k, s) = s2
        BY <2>4, <2>6, <3>5 DEF Begins, b
      <3> HIDE DEF left, Next1
      <3>7. \A c \in DOMAIN S : c \in Nat /\ S[c] \in Nat /\ c < S[c] /\ S[c] < b
        <4> SUFFICES ASSUME NEW c \in DOMAIN S PROVE c \in Nat /\ S[c] \in Nat /\ c < S[c] /\ S[c] < b
          OBVIOUS
        <4>1. c \in Nat /\ S[c] \in Nat /\ c < S[c]
          BY <2>4 DEF Apart
        <4>2. S[c] - 1 \in Nat /\ c <= S[c] - 1 /\ S[c] - 1 < S[c]
          BY <4>1
        <4>3. Covers(S, S[c] - 1)
          BY <4>2 DEF Covers
        <4>4. PICK d \in DOMAIN R : d < b /\ S[c] - 1 < R[d]
          BY <2>5, <4>2, <4>3
        <4>5. R[d] < b /\ R[d] \in Nat
          BY <1>0, <2>6, <4>4
        <4> QED  BY <2>1, <4>1, <4>4, <4>5
      <3>8. Replaces(S2, S, b, end, {})
        <4>1. DOMAIN S2 = (DOMAIN S \cup {b}) \ {} /\ S2 = [x \in DOMAIN S2 |-> IF x = b THEN end ELSE S[x]]
          BY DEF Assign
        <4> HIDE DEF S2
        <4>2. b \notin DOMAIN S /\ \A c \in DOMAIN S : c < b /\ S[c] < b
          BY <2>1, <3>7
        <4> QED  BY <2>1, <3>7, <4>1, <4>2 DEF Replaces
      <3> HIDE DEF S2
      <3>9. Apart(S2, lo, hi) /\ \A x \in Nat : Covers(S2, x) <=> Covers(S, x) \/ (b <= x /\ x < end)
        BY <1>1, <2>1, <2>4, <3>1, <3>2, <3>8, Grows
      <3>10. S2 \in Ranges(lo, hi)
        BY <1>1, <3>9, ApartIsIn
      <3>11. s2.items = left /\ s2.ranges = S2 /\ s2 \in [items : 0 .. n, ranges : Ranges(lo, hi)]
        BY <3>2, <3>10
      <3> HIDE DEF s2
      <3>12. \A x \in Nat : Below(k, x) <=> Below(b, x) \/ (b <= x /\ x < u)
        <4>1. \A d \in DOMAIN R : d < k <=> d < b \/ d = b
          BY <1>0, <2>1 DEF b
        <4> QED  BY <2>6, <4>1 DEF u
      <3>13. \A x \in Nat : Below(b, x) => x < b
        BY <1>0, <2>6, <2>1
      <3> HIDE DEF Below
      <3>14. \A x \in Nat : Below(b, x) => Covers(S, x)
        BY <2>5, <2>6
      <3>15. \A x \in Nat : Covers(S2, x) => Below(k, x)
        BY <2>1, <2>5, <3>1, <3>2, <3>9, <3>12
      <3>16. ASSUME NEW x \in Nat, Below(k, x), ~Covers(S2, x)
             PROVE  left = 0 /\ \A y \in Nat : Covers(S2, y) => y < x
        <4>1. b <= x /\ x < u /\ ~(x < end)
          BY <3>9, <3>12, <3>14, <3>16
        <4>2. left = 0
          BY <3>2, <4>1
        <4>3. \A y \in Nat : Covers(S2, y) => y < end
          BY <2>1, <2>5, <3>2, <3>9, <3>13
        <4> QED  BY <3>2, <4>1, <4>2, <4>3
      <3>17. Cardinality(Took(s2)) = n - left
        <4> DEFINE A == Took(s)
                   I == b .. (end - 1)
        <4>1. IsFiniteSet(A)
          <5>1. A \subseteq 0 .. Top
            BY DEF Took
          <5>2. IsFiniteSet(0 .. Top)
            BY NumbersFinite
          <5> QED  BY <5>1, <5>2, FS_Subset
        <4>2. IsFiniteSet(I) /\ Cardinality(I) = end - b
          <5>1. b \in Int /\ end - 1 \in Int /\ ~(b > end - 1) /\ (end - 1) - b + 1 = end - b
            BY <2>1, <3>2
          <5>2. IsFiniteSet(I) /\ Cardinality(I) = IF b > end - 1 THEN 0 ELSE (end - 1) - b + 1
            BY <5>1, FS_Interval
          <5> QED  BY <5>1, <5>2
        <4>3. A \cap I = {}
          <5>1. \A x \in A : x < b
            BY <2>4, <2>5, <3>13 DEF Took
          <5> QED  BY <2>1, <5>1 DEF Took
        <4>4. Took(s2) = A \cup I
          <5>1. \A x \in I : x \in 0 .. Top /\ b <= x /\ x < end
            BY <1>1, <2>1, <3>1, <3>2
          <5>2. \A x \in Nat : b <= x /\ x < end => x \in I
            BY <2>1, <3>2
          <5> HIDE DEF I
          <5> QED  BY <2>4, <3>9, <3>11, <5>1, <5>2 DEF Took
        <4> HIDE DEF A, I
        <4>5. Cardinality(A \cup I) = Cardinality(A) + Cardinality(I) - Cardinality(A \cap I)
          BY <4>1, <4>2, FS_Union
        <4>6. Cardinality(A \cap I) = 0
          BY <4>3, FS_EmptySet
        <4>7. Cardinality(A) = n - items
          BY <2>5 DEF A
        <4>8. Cardinality(Took(s2)) = (n - items) + (end - b)
          BY <2>1, <3>2, <4>2, <4>4, <4>5, <4>6, <4>7
        <4> QED  BY <2>1, <3>2, <4>8 DEF left
      <3>18. Sound(k, s2)
        BY <3>11, <3>15, <3>16, <3>17 DEF Sound
      <3> QED  BY <2>2, <3>6, <3>11, <3>18
    <2>7. CASE ~(b \in DOMAIN R /\ items # 0)
      <3>1. Next1(k, s) = s
        BY <2>4, <2>7 DEF Begins
      <3> HIDE DEF Next1
      <3>2. \A x \in Nat : Below(b, x) => Below(k, x)
        BY <1>0, <2>1
      <3>3. b \notin DOMAIN R => \A x \in Nat : Below(k, x) => Below(b, x)
        <4>1. b \notin DOMAIN R => \A d \in DOMAIN R : d < k => d < b
          BY <1>0, <2>1
        <4> HIDE DEF b
        <4> QED  BY <4>1
      <3>4. \A x \in Nat : Below(k, x) /\ ~Below(b, x) => \A y \in Nat : Below(b, y) => y < x
        <4> SUFFICES ASSUME NEW x \in Nat, Below(k, x), ~Below(b, x), NEW y \in Nat, Below(b, y) PROVE y < x
          OBVIOUS
        <4>1. PICK d \in DOMAIN R : d < k /\ d <= x /\ x < R[d]
          OBVIOUS
        <4>2. ~(d < b) /\ d \in Nat
          BY <1>0, <4>1
        <4>3. PICK c \in DOMAIN R : c < b /\ c <= y /\ y < R[c]
          OBVIOUS
        <4>4. c \in Nat /\ R[c] \in Nat
          BY <1>0
        <4>5. c < d
          BY <2>1, <4>2, <4>3, <4>4
        <4>6. R[c] < d
          BY <1>0, <4>5
        <4> QED  BY <4>1, <4>2, <4>3, <4>4, <4>6
      <3> HIDE DEF Below, b
      <3>5. \A x \in Nat : Covers(S, x) => Below(k, x)
        BY <2>5, <3>2
      <3>6. ASSUME NEW x \in Nat, Below(k, x), ~Covers(S, x)
            PROVE  items = 0 /\ \A y \in Nat : Covers(S, y) => y < x
        <4>1. CASE Below(b, x)
          BY <2>5, <3>6, <4>1
        <4>2. CASE ~Below(b, x)
          <5>1. items = 0
            BY <2>7, <3>3, <3>6, <4>2
          <5>2. \A y \in Nat : Covers(S, y) => y < x
            BY <2>5, <3>4, <3>6, <4>2
          <5> QED  BY <5>1, <5>2
        <4> QED  BY <4>1, <4>2
      <3>7. Sound(k, s)
        BY <2>4, <2>5, <3>5, <3>6 DEF Sound
      <3>8. s \in Reached(k)
        BY <2>2, <3>7
      <3> QED  BY <2>2, <3>1, <3>8
    <2> QED  BY <2>6, <2>7
  <1> HIDE DEF Next1, start
  <1>7. PICK f : Runs(f, Top, start, step)
    BY LoopRuns
  <1>8. f = [k \in 0 .. Top |-> f[k]] /\ f[0] = start /\ \A k \in 1 .. Top : f[k] = step[k][f[k - 1]]
    BY <1>7 DEF Runs
  <1>9. \A k \in 0 .. Top : f[k] \in Y[k]
    <2>1. ASSUME NEW k \in 1 .. Top, f[k - 1] \in Y[k - 1] PROVE f[k] \in Y[k]
      <3>1. f[k] = Next1(k, f[k - 1])
        BY <1>4, <1>8, <2>1
      <3>2. Next1(k, f[k - 1]) \in Y[k]
        BY <1>6, <2>1
      <3> QED  BY <3>1, <3>2
    <2>2. f[0] \in Y[0]
      BY <1>3, <1>8
    <2> QED  BY <2>1, <2>2, LoopStays
  <1>10. f = Def(f)
    <2>1. \A k \in 0 .. Top : f[k] = IF k = 0 THEN start ELSE Next1(k, f[k - 1])
      <3>1. \A k \in 0 .. Top : k # 0 => k \in 1 .. Top /\ k - 1 \in 0 .. Top
        OBVIOUS
      <3> QED  BY <1>4, <1>8, <1>9, <3>1
    <2> QED  BY <1>8, <2>1, Zenon
  <1>11. o = Def(o)
    <2> HIDE DEF Def
    <2> QED  BY <1>5, <1>10
  <1>12. o[0] = start /\ \A k \in 1 .. Top : o[k] = Next1(k, o[k - 1])
    <2>1. \A k \in 0 .. Top : Def(o)[k] = IF k = 0 THEN start ELSE Next1(k, o[k - 1])
      OBVIOUS
    <2>2. 0 \in 0 .. Top /\ \A k \in 1 .. Top : k \in 0 .. Top /\ k # 0
      OBVIOUS
    <2> HIDE DEF Def
    <2> QED  BY <1>11, <2>1, <2>2
  <1>13. o[Top] \in Y[Top]
    <2>1. o[0] \in Y[0] /\ \A k \in 1 .. Top : o[k - 1] \in Y[k - 1] => o[k] \in Y[k]
      BY <1>3, <1>6, <1>12
    <2>2. \A k \in 0 .. Top : o[k] \in Y[k]
      BY <2>1, LoopStays
    <2> QED  BY <2>2
  <1>14. o[Top] \in Reached(Top)
    <2> HIDE DEF Reached
    <2>1. Y[Top] = Reached(Top)
      BY <1>2
    <2> QED  BY <1>13, <2>1
  <1> DEFINE t == o[Top]
             A == Took(t)
             E == Elements(m)
  <1>15. t \in [items : 0 .. n, ranges : Ranges(lo, hi)] /\ Sound(Top, t)
    BY <1>14
  <1> HIDE DEF t
  <1>16. t.items \in 0 .. n /\ Apart(t.ranges, lo, hi)
    BY <1>15 DEF Ranges
  <1>17. \A x \in Nat : Below(Top, x) <=> x \in E
    <2>1. \A b \in DOMAIN R : b < Top
      BY <1>0, <1>1
    <2>2. \A x \in Nat : Below(Top, x) <=> Covers(R, x)
      BY <2>1 DEF Covers
    <2>3. \A x : x \in E <=> x \in Nat /\ Covers(R, x)
      BY <1>1, ElementsAre
    <2> HIDE DEF Below, E
    <2> QED  BY <2>2, <2>3
  <1>18. E \subseteq 0 .. Top /\ IsFiniteSet(E)
    <2>1. ASSUME NEW x \in E PROVE x \in 0 .. Top
      <3>1. x \in Nat /\ Covers(R, x)
        BY <1>1, <2>1, ElementsAre
      <3>2. PICK b \in DOMAIN R : x < R[b]
        BY <3>1 DEF Covers
      <3> QED  BY <1>0, <1>1, <3>1, <3>2
    <2> HIDE DEF E
    <2>2. IsFiniteSet(0 .. Top)
      BY NumbersFinite
    <2> QED  BY <2>1, <2>2, FS_Subset
  <1> HIDE DEF Below, E
  <1>19. \A x \in Nat : Covers(t.ranges, x) <=> x \in A
    BY <1>15, <1>17, <1>18
  <1>20. Cardinality(A) = n - t.items
    BY <1>15
  <1>21. A \subseteq E
    BY <1>15, <1>17
  <1>22. \A x \in E : x \notin A => t.items = 0 /\ \A y \in A : y < x
    BY <1>15, <1>17, <1>18
  <1> HIDE DEF A
  <1>23. Sets!Smallest(E, n) = A
    <2>1. Cardinality(A) <= n /\ (Cardinality(A) = n \/ A = E)
      <3>1. t.items # 0 => A = E
        BY <1>21, <1>22
      <3> QED  BY <1>16, <1>20, <3>1
    <2>2. \A a \in A, e \in E \ A : a < e
      BY <1>22
    <2>3. E \subseteq Nat
      BY <1>18
    <2> QED  BY <1>18, <1>21, <2>1, <2>2, <2>3, SmallestAre
  <1>24. Lowest(m, n).all = m.all /\ Lowest(m, n).ranges = t.ranges
    BY DEF Lowest, Mask, t, o
  <1>25. \A x \in Nat : Covers(Lowest(m, n).ranges, x) <=> x \in Sets!Smallest(E, n)
    BY <1>19, <1>23, <1>24
  <1> QED  BY <1>16, <1>24, <1>25 DEF E

\* An object: a ground range of numbers, and ranges in it that are apart.
MaskOK(m) ==
    /\ m = Mask(m.all, m.ranges) /\ m.all = <<m.all[1], m.all[2]>>
    /\ m.all[1] \in Numbers /\ m.all[2] \in Numbers /\ m.all[1] <= m.all[2]
    /\ Apart(m.ranges, m.all[1], m.all[2])

LEMMA MaskIs ==
    ASSUME NEW all, NEW R
    PROVE  Mask(all, R).all = all /\ Mask(all, R).ranges = R /\ Mask(all, R) = Mask(Mask(all, R).all, Mask(all, R).ranges)
  BY DEF Mask

LEMMA ObjectIs ==
    ASSUME Top \in Nat, NEW lo \in Numbers, NEW hi \in Numbers, lo <= hi, NEW R, Apart(R, lo, hi),
           NEW m, m = Mask(<<lo, hi>>, R)
    PROVE  MaskOK(m) /\ m.all = <<lo, hi>> /\ m.ranges = R
  <1>1. m.all = <<lo, hi>> /\ m.ranges = R
    BY MaskIs
  <1>2. m.all[1] = lo /\ m.all[2] = hi
    BY <1>1
  <1> QED  BY <1>1, <1>2 DEF MaskOK

LEMMA Ground ==
    ASSUME Top \in Nat, NEW m, MaskOK(m)
    PROVE  \E lo \in Nat, hi \in Nat :
               /\ lo \in Numbers /\ hi \in Numbers /\ hi \in 0 .. Top /\ lo <= hi /\ m.all = <<lo, hi>>
               /\ m.all[1] = lo /\ m.all[2] = hi /\ Apart(m.ranges, lo, hi)
  BY DEF MaskOK, Numbers

\* The elements are in the ground range, and the same as what the ranges cover.
LEMMA ElementsIn ==
    ASSUME Top \in Nat, NEW m, MaskOK(m)
    PROVE  /\ \A x : x \in Elements(m) <=> x \in Nat /\ Covers(m.ranges, x)
           /\ Elements(m) \subseteq Sets!Interval(m.all)
           /\ \A x : x \in Sets!Interval(m.all) <=> x \in Nat /\ m.all[1] <= x /\ x < m.all[2]
  <1>1. PICK lo \in Nat, hi \in Nat : m.all[1] = lo /\ m.all[2] = hi /\ Apart(m.ranges, lo, hi)
    BY Ground
  <1>2. \A x : x \in Elements(m) <=> x \in Nat /\ Covers(m.ranges, x)
    BY <1>1, ElementsAre
  <1>3. \A x : x \in Sets!Interval(m.all) <=> x \in Nat /\ lo <= x /\ x < hi
    BY <1>1 DEF Sets!Interval
  <1>4. ASSUME NEW x \in Nat, Covers(m.ranges, x) PROVE lo <= x /\ x < hi
    <2>1. PICK b \in DOMAIN m.ranges : b <= x /\ x < m.ranges[b]
      BY <1>4 DEF Covers
    <2>2. b \in Nat /\ lo <= b /\ m.ranges[b] \in Nat /\ m.ranges[b] <= hi
      BY <1>1 DEF Apart
    <2> QED  BY <2>1, <2>2
  <1>5. Elements(m) \subseteq Sets!Interval(m.all)
    BY <1>2, <1>3, <1>4
  <1> QED  BY <1>1, <1>2, <1>3, <1>5

\* Between numbers.
LEMMA IntervalIs ==
    ASSUME NEW b \in Nat, NEW e \in Nat
    PROVE  \A x : x \in Sets!Interval(<<b, e>>) <=> x \in Nat /\ b <= x /\ x < e
  BY DEF Sets!Interval

LEMMA InvertedOK ==
    ASSUME Top \in Nat, NEW m, MaskOK(m)
    PROVE  /\ MaskOK(Inverted(m)) /\ Inverted(m).all = m.all
           /\ Elements(Inverted(m)) = Sets!Interval(m.all) \ Elements(m)
  <1> DEFINE i == Inverted(m)
  <1>1. PICK lo \in Nat, hi \in Nat :
            /\ lo \in Numbers /\ hi \in Numbers /\ lo <= hi /\ m.all = <<lo, hi>>
            /\ m.all[1] = lo /\ m.all[2] = hi /\ Apart(m.ranges, lo, hi)
    BY Ground
  <1>2. i = Mask(i.all, i.ranges)
    BY MaskIs DEF Inverted
  <1> HIDE DEF i
  <1>3. /\ Apart(i.ranges, lo, hi) /\ i.all = m.all
        /\ \A x \in Nat : Covers(i.ranges, x) <=> lo <= x /\ x < hi /\ ~Covers(m.ranges, x)
    BY <1>1, InvertedIs DEF i
  <1>4. MaskOK(i)
    BY <1>1, <1>2, <1>3 DEF MaskOK
  <1>5. \A x : x \in Elements(i) <=> x \in Nat /\ Covers(i.ranges, x)
    BY <1>4, ElementsIn
  <1>6. \A x : x \in Elements(m) <=> x \in Nat /\ Covers(m.ranges, x)
    BY ElementsIn
  <1>7. \A x : x \in Sets!Interval(m.all) <=> x \in Nat /\ lo <= x /\ x < hi
    BY <1>1, ElementsIn
  <1>8. Elements(i) = Sets!Interval(m.all) \ Elements(m)
    BY <1>3, <1>5, <1>6, <1>7
  <1> QED  BY <1>3, <1>4, <1>8 DEF i

LEMMA UnionRangeOK ==
    ASSUME Top \in Nat, NEW m, MaskOK(m), NEW b \in Numbers, NEW e \in Numbers, Within(<<b, e>>, m.all)
    PROVE  /\ MaskOK(UnionRange(m, <<b, e>>)) /\ UnionRange(m, <<b, e>>).all = m.all
           /\ Elements(UnionRange(m, <<b, e>>)) = Elements(m) \cup Sets!Interval(<<b, e>>)
  <1> DEFINE u == UnionRange(m, <<b, e>>)
  <1>1. PICK lo \in Nat, hi \in Nat :
            /\ lo \in Numbers /\ hi \in Numbers /\ hi \in 0 .. Top /\ lo <= hi /\ m.all = <<lo, hi>>
            /\ m.all[1] = lo /\ m.all[2] = hi /\ Apart(m.ranges, lo, hi)
    BY Ground
  <1>2. u.all = m.all /\ u.ranges = United(m.ranges, <<b, e>>) /\ u = Mask(u.all, u.ranges)
    BY MaskIs DEF UnionRange
  <1> HIDE DEF u
  <1>3. b \in Nat /\ e \in Nat
    BY DEF Numbers
  <1>4. b < e => lo <= b /\ e <= hi
    BY <1>1 DEF Within
  <1>5. /\ Apart(u.ranges, lo, hi)
        /\ \A x \in Nat : Covers(u.ranges, x) <=> Covers(m.ranges, x) \/ (b <= x /\ x < e)
    BY <1>1, <1>2, <1>3, <1>4, UnitedIs
  <1>6. MaskOK(u)
    BY <1>1, <1>2, <1>5 DEF MaskOK
  <1>7. \A x : x \in Elements(u) <=> x \in Nat /\ Covers(u.ranges, x)
    BY <1>6, ElementsIn
  <1>8. \A x : x \in Elements(m) <=> x \in Nat /\ Covers(m.ranges, x)
    BY ElementsIn
  <1>9. \A x : x \in Sets!Interval(<<b, e>>) <=> x \in Nat /\ b <= x /\ x < e
    BY <1>3, IntervalIs
  <1>10. Elements(u) = Elements(m) \cup Sets!Interval(<<b, e>>)
    BY <1>5, <1>7, <1>8, <1>9
  <1> QED  BY <1>2, <1>6, <1>10 DEF u

LEMMA UnionOK ==
    ASSUME Top \in Nat, NEW m, MaskOK(m), NEW n, MaskOK(n)
    PROVE  /\ MaskOK(Union(m, n)) /\ Union(m, n).all = Sets!Hull(m.all, n.all)
           /\ Elements(Union(m, n)) = Elements(m) \cup Elements(n)
  <1> DEFINE u == Union(m, n)
  <1>1. PICK lo1 \in Nat, hi1 \in Nat :
            lo1 \in Numbers /\ hi1 \in Numbers /\ lo1 <= hi1 /\ m.all[1] = lo1 /\ m.all[2] = hi1 /\ Apart(m.ranges, lo1, hi1)
    BY Ground
  <1>2. PICK lo2 \in Nat, hi2 \in Nat :
            lo2 \in Numbers /\ hi2 \in Numbers /\ lo2 <= hi2 /\ n.all[1] = lo2 /\ n.all[2] = hi2 /\ Apart(n.ranges, lo2, hi2)
    BY Ground
  <1>3. PICK lo \in Numbers, hi \in Numbers :
            /\ lo = Least(lo1, lo2) /\ hi = Greatest(hi1, hi2)
            /\ lo <= lo1 /\ lo <= lo2 /\ hi1 <= hi /\ hi2 <= hi
    BY <1>1, <1>2 DEF Least, Greatest
  <1>4. lo \in Nat /\ hi \in 0 .. Top /\ hi \in Nat /\ lo <= hi
    BY <1>1, <1>3 DEF Numbers
  <1>5. Sets!Hull(m.all, n.all) = <<lo, hi>>
    BY <1>1, <1>2, <1>3 DEF Sets!Hull, Sets!Least, Sets!Greatest, Least, Greatest
  <1>6. u.all = <<lo, hi>> /\ u.ranges = Adding(m.ranges, n)[Top] /\ u = Mask(u.all, u.ranges)
    BY <1>1, <1>2, <1>3, MaskIs DEF Union
  <1> HIDE DEF u
  <1>7. Apart(m.ranges, lo, hi)
    BY <1>1, <1>3, <1>4 DEF Apart
  <1>8. Apart(n.ranges, lo, hi)
    BY <1>2, <1>3, <1>4 DEF Apart
  <1>9. /\ Apart(u.ranges, lo, hi)
        /\ \A x \in Nat : Covers(u.ranges, x) <=> Covers(m.ranges, x) \/ Covers(n.ranges, x)
    BY <1>4, <1>6, <1>7, <1>8, AddedIs
  <1>10. MaskOK(u)
    BY <1>4, <1>6, <1>9, ObjectIs
  <1>11. \A x : x \in Elements(u) <=> x \in Nat /\ Covers(u.ranges, x)
    BY <1>10, ElementsIn
  <1>12. \A x : x \in Elements(m) <=> x \in Nat /\ Covers(m.ranges, x)
    BY ElementsIn
  <1>13. \A x : x \in Elements(n) <=> x \in Nat /\ Covers(n.ranges, x)
    BY ElementsIn
  <1>14. Elements(u) = Elements(m) \cup Elements(n)
    BY <1>9, <1>11, <1>12, <1>13
  <1> QED  BY <1>5, <1>6, <1>10, <1>14 DEF u

LEMMA MinusRangeOK ==
    ASSUME Top \in Nat, NEW m, MaskOK(m), NEW b \in Numbers, NEW e \in Numbers, Within(<<b, e>>, m.all)
    PROVE  /\ MaskOK(MinusRange(m, <<b, e>>)) /\ MinusRange(m, <<b, e>>).all = m.all
           /\ Elements(MinusRange(m, <<b, e>>)) = Elements(m) \ Sets!Interval(<<b, e>>)
  <1> DEFINE i == Inverted(m)
             u == UnionRange(i, <<b, e>>)
  <1>1. MinusRange(m, <<b, e>>) = Inverted(u)
    BY DEF MinusRange
  <1> HIDE DEF i, u
  <1>2. MaskOK(i) /\ i.all = m.all /\ Elements(i) = Sets!Interval(m.all) \ Elements(m)
    BY InvertedOK DEF i
  <1>3. MaskOK(u) /\ u.all = m.all /\ Elements(u) = Elements(i) \cup Sets!Interval(<<b, e>>)
    BY <1>2, UnionRangeOK DEF u
  <1>4. /\ MaskOK(Inverted(u)) /\ Inverted(u).all = m.all
        /\ Elements(Inverted(u)) = Sets!Interval(m.all) \ Elements(u)
    BY <1>3, InvertedOK
  <1>5. Elements(m) \subseteq Sets!Interval(m.all)
    BY ElementsIn
  <1>6. Elements(Inverted(u)) = Elements(m) \ Sets!Interval(<<b, e>>)
    BY <1>2, <1>3, <1>4, <1>5
  <1> QED  BY <1>1, <1>4, <1>6

LEMMA MinusOK ==
    ASSUME Top \in Nat, NEW m, MaskOK(m), NEW n, MaskOK(n), m.all[1] <= n.all[1], n.all[2] <= m.all[2]
    PROVE  /\ MaskOK(Minus(m, n)) /\ Minus(m, n).all = Sets!Hull(m.all, n.all)
           /\ Elements(Minus(m, n)) = Elements(m) \ Elements(n)
  <1> DEFINE i == Inverted(m)
             u == Union(i, n)
  <1>1. Minus(m, n) = Inverted(u)
    BY DEF Minus
  <1>2. Sets!Hull(m.all, n.all) = m.all
    <2>1. PICK lo1 \in Nat, hi1 \in Nat : m.all = <<lo1, hi1>> /\ m.all[1] = lo1 /\ m.all[2] = hi1
      BY Ground
    <2>2. PICK lo2 \in Nat, hi2 \in Nat : n.all[1] = lo2 /\ n.all[2] = hi2
      BY Ground
    <2>3. lo1 <= lo2 /\ hi2 <= hi1
      BY <2>1, <2>2
    <2> QED  BY <2>1, <2>2, <2>3 DEF Sets!Hull, Sets!Least, Sets!Greatest
  <1> HIDE DEF i, u
  <1>3. MaskOK(i) /\ i.all = m.all /\ Elements(i) = Sets!Interval(m.all) \ Elements(m)
    BY InvertedOK DEF i
  <1>4. MaskOK(u) /\ u.all = m.all /\ Elements(u) = Elements(i) \cup Elements(n)
    BY <1>2, <1>3, UnionOK DEF u
  <1>5. /\ MaskOK(Inverted(u)) /\ Inverted(u).all = m.all
        /\ Elements(Inverted(u)) = Sets!Interval(m.all) \ Elements(u)
    BY <1>4, InvertedOK
  <1>6. Elements(m) \subseteq Sets!Interval(m.all)
    BY ElementsIn
  <1>7. Elements(Inverted(u)) = Elements(m) \ Elements(n)
    BY <1>3, <1>4, <1>5, <1>6
  <1> QED  BY <1>1, <1>2, <1>5, <1>7

LEMMA LowestOK ==
    ASSUME RangeMaskConstants, AskedFits, NEW m, MaskOK(m), NEW n \in Asked
    PROVE  /\ MaskOK(Lowest(m, n)) /\ Lowest(m, n).all = m.all
           /\ Elements(Lowest(m, n)) = Sets!Smallest(Elements(m), n)
  <1> DEFINE t == Lowest(m, n)
  <1>0. Top \in Nat /\ Wrap \in Nat /\ n \in Nat /\ Top + n < Wrap
    BY DEF RangeMaskConstants, AskedFits
  <1>1. PICK lo \in Nat, hi \in Nat :
            /\ lo \in Numbers /\ hi \in Numbers /\ hi \in 0 .. Top /\ lo <= hi /\ m.all = <<lo, hi>>
            /\ m.all[1] = lo /\ m.all[2] = hi /\ Apart(m.ranges, lo, hi)
    BY <1>0, Ground
  <1>2. t = Mask(t.all, t.ranges)
    BY MaskIs DEF Lowest
  <1> HIDE DEF t
  <1>3. /\ t.all = m.all /\ Apart(t.ranges, lo, hi)
        /\ \A x \in Nat : Covers(t.ranges, x) <=> x \in Sets!Smallest(Elements(m), n)
    BY <1>0, <1>1, LowestIs DEF t
  <1>4. MaskOK(t)
    BY <1>1, <1>2, <1>3 DEF MaskOK
  <1>5. \A x : x \in Elements(t) <=> x \in Nat /\ Covers(t.ranges, x)
    BY <1>0, <1>4, ElementsIn
  <1>6. Sets!Smallest(Elements(m), n) \subseteq Nat
    <2>1. Elements(m) \subseteq Nat
      BY <1>0, ElementsIn
    <2>2. Sets!Smallest(Elements(m), n) \subseteq Elements(m)
      BY DEF Sets!Smallest
    <2> QED  BY <2>1, <2>2
  <1>7. Elements(t) = Sets!Smallest(Elements(m), n)
    BY <1>3, <1>5, <1>6
  <1> QED  BY <1>3, <1>4, <1>7 DEF t

\* A mask without ranges.
LEMMA EmptyOK ==
    ASSUME Top \in Nat, NEW lo \in Numbers, NEW hi \in Numbers, lo <= hi, NEW m, m = Mask(<<lo, hi>>, Empty)
    PROVE  MaskOK(m) /\ m.all = <<lo, hi>> /\ Elements(m) = {}
  <1>1. DOMAIN Empty = {} /\ Empty = [b \in {} |-> Empty[b]]
    BY DEF Empty
  <1>2. Apart(Empty, lo, hi)
    BY <1>1 DEF Apart
  <1>3. MaskOK(m) /\ m.all = <<lo, hi>> /\ m.ranges = Empty
    BY <1>2, ObjectIs
  <1>4. \A x : x \notin Elements(m)
    <2>1. \A x : ~Covers(Empty, x)
      BY <1>1 DEF Covers
    <2> QED  BY <1>3, <2>1, ElementsIn
  <1> QED  BY <1>3, <1>4
-----------------------------------------------------------------------------
\* Every object is well-formed.
MasksOK == mask = [o \in Object |-> mask[o]] /\ \A o \in Object : MaskOK(mask[o])

\* An object becomes m.
LEMMA BecomeOK ==
    ASSUME MasksOK, NEW o \in Object, NEW m, Become(o, m), MaskOK(m)
    PROVE  MasksOK'
  <1>1. mask' = [mask EXCEPT ![o] = m]
    BY DEF Become
  <1>2. /\ mask' = [p \in Object |-> mask'[p]] /\ mask'[o] = m
        /\ \A p \in Object : p # o => mask'[p] = mask[p]
    BY <1>1 DEF MasksOK
  <1>3. \A p \in Object : MaskOK(mask'[p])
    BY <1>2 DEF MasksOK
  <1> QED  BY <1>2, <1>3 DEF MasksOK

LEMMA MasksInit == ASSUME RangeMaskConstants, RangeInit PROVE MasksOK
  <1> DEFINE m == Mask(<<0, 0>>, Empty)
  <1>1. MaskOK(m)
    <2>1. Top \in Nat /\ 0 \in Numbers
      BY DEF RangeMaskConstants, Numbers
    <2> QED  BY <2>1, EmptyOK
  <1>2. mask = [o \in Object |-> m]
    BY DEF RangeInit
  <1> HIDE DEF m
  <1> QED  BY <1>1, <1>2 DEF MasksOK

LEMMA ExtendedOK ==
    ASSUME Top \in Nat, NEW m, MaskOK(m), NEW i \in Numbers, i < Top
    PROVE  /\ MaskOK(Extended(m, i)) /\ Extended(m, i).all = Sets!Hull(m.all, <<i, i + 1>>)
           /\ Elements(Extended(m, i)) = Elements(m)
  <1> DEFINE x == Extended(m, i)
  <1>1. PICK lo \in Nat, hi \in Nat :
            /\ lo \in Numbers /\ hi \in Numbers /\ lo <= hi
            /\ m.all[1] = lo /\ m.all[2] = hi /\ Apart(m.ranges, lo, hi)
    BY Ground
  <1>2. PICK lo2 \in Numbers, hi2 \in Numbers :
            /\ lo2 = Least(lo, i) /\ hi2 = Greatest(hi, i + 1) /\ lo2 <= lo /\ hi <= hi2
    BY <1>1 DEF Least, Greatest, Numbers
  <1>3. lo2 \in Nat /\ hi2 \in Nat /\ lo2 <= hi2
    BY <1>1, <1>2 DEF Numbers
  <1>4. Apart(m.ranges, lo2, hi2)
    BY <1>1, <1>2, <1>3 DEF Apart
  <1>5. MaskOK(x) /\ x.all = <<lo2, hi2>> /\ x.ranges = m.ranges
    BY <1>1, <1>2, <1>3, <1>4, ObjectIs DEF Extended
  <1> HIDE DEF x
  <1>6. Elements(x) = Elements(m)
    BY <1>5 DEF Elements, Begins, Until
  <1>7. Sets!Hull(m.all, <<i, i + 1>>) = <<lo2, hi2>>
    BY <1>1, <1>2 DEF Sets!Hull, Sets!Least, Sets!Greatest, Least, Greatest
  <1> QED  BY <1>5, <1>6, <1>7 DEF x

\* Each operation keeps the objects well-formed.
LEMMA MasksNext ==
    ASSUME RangeMaskConstants, AskedFits, MasksOK, [RangeNext]_mask
    PROVE  MasksOK'
  <1>1. Top \in Nat /\ \A o \in Object : MaskOK(mask[o])
    BY DEF RangeMaskConstants, MasksOK
  <1>2. ASSUME UNCHANGED mask PROVE MasksOK'
    BY <1>2 DEF MasksOK
  <1>3. ASSUME NEW o \in Object, Clear(o) PROVE MasksOK'
    <2> DEFINE m == Mask(mask[o].all, Empty)
    <2>1. PICK lo \in Numbers, hi \in Numbers : lo <= hi /\ mask[o].all = <<lo, hi>>
      BY <1>1, Ground
    <2>2. MaskOK(m)
      BY <1>1, <2>1, EmptyOK
    <2>3. Become(o, m)
      BY <1>3 DEF Clear
    <2> HIDE DEF m
    <2> QED  BY <2>2, <2>3, BecomeOK
  <1>4. ASSUME NEW o \in Object, Reset(o) PROVE MasksOK'
    <2> DEFINE m == Mask(<<0, 0>>, Empty)
    <2>1. 0 \in Numbers /\ 0 <= 0
      BY <1>1 DEF Numbers
    <2>2. MaskOK(m)
      BY <1>1, <2>1, EmptyOK
    <2>3. Become(o, m)
      BY <1>4 DEF Reset
    <2> HIDE DEF m
    <2> QED  BY <2>2, <2>3, BecomeOK
  <1>5. ASSUME NEW o \in Object, Invert(o) PROVE MasksOK'
    <2>1. MaskOK(Inverted(mask[o]))
      BY <1>1, InvertedOK
    <2>2. Become(o, Inverted(mask[o]))
      BY <1>5 DEF Invert
    <2> QED  BY <2>1, <2>2, BecomeOK
  <1>6. ASSUME NEW o \in Object, NEW i \in Numbers, ExtendAll(o, i) PROVE MasksOK'
    <2>1. i < Top /\ Become(o, Extended(mask[o], i))
      BY <1>6 DEF ExtendAll
    <2>2. MaskOK(Extended(mask[o], i))
      BY <1>1, <2>1, ExtendedOK
    <2> QED  BY <2>1, <2>2, BecomeOK
  <1>7. ASSUME NEW o \in Object, NEW b \in Numbers, NEW e \in Numbers, Create(o, <<b, e>>) PROVE MasksOK'
    <2> DEFINE m == Mask(<<b, e>>, Empty)
    <2>1. b <= e /\ Become(o, m)
      BY <1>7 DEF Create
    <2>2. MaskOK(m)
      BY <1>1, <2>1, EmptyOK
    <2> HIDE DEF m
    <2> QED  BY <2>1, <2>2, BecomeOK
  <1>8. ASSUME NEW o \in Object, NEW b \in Numbers, NEW e \in Numbers, AddRange(o, <<b, e>>) PROVE MasksOK'
    <2>1. Within(<<b, e>>, mask[o].all) /\ Become(o, UnionRange(mask[o], <<b, e>>))
      BY <1>8 DEF AddRange
    <2>2. Top \in Nat /\ MaskOK(mask[o])
      BY <1>1
    <2>3. MaskOK(UnionRange(mask[o], <<b, e>>))
      BY <2>1, <2>2, UnionRangeOK
    <2> QED  BY <2>1, <2>3, BecomeOK
  <1>9. ASSUME NEW o \in Object, NEW b \in Numbers, NEW e \in Numbers, RemoveRange(o, <<b, e>>) PROVE MasksOK'
    <2>1. Within(<<b, e>>, mask[o].all) /\ Become(o, MinusRange(mask[o], <<b, e>>))
      BY <1>9 DEF RemoveRange
    <2>2. Top \in Nat /\ MaskOK(mask[o])
      BY <1>1
    <2>3. MaskOK(MinusRange(mask[o], <<b, e>>))
      BY <2>1, <2>2, MinusRangeOK
    <2> QED  BY <2>1, <2>3, BecomeOK
  <1>10. ASSUME NEW o \in Object, NEW p \in Object, AddMask(o, p) PROVE MasksOK'
    <2>1. MaskOK(Union(mask[o], mask[p]))
      BY <1>1, UnionOK
    <2>2. Become(o, Union(mask[o], mask[p]))
      BY <1>10 DEF AddMask
    <2> QED  BY <2>1, <2>2, BecomeOK
  <1>11. ASSUME NEW o \in Object, NEW p \in Object, Subtract(o, p) PROVE MasksOK'
    <2>1. Inside(mask[p], mask[o]) /\ Become(o, Minus(mask[o], mask[p]))
      BY <1>11 DEF Subtract
    <2>2. MaskOK(Minus(mask[o], mask[p]))
      BY <1>1, <2>1, MinusOK DEF Inside
    <2> QED  BY <2>1, <2>2, BecomeOK
  <1>12. ASSUME NEW o \in Object, NEW p \in Object, NEW n \in Asked, TakeLowest(o, p, n) PROVE MasksOK'
    <2>1. MaskOK(Lowest(mask[p], n))
      BY <1>1, LowestOK
    <2>2. Become(o, Lowest(mask[p], n))
      BY <1>12 DEF TakeLowest
    <2> QED  BY <2>1, <2>2, BecomeOK
  <1>13. ASSUME RangeNext PROVE MasksOK'
    BY <1>3, <1>4, <1>5, <1>6, <1>7, <1>8, <1>9, <1>10, <1>11, <1>12, <1>13 DEF RangeNext
  <1> QED  BY <1>2, <1>13

\* On well-formed objects, each operation does what it says of the sets.
LEMMA OperationsOK ==
    ASSUME RangeMaskConstants, AskedFits, MasksOK
    PROVE  OperationsOfSets
  <1>1. Top \in Nat /\ \A o \in Object : MaskOK(mask[o])
    BY DEF RangeMaskConstants, MasksOK
  <1>2. ASSUME NEW m, NEW ground, NEW elems, m.all = ground, Elements(m) = elems
        PROVE  /\ Shown(m) = Sets!NumberSet(ground, elems)
               /\ Shown(m).ground = ground /\ Shown(m).elems = elems
    BY <1>2 DEF Shown, Sets!NumberSet
  <1> SUFFICES ASSUME NEW o \in Object
               PROVE  /\ Shown(Inverted(mask[o])) = Sets!Complement(Shown(mask[o]))
                      /\ \A i \in Numbers : i < Top =>
                           Shown(Extended(mask[o], i)) = Sets!Extended(Shown(mask[o]), i)
                      /\ \A b, e \in Numbers : Within(<<b, e>>, mask[o].all) =>
                           /\ Shown(UnionRange(mask[o], <<b, e>>)) = Sets!PlusRange(Shown(mask[o]), <<b, e>>)
                           /\ Shown(MinusRange(mask[o], <<b, e>>)) = Sets!LessRange(Shown(mask[o]), <<b, e>>)
                      /\ \A n \in Asked : Shown(Lowest(mask[o], n)) = Sets!LowestOf(Shown(mask[o]), n)
                      /\ \A p \in Object :
                           /\ Shown(Union(mask[o], mask[p])) = Sets!Sum(Shown(mask[o]), Shown(mask[p]))
                           /\ Inside(mask[p], mask[o]) =>
                                Shown(Minus(mask[o], mask[p])) = Sets!Difference(Shown(mask[o]), Shown(mask[p]))
    BY DEF OperationsOfSets
  <1>3. MaskOK(mask[o]) /\ Shown(mask[o]).ground = mask[o].all /\ Shown(mask[o]).elems = Elements(mask[o])
    BY <1>1, <1>2
  <1>4. Shown(Inverted(mask[o])) = Sets!Complement(Shown(mask[o]))
    <2>1. /\ Inverted(mask[o]).all = mask[o].all
          /\ Elements(Inverted(mask[o])) = Sets!Interval(mask[o].all) \ Elements(mask[o])
      BY <1>1, InvertedOK
    <2> QED  BY <1>2, <1>3, <2>1 DEF Sets!Complement
  <1>5. ASSUME NEW i \in Numbers, i < Top
        PROVE  Shown(Extended(mask[o], i)) = Sets!Extended(Shown(mask[o]), i)
    <2>1. /\ Extended(mask[o], i).all = Sets!Hull(mask[o].all, <<i, i + 1>>)
          /\ Elements(Extended(mask[o], i)) = Elements(mask[o])
      BY <1>1, <1>5, ExtendedOK
    <2> QED  BY <1>2, <1>3, <2>1 DEF Sets!Extended
  <1>6. ASSUME NEW b \in Numbers, NEW e \in Numbers, Within(<<b, e>>, mask[o].all)
        PROVE  /\ Shown(UnionRange(mask[o], <<b, e>>)) = Sets!PlusRange(Shown(mask[o]), <<b, e>>)
               /\ Shown(MinusRange(mask[o], <<b, e>>)) = Sets!LessRange(Shown(mask[o]), <<b, e>>)
    <2>1. Top \in Nat /\ MaskOK(mask[o])
      BY <1>1
    <2>2. /\ UnionRange(mask[o], <<b, e>>).all = mask[o].all
          /\ Elements(UnionRange(mask[o], <<b, e>>)) = Elements(mask[o]) \cup Sets!Interval(<<b, e>>)
      BY <1>6, <2>1, UnionRangeOK
    <2>3. /\ MinusRange(mask[o], <<b, e>>).all = mask[o].all
          /\ Elements(MinusRange(mask[o], <<b, e>>)) = Elements(mask[o]) \ Sets!Interval(<<b, e>>)
      BY <1>6, <2>1, MinusRangeOK
    <2>4. Shown(UnionRange(mask[o], <<b, e>>)) = Sets!PlusRange(Shown(mask[o]), <<b, e>>)
      <3>1. Sets!PlusRange(Shown(mask[o]), <<b, e>>)
              = Sets!NumberSet(mask[o].all, Elements(mask[o]) \cup Sets!Interval(<<b, e>>))
        BY <1>3 DEF Sets!PlusRange
      <3> QED  BY <2>2, <3>1 DEF Shown
    <2>5. Shown(MinusRange(mask[o], <<b, e>>)) = Sets!LessRange(Shown(mask[o]), <<b, e>>)
      <3>1. Sets!LessRange(Shown(mask[o]), <<b, e>>)
              = Sets!NumberSet(mask[o].all, Elements(mask[o]) \ Sets!Interval(<<b, e>>))
        BY <1>3 DEF Sets!LessRange
      <3> QED  BY <2>3, <3>1 DEF Shown
    <2> QED  BY <2>4, <2>5
  <1>7. ASSUME NEW n \in Asked
        PROVE  Shown(Lowest(mask[o], n)) = Sets!LowestOf(Shown(mask[o]), n)
    <2>1. /\ Lowest(mask[o], n).all = mask[o].all
          /\ Elements(Lowest(mask[o], n)) = Sets!Smallest(Elements(mask[o]), n)
      BY <1>1, LowestOK
    <2> QED  BY <1>2, <1>3, <2>1 DEF Sets!LowestOf
  <1>8. ASSUME NEW p \in Object
        PROVE  /\ Shown(Union(mask[o], mask[p])) = Sets!Sum(Shown(mask[o]), Shown(mask[p]))
               /\ Inside(mask[p], mask[o]) =>
                    Shown(Minus(mask[o], mask[p])) = Sets!Difference(Shown(mask[o]), Shown(mask[p]))
    <2>1. Shown(mask[p]).ground = mask[p].all /\ Shown(mask[p]).elems = Elements(mask[p])
      BY <1>2
    <2>2. /\ Union(mask[o], mask[p]).all = Sets!Hull(mask[o].all, mask[p].all)
          /\ Elements(Union(mask[o], mask[p])) = Elements(mask[o]) \cup Elements(mask[p])
      BY <1>1, UnionOK
    <2>3. Shown(Union(mask[o], mask[p])) = Sets!Sum(Shown(mask[o]), Shown(mask[p]))
      <3>1. Sets!Sum(Shown(mask[o]), Shown(mask[p]))
              = Sets!NumberSet(Sets!Hull(mask[o].all, mask[p].all), Elements(mask[o]) \cup Elements(mask[p]))
        BY <1>3, <2>1 DEF Sets!Sum
      <3> QED  BY <2>2, <3>1 DEF Shown
    <2>4. ASSUME Inside(mask[p], mask[o])
          PROVE  Shown(Minus(mask[o], mask[p])) = Sets!Difference(Shown(mask[o]), Shown(mask[p]))
      <3>1. /\ Minus(mask[o], mask[p]).all = Sets!Hull(mask[o].all, mask[p].all)
            /\ Elements(Minus(mask[o], mask[p])) = Elements(mask[o]) \ Elements(mask[p])
        BY <1>1, <2>4, MinusOK DEF Inside
      <3>2. Sets!Difference(Shown(mask[o]), Shown(mask[p]))
              = Sets!NumberSet(Sets!Hull(mask[o].all, mask[p].all), Elements(mask[o]) \ Elements(mask[p]))
        BY <1>3, <2>1 DEF Sets!Difference
      <3> QED  BY <3>1, <3>2 DEF Shown
    <2> QED  BY <2>3, <2>4
  <1> QED  BY <1>4, <1>5, <1>6, <1>7, <1>8

\* Ranges never are empty, leave the ground range, overlap or touch.
THEOREM RangesStayApart ==
    ASSUME RangeMaskConstants, AskedFits
    PROVE  RangeSpec => []RangesApart
  <1>1. RangeInit => MasksOK
    BY MasksInit
  <1>2. MasksOK /\ [RangeNext]_mask => MasksOK'
    BY MasksNext
  <1>3. MasksOK => RangesApart
    BY DEF MasksOK, MaskOK, Apart, RangesApart, Begins, Until
  <1> QED  BY <1>1, <1>2, <1>3, PTL DEF RangeSpec

\* Every operation of RangeMask, with any argument, does what it says of the set
\* that its ranges stand for, after any operations before it.
THEOREM RangesImplementSets ==
    ASSUME RangeMaskConstants, AskedFits
    PROVE  RangeSpec => []OperationsOfSets
  <1>1. RangeInit => MasksOK
    BY MasksInit
  <1>2. MasksOK /\ [RangeNext]_mask => MasksOK'
    BY MasksNext
  <1>3. MasksOK => OperationsOfSets
    BY OperationsOK
  <1> QED  BY <1>1, <1>2, <1>3, PTL DEF RangeSpec
-----------------------------------------------------------------------------
\* What the class answers.  Its size is a sum over the ranges, and a whole
\* iteration a sequence of them, which TLC checks; next is here.

LEMMA Interval ==
    ASSUME NEW lo \in Nat, NEW hi \in Nat
    PROVE  \A x : x \in lo .. hi - 1 <=> x \in Nat /\ lo <= x /\ x < hi
  OBVIOUS

LEMMA LeastOf ==
    ASSUME NEW S, S \subseteq Nat, NEW v \in S, \A x \in S : v <= x
    PROVE  Min(S) = v
  <1>1. Min(S) \in S /\ \A x \in S : Min(S) <= x
    BY MinIs
  <1>2. Min(S) \in Nat /\ v \in Nat /\ Min(S) <= v /\ v <= Min(S)
    BY <1>1
  <1> QED  BY <1>2

LEMMA GreatestOf ==
    ASSUME NEW S, NEW n \in Nat, S \subseteq 0 .. n, NEW v \in S, \A x \in S : x <= v
    PROVE  Max(S) = v
  <1>1. Max(S) \in S /\ \A x \in S : x <= Max(S)
    BY MaxIs
  <1>2. Max(S) \in 0 .. n /\ v \in 0 .. n /\ Max(S) <= v /\ v <= Max(S)
    BY <1>1
  <1> QED  BY <1>2

LEMMA HasIs ==
    ASSUME NEW m, NEW lo \in Nat, NEW hi \in Nat, Apart(m.ranges, lo, hi), NEW i \in Nat
    PROVE  HasNumber(m, i) <=> Covers(m.ranges, i)
  <1> DEFINE R == m.ranges
             it == Max(UpTo(R, i))
  <1>0. /\ \A b \in DOMAIN R : b \in Nat /\ b < R[b] /\ R[b] \in Nat
        /\ \A b, c \in DOMAIN R : b < c => R[b] < c
    BY DEF Apart
  <1>1. HasNumber(m, i) <=> UpTo(R, i) # {} /\ R[it] > i
    BY DEF HasNumber, Until
  <1>2. UpTo(R, i) # {} => it \in DOMAIN R /\ it <= i /\ \A b \in DOMAIN R : b <= i => b <= it
    BY Neighbours
  <1>3. UpTo(R, i) = {} => \A b \in DOMAIN R : b > i
    BY Neighbours
  <1> HIDE DEF it
  <1>4. ASSUME UpTo(R, i) # {}, R[it] > i PROVE Covers(R, i)
    BY <1>0, <1>2, <1>4 DEF Covers
  <1>5. ASSUME NEW b \in DOMAIN R, b <= i, i < R[b] PROVE UpTo(R, i) # {} /\ R[it] > i
    <2>1. UpTo(R, i) # {} /\ it \in DOMAIN R /\ it <= i /\ b <= it /\ b \in Nat /\ it \in Nat
      BY <1>0, <1>2, <1>3, <1>5
    <2>2. ~(b < it)
      <3>1. b < it => R[b] < it
        BY <1>0, <2>1
      <3> QED  BY <1>0, <1>5, <2>1, <3>1
    <2>3. b = it
      BY <2>1, <2>2
    <2> QED  BY <1>0, <1>5, <2>1, <2>3
  <1> QED  BY <1>1, <1>4, <1>5 DEF Covers

LEMMA FullIs ==
    ASSUME Top \in Nat, NEW m, MaskOK(m), NEW ground, ground = m.all[1] .. m.all[2] - 1
    PROVE  IsFull(m) <=> Elements(m) = ground
  <1> DEFINE R == m.ranges
  <1>1. PICK lo \in Nat, hi \in Nat : lo <= hi /\ m.all[1] = lo /\ m.all[2] = hi /\ Apart(R, lo, hi)
    BY Ground
  <1>2. /\ \A b \in DOMAIN R : b \in Nat /\ lo <= b /\ b < R[b] /\ R[b] \in Nat /\ R[b] <= hi
        /\ \A b, c \in DOMAIN R : b < c => R[b] < c
        /\ R = [b \in DOMAIN R |-> R[b]]
    BY <1>1 DEF Apart
  <1>3. IsFull(m) <=> lo = hi \/ R = [b \in {lo} |-> hi]
    BY <1>1 DEF IsFull
  <1>4. \A x : x \in Elements(m) <=> x \in Nat /\ Covers(R, x)
    BY ElementsIn
  <1>5. \A x : x \in ground <=> x \in Nat /\ lo <= x /\ x < hi
    BY <1>1, Interval
  <1>6. \A x \in Nat : Covers(R, x) => lo <= x /\ x < hi
    BY <1>2 DEF Covers
  <1> HIDE DEF R
  <1>7. ASSUME lo = hi PROVE Elements(m) = ground
    <2>1. \A x \in Nat : ~(lo <= x /\ x < hi)
      BY <1>7
    <2>2. \A x : x \notin Elements(m) /\ x \notin ground
      BY <1>4, <1>5, <1>6, <2>1
    <2> QED  BY <2>2
  <1>8. ASSUME R = [b \in {lo} |-> hi] PROVE Elements(m) = ground
    <2>1. lo \in DOMAIN R /\ R[lo] = hi
      BY <1>8
    <2>2. \A x \in Nat : lo <= x /\ x < hi => Covers(R, x)
      BY <2>1 DEF Covers
    <2> QED  BY <1>4, <1>5, <1>6, <2>2
  <1>9. ASSUME Elements(m) = ground, lo # hi PROVE R = [b \in {lo} |-> hi]
    <2>1. Covers(R, lo)
      BY <1>1, <1>4, <1>5, <1>9
    <2>2. lo \in DOMAIN R
      BY <1>2, <2>1 DEF Covers
    <2>3. R[lo] = hi
      <3>1. SUFFICES ASSUME R[lo] # hi PROVE FALSE
        OBVIOUS
      <3>2. R[lo] \in Nat /\ lo <= R[lo] /\ R[lo] < hi
        BY <1>2, <2>2, <3>1
      <3>3. Covers(R, R[lo])
        BY <1>4, <1>5, <1>9, <3>2
      <3>4. PICK c \in DOMAIN R : c <= R[lo] /\ R[lo] < R[c]
        BY <3>3 DEF Covers
      <3>5. c # lo /\ lo <= c /\ c \in Nat
        BY <1>2, <3>2, <3>4
      <3>6. R[lo] < c
        BY <1>2, <2>2, <3>5
      <3> QED  BY <3>2, <3>4, <3>5, <3>6
    <2>4. \A c \in DOMAIN R : c = lo
      <3> SUFFICES ASSUME NEW c \in DOMAIN R, c # lo PROVE FALSE
        OBVIOUS
      <3>1. lo < c /\ c \in Nat /\ c < R[c] /\ R[c] <= hi /\ R[c] \in Nat
        BY <1>2
      <3>2. R[lo] < c
        BY <1>2, <2>2, <3>1
      <3> QED  BY <2>3, <3>1, <3>2
    <2> QED  BY <1>2, <2>2, <2>3, <2>4
  <1> QED  BY <1>3, <1>7, <1>8, <1>9

LEMMA FirstOutIs ==
    ASSUME Top \in Nat, NEW m, MaskOK(m), NEW ground, ground = m.all[1] .. m.all[2] - 1
    PROVE  FirstOut(m) = IF Elements(m) = ground THEN m.all[2] ELSE Min(ground \ Elements(m))
  <1> DEFINE R == m.ranges
             E == Elements(m)
             v == FirstOut(m)
  <1>1. PICK lo \in Nat, hi \in Nat : lo <= hi /\ m.all[1] = lo /\ m.all[2] = hi /\ Apart(R, lo, hi)
    BY Ground
  <1>2. /\ \A b \in DOMAIN R : b \in Nat /\ lo <= b /\ b < R[b] /\ R[b] \in Nat /\ R[b] <= hi
        /\ \A b, c \in DOMAIN R : b < c => R[b] < c
    BY <1>1 DEF Apart
  <1>3. \A x : x \in E <=> x \in Nat /\ Covers(R, x)
    BY ElementsIn
  <1>4. \A x : x \in ground <=> x \in Nat /\ lo <= x /\ x < hi
    BY <1>1, Interval
  <1>5. v = IF lo \in DOMAIN R THEN R[lo] ELSE lo
    BY <1>1 DEF FirstOut, Begins, Until
  <1> HIDE DEF R, E, v
  <1>6. v \in Nat /\ lo <= v /\ v <= hi
    BY <1>1, <1>2, <1>5
  <1>7. \A x \in Nat : lo <= x /\ x < v => Covers(R, x)
    BY <1>5 DEF Covers
  <1>8. ~Covers(R, v)
    <2> SUFFICES ASSUME NEW b \in DOMAIN R, b <= v, v < R[b] PROVE FALSE
      BY DEF Covers
    <2>1. b \in Nat /\ lo <= b
      BY <1>2
    <2>2. CASE lo \in DOMAIN R
      <3>1. b # lo /\ v = R[lo]
        BY <1>2, <1>5, <2>2
      <3>2. R[lo] < b
        BY <1>2, <2>1, <2>2, <3>1
      <3> QED  BY <1>6, <2>1, <3>1, <3>2
    <2>3. CASE lo \notin DOMAIN R
      BY <1>5, <2>1, <2>3
    <2> QED  BY <2>2, <2>3
  <1>9. CASE v = hi
    <2>1. ground \subseteq E
      BY <1>3, <1>4, <1>7, <1>9
    <2>2. E \subseteq ground
      <3>1. \A x \in Nat : Covers(R, x) => lo <= x /\ x < hi
        BY <1>2 DEF Covers
      <3> QED  BY <1>3, <1>4, <3>1
    <2>3. E = ground
      BY <2>1, <2>2
    <2> QED  BY <1>1, <1>9, <2>3 DEF v, E
  <1>10. CASE v # hi
    <2> DEFINE S == ground \ E
    <2>1. v \in S /\ S \subseteq Nat
      BY <1>3, <1>4, <1>6, <1>8, <1>10
    <2>2. ASSUME NEW x \in S PROVE v <= x
      <3>1. x \in ground /\ x \notin E
        OBVIOUS
      <3>2. x \in Nat /\ lo <= x /\ ~Covers(R, x)
        BY <1>3, <1>4, <3>1
      <3> HIDE DEF S
      <3>3. ~(x < v)
        BY <1>7, <3>2
      <3> QED  BY <1>6, <3>2, <3>3
    <2>3. E # ground
      BY <2>1
    <2> HIDE DEF S
    <2>4. Min(S) = v
      BY <2>1, <2>2, LeastOf
    <2> QED  BY <2>3, <2>4 DEF v, E, S
  <1> QED  BY <1>9, <1>10

LEMMA LastInIs ==
    ASSUME Top \in Nat, NEW m, MaskOK(m)
    PROVE  LastIn(m) = IF Elements(m) = {} THEN m.all[1] ELSE Max(Elements(m))
  <1> DEFINE R == m.ranges
             E == Elements(m)
             top == Max(DOMAIN R)
  <1>1. PICK lo \in Nat, hi \in Nat : m.all[1] = lo /\ m.all[2] = hi /\ Apart(R, lo, hi)
    BY Ground
  <1>2. /\ \A b \in DOMAIN R : b \in Nat /\ b < R[b] /\ R[b] \in Nat /\ R[b] <= hi
        /\ \A b, c \in DOMAIN R : b < c => R[b] < c
    BY <1>1 DEF Apart
  <1>3. \A x : x \in E <=> x \in Nat /\ Covers(R, x)
    BY ElementsIn
  <1>4. LastIn(m) = IF DOMAIN R = {} THEN m.all[1] ELSE R[top] - 1
    BY DEF LastIn, Begins, Until
  <1> HIDE DEF R, E, top
  <1>5. CASE DOMAIN R = {}
    <2>1. E = {}
      BY <1>3, <1>5 DEF Covers
    <2> QED  BY <1>4, <1>5, <2>1 DEF E
  <1>6. CASE DOMAIN R # {}
    <2>1. top \in DOMAIN R /\ \A b \in DOMAIN R : b <= top
      <3>1. DOMAIN R \subseteq 0 .. hi
        BY <1>2
      <3> QED  BY <1>6, <3>1, MaxIs DEF top
    <2>2. top \in Nat /\ top < R[top] /\ R[top] \in Nat /\ R[top] <= hi
      BY <1>2, <2>1
    <2>3. R[top] - 1 \in E
      <3>1. R[top] - 1 \in Nat /\ top <= R[top] - 1 /\ R[top] - 1 < R[top]
        BY <2>2
      <3> QED  BY <1>3, <2>1, <3>1 DEF Covers
    <2>4. ASSUME NEW x \in E PROVE x \in 0 .. hi /\ x <= R[top] - 1
      <3>1. PICK b \in DOMAIN R : b <= x /\ x < R[b]
        BY <1>3, <2>4 DEF Covers
      <3>2. x \in Nat /\ b \in Nat /\ R[b] \in Nat /\ R[b] <= hi /\ b <= top
        BY <1>2, <1>3, <2>1, <2>4
      <3>3. b = top \/ R[b] < top
        BY <1>2, <2>1, <2>2, <3>2
      <3> QED  BY <2>2, <3>1, <3>2, <3>3
    <2>5. Max(E) = R[top] - 1
      <3>1. E \subseteq 0 .. hi /\ \A x \in E : x <= R[top] - 1
        BY <2>4
      <3> QED  BY <2>3, <3>1, GreatestOf
    <2> QED  BY <1>4, <1>6, <2>3, <2>5 DEF E
  <1> QED  BY <1>5, <1>6

LEMMA NextIs ==
    ASSUME Top \in Nat, NEW m, MaskOK(m), NEW t \in Nat
    PROVE  NextIn(m, t) = IF \A x \in Elements(m) : x <= t THEN m.all[2]
                          ELSE Min({x \in Elements(m) : x > t})
  <1> DEFINE R == m.ranges
             E == Elements(m)
             S == {x \in E : x > t}
             up == Min(After(R, t + 1))
  <1>1. PICK lo \in Nat, hi \in Nat : m.all[1] = lo /\ m.all[2] = hi /\ Apart(R, lo, hi)
    BY Ground
  <1>2. /\ \A b \in DOMAIN R : b \in Nat /\ b < R[b] /\ R[b] \in Nat /\ R[b] <= hi
        /\ \A b, c \in DOMAIN R : b < c => R[b] < c
    BY <1>1 DEF Apart
  <1>3. \A x : x \in E <=> x \in Nat /\ Covers(R, x)
    BY ElementsIn
  <1>4. HasNumber(m, t + 1) <=> Covers(R, t + 1)
    BY <1>1, HasIs
  <1>5. NextIn(m, t) = IF HasNumber(m, t + 1) THEN t + 1 ELSE IF After(R, t + 1) = {} THEN hi ELSE up
    BY <1>1 DEF NextIn
  <1>6. After(R, t + 1) # {} => up \in DOMAIN R /\ up > t + 1 /\ \A b \in DOMAIN R : b > t + 1 => up <= b
    <2>1. t + 1 \in Nat /\ DOMAIN R \subseteq Nat
      BY <1>2
    <2>2. Apart(R, lo, hi) /\ hi \in Nat
      BY <1>1
    <2> HIDE DEF R, up
    <2> QED  BY <2>1, <2>2, Neighbours DEF up
  <1>7. After(R, t + 1) = {} => \A b \in DOMAIN R : b <= t + 1
    BY <1>2 DEF After
  <1>8. S \subseteq Nat
    BY <1>3
  <1>9. (\A x \in E : x <= t) <=> S = {}
    BY <1>3
  <1> HIDE DEF R, E, S, up
  <1>10. SUFFICES NextIn(m, t) = IF S = {} THEN hi ELSE Min(S)
    BY <1>1, <1>9 DEF E, S
  <1>11. \A x : x \in S <=> x \in Nat /\ x > t /\ Covers(R, x)
    BY <1>3 DEF S
  <1>12. CASE Covers(R, t + 1)
    <2>1. t + 1 \in S /\ \A x \in S : t + 1 <= x
      BY <1>11, <1>12
    <2>2. Min(S) = t + 1
      BY <1>8, <2>1, LeastOf
    <2> QED  BY <1>4, <1>5, <1>12, <2>1, <2>2
  <1>13. CASE ~Covers(R, t + 1)
    \* Whatever is above t is in a range that begins above t + 1.
    <2>1. ASSUME NEW x \in S PROVE \E b \in DOMAIN R : b > t + 1 /\ b <= x
      <3>1. x \in Nat /\ x > t /\ Covers(R, x)
        BY <1>11
      <3>2. PICK b \in DOMAIN R : b <= x /\ x < R[b]
        BY <3>1 DEF Covers
      <3>3. b \in Nat /\ R[b] \in Nat /\ ~(b <= t + 1 /\ t + 1 < R[b])
        BY <1>2, <1>13 DEF Covers
      <3> QED  BY <3>1, <3>2, <3>3
    <2>2. CASE After(R, t + 1) = {}
      <3>1. S = {}
        <4>1. ASSUME NEW x \in S PROVE FALSE
          <5>1. PICK b \in DOMAIN R : b > t + 1
            BY <2>1
          <5>2. b \in Nat /\ b <= t + 1
            BY <1>2, <1>7, <2>2
          <5> QED  BY <5>1, <5>2
        <4> QED  BY <4>1
      <3> QED  BY <1>4, <1>5, <1>13, <2>2, <3>1
    <2>3. CASE After(R, t + 1) # {}
      <3>1. up \in DOMAIN R /\ up \in Nat /\ up > t + 1 /\ up < R[up] /\ R[up] \in Nat
        BY <1>2, <1>6, <2>3
      <3>2. up \in S
        BY <1>11, <3>1 DEF Covers
      <3>3. ASSUME NEW x \in S PROVE up <= x
        <4>1. PICK b \in DOMAIN R : b > t + 1 /\ b <= x
          BY <2>1
        <4>2. up <= b /\ b \in Nat /\ x \in Nat
          BY <1>2, <1>6, <1>11, <2>3, <4>1
        <4> QED  BY <3>1, <4>1, <4>2
      <3>4. Min(S) = up
        BY <1>8, <3>2, <3>3, LeastOf
      <3> QED  BY <1>4, <1>5, <1>13, <2>3, <3>2, <3>4
    <2> QED  BY <2>2, <2>3
  <1> QED  BY <1>12, <1>13

\* Whatever the operations, the class answers as the set would: contains, full,
\* firstOut, lastIn, and next, by which an iterator goes from element to element
\* in order and misses none.
THEOREM AnswersAreRight ==
    ASSUME RangeMaskConstants, AskedFits
    PROVE  RangeSpec => []AnswersOfSets
  <1>1. RangeInit => MasksOK
    BY MasksInit
  <1>2. MasksOK /\ [RangeNext]_mask => MasksOK'
    BY MasksNext
  <1>3. MasksOK => AnswersOfSets
    <2> SUFFICES ASSUME MasksOK, NEW o \in Object
                 PROVE  LET m == mask[o]
                            elems == Elements(m)
                            ground == m.all[1] .. m.all[2] - 1
                        IN /\ \A i \in Numbers : HasNumber(m, i) <=> i \in elems
                           /\ IsFull(m) <=> elems = ground
                           /\ FirstOut(m) = IF elems = ground THEN m.all[2] ELSE Min(ground \ elems)
                           /\ LastIn(m) = IF elems = {} THEN m.all[1] ELSE Max(elems)
                           /\ \A t \in Numbers : NextIn(m, t) = IF \A x \in elems : x <= t THEN m.all[2]
                                                                ELSE Min({x \in elems : x > t})
      BY DEF AnswersOfSets
    <2> DEFINE m == mask[o]
               ground == m.all[1] .. m.all[2] - 1
    <2>1. MaskOK(m) /\ Top \in Nat /\ Numbers \subseteq Nat
      BY DEF MasksOK, RangeMaskConstants, Numbers
    <2>2. PICK lo \in Nat, hi \in Nat : Apart(m.ranges, lo, hi)
      BY <2>1, Ground
    <2>3. \A x : x \in Elements(m) <=> x \in Nat /\ Covers(m.ranges, x)
      BY <2>1, ElementsIn
    <2> HIDE DEF m
    <2>4. ASSUME NEW i \in Numbers PROVE HasNumber(m, i) <=> i \in Elements(m)
      BY <2>1, <2>2, <2>3, HasIs
    <2>5. IsFull(m) <=> Elements(m) = ground
      BY <2>1, FullIs
    <2>6. FirstOut(m) = IF Elements(m) = ground THEN m.all[2] ELSE Min(ground \ Elements(m))
      BY <2>1, FirstOutIs
    <2>7. LastIn(m) = IF Elements(m) = {} THEN m.all[1] ELSE Max(Elements(m))
      BY <2>1, LastInIs
    <2>8. ASSUME NEW t \in Numbers
          PROVE  NextIn(m, t) = IF \A x \in Elements(m) : x <= t THEN m.all[2]
                                ELSE Min({x \in Elements(m) : x > t})
      BY <2>1, NextIs
    <2> QED  BY <2>4, <2>5, <2>6, <2>7, <2>8 DEF m
  <1> QED  BY <1>1, <1>2, <1>3, PTL DEF RangeSpec

\* RangeMask.h:65: lowest has the smallest elements, however many are asked for,
\* as long as begin and number add up to what the type of numbers holds.
THEOREM AlwaysLowest ==
    ASSUME RangeMaskConstants, AskedFits
    PROVE  RangeSpec => []LowestAreLowest
  <1>1. RangeInit => MasksOK
    BY MasksInit
  <1>2. MasksOK /\ [RangeNext]_mask => MasksOK'
    BY MasksNext
  <1>3. MasksOK => LowestAreLowest
    BY LowestOK DEF MasksOK, LowestAreLowest
  <1> QED  BY <1>1, <1>2, <1>3, PTL DEF RangeSpec
=============================================================================
