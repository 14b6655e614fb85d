------------------------------ MODULE FatTrie ------------------------------
(***************************************************************************)
(* FatGenericTrieDB: tries by the hashes of their keys, which keep the     *)
(* keys themselves in m_aux of the database, so that an iterator made of   *)
(* the trie gives them back; begin() makes none, and compares equal to     *)
(* end().  Several tries are in one OverlayDB; the database and its copies *)
(* are those of Store, which is about the nodes.  Here a trie is the set   *)
(* of the keys whose hashes are in it.                                     *)
(***************************************************************************)
EXTENDS FiniteSets

CONSTANTS Overlay, \* OverlayDB objects
          Trie, TrieKey

VARIABLES trieKeys,  \* of each trie of each database object
          trieSaved, \* those of the roots of the object's last commit
          aux,       \* the keys that m_aux has
          diskAux,   \* the keys on disk
          auxOnDisk  \* there is a LevelDB

fatVars == <<trieKeys, trieSaved, aux, diskAux, auxOnDisk>>

FatInit == /\ trieKeys = [d \in Overlay |-> [t \in Trie |-> {}]]
           /\ trieSaved = trieKeys
           /\ aux = [d \in Overlay |-> {}]
           /\ diskAux = {}
           /\ auxOnDisk \in BOOLEAN

\* FatGenericTrieDB::insert, over MemoryDB::insertAux.
InsertKey(d, t, k) ==
    /\ trieKeys' = [trieKeys EXCEPT ![d][t] = @ \cup {k}]
    /\ aux' = [aux EXCEPT ![d] = @ \cup {k}]
    /\ UNCHANGED <<trieSaved, diskAux, auxOnDisk>>

\* Mutant: removing a key from a trie also removes it from m_aux.
RemoveKeyWithAux(d, t, k) ==
    /\ k \in trieKeys[d][t]
    /\ trieKeys' = [trieKeys EXCEPT ![d][t] = @ \ {k}]
    /\ aux' = [aux EXCEPT ![d] = @ \ {k}]
    /\ UNCHANGED <<trieSaved, diskAux, auxOnDisk>>

\* FatGenericTrieDB::remove: another trie may have the key.
RemoveKey(d, t, k) ==
    /\ k \in trieKeys[d][t]
    /\ trieKeys' = [trieKeys EXCEPT ![d][t] = @ \ {k}]
    /\ UNCHANGED <<trieSaved, aux, diskAux, auxOnDisk>>

\* OverlayDB::commit writes nodes and keys in one batch.
CommitKeys(d) ==
    /\ IF auxOnDisk
       THEN /\ diskAux' = diskAux \cup aux[d]
            /\ aux' = [aux EXCEPT ![d] = {}]
            /\ trieSaved' = [trieSaved EXCEPT ![d] = trieKeys[d]]
       ELSE UNCHANGED <<diskAux, aux, trieSaved>>
    /\ UNCHANGED <<trieKeys, auxOnDisk>>

\* OverlayDB::rollback clears m_main only; the tries are set to earlier roots.
RollbackKeys(d) ==
    /\ trieKeys' = [trieKeys EXCEPT ![d] = trieSaved[d]]
    /\ UNCHANGED <<trieSaved, aux, diskAux, auxOnDisk>>

\* MemoryDB::operator=
CopyKeys(d, e) ==
    /\ trieKeys' = [trieKeys EXCEPT ![e] = trieKeys[d]]
    /\ trieSaved' = [trieSaved EXCEPT ![e] = trieSaved[d]]
    /\ aux' = [aux EXCEPT ![e] = aux[d]]
    /\ UNCHANGED <<diskAux, auxOnDisk>>

\* The process ends, and each user goes on from what it saved.
CrashKeys ==
    /\ trieKeys' = trieSaved
    /\ aux' = [d \in Overlay |-> {}]
    /\ UNCHANGED <<trieSaved, diskAux, auxOnDisk>>

FatNext == \/ \E d \in Overlay : \/ CommitKeys(d) \/ RollbackKeys(d)
                                 \/ \E t \in Trie, k \in TrieKey : InsertKey(d, t, k) \/ RemoveKey(d, t, k)
                                 \/ \E e \in Overlay : CopyKeys(d, e)
           \/ CrashKeys

FatSpec == FatInit /\ [][FatNext]_fatVars

Nothing == "no key"

\* OverlayDB::lookupAux, of a key's hash.
lookupAux(d, k) == IF k \in aux[d] \/ (auxOnDisk /\ k \in diskAux) THEN k ELSE Nothing

\* What an iterator gives when it is at each of the hashes.
At(d, t) == {lookupAux(d, k) : k \in trieKeys[d][t]}

---------------------------------------------------------------------------
\* Whatever the other tries and the other copies of the database removed,
\* committed and rolled back, an iterator finds the key behind each hash
\* (FatGenericTrieDB::iterator::at).
KeysKnown == \A d \in Overlay, t \in Trie : At(d, t) = trieKeys[d][t]
=============================================================================
