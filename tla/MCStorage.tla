----------------------------- MODULE MCStorage -----------------------------
(***************************************************************************)
(* What outlives objects and processes: the nodes of tries in their        *)
(* database, the keys that tries know by their hashes, the key store, and  *)
(* what a Host saves of its network.  They share no state: each behaviour  *)
(* is of one of them, the subject.                                         *)
(***************************************************************************)
EXTENDS Store, FatTrie, SecretStore, SavedNetwork, TLC

VARIABLE subject

all == <<subject, vars, fatVars, secretVars, networkVars>>

\* Of the host: ratings are from -1 to 1, of 4 values; the days are 3 to 5.
MCEndpoints == {[address |-> "public", udp |-> 1, tcp |-> 2], [address |-> "private", udp |-> 1, tcp |-> 1]}
MCRatings == {-1, 1}

ASSUME KeyStoreConstants == SecretStoreConstants
ASSUME NetworkConstants == SavedNetworkConstants

Symmetry == Permutations(Db) \cup Permutations(Hash)

-----------------------------------------------------------------------------
Is(part) == subject = part

\* Those that are not the subject start in one way.
MCInit == /\ subject \in {"nodes", "fat tries", "key store", "host"}
          /\ Init /\ FatInit /\ SecretInit /\ NetworkInit
          /\ Is("nodes") \/ hasDisk
          /\ Is("fat tries") \/ auxOnDisk
          /\ Is("key store") \/ \A n \in DOMAIN files : files[n] = Absent

MCNext == \/ Is("nodes") /\ Next /\ UNCHANGED <<subject, fatVars, secretVars, networkVars>>
          \/ Is("fat tries") /\ FatNext /\ UNCHANGED <<subject, vars, secretVars, networkVars>>
          \/ Is("key store") /\ SecretNext /\ UNCHANGED <<subject, vars, fatVars, networkVars>>
          \/ Is("host") /\ NetworkNext /\ UNCHANGED <<subject, vars, fatVars, secretVars>>

MCSpec == MCInit /\ [][MCNext]_all
=============================================================================
