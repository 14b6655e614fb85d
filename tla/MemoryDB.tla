------------------------------ MODULE MemoryDB ------------------------------
(***************************************************************************)
(* The operations of MemoryDB and OverlayDB (MemoryDB.{h,cpp},             *)
(* OverlayDB.{h,cpp}) on the values they change.                           *)
(*                                                                         *)
(* m_main is a function from the hashes it has an entry for to their       *)
(* reference counts; an entry may have count 0.  The string of an entry is *)
(* what the hash is the hash of, so it is left out.  A disk is a set of    *)
(* hashes.  m_aux is left out: it is written and committed next to m_main, *)
(* and FatTrie is about it.                                                *)
(***************************************************************************)
EXTENDS Naturals

NoEntries == [h \in {} |-> 0]

Has(main, h) == h \in DOMAIN main
Refs(main, h) == IF Has(main, h) THEN main[h] ELSE 0

\* MemoryDB::insert
Inserted(main, h) ==
    [k \in DOMAIN main \cup {h} |-> IF k = h THEN Refs(main, h) + 1 ELSE main[k]]

\* MemoryDB::kill: no count goes below zero, and no entry is removed.
Killed(main, h) ==
    IF Refs(main, h) > 0 THEN [main EXCEPT ![h] = @ - 1] ELSE main

\* MemoryDB::keys
Keys(main) == {h \in DOMAIN main : main[h] > 0}

\* MemoryDB::purge
Purged(main) == [h \in Keys(main) |-> main[h]]

\* MemoryDB::exists and lookup; `enforce` is m_enforceRefs.
InMemory(main, h, enforce) == Has(main, h) /\ (enforce => main[h] > 0)

\* OverlayDB::exists and lookup.
Exists(main, disk, h, enforce) == InMemory(main, h, enforce) \/ h \in disk

\* Mutant: the batch is of the entries without references, too, and those with
\* many are forgotten.
BatchOfOnes(main) == {h \in DOMAIN main : main[h] <= 1}

\* What OverlayDB::commit puts into its batch.
Batch(main) == Keys(main)
=============================================================================
