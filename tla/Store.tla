-------------------------------- MODULE Store --------------------------------
(***************************************************************************)
(* Several OverlayDB objects, copies of one another (MemoryDB::operator=), *)
(* over one database on disk, and their users, which kill what they hold a *)
(* reference to.  The copies share the disk and not the memory.            *)
(*                                                                         *)
(* held and saved are what a user has inserted and not killed: now, and at *)
(* the last commit, to which a rollback or a restart takes it back.        *)
(*                                                                         *)
(* Objects are used by one thread each: DEV_GUARDED_DB is not defined.     *)
(***************************************************************************)
EXTENDS MemoryDB

CONSTANTS Db,      \* OverlayDB objects
          Hash,    \* hashes of nodes
          MaxRefs  \* bound: references a user holds to one node

ASSUME StoreConstants == MaxRefs \in Nat

VARIABLES main,    \* m_main of each object
          disk,    \* the nodes on disk
          hasDisk, \* m_db is not null
          held,    \* references that each user holds
          saved    \* those it held when it last committed

vars == <<main, disk, hasDisk, held, saved>>

NoRefs == [h \in Hash |-> 0]

Init == /\ main = [d \in Db |-> NoEntries]
        /\ disk = {}
        /\ hasDisk \in BOOLEAN
        /\ held = [d \in Db |-> NoRefs]
        /\ saved = [d \in Db |-> NoRefs]
-----------------------------------------------------------------------------
Insert(d, h) ==
    /\ held[d][h] < MaxRefs
    /\ main' = [main EXCEPT ![d] = Inserted(@, h)]
    /\ held' = [held EXCEPT ![d][h] = @ + 1]
    /\ UNCHANGED <<disk, hasDisk, saved>>

\* OverlayDB::kill; a trie also kills nodes that it never inserted.
Kill(d, h) ==
    /\ main' = [main EXCEPT ![d] = Killed(@, h)]
    /\ held' = [held EXCEPT ![d][h] = IF @ = 0 THEN 0 ELSE @ - 1]
    /\ UNCHANGED <<disk, hasDisk, saved>>

Purge(d) ==
    /\ main' = [main EXCEPT ![d] = Purged(@)]
    /\ UNCHANGED <<disk, hasDisk, held, saved>>

\* Mutant: the memory is cleared also when there is no disk.
CommitClears(d) ==
    /\ disk' = IF hasDisk THEN disk \cup Batch(main[d]) ELSE disk
    /\ main' = [main EXCEPT ![d] = NoEntries]
    /\ saved' = IF hasDisk THEN [saved EXCEPT ![d] = held[d]] ELSE saved
    /\ UNCHANGED <<hasDisk, held>>

\* A write that fails is tried again with the same batch, ten times at most.
Commit(d) ==
    /\ IF hasDisk
       THEN /\ disk' = disk \cup Batch(main[d])
            /\ main' = [main EXCEPT ![d] = NoEntries]
            /\ saved' = [saved EXCEPT ![d] = held[d]]
       ELSE UNCHANGED <<disk, main, saved>>
    /\ UNCHANGED <<hasDisk, held>>

\* The memory is lost, and each user goes on from what some user has saved.
Restart ==
    /\ main' = [d \in Db |-> NoEntries]
    /\ \E from \in [Db -> Db] : /\ held' = [d \in Db |-> saved[from[d]]]
                                /\ saved' = [d \in Db |-> saved[from[d]]]
    /\ UNCHANGED hasDisk

Crash == Restart /\ UNCHANGED disk

\* The tenth write fails and commit calls exit; a batch reported as failed may
\* have been written all the same.
CommitDies(d) ==
    /\ hasDisk
    /\ Restart
    /\ disk' \in {disk, disk \cup Batch(main[d])}

\* Also without a disk.
Rollback(d) ==
    /\ main' = [main EXCEPT ![d] = NoEntries]
    /\ held' = [held EXCEPT ![d] = saved[d]]
    /\ UNCHANGED <<disk, hasDisk, saved>>

Copy(d, e) ==
    /\ main' = [main EXCEPT ![e] = main[d]]
    /\ held' = [held EXCEPT ![e] = held[d]]
    /\ saved' = [saved EXCEPT ![e] = saved[d]]
    /\ UNCHANGED <<disk, hasDisk>>

Next == \/ \E d \in Db : \/ \E h \in Hash : Insert(d, h) \/ Kill(d, h)
                         \/ Purge(d) \/ Commit(d) \/ CommitDies(d) \/ Rollback(d)
                         \/ \E e \in Db : Copy(d, e)
        \/ Crash

Spec == Init /\ [][Next]_vars
-----------------------------------------------------------------------------
TypeOK == /\ main = [d \in Db |-> main[d]]
          /\ \A d \in Db : /\ DOMAIN main[d] \in SUBSET Hash
                            /\ main[d] \in [DOMAIN main[d] -> Nat]
          /\ disk \in SUBSET Hash
          /\ hasDisk \in BOOLEAN
          /\ held \in [Db -> [Hash -> Nat]]
          /\ saved \in [Db -> [Hash -> Nat]]

\* A node to which its user holds a reference is found, with and without
\* m_enforceRefs, through commits, rollbacks, copies and crashes, although
\* kill does nothing for a node that only the disk has and counts on disk do
\* not exist.
ReferencedFound ==
    \A d \in Db, h \in Hash : held[d][h] > 0 =>
        \A enforce \in BOOLEAN : Exists(main[d], disk, h, enforce)

\* What a user had when it committed stays on disk, whatever the users of the
\* copies kill, roll back and commit afterwards.
SavedOnDisk == \A d \in Db, h \in Hash : saved[d][h] > 0 => h \in disk

\* A node that nobody has written is counted exactly: so the last kill of a
\* node that was inserted since the last commit keeps it from the disk.
ExactUntilWritten ==
    \A d \in Db, h \in Hash : h \notin disk => Refs(main[d], h) = held[d][h]
=============================================================================
