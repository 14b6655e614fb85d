----------------------------- MODULE SecretStore -----------------------------
(***************************************************************************)
(* The key store (SecretStore.cpp): encrypted keys in memory, the files of *)
(* its directory and the secrets it has decrypted.                         *)
(*                                                                         *)
(* save writes the files of all keys one after the other, and not at once: *)
(* a file is cut off, written, and another file of the key removed.  The   *)
(* process may end between any two of these steps, and each may fail, the  *)
(* writing also without a word: writeFile looks at its stream before that  *)
(* has handed a small file to the system.                                  *)
(* Of a key the model keeps its id, the password that decrypts it, whether *)
(* it has a MAC, and whether what is encrypted is still the secret that    *)
(* was stored; the file derived from an id is named by the id.             *)
(***************************************************************************)
EXTENDS Integers, FiniteSets

CONSTANTS Uuid,      \* ids of keys
          Pass,      \* passwords
          Other,     \* names of other files in the directory
          Macs,      \* whether imported keys have a MAC: a set of booleans
          Odd,       \* other files that hold JSON which upgraded or readKeyContent throws at
          MaxFaults, \* bound: steps that fail, and restarts in the middle of save
          Absent,    \* no file, no key, no secret, no file name
          Broken,    \* what is in a file that is not JSON
          OddJSON    \* what is in the odd ones

Key == [id : Uuid, pass : Pass, mac : BOOLEAN, secret : {"right", "wrong"}]
Name == Uuid \cup Other

\* An element of m_keys.
Record == [enc : Key, file : Name \cup {Absent}]

\* Absent, and what is in a file that holds no key, are told apart from what is there.
Distinct == /\ {Absent, Broken, OddJSON} \cap Key = {}
            /\ Absent \notin Record \cup Name \cup {"right", "wrong"}

SecretStoreConstants ==
    /\ IsFiniteSet(Uuid) /\ Uuid \cap Other = {} /\ Odd \subseteq Other
    /\ Macs \subseteq BOOLEAN /\ MaxFaults \in Nat
    /\ Distinct

VARIABLES files,   \* the files of the directory
          keys,    \* m_keys: [enc, file]
          cached,  \* m_cached
          save,    \* where save is
          dirty,   \* a key was read without saving, or save has failed
          stored,  \* ids that a save that succeeded has written, less those killed
          killed,  \* ids that were killed and not imported again
          unflushed, \* ids whose last write in this process was lost without a word
          faults   \* number of faults so far

secretVars == <<files, keys, cached, save, dirty, stored, killed, unflushed, faults>>

Idle == [at |-> "idle"]
SaveAll == [at |-> "next", todo |-> {u \in Uuid : keys'[u] # Absent}]

IsKey(file) == file \notin {Absent, Broken, OddJSON}
FilesOf(u) == {n \in Name : IsKey(files[n]) /\ files[n].id = u}

\* load: the last file read of an id counts.  An exception ends the loop.
Loaded(k) ==
    \E seen \in SUBSET {n \in Name : IsKey(files[n])} :
        /\ (\A n \in Name : files[n] # OddJSON) => seen = {n \in Name : IsKey(files[n])}
        /\ \E last \in [Uuid -> Name] :
               /\ \A u \in Uuid : seen \cap FilesOf(u) # {} => last[u] \in seen \cap FilesOf(u)
               /\ k = [u \in Uuid |-> IF seen \cap FilesOf(u) = {} THEN Absent
                                      ELSE [enc |-> files[last[u]], file |-> last[u]]]

SecretInit == /\ files \in [Name -> Key \cup {Absent, OddJSON}]
              /\ \A n \in Name : /\ files[n] = OddJSON <=> n \in Odd
                                 /\ IsKey(files[n]) => files[n].secret = "right" /\ files[n].mac \in Macs
              /\ \A u \in Uuid : IsKey(files[u]) => files[u].id = u
              /\ Loaded(keys)
              /\ cached = [u \in Uuid |-> Absent]
              /\ save = Idle
              /\ dirty = FALSE
              /\ stored = {} /\ killed = {} /\ unflushed = {}
              /\ faults = 0
-----------------------------------------------------------------------------
(* save *)

SaveNext(u) ==
    /\ save.at = "next" /\ u \in save.todo
    /\ files' = [files EXCEPT ![u] = Broken]
    /\ save' = [at |-> "write", id |-> u, todo |-> save.todo \ {u}]
    /\ UNCHANGED <<keys, cached, dirty, stored, killed, faults, unflushed>>

\* Mutant: the file that was just written is removed, too.
Named(old, u) == old # Absent

\* The file that the key was read from is another one, and is removed.
Obsolete(old, u) == old # Absent /\ old # u

\* What save goes on with when writeFile has returned for u.
AfterWriting(u) ==
    IF Obsolete(keys[u].file, u) THEN [at |-> "remove", name |-> keys[u].file, todo |-> save.todo]
                                 ELSE [at |-> "next", todo |-> save.todo]

SaveWrites ==
    /\ save.at = "write"
    /\ LET u == save.id
       IN /\ files' = [files EXCEPT ![u] = keys[u].enc]
          /\ keys' = [keys EXCEPT ![u].file = u]
          /\ save' = AfterWriting(u)
          /\ unflushed' = unflushed \ {u}
    /\ UNCHANGED <<cached, dirty, stored, killed, faults>>

\* The disk is full, which the stream finds out when it is closed: save goes on as
\* if the file had been written, and removes the other one of the key.
SaveLosesWrite ==
    /\ save.at = "write" /\ faults < MaxFaults
    /\ LET u == save.id
       IN /\ keys' = [keys EXCEPT ![u].file = u]
          /\ save' = AfterWriting(u)
          /\ unflushed' = unflushed \cup {u}
    /\ faults' = faults + 1
    /\ UNCHANGED <<files, cached, dirty, stored, killed>>

SaveRemoves ==
    /\ save.at = "remove"
    /\ files' = [files EXCEPT ![save.name] = Absent]
    /\ save' = [at |-> "next", todo |-> save.todo]
    /\ UNCHANGED <<keys, cached, dirty, stored, killed, faults, unflushed>>

SaveDone ==
    /\ save = [at |-> "next", todo |-> {}]
    /\ save' = Idle
    /\ dirty' = FALSE
    /\ stored' = stored \cup {u \in Uuid : keys[u] # Absent}
    /\ UNCHANGED <<files, keys, cached, killed, faults, unflushed>>

\* An exception: what is done remains, and nothing is done about the rest.
SaveFails ==
    /\ save # Idle /\ faults < MaxFaults
    /\ save' = Idle
    /\ dirty' = TRUE
    /\ faults' = faults + 1
    /\ UNCHANGED <<files, keys, cached, stored, killed, unflushed>>
-----------------------------------------------------------------------------
(* The operations *)

\* The constructor, in a new process; the last one may have ended anywhere.
RestartKeys ==
    /\ save # Idle => faults < MaxFaults
    /\ faults' = IF save = Idle THEN faults ELSE faults + 1
    /\ Loaded(keys')
    /\ cached' = [u \in Uuid |-> Absent]
    /\ save' = Idle
    /\ dirty' = FALSE
    /\ unflushed' = {}
    /\ UNCHANGED <<files, stored, killed>>

\* readKeyContent and readKey, without a file that the store takes over.
ReadContent(key) ==
    /\ save = Idle
    /\ key.secret = "right" /\ key.mac \in Macs
    /\ keys' = [keys EXCEPT ![key.id] = [enc |-> key, file |-> Absent]]
    /\ killed' = killed \ {key.id}
    /\ UNCHANGED <<files, cached, stored, faults, unflushed>>

ReadKeyContent(key) == ReadContent(key) /\ dirty' = TRUE /\ UNCHANGED save

\* importKey and importKeyContent
ImportKey(key) == ReadContent(key) /\ save' = SaveAll /\ UNCHANGED dirty

\* readKey, of a file that the store takes over.
ReadKey(n) ==
    /\ save = Idle /\ IsKey(files[n])
    /\ keys' = [keys EXCEPT ![files[n].id] = [enc |-> files[n], file |-> n]]
    /\ killed' = killed \ {files[n].id}
    /\ unflushed' = unflushed \ {files[n].id}
    /\ UNCHANGED <<files, cached, save, dirty, stored, faults>>

\* importSecret, with a random id.
ImportSecret(u, pass) ==
    /\ save = Idle
    /\ keys[u] = Absent /\ FilesOf(u) = {} /\ u \notin killed
    /\ keys' = [keys EXCEPT ![u] =
                   [enc |-> [id |-> u, pass |-> pass, mac |-> TRUE, secret |-> "right"], file |-> Absent]]
    /\ cached' = [cached EXCEPT ![u] = "right"]
    /\ save' = SaveAll
    /\ UNCHANGED <<files, dirty, stored, killed, faults, unflushed>>

\* Mutant: the MAC is not compared.
DecryptAnyway(enc, pass) == IF pass = enc.pass THEN enc.secret ELSE "wrong"

\* decrypt: with a wrong password there is nothing, or garbage without a MAC.
Decrypt(enc, pass) ==
    IF pass = enc.pass THEN enc.secret ELSE IF enc.mac THEN Absent ELSE "wrong"

\* secret; useCache is always true for a secret that is not there.
SecretOf(u, pass, useCache) ==
    IF useCache /\ cached[u] # Absent THEN cached[u]
    ELSE IF keys[u] = Absent THEN Absent ELSE Decrypt(keys[u].enc, pass)

Secret(u, pass, useCache) ==
    /\ save = Idle
    /\ LET s == SecretOf(u, pass, useCache)
       IN cached' = IF s = Absent THEN cached ELSE [cached EXCEPT ![u] = s]
    /\ UNCHANGED <<files, keys, save, dirty, stored, killed, faults, unflushed>>

Recode(u, new, pass) ==
    /\ save = Idle
    /\ LET s == SecretOf(u, pass, TRUE)
       IN /\ s # Absent
          /\ cached' = [cached EXCEPT ![u] = Absent]
          /\ keys' = [keys EXCEPT ![u].enc = [id |-> u, pass |-> new, mac |-> TRUE, secret |-> s]]
    /\ save' = SaveAll
    /\ UNCHANGED <<files, dirty, stored, killed, faults, unflushed>>

KillKey(u) ==
    /\ save = Idle
    /\ cached' = [cached EXCEPT ![u] = Absent]
    /\ files' = IF keys[u] = Absent \/ keys[u].file = Absent THEN files
               ELSE [files EXCEPT ![keys[u].file] = Absent]
    /\ keys' = [keys EXCEPT ![u] = Absent]
    /\ killed' = killed \cup {u}
    /\ stored' = stored \ {u}
    /\ unflushed' = unflushed \ {u}
    /\ UNCHANGED <<save, dirty, faults>>

ClearCache == /\ save = Idle
              /\ cached' = [u \in Uuid |-> Absent]
              /\ UNCHANGED <<files, keys, save, dirty, stored, killed, faults, unflushed>>

SecretNext == \/ SaveWrites \/ SaveLosesWrite \/ SaveRemoves \/ SaveDone \/ SaveFails
              \/ RestartKeys \/ ClearCache
              \/ \E key \in Key : ReadKeyContent(key) \/ ImportKey(key)
              \/ \E n \in Name : ReadKey(n)
              \/ \E u \in Uuid :
                    \/ SaveNext(u) \/ KillKey(u)
                    \/ \E pass \in Pass :
                          \/ ImportSecret(u, pass)
                          \/ \E useCache \in BOOLEAN : Secret(u, pass, useCache)
                          \/ \E new \in Pass : Recode(u, new, pass)

SecretSpec == SecretInit /\ [][SecretNext]_secretVars
-----------------------------------------------------------------------------
\* A fault costs at most one key: whatever save was doing, all the others are
\* still in the directory.  (A write that is lost without a word costs that key
\* once the process ends, also one that had been in another file.)
OneLostPerFault ==
    Cardinality({u \in stored : FilesOf(u) = {}}) <= faults + (IF save.at = "write" THEN 1 ELSE 0)

\* What is encrypted, in memory and on disk, is the secret that was stored, and
\* so is what was decrypted: no password, right or wrong, turns it into another.
SecretsIntact ==
    /\ \A u \in Uuid : /\ keys[u] # Absent => keys[u].enc.secret = "right"
                       /\ cached[u] # Absent => keys[u] # Absent /\ cached[u] = "right"
    /\ \A n \in Name : IsKey(files[n]) => files[n].secret = "right"

\* Once save has succeeded, and until a key is read without saving, the file of
\* each key holds what memory holds, with the password it was given last, if the
\* system kept what was written.
SavedAsKept ==
    save = Idle /\ ~dirty =>
        \A u \in Uuid \ unflushed : keys[u] # Absent => keys[u].file # Absent /\ files[keys[u].file] = keys[u].enc

\* Both: the secrets, and the passwords for them, are those that the user gave.
SecretsKept == SecretsIntact /\ SavedAsKept

\* SecretStore.h:70: kill removes the key from both memory and disk.
KilledIsGone == \A u \in killed : keys[u] = Absent /\ FilesOf(u) = {}

\* SecretStore.h:49: the constructor reads all keys in the directory.
ReadsAllKeys ==
    [][RestartKeys => \A u \in Uuid : FilesOf(u) # {} => keys'[u] # Absent]_secretVars
=============================================================================
