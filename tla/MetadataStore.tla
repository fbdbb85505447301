---------------------------- MODULE MetadataStore ----------------------------
(***************************************************************************)
(* MetadataStore of dcache/persistence/metadata_store.py: a map that lies  *)
(* in LevelDB while that is open, and in a directory of JSON files while   *)
(* it is not.  A call that LevelDB refuses goes to the JSON files for that *)
(* once; a JSON file is truncated and then written, so that a failure or a *)
(* crash in between leaves a file nobody can parse.  LevelDB's own writes  *)
(* are atomic and survive the process.                                     *)
(*                                                                         *)
(* The name of a file is the key with ':' and '/' turned into '_': records *)
(* whose keys differ in these only lie in one file, here named after one   *)
(* of them.                                                                *)
(*                                                                         *)
(* A call is one step: it holds a lock and does not suspend.  What goes    *)
(* wrong in LevelDB or the file system is a fault, and faults are counted. *)
(***************************************************************************)
EXTENDS Integers

CONSTANTS
  Record,     \* the keys
  None,       \* no value
  Torn,       \* a truncated file
  MaxFaults   \* bound on calls that fail

VARIABLES
  backend,   \* "leveldb" while _db is set, otherwise "json"
  file,      \* the file of each record
  ldb,       \* the records in LevelDB
  json,      \* the files in _fallback_path
  last,      \* ghost: per record the value last written, None once deleted
  home,      \* ghost: which of the two still have it from that write
  faults     \* how many calls have failed

StoreInit ==
  /\ ldb = [k \in Record |-> None]
  /\ json = [k \in Record |-> None]
  /\ last = [k \in Record |-> None]
  /\ home = [k \in Record |-> {"leveldb", "json"}]
  /\ faults = 0

Fails == faults < MaxFaults /\ faults' = faults + 1

Works == UNCHANGED faults

Wrote(k, v, where) ==
  /\ last' = [last EXCEPT ![k] = v]
  /\ home' = [home EXCEPT ![k] = where]

\* The other records of the file are lost.
WroteFile(k, v, where) ==
  /\ last' = [last EXCEPT ![k] = v]
  /\ home' = [j \in Record |-> IF j = k THEN where
                               ELSE IF file[j] = file[k] THEN home[j] \ {"json"} ELSE home[j]]

\* _fallback_put, as it should go and with an exception that is only logged,
\* raised before or after the file was truncated.
FallbackPut(k, v) == json' = [json EXCEPT ![file[k]] = v] /\ WroteFile(k, v, {"json"})

FallbackFails(k, v) ==
  \/ UNCHANGED json /\ Wrote(k, v, {})
  \/ json' = [json EXCEPT ![file[k]] = Torn] /\ WroteFile(k, v, {})

\* A fault is one call that fails, in LevelDB, in the file system or in both.
Put(k, v) ==
  /\ \/ /\ backend = "leveldb"
        /\ \/ ldb' = [ldb EXCEPT ![k] = v] /\ Wrote(k, v, {"leveldb"}) /\ Works /\ UNCHANGED json
           \/ Fails /\ (FallbackPut(k, v) \/ FallbackFails(k, v)) /\ UNCHANGED ldb
     \/ /\ backend = "json"
        /\ \/ FallbackPut(k, v) /\ Works
           \/ FallbackFails(k, v) /\ Fails
        /\ UNCHANGED ldb
  /\ UNCHANGED <<backend, file>>

FallbackDelete(k) == json' = [json EXCEPT ![file[k]] = None] /\ WroteFile(k, None, {"json"})

\* An exception of either is logged, and nothing is deleted.
Delete(k) ==
  /\ \/ /\ backend = "leveldb"
        /\ ldb' = [ldb EXCEPT ![k] = None]
        /\ Wrote(k, None, {"leveldb"}) /\ Works /\ UNCHANGED json
     \/ backend = "json" /\ FallbackDelete(k) /\ Works /\ UNCHANGED ldb
     \/ Fails /\ Wrote(k, None, {}) /\ UNCHANGED <<ldb, json>>
  /\ UNCHANGED <<backend, file>>

\* The process ends between the truncation of the file and the end of f.write.
TornPut(k, v) ==
  /\ backend = "json"
  /\ json' = [json EXCEPT ![file[k]] = Torn]
  /\ WroteFile(k, v, {})
  /\ UNCHANGED <<backend, file, ldb, faults>>

FallbackGet(k) == json[file[k]]

\* A plausible slip: a record LevelDB does not have is looked for in the files.
GetOrFallback(k) == IF backend = "leveldb" /\ ldb[k] # None THEN ldb[k] ELSE FallbackGet(k)

\* _get as long as LevelDB answers; when it raises, the file is read.
Get(k) == IF backend = "leveldb" THEN ldb[k] ELSE FallbackGet(k)

Kept(k) == backend \in home[k]

SharesFile(k) == \E j \in Record \ {k} : file[j] = file[k]

(* A record is read as it was last written or deleted, as long as that went *)
(* into the store that is open now: what an earlier failure left in the     *)
(* other one never shows.  It is missing there only if a call has failed,   *)
(* if its file was cut short by a crash, or if the files are open and       *)
(* another record has the same one (metadata_store.py:153-218).             *)
ReadsLastWrite ==
  \A k \in Record :
    IF Kept(k) THEN Get(k) = last[k]
    ELSE faults > 0 \/ (backend = "json" /\ (Get(k) = Torn \/ SharesFile(k)))
=============================================================================
