---------------------------- MODULE KvdbService ----------------------------
(***************************************************************************)
(* One key-value database of the cache server: KvdbService                 *)
(* (filecache/server/kvdbservice.cpp).  Each key is a file of a folder;    *)
(* in front of the files stands a cache of preallocated nodes.  All calls  *)
(* come from the cache server's thread, one at a time, but files may not   *)
(* open, writes and removes may fail half-way, the wall clock can be set,  *)
(* and the process can die in any call.  A file that was opened for        *)
(* reading is read to its end: the code takes a read error for the end.    *)
(*                                                                         *)
(* A value is a sequence of whole buffers: the pieces of                   *)
(* KVDB_TMP_BUFFER_LEN bytes in which the code reads a file.  The nodes of *)
(* all cache lists are numbered in the order NodeFind visits them, smaller *)
(* sizes first.                                                            *)
(***************************************************************************)
EXTENDS Integers, Sequences, FiniteSets

CONSTANTS
  Keys,
  Buffers,    \* contents of one buffer
  Values,     \* values Replace is called with, the empty one among them
  NodeSize,   \* NodeSize[n]: the longest value node n has room for
  Absent,     \* no such file
  MaxTime,    \* bound on the wall clock, in seconds
  MaxFaults   \* bound on failing calls and crashes

ASSUME KvdbServiceAssumption ==
  /\ Values \subseteq Seq(Buffers)
  /\ NodeSize \in Seq(Nat)
  /\ Absent \notin Seq(Buffers)
  /\ MaxTime \in Nat /\ MaxFaults \in Nat

VARIABLES
  node,    \* the cache: node[n] is a record, or Free when not valid
  file,    \* the folder
  backup,  \* the backup folder
  hasBak,  \* whether the backup folder exists
  time,    \* time(NULL)
  res,     \* whether the last call returned KVDB_ERR_OK
  faults   \* failed calls and crashes so far

vars == <<node, file, backup, hasBak, time, res, faults>>
bak == <<backup, hasBak>>

Nodes == 1 .. Len(NodeSize)
Times == 0 .. MaxTime

(* what a file may hold: a value, or as much of it as was written *)
Prefixes(v) == {SubSeq(v, 1, j) : j \in 0 .. Len(v)}
Contents == UNION {Prefixes(v) : v \in Values}

(* `written` is no field of the code's node: it is FALSE when the write of *)
(* the node's value to the file failed.                                    *)
Free == [valid |-> FALSE]
Record(k, v, w) ==
  [valid |-> TRUE, key |-> k, value |-> v, last |-> time, written |-> w]
Empty == [n \in Nodes |-> Free]

Init ==
  /\ node = Empty
  /\ file = [k \in Keys |-> Absent]
  /\ backup = [k \in Keys |-> Absent]
  /\ hasBak = FALSE
  /\ time = 0
  /\ res = TRUE
  /\ faults = 0

Fault == faults < MaxFaults /\ faults' = faults + 1

-----------------------------------------------------------------------------
(* The cache. *)

Holds(n, k) == node[n].valid /\ node[n].key = k

Cached(k) == \E n \in Nodes : Holds(n, k)

(* NodeFind: the first valid node of the key *)
NodeFind(n, k) == Holds(n, k) /\ \A m \in Nodes : Holds(m, k) => n <= m

(* a mutant: a new value leaves the node of the old one valid *)
KeepNode(k) == node

(* the node found for the key, if any, loses its valid bit *)
DropNode(k) == [n \in Nodes |-> IF NodeFind(n, k) THEN Free ELSE node[n]]

(* a mutant: the size of the node is not looked at *)
FitsAny(length) == Nodes

Fits(length) == {m \in Nodes : NodeSize[m] >= length}

(* NodeOldest: among the nodes with room for the length the first free     *)
(* one, or else the one written longest ago, if before this second         *)
NodeOldest(cache, length, n) ==
  LET free == {m \in Fits(length) : ~cache[m].valid}
      older == {m \in Fits(length) : cache[m].valid /\ cache[m].last < time}
  IN  \/ n \in free /\ \A m \in free : n <= m
      \/ /\ free = {} /\ n \in older
         /\ \A m \in older : \/ cache[n].last < cache[m].last
                             \/ cache[n].last = cache[m].last /\ n <= m

(* Replace's choice of a node: when every node was written this second, the *)
(* first that has room                                                      *)
Chosen(cache, length, n) ==
  \/ NodeOldest(cache, length, n)
  \/ /\ \A m \in Nodes : ~NodeOldest(cache, length, m)
     /\ n \in Fits(length)
     /\ \A m \in Fits(length) : n <= m

(* the value moves from the node it had, if any, to the chosen one, if any *)
CacheValue(k, v, w) ==
  LET dropped == DropNode(k)
  IN  \/ \E n \in Nodes :
           /\ Chosen(dropped, Len(v), n)
           /\ node' = [dropped EXCEPT ![n] = Record(k, v, w)]
      \/ /\ \A n \in Nodes : ~Chosen(dropped, Len(v), n)
         /\ node' = dropped

-----------------------------------------------------------------------------
(* Replace. *)

(* The cached value is the new one: only the node's time changes. *)
ReplaceSame(k, v) ==
  /\ \E n \in Nodes :
       /\ NodeFind(n, k)
       /\ node[n].value = v
       /\ node' = [node EXCEPT ![n].last = time]
  /\ res' = TRUE
  /\ UNCHANGED <<file, bak, time, faults>>

Differs(k, v) == \A n \in Nodes : NodeFind(n, k) => node[n].value # v

(* a mutant: only the lengths are compared *)
SameLength(f, v) == f # Absent /\ Len(f) = Len(v)

(* The comparison of a file that is not cached with the new value: each    *)
(* buffer read is compared with the start of the value.                    *)
SameAsFile(f, v) ==
  f # Absent /\ Len(f) = Len(v) /\ \A i \in 1 .. Len(f) : f[i] = v[1]

NeedsWriting(k, v) == Cached(k) \/ ~SameAsFile(file[k], v)

ReplaceUnwritten(k, v) ==
  /\ v # <<>>
  /\ Differs(k, v)
  /\ ~NeedsWriting(k, v)
  /\ CacheValue(k, v, TRUE)
  /\ res' = TRUE
  /\ UNCHANGED <<file, bak, time, faults>>

ReplaceWritten(k, v) ==
  /\ v # <<>>
  /\ Differs(k, v)
  /\ NeedsWriting(k, v)
  /\ CacheValue(k, v, TRUE)
  /\ file' = [file EXCEPT ![k] = v]
  /\ res' = TRUE
  /\ UNCHANGED <<bak, time, faults>>

(* The file cannot be opened, or is written in part, which fwrite reports  *)
(* or only fclose, whose result is not looked at; the node stays.          *)
ReplaceFailed(k, v) ==
  /\ v # <<>>
  /\ Differs(k, v)
  /\ NeedsWriting(k, v)
  /\ Fault
  /\ CacheValue(k, v, FALSE)
  /\ \/ UNCHANGED file /\ res' = FALSE
     \/ /\ \E f \in Prefixes(v) \ {v} : file' = [file EXCEPT ![k] = f]
        /\ res' \in BOOLEAN
  /\ UNCHANGED <<bak, time>>

(* Remove, and Replace with an empty value: the node goes first, and it is *)
(* an error when the file is not there or cannot be removed.               *)
RemoveFile(k) ==
  /\ node' = DropNode(k)
  /\ \/ /\ file[k] # Absent
        /\ file' = [file EXCEPT ![k] = Absent]
        /\ res' = TRUE
        /\ UNCHANGED faults
     \/ /\ \/ file[k] = Absent /\ UNCHANGED faults
           \/ file[k] # Absent /\ Fault
        /\ res' = FALSE
        /\ UNCHANGED file
  /\ UNCHANGED <<bak, time>>

Replace(k, v) ==
  \/ ReplaceSame(k, v)
  \/ ReplaceUnwritten(k, v)
  \/ ReplaceWritten(k, v)
  \/ ReplaceFailed(k, v)
  \/ v = <<>> /\ Differs(k, v) /\ RemoveFile(k)

Remove(k) == RemoveFile(k)

-----------------------------------------------------------------------------
(* Seek into a string. *)

(* A hit changes nothing, not even the node's time. *)
SeekCached(k) ==
  /\ Cached(k)
  /\ res' = TRUE
  /\ UNCHANGED <<node, file, bak, time, faults>>

(* a mutant: the node that is reused keeps its key *)
SeekFileKeepingKey(k) ==
  /\ ~Cached(k)
  /\ file[k] # Absent
  /\ \E n \in Nodes :
       /\ NodeOldest(node, Len(file[k]), n)
       /\ node' = [node EXCEPT ![n] =
            Record(IF node[n].valid THEN node[n].key ELSE k, file[k], TRUE)]
  /\ res' = TRUE
  /\ UNCHANGED <<file, bak, time, faults>>

(* A miss reads the file and keeps it in the node NodeOldest names, if any. *)
SeekFile(k) ==
  /\ ~Cached(k)
  /\ file[k] # Absent
  /\ LET oldest == {n \in Nodes : NodeOldest(node, Len(file[k]), n)}
     IN  \/ \E n \in oldest : node' = [node EXCEPT ![n] = Record(k, file[k], TRUE)]
         \/ oldest = {} /\ UNCHANGED node
  /\ res' = TRUE
  /\ UNCHANGED <<file, bak, time, faults>>

SeekFailed(k) ==
  /\ ~Cached(k)
  /\ \/ file[k] = Absent /\ UNCHANGED faults
     \/ file[k] # Absent /\ Fault
  /\ res' = FALSE
  /\ UNCHANGED <<node, file, bak, time>>

Seek(k) == SeekCached(k) \/ SeekFile(k) \/ SeekFailed(k)

-----------------------------------------------------------------------------
(* Backup and Restore. *)

(* What a copy from folder to folder that goes wrong may leave: a file of  *)
(* the target that was not removed, none, or a copy that was cut short.    *)
PartCopies(target, source) ==
  {t \in [Keys -> Contents \union {Absent}] :
     \A k \in Keys : \/ t[k] \in {target[k], Absent}
                     \/ source[k] # Absent /\ t[k] \in Prefixes(source[k])}

(* FoldCopy clears the target folder, and with it the cache.  Of what goes *)
(* wrong while clearing or copying the result tells only a part.           *)
Backup ==
  /\ node' = Empty
  /\ hasBak' = TRUE
  /\ \/ backup' = file /\ res' = TRUE /\ UNCHANGED faults
     \/ Fault /\ backup' \in PartCopies(backup, file) /\ res' \in BOOLEAN
  /\ UNCHANGED <<file, time>>

(* a mutant: the files are replaced below the cache *)
RestoreKeepingCache ==
  /\ \/ file' = backup /\ res' = hasBak /\ UNCHANGED faults
     \/ Fault /\ file' \in PartCopies(file, backup) /\ res' \in BOOLEAN
  /\ UNCHANGED <<node, bak, time>>

(* The target is cleared before it is known whether there is a source. *)
Restore ==
  /\ node' = Empty
  /\ \/ file' = backup /\ res' = hasBak /\ UNCHANGED faults
     \/ Fault /\ file' \in PartCopies(file, backup) /\ res' \in BOOLEAN
  /\ UNCHANGED <<bak, time>>

(* time(NULL) follows the wall clock, which can be set *)
SetClock ==
  /\ time' \in Times \ {time}
  /\ UNCHANGED <<node, file, bak, res, faults>>

(* The process dies, perhaps in a call, and a new service finds the files. *)
Crash ==
  /\ Fault
  /\ node' = Empty
  /\ \/ UNCHANGED <<file, bak>>
     \/ \E k \in Keys, v \in Values : \E f \in Prefixes(v) \union {Absent} :
          file' = [file EXCEPT ![k] = f] /\ UNCHANGED bak
     \/ backup' \in PartCopies(backup, file) /\ hasBak' = TRUE /\ UNCHANGED file
     \/ file' \in PartCopies(file, backup) /\ UNCHANGED bak
  /\ res' = FALSE
  /\ UNCHANGED time

-----------------------------------------------------------------------------
Next ==
  \/ \E k \in Keys, v \in Values : Replace(k, v)
  \/ \E k \in Keys : Remove(k)
  \/ \E k \in Keys : Seek(k)
  \/ Backup
  \/ Restore
  \/ SetClock
  \/ Crash

Spec == Init /\ [][Next]_vars

-----------------------------------------------------------------------------
NodeRecord ==
  [valid: {TRUE}, key: Keys, value: Contents, last: Nat, written: BOOLEAN]

(* Every variable holds a value the code could hold, and no node is given  *)
(* a value longer than the memory allocated for it.                        *)
TypeOK ==
  /\ node \in [Nodes -> {Free} \union NodeRecord]
  /\ \A n \in Nodes : node[n].valid => Len(node[n].value) <= NodeSize[n]
  /\ file \in [Keys -> Contents \union {Absent}]
  /\ backup \in [Keys -> Contents \union {Absent}]
  /\ hasBak \in BOOLEAN
  /\ ~hasBak => \A k \in Keys : backup[k] = Absent
  /\ time \in Nat
  /\ res \in BOOLEAN
  /\ faults \in Nat

(* NodeFind stops at the first node of a key and Remove drops only that:   *)
(* a second valid node of the key would come back as an old value.         *)
OneNodePerKey ==
  \A m, n \in Nodes :
    node[m].valid /\ node[n].valid /\ node[m].key = node[n].key => m = n

(* A node whose value went to the file holds what the file holds, whatever *)
(* was replaced, removed, evicted, backed up or restored since.  Nodes     *)
(* whose write failed are excepted: Replace fills the node before it       *)
(* writes the file, and leaves the new value there when that goes wrong.   *)
CacheMatchesFile ==
  \A n \in Nodes :
    node[n].valid /\ node[n].written => file[node[n].key] = node[n].value

(* what the next Seek of the key finds *)
View(k) ==
  IF Cached(k) THEN node[CHOOSE n \in Nodes : NodeFind(n, k)].value ELSE file[k]

Written(k) == \A n \in Nodes : Holds(n, k) => node[n].written

(* The node of a key whose write failed goes, and the file, which did not  *)
(* change, shows again: the old value, none, or what was written of it.    *)
FallsBack(k) == ~Written(k) /\ ~Cached(k)' /\ file'[k] = file[k]

(* What a reader sees of a key changes only by a Replace or Remove of that *)
(* key, a Restore or a crash: neither by another key's eviction of its     *)
(* node, nor by a read, nor by a Backup, which empties the cache.  The one *)
(* exception is what the code makes of a failed write: until its node is   *)
(* evicted or dropped by a Backup readers see the value that did not reach *)
(* the file, and from then on the file, and nothing else.                  *)
ViewChangesOnlyByWriting ==
  [][\A k \in Keys :
       View(k)' # View(k)
         => \/ \E v \in Values : Replace(k, v)
            \/ Remove(k) \/ Restore \/ Crash
            \/ FallsBack(k)]_vars

(* A Replace that returns KVDB_ERR_OK leaves the value in the file, also   *)
(* when it decides that nothing needs to be written (kvdbservice.cpp:195   *)
(* "not cached: read back the file to compare", 205 "found the contents to *)
(* differ").  Excepted are a write that fails in this very call and the    *)
(* repetition of one that failed before.                                   *)
AcknowledgedIsStored ==
  [][\A k \in Keys, v \in Values \ {<<>>} :
       res' /\ faults' = faults /\ Written(k) /\ Replace(k, v)
         => file'[k] = v]_vars

(* The comparison with the file is right for the values written: so it is  *)
(* when no value is longer than one buffer.                                *)
ComparisonSound ==
  \A v \in Values \ {<<>>}, f \in Contents : SameAsFile(f, v) => f = v
=============================================================================
