----------------------------- MODULE FileCache -----------------------------
(***************************************************************************)
(* The file cache: CachedService and CachedStanzaPool                      *)
(* (filecache/server/cacheservice.cpp, cachestanzapool.cpp), with the      *)
(* requests of CacheClient and the handlers of CacheServer.                *)
(*                                                                         *)
(* A file in the cache is a stanza out of a pool of CacheSize.  A write    *)
(* puts the file into the cache and posts a message to the server's own    *)
(* queue, behind the requests that are there, to save it to the flash.     *)
(* Stanzas are counted references: the deque and the pending message hold  *)
(* one each, and a stanza nobody holds goes back to the pool, its buffer   *)
(* cleared.  Readers hold the buffer and not the stanza.                   *)
(*                                                                         *)
(* The server handles one message at a time.  Opening, saving and removing *)
(* files may fail and the process may die, as it may when it divides by    *)
(* the number of pages of an empty file.  The check of file limits, which  *)
(* nothing starts, is left out.                                            *)
(***************************************************************************)
EXTENDS Naturals, Sequences, SequencesExt, FiniteSets

CONSTANTS
  Paths, NoPath,
  Data,       \* contents of files
  Nothing,    \* the content of an empty file, and of a cleared buffer
  Cut,        \* what a file holds when its save was interrupted
  Absent,     \* no such file
  Readers,    \* threads that may hold the buffer of a file they read
  CacheSize,
  MaxCalls,   \* bound on requests
  MaxQueue,   \* bound on the requests waiting at once
  MaxFaults   \* bound on failing opens, saves and removes, and crashes

ASSUME FileCacheAssumption ==
  /\ NoPath \notin Paths
  /\ {Nothing, Cut, Absent} \intersect Data = {}
  /\ Cardinality({Nothing, Cut, Absent}) = 3
  /\ IsFiniteSet(Readers)
  /\ CacheSize \in Nat \ {0}
  /\ {MaxCalls, MaxQueue, MaxFaults} \subseteq Nat

VARIABLES
  msgq_,   \* the messages of the server's event service
  cache,   \* cached_stanzas_, the pool's stanzas_, each stanza, each buffer
  file,    \* the flash
  held,    \* held[r]: the buffer reader r holds, or 0
  skipped, \* paths of which a write was marked as saved without being saved
  calls,   \* requests made so far
  faults   \* failures so far

vars == <<msgq_, cache, file, held, skipped, calls, faults>>

Stanzas == 1 .. CacheSize
Buffers == 1 .. CacheSize + Cardinality(Readers) + 1
NotReading == 0

(* `flashed` is no member of the code's stanza: whether its file was saved *)
(* to or read from the flash.                                              *)
Stanza(path, buf, saved, flashed) ==
  [path |-> path, buf |-> buf, is_saved_ |-> saved, flashed |-> flashed]

(* the pool after SetDefaultCachedSize *)
EmptyCache ==
  [cached_stanzas_ |-> <<>>,
   stanzas_ |-> [i \in Stanzas |-> i],
   stanza |-> [s \in Stanzas |-> Stanza(NoPath, s, FALSE, FALSE)],
   buffer |-> [b \in Buffers |-> Nothing]]

Init ==
  /\ msgq_ = <<>>
  /\ cache = EmptyCache
  /\ file = [p \in Paths |-> Absent]
  /\ held = [r \in Readers |-> NotReading]
  /\ skipped = {}
  /\ calls = 0
  /\ faults = 0

Fault == faults < MaxFaults /\ faults' = faults + 1

-----------------------------------------------------------------------------
(* Stanzas and their references. *)

Message(op) == msgq_ # <<>> /\ Head(msgq_).op = op
Done == msgq_' = Tail(msgq_)

(* the stanzas that messages hold *)
Saving(q) == {q[i].stanza : i \in {j \in DOMAIN q : q[j].op = "save"}}

DataOf(c, s) == c.buffer[c.stanza[s].buf]

(* RecyleStanza: nobody holds the stanza any more *)
Recycled(c, s) ==
  [c EXCEPT !.stanzas_ = Append(@, s),
            !.stanza[s] = Stanza(NoPath, @.buf, FALSE, FALSE),
            !.buffer[c.stanza[s].buf] = Nothing]

(* a mutant: what the deque drops is recycled though a message holds it *)
ErasedOwned(c, i, used) ==
  Recycled([c EXCEPT !.cached_stanzas_ = RemoveAt(@, i)], c.cached_stanzas_[i])

(* the deque gives up its reference at i *)
Erased(c, i, used) ==
  LET d == [c EXCEPT !.cached_stanzas_ = RemoveAt(@, i)]
      s == c.cached_stanzas_[i]
  IN  IF s \in used THEN d ELSE Recycled(d, s)

(* where the walk along the deque meets the first of these, or nowhere *)
Nowhere == 0
FirstOf(c, stanzas) ==
  LET at == {i \in DOMAIN c.cached_stanzas_ : c.cached_stanzas_[i] \in stanzas}
  IN  IF at = {} THEN Nowhere ELSE Min(at)

(* a mutant: stanzas can go that have yet to be saved *)
RecyclableUnsaved(c, used) == Range(c.cached_stanzas_)

(* IsSaved() and use_count() == 1 *)
Recyclable(c, used) ==
  {s \in Range(c.cached_stanzas_) : c.stanza[s].is_saved_ /\ s \notin used}

(* RemoveOutOfDataStanza, before a stanza is taken for another file *)
Evicted(c, used) ==
  LET i == FirstOf(c, Recyclable(c, used))
  IN  IF Len(c.cached_stanzas_) < CacheSize \/ i = Nowhere THEN c ELSE Erased(c, i, used)

(* where the deque has the path *)
Found(c, p) == FirstOf(c, {s \in Range(c.cached_stanzas_) : c.stanza[s].path = p})

(* a mutant: the stanza that the path had stays in front of the new one *)
ReplacedNot(c, s, used) == [c EXCEPT !.cached_stanzas_ = Append(@, s)]

(* ReplaceCachedFile: the stanza the path has, if any, makes way *)
Replaced(c, s, used) ==
  LET i == Found(c, c.stanza[s].path)
      d == IF i = Nowhere THEN c ELSE Erased(c, i, used)
  IN  [d EXCEPT !.cached_stanzas_ = Append(@, s)]

(* TakeStanza, which fails when the pool is empty *)
Taken(c, stanza) ==
  [c EXCEPT !.stanzas_ = Tail(@), !.stanza[Head(c.stanzas_)] = stanza]

(* CacheData makes a buffer for every request *)
Fresh ==
  CHOOSE b \in Buffers :
    /\ \A s \in Stanzas : cache.stanza[s].buf # b
    /\ \A r \in Readers : held[r] # b

-----------------------------------------------------------------------------
(* Requests: CacheClient posts and goes on. *)

Request(m) ==
  /\ calls < MaxCalls
  /\ Len(msgq_) < MaxQueue
  /\ calls' = calls + 1
  /\ msgq_' = Append(msgq_, m)
  /\ UNCHANGED <<cache, file, held, skipped, faults>>

AsyncWrite(p, d) == Request([op |-> "write", path |-> p, data |-> d])
AsyncRead(p) == Request([op |-> "read", path |-> p])
AsyncDelete(p) == Request([op |-> "delete", path |-> p])

(* a reader is done with the buffer it got *)
Release(r) ==
  /\ held[r] # NotReading
  /\ held' = [held EXCEPT ![r] = NotReading]
  /\ UNCHANGED <<msgq_, cache, file, skipped, calls, faults>>

(* the reader that waits for the answer, unless its call has timed out *)
Hand(c, s) ==
  \/ UNCHANGED held
  \/ \E r \in Readers :
       /\ held[r] = NotReading
       /\ held' = [held EXCEPT ![r] = c.stanza[s].buf]

-----------------------------------------------------------------------------
(* OnWriteEvent: SaveFile. *)

Room == Evicted(cache, Saving(msgq_))

(* no stanza: false, which nobody waits for *)
WriteRefused ==
  /\ Message("write")
  /\ Room.stanzas_ = <<>>
  /\ cache' = Room
  /\ Done
  /\ UNCHANGED <<file, held, skipped, calls, faults>>

Written(m, saved) ==
  LET c == Taken(Room, Stanza(m.path, Fresh, saved, FALSE))
  IN  Replaced([c EXCEPT !.buffer[Fresh] = m.data], Head(Room.stanzas_), Saving(msgq_))

(* AddFile: more than CacheSize - 1 stanzas, so this one will not be saved *)
Full(m) == Len(Written(m, FALSE).cached_stanzas_) > CacheSize - 1

WriteSkipped ==
  /\ Message("write")
  /\ Room.stanzas_ # <<>>
  /\ Full(Head(msgq_))
  /\ cache' = Written(Head(msgq_), TRUE)
  /\ skipped' = skipped \union {Head(msgq_).path}
  /\ Done
  /\ UNCHANGED <<file, held, calls, faults>>

(* a mutant: the stanza is marked as saved when its save is posted *)
WritePostedAsSaved ==
  /\ Message("write")
  /\ Room.stanzas_ # <<>>
  /\ ~Full(Head(msgq_))
  /\ cache' = Written(Head(msgq_), TRUE)
  /\ msgq_' = Append(Tail(msgq_), [op |-> "save", stanza |-> Head(Room.stanzas_)])
  /\ UNCHANGED <<file, held, skipped, calls, faults>>

WritePosted ==
  /\ Message("write")
  /\ Room.stanzas_ # <<>>
  /\ ~Full(Head(msgq_))
  /\ cache' = Written(Head(msgq_), FALSE)
  /\ msgq_' = Append(Tail(msgq_), [op |-> "save", stanza |-> Head(Room.stanzas_)])
  /\ UNCHANGED <<file, held, skipped, calls, faults>>

-----------------------------------------------------------------------------
(* CACHED_ADD: OnAsyncSaveFile, and remove when it returns a failure. *)

(* the message lets go of its stanza *)
Confirmed(s, flashed) ==
  LET c == [cache EXCEPT !.stanza[s].is_saved_ = TRUE, !.stanza[s].flashed = flashed]
  IN  IF Contains(c.cached_stanzas_, s) THEN c ELSE Recycled(c, s)

Save(content, flashed) ==
  LET s == Head(msgq_).stanza
  IN  /\ file' = [file EXCEPT ![cache.stanza[s].path] = content]
      /\ cache' = Confirmed(s, flashed)
      /\ Done
      /\ UNCHANGED <<held, skipped, calls>>

Saved ==
  /\ Message("save")
  /\ LET data == DataOf(cache, Head(msgq_).stanza)
     IN  data # Nothing /\ Save(data, TRUE)
  /\ UNCHANGED faults

(* an empty file counts as a failure *)
SavedEmpty ==
  /\ Message("save")
  /\ DataOf(cache, Head(msgq_).stanza) = Nothing
  /\ Save(Absent, FALSE)
  /\ UNCHANGED faults

(* no open, a short write or, unnoticed, a failing fclose; the remove may  *)
(* fail as well                                                            *)
SaveFailed ==
  /\ Fault
  /\ Message("save")
  /\ \E content \in {Absent, Cut, file[cache.stanza[Head(msgq_).stanza].path]} :
       Save(content, FALSE)

-----------------------------------------------------------------------------
(* OnReadEvent: GetFile. *)

ReadCached ==
  /\ Message("read")
  /\ LET i == Found(cache, Head(msgq_).path)
     IN  i # Nowhere /\ Hand(cache, cache.cached_stanzas_[i])
  /\ Done
  /\ UNCHANGED <<cache, file, skipped, calls, faults>>

Missed == Message("read") /\ Found(cache, Head(msgq_).path) = Nowhere

(* no stanza: nothing is read *)
ReadRefused ==
  /\ Missed
  /\ Room.stanzas_ = <<>>
  /\ cache' = Room
  /\ Done
  /\ UNCHANGED <<file, held, skipped, calls, faults>>

(* The file is not there, or does not open: the stanza goes back to the    *)
(* end of the pool.                                                        *)
ReadFailed ==
  /\ Missed
  /\ Room.stanzas_ # <<>>
  /\ \/ file[Head(msgq_).path] = Absent /\ UNCHANGED faults
     \/ file[Head(msgq_).path] # Absent /\ Fault
  /\ cache' = Recycled([Room EXCEPT !.stanzas_ = Tail(@)], Head(Room.stanzas_))
  /\ Done
  /\ UNCHANGED <<file, held, skipped, calls>>

(* the file is read into the buffer the stanza came with *)
ReadFile ==
  LET p == Head(msgq_).path
      s == Head(Room.stanzas_)
      buf == Room.stanza[s].buf
      c == Taken(Room, Stanza(p, buf, TRUE, TRUE))
      d == Replaced([c EXCEPT !.buffer[buf] = file[p]], s, Saving(msgq_))
  IN  /\ Missed
      /\ Room.stanzas_ # <<>>
      /\ file[p] # Absent
      /\ cache' = d
      /\ Hand(d, s)
      /\ Done
      /\ UNCHANGED <<file, skipped, calls, faults>>

-----------------------------------------------------------------------------
(* a mutant: the cache is not looked at *)
UncachedNot(p) == cache

(* RemoveFile leaves a stanza that is still to be saved in the cache *)
Uncached(p) ==
  LET i == Found(cache, p)
  IN  IF i # Nowhere /\ cache.cached_stanzas_[i] \in Recyclable(cache, Saving(msgq_))
        THEN Erased(cache, i, Saving(msgq_)) ELSE cache

(* OnDeleteEvent; whether remove succeeded is not looked at *)
Delete ==
  /\ Message("delete")
  /\ LET p == Head(msgq_).path
     IN  /\ \/ file' = [file EXCEPT ![p] = Absent] /\ UNCHANGED faults
            \/ Fault /\ UNCHANGED file
         /\ cache' = Uncached(p)
  /\ Done
  /\ UNCHANGED <<held, skipped, calls>>

(* The process, readers included, dies; perhaps in a save. *)
Crash ==
  /\ Fault
  /\ \/ UNCHANGED file
     \/ /\ Message("save")
        /\ file' = [file EXCEPT ![cache.stanza[Head(msgq_).stanza].path] = Cut]
  /\ msgq_' = <<>>
  /\ cache' = EmptyCache
  /\ held' = [r \in Readers |-> NotReading]
  /\ skipped' = {}
  /\ UNCHANGED calls

-----------------------------------------------------------------------------
Serve ==
  \/ WriteRefused \/ WriteSkipped \/ WritePosted
  \/ Saved \/ SavedEmpty \/ SaveFailed
  \/ ReadCached \/ ReadRefused \/ ReadFailed \/ ReadFile
  \/ Delete

Next ==
  \/ \E p \in Paths, d \in Data \union {Nothing} : AsyncWrite(p, d)
  \/ \E p \in Paths : AsyncRead(p) \/ AsyncDelete(p)
  \/ \E r \in Readers : Release(r)
  \/ Serve
  \/ Crash

Spec == Init /\ [][Next]_vars

-----------------------------------------------------------------------------
Contents == Data \union {Nothing, Cut}

Requests ==
  [op: {"write"}, path: Paths, data: Data \union {Nothing}]
    \union [op: {"read", "delete"}, path: Paths]
    \union [op: {"save"}, stanza: Stanzas]

InCache == Range(cache.cached_stanzas_)
InPool == Range(cache.stanzas_)

(* Every variable holds a value the code could hold, and every stanza is   *)
(* either in the pool, once, or in use, and then has a path.               *)
TypeOK ==
  /\ msgq_ \in Seq(Requests)
  /\ cache.cached_stanzas_ \in Seq(Stanzas) /\ cache.stanzas_ \in Seq(Stanzas)
  /\ cache.stanza \in [Stanzas -> [path: Paths \union {NoPath}, buf: Buffers,
                                   is_saved_: BOOLEAN, flashed: BOOLEAN]]
  /\ cache.buffer \in [Buffers -> Contents]
  /\ file \in [Paths -> Contents \union {Absent}]
  /\ held \in [Readers -> Buffers \union {NotReading}]
  /\ skipped \subseteq Paths
  /\ calls \in 0 .. MaxCalls /\ faults \in 0 .. MaxFaults
  /\ IsInjective(cache.cached_stanzas_) /\ IsInjective(cache.stanzas_)
  /\ InPool = Stanzas \ (InCache \union Saving(msgq_))
  /\ \A s \in Stanzas \ InPool : cache.stanza[s].path # NoPath

(* A path has one stanza in the cache: GetFile and RemoveFile stop at the  *)
(* first, and a second would come back as an old version of the file.      *)
OneStanzaPerPath ==
  \A s, t \in InCache : cache.stanza[s].path = cache.stanza[t].path => s = t

(* Every file is saved once, as the assertions in OnAsyncSaveFile and      *)
(* SaveConfimation demand: a stanza waits in one message, not saved yet    *)
(* and not recycled; and one in the cache that waits in none is saved, or  *)
(* it could never be recycled.                                             *)
SavedOnce ==
  /\ \A i, j \in DOMAIN msgq_ :
       msgq_[i].op = "save" /\ msgq_[j].op = "save" =>
         /\ ~cache.stanza[msgq_[i].stanza].is_saved_
         /\ msgq_[i].stanza = msgq_[j].stanza => i = j
  /\ \A s \in InCache \ Saving(msgq_) : cache.stanza[s].is_saved_

(* What the cache got from the flash or saved to it is what the flash      *)
(* holds, whatever was written, deleted, replaced and evicted since and    *)
(* however late saves came.  Not so once a write of the path was skipped:  *)
(* the save of an older version can then come after a newer one was read.  *)
CacheMatchesFlash ==
  \A s \in InCache :
    LET p == cache.stanza[s].path
    IN  p \notin skipped /\ cache.stanza[s].flashed => file[p] = DataOf(cache, s)

(* what the next Read finds *)
View(p) ==
  LET i == Found(cache, p)
  IN  IF i # Nowhere THEN DataOf(cache, cache.cached_stanzas_[i]) ELSE file[p]

Flashed(p) ==
  \A s \in InCache :
    cache.stanza[s].path = p /\ cache.stanza[s].is_saved_ => cache.stanza[s].flashed

(* What a reader finds under a path changes only when a write or delete of *)
(* that path is served, or by a crash: not by reads, by requests for other *)
(* files, which evict it, or by a late save.  Excepted are paths of which  *)
(* a write was skipped and files whose save failed.                        *)
ViewChangesOnlyByRequests ==
  [][\A p \in Paths :
       p \notin skipped /\ Flashed(p) /\ View(p)' # View(p) =>
         \/ (Message("write") \/ Message("delete")) /\ Head(msgq_).path = p /\ Serve
         \/ Message("save") /\ Fault /\ Serve
         \/ Crash]_vars

(* cacheservice.cpp:507-509: a stanza may be released when the file was    *)
(* written to the flash and "no user uses the file now, that is, the       *)
(* reference count of MemBuffer::Ptr equals 1" (in Chinese): what makes    *)
(* way for another file is no file that a reader holds.                    *)
EvictionSparesReaders ==
  Message("write") \/ Missed =>
    \A s \in InCache \ Range(Room.cached_stanzas_), r \in Readers :
      held[r] # cache.stanza[s].buf
=============================================================================
