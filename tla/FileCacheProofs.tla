-------------------------- MODULE FileCacheProofs --------------------------
(***************************************************************************)
(* The invariants of FileCache, for any paths, contents, readers and any   *)
(* size of the cache.                                                      *)
(*                                                                         *)
(* The argument goes by what the operations on the cache do to a cache     *)
(* that is WellFormed with respect to the stanzas that messages hold, and  *)
(* which stanzas they leave as they were.  Why a late save cannot leave an *)
(* old version in front of what is cached is in LastSaveIsCached: of the   *)
(* saves of a path that wait, the last is that of its cached stanza.       *)
(***************************************************************************)
EXTENDS FileCache, SequenceLemmas, FiniteSetTheorems, TLAPS

StanzaType == [path: Paths \union {NoPath}, buf: Buffers, is_saved_: BOOLEAN, flashed: BOOLEAN]

CacheType ==
  [cached_stanzas_: Seq(Stanzas), stanzas_: Seq(Stanzas),
   stanza: [Stanzas -> StanzaType], buffer: [Buffers -> Contents]]

CachedIn(c) == Range(c.cached_stanzas_)
PoolOf(c) == Range(c.stanzas_)

(* every stanza is in the pool, in the deque or held by a message, has a   *)
(* buffer of its own and, in the deque, a path of its own                  *)
WellFormed(c, used) ==
  /\ c \in CacheType
  /\ IsInjective(c.cached_stanzas_) /\ IsInjective(c.stanzas_)
  /\ PoolOf(c) = Stanzas \ (CachedIn(c) \union used)
  /\ \A s, t \in CachedIn(c) : c.stanza[s].path = c.stanza[t].path => s = t
  /\ \A s, t \in Stanzas : c.stanza[s].buf = c.stanza[t].buf => s = t

(* stanzas in use have a path; what waits to be saved is not saved, and    *)
(* what is cached and does not wait is; what matches the flash is saved    *)
Flagged(c, used) ==
  /\ \A s \in CachedIn(c) \union used : c.stanza[s].path \in Paths
  /\ \A s \in used : ~c.stanza[s].is_saved_
  /\ \A s \in CachedIn(c) \ used : c.stanza[s].is_saved_
  /\ \A s \in CachedIn(c) \union used : c.stanza[s].flashed => c.stanza[s].is_saved_

SavesIn(q) == {i \in DOMAIN q : q[i].op = "save"}

SavesDiffer(q) == \A i, j \in SavesIn(q) : q[i].stanza = q[j].stanza => i = j

(* of the saves of a path that wait the last saves its cached stanza *)
LastSaveIsCached(c, q, but) ==
  \A i \in SavesIn(q) :
    c.stanza[q[i].stanza].path \notin but =>
      \E j \in SavesIn(q) :
        /\ i <= j
        /\ q[j].stanza \in CachedIn(c)
        /\ c.stanza[q[j].stanza].path = c.stanza[q[i].stanza].path

(* CacheMatchesFlash, of any cache and any flash *)
Matching(c, f, but) ==
  \A s \in CachedIn(c) :
    c.stanza[s].path \notin but /\ c.stanza[s].flashed =>
      f[c.stanza[s].path] = DataOf(c, s)

VarTypes ==
  /\ msgq_ \in Seq(Requests)
  /\ file \in [Paths -> Contents \union {Absent}]
  /\ held \in [Readers -> Buffers \union {NotReading}]
  /\ skipped \subseteq Paths
  /\ calls \in 0 .. MaxCalls /\ faults \in 0 .. MaxFaults

CacheInv ==
  /\ WellFormed(cache, Saving(msgq_))
  /\ Flagged(cache, Saving(msgq_))
  /\ SavesDiffer(msgq_)
  /\ LastSaveIsCached(cache, msgq_, skipped)
  /\ Matching(cache, file, skipped)

IInv == VarTypes /\ CacheInv

-----------------------------------------------------------------------------
(* The operations on stanzas and buffers, field by field. *)

LEMMA BuffersOfStanzas ==
  ASSUME NEW c \in CacheType
  PROVE  /\ \A s \in Stanzas : c.stanza[s] \in StanzaType /\ c.stanza[s].buf \in Buffers
         /\ \A s \in Stanzas : DataOf(c, s) = c.buffer[c.stanza[s].buf]
BY DEF CacheType, StanzaType, DataOf

LEMMA StanzaTyped ==
  ASSUME NEW path \in Paths \union {NoPath}, NEW buf \in Buffers,
         NEW saved \in BOOLEAN, NEW flashed \in BOOLEAN
  PROVE  /\ Stanza(path, buf, saved, flashed) \in StanzaType
         /\ Stanza(path, buf, saved, flashed).path = path
         /\ Stanza(path, buf, saved, flashed).buf = buf
         /\ Stanza(path, buf, saved, flashed).is_saved_ = saved
         /\ Stanza(path, buf, saved, flashed).flashed = flashed
BY DEF Stanza, StanzaType

LEMMA DequeSet ==
  ASSUME NEW c \in CacheType, NEW q \in Seq(Stanzas)
  PROVE  /\ [c EXCEPT !.cached_stanzas_ = q] \in CacheType
         /\ [c EXCEPT !.cached_stanzas_ = q].cached_stanzas_ = q
         /\ [c EXCEPT !.cached_stanzas_ = q].stanzas_ = c.stanzas_
         /\ [c EXCEPT !.cached_stanzas_ = q].stanza = c.stanza
         /\ [c EXCEPT !.cached_stanzas_ = q].buffer = c.buffer
BY DEF CacheType

LEMMA BufferSet ==
  ASSUME NEW c \in CacheType, NEW b \in Buffers, NEW data \in Contents
  PROVE  /\ [c EXCEPT !.buffer[b] = data] \in CacheType
         /\ [c EXCEPT !.buffer[b] = data].cached_stanzas_ = c.cached_stanzas_
         /\ [c EXCEPT !.buffer[b] = data].stanzas_ = c.stanzas_
         /\ [c EXCEPT !.buffer[b] = data].stanza = c.stanza
         /\ [c EXCEPT !.buffer[b] = data].buffer = [c.buffer EXCEPT ![b] = data]
BY DEF CacheType

LEMMA RecycledIs ==
  ASSUME NEW c \in CacheType, NEW s \in Stanzas
  PROVE  /\ Recycled(c, s) \in CacheType
         /\ Recycled(c, s).cached_stanzas_ = c.cached_stanzas_
         /\ Recycled(c, s).stanzas_ = Append(c.stanzas_, s)
         /\ Recycled(c, s).stanza =
              [c.stanza EXCEPT ![s] = Stanza(NoPath, c.stanza[s].buf, FALSE, FALSE)]
         /\ Recycled(c, s).buffer = [c.buffer EXCEPT ![c.stanza[s].buf] = Nothing]
<1> DEFINE old == c.stanza[s]
           new == Stanza(NoPath, c.stanza[s].buf, FALSE, FALSE)
           pool == Append(c.stanzas_, s)
<1>1. old \in StanzaType /\ old.buf \in Buffers
  BY BuffersOfStanzas
<1>2. new \in StanzaType
  BY <1>1, StanzaTyped
<1>3. pool \in Seq(Stanzas)
  <2>1. c.stanzas_ \in Seq(Stanzas)
    BY DEF CacheType
  <2>2. QED
    BY <2>1, AppendProperties
<1>4. Nothing \in Contents
  BY DEF Contents
<1>5. Recycled(c, s) = [c EXCEPT !.stanzas_ = pool, !.stanza[s] = new, !.buffer[old.buf] = Nothing]
  BY DEF Recycled
<1> HIDE DEF old, new, pool
<1> DEFINE d == Recycled(c, s)
<1>6. /\ d \in CacheType
      /\ d.cached_stanzas_ = c.cached_stanzas_ /\ d.stanzas_ = pool
      /\ d.stanza = [c.stanza EXCEPT ![s] = new]
      /\ d.buffer = [c.buffer EXCEPT ![old.buf] = Nothing]
  <2> HIDE DEF d
  <2>1. d = [c EXCEPT !.stanzas_ = pool, !.stanza[s] = new, !.buffer[old.buf] = Nothing]
    BY <1>5 DEF d
  <2>2. QED
    BY <1>1, <1>2, <1>3, <1>4, <2>1 DEF CacheType
<1>7. QED
  BY <1>6 DEF old, new, pool

LEMMA TakenIs ==
  ASSUME NEW c \in CacheType, c.stanzas_ # <<>>, NEW st \in StanzaType
  PROVE  /\ Head(c.stanzas_) \in Stanzas
         /\ Taken(c, st) \in CacheType
         /\ Taken(c, st).cached_stanzas_ = c.cached_stanzas_
         /\ Taken(c, st).stanzas_ = Tail(c.stanzas_)
         /\ Taken(c, st).stanza = [c.stanza EXCEPT ![Head(c.stanzas_)] = st]
         /\ Taken(c, st).buffer = c.buffer
<1> DEFINE s == Head(c.stanzas_)
           pool == Tail(c.stanzas_)
<1>1. s \in Stanzas /\ pool \in Seq(Stanzas)
  <2>1. c.stanzas_ \in Seq(Stanzas)
    BY DEF CacheType
  <2>2. QED
    BY <2>1, HeadTailProperties
<1>2. Taken(c, st) = [c EXCEPT !.stanzas_ = pool, !.stanza[s] = st]
  BY DEF Taken
<1> HIDE DEF s, pool
<1> DEFINE d == Taken(c, st)
<1>3. /\ d \in CacheType
      /\ d.cached_stanzas_ = c.cached_stanzas_ /\ d.stanzas_ = pool
      /\ d.stanza = [c.stanza EXCEPT ![s] = st]
      /\ d.buffer = c.buffer
  <2> HIDE DEF d
  <2>1. d = [c EXCEPT !.stanzas_ = pool, !.stanza[s] = st]
    BY <1>2 DEF d
  <2>2. QED
    BY <1>1, <2>1 DEF CacheType
<1>4. QED
  BY <1>1, <1>3 DEF s, pool

-----------------------------------------------------------------------------
(* The walks along the deque. *)

LEMMA FirstOfIs ==
  ASSUME NEW c \in CacheType, NEW stanzas
  PROVE  /\ FirstOf(c, stanzas) = Nowhere => CachedIn(c) \intersect stanzas = {}
         /\ FirstOf(c, stanzas) # Nowhere =>
              /\ FirstOf(c, stanzas) \in 1 .. Len(c.cached_stanzas_)
              /\ c.cached_stanzas_[FirstOf(c, stanzas)] \in CachedIn(c) \intersect stanzas
<1> DEFINE q == c.cached_stanzas_
           at == {i \in DOMAIN q : q[i] \in stanzas}
<1>1. q \in Seq(Stanzas) /\ DOMAIN q = 1 .. Len(q) /\ Len(q) \in Nat
  <2>1. q \in Seq(Stanzas)
    BY DEF CacheType
  <2>2. QED
    BY <2>1, LenProperties
<1>2. FirstOf(c, stanzas) = IF at = {} THEN Nowhere ELSE Min(at)
  BY DEF FirstOf
<1>3. CASE at = {}
  <2>1. CachedIn(c) \intersect stanzas = {}
    BY <1>3 DEF CachedIn, Range
  <2>2. QED
    BY <1>2, <1>3, <2>1
<1>4. CASE at # {}
  <2>1. at \in SUBSET Nat
    BY <1>1
  <2>2. Min(at) \in at
    <3> HIDE DEF at
    <3>1. QED
      BY <1>4, <2>1, MinOfNaturals
  <2>3. Min(at) \in 1 .. Len(q) /\ q[Min(at)] \in stanzas /\ q[Min(at)] \in CachedIn(c)
    BY <1>1, <2>2 DEF CachedIn, Range
  <2>4. FirstOf(c, stanzas) # Nowhere
    BY <1>1, <1>2, <1>4, <2>3 DEF Nowhere
  <2>5. QED
    BY <1>2, <1>4, <2>3, <2>4
<1>5. QED
  BY <1>3, <1>4

LEMMA FoundIs ==
  ASSUME NEW c \in CacheType, NEW p
  PROVE  /\ Found(c, p) = Nowhere => \A s \in CachedIn(c) : c.stanza[s].path # p
         /\ Found(c, p) # Nowhere =>
              /\ Found(c, p) \in 1 .. Len(c.cached_stanzas_)
              /\ c.cached_stanzas_[Found(c, p)] \in CachedIn(c)
              /\ c.stanza[c.cached_stanzas_[Found(c, p)]].path = p
<1> DEFINE those == {s \in CachedIn(c) : c.stanza[s].path = p}
<1>1. Found(c, p) = FirstOf(c, those)
  BY DEF Found, CachedIn
<1>2. \A s : s \in those <=> s \in CachedIn(c) /\ c.stanza[s].path = p
  OBVIOUS
<1> HIDE DEF those
<1>3. QED
  BY <1>1, <1>2, FirstOfIs

-----------------------------------------------------------------------------
(* What the operations do to a well-formed cache. *)

(* what d has of these stanzas, and of what is in their buffers, is what c has *)
Untouched(c, d, stanzas) ==
  \A t \in stanzas : d.stanza[t] = c.stanza[t] /\ DataOf(d, t) = DataOf(c, t)

SameBuffers(c, d) == \A t \in Stanzas : d.stanza[t].buf = c.stanza[t].buf

LEMMA WellFormedTypes ==
  ASSUME NEW c, NEW used, WellFormed(c, used)
  PROVE  /\ c \in CacheType
         /\ c.cached_stanzas_ \in Seq(Stanzas) /\ c.stanzas_ \in Seq(Stanzas)
         /\ CachedIn(c) \subseteq Stanzas /\ PoolOf(c) \subseteq Stanzas
<1>1. c.cached_stanzas_ \in Seq(Stanzas) /\ c.stanzas_ \in Seq(Stanzas)
  BY DEF WellFormed, CacheType
<1>2. CachedIn(c) \subseteq Stanzas /\ PoolOf(c) \subseteq Stanzas
  BY <1>1, RangeOfSeq DEF CachedIn, PoolOf
<1>3. QED
  BY <1>1, <1>2 DEF WellFormed

(* a stanza nobody holds any more goes back to the pool *)
LEMMA RecycledWellFormed ==
  ASSUME NEW c, NEW used, NEW s \in Stanzas,
         WellFormed(c, used \union {s}), s \notin CachedIn(c), s \notin used
  PROVE  /\ WellFormed(Recycled(c, s), used)
         /\ CachedIn(Recycled(c, s)) = CachedIn(c)
         /\ Untouched(c, Recycled(c, s), Stanzas \ {s})
         /\ SameBuffers(c, Recycled(c, s))
<1> DEFINE d == Recycled(c, s)
           old == c.stanza[s]
           new == Stanza(NoPath, old.buf, FALSE, FALSE)
<1>1. c \in CacheType /\ c.stanzas_ \in Seq(Stanzas)
  BY WellFormedTypes
<1>2. old \in StanzaType /\ old.buf \in Buffers
  BY <1>1, BuffersOfStanzas
<1>3. new \in StanzaType /\ new.path = NoPath /\ new.buf = old.buf
  BY <1>2 DEF Stanza, StanzaType
<1>4. /\ d \in CacheType /\ d.cached_stanzas_ = c.cached_stanzas_
      /\ d.stanzas_ = Append(c.stanzas_, s)
      /\ d.stanza = [c.stanza EXCEPT ![s] = new]
      /\ d.buffer = [c.buffer EXCEPT ![old.buf] = Nothing]
  BY <1>1, RecycledIs
<1> HIDE DEF d, old, new
<1>5. CachedIn(d) = CachedIn(c)
  BY <1>4 DEF CachedIn
<1>6. /\ IsInjective(d.cached_stanzas_) /\ IsInjective(d.stanzas_)
      /\ PoolOf(d) = Stanzas \ (CachedIn(d) \union used)
  <2>1. s \notin PoolOf(c)
    BY DEF WellFormed
  <2>2. IsInjective(d.stanzas_) /\ PoolOf(d) = PoolOf(c) \union {s}
    <3>1. IsInjective(c.stanzas_)
      BY DEF WellFormed
    <3>2. QED
      BY <1>1, <1>4, <2>1, <3>1, AppendToInjective DEF PoolOf
  <2>3. PoolOf(c) = Stanzas \ (CachedIn(c) \union (used \union {s}))
    BY DEF WellFormed
  <2>4. IsInjective(d.cached_stanzas_)
    BY <1>4 DEF WellFormed
  <2>5. QED
    BY <1>5, <2>2, <2>3, <2>4
<1>7. c.stanza \in [Stanzas -> StanzaType] /\ c.buffer \in [Buffers -> Contents]
  BY <1>1 DEF CacheType
<1>8. d.stanza[s] = new /\ \A t \in Stanzas \ {s} : d.stanza[t] = c.stanza[t]
  BY <1>4, <1>7
<1>9. \A t \in Stanzas : d.stanza[t].buf = c.stanza[t].buf
  BY <1>3, <1>8 DEF old
<1>10. ASSUME NEW t \in Stanzas \ {s} PROVE DataOf(d, t) = DataOf(c, t)
  <2>1. c.stanza[t].buf # old.buf /\ c.stanza[t].buf \in Buffers
    BY <1>1, BuffersOfStanzas DEF WellFormed, old
  <2>2. d.buffer[c.stanza[t].buf] = c.buffer[c.stanza[t].buf]
    BY <1>2, <1>4, <1>7, <2>1
  <2>3. QED
    BY <1>9, <2>2 DEF DataOf
<1>11. WellFormed(d, used)
  <2>1. \A t, u \in CachedIn(d) : d.stanza[t].path = d.stanza[u].path => t = u
    <3>1. \A t \in CachedIn(d) : t \in Stanzas \ {s} /\ t \in CachedIn(c)
      BY <1>5, WellFormedTypes
    <3>2. QED
      BY <1>8, <3>1 DEF WellFormed
  <2>2. \A t, u \in Stanzas : d.stanza[t].buf = d.stanza[u].buf => t = u
    BY <1>9 DEF WellFormed
  <2>3. QED
    BY <1>4, <1>6, <2>1, <2>2 DEF WellFormed
<1>12. QED
  BY <1>5, <1>8, <1>9, <1>10, <1>11 DEF Untouched, SameBuffers, d

(* what the deque drops goes to the pool, unless a message holds it *)
LEMMA ErasedWellFormed ==
  ASSUME NEW c, NEW used \in SUBSET Stanzas, WellFormed(c, used),
         NEW i \in 1 .. Len(c.cached_stanzas_)
  PROVE  LET s == c.cached_stanzas_[i]
             d == Erased(c, i, used)
         IN  /\ s \in CachedIn(c)
             /\ WellFormed(d, used)
             /\ CachedIn(d) = CachedIn(c) \ {s}
             /\ Untouched(c, d, (Stanzas \ {s}) \union used)
             /\ SameBuffers(c, d)
<1> DEFINE q == c.cached_stanzas_
           s == q[i]
           r == RemoveAt(q, i)
           e == [c EXCEPT !.cached_stanzas_ = r]
           d == Erased(c, i, used)
<1>1. c \in CacheType /\ q \in Seq(Stanzas) /\ IsInjective(q) /\ CachedIn(c) \subseteq Stanzas
  BY WellFormedTypes DEF WellFormed
<1>2. s \in CachedIn(c) /\ s \in Stanzas
  BY <1>1, LenProperties DEF CachedIn, Range
<1>3. r \in Seq(Stanzas) /\ IsInjective(r) /\ Range(r) = CachedIn(c) \ {s}
  BY <1>1, RemoveAtOfInjective DEF CachedIn
<1>4. d = IF s \in used THEN e ELSE Recycled(e, s)
  BY DEF Erased
<1> HIDE DEF r, s
<1>5. /\ e \in CacheType /\ e.cached_stanzas_ = r /\ e.stanzas_ = c.stanzas_
      /\ e.stanza = c.stanza /\ e.buffer = c.buffer
  BY <1>1, <1>3, DequeSet
<1> HIDE DEF e, d
<1>6. CachedIn(e) = CachedIn(c) \ {s} /\ PoolOf(e) = PoolOf(c)
  BY <1>3, <1>5 DEF CachedIn, PoolOf
<1>7. WellFormed(e, used \union {s})
  <2>1. IsInjective(e.cached_stanzas_) /\ IsInjective(e.stanzas_)
    BY <1>3, <1>5 DEF WellFormed
  <2>2. PoolOf(e) = Stanzas \ (CachedIn(e) \union (used \union {s}))
    BY <1>2, <1>6 DEF WellFormed
  <2>3. \A t, u \in CachedIn(e) : e.stanza[t].path = e.stanza[u].path => t = u
    BY <1>5, <1>6 DEF WellFormed
  <2>4. \A t, u \in Stanzas : e.stanza[t].buf = e.stanza[u].buf => t = u
    BY <1>5 DEF WellFormed
  <2>5. QED
    BY <1>5, <2>1, <2>2, <2>3, <2>4 DEF WellFormed
<1>8. Untouched(c, e, Stanzas) /\ SameBuffers(c, e)
  BY <1>5 DEF Untouched, SameBuffers, DataOf
<1>9. CASE s \in used
  <2>1. d = e /\ used \union {s} = used
    BY <1>4, <1>9
  <2>2. \A t \in (Stanzas \ {s}) \union used :
          d.stanza[t] = c.stanza[t] /\ DataOf(d, t) = DataOf(c, t)
    BY <1>5, <2>1 DEF DataOf
  <2>3. QED
    BY <1>2, <1>6, <1>7, <1>8, <1>9, <2>1, <2>2 DEF Untouched, d, s
<1>10. CASE s \notin used
  <2>1. d = Recycled(e, s)
    BY <1>4, <1>10
  <2>2. /\ WellFormed(d, used) /\ CachedIn(d) = CachedIn(e)
        /\ Untouched(e, d, Stanzas \ {s}) /\ SameBuffers(e, d)
    <3>1. s \notin CachedIn(e)
      BY <1>6
    <3>2. QED
      BY <1>2, <1>7, <1>10, <2>1, <3>1, RecycledWellFormed
  <2>3. SameBuffers(c, d)
    BY <1>8, <2>2 DEF SameBuffers
  <2>4. Untouched(c, d, Stanzas \ {s})
    BY <1>8, <2>2 DEF Untouched
  <2>5. (Stanzas \ {s}) \union used = Stanzas \ {s}
    BY <1>10
  <2>6. QED
    BY <1>2, <1>6, <2>2, <2>3, <2>4, <2>5 DEF d, s
<1>11. QED
  BY <1>9, <1>10

(* eviction takes at most one stanza, a saved one, and leaves the others *)
LEMMA EvictedWellFormed ==
  ASSUME NEW c, NEW used \in SUBSET Stanzas, WellFormed(c, used), Flagged(c, used)
  PROVE  LET d == Evicted(c, used)
         IN  /\ WellFormed(d, used) /\ Flagged(d, used)
             /\ CachedIn(d) \subseteq CachedIn(c)
             /\ CachedIn(c) \intersect used \subseteq CachedIn(d)
             /\ \A s \in CachedIn(c) \ CachedIn(d) : c.stanza[s].is_saved_
             /\ Untouched(c, d, CachedIn(d) \union used)
             /\ SameBuffers(c, d)
<1> DEFINE those == Recyclable(c, used)
           i == FirstOf(c, those)
           s == c.cached_stanzas_[i]
           d == Evicted(c, used)
<1>1. c \in CacheType /\ CachedIn(c) \subseteq Stanzas
  BY WellFormedTypes
<1>2. \A t : t \in those <=> t \in CachedIn(c) /\ c.stanza[t].is_saved_ /\ t \notin used
  BY DEF Recyclable, CachedIn
<1>3. d = c \/ (i # Nowhere /\ d = Erased(c, i, used))
  BY DEF Evicted
<1> HIDE DEF those
<1>4. i # Nowhere => i \in 1 .. Len(c.cached_stanzas_) /\ s \in CachedIn(c) \intersect those
  BY <1>1, FirstOfIs
<1> HIDE DEF i, d
<1>5. CASE d = c
  BY <1>5 DEF Untouched, SameBuffers, d
<1>6. CASE i # Nowhere /\ d = Erased(c, i, used)
  <2>1. /\ s \in CachedIn(c) /\ WellFormed(d, used)
        /\ CachedIn(d) = CachedIn(c) \ {s}
        /\ Untouched(c, d, (Stanzas \ {s}) \union used)
        /\ SameBuffers(c, d)
    BY <1>4, <1>6, ErasedWellFormed
  <2>2. c.stanza[s].is_saved_ /\ s \notin used
    BY <1>2, <1>4, <1>6
  <2> HIDE DEF s
  <2>3. CachedIn(d) \union used \subseteq (Stanzas \ {s}) \union used
    BY <1>1, <2>1
  <2>4. Untouched(c, d, CachedIn(d) \union used)
    BY <2>1, <2>3 DEF Untouched
  <2>5. \A t \in CachedIn(d) \union used : d.stanza[t] = c.stanza[t]
    BY <2>4 DEF Untouched
  <2>6. Flagged(d, used)
    BY <2>1, <2>5 DEF Flagged
  <2>7. QED
    BY <2>1, <2>2, <2>4, <2>6 DEF d
<1>7. QED
  BY <1>3, <1>5, <1>6

(* a stanza out of the pool is given a file and put into the deque *)
Placed(c, st, b, data, used) ==
  Replaced([Taken(c, st) EXCEPT !.buffer[b] = data], Head(c.stanzas_), used)

(* of what is in use, only s is another *)
UntouchedBut(c, d, s, used) == Untouched(c, d, (CachedIn(d) \ {s}) \union used)

(* no stanza but s has the buffer b *)
OwnBuffer(c, s, b) == \A t \in Stanzas \ {s} : c.stanza[t].buf # b

(* the cached stanzas of other paths *)
Besides(c, p) == {t \in CachedIn(c) : c.stanza[t].path # p}

(* d is c after s is put in, where messages held used and then hold more *)
Placing(c, used, more, st, b, data, s, d) ==
  /\ used \in SUBSET Stanzas /\ more = used \union {s}
  /\ st \in StanzaType /\ b \in Buffers /\ st.buf = b /\ data \in Contents
  /\ WellFormed(c, used) /\ c.stanzas_ # <<>> /\ s = Head(c.stanzas_) /\ OwnBuffer(c, s, b)
  /\ d = Placed(c, st, b, data, used)

LEMMA PlacedWellFormed ==
  ASSUME NEW c, NEW used, NEW more, NEW st, NEW b, NEW data, NEW s, NEW d,
         Placing(c, used, more, st, b, data, s, d)
  PROVE  /\ s \in Stanzas /\ s \notin CachedIn(c) /\ s \notin used
         /\ WellFormed(d, used) /\ WellFormed(d, more)
         /\ CachedIn(d) = Besides(c, st.path) \union {s}
         /\ UntouchedBut(c, d, s, used)
         /\ d.stanza[s] = st /\ DataOf(d, s) = data
<1>0. /\ used \in SUBSET Stanzas /\ more = used \union {s}
      /\ st \in StanzaType /\ b \in Buffers /\ st.buf = b /\ data \in Contents
      /\ WellFormed(c, used) /\ c.stanzas_ # <<>> /\ s = Head(c.stanzas_) /\ OwnBuffer(c, s, b)
      /\ d = Placed(c, st, b, data, used)
  BY DEF Placing
<1> USE <1>0
<1> DEFINE e == Taken(c, st)
           f == [e EXCEPT !.buffer[b] = data]
           i == Found(f, st.path)
           g == IF i = Nowhere THEN f ELSE Erased(f, i, used)
<1>1. /\ c \in CacheType /\ c.stanzas_ \in Seq(Stanzas) /\ IsInjective(c.stanzas_)
      /\ CachedIn(c) \subseteq Stanzas
  BY WellFormedTypes DEF WellFormed
<1>2. /\ s \in Stanzas /\ e \in CacheType /\ e.cached_stanzas_ = c.cached_stanzas_
      /\ e.stanzas_ = Tail(c.stanzas_) /\ e.stanza = [c.stanza EXCEPT ![s] = st]
      /\ e.buffer = c.buffer
  BY <1>1, TakenIs
<1>3. /\ s \in PoolOf(c) /\ IsInjective(e.stanzas_) /\ PoolOf(e) = PoolOf(c) \ {s}
  BY <1>1, <1>2, TailOfInjective DEF PoolOf
<1>4. s \notin CachedIn(c) /\ s \notin used
  BY <1>3 DEF WellFormed
<1>5. d = Replaced(f, s, used)
  BY DEF Placed
<1> HIDE DEF e
<1>6. /\ f \in CacheType /\ f.cached_stanzas_ = c.cached_stanzas_ /\ f.stanzas_ = e.stanzas_
      /\ f.stanza = [c.stanza EXCEPT ![s] = st]
      /\ f.buffer = [c.buffer EXCEPT ![b] = data]
  BY <1>2, BufferSet
<1> HIDE DEF f
<1>7. CachedIn(f) = CachedIn(c) /\ PoolOf(f) = PoolOf(c) \ {s}
  BY <1>3, <1>6 DEF CachedIn, PoolOf
<1>8. f.stanza[s] = st /\ \A t \in Stanzas \ {s} : f.stanza[t] = c.stanza[t]
  BY <1>1, <1>2, <1>6 DEF CacheType
<1>9. Untouched(c, f, Stanzas \ {s})
  <2> SUFFICES ASSUME NEW t \in Stanzas \ {s}
               PROVE  f.stanza[t] = c.stanza[t] /\ DataOf(f, t) = DataOf(c, t)
    BY DEF Untouched
  <2>1. c.stanza[t].buf \in Buffers /\ c.stanza[t].buf # b
    BY <1>1, BuffersOfStanzas DEF OwnBuffer
  <2>2. f.buffer[c.stanza[t].buf] = c.buffer[c.stanza[t].buf]
    BY <1>1, <1>6, <2>1 DEF CacheType
  <2>3. QED
    BY <1>8, <2>2 DEF DataOf
<1>10. DataOf(f, s) = data
  BY <1>1, <1>6, <1>8 DEF DataOf, CacheType
<1>11. WellFormed(f, more)
  <2>1. IsInjective(f.cached_stanzas_) /\ IsInjective(f.stanzas_)
    BY <1>3, <1>6 DEF WellFormed
  <2>2. PoolOf(f) = Stanzas \ (CachedIn(f) \union more)
    BY <1>7 DEF WellFormed
  <2>3. \A t, u \in CachedIn(f) : f.stanza[t].path = f.stanza[u].path => t = u
    <3>1. \A t \in CachedIn(f) : t \in Stanzas \ {s} /\ t \in CachedIn(c)
      BY <1>1, <1>4, <1>7
    <3>2. QED
      BY <1>8, <3>1 DEF WellFormed
  <2>4. \A t, u \in Stanzas : f.stanza[t].buf = f.stanza[u].buf => t = u
    <3>1. \A t \in Stanzas \ {s} : f.stanza[t].buf = c.stanza[t].buf /\ c.stanza[t].buf # b
      BY <1>8 DEF OwnBuffer
    <3>2. f.stanza[s].buf = b
      BY <1>8
    <3>3. \A t, u \in Stanzas \ {s} : c.stanza[t].buf = c.stanza[u].buf => t = u
      BY DEF WellFormed
    <3>4. QED
      BY <3>1, <3>2, <3>3
  <2>5. QED
    BY <1>6, <2>1, <2>2, <2>3, <2>4 DEF WellFormed
<1>12. d = [g EXCEPT !.cached_stanzas_ = Append(g.cached_stanzas_, s)]
  BY <1>5, <1>8 DEF Replaced
<1>13. /\ i = Nowhere => \A t \in CachedIn(f) : f.stanza[t].path # st.path
       /\ i # Nowhere => /\ i \in 1 .. Len(f.cached_stanzas_)
                         /\ f.cached_stanzas_[i] \in CachedIn(f)
                         /\ f.stanza[f.cached_stanzas_[i]].path = st.path
  <2>1. f \in CacheType
    BY <1>6
  <2> HIDE <1>0
  <2> HIDE DEF f
  <2>2. QED
    BY <2>1, FoundIs
<1> HIDE DEF i
<1>14. /\ WellFormed(g, more)
       /\ CachedIn(g) = Besides(c, st.path)
       /\ Untouched(f, g, CachedIn(g) \union more)
  <2>1. \A t \in CachedIn(f) : t \in Stanzas \ {s} /\ f.stanza[t].path = c.stanza[t].path
    BY <1>1, <1>4, <1>7, <1>8
  <2>2. CASE i = Nowhere
    <3>1. g = f /\ \A t \in CachedIn(c) : c.stanza[t].path # st.path
      BY <1>7, <1>13, <2>1, <2>2
    <3>2. Untouched(f, g, CachedIn(g) \union more)
      BY <3>1 DEF Untouched
    <3>3. QED
      BY <1>7, <1>11, <3>1, <3>2 DEF Besides
  <2>3. CASE i # Nowhere
    <3> DEFINE old == f.cached_stanzas_[i]
    <3>1. i \in 1 .. Len(f.cached_stanzas_) /\ old \in CachedIn(f) /\ f.stanza[old].path = st.path
      BY <1>13, <2>3
    <3>2. old # s
      BY <2>1, <3>1
    <3>3. g = Erased(f, i, more)
      BY <2>3, <3>2 DEF Erased
    <3> HIDE DEF g
    <3>4. more \in SUBSET Stanzas
      BY <1>2
    <3>5. /\ WellFormed(g, more) /\ CachedIn(g) = CachedIn(f) \ {old}
          /\ Untouched(f, g, (Stanzas \ {old}) \union more)
      BY <1>11, <3>1, <3>3, <3>4, ErasedWellFormed
    <3> HIDE DEF old
    <3>6. \A t \in CachedIn(f) : f.stanza[t].path = st.path => t = old
      BY <1>11, <3>1 DEF WellFormed
    <3>7. CachedIn(g) = Besides(c, st.path)
      BY <1>7, <2>1, <3>1, <3>5, <3>6 DEF Besides
    <3>8. CachedIn(g) \union more \subseteq (Stanzas \ {old}) \union more
      BY <2>1, <3>5
    <3>9. QED
      BY <3>5, <3>7, <3>8 DEF Untouched
  <2>4. QED
    BY <2>2, <2>3
<1> HIDE DEF g
<1>15. /\ g \in CacheType /\ g.cached_stanzas_ \in Seq(Stanzas) /\ IsInjective(g.cached_stanzas_)
       /\ s \notin Range(g.cached_stanzas_)
  BY <1>4, <1>14, WellFormedTypes DEF WellFormed, CachedIn, Besides
<1> DEFINE q == Append(g.cached_stanzas_, s)
<1>16. q \in Seq(Stanzas) /\ IsInjective(q) /\ Range(q) = CachedIn(g) \union {s}
  BY <1>2, <1>15, AppendToInjective DEF CachedIn
<1> HIDE DEF q
<1>17. /\ d \in CacheType /\ d.cached_stanzas_ = q /\ d.stanzas_ = g.stanzas_
       /\ d.stanza = g.stanza /\ d.buffer = g.buffer
  <2>1. d = [g EXCEPT !.cached_stanzas_ = q]
    BY <1>12 DEF q
  <2>2. QED
    BY <1>15, <1>16, <2>1, DequeSet
<1>18. CachedIn(d) = CachedIn(g) \union {s} /\ PoolOf(d) = PoolOf(g)
  BY <1>16, <1>17 DEF CachedIn, PoolOf
<1>19. Untouched(f, d, CachedIn(d) \union more)
  BY <1>14, <1>17, <1>18 DEF Untouched, DataOf
<1>20. d.stanza[s] = st /\ DataOf(d, s) = data
  BY <1>8, <1>10, <1>19 DEF Untouched
<1>21. Untouched(c, d, (CachedIn(d) \ {s}) \union used)
  <2>1. (CachedIn(d) \ {s}) \union used \subseteq Stanzas \ {s}
    BY <1>1, <1>4, <1>14, <1>18 DEF Besides
  <2>2. (CachedIn(d) \ {s}) \union used \subseteq CachedIn(d) \union more
    OBVIOUS
  <2>3. QED
    BY <1>9, <1>19, <2>1, <2>2 DEF Untouched
<1>22. /\ IsInjective(d.cached_stanzas_) /\ IsInjective(d.stanzas_)
       /\ \A t, u \in Stanzas : d.stanza[t].buf = d.stanza[u].buf => t = u
  BY <1>14, <1>16, <1>17, <1>18 DEF WellFormed
<1>23. \A t, u \in CachedIn(d) : d.stanza[t].path = d.stanza[u].path => t = u
  <2>1. \A t \in CachedIn(g) : d.stanza[t].path # st.path
    <3>1. \A t \in CachedIn(g) : t # s /\ t \in CachedIn(d) /\ c.stanza[t].path # st.path
      BY <1>4, <1>14, <1>18 DEF Besides
    <3>2. QED
      BY <1>21, <3>1 DEF Untouched
  <2>2. \A t, u \in CachedIn(g) : d.stanza[t].path = d.stanza[u].path => t = u
    BY <1>14, <1>17 DEF WellFormed
  <2>3. QED
    BY <1>18, <1>20, <2>1, <2>2
<1>24. /\ PoolOf(d) = Stanzas \ (CachedIn(d) \union used)
       /\ PoolOf(d) = Stanzas \ (CachedIn(d) \union more)
  BY <1>14, <1>18 DEF WellFormed
<1>25. WellFormed(d, used) /\ WellFormed(d, more)
  BY <1>17, <1>22, <1>23, <1>24 DEF WellFormed
<1>26. QED
  BY <1>2, <1>4, <1>14, <1>18, <1>20, <1>21, <1>25 DEF UntouchedBut

(* a stanza that is taken in vain goes to the end of the pool *)
LEMMA ReturnedWellFormed ==
  ASSUME NEW c, NEW used \in SUBSET Stanzas, WellFormed(c, used), c.stanzas_ # <<>>
  PROVE  LET d == Recycled([c EXCEPT !.stanzas_ = Tail(@)], Head(c.stanzas_))
         IN  /\ WellFormed(d, used)
             /\ CachedIn(d) = CachedIn(c)
             /\ Untouched(c, d, CachedIn(c) \union used)
<1> DEFINE s == Head(c.stanzas_)
           q == Tail(c.stanzas_)
           e == [c EXCEPT !.stanzas_ = q]
           d == Recycled(e, s)
<1>1. /\ c \in CacheType /\ c.stanzas_ \in Seq(Stanzas) /\ IsInjective(c.stanzas_)
      /\ CachedIn(c) \subseteq Stanzas
  BY WellFormedTypes DEF WellFormed
<1>2. /\ s \in PoolOf(c) /\ s \in Stanzas /\ q \in Seq(Stanzas) /\ IsInjective(q)
      /\ Range(q) = PoolOf(c) \ {s}
  BY <1>1, TailOfInjective, HeadTailProperties DEF PoolOf
<1> HIDE DEF q, s
<1>3. /\ e \in CacheType /\ e.stanzas_ = q /\ e.cached_stanzas_ = c.cached_stanzas_
      /\ e.stanza = c.stanza /\ e.buffer = c.buffer
  BY <1>1, <1>2 DEF CacheType
<1> HIDE DEF e
<1>4. CachedIn(e) = CachedIn(c) /\ PoolOf(e) = PoolOf(c) \ {s}
  BY <1>2, <1>3 DEF CachedIn, PoolOf
<1>5. s \notin CachedIn(c) /\ s \notin used
  BY <1>2 DEF WellFormed
<1>6. WellFormed(e, used \union {s})
  <2>1. PoolOf(e) = Stanzas \ (CachedIn(e) \union (used \union {s}))
    BY <1>4 DEF WellFormed
  <2>2. IsInjective(e.cached_stanzas_) /\ IsInjective(e.stanzas_)
    BY <1>2, <1>3 DEF WellFormed
  <2>3. QED
    BY <1>3, <1>4, <2>1, <2>2 DEF WellFormed
<1>7. /\ WellFormed(d, used) /\ CachedIn(d) = CachedIn(e)
      /\ Untouched(e, d, Stanzas \ {s})
  BY <1>2, <1>4, <1>5, <1>6, RecycledWellFormed
<1> HIDE DEF d
<1>8. CachedIn(c) \union used \subseteq Stanzas \ {s}
  BY <1>1, <1>5
<1>9. Untouched(c, d, CachedIn(c) \union used)
  BY <1>3, <1>7, <1>8 DEF Untouched, DataOf
<1>10. QED
  BY <1>4, <1>7, <1>9 DEF d, e, s, q

(* a message lets go of the stanza it saved *)
LEMMA ConfirmedWellFormed ==
  ASSUME NEW used \in SUBSET Stanzas, NEW s \in Stanzas, s \notin used,
         NEW flashed \in BOOLEAN,
         WellFormed(cache, used \union {s}), Flagged(cache, used \union {s})
  PROVE  LET d == Confirmed(s, flashed)
         IN  /\ WellFormed(d, used) /\ Flagged(d, used)
             /\ CachedIn(d) = CachedIn(cache)
             /\ Untouched(cache, d, (CachedIn(d) \union used) \ {s})
             /\ s \in CachedIn(d) =>
                  /\ d.stanza[s].path = cache.stanza[s].path
                  /\ d.stanza[s].flashed = flashed
                  /\ DataOf(d, s) = DataOf(cache, s)
<1> DEFINE c == [cache EXCEPT !.stanza[s].is_saved_ = TRUE, !.stanza[s].flashed = flashed]
           old == cache.stanza[s]
           new == [old EXCEPT !.is_saved_ = TRUE, !.flashed = flashed]
           d == Confirmed(s, flashed)
           more == used \union {s}
<1>1. /\ cache \in CacheType /\ cache.cached_stanzas_ \in Seq(Stanzas)
      /\ CachedIn(cache) \subseteq Stanzas
      /\ cache.stanza \in [Stanzas -> StanzaType]
  BY WellFormedTypes DEF CacheType
<1>2. old \in StanzaType
  BY <1>1
<1> HIDE DEF old
<1>3. /\ new \in StanzaType /\ new.path = old.path /\ new.buf = old.buf
      /\ new.is_saved_ /\ new.flashed = flashed
  BY <1>2 DEF StanzaType
<1>4. c = [cache EXCEPT !.stanza[s] = new]
  BY <1>1 DEF old, CacheType, StanzaType
<1> HIDE DEF new, c
<1>5. /\ c \in CacheType /\ c.cached_stanzas_ = cache.cached_stanzas_
      /\ c.stanzas_ = cache.stanzas_ /\ c.buffer = cache.buffer
      /\ c.stanza = [cache.stanza EXCEPT ![s] = new]
  BY <1>1, <1>3, <1>4 DEF CacheType
<1>6. c.stanza[s] = new /\ \A t \in Stanzas \ {s} : c.stanza[t] = cache.stanza[t]
  BY <1>1, <1>5
<1>7. CachedIn(c) = CachedIn(cache) /\ PoolOf(c) = PoolOf(cache)
  BY <1>5 DEF CachedIn, PoolOf
<1>8. \A t \in Stanzas : /\ c.stanza[t].path = cache.stanza[t].path
                         /\ c.stanza[t].buf = cache.stanza[t].buf
                         /\ DataOf(c, t) = DataOf(cache, t)
  BY <1>3, <1>5, <1>6 DEF old, DataOf
<1>9. WellFormed(c, more)
  <2>1. \A t, u \in CachedIn(c) : c.stanza[t].path = c.stanza[u].path => t = u
    BY <1>1, <1>7, <1>8 DEF WellFormed
  <2>2. \A t, u \in Stanzas : c.stanza[t].buf = c.stanza[u].buf => t = u
    BY <1>8 DEF WellFormed
  <2>3. QED
    BY <1>5, <1>7, <2>1, <2>2 DEF WellFormed
<1>10. Untouched(cache, c, Stanzas \ {s})
  BY <1>6, <1>8 DEF Untouched
<1>11. s \in CachedIn(c) <=> Contains(c.cached_stanzas_, s)
  <2>1. DOMAIN c.cached_stanzas_ = 1 .. Len(c.cached_stanzas_)
    BY <1>1, <1>5, LenProperties
  <2>2. QED
    BY <2>1 DEF CachedIn, Range, Contains
<1>12. d = IF s \in CachedIn(c) THEN c ELSE Recycled(c, s)
  BY <1>11 DEF Confirmed, c
<1> HIDE DEF d
<1>13. /\ WellFormed(d, used) /\ CachedIn(d) = CachedIn(c)
       /\ Untouched(c, d, (CachedIn(d) \union used) \ {s})
       /\ s \in CachedIn(d) => d = c
  <2>1. CASE s \in CachedIn(c)
    <3>1. d = c
      BY <1>12, <2>1
    <3>2. PoolOf(c) = Stanzas \ (CachedIn(c) \union used)
      BY <1>9, <2>1 DEF WellFormed
    <3>3. WellFormed(c, used)
      BY <1>9, <3>2 DEF WellFormed
    <3>4. QED
      BY <3>1, <3>3 DEF Untouched
  <2>2. CASE s \notin CachedIn(c)
    <3>1. d = Recycled(c, s)
      BY <1>12, <2>2
    <3>2. /\ WellFormed(d, used) /\ CachedIn(d) = CachedIn(c)
          /\ Untouched(c, d, Stanzas \ {s})
      BY <1>9, <2>2, <3>1, RecycledWellFormed
    <3>3. QED
      BY <1>1, <1>7, <2>2, <3>2 DEF Untouched
  <2>3. QED
    BY <2>1, <2>2
<1>14. Untouched(cache, d, (CachedIn(d) \union used) \ {s})
  BY <1>1, <1>7, <1>10, <1>13 DEF Untouched
<1>15. Flagged(d, used)
  <2>1. \A t \in (CachedIn(d) \union used) \ {s} :
          /\ d.stanza[t] = cache.stanza[t]
          /\ t \in CachedIn(d) \ used => t \in CachedIn(cache) \ more
          /\ t \in CachedIn(cache) \union more
    BY <1>7, <1>13, <1>14 DEF Untouched
  <2>2. s \in CachedIn(d) =>
          /\ d.stanza[s].path \in Paths /\ d.stanza[s].is_saved_
    <3>1. cache.stanza[s].path \in Paths
      BY DEF Flagged
    <3>2. QED
      BY <1>3, <1>6, <1>13, <3>1 DEF old
  <2>3. QED
    BY <2>1, <2>2 DEF Flagged
<1>16. s \in CachedIn(d) =>
         /\ d.stanza[s].path = cache.stanza[s].path
         /\ d.stanza[s].flashed = flashed
         /\ DataOf(d, s) = DataOf(cache, s)
  BY <1>3, <1>6, <1>8, <1>13
<1>17. QED
  BY <1>7, <1>13, <1>14, <1>15, <1>16 DEF d

(* There is a buffer that no stanza and no reader has: there are more      *)
(* buffers than both together.                                             *)
LEMMA FreshIsUnused ==
  ASSUME cache \in CacheType, held \in [Readers -> Buffers \union {NotReading}]
  PROVE  Fresh \in Buffers /\ \A s \in Stanzas : cache.stanza[s].buf # Fresh
<1> DEFINE bufs == [s \in Stanzas |-> cache.stanza[s].buf]
           ofStanzas == {cache.stanza[s].buf : s \in Stanzas}
           ofReaders == {held[r] : r \in Readers}
           n == Cardinality(Readers)
<1>1. CacheSize \in Nat /\ IsFiniteSet(Readers) /\ n \in Nat
  BY FileCacheAssumption, FS_CardinalityType
<1>2. IsFiniteSet(Stanzas) /\ Cardinality(Stanzas) = CacheSize
  <2>1. 1 \in Int /\ CacheSize \in Int /\ ~(1 > CacheSize) /\ CacheSize - 1 + 1 = CacheSize
    BY FileCacheAssumption
  <2>2. QED
    BY <2>1, FS_Interval DEF Stanzas
<1>3. IsFiniteSet(ofStanzas) /\ Cardinality(ofStanzas) <= CacheSize
  <2>1. bufs \in Surjection(Stanzas, ofStanzas)
    BY DEF Surjection
  <2> HIDE DEF bufs, ofStanzas
  <2>2. QED
    BY <1>2, <2>1, FS_Surjection
<1>4. IsFiniteSet(ofReaders) /\ Cardinality(ofReaders) <= n
  <2>1. held \in Surjection(Readers, ofReaders)
    BY DEF Surjection
  <2> HIDE DEF ofReaders
  <2>2. QED
    BY <1>1, <2>1, FS_Surjection
<1>5. IsFiniteSet(Buffers) /\ Cardinality(Buffers) = CacheSize + n + 1
  <2> DEFINE m == CacheSize + n + 1
  <2>1. 1 \in Int /\ m \in Int /\ ~(1 > m) /\ m - 1 + 1 = m
    BY <1>1
  <2>2. Buffers = 1 .. m
    BY DEF Buffers
  <2> HIDE DEF m
  <2>3. IsFiniteSet(Buffers) /\ Cardinality(Buffers) = m
    BY <2>1, <2>2, FS_Interval
  <2>4. QED
    BY <2>3 DEF m
<1> DEFINE taken == ofStanzas \union ofReaders
<1>6. IsFiniteSet(taken) /\ Cardinality(taken) <= CacheSize + n
  <2> HIDE DEF ofStanzas, ofReaders, n
  <2>1. /\ IsFiniteSet(taken)
        /\ Cardinality(taken) =
             Cardinality(ofStanzas) + Cardinality(ofReaders)
               - Cardinality(ofStanzas \cap ofReaders)
    BY <1>3, <1>4, FS_Union
  <2>2. /\ Cardinality(ofStanzas) \in Nat /\ Cardinality(ofReaders) \in Nat
        /\ Cardinality(ofStanzas \cap ofReaders) \in Nat
    BY <1>3, <1>4, FS_Intersection, FS_CardinalityType
  <2> HIDE DEF taken
  <2>3. QED
    BY <1>1, <1>3, <1>4, <2>1, <2>2
<1> HIDE DEF n
<1>7. \E b \in Buffers : b \notin taken
  <2> SUFFICES ASSUME Buffers \subseteq taken
               PROVE  FALSE
    OBVIOUS
  <2> HIDE DEF taken
  <2>1. Cardinality(Buffers) <= Cardinality(taken) /\ Cardinality(taken) \in Nat
    BY <1>6, FS_Subset, FS_CardinalityType
  <2>2. QED
    BY <1>1, <1>5, <1>6, <2>1
<1>8. \E b \in Buffers :
        /\ \A s \in Stanzas : cache.stanza[s].buf # b
        /\ \A r \in Readers : held[r] # b
  BY <1>7
<1>9. QED
  BY <1>8 DEF Fresh

-----------------------------------------------------------------------------
(* The saves that wait. *)

LEMMA SavesOfQueue ==
  ASSUME NEW q \in Seq(Requests)
  PROVE  /\ Saving(q) = {q[i].stanza : i \in SavesIn(q)}
         /\ Saving(q) \in SUBSET Stanzas
         /\ SavesIn(q) \subseteq 1 .. Len(q)
         /\ Len(q) \in Nat
         /\ \A i \in SavesIn(q) : q[i].stanza \in Saving(q)
<1>1. DOMAIN q = 1 .. Len(q) /\ Len(q) \in Nat /\ \A i \in 1 .. Len(q) : q[i] \in Requests
  BY LenProperties, ElementOfSeq
<1>2. \A m \in Requests : m.op = "save" => m.stanza \in Stanzas
  BY DEF Requests
<1>3. Saving(q) = {q[i].stanza : i \in SavesIn(q)}
  BY DEF Saving, SavesIn
<1>4. QED
  BY <1>1, <1>2, <1>3 DEF SavesIn

(* the requests of clients wait for nothing to be saved *)
LEMMA SavesOfTail ==
  ASSUME NEW q \in Seq(Requests), q # <<>>
  PROVE  /\ Tail(q) \in Seq(Requests) /\ Head(q) \in Requests
         /\ Head(q) = q[1] /\ Len(Tail(q)) = Len(q) - 1
         /\ \A i \in SavesIn(Tail(q)) : i + 1 \in SavesIn(q) /\ Tail(q)[i] = q[i + 1]
         /\ \A i \in SavesIn(q) : i = 1 \/ (i - 1 \in SavesIn(Tail(q)) /\ q[i] = Tail(q)[i - 1])
         /\ 1 \in SavesIn(q) <=> Head(q).op = "save"
<1>1. /\ Tail(q) \in Seq(Requests) /\ Len(Tail(q)) = Len(q) - 1 /\ Head(q) \in Requests
      /\ \A i \in 1 .. Len(Tail(q)) : Tail(q)[i] = q[i + 1]
      /\ Len(q) \in Nat \ {0} /\ DOMAIN q = 1 .. Len(q) /\ Head(q) = q[1]
  BY HeadTailProperties, EmptySeq, LenProperties
<1>2. DOMAIN Tail(q) = 1 .. Len(q) - 1
  BY <1>1, LenProperties
<1>3. \A i \in 1 .. Len(q) - 1 : i + 1 \in 1 .. Len(q) /\ Tail(q)[i] = q[i + 1]
  BY <1>1
<1>4. \A i \in 1 .. Len(q) : i = 1 \/ (i - 1 \in 1 .. Len(q) - 1 /\ i - 1 + 1 = i)
  BY <1>1
<1>5. \A i \in SavesIn(Tail(q)) : i + 1 \in SavesIn(q) /\ Tail(q)[i] = q[i + 1]
  BY <1>1, <1>2, <1>3 DEF SavesIn
<1>6. ASSUME NEW i \in SavesIn(q)
      PROVE  i = 1 \/ (i - 1 \in SavesIn(Tail(q)) /\ q[i] = Tail(q)[i - 1])
  <2>1. i \in 1 .. Len(q) /\ q[i].op = "save"
    BY <1>1 DEF SavesIn
  <2>2. CASE i = 1
    BY <2>2
  <2>3. CASE i # 1
    <3>1. i - 1 \in 1 .. Len(q) - 1 /\ i - 1 + 1 = i
      BY <1>4, <2>1, <2>3
    <3>2. Tail(q)[i - 1] = q[i]
      BY <1>3, <3>1
    <3>3. QED
      BY <1>2, <2>1, <3>1, <3>2 DEF SavesIn
  <2>4. QED
    BY <2>2, <2>3
<1>7. 1 \in 1 .. Len(q)
  BY <1>1
<1>8. QED
  BY <1>1, <1>5, <1>6, <1>7 DEF SavesIn

LEMMA SavingOfTail ==
  ASSUME NEW q \in Seq(Requests), q # <<>>, SavesDiffer(q)
  PROVE  /\ SavesDiffer(Tail(q))
         /\ Head(q).op # "save" => Saving(Tail(q)) = Saving(q)
         /\ Head(q).op = "save" =>
              /\ Head(q).stanza \in Saving(q)
              /\ Head(q).stanza \notin Saving(Tail(q))
              /\ Saving(q) = Saving(Tail(q)) \union {Head(q).stanza}
<1> DEFINE r == Tail(q)
<1>1. /\ r \in Seq(Requests) /\ Head(q) = q[1]
      /\ \A i \in SavesIn(r) : i + 1 \in SavesIn(q) /\ r[i] = q[i + 1]
      /\ \A i \in SavesIn(q) : i = 1 \/ (i - 1 \in SavesIn(r) /\ q[i] = r[i - 1])
      /\ 1 \in SavesIn(q) <=> Head(q).op = "save"
  BY SavesOfTail
<1> HIDE DEF r
<1>2. /\ Saving(q) = {q[i].stanza : i \in SavesIn(q)}
      /\ Saving(r) = {r[i].stanza : i \in SavesIn(r)}
      /\ SavesIn(r) \subseteq Nat /\ SavesIn(r) \subseteq 1 .. Len(r) /\ Len(r) \in Nat
  BY <1>1, SavesOfQueue
<1>3. SavesDiffer(r)
  <2> SUFFICES ASSUME NEW i \in SavesIn(r), NEW j \in SavesIn(r), r[i].stanza = r[j].stanza
               PROVE  i = j
    BY DEF SavesDiffer
  <2>1. i + 1 = j + 1
    BY <1>1 DEF SavesDiffer
  <2>2. QED
    BY <1>2, <2>1
<1>4. \A s \in Saving(r) : s \in Saving(q)
  BY <1>1, <1>2
<1>5. \A s \in Saving(q) : s \in Saving(r) \/ (1 \in SavesIn(q) /\ s = Head(q).stanza)
  BY <1>1, <1>2
<1>6. ASSUME 1 \in SavesIn(q)
      PROVE  Head(q).stanza \in Saving(q) /\ Head(q).stanza \notin Saving(r)
  <2>1. Head(q).stanza \in Saving(q)
    BY <1>1, <1>2, <1>6
  <2>2. ASSUME NEW i \in SavesIn(r) PROVE r[i].stanza # Head(q).stanza
    <3>1. i + 1 \in SavesIn(q) /\ r[i] = q[i + 1] /\ i + 1 # 1
      BY <1>1, <1>2
    <3>2. QED
      BY <1>1, <1>6, <3>1 DEF SavesDiffer
  <2>3. QED
    BY <1>2, <2>1, <2>2
<1>7. QED
  BY <1>1, <1>3, <1>4, <1>5, <1>6 DEF r

LEMMA LastSaveOfTail ==
  ASSUME NEW q \in Seq(Requests), q # <<>>, NEW c, NEW but, LastSaveIsCached(c, q, but)
  PROVE  LastSaveIsCached(c, Tail(q), but)
<1> DEFINE r == Tail(q)
<1>1. /\ r \in Seq(Requests)
      /\ \A i \in SavesIn(r) : i + 1 \in SavesIn(q) /\ r[i] = q[i + 1]
      /\ \A i \in SavesIn(q) : i = 1 \/ (i - 1 \in SavesIn(r) /\ q[i] = r[i - 1])
  BY SavesOfTail
<1> HIDE DEF r
<1>2. SavesIn(r) \subseteq Nat /\ SavesIn(q) \subseteq Nat
  BY <1>1, SavesOfQueue
<1> SUFFICES ASSUME NEW i \in SavesIn(r), c.stanza[r[i].stanza].path \notin but
             PROVE  \E j \in SavesIn(r) :
                      /\ i <= j /\ r[j].stanza \in CachedIn(c)
                      /\ c.stanza[r[j].stanza].path = c.stanza[r[i].stanza].path
  BY DEF LastSaveIsCached, r
<1>3. i + 1 \in SavesIn(q) /\ r[i] = q[i + 1]
  BY <1>1
<1>4. PICK k \in SavesIn(q) :
        /\ i + 1 <= k /\ q[k].stanza \in CachedIn(c)
        /\ c.stanza[q[k].stanza].path = c.stanza[q[i + 1].stanza].path
  BY <1>3 DEF LastSaveIsCached
<1>5. k # 1 /\ i <= k - 1
  <2>1. i \in Nat /\ k \in Nat /\ i # 0
    BY <1>1, <1>2, SavesOfQueue
  <2>2. QED
    BY <1>4, <2>1
<1>6. k - 1 \in SavesIn(r) /\ q[k] = r[k - 1]
  BY <1>1, <1>5
<1>7. QED
  BY <1>3, <1>4, <1>5, <1>6

LEMMA SavesOfAppend ==
  ASSUME NEW q \in Seq(Requests), NEW m \in Requests
  PROVE  /\ Append(q, m) \in Seq(Requests)
         /\ Len(q) \in Nat
         /\ SavesIn(q) \subseteq 1 .. Len(q)
         /\ SavesIn(Append(q, m)) =
              SavesIn(q) \union (IF m.op = "save" THEN {Len(q) + 1} ELSE {})
         /\ \A i \in SavesIn(q) : Append(q, m)[i] = q[i]
         /\ Append(q, m)[Len(q) + 1] = m
<1> DEFINE r == Append(q, m)
<1>1. /\ r \in Seq(Requests) /\ Len(r) = Len(q) + 1
      /\ \A i \in 1 .. Len(q) : r[i] = q[i]
      /\ r[Len(q) + 1] = m
      /\ Len(q) \in Nat /\ DOMAIN q = 1 .. Len(q)
  BY AppendProperties, LenProperties
<1> HIDE DEF r
<1>2. DOMAIN r = 1 .. Len(q) + 1
  BY <1>1, LenProperties
<1>3. SavesIn(q) \subseteq 1 .. Len(q)
  BY <1>1 DEF SavesIn
<1>4. \A i : i \in 1 .. Len(q) + 1 <=> i \in 1 .. Len(q) \/ i = Len(q) + 1
  BY <1>1
<1>5. \A i : i \in SavesIn(r) <=> i \in SavesIn(q) \/ (m.op = "save" /\ i = Len(q) + 1)
  <2>1. \A i : i \in SavesIn(r) <=> i \in 1 .. Len(q) + 1 /\ r[i].op = "save"
    BY <1>2 DEF SavesIn
  <2>2. \A i : i \in SavesIn(q) <=> i \in 1 .. Len(q) /\ q[i].op = "save"
    BY <1>1 DEF SavesIn
  <2>3. QED
    BY <1>1, <1>4, <2>1, <2>2
<1>6. QED
  BY <1>1, <1>3, <1>5 DEF r

(* a request of a client *)
LEMMA RequestAppended ==
  ASSUME NEW q \in Seq(Requests), NEW m \in Requests, m.op # "save",
         SavesDiffer(q)
  PROVE  /\ Append(q, m) \in Seq(Requests)
         /\ Saving(Append(q, m)) = Saving(q)
         /\ SavesDiffer(Append(q, m))
         /\ \A c, but : LastSaveIsCached(c, q, but) => LastSaveIsCached(c, Append(q, m), but)
<1> DEFINE r == Append(q, m)
<1>1. /\ r \in Seq(Requests) /\ SavesIn(r) = SavesIn(q)
      /\ \A i \in SavesIn(q) : r[i] = q[i]
  <2>1. /\ r \in Seq(Requests) /\ \A i \in SavesIn(q) : r[i] = q[i]
        /\ SavesIn(r) = SavesIn(q) \union (IF m.op = "save" THEN {Len(q) + 1} ELSE {})
    BY SavesOfAppend
  <2> HIDE DEF r
  <2>2. QED
    BY <2>1
<1> HIDE DEF r
<1>2. Saving(r) = Saving(q)
  <2>1. Saving(q) = {q[i].stanza : i \in SavesIn(q)} /\ Saving(r) = {r[i].stanza : i \in SavesIn(r)}
    BY <1>1, SavesOfQueue
  <2>2. QED
    BY <1>1, <2>1
<1>3. SavesDiffer(r)
  BY <1>1 DEF SavesDiffer
<1>4. ASSUME NEW c, NEW but, LastSaveIsCached(c, q, but)
      PROVE  LastSaveIsCached(c, r, but)
  BY <1>1, <1>4 DEF LastSaveIsCached
<1>5. QED
  BY <1>1, <1>2, <1>3, <1>4 DEF r

(* the save of a stanza that no message holds *)
LEMMA SaveAppended ==
  ASSUME NEW q \in Seq(Requests), NEW s \in Stanzas, SavesDiffer(q), s \notin Saving(q),
         NEW m, m = [op |-> "save", stanza |-> s]
  PROVE  /\ Append(q, m) \in Seq(Requests)
         /\ Saving(Append(q, m)) = Saving(q) \union {s}
         /\ SavesDiffer(Append(q, m))
<1> DEFINE r == Append(q, m)
           n == Len(q) + 1
<1>1. m \in Requests /\ m.op = "save" /\ m.stanza = s
  BY DEF Requests
<1>2. /\ r \in Seq(Requests) /\ SavesIn(r) = SavesIn(q) \union {n}
      /\ \A i \in SavesIn(q) : r[i] = q[i]
      /\ r[n] = m
  BY <1>1, SavesOfAppend
<1> HIDE DEF r, n
<1>3. Saving(q) = {q[i].stanza : i \in SavesIn(q)} /\ Saving(r) = {r[i].stanza : i \in SavesIn(r)}
  BY <1>2, SavesOfQueue
<1>4. Saving(r) = Saving(q) \union {s}
  BY <1>1, <1>2, <1>3
<1>5. \A i \in SavesIn(q) : r[i].stanza # s
  BY <1>2, <1>3
<1>6. SavesDiffer(r)
  BY <1>1, <1>2, <1>5 DEF SavesDiffer
<1>7. QED
  BY <1>2, <1>4, <1>6 DEF r

(* what waits and what is cached, after a step that leaves alone the       *)
(* stanzas that are held                                                   *)
LEMMA LastSaveKept ==
  ASSUME NEW q \in Seq(Requests), NEW c, NEW d, NEW but, LastSaveIsCached(c, q, but),
         Untouched(c, d, Saving(q)), CachedIn(c) \intersect Saving(q) \subseteq CachedIn(d)
  PROVE  LastSaveIsCached(d, q, but)
<1>1. \A i \in SavesIn(q) : q[i].stanza \in Saving(q)
  BY SavesOfQueue
<1>2. \A s \in Saving(q) : d.stanza[s] = c.stanza[s]
  BY DEF Untouched
<1>3. QED
  BY <1>1, <1>2 DEF LastSaveIsCached

LEMMA MatchingKept ==
  ASSUME NEW c, NEW d, NEW f, NEW but, Matching(c, f, but),
         Untouched(c, d, CachedIn(d)), CachedIn(d) \subseteq CachedIn(c)
  PROVE  Matching(d, f, but)
BY DEF Matching, Untouched

-----------------------------------------------------------------------------
(* Steps, by what they do to the cache. *)

Used == Saving(msgq_)

LEMMA RoomIs ==
  ASSUME IInv
  PROVE  /\ WellFormed(Room, Used) /\ Flagged(Room, Used)
         /\ CachedIn(Room) \subseteq InCache
         /\ InCache \intersect Used \subseteq CachedIn(Room)
         /\ \A s \in InCache \ CachedIn(Room) : cache.stanza[s].is_saved_
         /\ Untouched(cache, Room, CachedIn(Room) \union Used)
         /\ SameBuffers(cache, Room)
         /\ Used \in SUBSET Stanzas
<1>1. Used \in SUBSET Stanzas
  BY SavesOfQueue DEF IInv, VarTypes, Used
<1>2. WellFormed(cache, Used) /\ Flagged(cache, Used) /\ CachedIn(cache) = InCache
  BY DEF IInv, CacheInv, Used, CachedIn, InCache
<1>3. Room = Evicted(cache, Used)
  BY DEF Room, Used
<1> HIDE DEF Used
<1>4. QED
  BY <1>1, <1>2, <1>3, EvictedWellFormed

(* A message other than a save is done with. *)
LEMMA ServedStep ==
  ASSUME IInv, msgq_ # <<>>, Head(msgq_).op # "save", Done,
         WellFormed(cache', Used), Flagged(cache', Used),
         LastSaveIsCached(cache', msgq_, skipped'),
         Matching(cache', file', skipped')
  PROVE  CacheInv'
<1> DEFINE more == cache'
           but == skipped'
<1>1. msgq_ \in Seq(Requests) /\ SavesDiffer(msgq_)
  BY DEF IInv, VarTypes, CacheInv
<1>2. msgq_' = Tail(msgq_)
  BY DEF Done
<1>3. SavesDiffer(Tail(msgq_)) /\ Saving(Tail(msgq_)) = Used
  BY <1>1, SavingOfTail DEF Used
<1>4. LastSaveIsCached(more, msgq_, but)
  OBVIOUS
<1> HIDE DEF more, but
<1>5. LastSaveIsCached(more, Tail(msgq_), but)
  BY <1>1, <1>4, LastSaveOfTail
<1>6. QED
  BY <1>2, <1>3, <1>5 DEF CacheInv, more, but

(* It is, and cached files may have gone. *)
LEMMA ShrinkStep ==
  ASSUME IInv, msgq_ # <<>>, Head(msgq_).op # "save", Done, UNCHANGED skipped,
         WellFormed(cache', Used), Flagged(cache', Used),
         InCache \intersect Used \subseteq CachedIn(cache'),
         Untouched(cache, cache', Used),
         Matching(cache', file', skipped)
  PROVE  CacheInv'
<1> DEFINE more == cache'
<1>1. msgq_ \in Seq(Requests) /\ LastSaveIsCached(cache, msgq_, skipped)
  BY DEF IInv, VarTypes, CacheInv
<1>2. CachedIn(cache) \intersect Used \subseteq CachedIn(more) /\ Untouched(cache, more, Used)
  BY DEF InCache, CachedIn
<1> HIDE DEF more
<1>3. LastSaveIsCached(more, msgq_, skipped)
  BY <1>1, <1>2, LastSaveKept DEF Used
<1>4. QED
  BY <1>3, ServedStep DEF more

(* A file is put into the cache: d is what becomes of it. *)
Settling(st, b, data, s, d, more, but) ==
  /\ st \in StanzaType /\ st.path \in Paths /\ (st.flashed => st.is_saved_)
  /\ b \in Buffers /\ st.buf = b /\ data \in Contents
  /\ Room.stanzas_ # <<>> /\ s = Head(Room.stanzas_) /\ OwnBuffer(cache, s, b)
  /\ d = Placed(Room, st, b, data, Used)
  /\ more = Used \union {s} /\ but = skipped \union {st.path}

LEMMA PlaceIs ==
  ASSUME IInv, NEW st, NEW b, NEW data, NEW s, NEW d, NEW more, NEW but,
         Settling(st, b, data, s, d, more, but)
  PROVE  /\ s \in Stanzas /\ s \notin Used
         /\ WellFormed(d, Used) /\ WellFormed(d, more)
         /\ CachedIn(d) \subseteq CachedIn(Room) \union {s} /\ s \in CachedIn(d)
         /\ \A t \in CachedIn(d) \ {s} : cache.stanza[t].path # st.path
         /\ \A t \in CachedIn(Room) \ CachedIn(d) : cache.stanza[t].path = st.path
         /\ s \notin CachedIn(Room)
         /\ UntouchedBut(cache, d, s, Used)
         /\ d.stanza[s] = st /\ DataOf(d, s) = data
         /\ st.is_saved_ => Flagged(d, Used)
         /\ ~st.is_saved_ => Flagged(d, more)
         /\ (st.flashed => file[st.path] = data) => Matching(d, file, skipped)
         /\ LastSaveIsCached(d, msgq_, but)
<1> DEFINE r == Room
<1>0. /\ st \in StanzaType /\ st.path \in Paths /\ (st.flashed => st.is_saved_)
      /\ b \in Buffers /\ st.buf = b /\ data \in Contents
      /\ r.stanzas_ # <<>> /\ s = Head(r.stanzas_) /\ OwnBuffer(cache, s, b)
      /\ d = Placed(r, st, b, data, Used)
      /\ more = Used \union {s} /\ but = skipped \union {st.path}
  BY DEF Settling
<1>1. /\ WellFormed(r, Used) /\ Flagged(r, Used)
      /\ CachedIn(r) \subseteq InCache
      /\ InCache \intersect Used \subseteq CachedIn(r)
      /\ Untouched(cache, r, CachedIn(r) \union Used)
      /\ SameBuffers(cache, r)
      /\ Used \in SUBSET Stanzas
  BY RoomIs
<1>2. OwnBuffer(r, s, b)
  BY <1>0, <1>1 DEF SameBuffers, OwnBuffer
<1>3. /\ s \in Stanzas /\ s \notin CachedIn(r) /\ s \notin Used
      /\ WellFormed(d, Used) /\ WellFormed(d, more)
      /\ CachedIn(d) = Besides(r, st.path) \union {s}
      /\ Untouched(r, d, (CachedIn(d) \ {s}) \union Used)
      /\ d.stanza[s] = st /\ DataOf(d, s) = data
  <2>1. Placing(r, Used, more, st, b, data, s, d)
    BY <1>0, <1>1, <1>2 DEF Placing
  <2> HIDE DEF r, Used
  <2>2. /\ s \in Stanzas /\ s \notin CachedIn(r) /\ s \notin Used
        /\ WellFormed(d, Used) /\ WellFormed(d, more)
        /\ CachedIn(d) = Besides(r, st.path) \union {s}
        /\ UntouchedBut(r, d, s, Used)
        /\ d.stanza[s] = st /\ DataOf(d, s) = data
    BY <2>1, PlacedWellFormed
  <2>3. QED
    BY <2>2 DEF UntouchedBut
<1> HIDE DEF r
<1>4. CachedIn(d) = {t \in CachedIn(r) : cache.stanza[t].path # st.path} \union {s}
  BY <1>1, <1>3 DEF Untouched, Besides
<1>5. /\ (CachedIn(d) \ {s}) \union Used \subseteq CachedIn(r) \union Used
      /\ s \notin (CachedIn(d) \ {s}) \union Used
  BY <1>3 DEF Besides
<1>6. Untouched(cache, d, (CachedIn(d) \ {s}) \union Used)
  BY <1>1, <1>3, <1>5 DEF Untouched
<1>7. \A t \in (CachedIn(d) \ {s}) \union Used :
        /\ d.stanza[t] = r.stanza[t] /\ d.stanza[t] = cache.stanza[t]
        /\ t \in CachedIn(r) \union Used
        /\ DataOf(d, t) = DataOf(cache, t)
  BY <1>3, <1>5, <1>6 DEF Untouched
<1>8. ASSUME st.is_saved_ PROVE Flagged(d, Used)
  BY <1>0, <1>1, <1>3, <1>7, <1>8 DEF Flagged
<1>9. ASSUME ~st.is_saved_ PROVE Flagged(d, more)
  BY <1>0, <1>1, <1>3, <1>7, <1>9 DEF Flagged
<1>10. ASSUME st.flashed => file[st.path] = data PROVE Matching(d, file, skipped)
  <2> SUFFICES ASSUME NEW t \in CachedIn(d), d.stanza[t].path \notin skipped,
                      d.stanza[t].flashed
               PROVE  file[d.stanza[t].path] = DataOf(d, t)
    BY DEF Matching
  <2>1. CASE t = s
    BY <1>3, <1>10, <2>1
  <2>2. CASE t # s
    <3>1. t \in CachedIn(cache) /\ d.stanza[t] = cache.stanza[t] /\ DataOf(d, t) = DataOf(cache, t)
      BY <1>1, <1>4, <1>7, <2>2 DEF InCache, CachedIn
    <3>2. Matching(cache, file, skipped)
      BY DEF IInv, CacheInv
    <3>3. QED
      BY <3>1, <3>2 DEF Matching
  <2>3. QED
    BY <2>1, <2>2
<1>11. LastSaveIsCached(d, msgq_, but)
  <2>1. msgq_ \in Seq(Requests) /\ LastSaveIsCached(cache, msgq_, skipped)
    BY DEF IInv, VarTypes, CacheInv
  <2>2. \A i \in SavesIn(msgq_) : msgq_[i].stanza \in Used
    BY <2>1, SavesOfQueue DEF Used
  <2> SUFFICES ASSUME NEW i \in SavesIn(msgq_),
                      d.stanza[msgq_[i].stanza].path \notin but
               PROVE  \E j \in SavesIn(msgq_) :
                        /\ i <= j /\ msgq_[j].stanza \in CachedIn(d)
                        /\ d.stanza[msgq_[j].stanza].path = d.stanza[msgq_[i].stanza].path
    BY DEF LastSaveIsCached
  <2>3. d.stanza[msgq_[i].stanza] = cache.stanza[msgq_[i].stanza]
    BY <1>7, <2>2
  <2>4. PICK j \in SavesIn(msgq_) :
          /\ i <= j /\ msgq_[j].stanza \in CachedIn(cache)
          /\ cache.stanza[msgq_[j].stanza].path = cache.stanza[msgq_[i].stanza].path
    BY <1>0, <2>1, <2>3 DEF LastSaveIsCached
  <2>5. d.stanza[msgq_[j].stanza] = cache.stanza[msgq_[j].stanza] /\ msgq_[j].stanza \in Used
    BY <1>7, <2>2
  <2>6. msgq_[j].stanza \in CachedIn(r)
    BY <1>1, <2>4, <2>5 DEF InCache, CachedIn
  <2>7. msgq_[j].stanza \in CachedIn(d)
    BY <1>0, <1>4, <2>3, <2>4, <2>6
  <2>8. QED
    BY <2>3, <2>4, <2>5, <2>7
<1>12. \A t \in CachedIn(d) \ {s} : cache.stanza[t].path # st.path
  BY <1>4
<1>13. \A t \in CachedIn(r) \ CachedIn(d) : cache.stanza[t].path = st.path
  BY <1>4
<1>14. CachedIn(d) \subseteq CachedIn(r) \union {s} /\ s \in CachedIn(d)
  BY <1>4
<1>15. UntouchedBut(cache, d, s, Used)
  BY <1>6 DEF UntouchedBut
<1>16. QED
  BY <1>3, <1>8, <1>9, <1>10, <1>11, <1>12, <1>13, <1>14, <1>15 DEF r

(* A save is over: only if what was saved is the file may it count as      *)
(* flashed.                                                                *)
LEMMA SaveStep ==
  ASSUME IInv, Message("save"), NEW content, NEW flashed \in BOOLEAN, Save(content, flashed),
         flashed => content = DataOf(cache, Head(msgq_).stanza)
  PROVE  CacheInv'
<1> DEFINE s == Head(msgq_).stanza
           q == Tail(msgq_)
           used == Saving(Tail(msgq_))
           p == cache.stanza[s].path
           d == Confirmed(s, flashed)
<1>1. /\ msgq_ \in Seq(Requests) /\ SavesDiffer(msgq_)
      /\ LastSaveIsCached(cache, msgq_, skipped) /\ Matching(cache, file, skipped)
      /\ WellFormed(cache, Used) /\ Flagged(cache, Used)
      /\ file \in [Paths -> Contents \union {Absent}]
  BY DEF IInv, VarTypes, CacheInv, Used
<1>2. msgq_ # <<>> /\ Head(msgq_).op = "save"
  BY DEF Message
<1>3. /\ q \in Seq(Requests) /\ SavesDiffer(q) /\ s \notin used
      /\ Used = used \union {s} /\ used \in SUBSET Stanzas /\ s \in Stanzas
      /\ LastSaveIsCached(cache, q, skipped)
  <2>1. q \in Seq(Requests) /\ SavesDiffer(q)
    BY <1>1, <1>2, SavesOfTail, SavingOfTail
  <2>2. s \in Used /\ s \notin used /\ Used = used \union {s}
    BY <1>1, <1>2, SavingOfTail DEF Used
  <2>3. used \in SUBSET Stanzas /\ Used \in SUBSET Stanzas
    BY <1>1, <2>1, SavesOfQueue DEF Used
  <2>4. LastSaveIsCached(cache, q, skipped)
    BY <1>1, <1>2, LastSaveOfTail
  <2>5. QED
    BY <2>1, <2>2, <2>3, <2>4
<1>4. cache' = d /\ msgq_' = q /\ file' = [file EXCEPT ![p] = content] /\ skipped' = skipped
  BY DEF Save, Done
<1>5. 1 \in SavesIn(msgq_) /\ msgq_[1].stanza = s
  BY <1>1, <1>2, SavesOfTail
<1> HIDE DEF q, s
<1>6. /\ WellFormed(d, used) /\ Flagged(d, used) /\ CachedIn(d) = CachedIn(cache)
      /\ Untouched(cache, d, (CachedIn(d) \union used) \ {s})
      /\ s \in CachedIn(d) =>
           /\ d.stanza[s].path = p
           /\ d.stanza[s].flashed = flashed
           /\ DataOf(d, s) = DataOf(cache, s)
  <2> HIDE DEF used
  <2>1. WellFormed(cache, used \union {s}) /\ Flagged(cache, used \union {s})
    BY <1>1, <1>3
  <2>2. QED
    BY <1>3, <2>1, ConfirmedWellFormed
<1> HIDE DEF d
<1>7. LastSaveIsCached(d, q, skipped)
  <2>1. Untouched(cache, d, used)
    BY <1>3, <1>6 DEF Untouched
  <2>2. CachedIn(cache) \intersect used \subseteq CachedIn(d)
    BY <1>6
  <2>3. used = Saving(q)
    BY DEF q
  <2> HIDE DEF used
  <2>4. QED
    BY <1>3, <2>1, <2>2, <2>3, LastSaveKept
<1>8. Matching(d, file', skipped)
  <2> SUFFICES ASSUME NEW t \in CachedIn(d), d.stanza[t].path \notin skipped,
                      d.stanza[t].flashed
               PROVE  file'[d.stanza[t].path] = DataOf(d, t)
    BY DEF Matching
  <2>1. p \in Paths
    BY <1>1, <1>3 DEF Flagged
  <2>2. CASE t = s
    <3>1. d.stanza[t].path = p /\ flashed /\ DataOf(d, t) = DataOf(cache, s)
      BY <1>6, <2>2
    <3>2. content = DataOf(cache, s)
      BY <3>1 DEF s
    <3>3. file'[p] = content
      BY <1>1, <1>4, <2>1
    <3>4. QED
      BY <3>1, <3>2, <3>3
  <2>3. CASE t # s
    <3>1. d.stanza[t] = cache.stanza[t] /\ DataOf(d, t) = DataOf(cache, t) /\ t \in CachedIn(cache)
      BY <1>6, <2>3 DEF Untouched
    <3>2. file[cache.stanza[t].path] = DataOf(cache, t)
      BY <1>1, <3>1 DEF Matching
    <3>3. cache.stanza[t].path # p
      <4> SUFFICES ASSUME cache.stanza[t].path = p
                   PROVE  FALSE
        OBVIOUS
      <4>1. PICK j \in SavesIn(msgq_) :
              /\ msgq_[j].stanza \in CachedIn(cache)
              /\ cache.stanza[msgq_[j].stanza].path = p
        <5>1. cache.stanza[msgq_[1].stanza].path \notin skipped
          BY <1>5, <3>1
        <5>2. QED
          BY <1>1, <1>5, <5>1 DEF LastSaveIsCached
      <4>2. msgq_[j].stanza = t
        BY <1>1, <3>1, <4>1 DEF WellFormed
      <4>3. t \in Used
        BY <1>1, <4>2, SavesOfQueue DEF Used
      <4>4. ~cache.stanza[t].is_saved_ /\ ~cache.stanza[t].flashed
        BY <1>1, <3>1, <4>3 DEF Flagged
      <4>5. QED
        BY <3>1, <4>4
    <3>4. file'[cache.stanza[t].path] = file[cache.stanza[t].path]
      <4>1. cache.stanza[t].path \in Paths
        BY <1>1, <3>1 DEF Flagged
      <4>2. QED
        BY <1>1, <1>4, <3>3, <4>1
    <3>5. QED
      BY <3>1, <3>2, <3>4
  <2>4. QED
    BY <2>2, <2>3
<1>9. QED
  BY <1>3, <1>4, <1>6, <1>7, <1>8 DEF CacheInv, q

-----------------------------------------------------------------------------
(* What a step keeps, whatever message it serves. *)

LEMMA MessageTyped ==
  ASSUME IInv, msgq_ # <<>>
  PROVE  /\ Tail(msgq_) \in Seq(Requests)
         /\ Head(msgq_).op = "write" =>
              Head(msgq_).path \in Paths /\ Head(msgq_).data \in Data \union {Nothing}
         /\ Head(msgq_).op \in {"read", "delete"} => Head(msgq_).path \in Paths
         /\ Head(msgq_).op = "save" => Head(msgq_).stanza \in Stanzas
<1>1. Tail(msgq_) \in Seq(Requests) /\ Head(msgq_) \in Requests
  BY SavesOfTail DEF IInv, VarTypes
<1>2. QED
  BY <1>1 DEF Requests

LEMMA ServedTypes ==
  ASSUME IInv, msgq_ # <<>>, Done, UNCHANGED <<calls, faults>>,
         file' \in [Paths -> Contents \union {Absent}],
         held' \in [Readers -> Buffers \union {NotReading}],
         skipped' \subseteq Paths
  PROVE  VarTypes'
<1>1. msgq_' \in Seq(Requests)
  BY MessageTyped DEF Done
<1>2. QED
  BY <1>1 DEF VarTypes, IInv

LEMMA HandTyped ==
  ASSUME held \in [Readers -> Buffers \union {NotReading}],
         NEW c \in CacheType, NEW s \in Stanzas, Hand(c, s)
  PROVE  held' \in [Readers -> Buffers \union {NotReading}]
<1>1. c.stanza[s].buf \in Buffers
  BY BuffersOfStanzas
<1>2. QED
  BY <1>1 DEF Hand

LEMMA FlaggedKept ==
  ASSUME NEW c, NEW d, NEW used, Flagged(c, used),
         CachedIn(d) \subseteq CachedIn(c), Untouched(c, d, CachedIn(d) \union used)
  PROVE  Flagged(d, used)
<1>1. \A s \in CachedIn(d) \union used :
        d.stanza[s] = c.stanza[s] /\ s \in CachedIn(c) \union used
  BY DEF Untouched
<1>2. QED
  BY <1>1 DEF Flagged

LEMMA FaultTyped ==
  ASSUME VarTypes, Fault
  PROVE  faults' \in 0 .. MaxFaults
BY FileCacheAssumption DEF VarTypes, Fault

-----------------------------------------------------------------------------
(* The steps. *)

LEMMA RequestStep ==
  ASSUME IInv, NEW m \in Requests, m.op # "save", Request(m)
  PROVE  IInv'
<1>1. msgq_ \in Seq(Requests) /\ SavesDiffer(msgq_) /\ LastSaveIsCached(cache, msgq_, skipped)
  BY DEF IInv, VarTypes, CacheInv
<1>2. /\ msgq_' \in Seq(Requests) /\ Saving(msgq_') = Saving(msgq_) /\ SavesDiffer(msgq_')
      /\ LastSaveIsCached(cache, msgq_', skipped)
  BY <1>1, RequestAppended DEF Request
<1>3. calls' \in 0 .. MaxCalls
  BY FileCacheAssumption DEF IInv, VarTypes, Request
<1>4. UNCHANGED <<cache, file, held, skipped, faults>>
  BY DEF Request
<1>5. VarTypes'
  BY <1>2, <1>3, <1>4 DEF IInv, VarTypes
<1>6. CacheInv'
  BY <1>2, <1>4 DEF IInv, CacheInv
<1>7. QED
  BY <1>5, <1>6 DEF IInv

LEMMA ReleaseStep ==
  ASSUME IInv, NEW r \in Readers, Release(r)
  PROVE  IInv'
<1>1. VarTypes'
  BY DEF IInv, VarTypes, Release
<1>2. CacheInv'
  BY DEF IInv, CacheInv, Release
<1>3. QED
  BY <1>1, <1>2 DEF IInv

LEMMA IdleStep ==
  ASSUME IInv, UNCHANGED vars
  PROVE  IInv'
<1>1. VarTypes'
  BY DEF IInv, VarTypes, vars
<1>2. CacheInv'
  BY DEF IInv, CacheInv, vars
<1>3. QED
  BY <1>1, <1>2 DEF IInv

LEMMA RefusedStep ==
  ASSUME IInv, msgq_ # <<>>, Head(msgq_).op # "save", Done, cache' = Room,
         UNCHANGED <<file, held, skipped, calls, faults>>
  PROVE  IInv'
<1>1. VarTypes'
  BY ServedTypes DEF IInv, VarTypes
<1>2. /\ WellFormed(Room, Used) /\ Flagged(Room, Used)
      /\ CachedIn(Room) \subseteq CachedIn(cache)
      /\ InCache \intersect Used \subseteq CachedIn(Room)
      /\ Untouched(cache, Room, CachedIn(Room)) /\ Untouched(cache, Room, Used)
  BY RoomIs DEF Untouched, InCache, CachedIn
<1>3. Matching(Room, file, skipped)
  BY <1>2, MatchingKept DEF IInv, CacheInv
<1>4. CacheInv'
  BY <1>2, <1>3, ShrinkStep
<1>5. QED
  BY <1>1, <1>4 DEF IInv

LEMMA ReadCachedStep ==
  ASSUME IInv, ReadCached
  PROVE  IInv'
<1> DEFINE i == Found(cache, Head(msgq_).path)
           s == cache.cached_stanzas_[i]
<1>1. /\ msgq_ # <<>> /\ Head(msgq_).op # "save" /\ Done /\ i # Nowhere /\ Hand(cache, s)
      /\ UNCHANGED <<cache, file, skipped, calls, faults>>
  BY DEF ReadCached, Message
<1>2. cache \in CacheType /\ WellFormed(cache, Used) /\ Flagged(cache, Used)
  BY WellFormedTypes DEF IInv, CacheInv, Used
<1>3. s \in CachedIn(cache) /\ s \in Stanzas
  BY <1>1, <1>2, FoundIs, WellFormedTypes
<1> HIDE DEF s
<1>4. held' \in [Readers -> Buffers \union {NotReading}]
  BY <1>1, <1>2, <1>3, HandTyped DEF IInv, VarTypes
<1>5. VarTypes'
  BY <1>1, <1>4, ServedTypes DEF IInv, VarTypes
<1>6. LastSaveIsCached(cache, msgq_, skipped) /\ Matching(cache, file, skipped)
  BY DEF IInv, CacheInv
<1>7. CacheInv'
  BY <1>1, <1>2, <1>6, ServedStep
<1>8. QED
  BY <1>5, <1>7 DEF IInv

LEMMA ReadFailedStep ==
  ASSUME IInv, ReadFailed
  PROVE  IInv'
<1> DEFINE r == Room
           d == Recycled([Room EXCEPT !.stanzas_ = Tail(@)], Head(Room.stanzas_))
<1>1. /\ msgq_ # <<>> /\ Head(msgq_).op # "save" /\ Done /\ cache' = d /\ r.stanzas_ # <<>>
      /\ UNCHANGED <<file, held, skipped, calls>>
      /\ UNCHANGED faults \/ Fault
  BY DEF ReadFailed, Missed, Message
<1>2. VarTypes'
  <2>1. faults' \in 0 .. MaxFaults
    BY <1>1, FaultTyped DEF IInv, VarTypes
  <2>2. msgq_' \in Seq(Requests)
    BY <1>1, MessageTyped DEF Done
  <2>3. QED
    BY <1>1, <2>1, <2>2 DEF IInv, VarTypes
<1>3. /\ WellFormed(r, Used) /\ Flagged(r, Used)
      /\ CachedIn(r) \subseteq CachedIn(cache)
      /\ InCache \intersect Used \subseteq CachedIn(r)
      /\ Untouched(cache, r, CachedIn(r) \union Used)
      /\ Used \in SUBSET Stanzas
  BY RoomIs DEF InCache, CachedIn
<1>4. d = Recycled([r EXCEPT !.stanzas_ = Tail(@)], Head(r.stanzas_))
  OBVIOUS
<1> HIDE DEF r, d
<1>5. WellFormed(d, Used) /\ CachedIn(d) = CachedIn(r) /\ Untouched(r, d, CachedIn(r) \union Used)
  <2> HIDE DEF Used
  <2>1. QED
    BY <1>1, <1>3, <1>4, ReturnedWellFormed
<1>6. Untouched(cache, d, CachedIn(d)) /\ Untouched(cache, d, Used)
  BY <1>3, <1>5 DEF Untouched
<1>7. Flagged(d, Used)
  BY <1>3, <1>5, FlaggedKept
<1>8. Matching(d, file, skipped)
  BY <1>3, <1>5, <1>6, MatchingKept DEF IInv, CacheInv
<1>9. CacheInv'
  BY <1>1, <1>3, <1>5, <1>6, <1>7, <1>8, ShrinkStep
<1>10. QED
  BY <1>2, <1>9 DEF IInv

LEMMA LastSaveAppended ==
  ASSUME NEW c, NEW q, NEW but, NEW more, NEW s, NEW m,
         q \in Seq(Requests), LastSaveIsCached(c, q, but),
         s \in Stanzas, m = [op |-> "save", stanza |-> s],
         s \in CachedIn(c), but \subseteq more \union {c.stanza[s].path}
  PROVE  LastSaveIsCached(c, Append(q, m), more)
<1> DEFINE r == Append(q, m)
           n == Len(q) + 1
<1>1. m \in Requests /\ m.op = "save" /\ m.stanza = s
  BY DEF Requests
<1>2. /\ Len(q) \in Nat /\ SavesIn(q) \subseteq 1 .. Len(q)
      /\ SavesIn(r) = SavesIn(q) \union {n}
      /\ \A i \in SavesIn(q) : r[i] = q[i]
      /\ r[n] = m
  BY <1>1, SavesOfAppend
<1> HIDE DEF r
<1>3. \A i \in SavesIn(r) : i <= n
  BY <1>2
<1> HIDE DEF n
<1> SUFFICES ASSUME NEW i \in SavesIn(r), c.stanza[r[i].stanza].path \notin more
             PROVE  \E j \in SavesIn(r) :
                      /\ i <= j /\ r[j].stanza \in CachedIn(c)
                      /\ c.stanza[r[j].stanza].path = c.stanza[r[i].stanza].path
  BY DEF LastSaveIsCached, r
<1>4. CASE c.stanza[r[i].stanza].path = c.stanza[s].path
  BY <1>1, <1>2, <1>3, <1>4
<1>5. CASE c.stanza[r[i].stanza].path # c.stanza[s].path
  <2>1. i \in SavesIn(q) /\ r[i] = q[i]
    BY <1>1, <1>2, <1>5
  <2>2. c.stanza[q[i].stanza].path \notin but
    BY <1>5, <2>1
  <2>3. PICK j \in SavesIn(q) :
          /\ i <= j /\ q[j].stanza \in CachedIn(c)
          /\ c.stanza[q[j].stanza].path = c.stanza[q[i].stanza].path
    BY <2>1, <2>2 DEF LastSaveIsCached
  <2>4. QED
    BY <1>2, <2>1, <2>3
<1>6. QED
  BY <1>4, <1>5

(* what a write puts into the cache *)
LEMMA WrittenIs ==
  ASSUME IInv, Message("write"), Room.stanzas_ # <<>>, NEW saved \in BOOLEAN,
         NEW st, NEW s, NEW d, NEW more, NEW but,
         st = Stanza(Head(msgq_).path, Fresh, saved, FALSE), s = Head(Room.stanzas_),
         d = Written(Head(msgq_), saved), more = Used \union {s},
         but = skipped \union {Head(msgq_).path}
  PROVE  /\ Settling(st, Fresh, Head(msgq_).data, s, d, more, but)
         /\ st.path = Head(msgq_).path /\ st.is_saved_ = saved /\ ~st.flashed
<1> DEFINE m == Head(msgq_)
           b == Fresh
<1>1. m.path \in Paths /\ m.data \in Contents
  BY MessageTyped DEF Message, Contents
<1>2. b \in Buffers /\ \A t \in Stanzas : cache.stanza[t].buf # b
  BY FreshIsUnused, WellFormedTypes DEF IInv, VarTypes, CacheInv
<1>3. d = Placed(Room, st, b, m.data, Used)
  BY DEF Written, Placed, Used
<1> DEFINE z == [path |-> m.path, buf |-> b, is_saved_ |-> saved, flashed |-> FALSE]
<1>4. st = z
  BY DEF Stanza
<1>5. /\ st \in StanzaType /\ st.path = m.path /\ st.buf = b
      /\ st.is_saved_ = saved /\ st.flashed = FALSE
  <2> HIDE DEF m, b
  <2>1. /\ z \in StanzaType /\ z.path = m.path /\ z.buf = b
        /\ z.is_saved_ = saved /\ z.flashed = FALSE
    BY <1>1, <1>2 DEF StanzaType
  <2> HIDE DEF z
  <2>2. QED
    BY <1>4, <2>1
<1> HIDE DEF m, b
<1>6. OwnBuffer(cache, s, b)
  BY <1>2 DEF OwnBuffer
<1>7. but = skipped \union {st.path}
  BY <1>5 DEF m
<1>8. Settling(st, b, m.data, s, d, more, but)
  BY <1>1, <1>2, <1>3, <1>5, <1>6, <1>7 DEF Settling
<1>9. QED
  BY <1>5, <1>8 DEF m, b

LEMMA WriteSkippedStep ==
  ASSUME IInv, WriteSkipped
  PROVE  IInv'
<1> DEFINE p == Head(msgq_).path
           st == Stanza(p, Fresh, TRUE, FALSE)
           s == Head(Room.stanzas_)
           d == Written(Head(msgq_), TRUE)
           more == Used \union {s}
           but == skipped \union {p}
<1>1. /\ msgq_ # <<>> /\ Head(msgq_).op # "save" /\ Done /\ Message("write")
      /\ Room.stanzas_ # <<>> /\ cache' = d /\ skipped' = but
      /\ UNCHANGED <<file, held, calls, faults>>
  BY DEF WriteSkipped, Message
<1>2. Settling(st, Fresh, Head(msgq_).data, s, d, more, but) /\ st.is_saved_ /\ ~st.flashed
  BY <1>1, WrittenIs
<1>3. p \in Paths
  BY <1>1, MessageTyped DEF Message
<1> HIDE DEF st, s, d, more, but, Used
<1>4. /\ WellFormed(d, Used) /\ Flagged(d, Used)
      /\ Matching(d, file, skipped) /\ LastSaveIsCached(d, msgq_, but)
  BY <1>2, PlaceIs
<1>5. Matching(d, file, but)
  BY <1>4 DEF Matching, but
<1>6. CacheInv'
  BY <1>1, <1>4, <1>5, ServedStep
<1>7. VarTypes'
  BY <1>1, <1>3, ServedTypes DEF IInv, VarTypes, but
<1>8. QED
  BY <1>6, <1>7 DEF IInv

LEMMA WritePostedStep ==
  ASSUME IInv, WritePosted
  PROVE  IInv'
<1> DEFINE p == Head(msgq_).path
           st == Stanza(p, Fresh, FALSE, FALSE)
           s == Head(Room.stanzas_)
           d == Written(Head(msgq_), FALSE)
           more == Used \union {s}
           but == skipped \union {p}
           q == Tail(msgq_)
           m == [op |-> "save", stanza |-> s]
<1>1. /\ msgq_ # <<>> /\ Head(msgq_).op # "save" /\ Message("write")
      /\ Room.stanzas_ # <<>> /\ cache' = d /\ msgq_' = Append(q, m)
      /\ UNCHANGED <<file, held, skipped, calls, faults>>
  BY DEF WritePosted, Message
<1>2. /\ Settling(st, Fresh, Head(msgq_).data, s, d, more, but)
      /\ ~st.is_saved_ /\ ~st.flashed /\ st.path = p
  BY <1>1, WrittenIs
<1>3. q \in Seq(Requests) /\ SavesDiffer(q) /\ Saving(q) = Used
  BY <1>1, MessageTyped, SavingOfTail DEF IInv, VarTypes, CacheInv, Used
<1>4. m = [op |-> "save", stanza |-> s] /\ more = Used \union {s} /\ but = skipped \union {p}
  OBVIOUS
<1> HIDE DEF p, st, s, d, more, but, Used, q, m
<1>5. /\ s \in Stanzas /\ s \notin Used /\ s \in CachedIn(d)
      /\ WellFormed(d, more) /\ Flagged(d, more) /\ d.stanza[s] = st
      /\ Matching(d, file, skipped) /\ LastSaveIsCached(d, msgq_, but)
  BY <1>2, PlaceIs
<1>6. Append(q, m) \in Seq(Requests) /\ Saving(Append(q, m)) = more /\ SavesDiffer(Append(q, m))
  BY <1>3, <1>4, <1>5, SaveAppended
<1>7. LastSaveIsCached(d, q, but)
  BY <1>1, <1>5, LastSaveOfTail DEF IInv, VarTypes, q
<1>8. LastSaveIsCached(d, Append(q, m), skipped)
  <2>1. but \subseteq skipped \union {d.stanza[s].path}
    BY <1>2, <1>4, <1>5
  <2>2. QED
    BY <1>3, <1>4, <1>5, <1>7, <2>1, LastSaveAppended
<1>9. CacheInv'
  BY <1>1, <1>5, <1>6, <1>8 DEF CacheInv
<1>10. VarTypes'
  BY <1>1, <1>6 DEF IInv, VarTypes
<1>11. QED
  BY <1>9, <1>10 DEF IInv

(* what a read of a file that is not cached puts into the cache *)
LEMMA ReadIs ==
  ASSUME IInv, Missed, Room.stanzas_ # <<>>, file[Head(msgq_).path] # Absent,
         NEW p, NEW buf, NEW st, NEW s, NEW d, NEW more, NEW but,
         p = Head(msgq_).path, s = Head(Room.stanzas_), buf = Room.stanza[s].buf,
         st = Stanza(p, buf, TRUE, TRUE), more = Used \union {s}, but = skipped \union {p},
         d = Placed(Room, st, buf, file[p], Used)
  PROVE  /\ Settling(st, buf, file[p], s, d, more, but)
         /\ p \in Paths /\ st.path = p /\ st.is_saved_ /\ st.flashed
<1>1. /\ WellFormed(Room, Used) /\ SameBuffers(cache, Room) /\ WellFormed(cache, Used)
      /\ file \in [Paths -> Contents \union {Absent}]
  BY RoomIs DEF IInv, CacheInv, VarTypes, Used
<1>2. p \in Paths /\ file[p] \in Contents
  BY <1>1, MessageTyped DEF Missed, Message
<1>3. s \in Stanzas /\ Room \in CacheType /\ cache \in CacheType
  <2>1. Room \in CacheType /\ Room.stanzas_ \in Seq(Stanzas) /\ cache \in CacheType
    BY <1>1, WellFormedTypes
  <2>2. QED
    BY <2>1
<1>4. buf \in Buffers /\ buf = cache.stanza[s].buf
  BY <1>1, <1>3, BuffersOfStanzas DEF SameBuffers
<1>5. OwnBuffer(cache, s, buf)
  BY <1>1, <1>3, <1>4 DEF WellFormed, OwnBuffer
<1> DEFINE z == [path |-> p, buf |-> buf, is_saved_ |-> TRUE, flashed |-> TRUE]
<1>6. st = z
  BY DEF Stanza
<1>7. z \in StanzaType /\ z.path = p /\ z.buf = buf /\ z.is_saved_ = TRUE /\ z.flashed = TRUE
  BY <1>2, <1>4 DEF StanzaType
<1> HIDE DEF z
<1>8. /\ st \in StanzaType /\ st.path = p /\ st.buf = buf
      /\ st.is_saved_ = TRUE /\ st.flashed = TRUE
  BY <1>6, <1>7
<1>9. Settling(st, buf, file[p], s, d, more, but)
  BY <1>2, <1>4, <1>5, <1>8 DEF Settling
<1>10. QED
  BY <1>2, <1>8, <1>9

LEMMA ReadFileStep ==
  ASSUME IInv, ReadFile
  PROVE  IInv'
<1> DEFINE p == Head(msgq_).path
           s == Head(Room.stanzas_)
           buf == Room.stanza[s].buf
           st == Stanza(p, buf, TRUE, TRUE)
           d == Placed(Room, st, buf, file[p], Used)
           more == Used \union {s}
           but == skipped \union {p}
<1>1. /\ msgq_ # <<>> /\ Head(msgq_).op # "save" /\ Done /\ Missed
      /\ Room.stanzas_ # <<>> /\ file[p] # Absent /\ cache' = d /\ Hand(d, s)
      /\ UNCHANGED <<file, skipped, calls, faults>>
  BY DEF ReadFile, Missed, Message, Placed, Used
<1>2. /\ Settling(st, buf, file[p], s, d, more, but)
      /\ p \in Paths /\ st.path = p /\ st.is_saved_ /\ st.flashed
  BY <1>1, ReadIs
<1>3. but = skipped \union {p}
  OBVIOUS
<1>4. Found(cache, p) = Nowhere
  BY <1>1 DEF Missed
<1> HIDE DEF p, buf, st, s, d, more, but, Used
<1>5. /\ s \in Stanzas /\ s \notin Used /\ WellFormed(d, Used) /\ Flagged(d, Used)
      /\ UntouchedBut(cache, d, s, Used)
      /\ Matching(d, file, skipped) /\ LastSaveIsCached(d, msgq_, but)
  BY <1>2, PlaceIs
<1>6. LastSaveIsCached(d, msgq_, skipped)
  <2>1. msgq_ \in Seq(Requests) /\ LastSaveIsCached(cache, msgq_, skipped)
    BY DEF IInv, VarTypes, CacheInv
  <2>2. cache \in CacheType
    BY WellFormedTypes DEF IInv, CacheInv
  <2>3. \A t \in CachedIn(cache) : cache.stanza[t].path # p
    BY <1>4, <2>2, FoundIs
  <2>4. \A i \in SavesIn(msgq_) : d.stanza[msgq_[i].stanza] = cache.stanza[msgq_[i].stanza]
    BY <1>5, <2>1, SavesOfQueue DEF Used, UntouchedBut, Untouched
  <2>5. \A i \in SavesIn(msgq_) :
          d.stanza[msgq_[i].stanza].path \notin skipped => d.stanza[msgq_[i].stanza].path # p
    BY <2>1, <2>3, <2>4 DEF LastSaveIsCached
  <2>6. \A i \in SavesIn(msgq_) :
          d.stanza[msgq_[i].stanza].path \notin skipped =>
            d.stanza[msgq_[i].stanza].path \notin but
    BY <1>3, <2>5
  <2>7. QED
    BY <1>5, <2>6 DEF LastSaveIsCached
<1>7. CacheInv'
  BY <1>1, <1>5, <1>6, ServedStep
<1>8. d \in CacheType
  BY <1>5, WellFormedTypes
<1>9. held' \in [Readers -> Buffers \union {NotReading}]
  BY <1>1, <1>5, <1>8, HandTyped DEF IInv, VarTypes
<1>10. VarTypes'
  BY <1>1, <1>9, ServedTypes DEF IInv, VarTypes
<1>11. QED
  BY <1>7, <1>10 DEF IInv

-----------------------------------------------------------------------------
(* What a delete leaves under the path is still to be saved. *)

LEMMA UncachedIs ==
  ASSUME IInv, NEW p, NEW d, d = Uncached(p)
  PROVE  /\ WellFormed(d, Used) /\ CachedIn(d) \subseteq CachedIn(cache)
         /\ CachedIn(cache) \intersect Used \subseteq CachedIn(d)
         /\ Untouched(cache, d, CachedIn(d)) /\ Untouched(cache, d, Used)
         /\ \A t \in CachedIn(cache) \ CachedIn(d) :
              cache.stanza[t].path = p /\ cache.stanza[t].is_saved_
         /\ \A t \in CachedIn(d) : d.stanza[t].path = p => ~d.stanza[t].is_saved_
<1> DEFINE i == Found(cache, p)
           s == cache.cached_stanzas_[i]
<1>1. WellFormed(cache, Used) /\ Flagged(cache, Used) /\ cache \in CacheType
  BY WellFormedTypes DEF IInv, CacheInv, Used
<1>2. Used \in SUBSET Stanzas /\ CachedIn(cache) \subseteq Stanzas
  BY <1>1, SavesOfQueue, WellFormedTypes DEF IInv, VarTypes, Used
<1>3. /\ i = Nowhere => \A t \in CachedIn(cache) : cache.stanza[t].path # p
      /\ i # Nowhere => /\ i \in 1 .. Len(cache.cached_stanzas_)
                        /\ s \in CachedIn(cache) /\ cache.stanza[s].path = p
  BY <1>1, FoundIs
<1>4. /\ d = IF i # Nowhere /\ s \in Recyclable(cache, Used) THEN Erased(cache, i, Used) ELSE cache
      /\ Recyclable(cache, Used) =
           {t \in CachedIn(cache) : cache.stanza[t].is_saved_ /\ t \notin Used}
  BY DEF Uncached, Recyclable, CachedIn, Used
<1> HIDE DEF i, Used
<1>5. CASE i # Nowhere /\ s \in Recyclable(cache, Used)
  <2>1. i \in 1 .. Len(cache.cached_stanzas_) /\ d = Erased(cache, i, Used)
    BY <1>3, <1>4, <1>5
  <2>2. /\ WellFormed(d, Used) /\ CachedIn(d) = CachedIn(cache) \ {s}
        /\ Untouched(cache, d, (Stanzas \ {s}) \union Used)
    <3> DEFINE e == Erased(cache, i, Used)
    <3>1. Used \in SUBSET Stanzas /\ WellFormed(cache, Used) /\ i \in 1 .. Len(cache.cached_stanzas_)
      BY <1>1, <1>2, <2>1
    <3>2. /\ WellFormed(e, Used) /\ CachedIn(e) = CachedIn(cache) \ {s}
          /\ Untouched(cache, e, (Stanzas \ {s}) \union Used)
      BY <3>1, ErasedWellFormed
    <3>3. d = e
      BY <2>1
    <3> HIDE DEF e, s
    <3>4. QED
      BY <3>2, <3>3
  <2>3. /\ s \in CachedIn(cache) /\ cache.stanza[s].path = p
        /\ cache.stanza[s].is_saved_ /\ s \notin Used
    BY <1>3, <1>4, <1>5
  <2> HIDE DEF s
  <2>4. Untouched(cache, d, CachedIn(d)) /\ Untouched(cache, d, Used)
    BY <1>2, <2>2 DEF Untouched
  <2>5. \A t \in CachedIn(d) : d.stanza[t].path # p
    BY <1>1, <2>2, <2>3, <2>4 DEF WellFormed, Untouched
  <2>6. QED
    BY <2>2, <2>3, <2>4, <2>5
<1>6. CASE ~(i # Nowhere /\ s \in Recyclable(cache, Used))
  <2>1. d = cache
    BY <1>4, <1>6
  <2>2. \A t \in CachedIn(cache) : cache.stanza[t].path = p => ~cache.stanza[t].is_saved_
    <3> SUFFICES ASSUME NEW t \in CachedIn(cache), cache.stanza[t].path = p
                 PROVE  ~cache.stanza[t].is_saved_
      OBVIOUS
    <3>1. i # Nowhere /\ s \in CachedIn(cache) /\ cache.stanza[s].path = p
      BY <1>3
    <3>2. s = t
      BY <1>1, <3>1 DEF WellFormed
    <3>3. ~cache.stanza[s].is_saved_ \/ s \in Used
      BY <1>4, <1>6, <3>1
    <3>4. QED
      BY <1>1, <3>2, <3>3 DEF Flagged
  <2>3. QED
    BY <1>1, <2>1, <2>2 DEF Untouched
<1>7. QED
  BY <1>5, <1>6

LEMMA DeleteStep ==
  ASSUME IInv, Delete
  PROVE  IInv'
<1> DEFINE p == Head(msgq_).path
           d == Uncached(p)
<1>1. /\ msgq_ # <<>> /\ Head(msgq_).op # "save" /\ Done /\ cache' = d
      /\ UNCHANGED <<held, skipped, calls>>
  BY DEF Delete, Message
<1>2. /\ file' \in {file, [file EXCEPT ![p] = Absent]}
      /\ UNCHANGED faults \/ Fault
  BY DEF Delete
<1>3. /\ p \in Paths /\ file \in [Paths -> Contents \union {Absent}]
      /\ Tail(msgq_) \in Seq(Requests) /\ VarTypes
  BY MessageTyped DEF Delete, Message, IInv, VarTypes
<1> HIDE DEF p, d
<1>4. /\ file' \in [Paths -> Contents \union {Absent}]
      /\ \A q \in Paths : q # p => file'[q] = file[q]
  BY <1>2, <1>3
<1>5. faults' \in 0 .. MaxFaults
  BY <1>2, <1>3, FaultTyped DEF VarTypes
<1>6. VarTypes'
  BY <1>1, <1>3, <1>4, <1>5 DEF VarTypes, Done
<1>7. d = Uncached(p)
  BY DEF d
<1>8. /\ WellFormed(d, Used) /\ CachedIn(d) \subseteq CachedIn(cache)
      /\ CachedIn(cache) \intersect Used \subseteq CachedIn(d)
      /\ Untouched(cache, d, CachedIn(d)) /\ Untouched(cache, d, Used)
      /\ \A t \in CachedIn(d) : d.stanza[t].path = p => ~d.stanza[t].is_saved_
  BY <1>7, UncachedIs
<1>9. Flagged(cache, Used) /\ Matching(cache, file, skipped)
  BY DEF IInv, CacheInv, Used
<1>10. Flagged(d, Used)
  <2>1. Untouched(cache, d, CachedIn(d) \union Used)
    BY <1>8 DEF Untouched
  <2>2. QED
    BY <1>8, <1>9, <2>1, FlaggedKept
<1>11. Matching(d, file', skipped)
  <2> SUFFICES ASSUME NEW t \in CachedIn(d), d.stanza[t].path \notin skipped,
                      d.stanza[t].flashed
               PROVE  file'[d.stanza[t].path] = DataOf(d, t)
    BY DEF Matching
  <2>1. d.stanza[t].path # p /\ d.stanza[t].path \in Paths
    BY <1>8, <1>10 DEF Flagged
  <2>2. file[d.stanza[t].path] = DataOf(d, t)
    <3>1. Matching(d, file, skipped)
      BY <1>8, <1>9, MatchingKept
    <3>2. QED
      BY <3>1 DEF Matching
  <2>3. QED
    BY <1>4, <2>1, <2>2
<1>12. CacheInv'
  BY <1>1, <1>8, <1>10, <1>11, ShrinkStep DEF InCache, CachedIn
<1>13. QED
  BY <1>6, <1>12 DEF IInv

-----------------------------------------------------------------------------
(* Saves, whether they succeed or not. *)

LEMMA SaveTypes ==
  ASSUME IInv, Message("save"), NEW content \in Contents \union {Absent}, NEW flashed,
         Save(content, flashed), faults' \in 0 .. MaxFaults
  PROVE  VarTypes'
<1>1. msgq_' = Tail(msgq_) /\ UNCHANGED <<held, skipped, calls>>
  BY DEF Save, Done
<1>2. Tail(msgq_) \in Seq(Requests)
  BY MessageTyped DEF Message
<1>3. file' \in [Paths -> Contents \union {Absent}]
  BY DEF Save, IInv, VarTypes
<1>4. QED
  BY <1>1, <1>2, <1>3 DEF IInv, VarTypes

LEMMA SavedStanza ==
  ASSUME IInv, Message("save")
  PROVE  /\ Head(msgq_).stanza \in Stanzas
         /\ DataOf(cache, Head(msgq_).stanza) \in Contents
         /\ cache.stanza[Head(msgq_).stanza].path \in Paths
<1>1. Head(msgq_).stanza \in Stanzas /\ msgq_ \in Seq(Requests) /\ msgq_ # <<>>
  BY MessageTyped DEF Message, IInv, VarTypes
<1>2. cache \in CacheType
  BY WellFormedTypes DEF IInv, CacheInv
<1>3. DataOf(cache, Head(msgq_).stanza) \in Contents
  BY <1>1, <1>2, BuffersOfStanzas DEF CacheType
<1>4. Head(msgq_).stanza \in Saving(msgq_)
  BY <1>1, SavingOfTail DEF Message, IInv, CacheInv
<1>5. cache.stanza[Head(msgq_).stanza].path \in Paths
  BY <1>4 DEF IInv, CacheInv, Flagged
<1>6. QED
  BY <1>1, <1>3, <1>5

LEMMA SavedStep ==
  ASSUME IInv, Saved
  PROVE  IInv'
<1> DEFINE data == DataOf(cache, Head(msgq_).stanza)
<1>1. Message("save") /\ Save(data, TRUE) /\ UNCHANGED faults
  BY DEF Saved
<1>2. data \in Contents \union {Absent}
  BY <1>1, SavedStanza
<1>3. faults' \in 0 .. MaxFaults
  BY <1>1 DEF IInv, VarTypes
<1>4. VarTypes'
  BY <1>1, <1>2, <1>3, SaveTypes
<1>5. CacheInv'
  BY <1>1, SaveStep
<1>6. QED
  BY <1>4, <1>5 DEF IInv

LEMMA SavedEmptyStep ==
  ASSUME IInv, SavedEmpty
  PROVE  IInv'
<1>1. Message("save") /\ Save(Absent, FALSE) /\ UNCHANGED faults
  BY DEF SavedEmpty
<1>2. faults' \in 0 .. MaxFaults
  BY <1>1 DEF IInv, VarTypes
<1>3. VarTypes'
  BY <1>1, <1>2, SaveTypes
<1>4. CacheInv'
  BY <1>1, SaveStep
<1>5. QED
  BY <1>3, <1>4 DEF IInv

LEMMA SaveFailedStep ==
  ASSUME IInv, SaveFailed
  PROVE  IInv'
<1>1. Message("save") /\ Fault
  BY DEF SaveFailed
<1>2. PICK content \in {Absent, Cut, file[cache.stanza[Head(msgq_).stanza].path]} :
        Save(content, FALSE)
  BY DEF SaveFailed
<1>3. content \in Contents \union {Absent}
  BY <1>1, SavedStanza DEF IInv, VarTypes, Contents
<1>4. faults' \in 0 .. MaxFaults
  BY <1>1, FaultTyped DEF IInv
<1>5. VarTypes'
  BY <1>1, <1>2, <1>3, <1>4, SaveTypes
<1>6. CacheInv'
  BY <1>1, <1>2, SaveStep
<1>7. QED
  BY <1>5, <1>6 DEF IInv

-----------------------------------------------------------------------------
(* The start, and a start after a crash. *)

LEMMA EmptyIsWellFormed ==
  /\ WellFormed(EmptyCache, {}) /\ Flagged(EmptyCache, {})
  /\ CachedIn(EmptyCache) = {}
<1> DEFINE e == EmptyCache
<1>1. CacheSize \in Nat \ {0} /\ Cardinality(Readers) \in Nat
  BY FileCacheAssumption, FS_CardinalityType
<1>2. Stanzas \subseteq Buffers
  BY <1>1 DEF Stanzas, Buffers
<1>3. \A s \in Stanzas : Stanza(NoPath, s, FALSE, FALSE) \in StanzaType
  BY <1>2 DEF Stanza, StanzaType
<1>4. /\ e.cached_stanzas_ = <<>> /\ e.stanzas_ = [i \in Stanzas |-> i]
      /\ e.stanza = [s \in Stanzas |-> Stanza(NoPath, s, FALSE, FALSE)]
      /\ e.buffer = [b \in Buffers |-> Nothing]
  BY DEF EmptyCache
<1>5. [i \in Stanzas |-> i] \in Seq(Stanzas) /\ Range([i \in Stanzas |-> i]) = Stanzas
  BY <1>1 DEF Stanzas, Range
<1>6. e \in CacheType
  <2> DEFINE pool == [i \in Stanzas |-> i]
             stanza == [s \in Stanzas |-> Stanza(NoPath, s, FALSE, FALSE)]
             buffer == [b \in Buffers |-> Nothing]
  <2>1. stanza \in [Stanzas -> StanzaType]
    BY <1>3
  <2>2. buffer \in [Buffers -> Contents]
    BY DEF Contents
  <2>3. e = [cached_stanzas_ |-> <<>>, stanzas_ |-> pool, stanza |-> stanza, buffer |-> buffer]
    BY DEF EmptyCache
  <2>4. pool \in Seq(Stanzas) /\ <<>> \in Seq(Stanzas)
    BY <1>5
  <2> HIDE DEF e, pool, stanza, buffer
  <2>5. QED
    BY <2>1, <2>2, <2>3, <2>4 DEF CacheType
<1>7. CachedIn(e) = {} /\ PoolOf(e) = Stanzas
  BY <1>4, <1>5 DEF CachedIn, PoolOf, Range
<1>8. IsInjective(e.cached_stanzas_) /\ IsInjective(e.stanzas_)
  BY <1>4 DEF IsInjective
<1>9. \A s \in Stanzas : e.stanza[s].buf = s
  BY <1>4 DEF Stanza
<1>10. QED
  BY <1>6, <1>7, <1>8, <1>9 DEF WellFormed, Flagged

LEMMA StartIsInv ==
  ASSUME NEW q, NEW c, NEW f, NEW but, q = <<>>, c = EmptyCache
  PROVE  /\ WellFormed(c, Saving(q)) /\ Flagged(c, Saving(q))
         /\ SavesDiffer(q) /\ LastSaveIsCached(c, q, but) /\ Matching(c, f, but)
<1>1. SavesIn(q) = {} /\ Saving(q) = {}
  BY DEF SavesIn, Saving
<1>2. QED
  BY <1>1, EmptyIsWellFormed DEF SavesDiffer, LastSaveIsCached, Matching

LEMMA InitIInv == Init => IInv
<1> SUFFICES ASSUME Init
             PROVE  IInv
  OBVIOUS
<1>1. VarTypes
  BY FileCacheAssumption DEF Init, VarTypes
<1>2. CacheInv
  BY StartIsInv DEF Init, CacheInv
<1>3. QED
  BY <1>1, <1>2 DEF IInv

LEMMA CrashStep ==
  ASSUME IInv, Crash
  PROVE  IInv'
<1>1. /\ Fault /\ msgq_' = <<>> /\ cache' = EmptyCache
      /\ held' = [r \in Readers |-> NotReading] /\ skipped' = {} /\ UNCHANGED calls
  BY DEF Crash
<1>2. file' \in [Paths -> Contents \union {Absent}]
  <2>1. Cut \in Contents \union {Absent}
    BY DEF Contents
  <2>2. QED
    BY <2>1, SavedStanza DEF Crash, IInv, VarTypes
<1>3. faults' \in 0 .. MaxFaults
  BY <1>1, FaultTyped DEF IInv
<1>4. VarTypes'
  BY <1>1, <1>2, <1>3 DEF IInv, VarTypes
<1>5. CacheInv'
  BY <1>1, StartIsInv DEF CacheInv
<1>6. QED
  BY <1>4, <1>5 DEF IInv

LEMMA NextIInv == IInv /\ [Next]_vars => IInv'
<1> SUFFICES ASSUME IInv, [Next]_vars
             PROVE  IInv'
  OBVIOUS
<1>1. ASSUME NEW p \in Paths, NEW d \in Data \union {Nothing}, AsyncWrite(p, d)
      PROVE  IInv'
  <2> DEFINE m == [op |-> "write", path |-> p, data |-> d]
  <2>1. m \in Requests /\ m.op # "save" /\ Request(m)
    BY <1>1 DEF AsyncWrite, Requests
  <2>2. QED
    BY <2>1, RequestStep
<1>2. ASSUME NEW p \in Paths, AsyncRead(p)
      PROVE  IInv'
  <2> DEFINE m == [op |-> "read", path |-> p]
  <2>1. m \in Requests /\ m.op # "save" /\ Request(m)
    BY <1>2 DEF AsyncRead, Requests
  <2>2. QED
    BY <2>1, RequestStep
<1>3. ASSUME NEW p \in Paths, AsyncDelete(p)
      PROVE  IInv'
  <2> DEFINE m == [op |-> "delete", path |-> p]
  <2>1. m \in Requests /\ m.op # "save" /\ Request(m)
    BY <1>3 DEF AsyncDelete, Requests
  <2>2. QED
    BY <2>1, RequestStep
<1>4. ASSUME NEW r \in Readers, Release(r)
      PROVE  IInv'
  BY <1>4, ReleaseStep
<1>5. CASE WriteRefused
  BY <1>5, RefusedStep DEF WriteRefused, Message
<1>6. CASE WriteSkipped
  BY <1>6, WriteSkippedStep
<1>7. CASE WritePosted
  BY <1>7, WritePostedStep
<1>8. CASE Saved
  BY <1>8, SavedStep
<1>9. CASE SavedEmpty
  BY <1>9, SavedEmptyStep
<1>10. CASE SaveFailed
  BY <1>10, SaveFailedStep
<1>11. CASE ReadCached
  BY <1>11, ReadCachedStep
<1>12. CASE ReadRefused
  BY <1>12, RefusedStep DEF ReadRefused, Missed, Message
<1>13. CASE ReadFailed
  BY <1>13, ReadFailedStep
<1>14. CASE ReadFile
  BY <1>14, ReadFileStep
<1>15. CASE Delete
  BY <1>15, DeleteStep
<1>16. CASE Crash
  BY <1>16, CrashStep
<1>17. CASE UNCHANGED vars
  BY <1>17, IdleStep
<1>18. QED
  BY <1>1, <1>2, <1>3, <1>4, <1>5, <1>6, <1>7, <1>8, <1>9, <1>10, <1>11, <1>12,
     <1>13, <1>14, <1>15, <1>16, <1>17 DEF Next, Serve

LEMMA InvariantHolds == Spec => []IInv
<1>1. Init => IInv
  BY InitIInv
<1>2. IInv /\ [Next]_vars => IInv'
  BY NextIInv
<1>3. QED
  BY <1>1, <1>2, PTL DEF Spec

-----------------------------------------------------------------------------
(* The values the variables hold, and every stanza in the pool or in use. *)
THEOREM TypesHold == Spec => []TypeOK
<1>1. IInv => TypeOK
  <2> SUFFICES ASSUME IInv
               PROVE  TypeOK
    OBVIOUS
  <2>1. /\ cache \in CacheType
        /\ IsInjective(cache.cached_stanzas_) /\ IsInjective(cache.stanzas_)
        /\ InPool = Stanzas \ (InCache \union Saving(msgq_))
    BY DEF IInv, CacheInv, WellFormed, CachedIn, PoolOf, InCache, InPool
  <2>2. /\ cache.cached_stanzas_ \in Seq(Stanzas) /\ cache.stanzas_ \in Seq(Stanzas)
        /\ cache.stanza \in [Stanzas -> [path: Paths \union {NoPath}, buf: Buffers,
                                         is_saved_: BOOLEAN, flashed: BOOLEAN]]
        /\ cache.buffer \in [Buffers -> Contents]
    BY <2>1 DEF CacheType, StanzaType
  <2>3. \A s \in Stanzas \ InPool : cache.stanza[s].path # NoPath
    BY <2>1, FileCacheAssumption DEF IInv, CacheInv, Flagged, CachedIn, InCache
  <2>4. VarTypes
    BY DEF IInv
  <2>5. QED
    BY <2>1, <2>2, <2>3, <2>4 DEF TypeOK, VarTypes
<1>2. QED
  BY <1>1, InvariantHolds, PTL

(* A path has one stanza in the cache, however writes, reads, evictions    *)
(* and deletes of it and of other files follow one another.                *)
THEOREM OneStanza == Spec => []OneStanzaPerPath
<1>1. IInv => OneStanzaPerPath
  BY DEF IInv, CacheInv, WellFormed, OneStanzaPerPath, CachedIn, InCache
<1>2. QED
  BY <1>1, InvariantHolds, PTL

(* A stanza waits in one message at most, is not saved while it waits, and *)
(* is saved when it is cached and waits in none: what OnAsyncSaveFile and  *)
(* SaveConfimation assert.                                                 *)
THEOREM SavesHappenOnce == Spec => []SavedOnce
<1>1. IInv => SavedOnce
  <2> SUFFICES ASSUME IInv
               PROVE  SavedOnce
    OBVIOUS
  <2>1. msgq_ \in Seq(Requests) /\ SavesDiffer(msgq_) /\ Flagged(cache, Saving(msgq_))
    BY DEF IInv, VarTypes, CacheInv
  <2>2. \A i \in SavesIn(msgq_) : ~cache.stanza[msgq_[i].stanza].is_saved_
    BY <2>1, SavesOfQueue DEF Flagged
  <2>3. \A s \in InCache \ Saving(msgq_) : cache.stanza[s].is_saved_
    BY <2>1 DEF Flagged, InCache, CachedIn
  <2>4. QED
    BY <2>1, <2>2, <2>3 DEF SavedOnce, SavesDiffer, SavesIn
<1>2. QED
  BY <1>1, InvariantHolds, PTL

(* What the cache got from the flash or saved to it is what the flash      *)
(* holds, unless a write of the path was skipped.                          *)
THEOREM CacheAgrees == Spec => []CacheMatchesFlash
<1>1. IInv => CacheMatchesFlash
  BY DEF IInv, CacheInv, Matching, CacheMatchesFlash, CachedIn, InCache
<1>2. QED
  BY <1>1, InvariantHolds, PTL

-----------------------------------------------------------------------------
(* What the next Read finds. *)

ViewOf(c, f, p) ==
  LET i == Found(c, p)
  IN  IF i # Nowhere THEN DataOf(c, c.cached_stanzas_[i]) ELSE f[p]

(* t is cached before and after *)
KeptIn(c, d, t) ==
  /\ t \in CachedIn(c) /\ t \in CachedIn(d)
  /\ d.stanza[t].path = c.stanza[t].path /\ DataOf(d, t) = DataOf(c, t)

LEMMA ViewOfIs ==
  ASSUME NEW c, NEW used, NEW f, NEW p, WellFormed(c, used)
  PROVE  /\ \A t \in CachedIn(c) : c.stanza[t].path = p => ViewOf(c, f, p) = DataOf(c, t)
         /\ (\A t \in CachedIn(c) : c.stanza[t].path # p) => ViewOf(c, f, p) = f[p]
<1> DEFINE i == Found(c, p)
           s == c.cached_stanzas_[i]
<1>1. /\ i = Nowhere => \A t \in CachedIn(c) : c.stanza[t].path # p
      /\ i # Nowhere => s \in CachedIn(c) /\ c.stanza[s].path = p
  BY FoundIs, WellFormedTypes
<1>2. ViewOf(c, f, p) = IF i # Nowhere THEN DataOf(c, s) ELSE f[p]
  BY DEF ViewOf
<1> HIDE DEF i, s
<1>3. \A t \in CachedIn(c) : c.stanza[t].path = p => i # Nowhere /\ s = t
  BY <1>1 DEF WellFormed
<1>4. QED
  BY <1>1, <1>2, <1>3

KeptUnder(c, d, t, p) == KeptIn(c, d, t) /\ c.stanza[t].path = p

LEMMA ViewOfKept ==
  ASSUME NEW c, NEW d, NEW used, NEW more, NEW f, NEW g, NEW p, NEW t,
         WellFormed(c, used), WellFormed(d, more), KeptUnder(c, d, t, p)
  PROVE  ViewOf(d, g, p) = ViewOf(c, f, p)
<1>1. ViewOf(c, f, p) = DataOf(c, t)
  BY ViewOfIs DEF KeptIn, KeptUnder
<1>2. ViewOf(d, g, p) = DataOf(d, t)
  BY ViewOfIs DEF KeptIn, KeptUnder
<1>3. QED
  BY <1>1, <1>2 DEF KeptIn, KeptUnder

(* what comes and goes under the path is what the flash has *)
SameUnder(c, d, f, p) ==
  /\ \A t \in CachedIn(c) : c.stanza[t].path = p => KeptIn(c, d, t) \/ DataOf(c, t) = f[p]
  /\ \A t \in CachedIn(d) : d.stanza[t].path = p => KeptIn(c, d, t) \/ DataOf(d, t) = f[p]

LEMMA ViewSame ==
  ASSUME NEW c, NEW d, NEW used, NEW more, NEW f, NEW g, NEW p,
         WellFormed(c, used), WellFormed(d, more), SameUnder(c, d, f, p), g[p] = f[p]
  PROVE  ViewOf(d, g, p) = ViewOf(c, f, p)
<1>1. CASE \E t \in CachedIn(c) : c.stanza[t].path = p /\ KeptIn(c, d, t)
  BY <1>1, ViewOfKept DEF KeptUnder
<1>2. CASE \A t \in CachedIn(c) : ~(c.stanza[t].path = p /\ KeptIn(c, d, t))
  <2>1. ViewOf(c, f, p) = f[p]
    <3>1. CASE \E t \in CachedIn(c) : c.stanza[t].path = p
      BY <1>2, <3>1, ViewOfIs DEF SameUnder
    <3>2. CASE \A t \in CachedIn(c) : c.stanza[t].path # p
      BY <3>2, ViewOfIs
    <3>3. QED
      BY <3>1, <3>2
  <2>2. ViewOf(d, g, p) = g[p]
    <3>1. \A t \in CachedIn(d) : d.stanza[t].path = p => DataOf(d, t) = f[p]
      BY <1>2 DEF SameUnder, KeptIn
    <3>2. CASE \E t \in CachedIn(d) : d.stanza[t].path = p
      BY <3>1, <3>2, ViewOfIs
    <3>3. CASE \A t \in CachedIn(d) : d.stanza[t].path # p
      BY <3>3, ViewOfIs
    <3>4. QED
      BY <3>2, <3>3
  <2>3. QED
    BY <2>1, <2>2
<1>3. QED
  BY <1>1, <1>2

(* the paths the property is about *)
Settled(p) == p \in Paths /\ p \notin skipped /\ Flashed(p)

LEMMA SavedIsOnFlash ==
  ASSUME IInv, NEW p, Settled(p), NEW t \in CachedIn(cache),
         cache.stanza[t].path = p, cache.stanza[t].is_saved_
  PROVE  DataOf(cache, t) = file[p]
BY DEF Settled, Flashed, IInv, CacheInv, Matching, CachedIn, InCache

LEMMA ShrinkView ==
  ASSUME IInv, NEW p, Settled(p), NEW d, NEW g, WellFormed(d, Used), g[p] = file[p],
         CachedIn(d) \subseteq CachedIn(cache), Untouched(cache, d, CachedIn(d)),
         \A t \in CachedIn(cache) \ CachedIn(d) :
           cache.stanza[t].path = p => cache.stanza[t].is_saved_
  PROVE  ViewOf(d, g, p) = ViewOf(cache, file, p)
<1>1. \A t \in CachedIn(d) : KeptIn(cache, d, t)
  BY DEF KeptIn, Untouched
<1>2. \A t \in CachedIn(cache) \ CachedIn(d) :
        cache.stanza[t].path = p => DataOf(cache, t) = file[p]
  BY SavedIsOnFlash
<1>3. SameUnder(cache, d, file, p)
  BY <1>1, <1>2 DEF SameUnder
<1>4. QED
  BY <1>3, ViewSame DEF IInv, CacheInv

LEMMA PlaceView ==
  ASSUME IInv, NEW st, NEW b, NEW data, NEW s, NEW d, NEW more, NEW but,
         Settling(st, b, data, s, d, more, but), NEW p, Settled(p),
         st.path # p \/ (data = file[p] /\ \A t \in CachedIn(cache) : cache.stanza[t].path # p)
  PROVE  ViewOf(d, file, p) = ViewOf(cache, file, p)
<1>1. /\ WellFormed(d, Used) /\ CachedIn(d) \subseteq CachedIn(Room) \union {s}
      /\ \A t \in CachedIn(Room) \ CachedIn(d) : cache.stanza[t].path = st.path
      /\ s \notin CachedIn(Room) /\ UntouchedBut(cache, d, s, Used)
      /\ d.stanza[s] = st /\ DataOf(d, s) = data
  BY PlaceIs
<1>2. /\ CachedIn(Room) \subseteq CachedIn(cache)
      /\ \A t \in CachedIn(cache) \ CachedIn(Room) : cache.stanza[t].is_saved_
  BY RoomIs DEF InCache, CachedIn
<1>3. \A t \in CachedIn(d) \ {s} : KeptIn(cache, d, t)
  BY <1>1, <1>2 DEF KeptIn, UntouchedBut, Untouched
<1>4. \A t \in CachedIn(cache) :
        cache.stanza[t].path = p => KeptIn(cache, d, t) \/ DataOf(cache, t) = file[p]
  <2> SUFFICES ASSUME NEW t \in CachedIn(cache), cache.stanza[t].path = p
               PROVE  KeptIn(cache, d, t) \/ DataOf(cache, t) = file[p]
    OBVIOUS
  <2>1. CASE t \in CachedIn(Room)
    BY <1>1, <1>3, <2>1
  <2>2. CASE t \notin CachedIn(Room)
    BY <1>2, <2>2, SavedIsOnFlash
  <2>3. QED
    BY <2>1, <2>2
<1>5. \A t \in CachedIn(d) :
        d.stanza[t].path = p => KeptIn(cache, d, t) \/ DataOf(d, t) = file[p]
  BY <1>1, <1>3
<1>6. SameUnder(cache, d, file, p)
  BY <1>4, <1>5 DEF SameUnder
<1>7. QED
  BY <1>1, <1>6, ViewSame DEF IInv, CacheInv

(* A save of the path leaves in the cache what the path had there: that or *)
(* something newer is cached.                                              *)
LEMMA SaveView ==
  ASSUME IInv, Message("save"), NEW content, NEW flashed \in BOOLEAN, Save(content, flashed),
         NEW p, Settled(p)
  PROVE  ViewOf(cache', file', p) = ViewOf(cache, file, p)
<1> DEFINE s == Head(msgq_).stanza
           used == Saving(Tail(msgq_))
           d == Confirmed(s, flashed)
           more == cache'
           g == file'
<1>1. /\ WellFormed(cache, Used) /\ Flagged(cache, Used)
      /\ msgq_ \in Seq(Requests) /\ SavesDiffer(msgq_) /\ LastSaveIsCached(cache, msgq_, skipped)
  BY DEF IInv, VarTypes, CacheInv, Used
<1>2. msgq_ # <<>> /\ Head(msgq_).op = "save"
  BY DEF Message
<1>3. more = d /\ g = [file EXCEPT ![cache.stanza[s].path] = content]
  BY DEF Save
<1>4. s \notin used /\ Used = used \union {s} /\ used \in SUBSET Stanzas /\ s \in Stanzas
  <2>1. s \notin used /\ s \in Used /\ Used = used \union {s}
    BY <1>1, <1>2, SavingOfTail DEF Used
  <2>2. Used \in SUBSET Stanzas
    BY <1>1, SavesOfQueue DEF Used
  <2>3. QED
    BY <2>1, <2>2
<1>5. 1 \in SavesIn(msgq_) /\ msgq_[1].stanza = s
  BY <1>1, <1>2, SavesOfTail
<1> HIDE DEF s, used, more, g
<1>6. /\ WellFormed(d, used) /\ CachedIn(d) = CachedIn(cache)
      /\ Untouched(cache, d, (CachedIn(d) \union used) \ {s})
      /\ s \in CachedIn(d) =>
           d.stanza[s].path = cache.stanza[s].path /\ DataOf(d, s) = DataOf(cache, s)
  <2>1. WellFormed(cache, used \union {s}) /\ Flagged(cache, used \union {s})
    BY <1>1, <1>4
  <2>2. QED
    BY <1>4, <2>1, ConfirmedWellFormed
<1> HIDE DEF d
<1>7. \A t \in CachedIn(cache) : KeptIn(cache, d, t)
  BY <1>6 DEF KeptIn, Untouched
<1>8. \A t \in CachedIn(d) : KeptIn(cache, d, t)
  BY <1>6, <1>7
<1>9. CASE cache.stanza[s].path = p
  <2>1. PICK j \in SavesIn(msgq_) :
          /\ msgq_[j].stanza \in CachedIn(cache)
          /\ cache.stanza[msgq_[j].stanza].path = p
    BY <1>1, <1>5, <1>9 DEF LastSaveIsCached, Settled
  <2> DEFINE t == msgq_[j].stanza
  <2>2. KeptUnder(cache, d, t, p)
    BY <1>7, <2>1 DEF KeptUnder
  <2> HIDE DEF t
  <2>3. ViewOf(d, g, p) = ViewOf(cache, file, p)
    BY <1>1, <1>6, <2>2, ViewOfKept
  <2>4. QED
    BY <1>3, <2>3 DEF more, g
<1>10. CASE cache.stanza[s].path # p
  <2>1. g[p] = file[p]
    BY <1>3, <1>10 DEF IInv, VarTypes, Settled
  <2>2. SameUnder(cache, d, file, p)
    BY <1>7, <1>8 DEF SameUnder
  <2>3. ViewOf(d, g, p) = ViewOf(cache, file, p)
    BY <1>1, <1>6, <2>1, <2>2, ViewSame
  <2>4. QED
    BY <1>3, <2>3 DEF more, g
<1>11. QED
  BY <1>9, <1>10

(* the steps that may change what is found under a path *)
ByRequest(p) ==
  \/ (Message("write") \/ Message("delete")) /\ Head(msgq_).path = p /\ Serve
  \/ Message("save") /\ Fault /\ Serve
  \/ Crash

LEMMA ServeView ==
  ASSUME IInv, NEW p, Settled(p), Serve, ~ByRequest(p)
  PROVE  ViewOf(cache', file', p) = ViewOf(cache, file, p)
<1>1. WellFormed(cache, Used) /\ cache \in CacheType /\ p \in Paths
  BY WellFormedTypes DEF IInv, CacheInv, Used, Settled
<1>2. /\ WellFormed(Room, Used) /\ CachedIn(Room) \subseteq CachedIn(cache)
      /\ Untouched(cache, Room, CachedIn(Room)) /\ Used \in SUBSET Stanzas
      /\ \A t \in CachedIn(cache) \ CachedIn(Room) : cache.stanza[t].is_saved_
  BY RoomIs DEF InCache, CachedIn, Untouched
<1>3. ASSUME cache' = Room, UNCHANGED file
      PROVE  ViewOf(cache', file', p) = ViewOf(cache, file, p)
  <2>1. ViewOf(Room, file, p) = ViewOf(cache, file, p)
    BY <1>2, ShrinkView
  <2>2. QED
    BY <1>3, <2>1
<1>4. CASE WriteRefused \/ ReadRefused
  BY <1>3, <1>4 DEF WriteRefused, ReadRefused
<1>5. CASE WriteSkipped \/ WritePosted
  <2> DEFINE q == Head(msgq_).path
             s == Head(Room.stanzas_)
             more == Used \union {s}
             but == skipped \union {q}
  <2>1. /\ Message("write") /\ Room.stanzas_ # <<>> /\ UNCHANGED file /\ q # p
        /\ cache' = Written(Head(msgq_), TRUE) \/ cache' = Written(Head(msgq_), FALSE)
    BY <1>5 DEF WriteSkipped, WritePosted, ByRequest
  <2>2. ASSUME NEW saved \in BOOLEAN
        PROVE  ViewOf(Written(Head(msgq_), saved), file, p) = ViewOf(cache, file, p)
    <3> DEFINE st == Stanza(q, Fresh, saved, FALSE)
               d == Written(Head(msgq_), saved)
    <3>1. Settling(st, Fresh, Head(msgq_).data, s, d, more, but) /\ st.path = q
      BY <2>1, WrittenIs
    <3> HIDE DEF st, d, s, more, but
    <3>2. QED
      BY <2>1, <3>1, PlaceView DEF d
  <2>3. QED
    BY <2>1, <2>2
<1>6. CASE Saved \/ SavedEmpty
  <2>1. \E content : \E flashed \in BOOLEAN : Message("save") /\ Save(content, flashed)
    BY <1>6 DEF Saved, SavedEmpty
  <2>2. QED
    BY <2>1, SaveView
<1>7. CASE SaveFailed
  BY <1>7 DEF SaveFailed, ByRequest
<1>8. CASE ReadCached
  BY <1>8 DEF ReadCached
<1>9. CASE ReadFailed
  <2> DEFINE r == Room
             d == Recycled([Room EXCEPT !.stanzas_ = Tail(@)], Head(Room.stanzas_))
  <2>1. /\ r.stanzas_ # <<>> /\ cache' = d /\ UNCHANGED file
        /\ d = Recycled([r EXCEPT !.stanzas_ = Tail(@)], Head(r.stanzas_))
    BY <1>9 DEF ReadFailed
  <2> HIDE DEF r, d
  <2>2. WellFormed(d, Used) /\ CachedIn(d) = CachedIn(r) /\ Untouched(r, d, CachedIn(r) \union Used)
    <3>1. WellFormed(r, Used) /\ Used \in SUBSET Stanzas
      BY <1>2 DEF r
    <3> HIDE DEF Used
    <3>2. QED
      BY <2>1, <3>1, ReturnedWellFormed
  <2>3. Untouched(cache, d, CachedIn(d)) /\ CachedIn(d) = CachedIn(Room)
    BY <1>2, <2>2 DEF Untouched, r
  <2>4. ViewOf(d, file, p) = ViewOf(cache, file, p)
    BY <1>2, <2>2, <2>3, ShrinkView
  <2>5. QED
    BY <2>1, <2>4
<1>10. CASE ReadFile
  <2> DEFINE q == Head(msgq_).path
             s == Head(Room.stanzas_)
             buf == Room.stanza[s].buf
             st == Stanza(q, buf, TRUE, TRUE)
             d == Placed(Room, st, buf, file[q], Used)
             more == Used \union {s}
             but == skipped \union {q}
  <2>1. /\ Missed /\ Room.stanzas_ # <<>> /\ file[q] # Absent
        /\ cache' = d /\ UNCHANGED file
    BY <1>10 DEF ReadFile, Missed, Placed, Used
  <2>2. Settling(st, buf, file[q], s, d, more, but) /\ st.path = q
    BY <2>1, ReadIs
  <2>3. \A t \in CachedIn(cache) : cache.stanza[t].path # q
    BY <1>1, <2>1, FoundIs DEF Missed
  <2> HIDE DEF q, buf, st, s, d, more, but
  <2>4. st.path # p \/ (file[q] = file[p] /\ \A t \in CachedIn(cache) : cache.stanza[t].path # p)
    BY <2>2, <2>3
  <2>5. ViewOf(d, file, p) = ViewOf(cache, file, p)
    BY <2>2, <2>4, PlaceView
  <2>6. QED
    BY <2>1, <2>5
<1>11. CASE Delete
  <2> DEFINE q == Head(msgq_).path
             d == Uncached(q)
             g == file'
  <2>1. cache' = d /\ q # p /\ file' \in {file, [file EXCEPT ![q] = Absent]}
    BY <1>11 DEF Delete, ByRequest
  <2>2. g[p] = file[p]
    BY <1>1, <2>1 DEF IInv, VarTypes
  <2>3. /\ WellFormed(d, Used) /\ CachedIn(d) \subseteq CachedIn(cache)
        /\ Untouched(cache, d, CachedIn(d))
        /\ \A t \in CachedIn(cache) \ CachedIn(d) : cache.stanza[t].path = q
    BY UncachedIs
  <2> HIDE DEF q, d, g
  <2>4. ViewOf(d, g, p) = ViewOf(cache, file, p)
    BY <2>1, <2>2, <2>3, ShrinkView
  <2>5. QED
    BY <2>1, <2>4 DEF g
<1>12. QED
  BY <1>4, <1>5, <1>6, <1>7, <1>8, <1>9, <1>10, <1>11 DEF Serve

(* What a reader finds under a path, in the cache or on the flash, changes *)
(* only when a write or delete of that path is served, when a save fails,  *)
(* or by a crash: no read, no request for another file and no late save    *)
(* changes it.                                                             *)
THEOREM ViewIsStable == Spec => ViewChangesOnlyByRequests
<1> DEFINE A == \A p \in Paths :
                  p \notin skipped /\ Flashed(p) /\ View(p)' # View(p) => ByRequest(p)
<1>1. IInv /\ [Next]_vars => [A]_vars
  <2> SUFFICES ASSUME IInv, Next, NEW p \in Paths, p \notin skipped, Flashed(p),
                      View(p)' # View(p)
               PROVE  ByRequest(p)
    BY DEF vars
  <2> SUFFICES ASSUME ~ByRequest(p)
               PROVE  FALSE
    OBVIOUS
  <2>1. Settled(p)
    BY DEF Settled
  <2>2. View(p) = ViewOf(cache, file, p) /\ View(p)' = ViewOf(cache', file', p)
    BY DEF View, ViewOf
  <2>3. CASE Serve
    BY <2>1, <2>2, <2>3, ServeView
  <2>4. CASE Crash
    BY <2>4 DEF ByRequest
  <2>5. CASE UNCHANGED <<cache, file>>
    BY <2>2, <2>5
  <2>6. QED
    BY <2>3, <2>4, <2>5 DEF Next, AsyncWrite, AsyncRead, AsyncDelete, Request, Release
<1>2. QED
  BY <1>1, InvariantHolds, PTL DEF Spec, ViewChangesOnlyByRequests, ByRequest
=============================================================================
