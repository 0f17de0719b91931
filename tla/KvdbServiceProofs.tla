------------------------- MODULE KvdbServiceProofs -------------------------
(***************************************************************************)
(* Proofs about KvdbService: its types, that a key has at most one node,   *)
(* and, for values whose comparison with the file is right, that the cache *)
(* agrees with the files, that acknowledged values are stored and that     *)
(* what a reader sees of a key changes only by writing it, or back to the  *)
(* file when the node of a failed write goes.                              *)
(***************************************************************************)
EXTENDS KvdbService, SequenceTheorems, TLAPS

(* a value is a possible content of a file, and so is what was written of it *)
LEMMA ValueIsContent ==
  ASSUME NEW v \in Values
  PROVE  v \in Contents /\ v \in Seq(Buffers) /\ Prefixes(v) \subseteq Contents
<1>1. v \in Seq(Buffers)
  BY KvdbServiceAssumption
<1>2. Len(v) \in Nat /\ SubSeq(v, 1, Len(v)) = v
  BY <1>1
<1>3. Prefixes(v) \subseteq Contents
  BY DEF Contents
<1>4. v \in Prefixes(v)
  <2>1. Len(v) \in 0 .. Len(v)
    BY <1>2
  <2> QED
    BY <1>2, <2>1, Zenon DEF Prefixes
<1> QED
  BY <1>1, <1>3, <1>4

LEMMA ContentIsSeq == Contents \subseteq Seq(Buffers)
<1>1. ASSUME NEW v \in Values, NEW j \in 0 .. Len(v)
      PROVE  SubSeq(v, 1, j) \in Seq(Buffers)
  <2>1. v \in Seq(Buffers)
    BY KvdbServiceAssumption
  <2> QED
    BY <2>1
<1> QED
  BY <1>1 DEF Contents, Prefixes

(* prefixes of contents are contents *)
LEMMA PrefixOfContent ==
  ASSUME NEW c \in Contents
  PROVE  Prefixes(c) \subseteq Contents
<1>1. PICK v \in Values : c \in Prefixes(v)
  BY DEF Contents
<1>2. v \in Seq(Buffers)
  BY KvdbServiceAssumption
<1>3. PICK j \in 0 .. Len(v) : c = SubSeq(v, 1, j)
  BY <1>1 DEF Prefixes
<1>4. Len(v) \in Nat /\ Len(c) = j
  BY <1>2, <1>3
<1>5. ASSUME NEW i \in 0 .. Len(c)
      PROVE  SubSeq(c, 1, i) \in Prefixes(v)
  <2>1. i \in 0 .. Len(v) /\ i <= j
    BY <1>4
  <2>2. SubSeq(c, 1, i) = SubSeq(v, 1, i)
    BY <1>2, <1>3, <1>4, <2>1
  <2> QED
    BY <2>1, <2>2 DEF Prefixes
<1> QED
  BY <1>5 DEF Prefixes, Contents

LEMMA NodesAreNat == Nodes \subseteq Nat /\ \A n \in Nodes : NodeSize[n] \in Nat
  BY KvdbServiceAssumption DEF Nodes

-----------------------------------------------------------------------------
(* What the operators on the cache do. *)

(* Dropping the node of a key leaves none of it and all of the others. *)
LEMMA Dropped ==
  ASSUME TypeOK, OneNodePerKey, NEW k \in Keys
  PROVE  /\ DropNode(k) \in [Nodes -> {Free} \union NodeRecord]
         /\ \A n \in Nodes : DropNode(k)[n].valid
              => DropNode(k)[n] = node[n] /\ node[n].key # k
<1>1. \A n \in Nodes : Holds(n, k) => NodeFind(n, k)
  BY NodesAreNat DEF NodeFind, Holds, OneNodePerKey
<1>2. Free.valid = FALSE
  BY DEF Free
<1> QED
  BY <1>1, <1>2 DEF TypeOK, DropNode, Holds

(* After CacheValue every node of the key holds the new value, there is at *)
(* most one, and the nodes of other keys are those there were before.      *)
LEMMA CacheValueEffect ==
  ASSUME TypeOK, OneNodePerKey, NEW k \in Keys, NEW v \in Contents,
         NEW w \in BOOLEAN, CacheValue(k, v, w)
  PROVE  /\ node' \in [Nodes -> {Free} \union NodeRecord]
         /\ \A n \in Nodes : node'[n].valid => Len(node'[n].value) <= NodeSize[n]
         /\ \A n \in Nodes : node'[n].valid =>
              \/ node'[n].key = k /\ node'[n].value = v /\ node'[n].written = w
              \/ node'[n] = node[n] /\ node[n].key # k
         /\ \A m, n \in Nodes : node'[m].valid /\ node'[n].valid
                                /\ node'[m].key = node'[n].key => m = n
<1> DEFINE cache == DropNode(k)
<1>1. /\ cache \in [Nodes -> {Free} \union NodeRecord]
      /\ \A n \in Nodes : cache[n].valid => cache[n] = node[n] /\ node[n].key # k
  BY Dropped
<1>2. \A n \in Nodes : cache[n].valid => Len(cache[n].value) <= NodeSize[n]
  BY <1>1 DEF TypeOK
<1>3. \A m, n \in Nodes : cache[m].valid /\ cache[n].valid
                          /\ cache[m].key = cache[n].key => m = n
  BY <1>1 DEF OneNodePerKey
<1>4. CASE node' = cache
  BY <1>1, <1>2, <1>3, <1>4
<1>5. ASSUME NEW n \in Nodes, Chosen(cache, Len(v), n),
             node' = [cache EXCEPT ![n] = Record(k, v, w)]
      PROVE  /\ node' \in [Nodes -> {Free} \union NodeRecord]
             /\ \A i \in Nodes : node'[i].valid => Len(node'[i].value) <= NodeSize[i]
             /\ \A i \in Nodes : node'[i].valid =>
                  \/ node'[i].key = k /\ node'[i].value = v /\ node'[i].written = w
                  \/ node'[i] = node[i] /\ node[i].key # k
             /\ \A m, i \in Nodes : node'[m].valid /\ node'[i].valid
                                    /\ node'[m].key = node'[i].key => m = i
  <2>1. Record(k, v, w) \in NodeRecord
    BY DEF Record, NodeRecord, TypeOK
  <2>2. n \in Fits(Len(v))
    BY <1>5 DEF Chosen, NodeOldest
  <2>3. Len(v) <= NodeSize[n]
    BY <2>2, ContentIsSeq, NodesAreNat DEF Fits
  <2>4. node'[n] = Record(k, v, w) /\ \A i \in Nodes \ {n} : node'[i] = cache[i]
    BY <1>1, <1>5
  <2>5. /\ Record(k, v, w).key = k
        /\ Record(k, v, w).value = v
        /\ Record(k, v, w).written = w
    BY DEF Record
  <2>6. node' \in [Nodes -> {Free} \union NodeRecord]
    BY <1>1, <1>5, <2>1
  <2>7. \A i \in Nodes : node'[i].valid => Len(node'[i].value) <= NodeSize[i]
    BY <1>2, <2>3, <2>4, <2>5
  <2>8. \A m, i \in Nodes : node'[m].valid /\ node'[i].valid
                            /\ node'[m].key = node'[i].key => m = i
    <3> TAKE m, i \in Nodes
    <3> HAVE node'[m].valid /\ node'[i].valid /\ node'[m].key = node'[i].key
    <3>1. CASE m = n
      BY <1>1, <2>4, <2>5, <3>1
    <3>2. CASE m # n /\ i = n
      BY <1>1, <2>4, <2>5, <3>2
    <3>3. CASE m # n /\ i # n
      BY <1>3, <2>4, <3>3
    <3> QED
      BY <3>1, <3>2, <3>3
  <2>9. \A i \in Nodes : node'[i].valid =>
          \/ node'[i].key = k /\ node'[i].value = v /\ node'[i].written = w
          \/ node'[i] = node[i] /\ node[i].key # k
    BY <1>1, <2>4, <2>5
  <2> QED
    BY <2>6, <2>7, <2>8, <2>9
<1> QED
  BY <1>4, <1>5 DEF CacheValue

-----------------------------------------------------------------------------
(* The part of the inductive invariant that holds for all values. *)

Inv1 == TypeOK /\ OneNodePerKey

LEMMA InitInv == Init => Inv1 /\ CacheMatchesFile
<1> SUFFICES ASSUME Init PROVE Inv1 /\ CacheMatchesFile
  OBVIOUS
<1>1. node \in [Nodes -> {Free}] /\ \A n \in Nodes : ~node[n].valid
  BY DEF Init, Empty, Free
<1>2. TypeOK
  <2>1. node \in [Nodes -> {Free} \union NodeRecord]
    BY <1>1
  <2>2. /\ file \in [Keys -> Contents \union {Absent}]
        /\ backup \in [Keys -> Contents \union {Absent}]
        /\ \A k \in Keys : backup[k] = Absent
    BY DEF Init
  <2>3. hasBak \in BOOLEAN /\ time \in Nat /\ res \in BOOLEAN /\ faults \in Nat
    BY DEF Init
  <2> QED
    BY <1>1, <2>1, <2>2, <2>3 DEF TypeOK
<1>3. OneNodePerKey /\ CacheMatchesFile
  BY <1>1 DEF OneNodePerKey, CacheMatchesFile
<1> QED
  BY <1>2, <1>3 DEF Inv1

(* An emptied cache satisfies all that is said of caches. *)
LEMMA EmptyCache ==
  ASSUME node' = Empty
  PROVE  /\ node' \in [Nodes -> {Free} \union NodeRecord]
         /\ \A n \in Nodes : ~node'[n].valid
<1>1. Free.valid = FALSE
  BY DEF Free
<1> QED
  BY <1>1 DEF Empty

(* What TypeOK says of the cache alone. *)
NodeTypeOK ==
  /\ node \in [Nodes -> {Free} \union NodeRecord]
  /\ \A n \in Nodes : node[n].valid => Len(node[n].value) <= NodeSize[n]

(* Each call keeps the cache well formed and of one node per key; which    *)
(* nodes it leaves valid, with what in them, is said beside it.            *)
LEMMA SeekFileEffect ==
  ASSUME Inv1, NEW k \in Keys, SeekFile(k)
  PROVE  /\ NodeTypeOK' /\ OneNodePerKey'
         /\ \A n \in Nodes : node'[n].valid =>
              \/ node'[n].key = k /\ node'[n].value = file[k] /\ node'[n].written
              \/ node'[n] = node[n] /\ node[n].key # k
<1>1. \A n \in Nodes : node[n].valid => node[n].key # k
  BY DEF SeekFile, Cached, Holds
<1>2. file[k] \in Contents
  BY DEF SeekFile, Inv1, TypeOK
<1>3. CASE UNCHANGED node
  BY <1>1, <1>3 DEF Inv1, TypeOK, NodeTypeOK, OneNodePerKey
<1>4. ASSUME NEW n \in Nodes, NodeOldest(node, Len(file[k]), n),
             node' = [node EXCEPT ![n] = Record(k, file[k], TRUE)]
      PROVE  /\ NodeTypeOK' /\ OneNodePerKey'
             /\ \A i \in Nodes : node'[i].valid =>
                  \/ node'[i].key = k /\ node'[i].value = file[k] /\ node'[i].written
                  \/ node'[i] = node[i] /\ node[i].key # k
  <2>1. Record(k, file[k], TRUE) \in NodeRecord
    BY <1>2 DEF Record, NodeRecord, Inv1, TypeOK
  <2>2. Len(file[k]) <= NodeSize[n]
    BY <1>2, <1>4, ContentIsSeq, NodesAreNat DEF NodeOldest, Fits
  <2>3. /\ Record(k, file[k], TRUE).key = k
        /\ Record(k, file[k], TRUE).value = file[k]
        /\ Record(k, file[k], TRUE).written
    BY DEF Record
  <2>4. node' \in [Nodes -> {Free} \union NodeRecord]
    BY <1>4, <2>1 DEF Inv1, TypeOK
  <2>5. node'[n] = Record(k, file[k], TRUE) /\ \A i \in Nodes \ {n} : node'[i] = node[i]
    BY <1>4 DEF Inv1, TypeOK
  <2>6. NodeTypeOK'
    BY <2>2, <2>3, <2>4, <2>5 DEF NodeTypeOK, Inv1, TypeOK
  <2>7. OneNodePerKey'
    <3> SUFFICES ASSUME NEW i \in Nodes, NEW j \in Nodes,
                        node'[i].valid, node'[j].valid, node'[i].key = node'[j].key
                 PROVE  i = j
      BY DEF OneNodePerKey
    <3>1. CASE i = n
      BY <1>1, <2>3, <2>5, <3>1
    <3>2. CASE i # n /\ j = n
      BY <1>1, <2>3, <2>5, <3>2
    <3>3. CASE i # n /\ j # n
      BY <2>5, <3>3 DEF Inv1, OneNodePerKey
    <3> QED
      BY <3>1, <3>2, <3>3
  <2>8. \A i \in Nodes : node'[i].valid =>
          \/ node'[i].key = k /\ node'[i].value = file[k] /\ node'[i].written
          \/ node'[i] = node[i] /\ node[i].key # k
    BY <1>1, <2>3, <2>5
  <2> QED
    BY <2>6, <2>7, <2>8
<1> QED
  BY <1>3, <1>4 DEF SeekFile

LEMMA ReplaceSameEffect ==
  ASSUME Inv1, NEW k \in Keys, NEW v \in Values, ReplaceSame(k, v)
  PROVE  /\ NodeTypeOK' /\ OneNodePerKey'
         /\ \A n \in Nodes : node'[n].valid =>
              /\ node[n].valid
              /\ node'[n].key = node[n].key
              /\ node'[n].value = node[n].value
              /\ node'[n].written = node[n].written
         /\ \E n \in Nodes : NodeFind(n, k) /\ node[n].value = v
<1>1. PICK n \in Nodes : /\ NodeFind(n, k)
                         /\ node[n].value = v
                         /\ node' = [node EXCEPT ![n].last = time]
  BY DEF ReplaceSame
<1>2. node[n] \in NodeRecord
  BY <1>1 DEF NodeFind, Holds, Inv1, TypeOK, Free
<1>3. /\ node'[n] = [node[n] EXCEPT !.last = time]
      /\ \A i \in Nodes \ {n} : node'[i] = node[i]
  BY <1>1 DEF Inv1, TypeOK
<1>4. /\ node'[n] \in NodeRecord
      /\ node'[n].key = node[n].key
      /\ node'[n].value = node[n].value
      /\ node'[n].written = node[n].written
      /\ node[n].valid
  <2>1. time \in Nat
    BY DEF Inv1, TypeOK
  <2> DEFINE a == node[n]
             b == node'[n]
  <2>2. a \in NodeRecord /\ b = [a EXCEPT !.last = time]
    BY <1>2, <1>3
  <2> HIDE DEF a, b
  <2>3. b \in NodeRecord /\ b.key = a.key /\ b.value = a.value /\ b.written = a.written /\ a.valid
    BY <2>1, <2>2 DEF NodeRecord
  <2>4. QED
    BY <2>3 DEF a, b
<1>5. node' \in [Nodes -> {Free} \union NodeRecord]
  BY <1>1, <1>3, <1>4 DEF Inv1, TypeOK
<1>6. NodeTypeOK'
  BY <1>3, <1>4, <1>5 DEF NodeTypeOK, Inv1, TypeOK
<1>7. OneNodePerKey'
  <2> SUFFICES ASSUME NEW i \in Nodes, NEW j \in Nodes,
                      node'[i].valid, node'[j].valid, node'[i].key = node'[j].key
               PROVE  i = j
    BY DEF OneNodePerKey
  <2>1. /\ node[i].valid /\ node[j].valid
        /\ node'[i].key = node[i].key /\ node'[j].key = node[j].key
    BY <1>3, <1>4
  <2> QED
    BY <2>1 DEF Inv1, OneNodePerKey
<1> QED
  BY <1>1, <1>3, <1>4, <1>6, <1>7

LEMMA RemoveFileEffect ==
  ASSUME Inv1, NEW k \in Keys, RemoveFile(k)
  PROVE  /\ NodeTypeOK' /\ OneNodePerKey'
         /\ \A n \in Nodes : node'[n].valid => node'[n] = node[n] /\ node[n].key # k
         /\ file' \in [Keys -> Contents \union {Absent}]
         /\ \A i \in Keys \ {k} : file'[i] = file[i]
         /\ UNCHANGED <<backup, hasBak, time>>
         /\ res' \in BOOLEAN
         /\ faults' \in Nat
<1>1. /\ node' \in [Nodes -> {Free} \union NodeRecord]
      /\ \A n \in Nodes : node'[n].valid => node'[n] = node[n] /\ node[n].key # k
  BY Dropped DEF RemoveFile, Inv1
<1>2. NodeTypeOK' /\ OneNodePerKey'
  BY <1>1 DEF NodeTypeOK, Inv1, TypeOK, OneNodePerKey
<1>3. /\ file' \in [Keys -> Contents \union {Absent}]
      /\ \A i \in Keys \ {k} : file'[i] = file[i]
  BY DEF RemoveFile, Inv1, TypeOK
<1>4. UNCHANGED <<backup, hasBak, time>>
  BY DEF RemoveFile, bak
<1>5. res' = TRUE \/ res' = FALSE
  BY Zenon DEF RemoveFile
<1>6. faults' = faults \/ Fault
  BY Zenon DEF RemoveFile
<1>7. faults' \in Nat
  BY <1>6 DEF Fault, Inv1, TypeOK
<1> QED
  BY <1>1, <1>2, <1>3, <1>4, <1>5, <1>7

(* Failing copies leave folders of contents. *)
LEMMA PartCopiesTyped ==
  ASSUME NEW t, NEW s, NEW c \in PartCopies(t, s)
  PROVE  c \in [Keys -> Contents \union {Absent}]
  BY DEF PartCopies

LEMMA CrashEffect ==
  ASSUME Inv1, Crash
  PROVE  /\ file' \in [Keys -> Contents \union {Absent}]
         /\ backup' \in [Keys -> Contents \union {Absent}]
         /\ hasBak' \in BOOLEAN
         /\ ~hasBak' => \A k \in Keys : backup'[k] = Absent
<1>1. CASE UNCHANGED <<file, bak>>
  BY <1>1 DEF Inv1, TypeOK, bak
<1>2. CASE \E k \in Keys, v \in Values : \E f \in Prefixes(v) \union {Absent} :
             file' = [file EXCEPT ![k] = f] /\ UNCHANGED bak
  <2>0. PICK k \in Keys, v \in Values : \E f \in Prefixes(v) \union {Absent} :
          file' = [file EXCEPT ![k] = f] /\ UNCHANGED bak
    BY <1>2
  <2>1. PICK f \in Prefixes(v) \union {Absent} :
          file' = [file EXCEPT ![k] = f] /\ UNCHANGED bak
    BY <2>0
  <2>2. f \in Contents \union {Absent}
    BY ValueIsContent
  <2> QED
    BY <2>1, <2>2 DEF Inv1, TypeOK, bak
<1>3. CASE backup' \in PartCopies(backup, file) /\ hasBak' = TRUE /\ UNCHANGED file
  BY <1>3, PartCopiesTyped DEF Inv1, TypeOK
<1>4. CASE file' \in PartCopies(file, backup) /\ UNCHANGED bak
  BY <1>4, PartCopiesTyped DEF Inv1, TypeOK, bak
<1> QED
  BY <1>1, <1>2, <1>3, <1>4 DEF Crash

(* Every kind of Replace. *)
LEMMA ReplaceInv ==
  ASSUME Inv1, NEW k \in Keys, NEW v \in Values, Replace(k, v)
  PROVE  Inv1'
<1>1. v \in Contents /\ Prefixes(v) \subseteq Contents
  BY ValueIsContent
<1>2. CASE ReplaceSame(k, v)
  <2>1. NodeTypeOK' /\ OneNodePerKey'
    BY <1>2, ReplaceSameEffect
  <2> QED
    BY <1>2, <2>1 DEF ReplaceSame, Inv1, TypeOK, NodeTypeOK, bak
<1>3. CASE ReplaceUnwritten(k, v)
  <2>1. CacheValue(k, v, TRUE)
    BY <1>3 DEF ReplaceUnwritten
  <2>2. NodeTypeOK' /\ OneNodePerKey'
    BY <1>1, <2>1, CacheValueEffect DEF Inv1, NodeTypeOK, OneNodePerKey
  <2> QED
    BY <1>3, <2>2 DEF ReplaceUnwritten, Inv1, TypeOK, NodeTypeOK, bak
<1>4. CASE ReplaceWritten(k, v)
  <2>1. CacheValue(k, v, TRUE)
    BY <1>4 DEF ReplaceWritten
  <2>2. NodeTypeOK' /\ OneNodePerKey'
    BY <1>1, <2>1, CacheValueEffect DEF Inv1, NodeTypeOK, OneNodePerKey
  <2> QED
    BY <1>1, <1>4, <2>2 DEF ReplaceWritten, Inv1, TypeOK, NodeTypeOK, bak
<1>5. CASE ReplaceFailed(k, v)
  <2>1. CacheValue(k, v, FALSE)
    BY <1>5 DEF ReplaceFailed
  <2>2. NodeTypeOK' /\ OneNodePerKey'
    BY <1>1, <2>1, CacheValueEffect DEF Inv1, NodeTypeOK, OneNodePerKey
  <2>3. file' \in [Keys -> Contents \union {Absent}]
    BY <1>1, <1>5 DEF ReplaceFailed, Inv1, TypeOK
  <2>4. UNCHANGED <<backup, hasBak, time>> /\ res' \in BOOLEAN /\ faults' \in Nat
    <3>1. Fault /\ UNCHANGED <<bak, time>>
      BY <1>5 DEF ReplaceFailed
    <3>2. res' \in BOOLEAN
      BY <1>5, Zenon DEF ReplaceFailed
    <3> QED
      BY <1>1, <3>1, <3>2 DEF Fault, bak, Inv1, TypeOK
  <2> QED
    BY <2>2, <2>3, <2>4 DEF Inv1, TypeOK, NodeTypeOK
<1>6. CASE RemoveFile(k)
  <2>1. /\ NodeTypeOK' /\ OneNodePerKey'
        /\ file' \in [Keys -> Contents \union {Absent}]
        /\ UNCHANGED <<backup, hasBak, time>>
        /\ res' \in BOOLEAN
        /\ faults' \in Nat
    BY <1>6, RemoveFileEffect
  <2> QED
    BY <2>1 DEF Inv1, TypeOK, NodeTypeOK
<1> QED
  BY <1>2, <1>3, <1>4, <1>5, <1>6 DEF Replace

LEMMA NextInv == Inv1 /\ [Next]_vars => Inv1'
<1> SUFFICES ASSUME Inv1, [Next]_vars PROVE Inv1'
  OBVIOUS
<1>1. ASSUME NEW k \in Keys, NEW v \in Values, Replace(k, v) PROVE Inv1'
  BY <1>1, ReplaceInv
<1>2. ASSUME NEW k \in Keys, Remove(k) PROVE Inv1'
  <2>1. /\ NodeTypeOK' /\ OneNodePerKey'
        /\ file' \in [Keys -> Contents \union {Absent}]
        /\ UNCHANGED <<backup, hasBak, time>>
        /\ res' \in BOOLEAN
        /\ faults' \in Nat
    BY <1>2, RemoveFileEffect DEF Remove
  <2> QED
    BY <2>1 DEF Inv1, TypeOK, NodeTypeOK
<1>3. ASSUME NEW k \in Keys, Seek(k) PROVE Inv1'
  <2>1. CASE SeekCached(k) \/ SeekFailed(k)
    <3>1. UNCHANGED <<node, file, backup, hasBak, time>>
      BY <2>1 DEF SeekCached, SeekFailed, bak
    <3>2. res' = TRUE \/ res' = FALSE
      BY <2>1, Zenon DEF SeekCached, SeekFailed
    <3>3. faults' = faults \/ Fault
      BY <2>1, Zenon DEF SeekCached, SeekFailed
    <3>4. faults' \in Nat
      BY <3>3 DEF Fault, Inv1, TypeOK
    <3> QED
      BY <3>1, <3>2, <3>4 DEF Inv1, TypeOK, OneNodePerKey
  <2>2. CASE SeekFile(k)
    <3>1. NodeTypeOK' /\ OneNodePerKey'
      BY <2>2, SeekFileEffect
    <3> QED
      BY <2>2, <3>1 DEF SeekFile, Inv1, TypeOK, NodeTypeOK, bak
  <2> QED
    BY <1>3, <2>1, <2>2 DEF Seek
<1>4. ASSUME node' = Empty PROVE NodeTypeOK' /\ OneNodePerKey'
  BY <1>4, EmptyCache DEF NodeTypeOK, OneNodePerKey
<1>5. CASE Backup
  <2>1. backup' \in [Keys -> Contents \union {Absent}] /\ faults' \in Nat
    BY <1>5, PartCopiesTyped DEF Backup, Fault, Inv1, TypeOK
  <2>2. hasBak' = TRUE /\ res' \in BOOLEAN
    BY <1>5, Zenon DEF Backup
  <2> QED
    BY <1>4, <1>5, <2>1, <2>2 DEF Backup, Inv1, TypeOK, NodeTypeOK
<1>6. CASE Restore
  <2>1. /\ file' \in [Keys -> Contents \union {Absent}]
        /\ faults' \in Nat /\ res' \in BOOLEAN
    BY <1>6, PartCopiesTyped DEF Restore, Fault, Inv1, TypeOK
  <2> QED
    BY <1>4, <1>6, <2>1 DEF Restore, Inv1, TypeOK, NodeTypeOK, bak
<1>7. CASE SetClock
  BY <1>7, KvdbServiceAssumption
     DEF SetClock, Times, Inv1, TypeOK, OneNodePerKey, bak
<1>8. CASE Crash
  <2>1. node' = Empty /\ res' = FALSE /\ faults' \in Nat /\ time' = time
    BY <1>8 DEF Crash, Fault, Inv1, TypeOK
  <2> QED
    BY <1>4, <1>8, <2>1, CrashEffect DEF Inv1, TypeOK, NodeTypeOK
<1>9. CASE UNCHANGED vars
  BY <1>9 DEF vars, Inv1, TypeOK, OneNodePerKey
<1> QED
  BY <1>1, <1>2, <1>3, <1>5, <1>6, <1>7, <1>8, <1>9 DEF Next

(* The service keeps its variables well typed and gives no node a value it *)
(* has no room for (the memcpy calls of Replace and Seek).                 *)
THEOREM TypeCorrect == Spec => []TypeOK
  BY InitInv, NextInv, PTL DEF Spec, Inv1

(* A key never has two valid nodes, so that NodeFind's first is the only   *)
(* one and dropping it drops the value.                                    *)
THEOREM KeysAreUnique == Spec => []OneNodePerKey
  BY InitInv, NextInv, PTL DEF Spec, Inv1

-----------------------------------------------------------------------------
(* The cache and the files.  Whatever the comparison of Replace says, the  *)
(* other calls keep them together; Replace does when the comparison is     *)
(* right about the file it decides not to write.                           *)

(* nodes that are new, as they are after CacheValue or a miss of Seek *)
NewNodes(k, v, w) ==
  \A n \in Nodes : node'[n].valid =>
    \/ node'[n].key = k /\ node'[n].value = v /\ node'[n].written = w
    \/ node'[n] = node[n] /\ node[n].key # k

LEMMA NewNodesMatch ==
  ASSUME Inv1, CacheMatchesFile, NEW k \in Keys, NEW v, NEW w \in BOOLEAN,
         NewNodes(k, v, w), w => file'[k] = v,
         \A i \in Keys \ {k} : file'[i] = file[i]
  PROVE  CacheMatchesFile'
<1> SUFFICES ASSUME NEW n \in Nodes, node'[n].valid, node'[n].written
             PROVE  file'[node'[n].key] = node'[n].value
  BY DEF CacheMatchesFile
<1>1. CASE node'[n].key = k /\ node'[n].value = v /\ node'[n].written = w
  BY <1>1
<1>2. CASE node'[n] = node[n] /\ node[n].key # k
  <2>1. node[n].valid /\ node[n].written
    BY <1>2
  <2>2. node[n] \in NodeRecord
    BY <2>1 DEF Inv1, TypeOK, Free
  <2>3. node[n].key \in Keys
    BY <2>2 DEF NodeRecord
  <2> QED
    BY <1>2, <2>1, <2>3 DEF CacheMatchesFile
<1> QED
  BY <1>1, <1>2 DEF NewNodes

LEMMA NothingWritten ==
  ASSUME ComparisonSound, Inv1, NEW k \in Keys, NEW v \in Values,
         ReplaceUnwritten(k, v)
  PROVE  file[k] = v /\ ~Cached(k)
<1>1. SameAsFile(file[k], v) /\ v # <<>> /\ ~Cached(k)
  BY DEF ReplaceUnwritten, NeedsWriting
<1>2. file[k] \in Contents
  BY <1>1 DEF SameAsFile, Inv1, TypeOK
<1> QED
  BY <1>1, <1>2 DEF ComparisonSound

LEMMA ReplaceMatches ==
  ASSUME ComparisonSound, Inv1, CacheMatchesFile,
         NEW k \in Keys, NEW v \in Values, Replace(k, v)
  PROVE  CacheMatchesFile'
<1>1. v \in Contents
  BY ValueIsContent
<1>2. CASE ReplaceSame(k, v)
  <2>1. file' = file
    BY <1>2 DEF ReplaceSame
  <2> QED
    BY <1>2, <2>1, ReplaceSameEffect DEF CacheMatchesFile
<1>3. CASE ReplaceUnwritten(k, v)
  <2>1. CacheValue(k, v, TRUE) /\ file' = file
    BY <1>3 DEF ReplaceUnwritten
  <2>2. NewNodes(k, v, TRUE)
    BY <1>1, <2>1, CacheValueEffect DEF Inv1, NewNodes
  <2>3. file'[k] = v
    BY <1>3, <2>1, NothingWritten
  <2> QED
    BY <2>1, <2>2, <2>3, NewNodesMatch
<1>4. CASE ReplaceWritten(k, v)
  <2>1. CacheValue(k, v, TRUE) /\ file' = [file EXCEPT ![k] = v]
    BY <1>4 DEF ReplaceWritten
  <2>2. NewNodes(k, v, TRUE)
    BY <1>1, <2>1, CacheValueEffect DEF Inv1, NewNodes
  <2>3. file'[k] = v /\ \A i \in Keys \ {k} : file'[i] = file[i]
    BY <2>1 DEF Inv1, TypeOK
  <2> QED
    BY <2>2, <2>3, NewNodesMatch
<1>5. CASE ReplaceFailed(k, v)
  <2>1. CacheValue(k, v, FALSE)
    BY <1>5 DEF ReplaceFailed
  <2>2. NewNodes(k, v, FALSE)
    BY <1>1, <2>1, CacheValueEffect DEF Inv1, NewNodes
  <2>3. \A i \in Keys \ {k} : file'[i] = file[i]
    BY <1>5 DEF ReplaceFailed, Inv1, TypeOK
  <2> QED
    BY <2>2, <2>3, NewNodesMatch
<1>6. CASE RemoveFile(k)
  <2>1. NewNodes(k, Absent, FALSE)
    BY <1>6, RemoveFileEffect DEF NewNodes
  <2>2. \A i \in Keys \ {k} : file'[i] = file[i]
    BY <1>6, RemoveFileEffect
  <2> QED
    BY <2>1, <2>2, NewNodesMatch
<1> QED
  BY <1>2, <1>3, <1>4, <1>5, <1>6 DEF Replace

LEMMA NextMatches ==
  ComparisonSound /\ Inv1 /\ CacheMatchesFile /\ [Next]_vars => CacheMatchesFile'
<1> SUFFICES ASSUME ComparisonSound, Inv1, CacheMatchesFile, [Next]_vars
             PROVE  CacheMatchesFile'
  OBVIOUS
<1>1. ASSUME NEW k \in Keys, NEW v \in Values, Replace(k, v) PROVE CacheMatchesFile'
  BY <1>1, ReplaceMatches
<1>2. ASSUME NEW k \in Keys, Remove(k) PROVE CacheMatchesFile'
  <2>1. NewNodes(k, Absent, FALSE) /\ \A i \in Keys \ {k} : file'[i] = file[i]
    BY <1>2, RemoveFileEffect DEF Remove, NewNodes
  <2> QED
    BY <2>1, NewNodesMatch
<1>3. ASSUME NEW k \in Keys, Seek(k) PROVE CacheMatchesFile'
  <2>1. CASE SeekCached(k) \/ SeekFailed(k)
    BY <2>1 DEF SeekCached, SeekFailed, CacheMatchesFile
  <2>2. CASE SeekFile(k)
    <3>1. file' = file
      BY <2>2 DEF SeekFile
    <3>2. \A n \in Nodes : node'[n].valid =>
            \/ node'[n].key = k /\ node'[n].value = file[k]
            \/ node'[n] = node[n]
      BY <2>2, SeekFileEffect
    <3> QED
      BY <3>1, <3>2 DEF CacheMatchesFile
  <2> QED
    BY <1>3, <2>1, <2>2 DEF Seek
<1>4. CASE node' = Empty
  BY <1>4, EmptyCache DEF CacheMatchesFile
<1>5. CASE SetClock \/ UNCHANGED vars
  BY <1>5 DEF SetClock, vars, CacheMatchesFile
<1> QED
  BY <1>1, <1>2, <1>3, <1>4, <1>5 DEF Next, Backup, Restore, Crash

(* A node whose write succeeded agrees with the file for as long as it is  *)
(* valid, if no two values are taken for each other by the comparison.     *)
THEOREM CacheIsCoherent ==
  ASSUME ComparisonSound
  PROVE  Spec => []CacheMatchesFile
<1>1. Init => Inv1 /\ CacheMatchesFile
  BY InitInv
<1>2. Inv1 /\ CacheMatchesFile /\ [Next]_vars => (Inv1 /\ CacheMatchesFile)'
  BY NextInv, NextMatches
<1> QED
  BY <1>1, <1>2, PTL DEF Spec

(* An acknowledged Replace has its value in the file. *)
THEOREM AcknowledgedValuesAreStored ==
  ASSUME ComparisonSound
  PROVE  Spec => AcknowledgedIsStored
<1>1. Init => Inv1 /\ CacheMatchesFile
  BY InitInv
<1>2. Inv1 /\ CacheMatchesFile /\ [Next]_vars => (Inv1 /\ CacheMatchesFile)'
  BY NextInv, NextMatches
<1>3. ASSUME Inv1, CacheMatchesFile,
             NEW k \in Keys, NEW v \in Values \ {<<>>},
             res', faults' = faults, Written(k), Replace(k, v)
      PROVE  file'[k] = v
  <2>1. CASE ReplaceSame(k, v)
    <3>1. PICK n \in Nodes : NodeFind(n, k) /\ node[n].value = v
      BY <1>3, <2>1, ReplaceSameEffect
    <3>2. node[n].valid /\ node[n].key = k /\ node[n].written
      BY <1>3, <3>1 DEF NodeFind, Written, Holds
    <3>3. file' = file
      BY <2>1 DEF ReplaceSame
    <3> QED
      BY <1>3, <3>1, <3>2, <3>3 DEF CacheMatchesFile
  <2>2. CASE ReplaceUnwritten(k, v)
    BY <1>3, <2>2, NothingWritten DEF ReplaceUnwritten
  <2>3. CASE ReplaceWritten(k, v)
    BY <1>3, <2>3 DEF ReplaceWritten, Inv1, TypeOK
  <2>4. ~ReplaceFailed(k, v)
    <3>1. faults \in Nat /\ faults' = faults
      BY <1>3 DEF Inv1, TypeOK
    <3>2. ~Fault
      BY <3>1 DEF Fault
    <3> QED
      BY <3>2 DEF ReplaceFailed
  <2> QED
    BY <1>3, <2>1, <2>2, <2>3, <2>4 DEF Replace
<1>4. Inv1 /\ CacheMatchesFile
        => \A k \in Keys, v \in Values \ {<<>>} :
             res' /\ faults' = faults /\ Written(k) /\ Replace(k, v)
               => file'[k] = v
  BY <1>3
<1> QED
  BY <1>1, <1>2, <1>4, PTL DEF Spec, AcknowledgedIsStored

-----------------------------------------------------------------------------
(* What a reader sees. *)

(* Of a key whose node, if any, was written a reader sees the file. *)
LEMMA ViewIsFile ==
  ASSUME Inv1, CacheMatchesFile, NEW k \in Keys, Written(k)
  PROVE  View(k) = file[k]
<1>1. CASE ~Cached(k)
  BY <1>1 DEF View
<1>2. CASE Cached(k)
  <2>1. PICK n \in Nodes : Holds(n, k)
    BY <1>2 DEF Cached
  <2>2. \A m \in Nodes : Holds(m, k) => m = n
    BY <2>1 DEF Holds, Inv1, OneNodePerKey
  <2>3. NodeFind(n, k)
    BY <2>1, <2>2, NodesAreNat DEF NodeFind
  <2>4. (CHOOSE m \in Nodes : NodeFind(m, k)) = n
    BY <2>2, <2>3 DEF NodeFind
  <2>5. file[k] = node[n].value
    BY <2>1 DEF CacheMatchesFile, Written, Holds
  <2> QED
    BY <1>2, <2>4, <2>5 DEF View
<1> QED
  BY <1>1, <1>2

LEMMA ViewsAreFiles ==
  \A k \in Keys : Inv1 /\ CacheMatchesFile /\ Written(k) => View(k) = file[k]
  BY ViewIsFile

LEMMA ViewIsNode ==
  ASSUME Inv1, NEW k \in Keys, NEW n \in Nodes, Holds(n, k)
  PROVE  View(k) = node[n].value
<1>1. \A m \in Nodes : Holds(m, k) => m = n
  BY DEF Holds, Inv1, OneNodePerKey
<1>2. NodeFind(n, k)
  BY <1>1, NodesAreNat DEF NodeFind
<1>3. (CHOOSE m \in Nodes : NodeFind(m, k)) = n
  BY <1>1, <1>2 DEF NodeFind
<1> QED
  BY <1>3 DEF View, Cached

LEMMA ViewsAreNodes ==
  \A k \in Keys, n \in Nodes : Inv1 /\ Holds(n, k) => View(k) = node[n].value
  BY ViewIsNode

(* A step leaves the file of a key alone, and its nodes unless they go. *)
Spares(k) ==
  /\ file'[k] = file[k]
  /\ \A n \in Nodes : node'[n].valid /\ node'[n].key = k
       => Holds(n, k) /\ node'[n].value = node[n].value

LEMMA NewNodesSpare ==
  ASSUME NEW i \in Keys, NEW k \in Keys \ {i}, NEW v, NEW w,
         NewNodes(i, v, w), file'[k] = file[k]
  PROVE  Spares(k)
  BY DEF NewNodes, Spares, Holds

LEMMA ReplaceOther ==
  ASSUME Inv1, NEW i \in Keys, NEW k \in Keys \ {i}, NEW v \in Values,
         Replace(i, v)
  PROVE  Spares(k)
<1>1. v \in Contents
  BY ValueIsContent
<1>2. CASE ReplaceSame(i, v)
  <2>1. file' = file
    BY <1>2 DEF ReplaceSame
  <2>2. \A n \in Nodes : node'[n].valid =>
          /\ node[n].valid
          /\ node'[n].key = node[n].key
          /\ node'[n].value = node[n].value
    BY <1>2, ReplaceSameEffect
  <2> QED
    BY <2>1, <2>2 DEF Spares, Holds
<1>3. ASSUME NEW w \in BOOLEAN, CacheValue(i, v, w), file'[k] = file[k]
      PROVE  Spares(k)
  <2>1. NewNodes(i, v, w)
    BY <1>1, <1>3, CacheValueEffect DEF Inv1, NewNodes
  <2> QED
    BY <1>3, <2>1, NewNodesSpare
<1>4. CASE ReplaceUnwritten(i, v)
  BY <1>3, <1>4 DEF ReplaceUnwritten
<1>5. CASE ReplaceWritten(i, v)
  <2>1. CacheValue(i, v, TRUE) /\ file' = [file EXCEPT ![i] = v]
    BY <1>5 DEF ReplaceWritten
  <2>2. file'[k] = file[k]
    BY <2>1 DEF Inv1, TypeOK
  <2> QED
    BY <1>3, <2>1, <2>2
<1>6. CASE ReplaceFailed(i, v)
  <2>1. CacheValue(i, v, FALSE)
    BY <1>6 DEF ReplaceFailed
  <2>2. file'[k] = file[k]
    BY <1>6 DEF ReplaceFailed, Inv1, TypeOK
  <2> QED
    BY <1>3, <2>1, <2>2
<1>7. CASE RemoveFile(i)
  <2>1. NewNodes(i, Absent, FALSE) /\ file'[k] = file[k]
    BY <1>7, RemoveFileEffect DEF NewNodes
  <2> QED
    BY <2>1, NewNodesSpare
<1> QED
  BY <1>2, <1>4, <1>5, <1>6, <1>7 DEF Replace

(* A step leaves the file of a key alone, which is what readers of the key *)
(* see before it and after it.                                             *)
SeesFile(k) == Written(k) /\ Written(k)' /\ file'[k] = file[k]

(* A read of an uncached key may cache it, with what the file holds. *)
LEMMA SeekSame ==
  ASSUME Inv1, NEW k \in Keys, Seek(k)
  PROVE  Spares(k) \/ SeesFile(k)
<1>1. CASE SeekCached(k) \/ SeekFailed(k)
  BY <1>1 DEF SeekCached, SeekFailed, Spares, Holds
<1>2. CASE SeekFile(k)
  <2>1. file' = file /\ Written(k)
    BY <1>2 DEF SeekFile, Cached, Written
  <2>2. \A n \in Nodes : node'[n].valid => node'[n].written \/ node'[n] = node[n]
    BY <1>2, SeekFileEffect
  <2> QED
    BY <2>1, <2>2 DEF SeesFile, Written, Holds
<1> QED
  BY <1>1, <1>2 DEF Seek

LEMMA SeekOther ==
  ASSUME Inv1, NEW i \in Keys, NEW k \in Keys \ {i}, Seek(i)
  PROVE  Spares(k)
<1>1. CASE SeekCached(i) \/ SeekFailed(i)
  BY <1>1 DEF SeekCached, SeekFailed, Spares, Holds
<1>2. CASE SeekFile(i)
  <2>1. file' = file
    BY <1>2 DEF SeekFile
  <2>2. \A n \in Nodes : node'[n].valid =>
          \/ node'[n].key = i /\ node'[n].value = file[i]
          \/ node'[n] = node[n]
    BY <1>2, SeekFileEffect
  <2> QED
    BY <2>1, <2>2 DEF Spares, Holds
<1> QED
  BY <1>1, <1>2 DEF Seek

(* A key is seen as before by reads, Backups and calls on other keys, or,  *)
(* when they drop the node of a failed write, as its file has it.          *)
THEOREM OnlyWritingChangesTheView ==
  ASSUME ComparisonSound
  PROVE  Spec => ViewChangesOnlyByWriting
<1>1. Init => Inv1 /\ CacheMatchesFile
  BY InitInv
<1>2. Inv1 /\ CacheMatchesFile /\ [Next]_vars => (Inv1 /\ CacheMatchesFile)'
  BY NextInv, NextMatches
<1>V. (\A k \in Keys :
         Inv1 /\ CacheMatchesFile /\ Written(k) => View(k) = file[k])'
  BY ViewsAreFiles, PTL
<1>W. (\A k \in Keys, n \in Nodes :
         Inv1 /\ Holds(n, k) => View(k) = node[n].value)'
  BY ViewsAreNodes, PTL
<1>3. ASSUME Inv1, CacheMatchesFile, [Next]_vars,
             Inv1', CacheMatchesFile', NEW k \in Keys,
             ~(\E v \in Values : Replace(k, v)), ~Remove(k), ~Restore, ~Crash,
             ~FallsBack(k)
      PROVE  View(k)' = View(k)
  <2>1. Spares(k) \/ SeesFile(k)
    <3>1. ASSUME NEW i \in Keys, NEW v \in Values, Replace(i, v)
          PROVE  Spares(k)
      <4>1. k \in Keys \ {i}
        BY <1>3, <3>1
      <4> QED
        BY <1>3, <3>1, <4>1, ReplaceOther
    <3>2. ASSUME NEW i \in Keys, Remove(i)
          PROVE  Spares(k)
      <4>1. k \in Keys \ {i}
        BY <1>3, <3>2
      <4>2. NewNodes(i, Absent, FALSE) /\ file'[k] = file[k]
        BY <1>3, <3>2, <4>1, RemoveFileEffect DEF Remove, NewNodes
      <4> QED
        BY <4>1, <4>2, NewNodesSpare
    <3>3. ASSUME NEW i \in Keys, Seek(i)
          PROVE  Spares(k) \/ SeesFile(k)
      <4>1. CASE i = k
        BY <1>3, <3>3, <4>1, SeekSame
      <4>2. CASE i # k
        <5>1. k \in Keys \ {i}
          BY <4>2
        <5> QED
          BY <1>3, <3>3, <5>1, SeekOther
      <4> QED
        BY <4>1, <4>2
    <3>4. CASE Backup
      <4>1. file' = file /\ \A n \in Nodes : ~node'[n].valid
        BY <3>4, EmptyCache DEF Backup
      <4> QED
        BY <4>1 DEF Spares
    <3>5. CASE SetClock \/ UNCHANGED vars
      BY <3>5 DEF SetClock, vars, Spares, Holds
    <3> QED
      BY <1>3, <3>1, <3>2, <3>3, <3>4, <3>5 DEF Next
  <2>2. CASE SeesFile(k)
    <3>1. View(k) = file[k]
      BY <1>3, <2>2, ViewIsFile DEF SeesFile
    <3>2. View(k)' = file'[k]
      BY <1>3, <2>2, <1>V DEF SeesFile
    <3> QED
      BY <2>2, <3>1, <3>2 DEF SeesFile
  <2>3. CASE Spares(k) /\ Cached(k)'
    <3>1. PICK n \in Nodes : Holds(n, k)'
      BY <2>3 DEF Cached
    <3>2. Holds(n, k) /\ node'[n].value = node[n].value
      BY <2>3, <3>1 DEF Spares, Holds
    <3>3. View(k) = node[n].value
      BY <1>3, <3>2, ViewIsNode
    <3>4. View(k)' = node'[n].value
      BY <1>3, <3>1, <1>W
    <3> QED
      BY <3>2, <3>3, <3>4
  <2>4. CASE Spares(k) /\ ~Cached(k)'
    <3>1. file'[k] = file[k]
      BY <2>4 DEF Spares
    <3>2. Written(k)
      BY <1>3, <2>4, <3>1 DEF FallsBack
    <3>3. View(k) = file[k]
      BY <1>3, <3>2, ViewIsFile
    <3>4. View(k)' = file'[k]
      BY <2>4 DEF View
    <3> QED
      BY <3>1, <3>3, <3>4
  <2> QED
    BY <2>1, <2>2, <2>3, <2>4
<1>4. Inv1 /\ CacheMatchesFile /\ [Next]_vars /\ (Inv1 /\ CacheMatchesFile)'
        => [\A k \in Keys :
              View(k)' # View(k)
                => \/ \E v \in Values : Replace(k, v)
                   \/ Remove(k) \/ Restore \/ Crash
                   \/ FallsBack(k)]_vars
  BY <1>3
<1> QED
  BY <1>1, <1>2, <1>4, PTL DEF Spec, ViewChangesOnlyByWriting
=============================================================================
