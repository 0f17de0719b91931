--------------------------- MODULE SequenceLemmas ---------------------------
(***************************************************************************)
(* Facts about sequences that several of the proofs need: their ends and   *)
(* their range, since queues give up their head and grow at the end and    *)
(* stacks do both at the end; and where a sequence of blocks is cut, since *)
(* buffers are given up from the front and grow at the end.                *)
(***************************************************************************)
EXTENDS Integers, Sequences, SequencesExt, SequenceTheorems, WellFoundedInduction, TLAPS

(* a sequence without its end, and its end *)
LEMMA FrontOfSeq ==
  ASSUME NEW S, NEW st \in Seq(S), st # <<>>
  PROVE  /\ Len(st) \in Nat \ {0} /\ DOMAIN st = 1 .. Len(st)
         /\ Front(st) \in Seq(S)
         /\ Len(Front(st)) = Len(st) - 1
         /\ \A i \in 1 .. Len(st) - 1 : Front(st)[i] = st[i]
         /\ Last(st) = st[Len(st)]
         /\ Last(st) \in S
<1>1. Len(st) \in Nat \ {0} /\ DOMAIN st = 1 .. Len(st)
  BY EmptySeq, LenProperties
<1>2. \A i \in 1 .. Len(st) : st[i] \in S
  BY ElementOfSeq
<1>3. 1 \in Int /\ Len(st) - 1 \in Int
  BY <1>1
<1>4. /\ SubSeq(st, 1, Len(st) - 1) \in Seq(S)
      /\ Len(SubSeq(st, 1, Len(st) - 1))
           = IF 1 <= Len(st) - 1 THEN Len(st) - 1 - 1 + 1 ELSE 0
      /\ \A i \in 1 .. Len(st) - 1 - 1 + 1 :
           SubSeq(st, 1, Len(st) - 1)[i] = st[1 + i - 1]
  <2>1. \A i \in 1 .. Len(st) - 1 : st[i] \in S
    BY <1>1, <1>2
  <2>2. QED
    BY <1>3, <2>1, SubSeqProperties
<1>5. Len(st) \in 1 .. Len(st)
  BY <1>1
<1>6. Last(st) = st[Len(st)] /\ Last(st) \in S
  BY <1>2, <1>5 DEF Last
<1>7. Len(SubSeq(st, 1, Len(st) - 1)) = Len(st) - 1
  <2>1. \A n \in Nat \ {0} : (IF 1 <= n - 1 THEN n - 1 - 1 + 1 ELSE 0) = n - 1
    OBVIOUS
  <2>2. QED
    BY <1>1, <1>4, <2>1
<1>8. \A i \in 1 .. Len(st) - 1 : SubSeq(st, 1, Len(st) - 1)[i] = st[i]
  BY <1>1, <1>4
<1>9. Front(st) = SubSeq(st, 1, Len(st) - 1)
  BY DEF Front
<1>10. QED
  BY <1>1, <1>4, <1>6, <1>7, <1>8, <1>9

(* what a sequence holds after Append *)
LEMMA AppendToSeq ==
  ASSUME NEW S, NEW st \in Seq(S), NEW f \in S
  PROVE  /\ Append(st, f) \in Seq(S)
         /\ Len(st) \in Nat
         /\ Len(Append(st, f)) = Len(st) + 1
         /\ \A i \in 1 .. Len(st) : Append(st, f)[i] = st[i]
         /\ Append(st, f)[Len(st) + 1] = f
BY AppendProperties, LenProperties

LEMMA RangeOfAppend ==
  ASSUME NEW S, NEW s \in Seq(S), NEW e \in S
  PROVE  Append(s, e) \in Seq(S) /\ Range(Append(s, e)) \subseteq Range(s) \union {e}
<1>1. /\ Append(s, e) \in Seq(S) /\ Len(Append(s, e)) = Len(s) + 1
      /\ \A i \in 1 .. Len(s) : Append(s, e)[i] = s[i]
      /\ Append(s, e)[Len(s) + 1] = e
      /\ Len(s) \in Nat /\ DOMAIN s = 1 .. Len(s)
  BY AppendProperties, LenProperties
<1>2. DOMAIN Append(s, e) = 1 .. Len(s) + 1
  BY <1>1, LenProperties
<1>3. ASSUME NEW x \in Range(Append(s, e)) PROVE x \in Range(s) \union {e}
  <2>1. PICK i \in 1 .. Len(s) + 1 : x = Append(s, e)[i]
    BY <1>2 DEF Range
  <2>2. CASE i = Len(s) + 1
    BY <1>1, <2>1, <2>2
  <2>3. CASE i # Len(s) + 1
    <3>1. i \in 1 .. Len(s)
      BY <1>1, <2>3
    <3>2. QED
      BY <1>1, <2>1, <3>1 DEF Range
  <2>4. QED
    BY <2>2, <2>3
<1>4. QED
  BY <1>1, <1>3

LEMMA RangeOfTail ==
  ASSUME NEW S, NEW s \in Seq(S), s # <<>>
  PROVE  /\ Tail(s) \in Seq(S) /\ Range(Tail(s)) \subseteq Range(s)
         /\ Head(s) \in S /\ Head(s) \in Range(s)
<1>1. /\ Tail(s) \in Seq(S) /\ Len(Tail(s)) = Len(s) - 1 /\ Head(s) \in S
      /\ \A i \in 1 .. Len(Tail(s)) : Tail(s)[i] = s[i + 1]
      /\ Len(s) \in Nat \ {0} /\ DOMAIN s = 1 .. Len(s)
  BY HeadTailProperties, EmptySeq, LenProperties
<1>2. DOMAIN Tail(s) = 1 .. Len(s) - 1
  BY <1>1, LenProperties
<1>3. ASSUME NEW x \in Range(Tail(s)) PROVE x \in Range(s)
  <2>1. PICK i \in 1 .. Len(s) - 1 : x = Tail(s)[i]
    BY <1>2 DEF Range
  <2>2. x = s[i + 1] /\ i + 1 \in 1 .. Len(s)
    BY <1>1, <2>1
  <2>3. QED
    BY <1>1, <2>2 DEF Range
<1>4. Head(s) \in Range(s)
  <2>1. Head(s) = s[1] /\ 1 \in DOMAIN s
    BY <1>1
  <2>2. QED
    BY <2>1 DEF Range
<1>5. QED
  BY <1>1, <1>3, <1>4

(* A set of naturals has a least member, from which an induction can start. *)
LEMMA LeastNatural ==
  ASSUME NEW S \in SUBSET Nat, S # {}
  PROVE  \E n \in S : \A m \in S : n <= m
<1>1. IsWellFoundedOn(OpToRel(<, Nat), Nat)
  BY NatLessThanWellFounded
<1>2. PICK n \in S : \A m \in S : <<m, n>> \notin OpToRel(<, Nat)
  BY <1>1, WFMin
<1>3. \A m, k \in Nat : <<m, k>> \in OpToRel(<, Nat) <=> m < k
  BY DEF OpToRel
<1>4. \A m \in S : ~(m < n)
  BY <1>2, <1>3
<1>5. QED
  BY <1>4

(* what Min chooses *)
LEMMA MinOfNaturals ==
  ASSUME NEW S \in SUBSET Nat, S # {}
  PROVE  Min(S) \in S /\ \A m \in S : Min(S) <= m
<1>1. \E n \in S : \A m \in S : n =< m
  BY LeastNatural
<1>2. QED
  BY <1>1 DEF Min

(* Sequences without repetitions. *)

LEMMA AppendToInjective ==
  ASSUME NEW S, NEW s \in Seq(S), NEW e \in S, IsInjective(s), e \notin Range(s)
  PROVE  /\ Append(s, e) \in Seq(S) /\ IsInjective(Append(s, e))
         /\ Range(Append(s, e)) = Range(s) \union {e}
<1>1. /\ Append(s, e) \in Seq(S) /\ Len(Append(s, e)) = Len(s) + 1
      /\ \A i \in 1 .. Len(s) : Append(s, e)[i] = s[i]
      /\ Append(s, e)[Len(s) + 1] = e
      /\ Len(s) \in Nat /\ DOMAIN s = 1 .. Len(s)
  BY AppendProperties, LenProperties
<1>2. DOMAIN Append(s, e) = 1 .. Len(s) + 1
  BY <1>1, LenProperties
<1>3. \A i \in 1 .. Len(s) + 1 : i \in 1 .. Len(s) \/ i = Len(s) + 1
  BY <1>1
<1>4. \A i \in 1 .. Len(s) : i \in 1 .. Len(s) + 1 /\ s[i] # e
  BY <1>1 DEF Range
<1>5. \A i, j \in 1 .. Len(s) : s[i] = s[j] => i = j
  BY <1>1 DEF IsInjective
<1>6. IsInjective(Append(s, e))
  <2> SUFFICES ASSUME NEW i \in 1 .. Len(s) + 1, NEW j \in 1 .. Len(s) + 1,
                      Append(s, e)[i] = Append(s, e)[j]
               PROVE  i = j
    BY <1>2 DEF IsInjective
  <2>1. QED
    BY <1>1, <1>3, <1>4, <1>5
<1>7. Len(s) + 1 \in 1 .. Len(s) + 1
  BY <1>1
<1>8. ASSUME NEW x PROVE x \in Range(Append(s, e)) <=> x \in Range(s) \union {e}
  <2>1. x \in Range(Append(s, e)) <=> \E i \in 1 .. Len(s) + 1 : x = Append(s, e)[i]
    BY <1>2 DEF Range
  <2>2. x \in Range(s) <=> \E i \in 1 .. Len(s) : x = s[i]
    BY <1>1 DEF Range
  <2>3. QED
    BY <1>1, <1>3, <1>4, <1>7, <2>1, <2>2
<1>9. QED
  BY <1>1, <1>6, <1>8

LEMMA TailOfInjective ==
  ASSUME NEW S, NEW s \in Seq(S), s # <<>>, IsInjective(s)
  PROVE  /\ Head(s) \in Range(s)
         /\ Tail(s) \in Seq(S) /\ IsInjective(Tail(s))
         /\ Range(Tail(s)) = Range(s) \ {Head(s)}
<1>1. /\ Tail(s) \in Seq(S) /\ Len(Tail(s)) = Len(s) - 1
      /\ \A i \in 1 .. Len(Tail(s)) : Tail(s)[i] = s[i + 1]
      /\ Len(s) \in Nat \ {0} /\ DOMAIN s = 1 .. Len(s)
      /\ Head(s) = s[1]
  BY HeadTailProperties, EmptySeq, LenProperties
<1>2. DOMAIN Tail(s) = 1 .. Len(s) - 1
  BY <1>1, LenProperties
<1>3. \A i \in 1 .. Len(s) - 1 : Tail(s)[i] = s[i + 1] /\ i + 1 \in 1 .. Len(s) /\ i + 1 # 1
  BY <1>1
<1>4. \A i, j \in 1 .. Len(s) : s[i] = s[j] => i = j
  BY <1>1 DEF IsInjective
<1>5. IsInjective(Tail(s))
  <2> SUFFICES ASSUME NEW i \in 1 .. Len(s) - 1, NEW j \in 1 .. Len(s) - 1,
                      Tail(s)[i] = Tail(s)[j]
               PROVE  i = j
    BY <1>2 DEF IsInjective
  <2>1. i + 1 = j + 1
    BY <1>3, <1>4
  <2>2. QED
    BY <2>1
<1>6. 1 \in 1 .. Len(s)
  BY <1>1
<1>7. \A i \in 1 .. Len(s) : i = 1 \/ (i - 1 \in 1 .. Len(s) - 1 /\ i - 1 + 1 = i)
  BY <1>1
<1>8. ASSUME NEW x PROVE x \in Range(Tail(s)) <=> x \in Range(s) \ {Head(s)}
  <2>1. x \in Range(Tail(s)) <=> \E i \in 1 .. Len(s) - 1 : x = Tail(s)[i]
    BY <1>2 DEF Range
  <2>2. x \in Range(s) <=> \E i \in 1 .. Len(s) : x = s[i]
    BY <1>1 DEF Range
  <2>3. ASSUME NEW i \in 1 .. Len(s) - 1, x = Tail(s)[i]
        PROVE  x \in Range(s) \ {Head(s)}
    <3>1. x = s[i + 1] /\ i + 1 \in 1 .. Len(s) /\ i + 1 # 1
      BY <1>3, <2>3
    <3>2. s[i + 1] # s[1]
      BY <1>4, <1>6, <3>1
    <3>3. QED
      BY <1>1, <2>2, <3>1, <3>2
  <2>4. ASSUME NEW i \in 1 .. Len(s), x = s[i], x # Head(s)
        PROVE  \E j \in 1 .. Len(s) - 1 : x = Tail(s)[j]
    <3>1. i - 1 \in 1 .. Len(s) - 1 /\ i - 1 + 1 = i
      BY <1>1, <1>7, <2>4
    <3>2. x = Tail(s)[i - 1]
      BY <1>3, <2>4, <3>1
    <3>3. QED
      BY <3>1, <3>2
  <2>5. QED
    BY <2>1, <2>2, <2>3, <2>4
<1>9. Head(s) \in Range(s)
  BY <1>1, <1>6 DEF Range
<1>10. QED
  BY <1>1, <1>5, <1>8, <1>9

(* what RemoveAt leaves, by position *)
LEMMA RemoveAtOfSeq ==
  ASSUME NEW S, NEW s \in Seq(S), NEW i \in 1 .. Len(s)
  PROVE  /\ RemoveAt(s, i) \in Seq(S)
         /\ Len(s) \in Nat /\ Len(RemoveAt(s, i)) = Len(s) - 1
         /\ \A j \in 1 .. Len(s) - 1 : RemoveAt(s, i)[j] = IF j < i THEN s[j] ELSE s[j + 1]
<1>1. Len(s) \in Nat /\ \A j \in 1 .. Len(s) : s[j] \in S
  BY LenProperties, ElementOfSeq
<1> DEFINE a == SubSeq(s, 1, i - 1)
           b == SubSeq(s, i + 1, Len(s))
<1>2. a \in Seq(S) /\ Len(a) = i - 1 /\ \A j \in 1 .. i - 1 : a[j] = s[j]
  <2>1. 1 \in Int /\ i - 1 \in Int /\ \A j \in 1 .. i - 1 : s[j] \in S
    BY <1>1
  <2>2. /\ a \in Seq(S) /\ Len(a) = IF 1 <= i - 1 THEN (i - 1) - 1 + 1 ELSE 0
        /\ \A j \in 1 .. (i - 1) - 1 + 1 : a[j] = s[1 + j - 1]
    BY <2>1, SubSeqProperties
  <2>3. (IF 1 <= i - 1 THEN (i - 1) - 1 + 1 ELSE 0) = i - 1 /\ (i - 1) - 1 + 1 = i - 1
    BY <1>1
  <2>4. \A j \in 1 .. i - 1 : 1 + j - 1 = j
    BY <1>1
  <2>5. QED
    BY <2>2, <2>3, <2>4
<1>3. b \in Seq(S) /\ Len(b) = Len(s) - i /\ \A j \in 1 .. Len(s) - i : b[j] = s[i + j]
  <2>1. i + 1 \in Int /\ Len(s) \in Int /\ \A j \in i + 1 .. Len(s) : s[j] \in S
    BY <1>1
  <2>2. /\ b \in Seq(S) /\ Len(b) = IF i + 1 <= Len(s) THEN Len(s) - (i + 1) + 1 ELSE 0
        /\ \A j \in 1 .. Len(s) - (i + 1) + 1 : b[j] = s[(i + 1) + j - 1]
    BY <2>1, SubSeqProperties
  <2>3. /\ (IF i + 1 <= Len(s) THEN Len(s) - (i + 1) + 1 ELSE 0) = Len(s) - i
        /\ Len(s) - (i + 1) + 1 = Len(s) - i
    BY <1>1
  <2>4. \A j \in 1 .. Len(s) - i : (i + 1) + j - 1 = i + j
    BY <1>1
  <2>5. QED
    BY <2>2, <2>3, <2>4
<1>4. RemoveAt(s, i) = a \o b
  BY DEF RemoveAt
<1> HIDE DEF a, b
<1>5. /\ a \o b \in Seq(S) /\ Len(a \o b) = Len(a) + Len(b)
      /\ \A j \in 1 .. Len(a) + Len(b) :
           (a \o b)[j] = IF j <= Len(a) THEN a[j] ELSE b[j - Len(a)]
  BY <1>2, <1>3, ConcatProperties
<1>6. Len(a) + Len(b) = Len(s) - 1
  BY <1>1, <1>2, <1>3
<1>7. ASSUME NEW j \in 1 .. Len(s) - 1
      PROVE  (a \o b)[j] = IF j < i THEN s[j] ELSE s[j + 1]
  <2>1. CASE j < i
    <3>1. j \in 1 .. i - 1 /\ j <= Len(a)
      BY <1>1, <1>2, <2>1
    <3>2. QED
      BY <1>2, <1>5, <1>6, <2>1, <3>1
  <2>2. CASE ~(j < i)
    <3>1. j - (i - 1) \in 1 .. Len(s) - i /\ ~(j <= i - 1) /\ i + (j - (i - 1)) = j + 1
      BY <1>1, <2>2
    <3>2. (a \o b)[j] = IF j <= Len(a) THEN a[j] ELSE b[j - Len(a)]
      BY <1>5, <1>6
    <3>3. (a \o b)[j] = b[j - (i - 1)]
      BY <1>2, <3>1, <3>2
    <3>4. b[j - (i - 1)] = s[i + (j - (i - 1))]
      BY <1>3, <3>1
    <3>5. QED
      BY <2>2, <3>1, <3>3, <3>4
  <2>3. QED
    BY <2>1, <2>2
<1>8. QED
  BY <1>1, <1>4, <1>5, <1>6, <1>7

LEMMA RemoveAtOfInjective ==
  ASSUME NEW S, NEW s \in Seq(S), NEW i \in 1 .. Len(s), IsInjective(s)
  PROVE  /\ RemoveAt(s, i) \in Seq(S) /\ IsInjective(RemoveAt(s, i))
         /\ Range(RemoveAt(s, i)) = Range(s) \ {s[i]}
<1> DEFINE r == RemoveAt(s, i)
<1>1. /\ r \in Seq(S) /\ Len(s) \in Nat /\ Len(r) = Len(s) - 1
      /\ \A j \in 1 .. Len(s) - 1 : r[j] = IF j < i THEN s[j] ELSE s[j + 1]
  BY RemoveAtOfSeq
<1> HIDE DEF r
<1>2. DOMAIN s = 1 .. Len(s) /\ DOMAIN r = 1 .. Len(s) - 1
  BY <1>1, LenProperties
<1>3. \A j, k \in 1 .. Len(s) : s[j] = s[k] => j = k
  BY <1>2 DEF IsInjective
<1> DEFINE At(j) == IF j < i THEN j ELSE j + 1
<1>4. \A j \in 1 .. Len(s) - 1 : At(j) \in 1 .. Len(s) /\ At(j) # i
  BY <1>1
<1>5. \A j \in 1 .. Len(s) - 1 : r[j] = s[At(j)]
  BY <1>1
<1>6. \A j, k \in 1 .. Len(s) - 1 : At(j) = At(k) => j = k
  BY <1>1
<1>7. \A j \in 1 .. Len(s) : j # i => \E k \in 1 .. Len(s) - 1 : At(k) = j
  <2> SUFFICES ASSUME NEW j \in 1 .. Len(s), j # i
               PROVE  \E k \in 1 .. Len(s) - 1 : At(k) = j
    OBVIOUS
  <2>1. CASE j < i
    <3>1. j \in 1 .. Len(s) - 1 /\ At(j) = j
      BY <1>1, <2>1
    <3>2. QED
      BY <3>1
  <2>2. CASE j > i
    <3>1. j - 1 \in 1 .. Len(s) - 1 /\ At(j - 1) = j
      BY <1>1, <2>2
    <3>2. QED
      BY <3>1
  <2>3. QED
    BY <1>1, <2>1, <2>2
<1> HIDE DEF At
<1>8. IsInjective(r)
  BY <1>2, <1>3, <1>4, <1>5, <1>6 DEF IsInjective
<1>9. ASSUME NEW x PROVE x \in Range(r) <=> x \in Range(s) \ {s[i]}
  <2>1. x \in Range(r) <=> \E j \in 1 .. Len(s) - 1 : x = r[j]
    BY <1>2 DEF Range
  <2>2. x \in Range(s) <=> \E j \in 1 .. Len(s) : x = s[j]
    BY <1>2 DEF Range
  <2>3. QED
    BY <1>3, <1>4, <1>5, <1>7, <2>1, <2>2
<1>10. QED
  BY <1>1, <1>8, <1>9 DEF r

-----------------------------------------------------------------------------
(* FlattenSeq: it is a recursive function, of which the step is proved     *)
(* with the library's facts about functions on naturals, and what it       *)
(* yields for a whole sequence from the least position where it would not. *)

SeqsOf(S, s, t, u) == s \in Seq(S) /\ t \in Seq(S) /\ u \in Seq(S)

LEMMA ConcatAssoc ==
  ASSUME NEW S, NEW s, NEW t, NEW u, SeqsOf(S, s, t, u)
  PROVE  (s \o t) \o u = s \o (t \o u)
BY ConcatAssociative DEF SeqsOf

Regroups(s, t, u) == (s \o t) \o u = s \o (t \o u)

LEMMA ConcatRegroups ==
  ASSUME NEW S, NEW s, NEW t, NEW u, SeqsOf(S, s, t, u)
  PROVE  Regroups(s, t, u)
BY ConcatAssoc DEF Regroups

(* f is the function that FlattenSeq builds up along seqs *)
FlattensTo(seqs, n, f) ==
  f = [i \in 1 .. n |-> IF i = 1 THEN seqs[i] ELSE f[i - 1] \o seqs[i]]

LEMMA FlattenFunction ==
  ASSUME NEW seqs, NEW n \in Nat
  PROVE  \E f : FlattensTo(seqs, n, f)
<1> DEFINE Bad == {m \in Nat : ~\E f : FlattensTo(seqs, m, f)}
<1>1. ASSUME NEW m \in Bad, \A k \in Bad : m <= k
      PROVE  FALSE
  <2>1. CASE m = 0
    <3> DEFINE f == [i \in 1 .. 0 |-> IF i = 1 THEN seqs[i] ELSE seqs[i]]
    <3>1. FlattensTo(seqs, 0, f)
      BY DEF FlattensTo
    <3>2. QED
      BY <2>1, <3>1
  <2>2. CASE m # 0
    <3>1. m - 1 \in Nat /\ ~(m <= m - 1)
      BY <2>2
    <3>2. PICK f : FlattensTo(seqs, m - 1, f)
      BY <1>1, <3>1
    <3> DEFINE g == [i \in 1 .. m |-> IF i = m
                                        THEN IF i = 1 THEN seqs[i] ELSE f[i - 1] \o seqs[i]
                                        ELSE f[i]]
               h == [i \in 1 .. m |-> IF i = 1 THEN seqs[i] ELSE g[i - 1] \o seqs[i]]
    <3>3. ASSUME NEW i \in 1 .. m PROVE g[i] = h[i]
      <4>1. CASE i = m /\ i # 1
        <5>1. i - 1 \in 1 .. m /\ i - 1 # m
          BY <4>1
        <5>2. g[i - 1] = f[i - 1]
          BY <5>1
        <5>3. QED
          BY <4>1, <5>2
      <4>2. CASE i # m /\ i # 1
        <5>1. i - 1 \in 1 .. m /\ i - 1 # m /\ i \in 1 .. m - 1
          BY <4>2, <3>1
        <5>2. f[i] = f[i - 1] \o seqs[i]
          BY <3>2, <4>2, <5>1 DEF FlattensTo
        <5>3. g[i - 1] = f[i - 1]
          BY <5>1
        <5>4. QED
          BY <4>2, <5>2, <5>3
      <4>3. CASE i = 1
        <5>1. CASE i = m
          BY <4>3, <5>1
        <5>2. CASE i # m
          <6>1. i \in 1 .. m - 1
            BY <4>3, <5>2, <3>1
          <6>2. f[i] = seqs[i]
            BY <3>2, <4>3, <6>1 DEF FlattensTo
          <6>3. QED
            BY <4>3, <5>2, <6>2
        <5>3. QED
          BY <5>1, <5>2
      <4>4. QED
        BY <4>1, <4>2, <4>3
    <3>4. g = h
      BY <3>3
    <3>5. FlattensTo(seqs, m, g)
      BY <3>4 DEF FlattensTo
    <3>6. QED
      BY <3>5, <1>1
  <2>3. QED
    BY <2>1, <2>2
<1>2. Bad = {}
  BY <1>1, LeastNatural
<1>3. QED
  BY <1>2

LEMMA FlattenIsFunction ==
  ASSUME NEW seqs, Len(seqs) \in Nat, Len(seqs) # 0
  PROVE  \E f : FlattensTo(seqs, Len(seqs), f) /\ FlattenSeq(seqs) = f[Len(seqs)]
<1> DEFINE g == CHOOSE f : FlattensTo(seqs, Len(seqs), f)
<1>1. FlattensTo(seqs, Len(seqs), g)
  BY FlattenFunction
<1>2. FlattenSeq(seqs) = g[Len(seqs)]
  BY DEF FlattenSeq, FlattensTo
<1>3. QED
  BY <1>1, <1>2

LEMMA FlattenAt ==
  ASSUME NEW seqs, NEW n, NEW f, FlattensTo(seqs, n, f), NEW i, i \in 1 .. n
  PROVE  f[i] = IF i = 1 THEN seqs[i] ELSE f[i - 1] \o seqs[i]
<1> DEFINE g == [j \in 1 .. n |-> IF j = 1 THEN seqs[j] ELSE f[j - 1] \o seqs[j]]
<1>1. g[i] = IF i = 1 THEN seqs[i] ELSE f[i - 1] \o seqs[i]
  OBVIOUS
<1>2. f = g
  BY DEF FlattensTo
<1> HIDE DEF g
<1>3. f[i] = g[i]
  BY <1>2
<1>4. QED
  BY <1>1, <1>3

Alike(s, t, k) == \A i \in 1 .. k : s[i] = t[i]

LEMMA FlattenPrefixes ==
  ASSUME NEW s, NEW t, NEW m, NEW n, NEW f, NEW g, NEW k,
         {k, m, n} \subseteq Nat, FlattensTo(s, m, f), FlattensTo(t, n, g), k <= m, k <= n,
         Alike(s, t, k)
  PROVE  \A i \in 1 .. k : f[i] = g[i]
<1> DEFINE Bad == {i \in Nat : i \in 1 .. k /\ f[i] # g[i]}
<1>1. ASSUME NEW i \in Bad, \A j \in Bad : i <= j
      PROVE  FALSE
  <2>0. i \in 1 .. m /\ i \in 1 .. n /\ s[i] = t[i]
    BY DEF Alike
  <2>1. /\ i \in 1 .. m /\ i \in 1 .. n /\ s[i] = t[i]
        /\ f[i] = IF i = 1 THEN s[i] ELSE f[i - 1] \o s[i]
        /\ g[i] = IF i = 1 THEN t[i] ELSE g[i - 1] \o t[i]
    BY <2>0, FlattenAt
  <2>2. CASE i = 1
    BY <2>1, <2>2
  <2>3. CASE i # 1
    <3>1. i - 1 \in 1 .. k /\ i - 1 \in Nat /\ ~(i <= i - 1)
      BY <2>3
    <3>2. f[i - 1] = g[i - 1]
      BY <1>1, <3>1
    <3>3. QED
      BY <2>1, <2>3, <3>2
  <2>4. QED
    BY <2>2, <2>3
<1>2. Bad = {}
  BY <1>1, LeastNatural
<1>3. QED
  BY <1>2

LEMMA FlattenEmpty == FlattenSeq(<<>>) = <<>>
BY DEF FlattenSeq

LEMMA FlattenAppend ==
  ASSUME NEW S, NEW b \in Seq(Seq(S)), NEW x \in Seq(S)
  PROVE  FlattenSeq(Append(b, x)) = FlattenSeq(b) \o x
<1> DEFINE c == Append(b, x)
<1>1. /\ Len(c) = Len(b) + 1 /\ Len(b) \in Nat
      /\ \A i \in 1 .. Len(b) : c[i] = b[i]
      /\ c[Len(b) + 1] = x
  BY AppendToSeq
<1> HIDE DEF c
<1>2. PICK f : FlattensTo(c, Len(c), f) /\ FlattenSeq(c) = f[Len(c)]
  <2>1. Len(c) \in Nat /\ Len(c) # 0
    BY <1>1
  <2>2. QED
    BY <2>1, FlattenIsFunction
<1> DEFINE n == Len(c)
<1>3. f[n] = IF n = 1 THEN c[n] ELSE f[n - 1] \o c[n]
  <2>1. n \in 1 .. n /\ FlattensTo(c, n, f)
    BY <1>1, <1>2
  <2> HIDE DEF n
  <2>2. QED
    BY <2>1, FlattenAt
<1>4. CASE b = <<>>
  <2>1. Len(c) = 1
    BY <1>1, <1>4
  <2>2. FlattenSeq(c) = x
    BY <1>1, <1>2, <1>3, <2>1
  <2>3. FlattenSeq(b) = <<>> /\ <<>> \o x = x
    BY <1>4, FlattenEmpty, ConcatEmptySeq
  <2>4. QED
    BY <2>2, <2>3 DEF c
<1>5. CASE b # <<>>
  <2>1. Len(b) \in Nat \ {0}
    BY <1>5, EmptySeq
  <2>2. PICK g : FlattensTo(b, Len(b), g) /\ FlattenSeq(b) = g[Len(b)]
    BY <2>1, FlattenIsFunction
  <2>3. \A i \in 1 .. Len(b) : f[i] = g[i]
    <3> DEFINE k == Len(b)
    <3>1. k <= n /\ {k, n} \subseteq Nat /\ k <= k
      BY <1>1
    <3>2. FlattensTo(c, n, f) /\ FlattensTo(b, k, g) /\ Alike(c, b, k)
      BY <1>1, <1>2, <2>2 DEF Alike
    <3> HIDE DEF k, n
    <3>3. \A i \in 1 .. k : f[i] = g[i]
      BY <3>1, <3>2, FlattenPrefixes
    <3>4. QED
      BY <3>3 DEF k
  <2>4. f[Len(b)] = g[Len(b)]
    BY <2>1, <2>3
  <2>5. Len(c) # 1 /\ Len(c) - 1 = Len(b)
    BY <1>1, <2>1
  <2>6. FlattenSeq(c) = FlattenSeq(b) \o x
    BY <1>1, <1>2, <1>3, <2>2, <2>4, <2>5
  <2>7. QED
    BY <2>6 DEF c
<1>6. QED
  BY <1>4, <1>5

LEMMA FlattenTyped ==
  ASSUME NEW S, NEW b \in Seq(Seq(S))
  PROVE  FlattenSeq(b) \in Seq(S)
<1> DEFINE Bad == {n \in Nat : \E c \in Seq(Seq(S)) : Len(c) = n /\ FlattenSeq(c) \notin Seq(S)}
<1>1. ASSUME NEW n \in Bad, \A m \in Bad : n <= m
      PROVE  FALSE
  <2>1. PICK c \in Seq(Seq(S)) : Len(c) = n /\ FlattenSeq(c) \notin Seq(S)
    OBVIOUS
  <2>2. c # <<>>
    BY <2>1, FlattenEmpty, EmptySeq
  <2>3. PICK d \in Seq(Seq(S)), x \in Seq(S) : c = Append(d, x)
    BY <2>2, SequenceEmptyOrAppend
  <2>4. Len(d) \in Nat /\ Len(d) + 1 = n
    BY <2>1, <2>3, AppendToSeq
  <2>5. FlattenSeq(d) \in Seq(S)
    BY <1>1, <2>4
  <2>6. FlattenSeq(c) = FlattenSeq(d) \o x
    BY <2>3, FlattenAppend
  <2>7. QED
    BY <2>1, <2>5, <2>6, ConcatProperties
<1>2. Bad = {}
  BY <1>1, LeastNatural
<1>3. Len(b) \in Nat
  BY LenProperties
<1>4. QED
  BY <1>2, <1>3

LEMMA FlattenConcat ==
  ASSUME NEW S, NEW a \in Seq(Seq(S)), NEW b \in Seq(Seq(S))
  PROVE  /\ a \o b \in Seq(Seq(S))
         /\ FlattenSeq(a \o b) = FlattenSeq(a) \o FlattenSeq(b)
<1> DEFINE Holds(c) == FlattenSeq(a \o c) = FlattenSeq(a) \o FlattenSeq(c)
           Bad == {n \in Nat : \E c \in Seq(Seq(S)) : Len(c) = n /\ ~Holds(c)}
<1>1. ASSUME NEW n \in Bad, \A m \in Bad : n <= m
      PROVE  FALSE
  <2>1. PICK c \in Seq(Seq(S)) : Len(c) = n /\ ~Holds(c)
    OBVIOUS
  <2>2. c # <<>>
    <3>1. a \o <<>> = a /\ FlattenSeq(a) \o <<>> = FlattenSeq(a)
      BY ConcatEmptySeq, FlattenTyped
    <3>2. QED
      BY <2>1, <3>1, FlattenEmpty
  <2>3. PICK d \in Seq(Seq(S)), x \in Seq(S) : c = Append(d, x)
    BY <2>2, SequenceEmptyOrAppend
  <2>4. Len(d) \in Nat /\ Len(d) + 1 = n
    BY <2>1, <2>3, AppendToSeq
  <2>5. Holds(d)
    BY <1>1, <2>4
  <2>6. FlattenSeq(c) = FlattenSeq(d) \o x
    BY <2>3, FlattenAppend
  <2>7. a \o c = Append(a \o d, x) /\ a \o d \in Seq(Seq(S))
    <3>1. c = d \o <<x>> /\ <<x>> \in Seq(Seq(S))
      BY <2>3, AppendIsConcat
    <3>2. a \o d \in Seq(Seq(S))
      BY ConcatProperties
    <3> DEFINE T == Seq(S)
               u == <<x>>
    <3>3. (a \o d) \o <<x>> = a \o c
      <4>1. a \in Seq(T) /\ d \in Seq(T) /\ u \in Seq(T)
        BY <3>1
      <4>2. c = d \o u
        BY <3>1
      <4> HIDE DEF T, u
      <4>3. SeqsOf(T, a, d, u)
        BY <4>1 DEF SeqsOf
      <4>4. Regroups(a, d, u)
        BY <4>3, ConcatRegroups
      <4>5. (a \o d) \o u = a \o c
        BY <4>2, <4>4 DEF Regroups
      <4>6. QED
        BY <4>5 DEF u
    <3>4. Append(a \o d, x) = (a \o d) \o <<x>>
      BY <3>2, AppendIsConcat
    <3>5. QED
      BY <3>2, <3>3, <3>4
  <2>8. FlattenSeq(a \o c) = FlattenSeq(a \o d) \o x
    BY <2>7, FlattenAppend
  <2>9. FlattenSeq(a) \in Seq(S) /\ FlattenSeq(d) \in Seq(S)
    BY FlattenTyped
  <2>10. FlattenSeq(a \o c) = FlattenSeq(a) \o (FlattenSeq(d) \o x)
    <3> DEFINE f == FlattenSeq(a)
               g == FlattenSeq(d)
    <3>1. SeqsOf(S, f, g, x)
      BY <2>9 DEF SeqsOf
    <3>2. FlattenSeq(a \o c) = (f \o g) \o x
      BY <2>5, <2>8
    <3> HIDE DEF f, g
    <3>3. Regroups(f, g, x)
      BY <3>1, ConcatRegroups
    <3>4. QED
      BY <3>2, <3>3 DEF Regroups, f, g
  <2>11. QED
    BY <2>1, <2>6, <2>10
<1>2. Bad = {}
  BY <1>1, LeastNatural
<1>3. Len(b) \in Nat
  BY LenProperties
<1>4. Holds(b)
  BY <1>2, <1>3
<1>5. a \o b \in Seq(Seq(S))
  BY ConcatProperties
<1>6. QED
  BY <1>4, <1>5

LEMMA FlattenOne ==
  ASSUME NEW S, NEW x \in Seq(S)
  PROVE  <<x>> \in Seq(Seq(S)) /\ FlattenSeq(<<x>>) = x
<1>1. <<>> \in Seq(Seq(S)) /\ <<x>> = Append(<<>>, x)
  BY EmptySeq
<1>2. FlattenSeq(<<x>>) = <<>> \o x
  BY <1>1, FlattenEmpty, FlattenAppend
<1>3. QED
  BY <1>2, ConcatEmptySeq

-----------------------------------------------------------------------------
(* Cutting sequences. *)
FirstPart(s, n) == SubSeq(s, 1, n)
RestOf(s, n) == SubSeq(s, n + 1, Len(s))

(* s can be cut after its first n elements *)
CanCut(S, s, n) == s \in Seq(S) /\ n \in 0 .. Len(s)

LEMMA CutParts ==
  ASSUME NEW S, NEW s, NEW n, CanCut(S, s, n)
  PROVE  /\ Len(s) \in Nat
         /\ FirstPart(s, n) \in Seq(S) /\ Len(FirstPart(s, n)) = n
         /\ \A i \in 1 .. n : FirstPart(s, n)[i] = s[i]
         /\ RestOf(s, n) \in Seq(S) /\ Len(RestOf(s, n)) = Len(s) - n
         /\ \A i \in 1 .. Len(s) - n : RestOf(s, n)[i] = s[n + i]
<1>1. Len(s) \in Nat /\ \A i \in 1 .. Len(s) : s[i] \in S
  BY LenProperties, ElementOfSeq DEF CanCut
<1>2. n \in Nat /\ n <= Len(s)
  BY <1>1 DEF CanCut
<1>3. /\ FirstPart(s, n) \in Seq(S) /\ Len(FirstPart(s, n)) = n
      /\ \A i \in 1 .. n : FirstPart(s, n)[i] = s[i]
  <2>1. 1 \in Int /\ n \in Int /\ \A i \in 1 .. n : s[i] \in S
    BY <1>1, <1>2
  <2>2. /\ FirstPart(s, n) \in Seq(S)
        /\ Len(FirstPart(s, n)) = IF 1 <= n THEN n - 1 + 1 ELSE 0
        /\ \A i \in 1 .. n - 1 + 1 : FirstPart(s, n)[i] = s[1 + i - 1]
    BY <2>1, SubSeqProperties DEF FirstPart
  <2>3. n - 1 + 1 = n /\ (IF 1 <= n THEN n - 1 + 1 ELSE 0) = n
    BY <1>2
  <2>4. \A i \in 1 .. n : 1 + i - 1 = i
    BY <1>2
  <2>5. QED
    BY <2>2, <2>3, <2>4
<1>4. /\ RestOf(s, n) \in Seq(S) /\ Len(RestOf(s, n)) = Len(s) - n
      /\ \A i \in 1 .. Len(s) - n : RestOf(s, n)[i] = s[n + i]
  <2>1. n + 1 \in Int /\ Len(s) \in Int /\ \A i \in n + 1 .. Len(s) : s[i] \in S
    BY <1>1, <1>2
  <2>2. /\ RestOf(s, n) \in Seq(S)
        /\ Len(RestOf(s, n)) = IF n + 1 <= Len(s) THEN Len(s) - (n + 1) + 1 ELSE 0
        /\ \A i \in 1 .. Len(s) - (n + 1) + 1 : RestOf(s, n)[i] = s[(n + 1) + i - 1]
    BY <2>1, SubSeqProperties DEF RestOf
  <2>3. /\ (IF n + 1 <= Len(s) THEN Len(s) - (n + 1) + 1 ELSE 0) = Len(s) - n
        /\ Len(s) - (n + 1) + 1 = Len(s) - n
    BY <1>1, <1>2
  <2>4. \A i \in 1 .. Len(s) - n : (n + 1) + i - 1 = n + i
    BY <1>1, <1>2
  <2>5. QED
    BY <2>2, <2>3, <2>4
<1>5. QED
  BY <1>1, <1>3, <1>4

LEMMA CutJoined ==
  ASSUME NEW S, NEW s, NEW n, CanCut(S, s, n)
  PROVE  FirstPart(s, n) \o RestOf(s, n) = s
<1> DEFINE a == FirstPart(s, n)
           b == RestOf(s, n)
           c == a \o b
<1>0. n \in 0 .. Len(s) /\ s \in Seq(S)
  BY DEF CanCut
<1>1. /\ Len(s) \in Nat
      /\ a \in Seq(S) /\ Len(a) = n /\ \A i \in 1 .. n : a[i] = s[i]
      /\ b \in Seq(S) /\ Len(b) = Len(s) - n /\ \A i \in 1 .. Len(s) - n : b[i] = s[n + i]
  BY CutParts
<1> HIDE DEF a, b
<1>2. /\ c \in Seq(S) /\ Len(c) = Len(a) + Len(b)
      /\ \A i \in 1 .. Len(a) + Len(b) : c[i] = IF i <= Len(a) THEN a[i] ELSE b[i - Len(a)]
  BY <1>1, ConcatProperties
<1> HIDE DEF c
<1>3. Len(c) = Len(s)
  BY <1>0, <1>1, <1>2
<1>4. ASSUME NEW i \in 1 .. Len(c) PROVE c[i] = s[i]
  <2>1. CASE i <= n
    <3>1. i \in 1 .. n
      BY <1>0, <1>1, <1>2, <1>3, <2>1
    <3>2. QED
      BY <1>1, <1>2, <2>1, <3>1
  <2>2. CASE ~(i <= n)
    <3>1. i - n \in 1 .. Len(s) - n /\ n + (i - n) = i
      BY <1>0, <1>1, <1>2, <1>3, <2>2
    <3>2. QED
      BY <1>1, <1>2, <2>2, <3>1
  <2>3. QED
    BY <2>1, <2>2
<1>5. c = s
  BY <1>0, <1>1, <1>2, <1>3, <1>4, SeqEqual
<1>6. QED
  BY <1>5 DEF a, b, c

(* what two sequences joined are cut into, at the joint *)
LEMMA CutAtJoint ==
  ASSUME NEW S, NEW a, NEW b, a \in Seq(S), b \in Seq(S)
  PROVE  /\ a \o b \in Seq(S) /\ Len(a \o b) = Len(a) + Len(b)
         /\ Len(a) \in Nat /\ Len(b) \in Nat
         /\ FirstPart(a \o b, Len(a)) = a
         /\ RestOf(a \o b, Len(a)) = b
<1> DEFINE c == a \o b
           f == FirstPart(c, Len(a))
           r == RestOf(c, Len(a))
<1>1. Len(a) \in Nat /\ Len(b) \in Nat
  BY LenProperties
<1>2. /\ c \in Seq(S) /\ Len(c) = Len(a) + Len(b)
      /\ \A i \in 1 .. Len(a) + Len(b) : c[i] = IF i <= Len(a) THEN a[i] ELSE b[i - Len(a)]
  BY ConcatProperties
<1> HIDE DEF c
<1>3. CanCut(S, c, Len(a))
  BY <1>1, <1>2 DEF CanCut
<1>4. /\ f \in Seq(S) /\ Len(f) = Len(a) /\ \A i \in 1 .. Len(a) : f[i] = c[i]
      /\ r \in Seq(S) /\ Len(r) = Len(c) - Len(a)
      /\ \A i \in 1 .. Len(c) - Len(a) : r[i] = c[Len(a) + i]
  <2> DEFINE n == Len(a)
             g == FirstPart(c, n)
             h == RestOf(c, n)
  <2>1. CanCut(S, c, n)
    BY <1>3
  <2> HIDE DEF n
  <2>2. g \in Seq(S) /\ Len(g) = n /\ \A i \in 1 .. n : g[i] = c[i]
    BY <2>1, CutParts
  <2>3. /\ h \in Seq(S) /\ Len(h) = Len(c) - n
        /\ \A i \in 1 .. Len(c) - n : h[i] = c[n + i]
    BY <2>1, CutParts
  <2>4. f = g /\ r = h
    BY DEF n
  <2> HIDE DEF f, r, g, h
  <2>5. QED
    BY <2>2, <2>3, <2>4 DEF n
<1> HIDE DEF f, r
<1>5. f = a
  <2>1. \A i \in 1 .. Len(a) : i \in 1 .. Len(a) + Len(b) /\ i <= Len(a)
    BY <1>1
  <2>2. \A i \in 1 .. Len(f) : f[i] = a[i]
    BY <1>2, <1>4, <2>1
  <2>3. QED
    BY <1>4, <2>2, SeqEqual
<1>6. r = b
  <2>1. Len(r) = Len(b)
    BY <1>1, <1>2, <1>4
  <2>2. ASSUME NEW i \in 1 .. Len(r) PROVE r[i] = b[i]
    <3>1. /\ i \in 1 .. Len(c) - Len(a) /\ Len(a) + i \in 1 .. Len(a) + Len(b)
          /\ ~(Len(a) + i <= Len(a)) /\ Len(a) + i - Len(a) = i
      BY <1>1, <1>2, <2>1
    <3>2. r[i] = c[Len(a) + i]
      BY <1>4, <3>1
    <3>3. c[Len(a) + i] = b[Len(a) + i - Len(a)]
      BY <1>2, <3>1
    <3>4. QED
      BY <3>1, <3>2, <3>3
  <2>3. QED
    BY <1>4, <2>1, <2>2, SeqEqual
<1>7. QED
  BY <1>1, <1>2, <1>5, <1>6 DEF c, f, r

(* s joins a and b *)
Joins(S, s, a, b) == a \in Seq(S) /\ b \in Seq(S) /\ s = a \o b

LEMMA CutIsUnique ==
  ASSUME NEW S, NEW s, NEW a, NEW b, Joins(S, s, a, b)
  PROVE  a = FirstPart(s, Len(a)) /\ b = RestOf(s, Len(a)) /\ CanCut(S, s, Len(a))
<1>1. /\ a \o b \in Seq(S) /\ Len(a \o b) = Len(a) + Len(b)
      /\ Len(a) \in Nat /\ Len(b) \in Nat
      /\ FirstPart(a \o b, Len(a)) = a
      /\ RestOf(a \o b, Len(a)) = b
  BY CutAtJoint DEF Joins
<1>2. QED
  BY <1>1 DEF CanCut, Joins

LEMMA CancelFront ==
  ASSUME NEW S, NEW a, NEW b, NEW c, SeqsOf(S, a, b, c), a \o b = a \o c
  PROVE  b = c
<1>1. Joins(S, a \o b, a, b) /\ Joins(S, a \o b, a, c)
  BY DEF SeqsOf, Joins
<1>2. b = RestOf(a \o b, Len(a)) /\ c = RestOf(a \o b, Len(a))
  BY <1>1, CutIsUnique
<1>3. QED
  BY <1>2

(* Two ways to join the same sequence: the longer beginning goes on from   *)
(* the shorter one.                                                        *)
SameJoined(S, a, b, c, d) ==
  /\ {a, b, c, d} \subseteq Seq(S)
  /\ a \o b = c \o d
  /\ Len(a) <= Len(c)

LEMMA LongerBeginning ==
  ASSUME NEW S, NEW a, NEW b, NEW c, NEW d, SameJoined(S, a, b, c, d)
  PROVE  \E e \in Seq(S) : c = a \o e /\ b = e \o d
<1> DEFINE f == FirstPart(c, Len(a))
           e == RestOf(c, Len(a))
           s == c \o d
<1>1. /\ a \in Seq(S) /\ b \in Seq(S) /\ c \in Seq(S) /\ d \in Seq(S)
      /\ Len(a) \in Nat /\ Len(a) <= Len(c) /\ Len(c) \in Nat
  BY LenProperties DEF SameJoined
<1>2. CanCut(S, c, Len(a))
  BY <1>1 DEF CanCut
<1>3. f \in Seq(S) /\ e \in Seq(S) /\ Len(f) = Len(a) /\ f \o e = c
  BY <1>2, CutParts, CutJoined
<1> HIDE DEF f, e
<1>4. (f \o e) \o d = f \o (e \o d)
  <2>1. SeqsOf(S, f, e, d)
    BY <1>1, <1>3 DEF SeqsOf
  <2>2. QED
    BY <2>1, ConcatAssoc
<1>5. s = f \o (e \o d) /\ s = a \o b /\ e \o d \in Seq(S)
  BY <1>1, <1>3, <1>4, ConcatProperties DEF SameJoined
<1> HIDE DEF s
<1> DEFINE g == e \o d
<1>6. Joins(S, s, f, g) /\ Joins(S, s, a, b)
  BY <1>1, <1>3, <1>5 DEF Joins
<1> HIDE DEF g
<1>7. f = FirstPart(s, Len(f)) /\ g = RestOf(s, Len(f))
  BY <1>6, CutIsUnique
<1>8. a = FirstPart(s, Len(a)) /\ b = RestOf(s, Len(a))
  BY <1>6, CutIsUnique
<1>9. a = f /\ b = g
  BY <1>3, <1>7, <1>8
<1>10. QED
  BY <1>3, <1>9 DEF g

(* the place to cut the two when joined lies in the first, or the second *)
CutsFirst(S, a, b, n) == CanCut(S, a, n) /\ b \in Seq(S)
CutsSecond(S, a, b, n) == a \in Seq(S) /\ CanCut(S, b, n)

LEMMA CutInFirst ==
  ASSUME NEW S, NEW a, NEW b, NEW n, CutsFirst(S, a, b, n)
  PROVE  /\ FirstPart(a \o b, n) = FirstPart(a, n)
         /\ Joins(S, RestOf(a \o b, n), RestOf(a, n), b)
         /\ CanCut(S, a \o b, n)
<1> DEFINE f == FirstPart(a, n)
           r == RestOf(a, n)
           s == a \o b
<1>0. CanCut(S, a, n) /\ b \in Seq(S)
  BY DEF CutsFirst
<1>1. f \in Seq(S) /\ r \in Seq(S) /\ Len(f) = n /\ f \o r = a
  BY <1>0, CutParts, CutJoined
<1> HIDE DEF f, r
<1>2. r \o b \in Seq(S)
  BY <1>0, <1>1, ConcatProperties
<1>3. s = f \o (r \o b)
  <2>1. SeqsOf(S, f, r, b)
    BY <1>0, <1>1 DEF SeqsOf
  <2>2. (f \o r) \o b = f \o (r \o b)
    BY <2>1, ConcatAssoc
  <2>3. QED
    BY <1>1, <2>2
<1> DEFINE g == r \o b
<1>4. Joins(S, s, f, g)
  BY <1>1, <1>2, <1>3 DEF Joins
<1> HIDE DEF s, g
<1>5. f = FirstPart(s, Len(f)) /\ g = RestOf(s, Len(f)) /\ CanCut(S, s, Len(f))
  BY <1>4, CutIsUnique
<1>6. f = FirstPart(s, n) /\ g = RestOf(s, n) /\ CanCut(S, s, n)
  BY <1>1, <1>5
<1>7. Joins(S, g, r, b)
  BY <1>0, <1>1 DEF Joins, g
<1>8. QED
  BY <1>6, <1>7 DEF f, r, s

LEMMA CutInSecond ==
  ASSUME NEW S, NEW a, NEW b, NEW n, CutsSecond(S, a, b, n)
  PROVE  /\ Joins(S, FirstPart(a \o b, Len(a) + n), a, FirstPart(b, n))
         /\ RestOf(a \o b, Len(a) + n) = RestOf(b, n)
         /\ CanCut(S, a \o b, Len(a) + n)
<1> DEFINE f == FirstPart(b, n)
           r == RestOf(b, n)
           s == a \o b
           g == a \o f
<1>0. CanCut(S, b, n) /\ a \in Seq(S)
  BY DEF CutsSecond
<1>1. f \in Seq(S) /\ r \in Seq(S) /\ Len(f) = n /\ f \o r = b
  BY <1>0, CutParts, CutJoined
<1> HIDE DEF f, r
<1>2. g \in Seq(S) /\ Len(g) = Len(a) + n
  BY <1>0, <1>1, ConcatProperties
<1>3. s = g \o r
  <2>1. SeqsOf(S, a, f, r)
    BY <1>0, <1>1 DEF SeqsOf
  <2>2. (a \o f) \o r = a \o (f \o r)
    BY <2>1, ConcatAssoc
  <2>3. QED
    BY <1>1, <2>2
<1>4. Joins(S, s, g, r)
  BY <1>1, <1>2, <1>3 DEF Joins
<1> HIDE DEF s, g
<1>5. g = FirstPart(s, Len(g)) /\ r = RestOf(s, Len(g)) /\ CanCut(S, s, Len(g))
  BY <1>4, CutIsUnique
<1>6. g = FirstPart(s, Len(a) + n) /\ r = RestOf(s, Len(a) + n) /\ CanCut(S, s, Len(a) + n)
  BY <1>2, <1>5
<1>7. Joins(S, g, a, f)
  BY <1>0, <1>1 DEF Joins, g
<1>8. QED
  BY <1>6, <1>7 DEF f, r, s

LEMMA CutTwice ==
  ASSUME NEW S, NEW s, NEW m, NEW n, CanCut(S, s, m), CanCut(S, RestOf(s, m), n)
  PROVE  /\ RestOf(RestOf(s, m), n) = RestOf(s, m + n)
         /\ Joins(S, FirstPart(s, m + n), FirstPart(s, m), FirstPart(RestOf(s, m), n))
         /\ CanCut(S, s, m + n)
<1> DEFINE a == FirstPart(s, m)
           b == RestOf(s, m)
<1>1. a \in Seq(S) /\ b \in Seq(S) /\ Len(a) = m /\ a \o b = s
  BY CutParts, CutJoined
<1>2. CutsSecond(S, a, b, n)
  BY <1>1 DEF CutsSecond
<1> HIDE DEF a, b
<1>3. /\ Joins(S, FirstPart(a \o b, Len(a) + n), a, FirstPart(b, n))
      /\ RestOf(a \o b, Len(a) + n) = RestOf(b, n)
      /\ CanCut(S, a \o b, Len(a) + n)
  BY <1>1, <1>2, CutInSecond
<1>4. QED
  BY <1>1, <1>3 DEF a, b

-----------------------------------------------------------------------------
(* Facts about the blocks of a flattened sequence. *)

(* h[i] is what the first i blocks of b hold *)
Accumulates(S, b, h) ==
  /\ h[0] = <<>>
  /\ \A i \in 1 .. Len(b) : h[i - 1] \in Seq(S) /\ h[i] = h[i - 1] \o b[i]

LEMMA FlattenByParts ==
  ASSUME NEW S, NEW b, NEW h, b \in Seq(Seq(S)), Accumulates(S, b, h)
  PROVE  FlattenSeq(b) = h[Len(b)]
<1>1. Len(b) \in Nat /\ (Len(b) = 0 => b = <<>>) /\ \A i \in 1 .. Len(b) : b[i] \in Seq(S)
  BY LenProperties, EmptySeq
<1>2. CASE Len(b) = 0
  BY <1>1, <1>2, FlattenEmpty DEF Accumulates
<1>3. CASE Len(b) # 0
  <2>1. PICK f : FlattensTo(b, Len(b), f) /\ FlattenSeq(b) = f[Len(b)]
    BY <1>1, <1>3, FlattenIsFunction
  <2> DEFINE n == Len(b)
             Bad == {i \in 1 .. n : f[i] # h[i]}
  <2>2. SUFFICES ASSUME Bad # {} PROVE FALSE
    <3>1. n \in 1 .. n
      BY <1>1, <1>3
    <3>2. QED
      BY <2>1, <3>1
  <2>3. PICK i \in Bad : \A m \in Bad : i <= m
    <3>1. Bad \in SUBSET Nat
      BY <1>1
    <3> HIDE DEF Bad
    <3>2. QED
      BY <2>2, <3>1, LeastNatural
  <2>4. i \in 1 .. n /\ f[i] # h[i]
    OBVIOUS
  <2>5. f[i] = IF i = 1 THEN b[i] ELSE f[i - 1] \o b[i]
    BY <2>1, <2>4, FlattenAt
  <2>6. h[i] = h[i - 1] \o b[i] /\ h[i - 1] \in Seq(S)
    BY <2>4 DEF Accumulates
  <2>7. CASE i = 1
    <3>1. h[i - 1] = <<>>
      BY <2>7 DEF Accumulates
    <3>2. b[i] \in Seq(S)
      BY <1>1, <2>4
    <3>3. <<>> \o b[i] = b[i]
      BY <3>2
    <3>4. QED
      BY <2>4, <2>5, <2>6, <2>7, <3>1, <3>3
  <2>8. CASE i # 1
    <3>1. i - 1 \in 1 .. n /\ ~(i <= i - 1)
      BY <1>1, <2>4, <2>8
    <3>2. f[i - 1] = h[i - 1]
      BY <2>3, <3>1
    <3>3. QED
      BY <2>4, <2>5, <2>6, <2>8, <3>2
  <2>9. QED
    BY <2>7, <2>8
<1>4. QED
  BY <1>2, <1>3

(* s can be cut after m elements and after n, which are no fewer *)
CanCutBoth(S, s, m, n) == CanCut(S, s, n) /\ m \in 0 .. n

(* a beginning of s, and what follows it up to n *)
LEMMA CutFurther ==
  ASSUME NEW S, NEW s, NEW m, NEW n, CanCutBoth(S, s, m, n)
  PROVE  /\ Joins(S, FirstPart(s, n), FirstPart(s, m), SubSeq(s, m + 1, n))
         /\ SubSeq(s, m + 1, n) \in Seq(S) /\ Len(SubSeq(s, m + 1, n)) = n - m
         /\ \A i \in 1 .. n - m : SubSeq(s, m + 1, n)[i] = s[m + i]
         /\ CanCut(S, s, m)
<1> DEFINE a == FirstPart(s, n)
           b == FirstPart(s, m)
           c == SubSeq(s, m + 1, n)
<1>1. s \in Seq(S) /\ Len(s) \in Nat /\ m \in Nat /\ n \in Nat /\ m <= n /\ n <= Len(s)
      /\ CanCut(S, s, m) /\ CanCut(S, s, n)
  BY LenProperties DEF CanCut, CanCutBoth
<1>2. a \in Seq(S) /\ Len(a) = n /\ \A i \in 1 .. n : a[i] = s[i]
  BY <1>1, CutParts
<1>3. b \in Seq(S) /\ Len(b) = m /\ \A i \in 1 .. m : b[i] = s[i]
  BY <1>1, CutParts
<1>4. c \in Seq(S) /\ Len(c) = n - m /\ \A i \in 1 .. n - m : c[i] = s[m + i]
  <2>1. \A i \in (m + 1) .. n : i \in 1 .. Len(s)
    BY <1>1
  <2>2. /\ c \in Seq(S)
        /\ Len(c) = IF m + 1 <= n THEN n - (m + 1) + 1 ELSE 0
        /\ \A i \in 1 .. n - (m + 1) + 1 : c[i] = s[(m + 1) + i - 1]
    BY <1>1, <2>1, SubSeqProperties
  <2>3. n - (m + 1) + 1 = n - m
    BY <1>1
  <2>4. Len(c) = n - m
    BY <1>1, <2>2
  <2>5. \A i \in 1 .. n - m : (m + 1) + i - 1 = m + i
    BY <1>1
  <2>6. QED
    BY <2>2, <2>3, <2>4, <2>5
<1> HIDE DEF a, b, c
<1>5. /\ b \o c \in Seq(S) /\ Len(b \o c) = Len(b) + Len(c)
      /\ \A i \in 1 .. Len(b) + Len(c) : (b \o c)[i] = IF i <= Len(b) THEN b[i] ELSE c[i - Len(b)]
  BY <1>3, <1>4, ConcatProperties
<1>6. Len(b \o c) = n /\ Len(b) + Len(c) = n
  BY <1>1, <1>3, <1>4, <1>5
<1>7. ASSUME NEW i \in 1 .. n PROVE a[i] = (b \o c)[i]
  <2>1. CASE i <= m
    <3>1. i \in 1 .. m
      BY <1>1, <2>1
    <3>2. (b \o c)[i] = b[i]
      BY <1>3, <1>5, <1>6, <1>7, <2>1
    <3>3. QED
      BY <1>2, <1>3, <1>7, <3>1, <3>2
  <2>2. CASE ~(i <= m)
    <3>1. i - m \in 1 .. n - m /\ m + (i - m) = i
      BY <1>1, <2>2
    <3>2. (b \o c)[i] = c[i - m]
      BY <1>3, <1>5, <1>6, <1>7, <2>2
    <3>3. c[i - m] = s[i]
      BY <1>4, <3>1
    <3>4. QED
      BY <1>2, <1>7, <3>2, <3>3
  <2>3. QED
    BY <2>1, <2>2
<1>8. a = b \o c
  BY <1>2, <1>5, <1>6, <1>7, SeqEqual
<1>9. QED
  BY <1>1, <1>3, <1>4, <1>8 DEF a, b, c, Joins

(* Sequences of sequences, cut. *)
LEMMA FlattenCut ==
  ASSUME NEW S, NEW b, NEW n, CanCut(Seq(S), b, n)
  PROVE  /\ FirstPart(b, n) \in Seq(Seq(S)) /\ RestOf(b, n) \in Seq(Seq(S))
         /\ Joins(S, FlattenSeq(b), FlattenSeq(FirstPart(b, n)), FlattenSeq(RestOf(b, n)))
         /\ FlattenSeq(b) \in Seq(S)
         /\ Len(FlattenSeq(FirstPart(b, n))) \in Nat /\ Len(FlattenSeq(b)) \in Nat
         /\ Len(FlattenSeq(FirstPart(b, n))) <= Len(FlattenSeq(b))
<1> DEFINE f == FirstPart(b, n)
           r == RestOf(b, n)
<1>1. f \in Seq(Seq(S)) /\ r \in Seq(Seq(S)) /\ f \o r = b
  BY CutParts, CutJoined
<1> HIDE DEF f, r
<1>2. FlattenSeq(f \o r) = FlattenSeq(f) \o FlattenSeq(r)
  BY <1>1, FlattenConcat
<1>3. FlattenSeq(f) \in Seq(S) /\ FlattenSeq(r) \in Seq(S)
  BY <1>1, FlattenTyped
<1>4. /\ FlattenSeq(f) \o FlattenSeq(r) \in Seq(S)
      /\ Len(FlattenSeq(f) \o FlattenSeq(r)) = Len(FlattenSeq(f)) + Len(FlattenSeq(r))
      /\ Len(FlattenSeq(f)) \in Nat /\ Len(FlattenSeq(r)) \in Nat
  BY <1>3, CutAtJoint
<1>5. Len(FlattenSeq(f)) <= Len(FlattenSeq(f)) + Len(FlattenSeq(r))
      /\ Len(FlattenSeq(f)) + Len(FlattenSeq(r)) \in Nat
  BY <1>4
<1>6. FlattenSeq(b) = FlattenSeq(f) \o FlattenSeq(r)
  BY <1>1, <1>2
<1>7. QED
  BY <1>1, <1>3, <1>4, <1>5, <1>6 DEF Joins, f, r

LEMMA FirstOfFirst ==
  ASSUME NEW S, NEW s, NEW m, NEW n, CanCutBoth(S, s, m, n)
  PROVE  /\ FirstPart(FirstPart(s, n), m) = FirstPart(s, m)
         /\ CanCut(S, FirstPart(s, n), m) /\ CanCut(S, s, m)
<1> DEFINE f == FirstPart(s, n)
<1>0. CanCut(S, s, n) /\ m \in 0 .. n
  BY DEF CanCutBoth
<1>1. f \in Seq(S) /\ Len(f) = n /\ Joins(S, s, f, RestOf(s, n))
  BY <1>0, CutParts, CutJoined DEF Joins
<1> HIDE DEF f
<1>2. CutsFirst(S, f, RestOf(s, n), m) /\ CanCut(S, f, m) /\ s = f \o RestOf(s, n)
  BY <1>0, <1>1 DEF Joins, CanCut, CutsFirst
<1>3. FirstPart(f \o RestOf(s, n), m) = FirstPart(f, m) /\ CanCut(S, f \o RestOf(s, n), m)
  BY <1>2, CutInFirst
<1>4. QED
  BY <1>2, <1>3 DEF f

LEMMA FlattenMonotone ==
  ASSUME NEW S, NEW b, NEW m, NEW n, CanCutBoth(Seq(S), b, m, n)
  PROVE  /\ Len(FlattenSeq(FirstPart(b, m))) \in Nat
         /\ Len(FlattenSeq(FirstPart(b, n))) \in Nat
         /\ Len(FlattenSeq(FirstPart(b, m))) <= Len(FlattenSeq(FirstPart(b, n)))
<1> DEFINE f == FirstPart(b, n)
<1>1. FirstPart(f, m) = FirstPart(b, m) /\ CanCut(Seq(S), f, m)
  BY FirstOfFirst
<1> HIDE DEF f
<1>2. /\ Len(FlattenSeq(FirstPart(f, m))) \in Nat /\ Len(FlattenSeq(f)) \in Nat
      /\ Len(FlattenSeq(FirstPart(f, m))) <= Len(FlattenSeq(f))
  BY <1>1, FlattenCut
<1>3. QED
  BY <1>1, <1>2 DEF f

(* one sequence more *)
LEMMA FlattenStep ==
  ASSUME NEW S, NEW b, NEW n, b \in Seq(Seq(S)), n \in 1 .. Len(b)
  PROVE  /\ Joins(S, FlattenSeq(FirstPart(b, n)), FlattenSeq(FirstPart(b, n - 1)), b[n])
         /\ Len(FlattenSeq(FirstPart(b, n - 1))) \in Nat /\ Len(b[n]) \in Nat
         /\ Len(FlattenSeq(FirstPart(b, n))) = Len(FlattenSeq(FirstPart(b, n - 1))) + Len(b[n])
<1> DEFINE f == FirstPart(b, n)
           g == FirstPart(b, n - 1)
<1>1. n \in Nat \ {0} /\ Len(b) \in Nat /\ n <= Len(b) /\ b[n] \in Seq(S)
  BY LenProperties
<1>2. CanCut(Seq(S), b, n) /\ CanCut(Seq(S), b, n - 1)
  BY <1>1 DEF CanCut
<1>3. f \in Seq(Seq(S)) /\ Len(f) = n /\ \A i \in 1 .. n : f[i] = b[i]
  BY <1>2, CutParts
<1>4. g \in Seq(Seq(S)) /\ Len(g) = n - 1 /\ \A i \in 1 .. n - 1 : g[i] = b[i]
  <2> DEFINE m == n - 1
  <2>1. CanCut(Seq(S), b, m)
    BY <1>2
  <2> HIDE DEF m
  <2>2. /\ FirstPart(b, m) \in Seq(Seq(S)) /\ Len(FirstPart(b, m)) = m
        /\ \A i \in 1 .. m : FirstPart(b, m)[i] = b[i]
    BY <2>1, CutParts
  <2>3. QED
    BY <2>2 DEF m
<1> HIDE DEF f, g
<1>5. /\ Append(g, b[n]) \in Seq(Seq(S)) /\ Len(Append(g, b[n])) = Len(g) + 1
      /\ \A i \in 1 .. Len(g) : Append(g, b[n])[i] = g[i]
      /\ Append(g, b[n])[Len(g) + 1] = b[n]
  BY <1>1, <1>4, AppendToSeq
<1>6. Len(Append(g, b[n])) = n /\ Append(g, b[n])[n] = b[n]
  BY <1>1, <1>4, <1>5
<1>7. ASSUME NEW i \in 1 .. n PROVE f[i] = Append(g, b[n])[i]
  <2>1. CASE i = n
    BY <1>3, <1>6, <2>1
  <2>2. CASE i # n
    <3>1. i \in 1 .. n - 1
      BY <1>1, <2>2
    <3>2. QED
      BY <1>3, <1>4, <1>5, <3>1
  <2>3. QED
    BY <2>1, <2>2
<1>8. f = Append(g, b[n])
  BY <1>3, <1>5, <1>6, <1>7, SeqEqual
<1>9. FlattenSeq(f) = FlattenSeq(g) \o b[n] /\ FlattenSeq(g) \in Seq(S)
  BY <1>1, <1>4, <1>8, FlattenAppend, FlattenTyped
<1>10. Joins(S, FlattenSeq(f), FlattenSeq(g), b[n])
  BY <1>1, <1>9 DEF Joins
<1>11. /\ Len(FlattenSeq(g)) \in Nat /\ Len(b[n]) \in Nat
       /\ Len(FlattenSeq(g) \o b[n]) = Len(FlattenSeq(g)) + Len(b[n])
  BY <1>1, <1>9, CutAtJoint
<1>12. QED
  BY <1>9, <1>10, <1>11 DEF f, g

LEMMA FlattenNone ==
  ASSUME NEW S, NEW b, b \in Seq(Seq(S))
  PROVE  /\ FirstPart(b, 0) = <<>> /\ FlattenSeq(FirstPart(b, 0)) = <<>>
         /\ Len(FlattenSeq(FirstPart(b, 0))) = 0
         /\ FirstPart(b, Len(b)) = b
<1>1. Len(b) \in Nat /\ CanCut(Seq(S), b, 0) /\ CanCut(Seq(S), b, Len(b))
  BY LenProperties DEF CanCut
<1>2. FirstPart(b, 0) \in Seq(Seq(S)) /\ Len(FirstPart(b, 0)) = 0
  BY <1>1, CutParts
<1>3. FirstPart(b, 0) = <<>>
  BY <1>2, EmptySeq
<1>4. /\ FirstPart(b, Len(b)) \in Seq(Seq(S)) /\ Len(FirstPart(b, Len(b))) = Len(b)
      /\ \A i \in 1 .. Len(b) : FirstPart(b, Len(b))[i] = b[i]
  BY <1>1, CutParts
<1>5. FirstPart(b, Len(b)) = b
  <2> DEFINE c == FirstPart(b, Len(b))
  <2> HIDE DEF c
  <2>1. c \in Seq(Seq(S)) /\ Len(c) = Len(b) /\ \A i \in 1 .. Len(c) : c[i] = b[i]
    BY <1>4 DEF c
  <2>2. c = b
    BY <2>1, SeqEqual
  <2>3. QED
    BY <2>2 DEF c
<1>6. QED
  BY <1>3, <1>5, FlattenEmpty, EmptySeq
=============================================================================
