-------------------------- MODULE DynTallocr_proofs --------------------------
(***************************************************************************)
(* The free blocks of a chunk stand for the free addresses of it, whatever *)
(* the number of blocks and their sizes: an allocation takes exactly its   *)
(* range out of them, freeing a range puts exactly that range back.        *)
(***************************************************************************)
EXTENDS DynTallocr, SequenceTheorems, WellFoundedInduction, TLAPS

\* A non-empty set of natural numbers has a least one, which Min gives.
LEMMA MinIsLeast ==
  ASSUME NEW S \in SUBSET Nat, S # {}
  PROVE  Min(S) \in S /\ \A y \in S : Min(S) <= y
<1> DEFINE R == {ss \in Nat \X Nat : ss[1] < ss[2]}
<1>1. OpToRel(<, Nat) = R
  BY Zenon DEF OpToRel
<1>2. \E x \in S : \A y \in S : ~(<<y, x>> \in R)
  BY <1>1, NatLessThanWellFounded, WFMin, Zenon
<1>3. \A x, y \in Nat : y < x => <<y, x>> \in R
  OBVIOUS
<1> HIDE DEF R
<1>4. \E x \in S : \A y \in S : x <= y
  <2>1. PICK x \in S : \A y \in S : ~(<<y, x>> \in R)
    BY <1>2
  <2>2. ASSUME NEW y \in S PROVE x <= y
    <3>1. x \in Nat /\ y \in Nat
      OBVIOUS
    <3>2. ~(y < x)
      BY <2>1, <3>1, <1>3
    <3> QED
      BY <3>1, <3>2
  <2> QED
    BY <2>2
<1> QED
  BY <1>4 DEF Min

\* What RemoveAt leaves.
LEMMA RemoveAtElements ==
  ASSUME NEW s \in Seq(BlockT), NEW i \in 1 .. Len(s)
  PROVE  /\ RemoveAt(s, i) \in Seq(BlockT)
         /\ Len(RemoveAt(s, i)) = Len(s) - 1
         /\ \A j \in 1 .. Len(s) - 1 : RemoveAt(s, i)[j] = IF j < i THEN s[j] ELSE s[j + 1]
<1> DEFINE l == SubSeq(s, 1, i - 1)
           r == SubSeq(s, i + 1, Len(s))
<1>0. Len(s) \in Nat /\ \A j \in 1 .. Len(s) : s[j] \in BlockT
  OBVIOUS
<1>1. l \in Seq(BlockT) /\ Len(l) = i - 1 /\ \A j \in 1 .. i - 1 : l[j] = s[j]
  <2>1. \A j \in 1 .. i - 1 : s[j] \in BlockT
    BY <1>0
  <2> QED
    BY <1>0, <2>1, SubSeqProperties
<1>2. r \in Seq(BlockT) /\ Len(r) = Len(s) - i /\ \A j \in 1 .. Len(s) - i : r[j] = s[i + j]
  <2>1. \A j \in i + 1 .. Len(s) : s[j] \in BlockT
    BY <1>0
  <2> QED
    BY <1>0, <2>1, SubSeqProperties
<1>3. RemoveAt(s, i) = l \o r
  BY DEF RemoveAt
<1> HIDE DEF l, r
<1>4. /\ l \o r \in Seq(BlockT) /\ Len(l \o r) = Len(l) + Len(r)
      /\ \A j \in 1 .. Len(l) + Len(r) : (l \o r)[j] = IF j <= Len(l) THEN l[j] ELSE r[j - Len(l)]
  BY <1>1, <1>2, ConcatProperties
<1> QED
  BY <1>0, <1>1, <1>2, <1>3, <1>4

\* What InsertAt gives.
LEMMA InsertAtElements ==
  ASSUME NEW s \in Seq(BlockT), NEW i \in 1 .. Len(s) + 1, NEW e \in BlockT
  PROVE  /\ InsertAt(s, i, e) \in Seq(BlockT)
         /\ Len(InsertAt(s, i, e)) = Len(s) + 1
         /\ InsertAt(s, i, e)[i] = e
         /\ \A j \in 1 .. i - 1 : InsertAt(s, i, e)[j] = s[j]
         /\ \A j \in i + 1 .. Len(s) + 1 : InsertAt(s, i, e)[j] = s[j - 1]
<1> DEFINE l == SubSeq(s, 1, i - 1)
           r == SubSeq(s, i, Len(s))
           m == <<e>>
<1>0. Len(s) \in Nat /\ \A j \in 1 .. Len(s) : s[j] \in BlockT
  OBVIOUS
<1>1. l \in Seq(BlockT) /\ Len(l) = i - 1 /\ \A j \in 1 .. i - 1 : l[j] = s[j]
  <2>1. \A j \in 1 .. i - 1 : s[j] \in BlockT
    BY <1>0
  <2> QED
    BY <1>0, <2>1, SubSeqProperties
<1>2. r \in Seq(BlockT) /\ Len(r) = Len(s) - i + 1 /\ \A j \in 1 .. Len(s) - i + 1 : r[j] = s[i + j - 1]
  <2>1. \A j \in i .. Len(s) : s[j] \in BlockT
    BY <1>0
  <2> QED
    BY <1>0, <2>1, SubSeqProperties
<1>3. m \in Seq(BlockT) /\ Len(m) = 1 /\ m[1] = e
  OBVIOUS
<1>4. InsertAt(s, i, e) = (l \o m) \o r
  BY DEF InsertAt
<1> HIDE DEF l, r, m
<1> DEFINE lm == l \o m
<1>5. /\ lm \in Seq(BlockT) /\ Len(lm) = Len(l) + Len(m)
      /\ \A j \in 1 .. Len(l) + Len(m) : lm[j] = IF j <= Len(l) THEN l[j] ELSE m[j - Len(l)]
  BY <1>1, <1>3, ConcatProperties
<1>6. InsertAt(s, i, e) = lm \o r
  BY <1>4
<1> HIDE DEF lm
<1> DEFINE out == lm \o r
<1>7. /\ out \in Seq(BlockT) /\ Len(out) = Len(lm) + Len(r)
      /\ \A j \in 1 .. Len(lm) + Len(r) : out[j] = IF j <= Len(lm) THEN lm[j] ELSE r[j - Len(lm)]
  <2>1. lm \in Seq(BlockT) /\ r \in Seq(BlockT)
    BY <1>2, <1>5
  <2> QED
    BY <2>1, ConcatProperties
<1>8. InsertAt(s, i, e) = out
  BY <1>6
<1> HIDE DEF out
<1>9. Len(out) = Len(s) + 1
  BY <1>0, <1>1, <1>2, <1>3, <1>5, <1>7
<1>10. i \in Nat /\ Len(lm) = i /\ Len(r) = Len(s) - i + 1
  BY <1>0, <1>1, <1>2, <1>3, <1>5
<1>11. ASSUME NEW j \in 1 .. i - 1 PROVE out[j] = s[j]
  <2>1. out[j] = lm[j] /\ lm[j] = l[j] /\ l[j] = s[j]
    BY <1>10, <1>0, <1>1, <1>3, <1>5, <1>7
  <2> QED
    BY <2>1
<1>12. out[i] = e
  <2>1. out[i] = lm[i] /\ lm[i] = m[1]
    BY <1>10, <1>0, <1>1, <1>3, <1>5, <1>7
  <2> QED
    BY <2>1, <1>3
<1>13. ASSUME NEW j \in i + 1 .. Len(s) + 1 PROVE out[j] = s[j - 1]
  <2>1. out[j] = r[j - i] /\ r[j - i] = s[j - 1]
    BY <1>10, <1>0, <1>2, <1>7
  <2> QED
    BY <2>1
<1> QED
  BY <1>7, <1>8, <1>9, <1>11, <1>12, <1>13

Covers(b, o) == b.offset <= o /\ o < End(b)

\* The blocks without block i stay apart and cover what the others cover.
LEMMA RemovedBlocks ==
  ASSUME NEW s \in Seq(BlockT), Apart(s), NEW i \in 1 .. Len(s)
  PROVE  /\ RemoveAt(s, i) \in Seq(BlockT) /\ Apart(RemoveAt(s, i))
         /\ \A o : FreeIn(RemoveAt(s, i), o) <=> \E j \in 1 .. Len(s) : j # i /\ Covers(s[j], o)
<1> DEFINE u == RemoveAt(s, i)
<1>0. Len(s) \in Nat /\ DOMAIN s = 1 .. Len(s) /\ i \in Nat
  OBVIOUS
<1>1. /\ u \in Seq(BlockT) /\ Len(u) = Len(s) - 1
      /\ \A j \in 1 .. Len(s) - 1 : u[j] = IF j < i THEN s[j] ELSE s[j + 1]
  BY RemoveAtElements
<1> HIDE DEF u
<1>2. DOMAIN u = 1 .. Len(s) - 1
  BY <1>0, <1>1
<1>3. Apart(u)
  <2> DEFINE old(j) == IF j < i THEN j ELSE j + 1
  <2>1. \A j \in 1 .. Len(s) - 1 : old(j) \in 1 .. Len(s) /\ u[j] = s[old(j)]
    BY <1>0, <1>1
  <2>2. \A j, k \in 1 .. Len(s) - 1 : j < k => old(j) < old(k)
    BY <1>0
  <2> HIDE DEF old
  <2> QED
    BY <2>1, <2>2, <1>0, <1>2 DEF Apart
<1>4. ASSUME NEW o
      PROVE  FreeIn(u, o) <=> \E j \in 1 .. Len(s) : j # i /\ Covers(s[j], o)
  <2>1. ASSUME NEW k \in 1 .. Len(s) - 1, Covers(u[k], o)
        PROVE  \E j \in 1 .. Len(s) : j # i /\ Covers(s[j], o)
    <3>1. CASE k < i
      BY <2>1, <3>1, <1>0, <1>1
    <3>2. CASE ~(k < i)
      <4>1. u[k] = s[k + 1] /\ k + 1 \in 1 .. Len(s) /\ k + 1 # i
        BY <3>2, <1>0, <1>1
      <4> QED
        BY <2>1, <4>1
    <3> QED
      BY <3>1, <3>2
  <2>2. ASSUME NEW j \in 1 .. Len(s), j # i, Covers(s[j], o)
        PROVE  \E k \in 1 .. Len(s) - 1 : Covers(u[k], o)
    <3>1. CASE j < i
      BY <2>2, <3>1, <1>0, <1>1
    <3>2. CASE ~(j < i)
      <4>1. j - 1 \in 1 .. Len(s) - 1 /\ u[j - 1] = s[(j - 1) + 1] /\ (j - 1) + 1 = j
        BY <2>2, <3>2, <1>0, <1>1
      <4> QED
        BY <2>2, <4>1
    <3> QED
      BY <3>1, <3>2
  <2> QED
    BY <2>1, <2>2, <1>2 DEF FreeIn, Covers
<1> QED
  BY <1>1, <1>3, <1>4 DEF u

\* b lies between the blocks up to i and those from k on
Between(s, i, b, k) == /\ b \in BlockT /\ b.size > 0
                       /\ \A j \in 1 .. Len(s) : j <= i => End(s[j]) < b.offset
                       /\ \A j \in 1 .. Len(s) : j >= k => End(b) < s[j].offset

\* Block i replaced by one that fits between its neighbours.
LEMMA ReplacedBlock ==
  ASSUME NEW s \in Seq(BlockT), Apart(s), NEW i \in 1 .. Len(s), NEW b, Between(s, i - 1, b, i + 1)
  PROVE  /\ [s EXCEPT ![i] = b] \in Seq(BlockT) /\ Apart([s EXCEPT ![i] = b])
         /\ \A o : FreeIn([s EXCEPT ![i] = b], o)
                     <=> Covers(b, o) \/ \E j \in 1 .. Len(s) : j # i /\ Covers(s[j], o)
<1> DEFINE u == [s EXCEPT ![i] = b]
<1>0. Len(s) \in Nat /\ DOMAIN s = 1 .. Len(s) /\ i \in Nat
  OBVIOUS
<1>1. /\ u \in Seq(BlockT) /\ DOMAIN u = 1 .. Len(s)
      /\ u[i] = b /\ \A j \in 1 .. Len(s) : j # i => u[j] = s[j]
  BY <1>0 DEF Between
<1> HIDE DEF u
<1>2. Apart(u)
  <2>1. ASSUME NEW j \in 1 .. Len(s) PROVE u[j].size > 0
    BY <1>0, <1>1 DEF Apart, Between
  <2>2. ASSUME NEW j \in 1 .. Len(s), NEW k \in 1 .. Len(s), j < k PROVE End(u[j]) < u[k].offset
    <3>1. CASE j = i
      BY <3>1, <2>2, <1>0, <1>1 DEF Between
    <3>2. CASE k = i
      BY <3>2, <2>2, <1>0, <1>1 DEF Between
    <3>3. CASE j # i /\ k # i
      BY <3>3, <2>2, <1>0, <1>1 DEF Apart
    <3> QED
      BY <3>1, <3>2, <3>3
  <2> QED
    BY <1>1, <2>1, <2>2 DEF Apart
<1>3. ASSUME NEW o
      PROVE  FreeIn(u, o) <=> Covers(b, o) \/ \E j \in 1 .. Len(s) : j # i /\ Covers(s[j], o)
  BY <1>0, <1>1 DEF FreeIn, Covers
<1> QED
  BY <1>1, <1>2, <1>3 DEF u

\* A new block that fits between block i - 1 and block i.
LEMMA InsertedBlock ==
  ASSUME NEW s \in Seq(BlockT), Apart(s), NEW i \in 1 .. Len(s) + 1, NEW b, Between(s, i - 1, b, i)
  PROVE  /\ InsertAt(s, i, b) \in Seq(BlockT) /\ Apart(InsertAt(s, i, b))
         /\ \A o : FreeIn(InsertAt(s, i, b), o) <=> Covers(b, o) \/ FreeIn(s, o)
<1> DEFINE u == InsertAt(s, i, b)
<1>0. Len(s) \in Nat /\ DOMAIN s = 1 .. Len(s) /\ i \in Nat
  OBVIOUS
<1>1. /\ u \in Seq(BlockT) /\ Len(u) = Len(s) + 1 /\ u[i] = b
      /\ \A j \in 1 .. i - 1 : u[j] = s[j]
      /\ \A j \in i + 1 .. Len(s) + 1 : u[j] = s[j - 1]
  BY ZenonT(40), InsertAtElements DEF Between
<1> HIDE DEF u
<1>2. DOMAIN u = 1 .. Len(s) + 1
  BY <1>0, <1>1
<1>3. Apart(u)
  <2> DEFINE old(j) == IF j < i THEN j ELSE j - 1
  <2>1. \A j \in 1 .. Len(s) + 1 : j # i => old(j) \in 1 .. Len(s) /\ u[j] = s[old(j)]
    BY <1>0, <1>1
  <2>2. \A j, k \in 1 .. Len(s) + 1 : j < k /\ j # i /\ k # i => old(j) < old(k)
    BY <1>0
  <2>3. \A j \in 1 .. Len(s) + 1 : (j < i => old(j) < i) /\ (j > i => old(j) >= i)
    BY <1>0
  <2>4. u[i] = b
    BY <1>0, <1>1
  <2> HIDE DEF old
  <2>5. \A j \in DOMAIN u : u[j].size > 0
    BY <2>1, <2>4, <1>0, <1>2 DEF Apart, Between
  <2>6. ASSUME NEW j \in DOMAIN u, NEW k \in DOMAIN u, j < k
        PROVE  End(u[j]) < u[k].offset
    <3>1. CASE j # i /\ k # i
      BY <3>1, <2>1, <2>2, <2>6, <1>0, <1>2 DEF Apart
    <3>2. CASE j = i
      <4>1. k # i /\ k > i /\ k \in 1 .. Len(s) + 1
        BY <3>2, <2>6, <1>0, <1>2
      <4> QED
        BY <3>2, <4>1, <2>1, <2>3, <2>4, <1>0 DEF Between
    <3>3. CASE k = i
      <4>1. j # i /\ j < i /\ j \in 1 .. Len(s) + 1
        BY <3>3, <2>6, <1>0, <1>2
      <4> QED
        BY <3>3, <4>1, <2>1, <2>3, <2>4, <1>0 DEF Between
    <3> QED
      BY <3>1, <3>2, <3>3
  <2> QED
    BY <2>5, <2>6 DEF Apart
<1>4. ASSUME NEW o
      PROVE  FreeIn(u, o) <=> Covers(b, o) \/ FreeIn(s, o)
  <2>1. ASSUME NEW k \in 1 .. Len(s) + 1, Covers(u[k], o)
        PROVE  Covers(b, o) \/ \E j \in 1 .. Len(s) : Covers(s[j], o)
    <3>1. CASE k <= i
      BY <2>1, <3>1, <1>0, <1>1
    <3>2. CASE k > i
      <4>1. u[k] = s[k - 1] /\ k - 1 \in 1 .. Len(s)
        BY <3>2, <1>0, <1>1
      <4> QED
        BY <2>1, <4>1
    <3> QED
      BY <3>1, <3>2, <1>0
  <2>2. ASSUME NEW j \in 1 .. Len(s), Covers(s[j], o)
        PROVE  \E k \in 1 .. Len(s) + 1 : Covers(u[k], o)
    <3>1. CASE j < i
      BY <2>2, <3>1, <1>0, <1>1
    <3>2. CASE ~(j < i)
      <4>1. j + 1 \in 1 .. Len(s) + 1 /\ u[j + 1] = s[(j + 1) - 1] /\ (j + 1) - 1 = j
        BY <2>2, <3>2, <1>0, <1>1
      <4> QED
        BY <2>2, <4>1
    <3> QED
      BY <3>1, <3>2
  <2>3. i \in 1 .. Len(s) + 1 /\ u[i] = b
    BY <1>0, <1>1
  <2> QED
    BY <2>1, <2>2, <2>3, <1>0, <1>2 DEF FreeIn, Covers
<1> QED
  BY <1>1, <1>3, <1>4 DEF u

\* A block that is removed need not have been the one that was there.
LEMMA RemovedAnyway ==
  ASSUME NEW s \in Seq(BlockT), NEW i \in 1 .. Len(s), NEW b \in BlockT
  PROVE  RemoveAt([s EXCEPT ![i] = b], i) = RemoveAt(s, i)
<1> DEFINE t == [s EXCEPT ![i] = b]
<1>0. Len(s) \in Nat /\ i \in Nat
  OBVIOUS
<1>1. t \in Seq(BlockT) /\ Len(t) = Len(s) /\ \A j \in 1 .. Len(s) : j # i => t[j] = s[j]
  OBVIOUS
<1> HIDE DEF t
<1> DEFINE x == RemoveAt(t, i)
           y == RemoveAt(s, i)
<1>2. /\ x \in Seq(BlockT) /\ Len(x) = Len(s) - 1
      /\ \A j \in 1 .. Len(s) - 1 : x[j] = IF j < i THEN t[j] ELSE t[j + 1]
  BY <1>1, RemoveAtElements
<1>3. /\ y \in Seq(BlockT) /\ Len(y) = Len(s) - 1
      /\ \A j \in 1 .. Len(s) - 1 : y[j] = IF j < i THEN s[j] ELSE s[j + 1]
  BY RemoveAtElements
<1> HIDE DEF x, y
<1>4. \A j \in 1 .. Len(s) - 1 : x[j] = y[j]
  BY <1>0, <1>1, <1>2, <1>3
<1>5. x = y
  BY <1>2, <1>3, <1>4, SeqEqual
<1> QED
  BY <1>5 DEF x, y, t

\* Replacing a block and removing a later one can be done in either order.
LEMMA ReplaceAndRemove ==
  ASSUME NEW s \in Seq(BlockT), NEW k \in 1 .. Len(s), NEW i \in 1 .. k - 1, NEW b \in BlockT
  PROVE  RemoveAt([s EXCEPT ![i] = b], k) = [RemoveAt(s, k) EXCEPT ![i] = b]
<1> DEFINE t == [s EXCEPT ![i] = b]
<1>0. Len(s) \in Nat /\ i \in Nat /\ k \in Nat /\ i \in 1 .. Len(s) - 1
  OBVIOUS
<1>1. t \in Seq(BlockT) /\ Len(t) = Len(s) /\ t[i] = b /\ \A j \in 1 .. Len(s) : j # i => t[j] = s[j]
  BY <1>0
<1> HIDE DEF t
<1> DEFINE x == RemoveAt(t, k)
           z == RemoveAt(s, k)
           y == [z EXCEPT ![i] = b]
<1>2. /\ x \in Seq(BlockT) /\ Len(x) = Len(s) - 1
      /\ \A j \in 1 .. Len(s) - 1 : x[j] = IF j < k THEN t[j] ELSE t[j + 1]
  BY <1>1, RemoveAtElements
<1>3. /\ z \in Seq(BlockT) /\ Len(z) = Len(s) - 1
      /\ \A j \in 1 .. Len(s) - 1 : z[j] = IF j < k THEN s[j] ELSE s[j + 1]
  BY RemoveAtElements
<1> HIDE DEF x, z
<1>4. /\ y \in Seq(BlockT) /\ Len(y) = Len(s) - 1
      /\ y[i] = b /\ \A j \in 1 .. Len(s) - 1 : j # i => y[j] = z[j]
  BY <1>0, <1>3
<1> HIDE DEF y
<1>5. ASSUME NEW j \in 1 .. Len(s) - 1 PROVE x[j] = y[j]
  <2>1. CASE j = i
    BY <2>1, <1>0, <1>1, <1>2, <1>4
  <2>2. CASE j # i /\ j < k
    BY <2>2, <1>0, <1>1, <1>2, <1>3, <1>4
  <2>3. CASE ~(j < k)
    BY <2>3, <1>0, <1>1, <1>2, <1>3, <1>4
  <2> QED
    BY <2>1, <2>2, <2>3
<1>6. x = y
  BY <1>2, <1>4, <1>5, SeqEqual
<1> QED
  BY <1>6 DEF x, y, z, t

\* What the types and Apart say about the numbers.
LEMMA BlockNumbers ==
  ASSUME NEW s \in Seq(BlockT), Apart(s)
  PROVE  /\ Len(s) \in Nat /\ DOMAIN s = 1 .. Len(s)
         /\ \A j \in 1 .. Len(s) : /\ s[j] \in BlockT /\ s[j].offset \in Nat /\ s[j].size \in Nat
                                    /\ s[j].size > 0 /\ End(s[j]) = s[j].offset + s[j].size
         /\ \A j, k \in 1 .. Len(s) : j < k => End(s[j]) < s[k].offset
<1>1. Len(s) \in Nat /\ DOMAIN s = 1 .. Len(s) /\ \A j \in 1 .. Len(s) : s[j] \in BlockT
  OBVIOUS
<1>2. \A b \in BlockT : b.offset \in Nat /\ b.size \in Nat
  BY DEF BlockT
<1> QED
  BY <1>1, <1>2 DEF Apart, End

\* The fields of a block.
LEMMA BlockFields ==
  ASSUME NEW x \in Nat, NEW y \in Nat
  PROVE  Block(x, y) \in BlockT /\ Block(x, y).offset = x /\ Block(x, y).size = y /\ End(Block(x, y)) = x + y
BY DEF Block, BlockT, End

\* The range [off, off + n) cut off the front of block i.
LEMMA TakeBlock ==
  ASSUME NEW s \in Seq(BlockT), Apart(s), NEW i \in 1 .. Len(s), NEW n \in Nat, n > 0, n <= s[i].size
  PROVE  LET t == [s EXCEPT ![i] = Block(s[i].offset + n, s[i].size - n)]
             u == IF s[i].size = n THEN RemoveAt(t, i) ELSE t
         IN  /\ u \in Seq(BlockT) /\ Apart(u)
             /\ \A o \in Nat : FreeIn(u, o) <=> FreeIn(s, o) /\ ~(s[i].offset <= o /\ o < s[i].offset + n)
             /\ \A o \in s[i].offset .. s[i].offset + n - 1 : FreeIn(s, o)
<1> DEFINE b == Block(s[i].offset + n, s[i].size - n)
           t == [s EXCEPT ![i] = b]
           u == IF s[i].size = n THEN RemoveAt(t, i) ELSE t
           x == s[i].offset
           y == s[i].size
<1>0. /\ Len(s) \in Nat /\ DOMAIN s = 1 .. Len(s) /\ i \in Nat /\ x \in Nat /\ y \in Nat /\ n <= y
      /\ \A j \in 1 .. Len(s) : s[j].offset \in Nat /\ s[j].size \in Nat /\ End(s[j]) = s[j].offset + s[j].size
      /\ \A j, k \in 1 .. Len(s) : j < k => End(s[j]) < s[k].offset
  <2> HIDE DEF b, t, u
  <2>1. /\ Len(s) \in Nat /\ DOMAIN s = 1 .. Len(s)
        /\ \A j \in 1 .. Len(s) : s[j].offset \in Nat /\ s[j].size \in Nat /\ End(s[j]) = s[j].offset + s[j].size
    BY BlockNumbers
  <2>2. \A j, k \in 1 .. Len(s) : j < k => End(s[j]) < s[k].offset
    BY BlockNumbers
  <2>3. i \in Nat /\ x \in Nat /\ y \in Nat /\ n <= y
    BY <2>1
  <2> QED
    BY <2>1, <2>2, <2>3
<1>1. b \in BlockT /\ b.offset = x + n /\ b.size = y - n /\ End(b) = x + y
  <2>1. x + n \in Nat /\ y - n \in Nat /\ (x + n) + (y - n) = x + y
    BY <1>0
  <2> QED
    BY ZenonT(40), <2>1, BlockFields
<1>2. \A o \in Nat : Covers(s[i], o) <=> x <= o /\ o < x + y
  BY <1>0 DEF Covers
<1>3. \A o \in Nat : Covers(b, o) <=> x + n <= o /\ o < x + y
  BY <1>1 DEF Covers
<1>4. \A o \in Nat, j \in 1 .. Len(s) : j # i /\ Covers(s[j], o) => ~(x <= o /\ o < x + y)
  <2> SUFFICES ASSUME NEW o \in Nat, NEW j \in 1 .. Len(s), j # i, s[j].offset <= o, o < End(s[j])
               PROVE  ~(x <= o /\ o < x + y)
    BY DEF Covers
  <2>0. s[j].offset \in Nat /\ End(s[j]) \in Nat /\ x \in Nat /\ y \in Nat /\ End(s[i]) = x + y
    BY SMTT(30), <1>0
  <2>1. CASE j < i
    <3>1. End(s[j]) < x
      BY <2>1, <1>0
    <3> QED
      BY <3>1, <2>0
  <2>2. CASE j > i
    <3>1. x + y < s[j].offset
      BY <2>2, <1>0
    <3> QED
      BY <3>1, <2>0
  <2> QED
    BY <2>1, <2>2, <1>0
<1>5. \A o : FreeIn(s, o) <=> Covers(s[i], o) \/ \E j \in 1 .. Len(s) : j # i /\ Covers(s[j], o)
  BY <1>0 DEF FreeIn, Covers
<1>6. \A o \in x .. x + n - 1 : FreeIn(s, o)
  BY <1>0, <1>2, <1>5
<1>7. CASE y = n
  <2>1. u = RemoveAt(s, i)
    BY <1>7, <1>1, RemovedAnyway
  <2>2. u \in Seq(BlockT) /\ Apart(u) /\ \A o : FreeIn(u, o) <=> \E j \in 1 .. Len(s) : j # i /\ Covers(s[j], o)
    BY <2>1, RemovedBlocks
  <2> HIDE DEF u
  <2>3. \A o \in Nat : FreeIn(u, o) <=> FreeIn(s, o) /\ ~(x <= o /\ o < x + n)
    BY <2>2, <1>2, <1>4, <1>5, <1>7
  <2> QED
    BY <2>2, <2>3, <1>6 DEF u
<1>8. CASE y # n
  <2>1. u = t
    BY <1>8
  <2>2. Between(s, i - 1, b, i + 1)
    <3>1. b.size > 0
      BY <1>0, <1>1, <1>8
    <3>2. ASSUME NEW j \in 1 .. Len(s), j <= i - 1 PROVE End(s[j]) < b.offset
      <4>1. End(s[j]) < x /\ End(s[j]) \in Nat
        BY SMTT(30), <3>2, <1>0
      <4> QED
        BY <4>1, <1>0, <1>1
    <3>3. ASSUME NEW j \in 1 .. Len(s), j >= i + 1 PROVE End(b) < s[j].offset
      <4>1. End(s[i]) < s[j].offset /\ End(s[i]) = x + y
        BY <3>3, <1>0
      <4> QED
        BY <4>1, <1>1
    <3> QED
      BY <3>1, <3>2, <3>3, <1>1 DEF Between
  <2> HIDE DEF b, u, x, y
  <2>3. /\ t \in Seq(BlockT) /\ Apart(t)
        /\ \A o : FreeIn(t, o) <=> Covers(b, o) \/ \E j \in 1 .. Len(s) : j # i /\ Covers(s[j], o)
    BY <2>2, ReplacedBlock
  <2> HIDE DEF t
  <2>4. \A o \in Nat : FreeIn(t, o) <=> FreeIn(s, o) /\ ~(x <= o /\ o < x + n)
    <3> SUFFICES ASSUME NEW o \in Nat
                 PROVE  FreeIn(t, o) <=> FreeIn(s, o) /\ ~(x <= o /\ o < x + n)
      OBVIOUS
    <3>1. CASE \E j \in 1 .. Len(s) : j # i /\ Covers(s[j], o)
      BY <3>1, <2>3, <1>0, <1>4, <1>5
    <3>2. CASE ~\E j \in 1 .. Len(s) : j # i /\ Covers(s[j], o)
      <4>1. FreeIn(t, o) <=> x + n <= o /\ o < x + y
        BY <3>2, <2>3, <1>3
      <4>2. FreeIn(s, o) <=> x <= o /\ o < x + y
        BY <3>2, <1>2, <1>5
      <4>3. x \in Nat /\ y \in Nat /\ n <= y
        BY <1>0
      <4> QED
        BY <4>1, <4>2, <4>3
    <3> QED
      BY <3>1, <3>2
  <2> QED
    BY <2>1, <2>3, <2>4, <1>6 DEF u, t, b, x, y
<1> QED
  BY <1>7, <1>8

\* Replacing a block keeps the number of blocks.
LEMMA ExceptInSeq ==
  ASSUME NEW s \in Seq(BlockT), NEW i \in 1 .. Len(s), NEW b \in BlockT
  PROVE  [s EXCEPT ![i] = b] \in Seq(BlockT) /\ Len([s EXCEPT ![i] = b]) = Len(s)
OBVIOUS

\* What the updates of a chunk do to its blocks.
LEMMA EnlargedChunk ==
  ASSUME NEW c \in ChunkT, NEW i \in 1 .. Len(c.free), NEW n \in Nat
  PROVE  /\ Enlarge(c, i, n) \in ChunkT
         /\ Enlarge(c, i, n).free = [c.free EXCEPT ![i] = Block(c.free[i].offset, c.free[i].size + n)]
<1>1. c.free \in Seq(BlockT) /\ c = [max_size |-> c.max_size, free |-> c.free] /\ c.max_size \in Nat
  BY DEF ChunkT
<1>2. c.free[i] \in BlockT
  BY <1>1
<1>3. \A b \in BlockT : [b EXCEPT !.size = @ + n] = Block(b.offset, b.size + n) /\ Block(b.offset, b.size + n) \in BlockT
  BY DEF BlockT, Block
<1>4. [c.free EXCEPT ![i].size = @ + n] = [c.free EXCEPT ![i] = Block(c.free[i].offset, c.free[i].size + n)]
  BY <1>1, <1>2, <1>3
<1>5. [c EXCEPT !.free[i].size = @ + n].free = [c.free EXCEPT ![i].size = @ + n]
  BY <1>1
<1>6. [c.free EXCEPT ![i] = Block(c.free[i].offset, c.free[i].size + n)] \in Seq(BlockT)
  <2>1. Block(c.free[i].offset, c.free[i].size + n) \in BlockT
    BY <1>2, <1>3
  <2> QED
    BY <1>1, <2>1, ExceptInSeq
<1>7. [c EXCEPT !.free[i].size = @ + n] \in ChunkT
  BY <1>1, <1>4, <1>6 DEF ChunkT
<1> QED
  BY <1>4, <1>5, <1>7 DEF Enlarge

\* remove_block in terms of the blocks alone.
LEMMA ShrunkChunk ==
  ASSUME NEW c \in ChunkT, NEW i \in 1 .. Len(c.free)
  PROVE  remove_block(c, i).free = RemoveAt(c.free, i)
BY DEF remove_block, ChunkT

\* no block reaches into the n addresses from off
Taken(s, off, n) == \A j \in 1 .. Len(s) : End(s[j]) <= off \/ off + n <= s[j].offset

\* u has the free addresses of s and the n addresses from off
Freed(u, s, off, n) ==
  /\ u \in Seq(BlockT) /\ Apart(u)
  /\ \A o \in Nat : FreeIn(u, o) <=> FreeIn(s, o) \/ (off <= o /\ o < off + n)

\* A range none of whose addresses is free has no block reaching into it.
LEMMA NotFreeIsTaken ==
  ASSUME NEW s \in Seq(BlockT), Apart(s), NEW off \in Nat, NEW n \in Nat, n > 0,
         \A o \in off .. off + n - 1 : ~FreeIn(s, o)
  PROVE  Taken(s, off, n)
<1> SUFFICES ASSUME NEW j \in 1 .. Len(s), ~(End(s[j]) <= off), ~(off + n <= s[j].offset)
             PROVE  FALSE
  BY DEF Taken
<1>1. j \in DOMAIN s /\ s[j].offset \in Nat /\ s[j].size \in Nat /\ s[j].size > 0 /\ End(s[j]) = s[j].offset + s[j].size
  BY BlockNumbers
<1>2. CASE s[j].offset <= off
  <2>1. FreeIn(s, off)
    BY <1>1, <1>2 DEF FreeIn
  <2> QED
    BY <2>1
<1>3. CASE off < s[j].offset
  <2>1. s[j].offset \in off .. off + n - 1
    BY <1>1, <1>3
  <2>2. s[j].offset <= s[j].offset /\ s[j].offset < End(s[j])
    BY <1>1
  <2>3. FreeIn(s, s[j].offset)
    BY <1>1, <2>2 DEF FreeIn
  <2> QED
    BY <2>1, <2>3
<1> QED
  BY <1>1, <1>2, <1>3

\* Block i made larger by the range, which touches no other block.
LEMMA WidenedBlock ==
  ASSUME NEW s \in Seq(BlockT), Apart(s), NEW i \in 1 .. Len(s), NEW g, Between(s, i - 1, g, i + 1),
         NEW off \in Nat, NEW n \in Nat,
         \A o \in Nat : Covers(g, o) <=> Covers(s[i], o) \/ (off <= o /\ o < off + n)
  PROVE  Freed([s EXCEPT ![i] = g], s, off, n)
<1> DEFINE u == [s EXCEPT ![i] = g]
<1>1. /\ u \in Seq(BlockT) /\ Apart(u)
      /\ \A o : FreeIn(u, o) <=> Covers(g, o) \/ \E j \in 1 .. Len(s) : j # i /\ Covers(s[j], o)
  BY ReplacedBlock
<1> HIDE DEF u
<1>2. \A o : FreeIn(s, o) <=> Covers(s[i], o) \/ \E j \in 1 .. Len(s) : j # i /\ Covers(s[j], o)
  BY DEF FreeIn, Covers
<1>3. ASSUME NEW o \in Nat PROVE FreeIn(u, o) <=> FreeIn(s, o) \/ (off <= o /\ o < off + n)
  BY <1>1, <1>2
<1>4. Freed(u, s, off, n)
  BY <1>1, <1>3 DEF Freed
<1> QED
  BY <1>4 DEF u

\* Block i made larger by the range and by block i + 1, which is removed.
LEMMA MergedBlocks ==
  ASSUME NEW s \in Seq(BlockT), Apart(s), NEW i \in 1 .. Len(s) - 1, NEW g \in BlockT, g.size > 0,
         \A j \in 1 .. Len(s) : j < i => End(s[j]) < g.offset,
         \A j \in 1 .. Len(s) : j > i + 1 => End(g) < s[j].offset,
         NEW off \in Nat, NEW n \in Nat,
         \A o \in Nat : Covers(g, o) <=> \/ Covers(s[i], o) \/ Covers(s[i + 1], o)
                                         \/ (off <= o /\ o < off + n)
  PROVE  Freed(RemoveAt([s EXCEPT ![i] = g], i + 1), s, off, n)
<1> DEFINE z == RemoveAt(s, i + 1)
           u == [z EXCEPT ![i] = g]
<1>0. Len(s) \in Nat /\ i \in Nat /\ i + 1 \in 1 .. Len(s) /\ i \in 1 .. (i + 1) - 1 /\ i \in 1 .. Len(s)
  OBVIOUS
<1>1. RemoveAt([s EXCEPT ![i] = g], i + 1) = u
  BY <1>0, ReplaceAndRemove
<1>2. /\ z \in Seq(BlockT) /\ Apart(z)
      /\ \A o : FreeIn(z, o) <=> \E j \in 1 .. Len(s) : j # i + 1 /\ Covers(s[j], o)
  BY <1>0, RemovedBlocks
<1>3. /\ Len(z) = Len(s) - 1
      /\ \A j \in 1 .. Len(s) - 1 : z[j] = IF j < i + 1 THEN s[j] ELSE s[j + 1]
  BY <1>0, RemoveAtElements
<1> HIDE DEF z
<1>4. Between(z, i - 1, g, i + 1)
  <2>1. ASSUME NEW j \in 1 .. Len(z), j <= i - 1 PROVE End(z[j]) < g.offset
    BY <2>1, <1>0, <1>3
  <2>2. ASSUME NEW j \in 1 .. Len(z), j >= i + 1 PROVE End(g) < z[j].offset
    <3>1. z[j] = s[j + 1] /\ j + 1 \in 1 .. Len(s) /\ j + 1 > i + 1
      BY <2>2, <1>0, <1>3
    <3> QED
      BY <3>1
  <2> QED
    BY <2>1, <2>2 DEF Between
<1>5. i \in 1 .. Len(z)
  BY <1>0, <1>3
<1>6. /\ u \in Seq(BlockT) /\ Apart(u)
      /\ \A o : FreeIn(u, o) <=> Covers(g, o) \/ \E j \in 1 .. Len(z) : j # i /\ Covers(z[j], o)
  BY <1>2, <1>4, <1>5, ReplacedBlock
<1> HIDE DEF u
<1>7. z[i] = s[i]
  BY <1>0, <1>3
<1>8. \A o : FreeIn(z, o) <=> Covers(z[i], o) \/ \E j \in 1 .. Len(z) : j # i /\ Covers(z[j], o)
  BY <1>2, <1>5 DEF FreeIn, Covers
<1>9. \A o : FreeIn(s, o) <=> Covers(s[i + 1], o) \/ FreeIn(z, o)
  <2>1. \A o : FreeIn(s, o) <=> \E j \in 1 .. Len(s) : Covers(s[j], o)
    BY DEF FreeIn, Covers
  <2> QED
    BY <2>1, <1>0, <1>2
<1>10. ASSUME NEW o \in Nat PROVE FreeIn(u, o) <=> FreeIn(s, o) \/ (off <= o /\ o < off + n)
  BY <1>6, <1>7, <1>8, <1>9
<1>11. Freed(u, s, off, n)
  BY <1>6, <1>10 DEF Freed
<1> QED
  BY <1>1, <1>11

\* the blocks after block i, at x with y bytes, took n bytes behind it
GrownBlocks(s, i, x, y, n) ==
  IF i < Len(s) /\ x + y + n = s[i + 1].offset
  THEN RemoveAt([s EXCEPT ![i] = Block(x, y + n + s[i + 1].size)], i + 1)
  ELSE [s EXCEPT ![i] = Block(x, y + n)]

\* GrowUp in terms of the blocks alone.
LEMMA GrowUpBlocks ==
  ASSUME NEW c \in ChunkT, NEW i \in 1 .. Len(c.free), NEW n \in Nat,
         NEW s, s = c.free, NEW x \in Nat, NEW y \in Nat, s[i].offset = x, s[i].size = y
  PROVE  GrowUp(c, i, n).free = GrownBlocks(s, i, x, y, n)
<1> DEFINE b == Enlarge(c, i, n)
           t == [s EXCEPT ![i] = Block(x, y + n)]
<1>0. s \in Seq(BlockT) /\ b \in ChunkT /\ b.free = t /\ Len(s) \in Nat /\ i \in Nat /\ i \in 1 .. Len(s)
  <2>1. s \in Seq(BlockT) /\ i \in 1 .. Len(s)
    BY DEF ChunkT
  <2>2. b \in ChunkT /\ b.free = t
    BY EnlargedChunk
  <2> QED
    BY <2>1, <2>2
<1>1. Block(x, y + n) \in BlockT /\ Block(x, y + n).offset = x /\ Block(x, y + n).size = y + n /\ End(Block(x, y + n)) = x + y + n
  <2>1. y + n \in Nat /\ x + (y + n) = x + y + n
    OBVIOUS
  <2> QED
    BY ZenonT(40), <2>1, BlockFields
<1>2. t \in Seq(BlockT) /\ Len(t) = Len(s) /\ t[i] = Block(x, y + n) /\ \A j \in 1 .. Len(s) : j # i => t[j] = s[j]
  <2>1. t \in Seq(BlockT) /\ Len(t) = Len(s)
    BY <1>0, <1>1, ExceptInSeq
  <2>2. t[i] = Block(x, y + n) /\ \A j \in 1 .. Len(s) : j # i => t[j] = s[j]
    BY <1>0
  <2> QED
    BY <2>1, <2>2
<1>3. GrowUp(c, i, n) = IF i < Len(s) /\ End(t[i]) = t[i + 1].offset
                        THEN remove_block(Enlarge(b, i, t[i + 1].size), i + 1) ELSE b
  BY <1>0 DEF GrowUp
<1> HIDE DEF b
<1>4. CASE i < Len(s) /\ x + y + n = s[i + 1].offset
  <2> DEFINE m == s[i + 1].size
             d == Enlarge(b, i, m)
             g == Block(x, y + n + m)
  <2>1. i + 1 \in 1 .. Len(s) /\ t[i + 1] = s[i + 1] /\ i + 1 # i
    BY <1>0, <1>2, <1>4
  <2>2. m \in Nat
    <3>1. s[i + 1] \in BlockT
      BY <1>0, <2>1
    <3> QED
      BY <3>1 DEF BlockT
  <2>3. GrowUp(c, i, n) = remove_block(d, i + 1)
    BY <1>1, <1>2, <1>3, <1>4, <2>1
  <2> HIDE DEF m
  <2>4. i \in 1 .. Len(b.free)
    BY <1>0, <1>2
  <2>5. d \in ChunkT /\ d.free = [b.free EXCEPT ![i] = Block(b.free[i].offset, b.free[i].size + m)]
    BY <1>0, <2>2, <2>4, EnlargedChunk
  <2>6. b.free[i].offset = x /\ b.free[i].size + m = y + n + m
    BY <1>0, <1>1, <1>2
  <2> HIDE DEF d
  <2>7. d.free = [t EXCEPT ![i] = g]
    BY <2>5, <2>6, <1>0
  <2>8. [t EXCEPT ![i] = g] = [s EXCEPT ![i] = g]
    BY <1>0
  <2>9. Len(d.free) = Len(s)
    BY <2>7, <2>8, <1>0
  <2>10. remove_block(d, i + 1).free = RemoveAt(d.free, i + 1)
    BY <2>1, <2>5, <2>9, ShrunkChunk
  <2> QED
    BY <2>3, <2>7, <2>8, <2>10, <1>4 DEF m, GrownBlocks
<1>5. CASE ~(i < Len(s) /\ x + y + n = s[i + 1].offset)
  <2>1. i < Len(s) => t[i + 1] = s[i + 1]
    <3>1. i < Len(s) => i + 1 \in 1 .. Len(s) /\ i + 1 # i
      BY <1>0
    <3> QED
      BY <3>1, <1>2
  <2>2. GrowUp(c, i, n) = b
    BY <2>1, <1>1, <1>2, <1>3, <1>5
  <2> QED
    BY <2>2, <1>0, <1>5 DEF GrownBlocks
<1> QED
  BY <1>4, <1>5

\* Where a block ends.
LEMMA BlockEnds ==
  ASSUME NEW s \in Seq(BlockT), Apart(s)
  PROVE  \A j \in 1 .. Len(s) : s[j].offset \in Nat /\ End(s[j]) \in Nat /\ s[j].offset < End(s[j])
<1> TAKE j \in 1 .. Len(s)
<1> DEFINE a == s[j].offset
           b == s[j].size
           e == End(s[j])
<1>1. a \in Nat /\ b \in Nat /\ b > 0 /\ e = a + b
  BY BlockNumbers
<1> HIDE DEF a, b, e
<1>2. a \in Nat /\ e \in Nat /\ a < e
  BY <1>1
<1> QED
  BY <1>2 DEF a, e

\* The range after block i is freed.
LEMMA GrownUp ==
  ASSUME NEW c \in ChunkT, NEW s, s = c.free, Apart(s), NEW i \in 1 .. Len(s), NEW n \in Nat, n > 0,
         NEW off, off = End(s[i]), Taken(s, off, n)
  PROVE  Freed(GrowUp(c, i, n).free, s, off, n)
<1>0. s \in Seq(BlockT)
  BY DEF ChunkT
<1> DEFINE x == s[i].offset
           y == s[i].size
<1>1. /\ Len(s) \in Nat /\ i \in Nat /\ x \in Nat /\ y \in Nat /\ y > 0 /\ off = x + y /\ End(s[i]) = x + y
      /\ \A j \in 1 .. Len(s) : s[j].offset \in Nat /\ s[j].size \in Nat /\ s[j].size > 0 /\ End(s[j]) = s[j].offset + s[j].size
      /\ \A j, k \in 1 .. Len(s) : j < k => End(s[j]) < s[k].offset
  <2>1. /\ Len(s) \in Nat
        /\ \A j \in 1 .. Len(s) : s[j].offset \in Nat /\ s[j].size \in Nat /\ s[j].size > 0 /\ End(s[j]) = s[j].offset + s[j].size
        /\ \A j, k \in 1 .. Len(s) : j < k => End(s[j]) < s[k].offset
    BY <1>0, BlockNumbers
  <2>2. x \in Nat /\ y \in Nat /\ y > 0 /\ End(s[i]) = x + y
    BY <2>1
  <2> QED
    BY <2>1, <2>2
<1>2. \A o \in Nat : Covers(s[i], o) <=> x <= o /\ o < x + y
  BY <1>1 DEF Covers
<1>3. \A j \in 1 .. Len(s) : j < i => End(s[j]) < x
  BY <1>1
<1>4. ASSUME NEW j \in 1 .. Len(s), j > i PROVE off + n <= s[j].offset
  <2>1. End(s[i]) < s[j].offset /\ End(s[j]) = s[j].offset + s[j].size /\ s[j].offset \in Nat /\ s[j].size \in Nat
    BY <1>1, <1>4
  <2>2. End(s[j]) <= off \/ off + n <= s[j].offset
    BY DEF Taken
  <2>3. x \in Nat /\ y \in Nat /\ off = x + y /\ End(s[i]) = x + y
    BY <1>1
  <2>4. s[j].size > 0
    BY <1>1
  <2> HIDE DEF x, y
  <2> QED
    BY <2>1, <2>2, <2>3, <2>4
<1>5. i \in 1 .. Len(c.free)
  OBVIOUS
<1>6. GrowUp(c, i, n).free = GrownBlocks(s, i, x, y, n)
  <2>1. s[i].offset = x /\ s[i].size = y
    OBVIOUS
  <2>2. x \in Nat /\ y \in Nat
    BY <1>1
  <2> HIDE DEF x, y
  <2> QED
    BY <1>5, <2>1, <2>2, GrowUpBlocks
<1> HIDE DEF x, y
<1>7. CASE i < Len(s) /\ x + y + n = s[i + 1].offset
  <2> DEFINE m == s[i + 1].size
             g == Block(x, y + n + m)
             p == s[i + 1].offset
  <2>1. i \in 1 .. Len(s) - 1 /\ i + 1 \in 1 .. Len(s) /\ m \in Nat /\ m > 0 /\ p = x + y + n /\ End(s[i + 1]) = p + m
    BY SMTT(30), <1>1, <1>7
  <2>2. g \in BlockT /\ g.offset = x /\ g.size = y + n + m /\ End(g) = p + m
    <3> DEFINE z == y + n + m
    <3>1. z \in Nat /\ x \in Nat
      <4>1. m \in Nat /\ y \in Nat /\ x \in Nat
        BY <1>1, <2>1
      <4> HIDE DEF m
      <4> QED
        BY <4>1
    <3>2. x + z = p + m
      <4>1. m \in Nat /\ y \in Nat /\ x \in Nat /\ p = x + y + n
        BY <1>1, <2>1
      <4> HIDE DEF m, p
      <4> QED
        BY <4>1
    <3>3. g = Block(x, z)
      OBVIOUS
    <3> HIDE DEF z, g
    <3>4. Block(x, z) \in BlockT /\ Block(x, z).offset = x /\ Block(x, z).size = z /\ End(Block(x, z)) = x + z
      BY <3>1, BlockFields
    <3> QED
      BY <3>2, <3>3, <3>4 DEF z
  <2>3. \A o \in Nat : Covers(s[i + 1], o) <=> p <= o /\ o < p + m
    BY <2>1 DEF Covers
  <2>4. \A o \in Nat : Covers(g, o) <=> x <= o /\ o < p + m
    BY <2>2 DEF Covers
  <2>5. \A j \in 1 .. Len(s) : j < i => End(s[j]) < g.offset
    BY <1>3, <2>2
  <2>6. \A j \in 1 .. Len(s) : j > i + 1 => End(g) < s[j].offset
    BY <1>1, <2>1, <2>2
  <2>7. g.size > 0
    <3>1. m \in Nat /\ y \in Nat /\ y > 0 /\ g.size = y + n + m
      BY <1>1, <2>1, <2>2
    <3> HIDE DEF m, g
    <3> QED
      BY <3>1
  <2>8. \A o \in Nat : Covers(g, o) <=> Covers(s[i], o) \/ Covers(s[i + 1], o) \/ (off <= o /\ o < off + n)
    <3>1. p \in Nat /\ m \in Nat /\ x \in Nat /\ y \in Nat /\ p = x + y + n /\ off = x + y
      BY <1>1, <2>1
    <3> HIDE DEF p, m, g
    <3> SUFFICES ASSUME NEW o \in Nat
                 PROVE  Covers(g, o) <=> Covers(s[i], o) \/ Covers(s[i + 1], o) \/ (off <= o /\ o < off + n)
      OBVIOUS
    <3>2. x <= o /\ o < p + m <=> (x <= o /\ o < x + y) \/ (p <= o /\ o < p + m) \/ (off <= o /\ o < off + n)
      BY <3>1
    <3> QED
      BY <3>2, <1>2, <2>3, <2>4
  <2>9. off \in Nat
    BY <1>1
  <2> HIDE DEF g, m, p
  <2>10. Freed(RemoveAt([s EXCEPT ![i] = g], i + 1), s, off, n)
    BY ZenonT(40), <1>0, <2>1, <2>2, <2>5, <2>6, <2>7, <2>8, <2>9, MergedBlocks
  <2> QED
    BY <1>6, <1>7, <2>10 DEF g, m, GrownBlocks
<1>8. CASE ~(i < Len(s) /\ x + y + n = s[i + 1].offset)
  <2> DEFINE g == Block(x, y + n)
  <2>1. g \in BlockT /\ g.offset = x /\ g.size = y + n /\ End(g) = off + n
    <3>1. y + n \in Nat /\ x + (y + n) = off + n
      BY <1>1
    <3> QED
      BY ZenonT(40), <1>1, <3>1, BlockFields
  <2> HIDE DEF g
  <2>2. ASSUME NEW j \in 1 .. Len(s), j >= i + 1 PROVE End(g) < s[j].offset
    <3>1. i + 1 \in 1 .. Len(s) /\ i < Len(s) /\ s[i + 1].offset \in Nat /\ s[j].offset \in Nat /\ off \in Nat
      <4>1. i + 1 \in 1 .. Len(s) /\ i < Len(s)
        BY <1>1, <2>2
      <4>2. off \in Nat
        BY <1>1
      <4> QED
        BY <4>1, <4>2, <1>1, <2>2
    <3>2. off + n < s[i + 1].offset
      <4>1. off + n # s[i + 1].offset
        BY <1>1, <1>8, <3>1
      <4>2. off + n <= s[i + 1].offset
        BY <1>1, <1>4, <3>1
      <4> QED
        BY SMTT(30), <4>1, <4>2, <3>1
    <3>3. s[i + 1].offset <= s[j].offset
      <4>1. CASE j = i + 1
        BY <3>1, <4>1
      <4>2. CASE j # i + 1
        <5> DEFINE k == i + 1
                   q == s[k].offset
                   f == End(s[k])
                   a == s[j].offset
        <5>0. k \in 1 .. Len(s) /\ k < j
          BY <1>1, <2>2, <3>1, <4>2
        <5>1. f < a /\ q \in Nat /\ f \in Nat /\ q < f /\ a \in Nat
          <6> HIDE DEF k
          <6>1. f < a
            BY <5>0, <1>1
          <6>2. q \in Nat /\ f \in Nat /\ q < f /\ a \in Nat
            BY <5>0, <1>0, BlockEnds
          <6> QED
            BY <6>1, <6>2
        <5>2. q <= a
          <6> HIDE DEF k, q, f, a
          <6> QED
            BY <5>1
        <5> QED
          BY <5>2
      <4> QED
        BY <4>1, <4>2
    <3> QED
      BY <2>1, <3>1, <3>2, <3>3
  <2>3. \A j \in 1 .. Len(s) : j <= i - 1 => End(s[j]) < g.offset
    BY <1>1, <1>3, <2>1
  <2>4. g.size > 0
    BY <1>1, <2>1
  <2>5. Between(s, i - 1, g, i + 1)
    BY <2>1, <2>2, <2>3, <2>4 DEF Between
  <2>6. \A o \in Nat : Covers(g, o) <=> x <= o /\ o < off + n
    BY <2>1 DEF Covers
  <2>7. \A o \in Nat : Covers(g, o) <=> Covers(s[i], o) \/ (off <= o /\ o < off + n)
    BY <1>1, <1>2, <2>6
  <2>8. off \in Nat
    BY <1>1
  <2>9. Freed([s EXCEPT ![i] = g], s, off, n)
    BY <1>0, <2>5, <2>7, <2>8, WidenedBlock
  <2> QED
    BY <1>6, <1>8, <2>9 DEF g, GrownBlocks
<1> QED
  BY <1>7, <1>8

\* The range before block i is freed, and no earlier block touches it.
LEMMA GrownDown ==
  ASSUME NEW c \in ChunkT, NEW s, s = c.free, Apart(s), NEW i \in 1 .. Len(s), NEW n \in Nat, n > 0,
         NEW off \in Nat, off + n = s[i].offset, Taken(s, off, n),
         \A j \in 1 .. Len(s) : j < i => End(s[j]) # off
  PROVE  Freed(GrowDown(c, i, off, n).free, s, off, n)
<1>0. s \in Seq(BlockT)
  BY DEF ChunkT
<1> DEFINE x == s[i].offset
           y == s[i].size
           g == Block(off, y + n)
           b == [c EXCEPT !.free[i] = Block(off, @.size + n)]
<1>1. /\ Len(s) \in Nat /\ i \in Nat /\ x \in Nat /\ y \in Nat /\ y > 0 /\ x = off + n /\ End(s[i]) = x + y
      /\ \A j \in 1 .. Len(s) : s[j].offset \in Nat /\ s[j].size \in Nat /\ s[j].size > 0 /\ End(s[j]) = s[j].offset + s[j].size
      /\ \A j, k \in 1 .. Len(s) : j < k => End(s[j]) < s[k].offset
  BY SMTT(30), <1>0, BlockNumbers
<1>2. \A o \in Nat : Covers(s[i], o) <=> x <= o /\ o < x + y
  BY <1>1 DEF Covers
<1>3. g \in BlockT /\ g.offset = off /\ g.size = y + n /\ End(g) = x + y
  <2> DEFINE z == y + n
  <2>1. z \in Nat /\ off + z = x + y
    <3>1. x \in Nat /\ y \in Nat /\ x = off + n
      BY <1>1
    <3> HIDE DEF x, y
    <3> QED
      BY <3>1
  <2>2. g = Block(off, z)
    OBVIOUS
  <2> HIDE DEF z, g
  <2>3. Block(off, z) \in BlockT /\ Block(off, z).offset = off /\ Block(off, z).size = z /\ End(Block(off, z)) = off + z
    BY <2>1, BlockFields
  <2> QED
    BY <2>1, <2>2, <2>3 DEF z
<1>4. b.free = [s EXCEPT ![i] = g]
  BY DEF ChunkT
<1>5. ASSUME NEW j \in 1 .. Len(s), j < i PROVE End(s[j]) < off
  <2> DEFINE a == s[j].offset
             e == End(s[j])
  <2>0. a \in Nat /\ e \in Nat /\ a < e
    BY <1>0, BlockEnds
  <2>1. e < x /\ x = off + n
    BY <1>1, <1>5
  <2>2. e <= off \/ off + n <= a
    BY DEF Taken
  <2>3. e # off
    BY <1>5
  <2> HIDE DEF x, a, e
  <2>4. e < off
    BY <2>0, <2>1, <2>2, <2>3
  <2> QED
    BY <2>4 DEF e
<1>6. GrowDown(c, i, off, n) = b
  <2>1. i > 1 => b.free[i - 1] = s[i - 1] /\ End(s[i - 1]) # off
    <3>1. i > 1 => i - 1 \in 1 .. Len(s) /\ i - 1 # i /\ i - 1 < i
      BY <1>1
    <3>2. i > 1 => b.free[i - 1] = s[i - 1]
      BY <1>0, <1>4, <3>1
    <3> QED
      BY <3>1, <3>2
  <2> QED
    BY <2>1 DEF GrowDown
<1> HIDE DEF b, g, x, y
<1>7. Between(s, i - 1, g, i + 1)
  <2>1. \A j \in 1 .. Len(s) : j <= i - 1 => End(s[j]) < g.offset
    BY <1>1, <1>3, <1>5
  <2>2. \A j \in 1 .. Len(s) : j >= i + 1 => End(g) < s[j].offset
    BY <1>1, <1>3
  <2>3. g.size > 0
    BY <1>1, <1>3
  <2> QED
    BY <2>1, <2>2, <2>3, <1>3 DEF Between
<1>8. \A o \in Nat : Covers(g, o) <=> off <= o /\ o < x + y
  BY <1>3 DEF Covers
<1>9. \A o \in Nat : Covers(g, o) <=> Covers(s[i], o) \/ (off <= o /\ o < off + n)
  BY <1>1, <1>2, <1>8
<1>10. Freed([s EXCEPT ![i] = g], s, off, n)
  BY <1>0, <1>7, <1>9, WidenedBlock
<1> QED
  BY <1>4, <1>6, <1>10

\* The range touches no block and becomes one.
LEMMA Inserted ==
  ASSUME NEW c \in ChunkT, NEW s, s = c.free, Apart(s), NEW n \in Nat, n > 0,
         NEW off \in Nat, Taken(s, off, n),
         \A j \in 1 .. Len(s) : End(s[j]) # off /\ off + n # s[j].offset
  PROVE  Freed(insert_block(c, off, n).free, s, off, n)
<1>0. s \in Seq(BlockT)
  BY DEF ChunkT
<1> DEFINE P == {i \in DOMAIN c.free : c.free[i].offset >= off} \union {Len(c.free) + 1}
           pos == Min(P)
           g == Block(off, n)
<1>1. /\ Len(s) \in Nat /\ DOMAIN s = 1 .. Len(s)
      /\ \A j \in 1 .. Len(s) : s[j].offset \in Nat /\ s[j].size \in Nat /\ s[j].size > 0 /\ End(s[j]) = s[j].offset + s[j].size
      /\ \A j, k \in 1 .. Len(s) : j < k => End(s[j]) < s[k].offset
  BY <1>0, BlockNumbers
<1>2. P \in SUBSET Nat /\ P # {} /\ P = {i \in 1 .. Len(s) : s[i].offset >= off} \union {Len(s) + 1}
  BY <1>1
<1>3. insert_block(c, off, n).free = InsertAt(s, pos, g)
  BY DEF insert_block, ChunkT
<1>4. g \in BlockT /\ g.offset = off /\ g.size = n /\ End(g) = off + n
  BY BlockFields
<1> HIDE DEF P, g
<1>5. pos \in P /\ \A y \in P : pos <= y
  BY <1>2, MinIsLeast
<1> HIDE DEF pos
<1>6. pos \in 1 .. Len(s) + 1
  BY <1>1, <1>2, <1>5
<1>7. ASSUME NEW j \in 1 .. Len(s), j <= pos - 1 PROVE End(s[j]) < off
  <2> DEFINE a == s[j].offset
             e == End(s[j])
  <2>1. a < off
    <3>1. j \notin P
      BY <1>5, <1>6, <1>7, <1>1
    <3> QED
      BY <3>1, <1>1, <1>2
  <2>2. e <= off \/ off + n <= a
    BY DEF Taken
  <2>3. a \in Nat /\ e # off /\ e \in Nat
    BY <1>1
  <2> HIDE DEF a, e
  <2>4. e < off
    BY <2>1, <2>2, <2>3
  <2> QED
    BY <2>4 DEF e
<1>8. ASSUME NEW j \in 1 .. Len(s), j >= pos PROVE off + n < s[j].offset
  <2>1. pos \in 1 .. Len(s) /\ s[pos].offset >= off
    BY <1>1, <1>2, <1>5, <1>6, <1>8
  <2> DEFINE a == s[j].offset
             e == End(s[j])
  <2>2. a >= off
    <3>1. CASE j = pos
      BY <2>1, <3>1
    <3>2. CASE j # pos
      <4> DEFINE q == s[pos].offset
                 f == End(s[pos])
      <4>1. f < a
        BY <2>1, <3>2, <1>1, <1>6, <1>8
      <4>2. q \in Nat /\ f \in Nat /\ q < f /\ a \in Nat
        BY <2>1, <1>0, BlockEnds
      <4>3. off <= q
        BY <2>1, <4>2
      <4> HIDE DEF a, q, f
      <4> QED
        BY <4>1, <4>2, <4>3
    <3> QED
      BY <3>1, <3>2
  <2>3. e <= off \/ off + n <= a
    BY DEF Taken
  <2>4. a \in Nat /\ e \in Nat /\ a < e /\ off + n # a
    BY SMTT(30), <1>1
  <2> HIDE DEF a, e
  <2>5. off + n < a
    BY <2>2, <2>3, <2>4
  <2> QED
    BY <2>5 DEF a
<1>9. Between(s, pos - 1, g, pos)
  BY <1>4, <1>7, <1>8 DEF Between
<1>10. /\ InsertAt(s, pos, g) \in Seq(BlockT) /\ Apart(InsertAt(s, pos, g))
       /\ \A o : FreeIn(InsertAt(s, pos, g), o) <=> Covers(g, o) \/ FreeIn(s, o)
  BY <1>0, <1>6, <1>9, InsertedBlock
<1>11. \A o \in Nat : Covers(g, o) <=> off <= o /\ o < off + n
  BY <1>4 DEF Covers
<1>12. Freed(InsertAt(s, pos, g), s, off, n)
  BY <1>10, <1>11 DEF Freed
<1> QED
  BY <1>3, <1>12

\* A non-empty set of integers below a bound has a greatest one, which Max gives.
LEMMA MaxIsMost ==
  ASSUME NEW S \in SUBSET Int, S # {}, NEW N \in Int, \A x \in S : x <= N
  PROVE  Max(S) \in S /\ \A y \in S : y <= Max(S)
<1> DEFINE T == {N - x : x \in S}
<1>0. \A x \in S : x \in Int /\ x <= N /\ N - x \in Nat
  OBVIOUS
<1>1. T \in SUBSET Nat /\ T # {}
  BY <1>0
<1>2. Min(T) \in T /\ \A y \in T : Min(T) <= y
  BY <1>1, MinIsLeast
<1>3. PICK x \in S : Min(T) = N - x
  BY <1>2
<1>4. \A y \in S : y <= x
  <2> TAKE y \in S
  <2>1. N - y \in T
    OBVIOUS
  <2>2. N - x <= N - y
    BY <1>2, <1>3, <2>1
  <2> QED
    BY <2>2
<1>5. \E z \in S : \A y \in S : z >= y
  BY <1>4
<1> QED
  BY <1>5 DEF Max

\* The size of an allocation is rounded up.
LEMMA AlignedSize ==
  ASSUME NEW n \in Nat
  PROVE  aligned(n) \in Nat /\ aligned(n) >= n
<1>1. Alignment \in Nat \ {0}
  BY TallocrAssumption
<1>2. n % Alignment \in Int
  BY <1>1
<1> DEFINE m == (Alignment - (n % Alignment)) % Alignment
<1>3. Alignment - (n % Alignment) \in Int
  BY <1>1, <1>2
<1>4. m \in Nat
  BY <1>1, <1>3
<1>5. aligned(n) = n + m
  BY DEF aligned
<1> HIDE DEF m
<1> QED
  BY <1>4, <1>5

\* a chunk with other blocks
WithFree(c, f) == [max_size |-> c.max_size, free |-> f]

\* The operations on a chunk change its blocks alone.
LEMMA ChunkShapes ==
  ASSUME NEW c \in ChunkT, NEW f
  PROVE  /\ \A i, n : Enlarge(WithFree(c, f), i, n) = WithFree(c, Enlarge(WithFree(c, f), i, n).free)
         /\ \A i : remove_block(WithFree(c, f), i) = WithFree(c, remove_block(WithFree(c, f), i).free)
         /\ \A off, n : insert_block(WithFree(c, f), off, n) = WithFree(c, insert_block(WithFree(c, f), off, n).free)
BY DEF insert_block, Enlarge, remove_block, WithFree

\* So do the merges.
LEMMA MergeShapes ==
  ASSUME NEW c \in ChunkT, NEW i, NEW n, NEW off
  PROVE  /\ GrowUp(c, i, n) = WithFree(c, GrowUp(c, i, n).free)
         /\ GrowDown(c, i, off, n) = WithFree(c, GrowDown(c, i, off, n).free)
         /\ insert_block(c, off, n) = WithFree(c, insert_block(c, off, n).free)
<1>1. c = WithFree(c, c.free)
  BY DEF ChunkT, WithFree
<1>2. GrowUp(c, i, n) = WithFree(c, GrowUp(c, i, n).free)
  <2> DEFINE b == Enlarge(c, i, n)
             d == Enlarge(b, i, b.free[i + 1].size)
             e == remove_block(d, i + 1)
  <2>1. b = WithFree(c, b.free)
    BY <1>1, ChunkShapes
  <2> HIDE DEF b
  <2>2. d = WithFree(c, d.free)
    BY <2>1, ChunkShapes
  <2> HIDE DEF d
  <2>3. e = WithFree(c, e.free)
    BY <2>2, ChunkShapes
  <2>4. GrowUp(c, i, n) = e \/ GrowUp(c, i, n) = b
    BY DEF GrowUp, b, d
  <2> QED
    BY <2>1, <2>3, <2>4
<1>3. GrowDown(c, i, off, n) = WithFree(c, GrowDown(c, i, off, n).free)
  <2> DEFINE b == [c EXCEPT !.free[i] = Block(off, @.size + n)]
             d == Enlarge(b, i - 1, b.free[i].size)
             e == remove_block(d, i)
  <2>1. b = WithFree(c, b.free)
    BY DEF ChunkT, WithFree
  <2> HIDE DEF b
  <2>2. d = WithFree(c, d.free)
    BY <2>1, ChunkShapes
  <2> HIDE DEF d
  <2>3. e = WithFree(c, e.free)
    BY <2>2, ChunkShapes
  <2>4. GrowDown(c, i, off, n) = e \/ GrowDown(c, i, off, n) = b
    BY DEF GrowDown, b, d
  <2> QED
    BY <2>1, <2>3, <2>4
<1>4. insert_block(c, off, n) = WithFree(c, insert_block(c, off, n).free)
  BY <1>1, ChunkShapes
<1> QED
  BY <1>2, <1>3, <1>4

\* what free_bytes makes of the chunk of the freed range
FreedInto(c, off, n) ==
  LET hits == {i \in DOMAIN c.free : End(c.free[i]) = off \/ off + n = c.free[i].offset}
      i    == Min(hits)
  IN  IF hits = {} THEN insert_block(c, off, n)
      ELSE IF End(c.free[i]) = off THEN GrowUp(c, i, n)
      ELSE GrowDown(c, i, off, n)

\* Its blocks stay apart and gain exactly the range.
LEMMA FreedRange ==
  ASSUME NEW c \in ChunkT, Apart(c.free), NEW n \in Nat, n > 0, NEW off \in Nat, Taken(c.free, off, n)
  PROVE  Freed(FreedInto(c, off, n).free, c.free, off, n)
<1> DEFINE s == c.free
           hits == {i \in DOMAIN s : End(s[i]) = off \/ off + n = s[i].offset}
           i == Min(hits)
<1>1. s \in Seq(BlockT) /\ DOMAIN s = 1 .. Len(s) /\ Len(s) \in Nat
  BY DEF ChunkT
<1>2. s = c.free /\ Apart(s) /\ Taken(s, off, n)
  OBVIOUS
<1>3. FreedInto(c, off, n) = IF hits = {} THEN insert_block(c, off, n)
                             ELSE IF End(s[i]) = off THEN GrowUp(c, i, n)
                             ELSE GrowDown(c, i, off, n)
  BY DEF FreedInto
<1>4. \A j \in 1 .. Len(s) : j \in hits <=> End(s[j]) = off \/ off + n = s[j].offset
  BY <1>1
<1>5. hits \in SUBSET Nat /\ hits \subseteq 1 .. Len(s)
  BY <1>1
<1> HIDE DEF hits, s
<1>6. CASE hits = {}
  <2>1. \A j \in 1 .. Len(s) : End(s[j]) # off /\ off + n # s[j].offset
    BY <1>4, <1>6
  <2> QED
    BY <1>2, <1>3, <1>6, <2>1, Inserted
<1>7. CASE hits # {}
  <2>1. i \in hits /\ \A y \in hits : i <= y
    BY <1>5, <1>7, MinIsLeast
  <2>2. i \in 1 .. Len(s)
    BY <1>5, <2>1
  <2> HIDE DEF i
  <2>3. CASE End(s[i]) = off
    BY <1>2, <1>3, <1>7, <2>2, <2>3, GrownUp
  <2>4. CASE End(s[i]) # off
    <3>1. off + n = s[i].offset
      BY <1>4, <2>1, <2>2, <2>4
    <3>2. \A j \in 1 .. Len(s) : j < i => End(s[j]) # off
      <4> SUFFICES ASSUME NEW j \in 1 .. Len(s), j < i, End(s[j]) = off PROVE FALSE
        OBVIOUS
      <4>1. j \in hits
        BY <1>4
      <4>2. i <= j /\ i \in Nat /\ j \in Nat
        BY <4>1, <2>1, <2>2, <1>1
      <4> QED
        BY <4>2
    <3> QED
      BY <1>2, <1>3, <1>7, <2>2, <2>4, <3>1, <3>2, GrownDown
  <2> QED
    BY <2>3, <2>4
<1> QED
  BY <1>6, <1>7

\* The chunk that free_bytes makes is a chunk with the same high-water mark.
LEMMA FreedIntoChunk ==
  ASSUME NEW c \in ChunkT, NEW off, NEW n, FreedInto(c, off, n).free \in Seq(BlockT)
  PROVE  FreedInto(c, off, n) \in ChunkT /\ FreedInto(c, off, n).max_size = c.max_size
<1> DEFINE r == FreedInto(c, off, n)
<1>1. r = WithFree(c, r.free)
  <2>1. \/ r = insert_block(c, off, n)
        \/ \E i : r = GrowUp(c, i, n) \/ r = GrowDown(c, i, off, n)
    BY DEF FreedInto
  <2> HIDE DEF r
  <2> QED
    BY ZenonT(40), <2>1, MergeShapes
<1> HIDE DEF r
<1>2. \A f \in Seq(BlockT) : WithFree(c, f) \in ChunkT /\ WithFree(c, f).max_size = c.max_size
  BY DEF WithFree, ChunkT
<1> QED
  BY <1>1, <1>2 DEF r

\* ggml_dyn_tallocr_free_bytes, for any number of chunks and blocks: when no
\* address of the range is free, its chunk's blocks stay sorted, non-empty
\* and apart, the free addresses gain exactly the range, and no chunk has
\* another high-water mark.
THEOREM FreedIsFree ==
  ASSUME NEW a, Allocator(a), NEW k \in DOMAIN a, NEW off \in Nat, NEW n \in Nat, aligned(n) > 0,
         \A o \in off .. off + aligned(n) - 1 : ~FreeAt(a, <<k, o>>)
  PROVE  GotBack(free_bytes(a, [chunk |-> k, offset |-> off], n), a, k, off, aligned(n))
<1> DEFINE size == aligned(n)
           d == FreedInto(a[k], off, size)
           u == [a EXCEPT ![k] = d]
<1>1. a \in Seq(ChunkT) /\ DOMAIN a = 1 .. Len(a) /\ a[k] \in ChunkT /\ Apart(a[k].free)
  BY DEF Allocator
<1>2. free_bytes(a, [chunk |-> k, offset |-> off], n) = u
  BY DEF free_bytes, FreedInto
<1>3. size \in Nat /\ size > 0
  BY AlignedSize
<1>4. \A o \in off .. off + size - 1 : ~FreeIn(a[k].free, o)
  BY DEF FreeAt
<1> HIDE DEF size
<1>5. a[k].free \in Seq(BlockT)
  BY <1>1 DEF ChunkT
<1>6. Taken(a[k].free, off, size)
  BY <1>1, <1>3, <1>4, <1>5, NotFreeIsTaken
<1>7. Freed(d.free, a[k].free, off, size)
  BY <1>1, <1>3, <1>6, FreedRange
<1>8. d \in ChunkT /\ d.max_size = a[k].max_size
  BY <1>1, <1>7, FreedIntoChunk DEF Freed
<1> HIDE DEF d
<1>9. /\ u \in Seq(ChunkT) /\ Len(u) = Len(a) /\ DOMAIN u = DOMAIN a
      /\ u[k] = d /\ \A c \in DOMAIN a : c # k => u[c] = a[c]
  BY <1>1, <1>8
<1> HIDE DEF u
<1>10. Allocator(u)
  <2>1. Apart(d.free)
    BY <1>7 DEF Freed
  <2> QED
    BY <1>9, <2>1 DEF Allocator
<1>11. ASSUME NEW c \in DOMAIN a, NEW o \in Nat
       PROVE  FreeAt(u, <<c, o>>) <=> FreeAt(a, <<c, o>>) \/ (c = k /\ off <= o /\ o < off + size)
  <2>1. FreeAt(u, <<c, o>>) <=> FreeIn(u[c].free, o)
    BY DEF FreeAt
  <2>2. FreeAt(a, <<c, o>>) <=> FreeIn(a[c].free, o)
    BY DEF FreeAt
  <2>3. FreeIn(d.free, o) <=> FreeIn(a[k].free, o) \/ (off <= o /\ o < off + size)
    BY <1>7 DEF Freed
  <2> QED
    BY <2>1, <2>2, <2>3, <1>9
<1>12. \A c \in DOMAIN a : u[c].max_size = a[c].max_size
  BY <1>8, <1>9
<1> QED
  BY <1>2, <1>9, <1>10, <1>11, <1>12 DEF size, GotBack

\* The greater of two numbers.
LEMMA MaxOfTwo ==
  ASSUME NEW x \in Nat, NEW y \in Nat
  PROVE  Max({x, y}) \in Nat /\ Max({x, y}) >= x /\ Max({x, y}) >= y /\ Max({x, y}) \in {x, y}
<1> DEFINE S == {x, y}
<1>1. S \in SUBSET Int /\ S # {} /\ x + y \in Int /\ (\A z \in S : z <= x + y) /\ x \in S /\ y \in S /\ S \subseteq Nat
  OBVIOUS
<1> HIDE DEF S
<1>2. Max(S) \in S /\ \A z \in S : z <= Max(S)
  BY <1>1, MaxIsMost
<1>3. Max(S) \in Nat /\ Max(S) >= x /\ Max(S) >= y
  BY ZenonT(40), <1>1, <1>2
<1> QED
  BY <1>2, <1>3 DEF S

\* The range is cut off the front of a block that is large enough: it was
\* free, and nothing else stops being free.
LEMMA TakenWasFree ==
  ASSUME NEW a, Allocator(a), NEW k, NEW i, NEW size \in Nat, size > 0, Fitting(a, k, i, size)
  PROVE  TookRange(TakeFrom(a, k, i, size), a, k, a[k].free[i].offset, size) /\ a[k].free[i].offset \in Nat
<1> DEFINE s == a[k].free
           x == s[i].offset
           y == s[i].size
           t == [s EXCEPT ![i] = Block(x + size, y - size)]
           f == IF y = size THEN RemoveAt(t, i) ELSE t
           m == Max({a[k].max_size, x + size})
           d == [max_size |-> m, free |-> f]
           u == [a EXCEPT ![k] = d]
<1>1. /\ a \in Seq(ChunkT) /\ DOMAIN a = 1 .. Len(a) /\ k \in DOMAIN a /\ a[k] \in ChunkT /\ Apart(s)
      /\ i \in 1 .. Len(s) /\ s[i].size >= size
  BY DEF Allocator, Fitting
<1>2. s \in Seq(BlockT) /\ a[k].max_size \in Nat /\ a[k] = [max_size |-> a[k].max_size, free |-> s]
  BY <1>1 DEF ChunkT
<1>3. x \in Nat /\ y \in Nat /\ y >= size
  <2>1. s[i] \in BlockT
    BY <1>1, <1>2
  <2> QED
    BY <1>1, <2>1 DEF BlockT
<1>4. m \in Nat /\ m >= a[k].max_size /\ m >= x + size /\ (m = a[k].max_size \/ m = x + size)
  <2>1. x + size \in Nat
    BY <1>3
  <2> HIDE DEF x
  <2> QED
    BY <1>2, <2>1, MaxOfTwo
<1>5. /\ f \in Seq(BlockT) /\ Apart(f)
      /\ \A o \in Nat : FreeIn(f, o) <=> FreeIn(s, o) /\ ~(x <= o /\ o < x + size)
      /\ \A o \in x .. x + size - 1 : FreeIn(s, o)
  <2> HIDE DEF s
  <2> QED
    BY <1>1, <1>2, <1>3, TakeBlock
<1>6. TakeFrom(a, k, i, size) = u
  <2> DEFINE used == [max_size |-> m, free |-> t]
  <2>2. TakeFrom(a, k, i, size) = [a EXCEPT ![k] = IF y = size THEN remove_block(used, i) ELSE used]
    BY DEF TakeFrom
  <2>3. remove_block(used, i) = [max_size |-> m, free |-> RemoveAt(t, i)]
    <3> HIDE DEF m, t
    <3> QED
      BY DEF remove_block
  <2>4. (IF y = size THEN remove_block(used, i) ELSE used) = d
    <3> HIDE DEF t, m
    <3> QED
      BY <2>3
  <2> QED
    BY ZenonT(40), <2>2, <2>4
<1> HIDE DEF m, f, t, x, y
<1>7. d \in ChunkT /\ d.free = f /\ d.max_size = m
  BY <1>4, <1>5 DEF ChunkT
<1> HIDE DEF d
<1>8. /\ u \in Seq(ChunkT) /\ Len(u) = Len(a) /\ DOMAIN u = DOMAIN a
      /\ u[k] = d /\ \A c \in DOMAIN a : c # k => u[c] = a[c]
  BY <1>1, <1>7
<1> HIDE DEF u
<1>9. Allocator(u)
  BY <1>5, <1>7, <1>8 DEF Allocator
<1>10. \A o \in x .. x + size - 1 : FreeAt(a, <<k, o>>)
  BY <1>5 DEF FreeAt
<1>11. ASSUME NEW c \in DOMAIN a, NEW o \in Nat
       PROVE  FreeAt(u, <<c, o>>) <=> FreeAt(a, <<c, o>>) /\ ~(c = k /\ x <= o /\ o < x + size)
  <2>1. FreeAt(u, <<c, o>>) <=> FreeIn(u[c].free, o)
    BY DEF FreeAt
  <2>2. FreeAt(a, <<c, o>>) <=> FreeIn(a[c].free, o)
    BY DEF FreeAt
  <2>3. FreeIn(f, o) <=> FreeIn(s, o) /\ ~(x <= o /\ o < x + size)
    BY <1>5
  <2> QED
    BY <2>1, <2>2, <2>3, <1>7, <1>8
<1>12. \E j \in 1 .. Len(a[k].free) : x = a[k].free[j].offset
  BY <1>1 DEF x, s
<1>13. /\ u[k].max_size >= a[k].max_size /\ u[k].max_size >= x + size
       /\ u[k].max_size = a[k].max_size \/ u[k].max_size = x + size
       /\ \A c \in DOMAIN a : c # k => u[c].max_size = a[c].max_size
  BY <1>4, <1>7, <1>8
<1>14. TookRange(u, a, k, x, size)
  BY <1>1, <1>3, <1>8, <1>9, <1>10, <1>11, <1>12, <1>13 DEF TookRange
<1> QED
  BY <1>3, <1>6, <1>14 DEF x

\* The block chosen among those that are not the last of their chunk fits;
\* there is none only when none of them fits.
LEMMA BestInnerFits ==
  ASSUME NEW a, Allocator(a), NEW size \in Nat
  PROVE  LET b == BestInner(a, size)
         IN  IF b = << >> THEN \A c \in DOMAIN a : \A i \in 1 .. Len(a[c].free) - 1 : ~Fitting(a, c, i, size)
             ELSE Fitting(a, b[1], b[2], size)
<1> DEFINE Fits(d) == {i \in 1 .. Len(a[d].free) - 1 : a[d].free[i].size >= size}
           D == {d \in DOMAIN a : Fits(d) # {}}
           c == Max(D)
           S == {a[c].free[i].size : i \in Fits(c)}
           best == Min(S)
           J == {i \in Fits(c) : a[c].free[i].size = best}
<1>1. DOMAIN a = 1 .. Len(a) /\ Len(a) \in Nat /\ \A d \in DOMAIN a : a[d].free \in Seq(BlockT)
  <2>1. a \in Seq(ChunkT)
    BY DEF Allocator
  <2>2. \A d \in DOMAIN a : a[d] \in ChunkT
    BY <2>1
  <2> QED
    BY <2>1, <2>2 DEF ChunkT
<1>2. \A d \in DOMAIN a : Len(a[d].free) \in Nat
  BY <1>1
<1>3. BestInner(a, size) = IF \A d \in DOMAIN a : Fits(d) = {} THEN << >> ELSE <<c, Max(J)>>
  BY SMTT(30) DEF BestInner
<1>4. CASE \A d \in DOMAIN a : Fits(d) = {}
  <2>1. \A d \in DOMAIN a : \A i \in 1 .. Len(a[d].free) - 1 : ~Fitting(a, d, i, size)
    BY <1>4 DEF Fitting
  <2> QED
    BY ZenonT(40), <1>3, <1>4, <2>1
<1>5. CASE ~(\A d \in DOMAIN a : Fits(d) = {})
  <2>1. D \in SUBSET Int /\ D # {} /\ Len(a) \in Int /\ \A x \in D : x <= Len(a)
    <3> HIDE DEF Fits
    <3>1. D # {} /\ D \subseteq DOMAIN a
      BY <1>5
    <3> HIDE DEF D
    <3> QED
      BY <1>1, <3>1
  <2>2. c \in D
    <3> HIDE DEF D
    <3> QED
      BY <2>1, MaxIsMost
  <2>3. c \in DOMAIN a /\ Fits(c) # {}
    BY <2>2
  <2> HIDE DEF c
  <2>4. Len(a[c].free) \in Nat /\ \A i \in Fits(c) : i \in 1 .. Len(a[c].free) /\ a[c].free[i].size >= size
    BY <1>2, <2>3
  <2>5. \A i \in 1 .. Len(a[c].free) : a[c].free[i].size \in Nat
    <3>1. \A i \in 1 .. Len(a[c].free) : a[c].free[i] \in BlockT
      BY <1>1, <2>3
    <3> QED
      BY <3>1 DEF BlockT
  <2> HIDE DEF Fits
  <2>6. S \in SUBSET Nat /\ S # {}
    BY <2>3, <2>4, <2>5
  <2>7. best \in S
    BY <2>6, MinIsLeast
  <2>8. J # {}
    BY <2>7
  <2>9. J \in SUBSET Int /\ Len(a[c].free) \in Int /\ \A x \in J : x <= Len(a[c].free)
    BY <2>4
  <2>10. Max(J) \in J
    <3> HIDE DEF J
    <3> QED
      BY <2>8, <2>9, MaxIsMost
  <2>11. Fitting(a, c, Max(J), size)
    BY ZenonT(40), <2>3, <2>4, <2>10 DEF Fitting
  <2>12. BestInner(a, size) = <<c, Max(J)>>
    BY <1>3, <1>5
  <2> HIDE DEF J
  <2> QED
    BY <2>11, <2>12
<1> QED
  BY <1>4, <1>5

\* The same for the last blocks.
LEMMA BestLastFits ==
  ASSUME NEW a, Allocator(a), NEW size \in Nat
  PROVE  LET b == BestLast(a, size)
         IN  IF b = << >> THEN \A c \in DOMAIN a : ~Fitting(a, c, Len(a[c].free), size)
             ELSE Fitting(a, b[1], b[2], size)
<1> DEFINE fits == {c \in DOMAIN a : a[c].free # << >> /\ Last(a[c].free).size >= size}
           Reuse(d) == a[d].max_size - Last(a[d].free).offset - size
           R == {Reuse(d) : d \in fits}
           have == R \intersect Nat
           best == IF have # {} THEN Min(have) ELSE Max(R)
           C == {d \in fits : Reuse(d) = best}
           c == Min(C)
<1>1. DOMAIN a = 1 .. Len(a) /\ Len(a) \in Nat /\ \A d \in DOMAIN a : a[d].free \in Seq(BlockT) /\ a[d].max_size \in Nat
  <2>1. a \in Seq(ChunkT)
    BY DEF Allocator
  <2>2. \A d \in DOMAIN a : a[d] \in ChunkT
    BY <2>1
  <2> QED
    BY SMTT(30), <2>1, <2>2 DEF ChunkT
<1>2. BestLast(a, size) = IF fits = {} THEN << >> ELSE <<c, Len(a[c].free)>>
  BY DEF BestLast
<1>3. ASSUME NEW d \in DOMAIN a
      PROVE  d \in fits <=> Fitting(a, d, Len(a[d].free), size)
  <2> DEFINE s == a[d].free
  <2>1. s \in Seq(BlockT)
    BY <1>1
  <2>2. Last(s) = s[Len(s)]
    BY DEF Last
  <2>3. Len(s) \in 1 .. Len(s) <=> s # << >>
    <3> HIDE DEF s
    <3> QED
      BY <2>1
  <2> QED
    BY <2>2, <2>3 DEF Fitting
<1>4. ASSUME NEW d \in fits PROVE Reuse(d) \in Int /\ d \in DOMAIN a
  <2> DEFINE s == a[d].free
             q == a[d].max_size
             o == Last(s).offset
  <2>1. s \in Seq(BlockT) /\ s # << >> /\ q \in Nat
    BY <1>1
  <2>2. o \in Nat
    <3> HIDE DEF s
    <3>1. s[Len(s)] \in BlockT
      BY <2>1
    <3> QED
      BY <3>1 DEF Last, BlockT
  <2>3. q - o - size \in Int
    <3> HIDE DEF q, o
    <3> QED
      BY SMTT(30), <2>1, <2>2
  <2> QED
    BY <2>3
<1>5. CASE fits = {}
  BY ZenonT(40), <1>2, <1>3, <1>5
<1>6. CASE fits # {}
  <2>1. fits \in SUBSET Nat
    BY <1>1
  <2> HIDE DEF fits, Reuse
  <2>2. R \in SUBSET Int /\ R # {}
    BY <1>4, <1>6
  <2>3. best \in R
    <3>1. CASE have # {}
      BY <3>1, MinIsLeast
    <3>2. CASE have = {}
      <4>1. 0 \in Int /\ \A x \in R : x <= 0
        BY <2>2, <3>2
      <4>2. Max(R) \in R
        <5> HIDE DEF R
        <5> QED
          BY <2>2, <4>1, MaxIsMost
      <4> QED
        BY <3>2, <4>2
    <3> QED
      BY <3>1, <3>2
  <2> HIDE DEF best
  <2>4. C # {} /\ C \in SUBSET Nat
    BY <2>1, <2>3
  <2>5. c \in C
    BY <2>4, MinIsLeast
  <2> HIDE DEF c
  <2>6. c \in fits /\ c \in DOMAIN a
    BY <2>5, <1>4
  <2>7. Fitting(a, c, Len(a[c].free), size)
    BY <2>6, <1>3
  <2>8. BestLast(a, size) = <<c, Len(a[c].free)>>
    BY <1>2, <1>6
  <2> QED
    BY <2>7, <2>8
<1> QED
  BY <1>5, <1>6

\* A new chunk is one block that is large enough; the other chunks stay.
LEMMA NewChunk ==
  ASSUME NEW a, Allocator(a), NEW size \in Nat, size > 0, size <= Endless
  PROVE  LET b == new_chunk(a, size)
         IN  /\ Allocator(b) /\ Len(b) = Len(a) + 1 /\ Fitting(b, Len(b), 1, size)
             /\ \A c \in DOMAIN a : b[c] = a[c]
<1> DEFINE m == IF Len(a) = MaxChunks - 1 THEN Endless ELSE Max({size, MaxChunkSize})
           s == <<Block(0, m)>>
           d == [max_size |-> 0, free |-> s]
           b == Append(a, d)
<1>0. new_chunk(a, size) = b
  BY DEF new_chunk
<1>1. a \in Seq(ChunkT) /\ DOMAIN a = 1 .. Len(a) /\ Len(a) \in Nat
  BY DEF Allocator
<1>2. Endless \in Nat /\ MaxChunkSize \in Nat
  BY TallocrAssumption
<1>3. m \in Nat /\ m >= size
  BY <1>2, MaxOfTwo
<1> HIDE DEF m
<1>4. Block(0, m) \in BlockT /\ Block(0, m).size = m
  BY <1>3, BlockFields
<1>5. s \in Seq(BlockT) /\ Len(s) = 1 /\ s[1].size = m
  BY <1>4
<1>6. Apart(s)
  <2>1. m > 0
    BY <1>3
  <2> QED
    BY <1>4, <2>1 DEF Apart
<1> HIDE DEF s
<1>7. d \in ChunkT /\ d.free = s
  BY <1>5 DEF ChunkT
<1> HIDE DEF d
<1>8. /\ b \in Seq(ChunkT) /\ Len(b) = Len(a) + 1 /\ DOMAIN b = 1 .. Len(b) /\ b[Len(b)] = d
      /\ (\A c \in DOMAIN a : b[c] = a[c]) /\ (\A c \in DOMAIN b : c \in DOMAIN a \/ c = Len(b))
  BY <1>1, <1>7
<1> HIDE DEF b
<1>9. Allocator(b)
  <2>1. \A c \in DOMAIN a : Apart(a[c].free)
    BY DEF Allocator
  <2> QED
    BY <1>6, <1>7, <1>8, <2>1 DEF Allocator
<1>10. Fitting(b, Len(b), 1, size)
  BY <1>1, <1>3, <1>5, <1>7, <1>8 DEF Fitting
<1> QED
  BY <1>0, <1>8, <1>9, <1>10

\* ggml_dyn_tallocr_alloc, for any number of chunks and blocks: it has no
\* address to give only when the chunks are used up and no block of any is
\* large enough.  The range it gives was free, in one of the chunks or in a
\* new one that is added only when no block fits, and exactly that range
\* stops being free; the blocks stay sorted, non-empty and apart.
THEOREM AllocatedWasFree ==
  ASSUME NEW a, Allocator(a), NEW n \in Nat, aligned(n) > 0, aligned(n) <= Endless
  PROVE  Allocates(alloc(a, n), a, aligned(n))
<1> SUFFICES LET r == alloc(a, n)
                 none == \A c \in DOMAIN a : \A i \in 1 .. Len(a[c].free) : ~Fitting(a, c, i, aligned(n))
             IN  IF r.addr = NoAddr THEN r.a = a /\ Len(a) >= MaxChunks /\ none
                 ELSE \/ TookRange(r.a, a, r.addr.chunk, r.addr.offset, aligned(n))
                      \/ /\ none /\ Len(a) < MaxChunks /\ r.addr.chunk = Len(a) + 1
                         /\ TookRange(r.a, new_chunk(a, aligned(n)), Len(a) + 1, r.addr.offset, aligned(n))
  BY DEF Allocates
<1> DEFINE size == aligned(n)
           inner == BestInner(a, size)
           best == IF inner # << >> THEN inner ELSE BestLast(a, size)
           full == best = << >> /\ Len(a) >= MaxChunks
           b == IF best = << >> THEN new_chunk(a, size) ELSE a
           at == IF best = << >> THEN <<Len(b), 1>> ELSE best
           k == at[1]
           i == at[2]
           off == b[k].free[i].offset
           none == \A c \in DOMAIN a : \A j \in 1 .. Len(a[c].free) : ~Fitting(a, c, j, size)
           r == alloc(a, n)
<1>1. size \in Nat /\ size > 0 /\ size <= Endless
  BY SMTT(30), AlignedSize
<1>2. r = IF full THEN [a |-> a, addr |-> NoAddr]
          ELSE [a |-> TakeFrom(b, k, i, size), addr |-> [chunk |-> k, offset |-> off]]
  BY DEF alloc
<1> HIDE DEF size, r
<1>3. Len(a) \in Nat /\ DOMAIN a = 1 .. Len(a) /\ MaxChunks \in Nat /\ \A c \in DOMAIN a : Len(a[c].free) \in Nat
  <2>1. a \in Seq(ChunkT)
    BY DEF Allocator
  <2>2. \A c \in DOMAIN a : a[c] \in ChunkT
    BY <2>1
  <2>3. \A c \in DOMAIN a : Len(a[c].free) \in Nat
    BY <2>2 DEF ChunkT
  <2> QED
    BY SMTT(30), <2>1, <2>3, TallocrAssumption
<1>4. best # << >> => Fitting(a, best[1], best[2], size)
  BY SMTT(30), <1>1, BestInnerFits, BestLastFits
<1>5. ASSUME best = << >> PROVE none
  <2>1. inner = << >> /\ BestLast(a, size) = << >>
    BY <1>5
  <2>2. \A c \in DOMAIN a : \A j \in 1 .. Len(a[c].free) - 1 : ~Fitting(a, c, j, size)
    BY SMTT(30), <1>1, <2>1, BestInnerFits
  <2>3. \A c \in DOMAIN a : ~Fitting(a, c, Len(a[c].free), size)
    BY SMTT(30), <1>1, <2>1, BestLastFits
  <2>4. ASSUME NEW c \in DOMAIN a, NEW j \in 1 .. Len(a[c].free) PROVE ~Fitting(a, c, j, size)
    <3>1. j \in 1 .. Len(a[c].free) - 1 \/ j = Len(a[c].free)
      BY SMTT(30), <1>3
    <3> QED
      BY <2>2, <2>3, <3>1
  <2> QED
    BY <2>4
<1> HIDE DEF best, none
<1>6. CASE full
  <2>1. r = [a |-> a, addr |-> NoAddr]
    BY <1>2, <1>6
  <2>2. r.addr = NoAddr /\ r.a = a
    BY SMTT(30), <2>1
  <2> QED
    BY SMTT(30), <2>2, <1>5, <1>6 DEF none, size, r
<1>7. CASE ~full
  <2>1. Allocator(b) /\ Fitting(b, k, i, size) /\ k \in Nat \ {0}
    <3>1. CASE best = << >>
      <4>1. b = new_chunk(a, size) /\ k = Len(b) /\ i = 1
        BY <3>1
      <4> HIDE DEF b, k, i
      <4>2. Allocator(b) /\ Fitting(b, Len(b), 1, size) /\ Len(b) = Len(a) + 1
        BY <1>1, <4>1, NewChunk
      <4> QED
        BY <4>1, <4>2, <1>3
    <3>2. CASE best # << >>
      <4>1. b = a /\ k = best[1] /\ i = best[2]
        BY <3>2
      <4>2. k \in DOMAIN a
        BY SMTT(30), <4>1, <1>4, <3>2 DEF Fitting
      <4> HIDE DEF b, k, i
      <4> QED
        BY <4>1, <4>2, <1>3, <1>4, <3>2
    <3> QED
      BY <3>1, <3>2
  <2>2. r = [a |-> TakeFrom(b, k, i, size), addr |-> [chunk |-> k, offset |-> off]]
    BY <1>2, <1>7
  <2>3. r.a = TakeFrom(b, k, i, size) /\ r.addr.chunk = k /\ r.addr.offset = off
    <3> HIDE DEF off, k, b, i
    <3> QED
      BY SMTT(30), <2>2
  <2>4. r.addr # NoAddr
    <3> HIDE DEF k
    <3> QED
      BY SMTT(30), <2>1, <2>3 DEF NoAddr
  <2>5. TookRange(r.a, b, r.addr.chunk, r.addr.offset, size)
    <3> HIDE DEF k, b, i
    <3> QED
      BY SMTT(30), <1>1, <2>1, <2>3, TakenWasFree
  <2>6. CASE best # << >>
    <3>1. b = a
      BY SMTT(30), <2>6
    <3> HIDE DEF b
    <3> QED
      BY <2>4, <2>5, <3>1 DEF size, r
  <2>7. CASE best = << >>
    <3>1. b = new_chunk(a, size) /\ k = Len(b) /\ Len(a) < MaxChunks /\ none
      BY <2>7, <1>5, <1>7, <1>3
    <3> HIDE DEF b, k
    <3>2. Len(b) = Len(a) + 1
      BY <1>1, <3>1, NewChunk
    <3>3. r.addr.chunk = Len(a) + 1
      BY <2>3, <3>1, <3>2
    <3> QED
      BY <2>4, <2>5, <3>1, <3>3 DEF size, r, none
  <2> QED
    BY <2>6, <2>7
<1> QED
  BY <1>6, <1>7

(***************************************************************************)
(* Multiples of the alignment                                              *)
(***************************************************************************)
\* A multiple is a product.
LEMMA Quotient ==
  ASSUME NEW A \in Nat \ {0}, NEW n \in Int, n % A = 0
  PROVE  n \div A \in Int /\ n = A * (n \div A)
OBVIOUS

\* A product is a multiple.
LEMMA Product ==
  ASSUME NEW A \in Nat \ {0}, NEW q \in Int, NEW n \in Int, n = A * q
  PROVE  n % A = 0
OBVIOUS

\* Sums and differences of multiples are multiples.
LEMMA Multiples ==
  ASSUME NEW A \in Nat \ {0}, NEW m \in Int, NEW n \in Int, m % A = 0, n % A = 0
  PROVE  (m + n) % A = 0 /\ (m - n) % A = 0
<1> DEFINE p == m \div A
           q == n \div A
<1>1. p \in Int /\ q \in Int /\ m = A * p /\ n = A * q
  BY Quotient
<1> HIDE DEF p, q
<1>2. m + n = A * (p + q) /\ m - n = A * (p - q)
  BY <1>1
<1>3. (m + n) % A = 0
  BY <1>1, <1>2, Product
<1>4. (m - n) % A = 0
  BY <1>1, <1>2, Product
<1> QED
  BY <1>3, <1>4

\* Sizes are rounded up to multiples of the alignment; a multiple stays.
LEMMA AlignedIsMultiple ==
  ASSUME NEW n \in Nat
  PROVE  aligned(n) % Alignment = 0 /\ (n % Alignment = 0 => aligned(n) = n)
<1> DEFINE A == Alignment
           p == n \div A
           r == n % A
<1>1. A \in Nat \ {0}
  BY TallocrAssumption
<1> HIDE DEF A
<1>2. p \in Int /\ r \in 0 .. A - 1 /\ n = A * p + r
  BY <1>1
<1>3. aligned(n) = n + ((A - r) % A)
  BY DEF aligned, A
<1>4. r = n % Alignment
  BY DEF A
<1> HIDE DEF p, r
<1>5. CASE r = 0
  <2>1. (A - r) % A = 0
    BY <1>1, <1>5
  <2>2. aligned(n) = A * p /\ aligned(n) = n
    BY <1>1, <1>2, <1>3, <1>5, <2>1
  <2>3. aligned(n) % A = 0
    BY <1>1, <1>2, <2>2, Product
  <2> QED
    BY <2>2, <2>3 DEF A
<1>6. CASE r # 0
  <2>1. (A - r) % A = A - r
    BY <1>1, <1>2, <1>6
  <2>2. aligned(n) = A * (p + 1) /\ p + 1 \in Int /\ aligned(n) \in Int
    BY <1>1, <1>2, <1>3, <1>6, <2>1
  <2>3. aligned(n) % A = 0
    BY <1>1, <2>2, Product
  <2> QED
    BY <1>4, <1>6, <2>3 DEF A
<1> QED
  BY <1>5, <1>6

\* The alignment, and a number in front of one that is no multiple.
LEMMA Unit ==
  /\ Alignment \in Nat \ {0} /\ 0 % Alignment = 0
  /\ \A o \in Nat : o % Alignment # 0 => o - 1 \in Nat
<1>1. Alignment \in Nat \ {0}
  BY TallocrAssumption
<1>2. 0 % Alignment = 0
  BY <1>1
<1> QED
  BY <1>1, <1>2

\* Sums and differences of multiples of the alignment.
LEMMA AlignedSum ==
  ASSUME NEW m \in Int, NEW n \in Int, m % Alignment = 0, n % Alignment = 0
  PROVE  (m + n) % Alignment = 0 /\ (m - n) % Alignment = 0
<1>1. Alignment \in Nat \ {0}
  BY TallocrAssumption
<1> QED
  BY <1>1, Multiples

\* Rounding up is monotone.
LEMMA AlignedMonotone ==
  ASSUME NEW m \in Nat, NEW n \in Nat, m <= n
  PROVE  aligned(m) <= aligned(n)
<1> DEFINE A == Alignment
           r == (A - (m % A)) % A
           x == aligned(m)
           y == aligned(n)
<1>1. A \in Nat \ {0}
  BY TallocrAssumption
<1>2. x \in Nat /\ x % A = 0 /\ y \in Nat /\ y >= n /\ y % A = 0
  BY AlignedSize, AlignedIsMultiple
<1>3. x < m + A
  <2>1. m % A \in Int
    BY <1>1
  <2>2. r \in Int /\ r < A
    BY <1>1, <2>1
  <2>3. x = m + r
    BY DEF aligned
  <2> HIDE DEF A, r, x
  <2> QED
    BY <1>1, <2>2, <2>3
<1> HIDE DEF A, x, y
<1>4. x \div A \in Int /\ x = A * (x \div A) /\ y \div A \in Int /\ y = A * (y \div A)
  BY <1>1, <1>2, Quotient
<1> DEFINE p == x \div A
           q == y \div A
<1>5. p \in Int /\ q \in Int /\ x = A * p /\ y = A * q /\ A * p < A * q + A
  BY <1>1, <1>2, <1>3, <1>4
<1> HIDE DEF p, q
<1>6. p < q + 1
  <2>1. ASSUME q + 1 <= p PROVE FALSE
    <3>1. A * (q + 1) <= A * p
      BY <1>1, <1>5, <2>1
    <3>2. A * (q + 1) = A * q + A
      BY <1>1, <1>5
    <3>3. A * q \in Int /\ A * p \in Int
      BY <1>1, <1>5
    <3> QED
      BY <1>1, <1>5, <3>1, <3>2, <3>3
  <2> QED
    BY <1>5, <2>1
<1>7. A * p <= A * q
  BY <1>1, <1>5, <1>6
<1> QED
  BY <1>5, <1>7 DEF x, y

(***************************************************************************)
(* The allocator: free addresses come in whole units of the alignment.     *)
(***************************************************************************)
\* the numbers of an allocator
LEMMA AllocatorTypes ==
  ASSUME NEW a, Allocator(a)
  PROVE  /\ a \in Seq(ChunkT) /\ DOMAIN a = 1 .. Len(a) /\ Len(a) \in Nat
         /\ \A c \in DOMAIN a : /\ a[c] \in ChunkT /\ a[c].max_size \in Nat /\ a[c].free \in Seq(BlockT)
                                 /\ DOMAIN a[c].free = 1 .. Len(a[c].free) /\ Apart(a[c].free)
<1>1. a \in Seq(ChunkT)
  BY DEF Allocator
<1>2. \A c \in DOMAIN a : a[c] \in ChunkT /\ Apart(a[c].free)
  BY <1>1 DEF Allocator
<1>3. \A c \in DOMAIN a : a[c].max_size \in Nat /\ a[c].free \in Seq(BlockT)
  BY <1>2 DEF ChunkT
<1>4. \A c \in DOMAIN a : DOMAIN a[c].free = 1 .. Len(a[c].free)
  BY <1>3
<1>5. DOMAIN a = 1 .. Len(a) /\ Len(a) \in Nat
  BY <1>1
<1> QED
  BY <1>1, <1>2, <1>3, <1>4, <1>5

\* A block starts and ends where the free addresses do.
LEMMA BlockBounds ==
  ASSUME NEW s \in Seq(BlockT), Apart(s), NEW i \in 1 .. Len(s)
  PROVE  /\ s[i].offset \in Nat /\ s[i].size \in Nat /\ s[i].size > 0 /\ End(s[i]) = s[i].offset + s[i].size
         /\ FreeIn(s, s[i].offset) /\ FreeIn(s, End(s[i]) - 1)
         /\ ~FreeIn(s, s[i].offset - 1) /\ ~FreeIn(s, End(s[i]))
<1> DEFINE x == s[i].offset
           y == s[i].size
<1>1. \A j \in 1 .. Len(s) : s[j].offset \in Nat /\ s[j].size \in Nat /\ End(s[j]) = s[j].offset + s[j].size
  <2>1. \A j \in 1 .. Len(s) : s[j] \in BlockT
    OBVIOUS
  <2> QED
    BY <2>1 DEF BlockT, End
<1>2. DOMAIN s = 1 .. Len(s) /\ Len(s) \in Nat
  OBVIOUS
<1>3. y > 0 /\ \A j, k \in 1 .. Len(s) : j < k => End(s[j]) < s[k].offset
  BY <1>2 DEF Apart
<1>4. x \in Nat /\ y \in Nat /\ End(s[i]) = x + y
  BY <1>1
<1>5. FreeIn(s, x)
  BY <1>2, <1>3, <1>4 DEF FreeIn
<1>6. FreeIn(s, x + y - 1)
  BY <1>2, <1>3, <1>4 DEF FreeIn
<1>7. ASSUME NEW j \in 1 .. Len(s) PROVE ~(s[j].offset <= x - 1 /\ x - 1 < End(s[j])) /\ ~(s[j].offset <= x + y /\ x + y < End(s[j]))
  <2>1. s[j].offset \in Nat /\ s[j].size \in Nat /\ End(s[j]) = s[j].offset + s[j].size
    BY <1>1
  <2>2. CASE j < i
    <3>1. End(s[j]) < x
      BY <1>3, <2>2
    <3> HIDE DEF x, y
    <3> QED
      BY <2>1, <3>1, <1>4
  <2>3. CASE i < j
    <3>1. x + y < s[j].offset
      BY <1>3, <1>4, <2>3
    <3> HIDE DEF x, y
    <3> QED
      BY <2>1, <3>1, <1>4
  <2>4. CASE i = j
    BY <1>4, <2>4
  <2> QED
    BY <1>2, <2>2, <2>3, <2>4
<1>8. ~FreeIn(s, x - 1) /\ ~FreeIn(s, x + y)
  BY <1>2, <1>7 DEF FreeIn
<1> QED
  BY <1>3, <1>4, <1>5, <1>6, <1>8

\* So the blocks are aligned.
LEMMA BlocksAligned ==
  ASSUME NEW a, AllocatorOK(a)
  PROVE  BlocksOK(a)
<1>1. Allocator(a) /\ Units(a)
  BY DEF AllocatorOK
<1> SUFFICES ASSUME NEW c \in DOMAIN a, NEW i \in DOMAIN a[c].free
             PROVE  a[c].free[i].offset % Alignment = 0 /\ a[c].free[i].size % Alignment = 0
  BY <1>1, AllocatorTypes DEF BlocksOK
<1> DEFINE s == a[c].free
           x == s[i].offset
           y == s[i].size
<1>2. s \in Seq(BlockT) /\ Apart(s) /\ i \in 1 .. Len(s)
  BY <1>1, AllocatorTypes
<1>3. /\ x \in Nat /\ y \in Nat /\ y > 0 /\ End(s[i]) = x + y
      /\ FreeIn(s, x) /\ FreeIn(s, End(s[i]) - 1) /\ ~FreeIn(s, x - 1) /\ ~FreeIn(s, End(s[i]))
  <2> HIDE DEF s
  <2> QED
    BY <1>2, BlockBounds
<1>4. ASSUME NEW o \in Nat, o % Alignment # 0 PROVE FreeIn(s, o) <=> FreeIn(s, o - 1)
  <2>1. FreeAt(a, <<c, o>>) <=> FreeAt(a, <<c, o - 1>>)
    BY <1>1, <1>4 DEF Units
  <2> QED
    BY <2>1 DEF FreeAt
<1> HIDE DEF s, x, y
<1>5. x % Alignment = 0
  BY <1>3, <1>4
<1>6. x + y \in Nat
  BY <1>3
<1>7. (x + y) % Alignment = 0
  BY <1>3, <1>4, <1>6
<1>8. ((x + y) - x) % Alignment = 0
  BY <1>3, <1>5, <1>6, <1>7, AlignedSum
<1>9. (x + y) - x = y
  BY <1>3
<1> QED
  BY <1>5, <1>8, <1>9 DEF x, y, s

\* An allocation keeps the units and starts at one.
LEMMA TakenUnits ==
  ASSUME NEW u, NEW a, AllocatorOK(a), NEW k, NEW off, NEW n \in Nat, n % Alignment = 0, TookRange(u, a, k, off, n)
  PROVE  AllocatorOK(u) /\ off % Alignment = 0 /\ off \in Nat
<1>1. Allocator(a) /\ Units(a) /\ Untouched(a)
  BY DEF AllocatorOK
<1>2. /\ Allocator(u) /\ Len(u) = Len(a) /\ k \in DOMAIN a
      /\ off \in Nat /\ u[k].max_size >= a[k].max_size /\ u[k].max_size >= off + n
      /\ \A c \in DOMAIN a : c # k => u[c].max_size = a[c].max_size
      /\ \A c \in DOMAIN a, o \in Nat :
           FreeAt(u, <<c, o>>) <=> FreeAt(a, <<c, o>>) /\ ~(c = k /\ off <= o /\ o < off + n)
  BY DEF TookRange
<1>3. /\ DOMAIN a = 1 .. Len(a) /\ DOMAIN u = 1 .. Len(u)
      /\ \A c \in DOMAIN a : a[c].max_size \in Nat /\ u[c].max_size \in Nat /\ DOMAIN a[c].free = 1 .. Len(a[c].free)
  BY <1>1, <1>2, AllocatorTypes
<1>4. DOMAIN u = DOMAIN a
  BY <1>2, <1>3
<1>5. off % Alignment = 0
  <2>1. PICK i \in 1 .. Len(a[k].free) : off = a[k].free[i].offset
    BY DEF TookRange
  <2>2. BlocksOK(a)
    BY BlocksAligned
  <2> QED
    BY <1>2, <1>3, <2>1, <2>2 DEF BlocksOK
<1>6. (off + n) % Alignment = 0
  BY SMTT(30), <1>2, <1>5, AlignedSum
<1>7. ASSUME NEW c \in DOMAIN u, NEW o \in Nat, o % Alignment # 0
      PROVE  FreeAt(u, <<c, o>>) <=> FreeAt(u, <<c, o - 1>>)
  <2>1. o - 1 \in Nat /\ o # off /\ o # off + n
    BY <1>5, <1>6, <1>7, Unit
  <2>2. (off <= o /\ o < off + n) <=> (off <= o - 1 /\ o - 1 < off + n)
    BY <1>2, <2>1
  <2>3. FreeAt(a, <<c, o>>) <=> FreeAt(a, <<c, o - 1>>)
    BY <1>1, <1>4, <1>7 DEF Units
  <2>4. FreeAt(u, <<c, o>>) <=> FreeAt(a, <<c, o>>) /\ ~(c = k /\ off <= o /\ o < off + n)
    BY <1>2, <1>4
  <2>5. FreeAt(u, <<c, o - 1>>) <=> FreeAt(a, <<c, o - 1>>) /\ ~(c = k /\ off <= o - 1 /\ o - 1 < off + n)
    BY <1>2, <1>4, <2>1
  <2> QED
    BY <2>2, <2>3, <2>4, <2>5
<1>8. ASSUME NEW c \in DOMAIN u, NEW o \in Nat, NEW p \in Nat, u[c].max_size <= o, o < p, FreeAt(u, <<c, p>>)
      PROVE  FreeAt(u, <<c, o>>)
  <2>1. FreeAt(a, <<c, p>>)
    BY <1>2, <1>4, <1>8
  <2>2. a[c].max_size <= o /\ ~(c = k /\ off <= o /\ o < off + n)
    BY <1>2, <1>3, <1>4, <1>8
  <2>3. FreeAt(a, <<c, o>>)
    BY <1>1, <1>4, <1>8, <2>1, <2>2 DEF Untouched
  <2> QED
    BY <1>2, <1>4, <2>2, <2>3
<1>9. Units(u)
  BY <1>7 DEF Units
<1>10. Untouched(u)
  BY <1>8 DEF Untouched
<1> QED
  BY SMTT(30), <1>2, <1>5, <1>9, <1>10 DEF AllocatorOK

\* Freeing keeps the units.
LEMMA FreedUnits ==
  ASSUME NEW u, NEW a, AllocatorOK(a), NEW k \in DOMAIN a, NEW off \in Nat, NEW n \in Nat,
         off % Alignment = 0, n % Alignment = 0, off + n <= a[k].max_size, GotBack(u, a, k, off, n)
  PROVE  AllocatorOK(u) /\ DOMAIN u = DOMAIN a
<1>1. Allocator(a) /\ Units(a) /\ Untouched(a)
  BY DEF AllocatorOK
<1>2. /\ Allocator(u) /\ Len(u) = Len(a)
      /\ \A c \in DOMAIN a : u[c].max_size = a[c].max_size
      /\ \A c \in DOMAIN a, o \in Nat :
           FreeAt(u, <<c, o>>) <=> FreeAt(a, <<c, o>>) \/ (c = k /\ off <= o /\ o < off + n)
  BY DEF GotBack
<1>3. /\ DOMAIN a = 1 .. Len(a) /\ DOMAIN u = 1 .. Len(u) /\ \A c \in DOMAIN a : a[c].max_size \in Nat
  BY <1>1, <1>2, AllocatorTypes
<1>4. DOMAIN u = DOMAIN a
  BY <1>2, <1>3
<1>6. (off + n) % Alignment = 0
  BY SMTT(30), AlignedSum
<1>7. ASSUME NEW c \in DOMAIN u, NEW o \in Nat, o % Alignment # 0
      PROVE  FreeAt(u, <<c, o>>) <=> FreeAt(u, <<c, o - 1>>)
  <2>1. o - 1 \in Nat /\ o # off /\ o # off + n
    BY <1>6, <1>7, Unit
  <2>2. (off <= o /\ o < off + n) <=> (off <= o - 1 /\ o - 1 < off + n)
    BY <2>1
  <2>3. FreeAt(a, <<c, o>>) <=> FreeAt(a, <<c, o - 1>>)
    BY <1>1, <1>4, <1>7 DEF Units
  <2>4. FreeAt(u, <<c, o>>) <=> FreeAt(a, <<c, o>>) \/ (c = k /\ off <= o /\ o < off + n)
    BY <1>2, <1>4
  <2>5. FreeAt(u, <<c, o - 1>>) <=> FreeAt(a, <<c, o - 1>>) \/ (c = k /\ off <= o - 1 /\ o - 1 < off + n)
    BY <1>2, <1>4, <2>1
  <2> QED
    BY <2>2, <2>3, <2>4, <2>5
<1>8. ASSUME NEW c \in DOMAIN u, NEW o \in Nat, NEW p \in Nat, u[c].max_size <= o, o < p, FreeAt(u, <<c, p>>)
      PROVE  FreeAt(u, <<c, o>>)
  <2>1. a[c].max_size <= o /\ ~(c = k /\ off <= p /\ p < off + n)
    BY <1>2, <1>3, <1>4, <1>8
  <2>2. FreeAt(a, <<c, p>>)
    BY <1>2, <1>4, <1>8, <2>1
  <2>3. FreeAt(a, <<c, o>>)
    BY <1>1, <1>4, <1>8, <2>1, <2>2 DEF Untouched
  <2> QED
    BY <1>2, <1>4, <2>3
<1>9. Units(u)
  BY <1>7 DEF Units
<1>10. Untouched(u)
  BY <1>8 DEF Untouched
<1> QED
  BY SMTT(30), <1>2, <1>4, <1>9, <1>10 DEF AllocatorOK

\* A new chunk is one block, and nothing of it is used.
LEMMA NewChunkBlock ==
  ASSUME NEW a, Allocator(a), NEW n \in Nat, n > 0, n <= Endless
  PROVE  LET b == new_chunk(a, n)
         IN  /\ Allocator(b) /\ Len(b) = Len(a) + 1 /\ \A c \in DOMAIN a : b[c] = a[c]
             /\ \E m \in {n, MaxChunkSize, Endless} : b[Len(b)] = [max_size |-> 0, free |-> <<Block(0, m)>>]
<1> DEFINE b == new_chunk(a, n)
           m == IF Len(a) = MaxChunks - 1 THEN Endless ELSE Max({n, MaxChunkSize})
           d == [max_size |-> 0, free |-> <<Block(0, m)>>]
<1>1. Allocator(b) /\ Len(b) = Len(a) + 1 /\ \A c \in DOMAIN a : b[c] = a[c]
  BY NewChunk
<1>2. m \in {n, MaxChunkSize, Endless}
  <2>1. MaxChunkSize \in Nat
    BY TallocrAssumption
  <2> QED
    BY <2>1, MaxOfTwo
<1>3. b = Append(a, d)
  BY DEF new_chunk
<1> HIDE DEF d, b, m
<1>4. b[Len(b)] = d
  <2>1. a \in Seq(ChunkT)
    BY DEF Allocator
  <2> QED
    BY <1>1, <1>3, <2>1
<1> QED
  BY <1>1, <1>2, <1>4 DEF b, d

\* So does a new chunk, of which nothing is used.
LEMMA NewChunkUnits ==
  ASSUME NEW a, AllocatorOK(a), NEW n \in Nat, n > 0, n % Alignment = 0, n <= Endless
  PROVE  LET b == new_chunk(a, n)
         IN  /\ AllocatorOK(b) /\ Len(b) = Len(a) + 1 /\ (\A c \in DOMAIN a : b[c] = a[c])
             /\ b[Len(b)].max_size = 0 /\ \A c \in DOMAIN b : c \in DOMAIN a \/ c = Len(b)
<1> DEFINE b == new_chunk(a, n)
<1>2. Allocator(a) /\ Units(a) /\ Untouched(a)
  BY DEF AllocatorOK
<1>1. /\ Allocator(b) /\ Len(b) = Len(a) + 1 /\ \A c \in DOMAIN a : b[c] = a[c]
      /\ \E m \in {n, MaxChunkSize, Endless} : b[Len(b)] = [max_size |-> 0, free |-> <<Block(0, m)>>]
  BY <1>2, NewChunkBlock
<1> HIDE DEF b
<1>3. Allocator(b) /\ Len(b) = Len(a) + 1 /\ \A c \in DOMAIN a : b[c] = a[c]
  BY <1>1
<1>4. a \in Seq(ChunkT) /\ DOMAIN a = 1 .. Len(a) /\ Len(a) \in Nat /\ DOMAIN b = 1 .. Len(b)
  BY <1>2, <1>3, AllocatorTypes
<1>6. PICK m \in {n, MaxChunkSize, Endless} : b[Len(b)] = [max_size |-> 0, free |-> <<Block(0, m)>>]
  BY <1>1
<1> DEFINE s == <<Block(0, m)>>
           d == [max_size |-> 0, free |-> s]
<1>5. m \in Nat /\ m % Alignment = 0
  BY TallocrAssumption
<1>7. \A c \in DOMAIN b : c \in DOMAIN a \/ c = Len(b)
  BY <1>3, <1>4
<1>8. d.max_size = 0 /\ d.free = s
  OBVIOUS
<1>9. ASSUME NEW o \in Nat PROVE FreeIn(s, o) <=> o < m
  <2>1. DOMAIN s = {1} /\ s[1].offset = 0 /\ End(s[1]) = 0 + m
    BY <1>5 DEF Block, End
  <2> HIDE DEF s
  <2> QED
    BY <1>5, <2>1 DEF FreeIn
<1>0. b[Len(b)] = d
  BY <1>6
<1> HIDE DEF d, s
<1>10. ASSUME NEW o \in Nat PROVE FreeAt(b, <<Len(b), o>>) <=> o < m
  BY <1>0, <1>8, <1>9 DEF FreeAt
<1>11. ASSUME NEW c \in DOMAIN a, NEW o PROVE FreeAt(b, <<c, o>>) <=> FreeAt(a, <<c, o>>)
  BY <1>3 DEF FreeAt
<1>12. ASSUME NEW c \in DOMAIN b, NEW o \in Nat, o % Alignment # 0
       PROVE  FreeAt(b, <<c, o>>) <=> FreeAt(b, <<c, o - 1>>)
  <2>1. o - 1 \in Nat /\ o # m
    BY <1>5, <1>12, Unit
  <2>2. CASE c \in DOMAIN a
    BY <1>2, <1>11, <1>12, <2>2 DEF Units
  <2>3. CASE c = Len(b)
    BY <1>5, <1>10, <2>1, <2>3
  <2> QED
    BY <1>7, <2>2, <2>3
<1>13. ASSUME NEW c \in DOMAIN b, NEW o \in Nat, NEW p \in Nat, b[c].max_size <= o, o < p, FreeAt(b, <<c, p>>)
       PROVE  FreeAt(b, <<c, o>>)
  <2>1. CASE c \in DOMAIN a
    BY <1>2, <1>3, <1>11, <1>13, <2>1 DEF Untouched
  <2>2. CASE c = Len(b)
    BY <1>5, <1>10, <1>13, <2>2
  <2> QED
    BY <1>7, <2>1, <2>2
<1>14. AllocatorOK(b)
  BY <1>3, <1>12, <1>13 DEF AllocatorOK, Units, Untouched
<1> QED
  BY <1>0, <1>3, <1>7, <1>8, <1>14 DEF b

(***************************************************************************)
(* What the graph allocator relies on                                      *)
(***************************************************************************)
\* ggml_dyn_tallocr keeps its promises: sizes are rounded up to the alignment,
\* an allocation takes a free range that starts at a multiple of it or has no
\* chunk left to take one from, a range that is given back is free again, and
\* above its high-water mark a chunk stays as it was made.
THEOREM TallocrCorrect == TallocrWorks
<1>1. NumbersWork
  <2>1. \A n \in Nat : aligned(n) \in Nat /\ aligned(n) >= n /\ aligned(n) % Alignment = 0 /\ (n % Alignment = 0 => aligned(n) = n)
    BY AlignedSize, AlignedIsMultiple
  <2>2. \A m, n \in Nat : m <= n => aligned(m) <= aligned(n)
    BY AlignedMonotone
  <2>3. \A m, n \in Int : m % Alignment = 0 /\ n % Alignment = 0 => (m + n) % Alignment = 0 /\ (m - n) % Alignment = 0
    BY AlignedSum
  <2>4. \A S \in SUBSET Nat : S # {} => Min(S) \in S /\ \A y \in S : Min(S) <= y
    BY MinIsLeast
  <2> QED
    BY <2>1, <2>2, <2>3, <2>4 DEF NumbersWork
<1>2. FreeWorks
  <2> SUFFICES ASSUME NEW a, NEW n, NEW k \in DOMAIN a, NEW off \in Nat,
                      AllocatorOK(a), n \in Nat, aligned(n) > 0, off % Alignment = 0, off + aligned(n) <= a[k].max_size,
                      \A o \in Nat : off <= o /\ o < off + aligned(n) => ~FreeAt(a, <<k, o>>)
               PROVE  LET u == free_bytes(a, [chunk |-> k, offset |-> off], n)
                      IN  GotBack(u, a, k, off, aligned(n)) /\ AllocatorOK(u) /\ DOMAIN u = DOMAIN a
    BY DEF FreeWorks
  <2> DEFINE u == free_bytes(a, [chunk |-> k, offset |-> off], n)
  <2>1. Allocator(a) /\ aligned(n) \in Nat /\ aligned(n) % Alignment = 0
    BY AlignedSize, AlignedIsMultiple DEF AllocatorOK
  <2>2. \A o \in off .. off + aligned(n) - 1 : ~FreeAt(a, <<k, o>>)
    BY <2>1
  <2>3. GotBack(u, a, k, off, aligned(n))
    BY <2>1, <2>2, FreedIsFree
  <2> HIDE DEF u
  <2>4. AllocatorOK(u) /\ DOMAIN u = DOMAIN a
    BY <2>1, <2>3, FreedUnits
  <2> QED
    BY <2>3, <2>4 DEF u
<1>3. AllocWorks
  BY AllocatedWasFree DEF AllocWorks
<1>4. TakeWorks
  BY TakenUnits DEF TakeWorks
<1>5. GrowWorks
  BY NewChunkUnits DEF GrowWorks
<1> QED
  BY <1>1, <1>2, <1>3, <1>4, <1>5 DEF TallocrWorks
=============================================================================
