------------------------------ MODULE GraphHeap ------------------------------
(***************************************************************************)
(* The heap of ggml_gallocr, for any graphs, sizes and number of chunks:   *)
(* what the tensors own and what is free.  The lemmas rest on what the     *)
(* allocator promises, TallocrWorks, and not on how it keeps it, so that   *)
(* they do not carry the proofs about free blocks along.                   *)
(***************************************************************************)
EXTENDS ComputeGraph, FiniteSetTheorems, TLAPS

(***************************************************************************)
(* The heap: the allocator a and what hash_values h say the tensors of     *)
(* graph g own.                                                            *)
(***************************************************************************)
Size(g, t) == aligned(g[t].nbytes + g[t].extra)

Records == [n_children : Int, n_views : Int, addr : [chunk : Nat, offset : Nat], allocated : BOOLEAN]

InRange(addr, n, c, o) == addr.chunk = c /\ addr.offset <= o /\ o < addr.offset + n

Owns(g, h, t, c, o) == h[t].allocated /\ InRange(h[t].addr, Size(g, t), c, o)

\* n bytes below the high-water mark of their chunk
Within(a, addr, n) ==
  addr.chunk \in DOMAIN a /\ addr.offset + n <= a[addr.chunk].max_size /\ addr.offset % Alignment = 0

\* every tensor that got an address lies in the allocator; the ranges of those
\* that still own theirs are disjoint and, with the free ones, all there are
HeapOK(g, h, a) ==
  /\ AllocatorOK(a)
  /\ h \in [DOMAIN g -> Records]
  /\ \A t \in DOMAIN g : h[t].addr # NoAddr => Within(a, h[t].addr, Size(g, t))
  /\ \A t \in DOMAIN g : h[t].allocated => h[t].addr # NoAddr
  /\ \A t \in DOMAIN g, c \in DOMAIN a, o \in Nat : Owns(g, h, t, c, o) => ~FreeAt(a, <<c, o>>)
  /\ \A t \in DOMAIN g, u \in DOMAIN g, c \in DOMAIN a, o \in Nat : Owns(g, h, t, c, o) /\ Owns(g, h, u, c, o) => t = u
  /\ \A c \in DOMAIN a, o \in Nat : o < a[c].max_size => FreeAt(a, <<c, o>>) \/ \E t \in DOMAIN g : Owns(g, h, t, c, o)

\* the high-water marks
LEMMA Marks ==
  ASSUME NEW a, AllocatorOK(a)
  PROVE  DOMAIN a = 1 .. Len(a) /\ Len(a) \in Nat /\ \A c \in DOMAIN a : a[c].max_size \in Nat
<1>1. a \in Seq(ChunkT)
  BY DEF AllocatorOK, Allocator
<1>2. \A c \in DOMAIN a : a[c] \in ChunkT
  BY <1>1
<1>3. \A c \in DOMAIN a : a[c].max_size \in Nat
  BY <1>2 DEF ChunkT
<1> QED
  BY <1>1, <1>3

\* the tensors of a graph are of some size, and no larger than a chunk may be
Sized(g) == \A t \in DOMAIN g : /\ Size(g, t) \in Nat \ {0} /\ Size(g, t) % Alignment = 0 /\ Size(g, t) <= Endless
                                 /\ g[t].nbytes + g[t].extra \in Nat

\* The tensors of a graph are of some size, and no larger than a chunk may be.
LEMMA GraphSized ==
  ASSUME TallocrWorks, NEW g, IsGraph(g)
  PROVE  Sized(g)
<1> SUFFICES ASSUME NEW t \in DOMAIN g
             PROVE  /\ Size(g, t) \in Nat \ {0} /\ Size(g, t) % Alignment = 0 /\ Size(g, t) <= Endless
                    /\ g[t].nbytes + g[t].extra \in Nat
  BY DEF Sized
<1> DEFINE n == g[t].nbytes + g[t].extra
<1>1. g[t] \in Tensors /\ aligned(n) <= Endless
  BY DEF IsGraph
<1>2. g[t].nbytes \in Nat \ {0} /\ g[t].extra \in Nat
  BY <1>1 DEF Tensors
<1>3. n \in Nat /\ n > 0
  BY <1>2
<1>4. Size(g, t) = aligned(n)
  BY DEF Size
<1> HIDE DEF n
<1>5. aligned(n) \in Nat /\ aligned(n) >= n /\ aligned(n) % Alignment = 0
  BY <1>3 DEF TallocrWorks, NumbersWork
<1> QED
  BY <1>1, <1>3, <1>4, <1>5 DEF n

\* the tensors of a graph, and what they name
LEMMA GraphTypes ==
  ASSUME NEW g, IsGraph(g)
  PROVE  /\ DOMAIN g = 1 .. Len(g) /\ Len(g) \in Nat
         /\ \A t \in DOMAIN g :
              /\ g[t].src \in Seq(Nat \ {0}) /\ DOMAIN g[t].src = 1 .. Len(g[t].src) /\ Len(g[t].src) \in Nat
              /\ \A j \in DOMAIN g[t].src : g[t].src[j] \in DOMAIN g /\ g[t].src[j] < t
              /\ g[t].view \in Nat /\ g[t].view < t /\ Root(g, t) \in DOMAIN g
<1>1. g \in Seq(Tensors)
  BY DEF IsGraph
<1>2. DOMAIN g = 1 .. Len(g) /\ Len(g) \in Nat
  BY <1>1
<1>3. ASSUME NEW t \in DOMAIN g
      PROVE  /\ g[t].src \in Seq(Nat \ {0}) /\ DOMAIN g[t].src = 1 .. Len(g[t].src) /\ Len(g[t].src) \in Nat
             /\ \A j \in DOMAIN g[t].src : g[t].src[j] \in DOMAIN g /\ g[t].src[j] < t
             /\ g[t].view \in Nat /\ g[t].view < t /\ Root(g, t) \in DOMAIN g
  <2>1. g[t] \in Tensors
    BY <1>1
  <2>2. g[t].src \in Seq(Nat \ {0}) /\ g[t].view \in Nat
    BY <2>1 DEF Tensors
  <2>3. g[t].view < t /\ \A j \in DOMAIN g[t].src : g[t].src[j] < t
    BY DEF IsGraph
  <2> DEFINE s == g[t].src
             v == g[t].view
  <2>4. t \in 1 .. Len(g) /\ s \in Seq(Nat \ {0}) /\ v \in Nat /\ v < t /\ \A j \in DOMAIN s : s[j] < t
    BY <1>2, <2>2, <2>3
  <2>5. Root(g, t) = IF v = 0 THEN t ELSE v
    BY DEF Root
  <2> HIDE DEF s, v
  <2>6. DOMAIN s = 1 .. Len(s) /\ Len(s) \in Nat
    BY <2>4
  <2>7. \A j \in DOMAIN s : s[j] \in 1 .. Len(g) /\ s[j] < t
    <3>1. \A j \in DOMAIN s : s[j] \in Nat \ {0}
      BY <2>4
    <3> QED
      BY <1>2, <2>4, <3>1
  <2>8. Root(g, t) \in DOMAIN g
    BY <1>2, <2>4, <2>5
  <2> QED
    BY <1>2, <2>4, <2>6, <2>7, <2>8 DEF s, v
<1> QED
  BY <1>2, <1>3

\* h2 differs from h at most in counters, and in what the tensors of S own
SameBut(g, h2, h, S) ==
  /\ h2 \in [DOMAIN g -> Records]
  /\ \A t \in DOMAIN g \ S : h2[t].allocated = h[t].allocated /\ h2[t].addr = h[t].addr

\* Counters do not matter.
LEMMA HeapSame ==
  ASSUME NEW g, NEW h2, NEW h, NEW a, HeapOK(g, h, a), SameBut(g, h2, h, {})
  PROVE  HeapOK(g, h2, a)
<1>1. \A t \in DOMAIN g : h2[t].allocated = h[t].allocated /\ h2[t].addr = h[t].addr
  BY DEF SameBut
<1>2. \A t \in DOMAIN g : \A c, o : Owns(g, h2, t, c, o) <=> Owns(g, h, t, c, o)
  BY <1>1 DEF Owns
<1>3. h2 \in [DOMAIN g -> Records]
  BY DEF SameBut
<1> QED
  BY <1>1, <1>2, <1>3 DEF HeapOK

\* the allocator still owns the range of t
Owner(h, t) == h[t].allocated

SameCounts(g, h2, h) == \A t \in DOMAIN g : h2[t].n_children = h[t].n_children /\ h2[t].n_views = h[t].n_views

\* h2 is h but for t, which owns a range from off of chunk k
Given(g, h2, h, t, k, off) ==
  /\ SameBut(g, h2, h, {t}) /\ SameCounts(g, h2, h)
  /\ h2[t].allocated /\ h2[t].addr = [chunk |-> k, offset |-> off]

\* h2 is h but for counters, and for t, which no longer owns its range
Dropped(g, h2, h, t) ==
  /\ SameBut(g, h2, h, {t})
  /\ ~h2[t].allocated /\ h2[t].addr = h[t].addr

\* h2 is h but for t, which owns what p owned
Passed(g, h2, h, t, p) ==
  /\ SameBut(g, h2, h, {t, p}) /\ SameCounts(g, h2, h)
  /\ h2[t].allocated /\ h2[t].addr = h[p].addr
  /\ ~h2[p].allocated /\ h2[p].addr = h[p].addr

\* What the others own, and where they are, stays.
LEMMA OthersSame ==
  ASSUME NEW g, NEW h2, NEW h, NEW S, SameBut(g, h2, h, S), NEW x \in DOMAIN g, x \notin S
  PROVE  /\ h2[x].addr = h[x].addr /\ (Owner(h2, x) <=> Owner(h, x))
         /\ \A c, o : Owns(g, h2, x, c, o) <=> Owns(g, h, x, c, o)
<1>1. h2[x].allocated = h[x].allocated /\ h2[x].addr = h[x].addr
  BY DEF SameBut
<1> QED
  BY SMTT(30), <1>1 DEF Owns, Owner

\* A range stays inside when no high-water mark falls.
LEMMA StaysWithin ==
  ASSUME NEW u, NEW a, NEW addr \in [chunk : Nat, offset : Nat], NEW n \in Nat, Within(a, addr, n),
         \A c \in DOMAIN a : /\ c \in DOMAIN u /\ a[c].max_size \in Nat /\ u[c].max_size \in Nat
                              /\ a[c].max_size <= u[c].max_size
  PROVE  Within(u, addr, n)
<1> DEFINE k == addr.chunk
           off == addr.offset
<1>1. k \in DOMAIN a /\ off + n <= a[k].max_size /\ off % Alignment = 0
  BY DEF Within
<1>2. off \in Nat
  OBVIOUS
<1> HIDE DEF k, off
<1>3. k \in DOMAIN u /\ off + n <= u[k].max_size
  BY <1>1, <1>2
<1> QED
  BY <1>1, <1>3 DEF Within, k, off

\* a tensor that has an address
LEMMA HasAddress ==
  ASSUME NEW g, NEW h, NEW a, HeapOK(g, h, a), Sized(g), NEW t \in DOMAIN g
  PROVE  /\ h[t].addr \in [chunk : Nat, offset : Nat] /\ Size(g, t) \in Nat
         /\ h[t].addr # NoAddr => Within(a, h[t].addr, Size(g, t))
         /\ Owner(h, t) => h[t].addr # NoAddr
<1>1. h[t] \in Records
  BY DEF HeapOK
<1>2. h[t].addr \in [chunk : Nat, offset : Nat]
  BY <1>1 DEF Records
<1>3. Size(g, t) \in Nat
  BY DEF Sized
<1> QED
  BY <1>2, <1>3 DEF HeapOK, Owner

\* a tensor that owns a range: where it is, and that none of it is free
OwnsAt(g, h, a, t, k, off) ==
  /\ h[t].addr = [chunk |-> k, offset |-> off] /\ k \in DOMAIN a /\ k \in Nat \ {0} /\ off \in Nat /\ off % Alignment = 0
  /\ a[k].max_size \in Nat /\ off + Size(g, t) <= a[k].max_size
  /\ \A c, o : Owns(g, h, t, c, o) <=> c = k /\ off <= o /\ o < off + Size(g, t)
  /\ \A o \in Nat : off <= o /\ o < off + Size(g, t) => ~FreeAt(a, <<k, o>>)

\* An own tensor has a range, inside its chunk and apart from the free blocks.
LEMMA OwnRange ==
  ASSUME NEW g, NEW h, NEW a, HeapOK(g, h, a), Sized(g), NEW t \in DOMAIN g, Owner(h, t)
  PROVE  OwnsAt(g, h, a, t, h[t].addr.chunk, h[t].addr.offset)
<1> DEFINE k == h[t].addr.chunk
           off == h[t].addr.offset
<1>1. h[t].addr \in [chunk : Nat, offset : Nat] /\ Within(a, h[t].addr, Size(g, t))
  BY HasAddress
<1>2. h[t].addr = [chunk |-> k, offset |-> off] /\ k \in Nat /\ off \in Nat
  BY <1>1
<1>3. k \in DOMAIN a /\ off + Size(g, t) <= a[k].max_size /\ off % Alignment = 0
  BY <1>1 DEF Within
<1>4. \A c, o : Owns(g, h, t, c, o) <=> c = k /\ off <= o /\ o < off + Size(g, t)
  BY SMTT(30) DEF Owns, InRange, Owner
<1>5. \A c \in DOMAIN a, o \in Nat : Owns(g, h, t, c, o) => ~FreeAt(a, <<c, o>>)
  BY DEF HeapOK
<1>6. AllocatorOK(a)
  BY DEF HeapOK
<1> HIDE DEF k, off
<1>7. a[k].max_size \in Nat /\ k \in Nat \ {0}
  <2>1. DOMAIN a = 1 .. Len(a) /\ a[k].max_size \in Nat
    BY <1>3, <1>6, Marks
  <2> QED
    BY <1>2, <1>3, <2>1
<1>8. \A o \in Nat : off <= o /\ o < off + Size(g, t) => ~FreeAt(a, <<k, o>>)
  BY <1>3, <1>4, <1>5
<1>9. OwnsAt(g, h, a, t, k, off)
  BY <1>2, <1>3, <1>4, <1>7, <1>8 DEF OwnsAt
<1> QED
  BY <1>9 DEF k, off

\* what HeapOK says of owners
OwnersOK(g, h, a) ==
  /\ \A t \in DOMAIN g, c \in DOMAIN a, o \in Nat : Owns(g, h, t, c, o) => ~FreeAt(a, <<c, o>>)
  /\ \A t \in DOMAIN g, u \in DOMAIN g, c \in DOMAIN a, o \in Nat : Owns(g, h, t, c, o) /\ Owns(g, h, u, c, o) => t = u
  /\ \A c \in DOMAIN a, o \in Nat : o < a[c].max_size => FreeAt(a, <<c, o>>) \/ \E t \in DOMAIN g : Owns(g, h, t, c, o)

\* the parts of HeapOK
LEMMA HeapParts ==
  ASSUME NEW g, NEW h, NEW a
  PROVE  HeapOK(g, h, a) <=> /\ AllocatorOK(a) /\ h \in [DOMAIN g -> Records] /\ OwnersOK(g, h, a)
                             /\ \A t \in DOMAIN g : h[t].addr # NoAddr => Within(a, h[t].addr, Size(g, t))
                             /\ \A t \in DOMAIN g : Owner(h, t) => h[t].addr # NoAddr
BY DEF HeapOK, OwnersOK, Owner

\* When part of a range is free again, the rest of which one tensor owns,
\* every address still has one owner.
LEMMA OwnersFreed ==
  ASSUME NEW g, NEW h, NEW a, OwnersOK(g, h, a), NEW u, NEW k \in DOMAIN a, NEW off \in Nat, NEW n \in Nat,
         DOMAIN u = DOMAIN a, GotBack(u, a, k, off, n), NEW h2, NEW p \in DOMAIN g, NEW t \in DOMAIN g,
         \A o \in Nat : off <= o /\ o < off + n => Owns(g, h, p, k, o),
         \A x \in DOMAIN g, c \in DOMAIN a, o \in Nat : x # p /\ x # t => (Owns(g, h2, x, c, o) <=> Owns(g, h, x, c, o)),
         \A c \in DOMAIN a, o \in Nat : Owns(g, h2, p, c, o) \/ Owns(g, h2, t, c, o) => Owns(g, h, p, c, o) /\ ~(c = k /\ off <= o /\ o < off + n),
         \A c \in DOMAIN a, o \in Nat : Owns(g, h, p, c, o) => Owns(g, h2, p, c, o) \/ Owns(g, h2, t, c, o) \/ (c = k /\ off <= o /\ o < off + n),
         \A c \in DOMAIN a, o \in Nat : ~(Owns(g, h2, p, c, o) /\ Owns(g, h2, t, c, o)) \/ p = t,
         \A c \in DOMAIN a, o \in Nat : ~Owns(g, h, t, c, o) \/ p = t
  PROVE  OwnersOK(g, h2, u)
<1>1. /\ \A c \in DOMAIN a : u[c].max_size = a[c].max_size
      /\ \A c \in DOMAIN a, o \in Nat : FreeAt(u, <<c, o>>) <=> FreeAt(a, <<c, o>>) \/ (c = k /\ off <= o /\ o < off + n)
  BY DEF GotBack
<1>2. /\ \A x \in DOMAIN g, c \in DOMAIN a, o \in Nat : Owns(g, h, x, c, o) => ~FreeAt(a, <<c, o>>)
      /\ \A x \in DOMAIN g, y \in DOMAIN g, c \in DOMAIN a, o \in Nat : Owns(g, h, x, c, o) /\ Owns(g, h, y, c, o) => x = y
      /\ \A c \in DOMAIN a, o \in Nat : o < a[c].max_size => FreeAt(a, <<c, o>>) \/ \E x \in DOMAIN g : Owns(g, h, x, c, o)
  BY DEF OwnersOK
<1>3. ASSUME NEW x \in DOMAIN g, NEW c \in DOMAIN a, NEW o \in Nat, Owns(g, h2, x, c, o) PROVE ~FreeAt(u, <<c, o>>)
  <2>1. CASE x = p \/ x = t
    BY <1>1, <1>2, <1>3, <2>1
  <2>2. CASE x # p /\ x # t
    <3>1. Owns(g, h, x, c, o)
      BY <1>3, <2>2
    <3>2. ~(c = k /\ off <= o /\ o < off + n)
      BY <1>2, <2>2, <3>1
    <3> QED
      BY <1>1, <1>2, <3>1, <3>2
  <2> QED
    BY <2>1, <2>2
<1>4. ASSUME NEW x \in DOMAIN g, NEW y \in DOMAIN g, NEW c \in DOMAIN a, NEW o \in Nat, Owns(g, h2, x, c, o), Owns(g, h2, y, c, o)
      PROVE  x = y
  <2>1. CASE x \in {p, t} /\ y \in {p, t}
    BY <1>4, <2>1
  <2>2. CASE x \in {p, t} /\ y \notin {p, t}
    BY <1>2, <1>4, <2>2
  <2>3. CASE x \notin {p, t} /\ y \in {p, t}
    BY <1>2, <1>4, <2>3
  <2>4. CASE x \notin {p, t} /\ y \notin {p, t}
    BY <1>2, <1>4, <2>4
  <2> QED
    BY <2>1, <2>2, <2>3, <2>4
<1>5. ASSUME NEW c \in DOMAIN a, NEW o \in Nat, o < a[c].max_size
      PROVE  FreeAt(u, <<c, o>>) \/ \E x \in DOMAIN g : Owns(g, h2, x, c, o)
  <2>1. CASE FreeAt(a, <<c, o>>)
    BY <1>1, <2>1
  <2>2. CASE ~FreeAt(a, <<c, o>>)
    <3>1. PICK x \in DOMAIN g : Owns(g, h, x, c, o)
      BY <1>2, <1>5, <2>2
    <3> QED
      BY <1>1, <3>1
  <2> QED
    BY <2>1, <2>2
<1> QED
  BY <1>1, <1>3, <1>4, <1>5 DEF OwnersOK

\* Where every tensor is where one at least as large was, all stay inside.
LEMMA HeapBack ==
  ASSUME NEW g, NEW h, NEW a, HeapOK(g, h, a), Sized(g), NEW u, NEW k, NEW off, NEW n, GotBack(u, a, k, off, n),
         AllocatorOK(u), DOMAIN u = DOMAIN a, NEW h2 \in [DOMAIN g -> Records], OwnersOK(g, h2, u),
         \A x \in DOMAIN g : \E y \in DOMAIN g :
           h2[x].addr = h[y].addr /\ Size(g, x) <= Size(g, y) /\ (Owner(h2, x) => Owner(h, y))
  PROVE  HeapOK(g, h2, u)
<1>1. \A c \in DOMAIN a : c \in DOMAIN u /\ a[c].max_size \in Nat /\ u[c].max_size \in Nat /\ a[c].max_size <= u[c].max_size
  <2>1. \A c \in DOMAIN a : a[c].max_size \in Nat
    BY HeapParts, Marks
  <2>2. \A c \in DOMAIN a : u[c].max_size = a[c].max_size
    BY DEF GotBack
  <2> QED
    BY <2>1, <2>2
<1>2. ASSUME NEW x \in DOMAIN g
      PROVE  /\ h2[x].addr # NoAddr => Within(u, h2[x].addr, Size(g, x))
             /\ Owner(h2, x) => h2[x].addr # NoAddr
  <2>1. PICK y \in DOMAIN g : h2[x].addr = h[y].addr /\ Size(g, x) <= Size(g, y) /\ (Owner(h2, x) => Owner(h, y))
    OBVIOUS
  <2>2. /\ h[y].addr \in [chunk : Nat, offset : Nat] /\ Size(g, y) \in Nat /\ Size(g, x) \in Nat
        /\ h[y].addr # NoAddr => Within(a, h[y].addr, Size(g, y))
        /\ Owner(h, y) => h[y].addr # NoAddr
    BY HasAddress
  <2> DEFINE d == h[y].addr
  <2> HIDE DEF d
  <2>3. d \in [chunk : Nat, offset : Nat] /\ (d # NoAddr => Within(a, d, Size(g, y)))
    BY <2>2 DEF d
  <2>4. Within(a, d, Size(g, y)) => Within(u, d, Size(g, y))
    BY <1>1, <2>2, <2>3, StaysWithin
  <2>5. ASSUME Within(u, d, Size(g, y)) PROVE Within(u, d, Size(g, x))
    <3> DEFINE m == u[d.chunk].max_size
               e == d.offset
    <3>1. d.chunk \in DOMAIN u /\ e + Size(g, y) <= m /\ e % Alignment = 0
      BY <2>5 DEF Within
    <3>2. e \in Nat /\ m \in Nat
      BY <1>1, <2>3, <3>1
    <3> HIDE DEF m, e
    <3>3. e + Size(g, x) <= m
      BY <2>1, <2>2, <3>1, <3>2
    <3> QED
      BY <3>1, <3>3 DEF Within, m, e
  <2> QED
    BY <2>1, <2>2, <2>3, <2>4, <2>5 DEF d
<1> QED
  BY <1>2, HeapParts

\* Freeing the range of t.
LEMMA HeapFreed ==
  ASSUME TallocrWorks, NEW g, NEW h, NEW a, HeapOK(g, h, a), Sized(g), NEW t \in DOMAIN g, Owner(h, t), NEW h2, Dropped(g, h2, h, t)
  PROVE  HeapOK(g, h2, free_bytes(a, h[t].addr, g[t].nbytes + g[t].extra))
<1> DEFINE n == g[t].nbytes + g[t].extra
           k == h[t].addr.chunk
           off == h[t].addr.offset
           u == free_bytes(a, h[t].addr, n)
<1>1. OwnsAt(g, h, a, t, k, off)
  BY OwnRange
<1>2. n \in Nat /\ aligned(n) = Size(g, t) /\ Size(g, t) \in Nat /\ Size(g, t) > 0 /\ Size(g, t) % Alignment = 0
  BY DEF Sized, Size
<1>3. AllocatorOK(a) /\ OwnersOK(g, h, a) /\ h \in [DOMAIN g -> Records]
  BY HeapParts
<1>4. SameBut(g, h2, h, {t}) /\ ~Owner(h2, t) /\ h2[t].addr = h[t].addr /\ h2 \in [DOMAIN g -> Records]
  BY DEF Dropped, SameBut, Owner
<1> HIDE DEF n, k, off
<1>5. /\ h[t].addr = [chunk |-> k, offset |-> off] /\ k \in DOMAIN a /\ off \in Nat /\ off % Alignment = 0
      /\ off + Size(g, t) <= a[k].max_size
      /\ \A c, o : Owns(g, h, t, c, o) <=> c = k /\ off <= o /\ o < off + Size(g, t)
      /\ \A o \in Nat : off <= o /\ o < off + Size(g, t) => ~FreeAt(a, <<k, o>>)
  BY <1>1 DEF OwnsAt
<1>6. u = free_bytes(a, [chunk |-> k, offset |-> off], n)
  BY <1>5
<1> HIDE DEF u
<1>7. GotBack(u, a, k, off, Size(g, t)) /\ AllocatorOK(u) /\ DOMAIN u = DOMAIN a
  <2>1. /\ aligned(n) > 0 /\ off + aligned(n) <= a[k].max_size
        /\ \A o \in Nat : off <= o /\ o < off + aligned(n) => ~FreeAt(a, <<k, o>>)
    BY <1>2, <1>5
  <2> QED
    BY <1>2, <1>3, <1>5, <1>6, <2>1 DEF TallocrWorks, FreeWorks
<1>9. OwnersOK(g, h2, u)
  <2>1. \A c, o : ~Owns(g, h2, t, c, o)
    BY <1>4 DEF Owns, Owner
  <2>2. \A x \in DOMAIN g : \A c, o : x # t => (Owns(g, h2, x, c, o) <=> Owns(g, h, x, c, o))
    BY <1>4, OthersSame
  <2> DEFINE m == Size(g, t)
  <2> HIDE DEF m
  <2>3. /\ \A o \in Nat : off <= o /\ o < off + m => Owns(g, h, t, k, o)
        /\ \A c \in DOMAIN a, o \in Nat : Owns(g, h, t, c, o) => c = k /\ off <= o /\ o < off + m
    BY <1>5 DEF m
  <2>4. GotBack(u, a, k, off, m) /\ m \in Nat /\ k \in DOMAIN a /\ off \in Nat /\ DOMAIN u = DOMAIN a
    BY <1>2, <1>5, <1>7 DEF m
  <2>5. /\ \A c \in DOMAIN a, o \in Nat : Owns(g, h2, t, c, o) \/ Owns(g, h2, t, c, o)
             => Owns(g, h, t, c, o) /\ ~(c = k /\ off <= o /\ o < off + m)
        /\ \A c \in DOMAIN a, o \in Nat : Owns(g, h, t, c, o)
             => Owns(g, h2, t, c, o) \/ Owns(g, h2, t, c, o) \/ (c = k /\ off <= o /\ o < off + m)
        /\ \A x \in DOMAIN g, c \in DOMAIN a, o \in Nat : x # t /\ x # t => (Owns(g, h2, x, c, o) <=> Owns(g, h, x, c, o))
    BY <2>1, <2>2, <2>3
  <2> QED
    BY <1>3, <2>3, <2>4, <2>5, OwnersFreed
<1>10. ASSUME NEW x \in DOMAIN g
       PROVE  h2[x].addr = h[x].addr /\ Size(g, x) <= Size(g, x) /\ (Owner(h2, x) => Owner(h, x))
  <2>1. Size(g, x) <= Size(g, x)
    BY HasAddress
  <2>2. x # t => h2[x].addr = h[x].addr /\ (Owner(h2, x) <=> Owner(h, x))
    BY <1>4, OthersSame
  <2> QED
    BY <1>4, <2>1, <2>2
<1>11. HeapOK(g, h2, u)
  BY <1>4, <1>7, <1>9, <1>10, HeapBack
<1> QED
  BY <1>11 DEF u, n

\* What is left of the range of p when t takes its place is free again.
LEMMA ExtraFreed ==
  ASSUME TallocrWorks, NEW a, AllocatorOK(a), NEW k \in DOMAIN a, NEW off \in Nat, off % Alignment = 0, NEW np \in Nat, NEW nt \in Nat, nt <= np,
         off + aligned(np) <= a[k].max_size,
         \A o \in Nat : off <= o /\ o < off + aligned(np) => ~FreeAt(a, <<k, o>>)
  PROVE  LET u == free_extra_space(a, [chunk |-> k, offset |-> off], np, nt)
         IN  /\ GotBack(u, a, k, off + aligned(nt), aligned(np) - aligned(nt))
             /\ AllocatorOK(u) /\ DOMAIN u = DOMAIN a
<1> DEFINE p == aligned(np)
           t == aligned(nt)
           d == [chunk |-> k, offset |-> off + t]
           u == free_extra_space(a, [chunk |-> k, offset |-> off], np, nt)
<1>1. p \in Nat /\ t \in Nat /\ t <= p /\ p % Alignment = 0 /\ t % Alignment = 0
  BY DEF TallocrWorks, NumbersWork
<1>2. u = IF p = t THEN a ELSE free_bytes(a, d, p - t)
  BY DEF free_extra_space
<1>3. Allocator(a)
  BY DEF AllocatorOK
<1>4. off + p <= a[k].max_size /\ \A o \in Nat : off <= o /\ o < off + p => ~FreeAt(a, <<k, o>>)
  OBVIOUS
<1> HIDE DEF p, t, u
<1>5. (off + t) % Alignment = 0 /\ (p - t) % Alignment = 0
  BY <1>1 DEF TallocrWorks, NumbersWork
<1>6. p - t \in Nat /\ off + t \in Nat /\ a[k].max_size \in Nat
  BY <1>1, Marks
<1>7. aligned(p - t) = p - t
  BY <1>5, <1>6 DEF TallocrWorks, NumbersWork
<1>9. off + t + (p - t) <= a[k].max_size
  BY <1>1, <1>4, <1>6
<1>10. GotBack(u, a, k, off + t, p - t) /\ AllocatorOK(u) /\ DOMAIN u = DOMAIN a
  <2>1. CASE p = t
    <3>1. u = a /\ p - t = 0
      BY <1>1, <1>2, <2>1
    <3>2. \A o \in Nat : ~(off + t <= o /\ o < off + t + 0)
      BY <1>6
    <3> QED
      BY <1>3, <3>1, <3>2 DEF GotBack
  <2>2. CASE p # t
    <3>1. u = free_bytes(a, [chunk |-> k, offset |-> off + t], p - t)
      BY <1>2, <2>2
    <3>2. aligned(p - t) > 0
      BY <1>1, <1>6, <1>7, <2>2
    <3>3. \A o \in Nat : off + t <= o /\ o < off + t + (p - t) => ~FreeAt(a, <<k, o>>)
      BY <1>1, <1>4
    <3>4. GotBack(u, a, k, off + t, aligned(p - t)) /\ AllocatorOK(u) /\ DOMAIN u = DOMAIN a
      BY <1>5, <1>6, <1>7, <1>9, <3>1, <3>2, <3>3 DEF TallocrWorks, FreeWorks
    <3> QED
      BY <1>7, <3>4
  <2> QED
    BY <2>1, <2>2
<1> QED
  BY <1>10 DEF u, p, t

\* Tensor t takes the place of p, and what is left of it is free.
LEMMA HeapPassed ==
  ASSUME TallocrWorks, NEW g, NEW h, NEW a, HeapOK(g, h, a), Sized(g), NEW t \in DOMAIN g, NEW p \in DOMAIN g, Owner(h, p), ~Owner(h, t),
         NEW np, np = g[p].nbytes + g[p].extra, NEW nt, nt = g[t].nbytes + g[t].extra, nt <= np,
         NEW h2, Passed(g, h2, h, t, p)
  PROVE  HeapOK(g, h2, free_extra_space(a, h[p].addr, np, nt))
<1> DEFINE k == h[p].addr.chunk
           off == h[p].addr.offset
           u == free_extra_space(a, h[p].addr, np, nt)
<1>1. OwnsAt(g, h, a, p, k, off)
  BY OwnRange
<1>2. /\ np \in Nat /\ nt \in Nat /\ aligned(np) = Size(g, p) /\ aligned(nt) = Size(g, t)
      /\ Size(g, p) \in Nat /\ Size(g, t) \in Nat
  BY DEF Sized, Size
<1>3. AllocatorOK(a) /\ OwnersOK(g, h, a) /\ h \in [DOMAIN g -> Records]
  BY HeapParts
<1>4. /\ SameBut(g, h2, h, {t, p}) /\ h2 \in [DOMAIN g -> Records]
      /\ Owner(h2, t) /\ h2[t].addr = h[p].addr /\ ~Owner(h2, p) /\ h2[p].addr = h[p].addr
  BY DEF Passed, SameBut, Owner
<1> HIDE DEF k, off
<1>5. /\ h[p].addr = [chunk |-> k, offset |-> off] /\ k \in DOMAIN a /\ off \in Nat /\ off % Alignment = 0
      /\ off + Size(g, p) <= a[k].max_size
      /\ \A c, o : Owns(g, h, p, c, o) <=> c = k /\ off <= o /\ o < off + Size(g, p)
      /\ \A o \in Nat : off <= o /\ o < off + Size(g, p) => ~FreeAt(a, <<k, o>>)
  BY <1>1 DEF OwnsAt
<1>6. u = free_extra_space(a, [chunk |-> k, offset |-> off], np, nt)
  BY <1>5
<1> HIDE DEF u
<1>7. GotBack(u, a, k, off + Size(g, t), Size(g, p) - Size(g, t)) /\ AllocatorOK(u) /\ DOMAIN u = DOMAIN a
  BY <1>2, <1>3, <1>5, <1>6, ExtraFreed
<1>8. Size(g, t) <= Size(g, p)
  <2>1. NumbersWork
    BY DEF TallocrWorks
  <2> QED
    BY <1>2, <2>1 DEF NumbersWork
<1> DEFINE m == Size(g, t)
           n == Size(g, p)
<1> HIDE DEF m, n
<1>9. OwnersOK(g, h2, u)
  <2>1. \A c, o : ~Owns(g, h2, p, c, o) /\ ~Owns(g, h, t, c, o)
    BY <1>4 DEF Owns, Owner
  <2>2. \A x \in DOMAIN g : \A c, o : x # p /\ x # t => (Owns(g, h2, x, c, o) <=> Owns(g, h, x, c, o))
    BY <1>4, OthersSame
  <2>3. \A c, o : Owns(g, h2, t, c, o) <=> c = k /\ off <= o /\ o < off + m
    <3>1. h2[t].addr.chunk = k /\ h2[t].addr.offset = off
      BY <1>4, <1>5
    <3> QED
      BY <1>4, <3>1 DEF Owns, InRange, Owner, m
  <2>4. m \in Nat /\ n \in Nat /\ m <= n /\ off + m \in Nat /\ n - m \in Nat
    BY <1>2, <1>5, <1>8 DEF m, n
  <2>5. \A c, o : Owns(g, h, p, c, o) <=> c = k /\ off <= o /\ o < off + n
    BY <1>5 DEF n
  <2>6. \A o \in Nat : off + m <= o /\ o < off + m + (n - m) => Owns(g, h, p, k, o)
    BY <1>5, <2>4, <2>5
  <2>7. \A c \in DOMAIN a, o \in Nat : Owns(g, h2, p, c, o) \/ Owns(g, h2, t, c, o)
          => Owns(g, h, p, c, o) /\ ~(c = k /\ off + m <= o /\ o < off + m + (n - m))
    BY <1>5, <2>1, <2>3, <2>4, <2>5
  <2>8. \A c \in DOMAIN a, o \in Nat : Owns(g, h, p, c, o)
          => Owns(g, h2, p, c, o) \/ Owns(g, h2, t, c, o) \/ (c = k /\ off + m <= o /\ o < off + m + (n - m))
    BY <1>5, <2>3, <2>4, <2>5
  <2>9. GotBack(u, a, k, off + m, n - m) /\ DOMAIN u = DOMAIN a
    BY <1>7 DEF m, n
  <2> QED
    BY Zenon, <1>3, <1>5, <2>1, <2>2, <2>4, <2>6, <2>7, <2>8, <2>9, OwnersFreed
<1>10. \A x \in DOMAIN g : \E y \in DOMAIN g :
         h2[x].addr = h[y].addr /\ Size(g, x) <= Size(g, y) /\ (Owner(h2, x) => Owner(h, y))
  <2> SUFFICES ASSUME NEW x \in DOMAIN g
               PROVE  \E y \in DOMAIN g : h2[x].addr = h[y].addr /\ Size(g, x) <= Size(g, y) /\ (Owner(h2, x) => Owner(h, y))
    OBVIOUS
  <2>1. CASE x = t
    BY <1>4, <1>8, <2>1
  <2>2. CASE x # t
    <3>1. Size(g, x) <= Size(g, x)
      BY HasAddress
    <3>2. x # p => h2[x].addr = h[x].addr /\ (Owner(h2, x) <=> Owner(h, x))
      BY <1>4, <2>2, OthersSame
    <3> QED
      BY <1>4, <3>1, <3>2
  <2> QED
    BY <2>1, <2>2
<1>11. HeapOK(g, h2, u)
  BY <1>4, <1>7, <1>9, <1>10, HeapBack
<1> QED
  BY <1>11 DEF u

\* What the tensors own once t was given a range.
LEMMA GivenOwns ==
  ASSUME NEW g, NEW h2, NEW h, NEW t \in DOMAIN g, NEW k, NEW off, Given(g, h2, h, t, k, off)
  PROVE  /\ \A c, o : Owns(g, h2, t, c, o) <=> c = k /\ off <= o /\ o < off + Size(g, t)
         /\ \A x \in DOMAIN g : x # t => \A c, o : Owns(g, h2, x, c, o) <=> Owns(g, h, x, c, o)
<1>1. h2[t].allocated /\ h2[t].addr = [chunk |-> k, offset |-> off]
  BY DEF Given
<1>2. h2[t].addr.chunk = k /\ h2[t].addr.offset = off
  BY <1>1
<1>3. \A c, o : Owns(g, h2, t, c, o) <=> c = k /\ off <= o /\ o < off + Size(g, t)
  BY SMTT(30), <1>1, <1>2 DEF Owns, InRange
<1>4. SameBut(g, h2, h, {t})
  BY DEF Given
<1> QED
  BY <1>3, <1>4, OthersSame

\* When t was given what was free, every address still has one owner.
LEMMA OwnersTaken ==
  ASSUME TallocrWorks, NEW g, NEW h, NEW a, OwnersOK(g, h, a), AllocatorOK(a), NEW t \in DOMAIN g, NEW n \in Nat, n > 0, n % Alignment = 0,
         NEW u, NEW k, NEW off, TookRange(u, a, k, off, n),
         NEW h2, \A c, o : ~Owns(g, h, t, c, o),
         \A c, o : Owns(g, h2, t, c, o) <=> c = k /\ off <= o /\ o < off + n,
         \A x \in DOMAIN g : x # t => \A c, o : Owns(g, h2, x, c, o) <=> Owns(g, h, x, c, o)
  PROVE  OwnersOK(g, h2, u)
<1>3. AllocatorOK(u) /\ off \in Nat
  BY DEF TallocrWorks, TakeWorks
<1>4. /\ Len(u) = Len(a) /\ k \in DOMAIN a
      /\ u[k].max_size = a[k].max_size \/ u[k].max_size = off + n
      /\ \A c \in DOMAIN a : c # k => u[c].max_size = a[c].max_size
      /\ \A o \in off .. off + n - 1 : FreeAt(a, <<k, o>>)
      /\ \A c \in DOMAIN a, o \in Nat : FreeAt(u, <<c, o>>) <=> FreeAt(a, <<c, o>>) /\ ~(c = k /\ off <= o /\ o < off + n)
  BY DEF TookRange
<1>5. DOMAIN u = DOMAIN a /\ \A c \in DOMAIN a : a[c].max_size \in Nat /\ u[c].max_size \in Nat
  <2>1. /\ DOMAIN a = 1 .. Len(a) /\ DOMAIN u = 1 .. Len(u)
        /\ (\A c \in DOMAIN a : a[c].max_size \in Nat) /\ \A c \in DOMAIN u : u[c].max_size \in Nat
    BY <1>3, Marks
  <2> QED
    BY <1>4, <2>1
<1>6. /\ \A x \in DOMAIN g, c \in DOMAIN a, o \in Nat : Owns(g, h, x, c, o) => ~FreeAt(a, <<c, o>>)
      /\ \A x \in DOMAIN g, y \in DOMAIN g, c \in DOMAIN a, o \in Nat : Owns(g, h, x, c, o) /\ Owns(g, h, y, c, o) => x = y
      /\ \A c \in DOMAIN a, o \in Nat : o < a[c].max_size => FreeAt(a, <<c, o>>) \/ \E x \in DOMAIN g : Owns(g, h, x, c, o)
  BY DEF OwnersOK
<1>9. ASSUME NEW o \in Nat, off <= o, o < off + n PROVE FreeAt(a, <<k, o>>)
  <2>1. o \in off .. off + n - 1
    BY <1>3, <1>9
  <2> QED
    BY <1>4, <2>1
<1>12. ASSUME NEW x \in DOMAIN g, NEW c \in DOMAIN u, NEW o \in Nat, Owns(g, h2, x, c, o) PROVE ~FreeAt(u, <<c, o>>)
  <2>1. CASE x = t
    BY <1>4, <1>5, <1>12, <2>1
  <2>2. CASE x # t
    BY <1>4, <1>5, <1>6, <1>12, <2>2
  <2> QED
    BY <2>1, <2>2
<1>13. ASSUME NEW x \in DOMAIN g, NEW c \in DOMAIN u, NEW o \in Nat, Owns(g, h2, x, c, o), Owns(g, h2, t, c, o) PROVE x = t
  <2>1. c = k /\ off <= o /\ o < off + n
    BY <1>13
  <2>2. FreeAt(a, <<c, o>>)
    BY <1>9, <2>1
  <2>3. ~Owns(g, h, x, c, o)
    BY <1>5, <1>6, <2>2
  <2> QED
    BY <1>13, <2>3
<1>14. ASSUME NEW x \in DOMAIN g, NEW y \in DOMAIN g, NEW c \in DOMAIN u, NEW o \in Nat, Owns(g, h2, x, c, o), Owns(g, h2, y, c, o)
       PROVE  x = y
  <2>1. CASE x = t \/ y = t
    BY <1>13, <1>14, <2>1
  <2>2. CASE x # t /\ y # t
    BY <1>5, <1>6, <1>14, <2>2
  <2> QED
    BY <2>1, <2>2
<1>15. ASSUME NEW c \in DOMAIN u, NEW o \in Nat, o < u[c].max_size
       PROVE  FreeAt(u, <<c, o>>) \/ \E x \in DOMAIN g : Owns(g, h2, x, c, o)
  <2>1. CASE c = k /\ off <= o /\ o < off + n
    BY <2>1
  <2>2. CASE ~(c = k /\ off <= o /\ o < off + n)
    <3>1. CASE o < a[c].max_size
      <4>1. FreeAt(a, <<c, o>>) \/ \E x \in DOMAIN g : Owns(g, h, x, c, o)
        BY <1>5, <1>6, <3>1
      <4> QED
        BY <1>4, <1>5, <2>2, <4>1
    <3>2. CASE ~(o < a[c].max_size)
      <4>1. c = k /\ a[k].max_size <= o /\ o < off
        BY <1>3, <1>4, <1>5, <1>15, <2>2, <3>2
      <4>2. FreeAt(a, <<k, off>>)
        BY <1>3, <1>9
      <4>3. FreeAt(a, <<c, o>>)
        BY <1>3, <1>4, <4>1, <4>2 DEF AllocatorOK, Untouched
      <4> QED
        BY <1>4, <1>5, <2>2, <4>3
    <3> QED
      BY <3>1, <3>2
  <2> QED
    BY <2>1, <2>2
<1> QED
  BY <1>12, <1>14, <1>15 DEF OwnersOK

\* An allocation from the chunks there are: tensor t owns what was free.
LEMMA HeapTaken ==
  ASSUME TallocrWorks, NEW g, NEW h, NEW a, HeapOK(g, h, a), Sized(g), NEW t \in DOMAIN g, ~Owner(h, t),
         NEW u, NEW k, NEW off, TookRange(u, a, k, off, Size(g, t)),
         NEW h2, Given(g, h2, h, t, k, off)
  PROVE  HeapOK(g, h2, u)
<1>1. Size(g, t) \in Nat /\ Size(g, t) > 0 /\ Size(g, t) % Alignment = 0
  BY DEF Sized
<1>2. AllocatorOK(a) /\ OwnersOK(g, h, a) /\ h \in [DOMAIN g -> Records]
  BY HeapParts
<1>3. AllocatorOK(u) /\ off % Alignment = 0 /\ off \in Nat
  BY <1>1, <1>2 DEF TallocrWorks, TakeWorks
<1>4. OwnersOK(g, h2, u)
  <2>1. \A c, o : ~Owns(g, h, t, c, o)
    BY DEF Owns, Owner
  <2>2. /\ \A c, o : Owns(g, h2, t, c, o) <=> c = k /\ off <= o /\ o < off + Size(g, t)
        /\ \A x \in DOMAIN g : x # t => \A c, o : Owns(g, h2, x, c, o) <=> Owns(g, h, x, c, o)
    BY SMTT(30), GivenOwns
  <2> QED
    BY <1>1, <1>2, <2>1, <2>2, OwnersTaken
<1>5. /\ k \in DOMAIN a /\ k \in DOMAIN u /\ k \in Nat \ {0} /\ off + Size(g, t) <= u[k].max_size
      /\ \A c \in DOMAIN a : /\ c \in DOMAIN u /\ a[c].max_size \in Nat /\ u[c].max_size \in Nat
                              /\ a[c].max_size <= u[c].max_size
  <2>1. /\ Len(u) = Len(a) /\ k \in DOMAIN a
        /\ u[k].max_size >= a[k].max_size /\ u[k].max_size >= off + Size(g, t)
        /\ \A c \in DOMAIN a : c # k => u[c].max_size = a[c].max_size
    BY DEF TookRange
  <2>3. /\ DOMAIN u = 1 .. Len(u) /\ DOMAIN a = 1 .. Len(a)
        /\ \A c \in DOMAIN a : a[c].max_size \in Nat
        /\ \A c \in DOMAIN u : u[c].max_size \in Nat
    BY <1>2, <1>3, Marks
  <2>4. DOMAIN u = DOMAIN a
    BY <2>1, <2>3
  <2>5. \A c \in DOMAIN a : a[c].max_size <= u[c].max_size
    BY <2>1, <2>3, <2>4
  <2>6. k \in Nat \ {0} /\ off + Size(g, t) <= u[k].max_size
    BY <1>1, <1>3, <2>1, <2>3, <2>4
  <2> QED
    BY <2>1, <2>3, <2>4, <2>5, <2>6
<1>6. SameBut(g, h2, h, {t}) /\ h2 \in [DOMAIN g -> Records] /\ Owner(h2, t) /\ h2[t].addr = [chunk |-> k, offset |-> off]
  BY DEF Given, SameBut, Owner
<1>7. h2[t].addr # NoAddr /\ Within(u, h2[t].addr, Size(g, t))
  <2>1. h2[t].addr.chunk = k /\ h2[t].addr.offset = off
    BY <1>6
  <2>2. NoAddr.chunk = 0
    BY DEF NoAddr
  <2> QED
    BY <1>3, <1>5, <2>1, <2>2 DEF Within
<1>8. ASSUME NEW x \in DOMAIN g, x # t
      PROVE  /\ h2[x].addr # NoAddr => Within(u, h2[x].addr, Size(g, x))
             /\ Owner(h2, x) => h2[x].addr # NoAddr
  <2>1. h2[x].addr = h[x].addr /\ (Owner(h2, x) <=> Owner(h, x))
    BY <1>6, <1>8, OthersSame
  <2>2. /\ h[x].addr \in [chunk : Nat, offset : Nat] /\ Size(g, x) \in Nat
        /\ h[x].addr # NoAddr => Within(a, h[x].addr, Size(g, x))
        /\ Owner(h, x) => h[x].addr # NoAddr
    BY HasAddress
  <2>3. Within(a, h[x].addr, Size(g, x)) => Within(u, h[x].addr, Size(g, x))
    BY <1>5, <2>2, StaysWithin
  <2> QED
    BY <2>1, <2>2, <2>3
<1>9. \A x \in DOMAIN g : /\ h2[x].addr # NoAddr => Within(u, h2[x].addr, Size(g, x))
                          /\ Owner(h2, x) => h2[x].addr # NoAddr
  BY <1>7, <1>8
<1> QED
  BY <1>3, <1>4, <1>6, <1>9, HeapParts

\* A new chunk changes nothing for the tensors.
LEMMA HeapGrown ==
  ASSUME TallocrWorks, NEW g, NEW h, NEW a, HeapOK(g, h, a), Sized(g), NEW n \in Nat, n > 0, n % Alignment = 0, n <= Endless
  PROVE  HeapOK(g, h, new_chunk(a, n))
<1> DEFINE b == new_chunk(a, n)
<1>1. AllocatorOK(a) /\ OwnersOK(g, h, a) /\ h \in [DOMAIN g -> Records]
  BY HeapParts
<1>2. /\ AllocatorOK(b) /\ Len(b) = Len(a) + 1 /\ (\A c \in DOMAIN a : b[c] = a[c])
      /\ b[Len(b)].max_size = 0 /\ \A c \in DOMAIN b : c \in DOMAIN a \/ c = Len(b)
  BY <1>1 DEF TallocrWorks, GrowWorks
<1> HIDE DEF b
<1>3. /\ DOMAIN a = 1 .. Len(a) /\ Len(a) \in Nat /\ DOMAIN b = 1 .. Len(b)
      /\ \A c \in DOMAIN a : a[c].max_size \in Nat
  BY <1>1, <1>2, Marks
<1>4. \A c \in DOMAIN a : c \in DOMAIN b /\ a[c].max_size \in Nat /\ b[c].max_size \in Nat /\ a[c].max_size <= b[c].max_size
  BY <1>2, <1>3
<1>5. \A c \in DOMAIN a : \A o : FreeAt(b, <<c, o>>) <=> FreeAt(a, <<c, o>>)
  BY <1>2 DEF FreeAt
<1>6. ASSUME NEW x \in DOMAIN g
      PROVE  /\ h[x].addr # NoAddr => Within(b, h[x].addr, Size(g, x))
             /\ Owner(h, x) => h[x].addr # NoAddr
             /\ \A o : ~Owns(g, h, x, Len(b), o)
  <2>1. /\ h[x].addr \in [chunk : Nat, offset : Nat] /\ Size(g, x) \in Nat
        /\ h[x].addr # NoAddr => Within(a, h[x].addr, Size(g, x))
        /\ Owner(h, x) => h[x].addr # NoAddr
    BY HasAddress
  <2>2. Within(a, h[x].addr, Size(g, x)) => Within(b, h[x].addr, Size(g, x))
    BY <1>4, <2>1, StaysWithin
  <2>3. Owner(h, x) => h[x].addr.chunk \in DOMAIN a
    BY <2>1 DEF Within
  <2>4. Len(b) \notin DOMAIN a
    BY <1>2, <1>3
  <2>5. \A o : ~Owns(g, h, x, Len(b), o)
    BY <2>3, <2>4 DEF Owns, InRange, Owner
  <2> QED
    BY <2>1, <2>2, <2>5
<1>7. OwnersOK(g, h, b)
  <2>1. ASSUME NEW x \in DOMAIN g, NEW c \in DOMAIN b, NEW o \in Nat, Owns(g, h, x, c, o) PROVE c \in DOMAIN a /\ ~FreeAt(b, <<c, o>>)
    <3>1. c \in DOMAIN a
      BY <1>2, <1>6, <2>1
    <3> QED
      BY <1>1, <1>5, <2>1, <3>1 DEF OwnersOK
  <2>2. ASSUME NEW x \in DOMAIN g, NEW y \in DOMAIN g, NEW c \in DOMAIN b, NEW o \in Nat, Owns(g, h, x, c, o), Owns(g, h, y, c, o)
        PROVE  x = y
    <3>1. c \in DOMAIN a
      BY <2>1, <2>2
    <3> QED
      BY <1>1, <2>2, <3>1 DEF OwnersOK
  <2>3. ASSUME NEW c \in DOMAIN b, NEW o \in Nat, o < b[c].max_size
        PROVE  FreeAt(b, <<c, o>>) \/ \E x \in DOMAIN g : Owns(g, h, x, c, o)
    <3>1. c \in DOMAIN a /\ o < a[c].max_size
      BY <1>2, <2>3
    <3> QED
      BY <1>1, <1>5, <3>1 DEF OwnersOK
  <2> QED
    BY <2>1, <2>2, <2>3 DEF OwnersOK
<1>8. HeapOK(g, h, b)
  BY <1>1, <1>2, <1>6, <1>7, HeapParts
<1> QED
  BY <1>8 DEF b

(***************************************************************************)
(* What the assignments to hash_values make of them                        *)
(***************************************************************************)
\* what EXCEPT makes of a record of hash_values
LEMMA GivenExcept ==
  ASSUME NEW g, NEW h \in [DOMAIN g -> Records], NEW t \in DOMAIN g, NEW k \in Nat, NEW off \in Nat
  PROVE  Given(g, [h EXCEPT ![t].allocated = TRUE, ![t].addr = [chunk |-> k, offset |-> off]], h, t, k, off)
<1> DEFINE d == [chunk |-> k, offset |-> off]
           h2 == [h EXCEPT ![t].allocated = TRUE, ![t].addr = d]
<1>1. h[t] \in Records /\ d \in [chunk : Nat, offset : Nat]
  OBVIOUS
<1> HIDE DEF d
<1>2. h2[t] = [h[t] EXCEPT !.allocated = TRUE, !.addr = d]
  OBVIOUS
<1>4. h2 = [x \in DOMAIN g |-> h2[x]] /\ \A x \in DOMAIN g \ {t} : h2[x] = h[x]
  OBVIOUS
<1> HIDE DEF h2
<1>3. h2[t] \in Records /\ h2[t].allocated /\ h2[t].addr = d
  BY <1>1, <1>2 DEF Records
<1>5. h2 = [x \in DOMAIN g |-> h2[x]] /\ \A x \in DOMAIN g : h2[x] \in Records
  BY <1>3, <1>4
<1>6. SameBut(g, h2, h, {t})
  BY <1>4, <1>5 DEF SameBut
<1>7. h2[t].n_children = h[t].n_children /\ h2[t].n_views = h[t].n_views
  BY <1>1, <1>2 DEF Records
<1>8. SameCounts(g, h2, h)
  BY <1>4, <1>7 DEF SameCounts
<1> QED
  BY <1>3, <1>6, <1>8 DEF Given, d, h2

\* the same when t takes the place of p
LEMMA PassedExcept ==
  ASSUME NEW g, NEW h \in [DOMAIN g -> Records], NEW t \in DOMAIN g, NEW p \in DOMAIN g, t # p
  PROVE  Passed(g, [h EXCEPT ![t].allocated = TRUE, ![t].addr = h[p].addr, ![p].allocated = FALSE], h, t, p)
<1> DEFINE d == h[p].addr
           h2 == [h EXCEPT ![t].allocated = TRUE, ![t].addr = d, ![p].allocated = FALSE]
<1>1. h[t] \in Records /\ h[p] \in Records /\ d \in [chunk : Nat, offset : Nat]
  BY DEF Records
<1>2. h[p].addr = d
  OBVIOUS
<1> HIDE DEF d
<1>3. h2[t] = [h[t] EXCEPT !.allocated = TRUE, !.addr = d] /\ h2[p] = [h[p] EXCEPT !.allocated = FALSE]
  OBVIOUS
<1>4. \A x \in DOMAIN g \ {t, p} : h2[x] = h[x]
  OBVIOUS
<1>5. h2 = [x \in DOMAIN g |-> h2[x]]
  OBVIOUS
<1> HIDE DEF h2
<1>6. h2[t] \in Records /\ h2[t].allocated /\ h2[t].addr = d
  BY <1>1, <1>3 DEF Records
<1>7. h2[p] \in Records /\ ~h2[p].allocated /\ h2[p].addr = d
  BY <1>1, <1>2, <1>3 DEF Records
<1>8. \A x \in DOMAIN g : h2[x] \in Records
  BY <1>4, <1>6, <1>7
<1>9. SameBut(g, h2, h, {t, p})
  BY <1>4, <1>5, <1>8 DEF SameBut
<1>10. /\ h2[t].n_children = h[t].n_children /\ h2[t].n_views = h[t].n_views
       /\ h2[p].n_children = h[p].n_children /\ h2[p].n_views = h[p].n_views
  BY <1>1, <1>3 DEF Records
<1>11. SameCounts(g, h2, h)
  BY <1>4, <1>10 DEF SameCounts
<1> QED
  BY <1>6, <1>7, <1>9, <1>11 DEF Passed, d, h2

\* counting down changes counters
LEMMA CounterExcept ==
  ASSUME NEW g, NEW h \in [DOMAIN g -> Records], NEW t \in DOMAIN g
  PROVE  /\ SameBut(g, [h EXCEPT ![t].n_children = @ - 1], h, {})
         /\ SameBut(g, [h EXCEPT ![t].n_views = @ - 1], h, {})
<1> DEFINE h1 == [h EXCEPT ![t].n_children = @ - 1]
           h2 == [h EXCEPT ![t].n_views = @ - 1]
<1>1. h[t] \in Records
  OBVIOUS
<1>2. h1[t] = [h[t] EXCEPT !.n_children = @ - 1] /\ h2[t] = [h[t] EXCEPT !.n_views = @ - 1]
  OBVIOUS
<1>3. h[t].n_children - 1 \in Int /\ h[t].n_views - 1 \in Int
  BY <1>1 DEF Records
<1>4. \A x \in DOMAIN g \ {t} : h1[x] = h[x] /\ h2[x] = h[x]
  OBVIOUS
<1>5. h1 = [x \in DOMAIN g |-> h1[x]] /\ h2 = [x \in DOMAIN g |-> h2[x]]
  OBVIOUS
<1> HIDE DEF h1, h2
<1>6. h1[t] \in Records /\ h1[t].allocated = h[t].allocated /\ h1[t].addr = h[t].addr
  BY <1>1, <1>2, <1>3 DEF Records
<1>7. h2[t] \in Records /\ h2[t].allocated = h[t].allocated /\ h2[t].addr = h[t].addr
  BY <1>1, <1>2, <1>3 DEF Records
<1>8. SameBut(g, h1, h, {})
  <2>1. \A x \in DOMAIN g : h1[x] \in Records /\ h1[x].allocated = h[x].allocated /\ h1[x].addr = h[x].addr
    BY <1>4, <1>6
  <2> QED
    BY <1>5, <2>1 DEF SameBut
<1>9. SameBut(g, h2, h, {})
  <2>1. \A x \in DOMAIN g : h2[x] \in Records /\ h2[x].allocated = h[x].allocated /\ h2[x].addr = h[x].addr
    BY <1>4, <1>7
  <2> QED
    BY <1>5, <2>1 DEF SameBut
<1> QED
  BY <1>8, <1>9 DEF h1, h2

\* One change of counters after another.
LEMMA SameTwice ==
  ASSUME NEW g, NEW h3, NEW h2, NEW h, SameBut(g, h3, h2, {}), SameBut(g, h2, h, {})
  PROVE  SameBut(g, h3, h, {})
BY DEF SameBut

\* the range of a tensor is given up
LEMMA DroppedExcept ==
  ASSUME NEW g, NEW h, NEW h2, SameBut(g, h2, h, {}), NEW t \in DOMAIN g
  PROVE  Dropped(g, [h2 EXCEPT ![t].allocated = FALSE], h, t) /\ SameCounts(g, [h2 EXCEPT ![t].allocated = FALSE], h2)
<1> DEFINE h3 == [h2 EXCEPT ![t].allocated = FALSE]
<1>1. h2 \in [DOMAIN g -> Records] /\ \A x \in DOMAIN g : h2[x].allocated = h[x].allocated /\ h2[x].addr = h[x].addr
  BY DEF SameBut
<1>2. h2[t] \in Records
  BY <1>1
<1>3. h3[t] = [h2[t] EXCEPT !.allocated = FALSE] /\ \A x \in DOMAIN g \ {t} : h3[x] = h2[x]
  BY <1>1
<1>4. h3 = [x \in DOMAIN g |-> h3[x]]
  BY <1>1
<1> HIDE DEF h3
<1>5. h3[t] \in Records /\ ~h3[t].allocated /\ h3[t].addr = h2[t].addr
  BY <1>2, <1>3 DEF Records
<1>6. \A x \in DOMAIN g : h3[x] \in Records
  BY <1>1, <1>3, <1>5
<1>7. SameBut(g, h3, h, {t})
  BY <1>1, <1>3, <1>4, <1>6 DEF SameBut
<1>8. h3[t].n_children = h2[t].n_children /\ h3[t].n_views = h2[t].n_views
  BY <1>2, <1>3 DEF Records
<1>9. SameCounts(g, h3, h2)
  BY <1>3, <1>8 DEF SameCounts
<1> QED
  BY <1>1, <1>5, <1>7, <1>9 DEF Dropped, h3

\* the address of an allocation
LEMMA AllocAddr ==
  ASSUME NEW a, NEW n
  PROVE  \E k, off : alloc(a, n).addr = [chunk |-> k, offset |-> off]
<1> DEFINE size == aligned(n)
           inner == BestInner(a, size)
           best == IF inner # << >> THEN inner ELSE BestLast(a, size)
           full == best = << >> /\ Len(a) >= MaxChunks
           b == IF best = << >> THEN new_chunk(a, size) ELSE a
           at == IF best = << >> THEN <<Len(b), 1>> ELSE best
           u == TakeFrom(b, at[1], at[2], size)
           k1 == at[1]
           o1 == b[at[1]].free[at[2]].offset
<1>1. alloc(a, n) = IF full THEN [a |-> a, addr |-> NoAddr] ELSE [a |-> u, addr |-> [chunk |-> k1, offset |-> o1]]
  BY Zenon DEF alloc
<1> HIDE DEF full, u, k1, o1
<1>2. CASE full
  <2>1. alloc(a, n).addr = NoAddr
    BY <1>1, <1>2
  <2> QED
    BY <2>1 DEF NoAddr
<1>3. CASE ~full
  <2>1. alloc(a, n).addr = [chunk |-> k1, offset |-> o1]
    BY <1>1, <1>3
  <2> QED
    BY <2>1
<1> QED
  BY <1>2, <1>3
=============================================================================
