----------------------------- MODULE DynTallocr -----------------------------
(***************************************************************************)
(* ggml_dyn_tallocr: hands out ranges of a virtual buffer that consists of *)
(* chunks.  An allocator is a sequence of chunks; a chunk has a list of    *)
(* free blocks, sorted by address, and the highest address ever used.  An  *)
(* address is a chunk and an offset in it.                                 *)
(***************************************************************************)
EXTENDS Integers, Sequences, FiniteSetsExt

CONSTANTS Alignment,      \* of the buffer type
          MaxChunkSize,   \* get_max_size of the buffer type
          MaxChunks,      \* GGML_VBUFFER_MAX_CHUNKS
          Endless         \* SIZE_MAX/2, the size of the last chunk

ASSUME TallocrAssumption ==
  /\ Alignment \in Nat \ {0} /\ MaxChunkSize \in Nat \ {0} /\ MaxChunks \in Nat \ {0} /\ Endless \in Nat
  /\ MaxChunkSize % Alignment = 0 /\ Endless % Alignment = 0

NoAddr == [chunk |-> 0, offset |-> 0]

aligned(n) == n + ((Alignment - (n % Alignment)) % Alignment)

Block(offset, size) == [offset |-> offset, size |-> size]

End(b) == b.offset + b.size

\* InsertAt, RemoveAt and Last of SequencesExt alone: a theorem about this
\* module would carry all of that module along
InsertAt(s, i, e) == SubSeq(s, 1, i - 1) \o <<e>> \o SubSeq(s, i, Len(s))
RemoveAt(s, i) == SubSeq(s, 1, i - 1) \o SubSeq(s, i + 1, Len(s))
Last(s) == s[Len(s)]

\* kept sorted by address
insert_block(c, offset, size) ==
  LET pos == Min({i \in DOMAIN c.free : c.free[i].offset >= offset} \union {Len(c.free) + 1})
  IN  [c EXCEPT !.free = InsertAt(@, pos, Block(offset, size))]

remove_block(c, i) == [c EXCEPT !.free = RemoveAt(@, i)]

\* one more chunk; the last one allowed has no limit
new_chunk(a, min_size) ==
  Append(a, [max_size |-> 0,
             free |-> <<Block(0, IF Len(a) = MaxChunks - 1 THEN Endless ELSE Max({min_size, MaxChunkSize}))>>])

(***************************************************************************)
(* Which block an allocation takes, as <<chunk, block>>: a block that is   *)
(* not the last of its chunk (every chunk with a fitting one replaces the  *)
(* choice of the chunks before it), else a last block, where the space     *)
(* below max_size is preferred, else none.                                 *)
(***************************************************************************)
BestInner(a, size) ==
  LET Fits(c) == {i \in 1 .. Len(a[c].free) - 1 : a[c].free[i].size >= size}
      c    == Max({d \in DOMAIN a : Fits(d) # {}})
      best == Min({a[c].free[i].size : i \in Fits(c)})
  IN  IF \A d \in DOMAIN a : Fits(d) = {} THEN << >>
      ELSE <<c, Max({i \in Fits(c) : a[c].free[i].size = best})>>

BestLast(a, size) ==
  LET fits == {c \in DOMAIN a : a[c].free # << >> /\ Last(a[c].free).size >= size}
      Reuse(c) == a[c].max_size - Last(a[c].free).offset - size
      have == {Reuse(c) : c \in fits} \intersect Nat
      best == IF have # {} THEN Min(have) ELSE Max({Reuse(c) : c \in fits})
      c    == Min({d \in fits : Reuse(d) = best})
  IN  IF fits = {} THEN << >> ELSE <<c, Len(a[c].free)>>

\* the range is cut off the front of the block
TakeFrom(a, c, i, size) ==
  LET b == a[c].free[i]
      used == [max_size |-> Max({a[c].max_size, b.offset + size}),
               free |-> [a[c].free EXCEPT ![i] = Block(b.offset + size, b.size - size)]]
  IN  [a EXCEPT ![c] = IF b.size = size THEN remove_block(used, i) ELSE used]

\* ggml_dyn_tallocr_alloc: the allocator and the address; no address when it
\* aborts for want of a chunk
alloc(a, n) ==
  LET size  == aligned(n)
      inner == BestInner(a, size)
      best  == IF inner # << >> THEN inner ELSE BestLast(a, size)
      full  == best = << >> /\ Len(a) >= MaxChunks
      b     == IF best = << >> THEN new_chunk(a, size) ELSE a
      at    == IF best = << >> THEN <<Len(b), 1>> ELSE best
  IN  IF full THEN [a |-> a, addr |-> NoAddr]
      ELSE [a |-> TakeFrom(b, at[1], at[2], size), addr |-> [chunk |-> at[1], offset |-> b[at[1]].free[at[2]].offset]]

\* block i takes the addresses that follow it
Enlarge(c, i, size) == [c EXCEPT !.free[i].size = @ + size]

\* Mutant: a block that grows upwards is not joined with the next one.
GrowUp_alone(c, i, size) == Enlarge(c, i, size)

\* the freed range follows block i
GrowUp(c, i, size) ==
  LET b == Enlarge(c, i, size)
  IN  IF i < Len(c.free) /\ End(b.free[i]) = b.free[i + 1].offset
      THEN remove_block(Enlarge(b, i, b.free[i + 1].size), i + 1) ELSE b

\* the freed range precedes block i
GrowDown(c, i, offset, size) ==
  LET b == [c EXCEPT !.free[i] = Block(offset, @.size + size)]
  IN  IF i > 1 /\ End(b.free[i - 1]) = offset
      THEN remove_block(Enlarge(b, i - 1, b.free[i].size), i) ELSE b

\* ggml_dyn_tallocr_free_bytes: join with the first neighbour found
free_bytes(a, addr, n) ==
  LET size == aligned(n)
      c    == a[addr.chunk]
      hits == {i \in DOMAIN c.free : End(c.free[i]) = addr.offset \/ addr.offset + size = c.free[i].offset}
      i    == Min(hits)
  IN  [a EXCEPT ![addr.chunk] =
        IF hits = {} THEN insert_block(c, addr.offset, size)
        ELSE IF End(c.free[i]) = addr.offset THEN GrowUp(c, i, size)
        ELSE GrowDown(c, i, addr.offset, size)]

\* The free blocks of every chunk are sorted, not empty, aligned and never
\* touch: what insert_block's order and the two merges are for.
Apart(free) == /\ \A i \in DOMAIN free : free[i].size > 0
               /\ \A i, j \in DOMAIN free : i < j => End(free[i]) < free[j].offset

BlocksOK(a) ==
  \A c \in DOMAIN a : /\ Apart(a[c].free)
                       /\ \A i \in DOMAIN a[c].free : /\ a[c].free[i].offset % Alignment = 0
                                                     /\ a[c].free[i].size % Alignment = 0

\* the addresses of a range, and of the free blocks
RangeOf(addr, size) == {<<addr.chunk, o>> : o \in addr.offset .. addr.offset + size - 1}

FreeIn(free, o) == \E i \in DOMAIN free : free[i].offset <= o /\ o < End(free[i])

\* Mutant: the extra space stays taken.
free_extra_space_none(a, addr, parent_size, node_size) == a

\* ggml_gallocr_free_extra_space: a node at addr is smaller than the source it is
\* written over, and what is left at the end is free
free_extra_space(a, addr, parent_size, node_size) ==
  IF aligned(parent_size) = aligned(node_size) THEN a
  ELSE free_bytes(a, [addr EXCEPT !.offset = @ + aligned(node_size)], aligned(parent_size) - aligned(node_size))

FreeAt(a, x) == FreeIn(a[x[1]].free, x[2])

(***************************************************************************)
(* What the operations promise                                             *)
(***************************************************************************)
BlockT == [offset : Nat, size : Nat]

ChunkT == [max_size : Nat, free : Seq(BlockT)]

\* an allocator: chunks whose blocks are apart
Allocator(a) == a \in Seq(ChunkT) /\ \A c \in DOMAIN a : Apart(a[c].free)

\* block i of chunk c is one that an allocation of size bytes may take
Fitting(a, c, i, size) == c \in DOMAIN a /\ i \in 1 .. Len(a[c].free) /\ a[c].free[i].size >= size

\* an allocator that took the size bytes from off, the start of a block, of
\* chunk k
TookRange(u, a, k, off, size) ==
  /\ Allocator(u) /\ Len(u) = Len(a) /\ k \in DOMAIN a
  /\ off \in Nat /\ \E i \in 1 .. Len(a[k].free) : off = a[k].free[i].offset
  /\ u[k].max_size >= a[k].max_size /\ u[k].max_size >= off + size
  /\ u[k].max_size = a[k].max_size \/ u[k].max_size = off + size
  /\ \A c \in DOMAIN a : c # k => u[c].max_size = a[c].max_size
  /\ \A o \in off .. off + size - 1 : FreeAt(a, <<k, o>>)
  /\ \A c \in DOMAIN a, o \in Nat : FreeAt(u, <<c, o>>) <=> FreeAt(a, <<c, o>>) /\ ~(c = k /\ off <= o /\ o < off + size)

\* what an allocation of size bytes returns: no address only when the chunks
\* are used up and no block of any is large enough, else a range of one of
\* the chunks, or of a new one when no block is large enough
Allocates(r, a, size) ==
  LET none == \A c \in DOMAIN a : \A i \in 1 .. Len(a[c].free) : ~Fitting(a, c, i, size)
  IN  IF r.addr = NoAddr THEN r.a = a /\ Len(a) >= MaxChunks /\ none
      ELSE \/ TookRange(r.a, a, r.addr.chunk, r.addr.offset, size)
           \/ /\ none /\ Len(a) < MaxChunks /\ r.addr.chunk = Len(a) + 1
              /\ TookRange(r.a, new_chunk(a, size), Len(a) + 1, r.addr.offset, size)

\* an allocator that got the n bytes from off of chunk k back
GotBack(u, a, k, off, n) ==
  /\ Allocator(u) /\ Len(u) = Len(a)
  /\ \A c \in DOMAIN a : u[c].max_size = a[c].max_size
  /\ \A c \in DOMAIN a, o \in Nat : FreeAt(u, <<c, o>>) <=> FreeAt(a, <<c, o>>) \/ (c = k /\ off <= o /\ o < off + n)

\* free addresses come in whole units of the alignment, and above its
\* high-water mark a chunk is as it was made
Units(a) == \A c \in DOMAIN a, o \in Nat : o % Alignment # 0 => (FreeAt(a, <<c, o>>) <=> FreeAt(a, <<c, o - 1>>))

Untouched(a) ==
  \A c \in DOMAIN a, o \in Nat, p \in Nat : a[c].max_size <= o /\ o < p /\ FreeAt(a, <<c, p>>) => FreeAt(a, <<c, o>>)

AllocatorOK(a) == Allocator(a) /\ Units(a) /\ Untouched(a)

\* the promises, for every allocator, size and range
NumbersWork ==
  /\ \A n \in Nat : aligned(n) \in Nat /\ aligned(n) >= n /\ aligned(n) % Alignment = 0 /\ (n % Alignment = 0 => aligned(n) = n)
  /\ \A m, n \in Nat : m <= n => aligned(m) <= aligned(n)
  /\ \A m, n \in Int : m % Alignment = 0 /\ n % Alignment = 0 => (m + n) % Alignment = 0 /\ (m - n) % Alignment = 0
  /\ \A S \in SUBSET Nat : S # {} => Min(S) \in S /\ \A y \in S : Min(S) <= y

FreeWorks ==
  \A a, n : \A k \in DOMAIN a, off \in Nat :
    /\ AllocatorOK(a) /\ n \in Nat /\ aligned(n) > 0 /\ off % Alignment = 0 /\ off + aligned(n) <= a[k].max_size
    /\ \A o \in Nat : off <= o /\ o < off + aligned(n) => ~FreeAt(a, <<k, o>>)
    => LET u == free_bytes(a, [chunk |-> k, offset |-> off], n)
       IN  GotBack(u, a, k, off, aligned(n)) /\ AllocatorOK(u) /\ DOMAIN u = DOMAIN a

AllocWorks ==
  \A a, n : Allocator(a) /\ n \in Nat /\ aligned(n) > 0 /\ aligned(n) <= Endless => Allocates(alloc(a, n), a, aligned(n))

TakeWorks ==
  \A u, a, k, off, n : AllocatorOK(a) /\ n \in Nat /\ n % Alignment = 0 /\ TookRange(u, a, k, off, n)
                         => AllocatorOK(u) /\ off % Alignment = 0 /\ off \in Nat

GrowWorks ==
  \A a, n : AllocatorOK(a) /\ n \in Nat /\ n > 0 /\ n % Alignment = 0 /\ n <= Endless =>
    LET b == new_chunk(a, n)
    IN  /\ AllocatorOK(b) /\ Len(b) = Len(a) + 1 /\ (\A c \in DOMAIN a : b[c] = a[c])
        /\ b[Len(b)].max_size = 0 /\ \A c \in DOMAIN b : c \in DOMAIN a \/ c = Len(b)

TallocrWorks == NumbersWork /\ FreeWorks /\ AllocWorks /\ TakeWorks /\ GrowWorks
=============================================================================
