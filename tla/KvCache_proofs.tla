--------------------------- MODULE KvCache_proofs ---------------------------
(***************************************************************************)
(* The cells of a KV cache and what the cache does with them, for any      *)
(* number of cells, sequences and positions.                               *)
(*                                                                         *)
(* Every method of llama_kv_cells keeps the two indexes (used, seq_pos) in *)
(* step with the cells.  All of them change one cell i: OneCell says what  *)
(* such a change owes to the indexes, and each theorem shows that its      *)
(* method pays it.  The last two theorems are about llama_kv_cache: the    *)
(* attention mask and the reuse of cells.                                  *)
(***************************************************************************)
EXTENDS KvCache, FiniteSetTheorems, TLAPS

\* an object with cells 0 .. n - 1
Typed(c, n) ==
  c \in [pos : [0 .. n - 1 -> Int], seq : [0 .. n - 1 -> SUBSET Seqs],
         shift : [0 .. n - 1 -> Int], used : SUBSET (0 .. n - 1),
         seq_pos : [Seqs -> [Pos -> Int]], has_shift : BOOLEAN]

\* 1 if cell i counts for position p of sequence s
Has(c, i, s, p) == IF s \in c.seq[i] /\ c.pos[i] = p THEN 1 ELSE 0

\* c and d differ at most in cell i
SameOthers(c, d, i) ==
  \A j \in Cells(c) \ {i} : d.pos[j] = c.pos[j] /\ d.seq[j] = c.seq[j] /\ d.shift[j] = c.shift[j]

\* d is c with another cell i, and the indexes follow
Follows(c, d, i) ==
  /\ SameOthers(c, d, i)
  /\ d.used = IF d.pos[i] = -1 THEN c.used \ {i} ELSE c.used \union {i}
  /\ d.pos[i] = -1 => d.seq[i] = {} /\ d.shift[i] = 0
  /\ \A s \in Seqs, p \in Pos : d.seq_pos[s][p] = c.seq_pos[s][p] - Has(c, i, s, p) + Has(d, i, s, p)

(* The cells that hold a position of a sequence can be counted. *)
LEMMA HoldingFinite ==
  ASSUME NEW n \in Nat, NEW c, Typed(c, n), NEW s, NEW p
  PROVE  IsFiniteSet(Holding(c, s, p)) /\ Cardinality(Holding(c, s, p)) \in Nat
<1>1. Cells(c) = 0 .. n - 1
  BY DEF Typed, Cells
<1>2. IsFiniteSet(0 .. n - 1)
  BY FS_Interval
<1>3. Holding(c, s, p) \subseteq 0 .. n - 1
  BY <1>1 DEF Holding
<1> QED
  BY <1>2, <1>3, FS_Subset, FS_CardinalityType

(* A change of one cell that updates the indexes as Follows says leaves    *)
(* them right.                                                             *)
LEMMA OneCell ==
  ASSUME NEW n \in Nat, NEW c, NEW d, Typed(c, n), Typed(d, n), CellsOK(c),
         NEW i \in 0 .. n - 1, Follows(c, d, i)
  PROVE  CellsOK(d)
<1>1. Cells(c) = 0 .. n - 1 /\ Cells(d) = 0 .. n - 1
  BY DEF Typed, Cells
<1>2. d.used = Occupied(d)
  BY <1>1 DEF CellsOK, Occupied, is_empty, Follows, SameOthers
<1>3. \A j \in Cells(d) : is_empty(d, j) => d.seq[j] = {} /\ d.shift[j] = 0
  BY <1>1 DEF CellsOK, is_empty, Follows, SameOthers
<1>4. ASSUME NEW s \in Seqs, NEW p \in Pos
      PROVE  d.seq_pos[s][p] = Cardinality(Holding(d, s, p))
  <2>1. Holding(d, s, p) \ {i} = Holding(c, s, p) \ {i}
    BY <1>1 DEF Holding, Follows, SameOthers
  <2>2. IsFiniteSet(Holding(c, s, p)) /\ IsFiniteSet(Holding(d, s, p))
    BY HoldingFinite
  <2>3. Cardinality(Holding(c, s, p)) \in Nat /\ Cardinality(Holding(d, s, p)) \in Nat
    BY HoldingFinite
  <2>4. Cardinality(Holding(c, s, p) \ {i}) =
          IF i \in Holding(c, s, p) THEN Cardinality(Holding(c, s, p)) - 1 ELSE Cardinality(Holding(c, s, p))
    BY <2>2, FS_RemoveElement
  <2>5. Cardinality(Holding(d, s, p) \ {i}) =
          IF i \in Holding(d, s, p) THEN Cardinality(Holding(d, s, p)) - 1 ELSE Cardinality(Holding(d, s, p))
    BY <2>2, FS_RemoveElement
  <2>6. i \in Holding(c, s, p) <=> Has(c, i, s, p) = 1
    BY <1>1 DEF Holding, Has
  <2>7. i \in Holding(d, s, p) <=> Has(d, i, s, p) = 1
    BY <1>1 DEF Holding, Has
  <2>8. c.seq_pos[s][p] = Cardinality(Holding(c, s, p))
    BY DEF CellsOK
  <2>9. d.seq_pos[s][p] = c.seq_pos[s][p] - Has(c, i, s, p) + Has(d, i, s, p)
    BY DEF Follows
  <2>10. Has(c, i, s, p) \in {0, 1} /\ Has(d, i, s, p) \in {0, 1}
    BY DEF Has
  <2>11. Cardinality(Holding(c, s, p) \ {i}) = Cardinality(Holding(c, s, p)) - Has(c, i, s, p)
    BY <2>3, <2>4, <2>6, <2>10
  <2>12. Cardinality(Holding(d, s, p) \ {i}) = Cardinality(Holding(d, s, p)) - Has(d, i, s, p)
    BY <2>3, <2>5, <2>7, <2>10
  <2>13. Cardinality(Holding(c, s, p)) - Has(c, i, s, p) = Cardinality(Holding(d, s, p)) - Has(d, i, s, p)
    BY <2>1, <2>11, <2>12
  <2> QED
    BY <2>3, <2>8, <2>9, <2>10, <2>13
<1> QED
  BY <1>2, <1>3, <1>4 DEF CellsOK

(* A new object, after resize() and reset(), has empty indexes.            *)
THEOREM ResetOK ==
  ASSUME NEW n \in Nat PROVE Typed(EmptyCells(n), n) /\ CellsOK(EmptyCells(n))
<1> DEFINE c == EmptyCells(n)
<1>1. Typed(c, n)
  BY KvAssumption DEF EmptyCells, Typed
<1>2. Cells(c) = 0 .. n - 1
  BY DEF EmptyCells, Cells
<1>3. c.used = Occupied(c)
  BY <1>2 DEF EmptyCells, Occupied, is_empty
<1>4. \A j \in Cells(c) : is_empty(c, j) => c.seq[j] = {} /\ c.shift[j] = 0
  BY <1>2 DEF EmptyCells
<1>5. ASSUME NEW s \in Seqs, NEW p \in Pos PROVE c.seq_pos[s][p] = Cardinality(Holding(c, s, p))
  <2>1. Holding(c, s, p) = {}
    BY <1>2 DEF EmptyCells, Holding
  <2> QED
    BY <2>1, FS_EmptySet DEF EmptyCells
<1> QED
  BY <1>1, <1>3, <1>4, <1>5 DEF CellsOK

(* What the lines that empty a cell do to each member.                      *)
LEMMA VacateIs ==
  ASSUME NEW n \in Nat, NEW c, Typed(c, n), NEW i \in 0 .. n - 1, NEW d, d = Vacate(c, i)
  PROVE  /\ Typed(d, n)
         /\ d.pos = [c.pos EXCEPT ![i] = -1] /\ d.seq = [c.seq EXCEPT ![i] = {}]
         /\ d.shift = [c.shift EXCEPT ![i] = 0] /\ d.used = c.used \ {i}
         /\ d.seq_pos = c.seq_pos /\ d.has_shift = c.has_shift
<1> DEFINE P == [c.pos EXCEPT ![i] = -1]
           Q == [c.seq EXCEPT ![i] = {}]
           H == [c.shift EXCEPT ![i] = 0]
           U == c.used \ {i}
<1>1. P \in [0 .. n - 1 -> Int] /\ Q \in [0 .. n - 1 -> SUBSET Seqs]
      /\ H \in [0 .. n - 1 -> Int] /\ U \in SUBSET (0 .. n - 1)
  BY DEF Typed
<1>2. d = [c EXCEPT !.pos = P, !.seq = Q, !.shift = H, !.used = U]
  BY DEF Vacate, Typed
<1> HIDE DEF P, Q, H, U
<1>3. Typed(d, n) /\ d.pos = P /\ d.seq = Q /\ d.shift = H /\ d.used = U
      /\ d.seq_pos = c.seq_pos /\ d.has_shift = c.has_shift
  BY <1>1, <1>2 DEF Typed
<1> QED
  BY <1>3 DEF P, Q, H, U

(* Replacing the counts changes nothing else.                               *)
LEMMA NewCounts ==
  ASSUME NEW n \in Nat, NEW c, Typed(c, n), NEW F \in [Seqs -> [Pos -> Int]],
         NEW d, d = [c EXCEPT !.seq_pos = F]
  PROVE  /\ Typed(d, n)
         /\ d.pos = c.pos /\ d.seq = c.seq /\ d.shift = c.shift /\ d.used = c.used
         /\ d.has_shift = c.has_shift /\ d.seq_pos = F
BY DEF Typed

(* seq_pos_rm() takes the cell out of the counts, and changes nothing else. *)
LEMMA SeqPosRmIs ==
  ASSUME NEW n \in Nat, NEW c, Typed(c, n), NEW i \in 0 .. n - 1, NEW d, d = seq_pos_rm(c, i)
  PROVE  /\ Typed(d, n)
         /\ d.pos = c.pos /\ d.seq = c.seq /\ d.shift = c.shift /\ d.used = c.used
         /\ d.has_shift = c.has_shift
         /\ \A s \in Seqs, p \in Pos : d.seq_pos[s][p] = c.seq_pos[s][p] - Has(c, i, s, p)
<1> DEFINE F == [s \in Seqs |-> [p \in Pos |->
       IF s \in c.seq[i] /\ c.pos[i] = p THEN c.seq_pos[s][p] - 1 ELSE c.seq_pos[s][p]]]
<1>1. \A s \in Seqs, p \in Pos : c.seq_pos[s][p] \in Int
  BY DEF Typed
<1>2. F \in [Seqs -> [Pos -> Int]]
  BY <1>1
<1>3. d = [c EXCEPT !.seq_pos = F]
  BY DEF seq_pos_rm
<1>4. \A s \in Seqs, p \in Pos : F[s][p] = c.seq_pos[s][p] - Has(c, i, s, p)
  BY <1>1 DEF Has
<1> HIDE DEF F
<1> QED
  BY <1>2, <1>3, <1>4, NewCounts

\* the counts of d are those of c and cell i once more
Counted(c, d, i) == \A s \in Seqs, p \in Pos : d.seq_pos[s][p] = c.seq_pos[s][p] + Has(c, i, s, p)

(* seq_pos_add() counts the cell, and changes nothing else.                 *)
LEMMA SeqPosAddIs ==
  ASSUME NEW n \in Nat, NEW c, Typed(c, n), NEW i \in 0 .. n - 1, NEW d, d = seq_pos_add(c, i)
  PROVE  /\ Typed(d, n)
         /\ d.pos = c.pos /\ d.seq = c.seq /\ d.shift = c.shift /\ d.used = c.used
         /\ d.has_shift = c.has_shift
         /\ Counted(c, d, i)
<1> DEFINE F == [s \in Seqs |-> [p \in Pos |->
       IF s \in c.seq[i] /\ c.pos[i] = p THEN c.seq_pos[s][p] + 1 ELSE c.seq_pos[s][p]]]
<1>1. \A s \in Seqs, p \in Pos : c.seq_pos[s][p] \in Int
  BY DEF Typed
<1>2. F \in [Seqs -> [Pos -> Int]]
  BY <1>1
<1>3. d = [c EXCEPT !.seq_pos = F]
  BY DEF seq_pos_add
<1>4. \A s \in Seqs, p \in Pos : F[s][p] = c.seq_pos[s][p] + Has(c, i, s, p)
  BY <1>1 DEF Has
<1> HIDE DEF F
<1> QED
  BY <1>2, <1>3, <1>4, NewCounts DEF Counted

\* the counts of d are those of c, with k more for position p of sequence s
Bumped(c, d, s, p, k) ==
  \A t \in Seqs, q \in Pos : d.seq_pos[t][q] = c.seq_pos[t][q] + (IF t = s /\ q = p THEN k ELSE 0)

(* seq_pos_inc() adds one to one count, and changes nothing else.           *)
LEMMA SeqPosIncIs ==
  ASSUME NEW n \in Nat, NEW c, Typed(c, n), NEW s \in Seqs, NEW p \in Int,
         NEW d, d = seq_pos_inc(c, s, p)
  PROVE  /\ Typed(d, n)
         /\ d.pos = c.pos /\ d.seq = c.seq /\ d.shift = c.shift /\ d.used = c.used
         /\ d.has_shift = c.has_shift
         /\ Bumped(c, d, s, p, 1)
<1> DEFINE F == [c.seq_pos EXCEPT ![s][p] = @ + 1]
<1>1. \A t \in Seqs, q \in Pos : c.seq_pos[t][q] \in Int
  BY DEF Typed
<1>2. F \in [Seqs -> [Pos -> Int]]
  <2>1. c.seq_pos \in [Seqs -> [Pos -> Int]] /\ c.seq_pos[s] \in [Pos -> Int]
    BY DEF Typed
  <2> DEFINE G == c.seq_pos[s]
  <2>2. [G EXCEPT ![p] = @ + 1] \in [Pos -> Int]
    <3>1. G \in [Pos -> Int]
      BY <2>1
    <3> HIDE DEF G
    <3>2. CASE p \in Pos
      BY <3>1, <3>2
    <3>3. CASE p \notin Pos
      BY <3>1, <3>3
    <3> QED
      BY <3>2, <3>3
  <2> QED
    BY <2>1, <2>2
<1>3. d = [c EXCEPT !.seq_pos = F]
  BY DEF seq_pos_inc
<1>4. \A t \in Seqs, q \in Pos : F[t][q] = c.seq_pos[t][q] + (IF t = s /\ q = p THEN 1 ELSE 0)
  BY <1>1 DEF Typed
<1> HIDE DEF F
<1> QED
  BY <1>2, <1>3, <1>4, NewCounts DEF Bumped

(* seq_pos_dec() takes one from one count, and changes nothing else.        *)
LEMMA SeqPosDecIs ==
  ASSUME NEW n \in Nat, NEW c, Typed(c, n), NEW s \in Seqs, NEW p \in Int,
         NEW d, d = seq_pos_dec(c, s, p)
  PROVE  /\ Typed(d, n)
         /\ d.pos = c.pos /\ d.seq = c.seq /\ d.shift = c.shift /\ d.used = c.used
         /\ d.has_shift = c.has_shift
         /\ Bumped(c, d, s, p, -1)
<1> DEFINE F == [c.seq_pos EXCEPT ![s][p] = @ - 1]
<1>1. \A t \in Seqs, q \in Pos : c.seq_pos[t][q] \in Int
  BY DEF Typed
<1>2. F \in [Seqs -> [Pos -> Int]]
  <2>1. c.seq_pos \in [Seqs -> [Pos -> Int]] /\ c.seq_pos[s] \in [Pos -> Int]
    BY DEF Typed
  <2> DEFINE G == c.seq_pos[s]
  <2>2. [G EXCEPT ![p] = @ - 1] \in [Pos -> Int]
    <3>1. G \in [Pos -> Int]
      BY <2>1
    <3> HIDE DEF G
    <3>2. CASE p \in Pos
      BY <3>1, <3>2
    <3>3. CASE p \notin Pos
      BY <3>1, <3>3
    <3> QED
      BY <3>2, <3>3
  <2> QED
    BY <2>1, <2>2
<1>3. d = [c EXCEPT !.seq_pos = F]
  BY DEF seq_pos_dec
<1>4. \A t \in Seqs, q \in Pos : F[t][q] = c.seq_pos[t][q] + (IF t = s /\ q = p THEN -1 ELSE 0)
  BY <1>1 DEF Typed
<1> HIDE DEF F
<1> QED
  BY <1>2, <1>3, <1>4, NewCounts DEF Bumped

\* a step inside a method: cell i gets the sequences T
WithSeq(c, i, T) == [c EXCEPT !.seq[i] = T]

(* A method that gives cell i other sequences changes nothing else yet.     *)
LEMMA NewSeq ==
  ASSUME NEW n \in Nat, NEW c, Typed(c, n), NEW i \in 0 .. n - 1, NEW T \in SUBSET Seqs,
         NEW d, d = WithSeq(c, i, T)
  PROVE  /\ Typed(d, n)
         /\ d.pos = c.pos /\ d.seq = [c.seq EXCEPT ![i] = T] /\ d.shift = c.shift /\ d.used = c.used
         /\ d.has_shift = c.has_shift /\ d.seq_pos = c.seq_pos
<1> DEFINE Q == [c.seq EXCEPT ![i] = T]
<1>1. Q \in [0 .. n - 1 -> SUBSET Seqs]
  BY DEF Typed
<1>2. d = [c EXCEPT !.seq = Q]
  BY DEF WithSeq
<1> HIDE DEF Q
<1>3. Typed(d, n) /\ d.pos = c.pos /\ d.seq = Q /\ d.shift = c.shift /\ d.used = c.used
      /\ d.has_shift = c.has_shift /\ d.seq_pos = c.seq_pos
  BY <1>1, <1>2 DEF Typed
<1> QED
  BY <1>3 DEF Q

\* the counts of d are those of c without cell i
Uncounted(c, d, i) == \A s \in Seqs, p \in Pos : d.seq_pos[s][p] = c.seq_pos[s][p] - Has(c, i, s, p)

(* OneCell for a method that has taken cell i out of the counts and now     *)
(* empties it.                                                              *)
LEMMA Vacated ==
  ASSUME NEW n \in Nat, NEW c, Typed(c, n), CellsOK(c), NEW i \in 0 .. n - 1,
         NEW b, Typed(b, n), Uncounted(c, b, i), b.used \ {i} = c.used \ {i},
         SameOthers(c, b, i),
         NEW d, d = Vacate(b, i)
  PROVE  Typed(d, n) /\ CellsOK(d) /\ is_empty(d, i)
<1>1. /\ Typed(d, n) /\ d.pos = [b.pos EXCEPT ![i] = -1] /\ d.seq = [b.seq EXCEPT ![i] = {}]
      /\ d.shift = [b.shift EXCEPT ![i] = 0] /\ d.used = b.used \ {i} /\ d.seq_pos = b.seq_pos
  BY VacateIs
<1>2. d.pos[i] = -1 /\ d.seq[i] = {} /\ d.shift[i] = 0
  BY <1>1 DEF Typed
<1>3. Follows(c, d, i)
  <2>1. SameOthers(c, d, i)
    BY <1>1 DEF Typed, Cells, SameOthers
  <2>2. \A s \in Seqs, p \in Pos : Has(d, i, s, p) = 0
    BY <1>2 DEF Has
  <2>3. \A s \in Seqs, p \in Pos : c.seq_pos[s][p] \in Int /\ Has(c, i, s, p) \in Int
    BY DEF Typed, Has
  <2> QED
    BY <1>1, <1>2, <2>1, <2>2, <2>3 DEF Follows, Uncounted
<1> QED
  BY <1>1, <1>2, <1>3, OneCell DEF is_empty

(* rm(): a cell that is given to another token leaves the indexes.         *)
THEOREM RmOK ==
  ASSUME NEW n \in Nat, NEW c, Typed(c, n), CellsOK(c), NEW i \in 0 .. n - 1, ~is_empty(c, i)
  PROVE  Typed(rm(c, i), n) /\ CellsOK(rm(c, i)) /\ is_empty(rm(c, i), i)
<1> DEFINE b == seq_pos_rm(c, i)
           d == rm(c, i)
<1>1. b = seq_pos_rm(c, i) /\ d = Vacate(b, i)
  BY DEF rm
<1> HIDE DEF b, d
<1>2. /\ Typed(b, n) /\ b.pos = c.pos /\ b.seq = c.seq /\ b.shift = c.shift /\ b.used = c.used
      /\ Uncounted(c, b, i)
  BY <1>1, SeqPosRmIs DEF Uncounted
<1>3. SameOthers(c, b, i)
  BY <1>2 DEF SameOthers
<1> QED
  BY <1>1, <1>2, <1>3, Vacated DEF d

\* the counts of d are those of c with P and T for the position and sequences of cell i
Recount(c, d, i, P, T) ==
  \A s \in Seqs, p \in Pos :
    d.seq_pos[s][p] = c.seq_pos[s][p] - Has(c, i, s, p) + (IF s \in T /\ P = p THEN 1 ELSE 0)

(* OneCell for a method that leaves cell i with position P, sequences T and *)
(* shift h.                                                                 *)
LEMMA Recounted ==
  ASSUME NEW n \in Nat, NEW c, NEW d, Typed(c, n), Typed(d, n), CellsOK(c), NEW i \in 0 .. n - 1,
         NEW P \in Int, NEW T \in SUBSET Seqs, NEW h \in Int,
         d.pos = [c.pos EXCEPT ![i] = P], d.seq = [c.seq EXCEPT ![i] = T],
         d.shift = [c.shift EXCEPT ![i] = h],
         P = -1 => T = {} /\ h = 0,
         d.used = IF P = -1 THEN c.used \ {i} ELSE c.used \union {i},
         Recount(c, d, i, P, T)
  PROVE  CellsOK(d)
<1>1. SameOthers(c, d, i)
  BY DEF Typed, Cells, SameOthers
<1>2. d.pos[i] = P /\ d.seq[i] = T /\ d.shift[i] = h
  BY DEF Typed
<1>3. \A s \in Seqs, p \in Pos : Has(d, i, s, p) = IF s \in T /\ P = p THEN 1 ELSE 0
  BY <1>2 DEF Has
<1>4. Follows(c, d, i)
  BY <1>1, <1>2, <1>3 DEF Follows, Recount
<1> QED
  BY <1>4, OneCell

(* seq_add(): a cell that is in use joins a sequence it is not in.          *)
THEOREM SeqAddOK ==
  ASSUME NEW n \in Nat, NEW c, Typed(c, n), CellsOK(c), NEW i \in 0 .. n - 1, ~is_empty(c, i),
         NEW s \in Seqs, s \notin c.seq[i]
  PROVE  Typed(seq_add_cell(c, i, s), n) /\ CellsOK(seq_add_cell(c, i, s))
<1> DEFINE T == c.seq[i] \union {s}
           P == c.pos[i]
           h == c.shift[i]
           b == WithSeq(c, i, T)
           d == seq_add_cell(c, i, s)
<1>1. /\ T \in SUBSET Seqs /\ P \in Int /\ h \in Int /\ P # -1
      /\ [c.pos EXCEPT ![i] = P] = c.pos /\ [c.shift EXCEPT ![i] = h] = c.shift
  BY DEF Typed, is_empty
<1>2. c.used \union {i} = c.used
  BY DEF CellsOK, Occupied, Cells, Typed
<1>3. b = WithSeq(c, i, T) /\ d = seq_pos_inc(b, s, P)
  BY DEF seq_add_cell, WithSeq
<1>4. \A t \in Seqs, p \in Pos : (IF t \in T /\ P = p THEN 1 ELSE 0)
                                 = Has(c, i, t, p) + (IF t = s /\ p = P THEN 1 ELSE 0)
  BY DEF Has
<1> HIDE DEF T, P, h, b, d
<1>5. /\ Typed(b, n) /\ b.pos = c.pos /\ b.seq = [c.seq EXCEPT ![i] = T]
      /\ b.shift = c.shift /\ b.used = c.used /\ b.seq_pos = c.seq_pos
  BY <1>1, <1>3, NewSeq
<1>6. /\ Typed(d, n) /\ d.pos = b.pos /\ d.seq = b.seq /\ d.shift = b.shift /\ d.used = b.used
      /\ Bumped(b, d, s, P, 1)
  BY <1>1, <1>3, <1>5, SeqPosIncIs
<1>7. Recount(c, d, i, P, T)
  <2>1. \A t \in Seqs, q \in Pos : c.seq_pos[t][q] \in Int /\ Has(c, i, t, q) \in Int
    BY DEF Typed, Has
  <2> QED
    BY <1>4, <1>5, <1>6, <2>1 DEF Recount, Bumped
<1>8. CellsOK(d)
  BY <1>1, <1>2, <1>5, <1>6, <1>7, Recounted
<1> QED
  BY <1>6, <1>8 DEF d

(* seq_rm(): a cell leaves a sequence; the last one to leave empties it.    *)
THEOREM SeqRmOK ==
  ASSUME NEW n \in Nat, NEW c, Typed(c, n), CellsOK(c), NEW i \in 0 .. n - 1,
         NEW s \in Seqs, s \in c.seq[i]
  PROVE  Typed(seq_rm_cell(c, i, s), n) /\ CellsOK(seq_rm_cell(c, i, s))
<1> DEFINE T == c.seq[i] \ {s}
           P == c.pos[i]
           h == c.shift[i]
           a == WithSeq(c, i, T)
           b == seq_pos_dec(a, s, P)
           d == seq_rm_cell(c, i, s)
<1>1. /\ T \in SUBSET Seqs /\ P \in Int /\ h \in Int
      /\ [c.pos EXCEPT ![i] = P] = c.pos /\ [c.shift EXCEPT ![i] = h] = c.shift
  BY DEF Typed
<1>2. P # -1 /\ c.used \union {i} = c.used
  BY DEF CellsOK, Occupied, is_empty, Cells, Typed
<1>3. /\ a = WithSeq(c, i, T) /\ b = seq_pos_dec(a, s, P)
      /\ d = IF b.seq[i] = {} THEN Vacate(b, i) ELSE b
  BY DEF seq_rm_cell, WithSeq
<1>4. \A t \in Seqs, p \in Pos : (IF t \in T /\ P = p THEN 1 ELSE 0)
                                 = Has(c, i, t, p) + (IF t = s /\ p = P THEN -1 ELSE 0)
  BY DEF Has
<1> HIDE DEF T, P, h, a, b, d
<1>5. /\ Typed(a, n) /\ a.pos = c.pos /\ a.seq = [c.seq EXCEPT ![i] = T]
      /\ a.shift = c.shift /\ a.used = c.used /\ a.seq_pos = c.seq_pos
  BY <1>1, <1>3, NewSeq
<1>6. /\ Typed(b, n) /\ b.pos = a.pos /\ b.seq = a.seq /\ b.shift = a.shift /\ b.used = a.used
      /\ Bumped(a, b, s, P, -1)
  BY SMTT(30), <1>1, <1>3, <1>5, SeqPosDecIs
<1>7. Recount(c, b, i, P, T)
  <2>1. \A t \in Seqs, q \in Pos : c.seq_pos[t][q] \in Int /\ Has(c, i, t, q) \in Int
    BY DEF Typed, Has
  <2> QED
    BY <1>4, <1>5, <1>6, <2>1 DEF Recount, Bumped
<1>8. b.seq[i] = T
  BY <1>5, <1>6 DEF Typed
<1>9. CASE T # {}
  <2>1. d = b
    BY <1>3, <1>8, <1>9
  <2>2. CellsOK(b)
    BY <1>1, <1>2, <1>5, <1>6, <1>7, Recounted
  <2> QED
    BY <1>6, <2>1, <2>2 DEF d
<1>10. CASE T = {}
  <2>1. d = Vacate(b, i)
    BY <1>3, <1>8, <1>10
  <2>2. Uncounted(c, b, i)
    <3>1. \A t \in Seqs, q \in Pos : c.seq_pos[t][q] \in Int /\ Has(c, i, t, q) \in Int
      BY DEF Typed, Has
    <3> QED
      BY <1>7, <1>10, <3>1 DEF Recount, Uncounted
  <2>3. SameOthers(c, b, i)
    BY <1>5, <1>6 DEF Typed, Cells, SameOthers
  <2> QED
    BY <1>5, <1>6, <2>1, <2>2, <2>3, Vacated DEF d
<1> QED
  BY <1>9, <1>10

(* seq_keep(): a cell is left to one sequence, or emptied if it had others  *)
(* only.                                                                    *)
THEOREM SeqKeepOK ==
  ASSUME NEW n \in Nat, NEW c, Typed(c, n), CellsOK(c), NEW i \in 0 .. n - 1, NEW s \in Seqs
  PROVE  Typed(seq_keep_cell(c, i, s), n) /\ CellsOK(seq_keep_cell(c, i, s))
<1>1. CASE s \notin c.seq[i]
  <2>1. CASE c.seq[i] = {}
    BY <1>1, <2>1 DEF seq_keep_cell
  <2>2. CASE c.seq[i] # {}
    <3>1. ~is_empty(c, i)
      BY <2>2 DEF CellsOK, Cells, Typed
    <3>2. seq_keep_cell(c, i, s) = rm(c, i)
      BY <1>1, <2>2 DEF seq_keep_cell, rm
    <3> QED
      BY <3>1, <3>2, RmOK
  <2> QED
    BY <2>1, <2>2
<1>2. CASE s \in c.seq[i]
  <2> DEFINE T == {s}
             P == c.pos[i]
             h == c.shift[i]
             a == seq_pos_rm(c, i)
             b == WithSeq(a, i, T)
             d == seq_keep_cell(c, i, s)
  <2>1. /\ T \in SUBSET Seqs /\ P \in Int /\ h \in Int
        /\ [c.pos EXCEPT ![i] = P] = c.pos /\ [c.shift EXCEPT ![i] = h] = c.shift
    BY DEF Typed
  <2>2. P # -1 /\ c.used \union {i} = c.used
    BY <1>2 DEF CellsOK, Occupied, is_empty, Cells, Typed
  <2>3. a = seq_pos_rm(c, i) /\ b = WithSeq(a, i, T) /\ d = seq_pos_inc(b, s, P)
    BY <1>2 DEF seq_keep_cell, WithSeq
  <2>4. T = {s}
    OBVIOUS
  <2> HIDE DEF T, P, h, a, b, d
  <2>5. /\ Typed(a, n) /\ a.pos = c.pos /\ a.seq = c.seq /\ a.shift = c.shift /\ a.used = c.used
        /\ \A t \in Seqs, p \in Pos : a.seq_pos[t][p] = c.seq_pos[t][p] - Has(c, i, t, p)
    BY <2>3, SeqPosRmIs
  <2>6. /\ Typed(b, n) /\ b.pos = a.pos /\ b.seq = [a.seq EXCEPT ![i] = T]
        /\ b.shift = a.shift /\ b.used = a.used /\ b.seq_pos = a.seq_pos
    BY <2>1, <2>3, <2>5, NewSeq
  <2>7. /\ Typed(d, n) /\ d.pos = b.pos /\ d.seq = b.seq /\ d.shift = b.shift /\ d.used = b.used
        /\ Bumped(b, d, s, P, 1)
    BY <2>1, <2>3, <2>6, SeqPosIncIs
  <2>8. Recount(c, d, i, P, T)
    BY <2>4, <2>5, <2>6, <2>7 DEF Recount, Bumped
  <2>9. d.pos = c.pos /\ d.seq = [c.seq EXCEPT ![i] = T] /\ d.shift = c.shift /\ d.used = c.used
    BY <2>5, <2>6, <2>7
  <2>10. CellsOK(d)
    BY <2>1, <2>2, <2>7, <2>8, <2>9, Recounted
  <2> QED
    BY <2>7, <2>10 DEF d
<1> QED
  BY <1>1, <1>2

(* pos_set(): an empty cell gets a position.                                *)
THEOREM PosSetOK ==
  ASSUME NEW n \in Nat, NEW c, Typed(c, n), CellsOK(c), NEW i \in 0 .. n - 1, is_empty(c, i),
         NEW p \in Nat
  PROVE  Typed(pos_set(c, i, p), n) /\ CellsOK(pos_set(c, i, p))
<1> DEFINE F == [c.pos EXCEPT ![i] = p]
           U == c.used \union {i}
           h == c.shift[i]
           T == {}
           d == pos_set(c, i, p)
<1>1. /\ F \in [0 .. n - 1 -> Int] /\ U \in SUBSET (0 .. n - 1) /\ h \in Int
      /\ [c.shift EXCEPT ![i] = h] = c.shift /\ T \in SUBSET Seqs /\ p # -1 /\ p \in Int
  BY DEF Typed
<1>2. c.seq[i] = {} /\ [c.seq EXCEPT ![i] = T] = c.seq
  BY DEF CellsOK, Cells, Typed
<1>3. d = [c EXCEPT !.pos = F, !.used = U]
  BY DEF pos_set, Typed
<1>4. F = [c.pos EXCEPT ![i] = p] /\ U = c.used \union {i} /\ T = {}
  OBVIOUS
<1> HIDE DEF F, U, h, T, d
<1>5. /\ Typed(d, n) /\ d.pos = F /\ d.seq = c.seq /\ d.shift = c.shift /\ d.used = U
      /\ d.seq_pos = c.seq_pos
  BY <1>1, <1>3 DEF Typed
<1>6. Recount(c, d, i, p, T)
  <2>1. \A t \in Seqs, q \in Pos : c.seq_pos[t][q] \in Int /\ Has(c, i, t, q) = 0
    BY <1>2 DEF Typed, Has
  <2> QED
    BY <1>4, <1>5, <2>1 DEF Recount
<1>7. CellsOK(d)
  BY <1>1, <1>2, <1>4, <1>5, <1>6, Recounted
<1> QED
  BY <1>5, <1>7 DEF d

\* a step inside a method: cell i moves to position P, the move is noted in its shift
WithPos(c, i, P, h) == [c EXCEPT !.pos[i] = P, !.shift[i] = h, !.has_shift = TRUE]

(* A method that moves cell i changes nothing else yet.                     *)
LEMMA NewPos ==
  ASSUME NEW n \in Nat, NEW c, Typed(c, n), NEW i \in 0 .. n - 1, NEW P \in Int, NEW h \in Int,
         NEW d, d = WithPos(c, i, P, h)
  PROVE  /\ Typed(d, n)
         /\ d.pos = [c.pos EXCEPT ![i] = P] /\ d.seq = c.seq /\ d.shift = [c.shift EXCEPT ![i] = h]
         /\ d.used = c.used /\ d.seq_pos = c.seq_pos
<1> DEFINE F == [c.pos EXCEPT ![i] = P]
           H == [c.shift EXCEPT ![i] = h]
<1>1. F \in [0 .. n - 1 -> Int] /\ H \in [0 .. n - 1 -> Int]
  BY DEF Typed
<1>2. d = [c EXCEPT !.pos = F, !.shift = H, !.has_shift = TRUE]
  BY DEF WithPos, Typed
<1> HIDE DEF F, H
<1>3. Typed(d, n) /\ d.pos = F /\ d.seq = c.seq /\ d.shift = H /\ d.used = c.used /\ d.seq_pos = c.seq_pos
  BY <1>1, <1>2 DEF Typed
<1> QED
  BY <1>3 DEF F, H

(* pos_add() and pos_div(): a cell in use whose counts are taken out, that  *)
(* moves to a position P >= 0 and is counted again.                         *)
LEMMA Moved ==
  ASSUME NEW n \in Nat, NEW c, Typed(c, n), CellsOK(c), NEW i \in 0 .. n - 1, ~is_empty(c, i),
         NEW P \in Int, P # -1, NEW h \in Int, NEW d,
         d = seq_pos_add(WithPos(seq_pos_rm(c, i), i, P, h), i)
  PROVE  Typed(d, n) /\ CellsOK(d)
<1> DEFINE a == seq_pos_rm(c, i)
           b == WithPos(a, i, P, h)
           T == c.seq[i]
<1>1. a = seq_pos_rm(c, i) /\ b = WithPos(a, i, P, h) /\ d = seq_pos_add(b, i) /\ T = c.seq[i]
  OBVIOUS
<1>2. T \in SUBSET Seqs /\ [c.seq EXCEPT ![i] = T] = c.seq
  BY DEF Typed
<1>3. c.used \union {i} = c.used
  BY DEF CellsOK, Occupied, Cells, Typed
<1> HIDE DEF a, b, T
<1>4. /\ Typed(a, n) /\ a.pos = c.pos /\ a.seq = c.seq /\ a.shift = c.shift /\ a.used = c.used
      /\ Uncounted(c, a, i)
  BY <1>1, SeqPosRmIs DEF Uncounted
<1>5. /\ Typed(b, n)
      /\ b.pos = [a.pos EXCEPT ![i] = P] /\ b.seq = a.seq /\ b.shift = [a.shift EXCEPT ![i] = h]
      /\ b.used = a.used /\ b.seq_pos = a.seq_pos
  BY <1>1, <1>4, NewPos
<1>6. /\ Typed(d, n) /\ d.pos = b.pos /\ d.seq = b.seq /\ d.shift = b.shift /\ d.used = b.used
      /\ Counted(b, d, i)
  BY <1>1, <1>5, SeqPosAddIs
<1>7. b.pos[i] = P /\ b.seq[i] = T
  BY <1>1, <1>4, <1>5 DEF Typed
<1>8. Recount(c, d, i, P, T)
  <2>1. \A t \in Seqs, q \in Pos : Has(b, i, t, q) = IF t \in T /\ P = q THEN 1 ELSE 0
    BY <1>7 DEF Has
  <2> QED
    BY <1>4, <1>5, <1>6, <2>1 DEF Recount, Uncounted, Counted
<1>9. d.pos = [c.pos EXCEPT ![i] = P] /\ d.seq = c.seq /\ d.shift = [c.shift EXCEPT ![i] = h] /\ d.used = c.used
  BY <1>4, <1>5, <1>6
<1> QED
  BY <1>2, <1>3, <1>6, <1>8, <1>9, Recounted

(* pos_add(): a context shift moves a cell; moved below 0 it is emptied.    *)
THEOREM PosAddOK ==
  ASSUME NEW n \in Nat, NEW c, Typed(c, n), CellsOK(c), NEW i \in 0 .. n - 1, ~is_empty(c, i),
         NEW x \in Int
  PROVE  Typed(pos_add(c, i, x), n) /\ CellsOK(pos_add(c, i, x))
<1> DEFINE a == seq_pos_rm(c, i)
           P == c.pos[i] + x
           h == c.shift[i] + x
           b == WithPos(a, i, P, h)
           d == pos_add(c, i, x)
<1>1. P \in Int /\ h \in Int
  BY DEF Typed
<1>2. /\ Typed(a, n) /\ a.pos = c.pos /\ a.seq = c.seq /\ a.shift = c.shift /\ a.used = c.used
      /\ Uncounted(c, a, i)
  <2> HIDE DEF a
  <2>1. a = seq_pos_rm(c, i)
    BY DEF a
  <2> QED
    BY <2>1, SeqPosRmIs DEF Uncounted
<1>3. d = IF b.pos[i] < 0 THEN Vacate(b, i) ELSE seq_pos_add(b, i)
  <2> DEFINE r == [a EXCEPT !.pos[i] = a.pos[i] + x, !.shift[i] = a.shift[i] + x, !.has_shift = TRUE]
  <2>1. r = b
    BY <1>2 DEF WithPos
  <2>2. d = IF r.pos[i] < 0 THEN Vacate(r, i) ELSE seq_pos_add(r, i)
    BY DEF pos_add
  <2> HIDE DEF b, r, d
  <2> QED
    BY <2>1, <2>2
<1>4. a = seq_pos_rm(c, i) /\ b = WithPos(a, i, P, h)
  OBVIOUS
<1> HIDE DEF a, b, P, h, d
<1>5. /\ Typed(b, n)
      /\ b.pos = [a.pos EXCEPT ![i] = P] /\ b.seq = a.seq /\ b.shift = [a.shift EXCEPT ![i] = h]
      /\ b.used = a.used /\ b.seq_pos = a.seq_pos
  BY <1>1, <1>2, <1>4, NewPos
<1>6. b.pos[i] = P
  BY <1>2, <1>5 DEF Typed
<1>7. CASE P < 0
  <2>1. d = Vacate(b, i)
    BY <1>3, <1>6, <1>7
  <2>2. SameOthers(c, b, i)
    BY <1>2, <1>5 DEF SameOthers, Typed, Cells
  <2>3. Uncounted(c, b, i) /\ b.used \ {i} = c.used \ {i}
    BY <1>2, <1>5 DEF Uncounted
  <2> QED
    BY <1>5, <2>1, <2>2, <2>3, Vacated DEF d
<1>8. CASE ~(P < 0)
  <2>1. d = seq_pos_add(WithPos(seq_pos_rm(c, i), i, P, h), i)
    BY <1>3, <1>4, <1>6, <1>8
  <2>2. P # -1
    BY <1>1, <1>8
  <2> QED
    BY <1>1, <2>1, <2>2, Moved DEF d
<1> QED
  BY <1>7, <1>8

(* pos_div(): self-extend divides the position of a cell.                   *)
THEOREM PosDivOK ==
  ASSUME NEW n \in Nat, NEW c, Typed(c, n), CellsOK(c), NEW i \in 0 .. n - 1, c.pos[i] >= 0,
         NEW x \in Nat \ {0}
  PROVE  Typed(pos_div(c, i, x), n) /\ CellsOK(pos_div(c, i, x))
<1> DEFINE a == seq_pos_rm(c, i)
           P == c.pos[i] \div x
           h == c.shift[i] + (c.pos[i] - P)
           d == pos_div(c, i, x)
<1>1. c.pos[i] \in Nat /\ c.shift[i] \in Int /\ ~is_empty(c, i)
  BY DEF Typed, is_empty
<1>2. P \in Nat
  BY <1>1
<1>3. a.shift = c.shift
  BY SeqPosRmIs
<1>4. d = seq_pos_add([a EXCEPT !.pos[i] = P, !.shift[i] = a.shift[i] + (c.pos[i] - P), !.has_shift = TRUE], i)
  BY DEF pos_div
<1>5. d = seq_pos_add(WithPos(a, i, P, h), i)
  BY <1>3, <1>4 DEF WithPos
<1> HIDE DEF P, d
<1>6. h \in Int /\ P # -1 /\ P \in Int
  BY <1>1, <1>2
<1> HIDE DEF h
<1> QED
  BY <1>1, <1>5, <1>6, Moved DEF d

(* reset_shift(): once the K-shift graph has run no cell has a shift.       *)
THEOREM ResetShiftOK ==
  ASSUME NEW n \in Nat, NEW c, Typed(c, n), CellsOK(c)
  PROVE  Typed(reset_shift(c), n) /\ CellsOK(reset_shift(c))
<1> DEFINE H == [i \in Cells(c) |-> 0]
           d == reset_shift(c)
<1>1. H \in [0 .. n - 1 -> Int] /\ Cells(c) = 0 .. n - 1
  BY DEF Typed, Cells
<1>2. d = [c EXCEPT !.has_shift = FALSE, !.shift = H]
  BY DEF reset_shift
<1>3. \A i \in 0 .. n - 1 : H[i] = 0
  BY <1>1
<1> HIDE DEF H, d
<1>4. Typed(d, n) /\ d.pos = c.pos /\ d.seq = c.seq /\ d.shift = H /\ d.used = c.used /\ d.seq_pos = c.seq_pos
  BY <1>1, <1>2 DEF Typed
<1>5. CellsOK(d)
  BY <1>1, <1>3, <1>4 DEF CellsOK, Occupied, Holding, Cells, is_empty
<1> QED
  BY <1>4, <1>5 DEF d

\* a step inside set(): cell i gets the saved position and sequences
WithCell(c, i, u, P, T) == [c EXCEPT !.used = u, !.pos[i] = P, !.seq[i] = T]

(* Writing a saved cell changes nothing else yet.                           *)
LEMMA NewCell ==
  ASSUME NEW n \in Nat, NEW c, Typed(c, n), NEW i \in 0 .. n - 1, NEW u \in SUBSET (0 .. n - 1),
         NEW P \in Int, NEW T \in SUBSET Seqs, NEW d, d = WithCell(c, i, u, P, T)
  PROVE  /\ Typed(d, n)
         /\ d.pos = [c.pos EXCEPT ![i] = P] /\ d.seq = [c.seq EXCEPT ![i] = T]
         /\ d.shift = c.shift /\ d.used = u /\ d.seq_pos = c.seq_pos /\ d.has_shift = c.has_shift
<1> DEFINE F == [c.pos EXCEPT ![i] = P]
           Q == [c.seq EXCEPT ![i] = T]
<1>1. F \in [0 .. n - 1 -> Int] /\ Q \in [0 .. n - 1 -> SUBSET Seqs]
  BY DEF Typed
<1>2. d = [c EXCEPT !.used = u, !.pos = F, !.seq = Q]
  BY DEF WithCell, Typed
<1> HIDE DEF F, Q
<1>3. Typed(d, n) /\ d.pos = F /\ d.seq = Q /\ d.shift = c.shift /\ d.used = u /\ d.seq_pos = c.seq_pos
      /\ d.has_shift = c.has_shift
  BY <1>1, <1>2 DEF Typed
<1> QED
  BY <1>3 DEF F, Q

(* set(): a saved cell is put back over whatever the cell holds by then.    *)
THEOREM SetOK ==
  ASSUME NEW n \in Nat, NEW c, Typed(c, n), CellsOK(c), NEW i \in 0 .. n - 1, c.shift[i] = 0,
         NEW P \in Int, NEW T \in SUBSET Seqs, P = -1 => T = {},
         NEW r, r = set_cell(c, i, [pos |-> P, seq |-> T])
  PROVE  /\ Typed(r, n) /\ CellsOK(r)
         /\ r.pos = [c.pos EXCEPT ![i] = P] /\ r.seq = [c.seq EXCEPT ![i] = T]
         /\ r.shift = c.shift /\ r.has_shift = c.has_shift
<1> DEFINE u == IF P = -1 THEN c.used \ {i} ELSE c.used \union {i}
           d == IF is_empty(c, i) THEN c ELSE seq_pos_rm(c, i)
           e == WithCell(d, i, u, P, T)
           h == c.shift[i]
<1>1. r = IF P = -1 THEN e ELSE seq_pos_add(e, i)
  BY DEF set_cell, WithCell
<1>2. u \in SUBSET (0 .. n - 1)
  BY DEF Typed
<1>3. /\ Typed(d, n) /\ d.pos = c.pos /\ d.seq = c.seq /\ d.shift = c.shift /\ d.used = c.used
      /\ d.has_shift = c.has_shift /\ Uncounted(c, d, i)
  <2>1. CASE is_empty(c, i)
    <3>1. c.seq[i] = {}
      BY <2>1 DEF CellsOK, Cells, Typed
    <3>2. \A s \in Seqs, p \in Pos : c.seq_pos[s][p] \in Int /\ Has(c, i, s, p) = 0
      BY <3>1 DEF Typed, Has
    <3> QED
      BY <2>1, <3>2 DEF Uncounted
  <2>2. CASE ~is_empty(c, i)
    <3>1. d = seq_pos_rm(c, i)
      BY <2>2
    <3> HIDE DEF d
    <3> QED
      BY <3>1, SeqPosRmIs DEF Uncounted
  <2> QED
    BY <2>1, <2>2
<1>4. e = WithCell(d, i, u, P, T) /\ u = IF P = -1 THEN c.used \ {i} ELSE c.used \union {i}
  OBVIOUS
<1>5. [c.shift EXCEPT ![i] = h] = c.shift /\ h \in Int /\ h = 0
  BY DEF Typed
<1> HIDE DEF u, d, e, h
<1>6. /\ Typed(e, n) /\ e.pos = [d.pos EXCEPT ![i] = P] /\ e.seq = [d.seq EXCEPT ![i] = T]
      /\ e.shift = d.shift /\ e.used = u /\ e.seq_pos = d.seq_pos /\ e.has_shift = d.has_shift
  BY <1>2, <1>3, <1>4, NewCell
<1>7. e.pos[i] = P /\ e.seq[i] = T
  BY <1>3, <1>6 DEF Typed
<1>8. \A s \in Seqs, p \in Pos : Has(e, i, s, p) = IF s \in T /\ P = p THEN 1 ELSE 0
  BY <1>7 DEF Has
<1>9. /\ Typed(r, n) /\ r.pos = e.pos /\ r.seq = e.seq /\ r.shift = e.shift /\ r.used = e.used
      /\ r.has_shift = e.has_shift /\ Recount(c, r, i, P, T)
  <2>1. CASE P = -1
    <3>1. r = e
      BY <1>1, <2>1
    <3>2. T = {}
      BY <2>1
    <3>3. \A s \in Seqs, p \in Pos : c.seq_pos[s][p] \in Int /\ Has(c, i, s, p) \in Int
      BY DEF Typed, Has
    <3>4. Recount(c, e, i, P, T)
      BY <1>3, <1>6, <3>2, <3>3 DEF Uncounted, Recount
    <3> QED
      BY <1>6, <3>1, <3>4
  <2>2. CASE P # -1
    <3>1. r = seq_pos_add(e, i) /\ Typed(e, n)
      BY <1>1, <1>6, <2>2
    <3>2. /\ Typed(r, n) /\ r.pos = e.pos /\ r.seq = e.seq /\ r.shift = e.shift /\ r.used = e.used
          /\ r.has_shift = e.has_shift /\ Counted(e, r, i)
      BY <3>1, SeqPosAddIs
    <3>3. Recount(c, r, i, P, T)
      BY <1>3, <1>6, <1>8, <3>2 DEF Uncounted, Recount, Counted
    <3> QED
      BY <3>2, <3>3
  <2> QED
    BY <2>1, <2>2
<1>10. r.pos = [c.pos EXCEPT ![i] = P] /\ r.seq = [c.seq EXCEPT ![i] = T] /\ r.shift = c.shift
       /\ r.used = u /\ r.has_shift = c.has_shift
  BY SMTT(30), <1>3, <1>6, <1>9
<1>11. CellsOK(r)
  <2>1. r.used = IF P = -1 THEN c.used \ {i} ELSE c.used \union {i}
    BY <1>4, <1>10
  <2>2. r.shift = [c.shift EXCEPT ![i] = h] /\ (P = -1 => T = {} /\ h = 0)
    BY <1>5, <1>10
  <2> QED
    BY ZenonT(40), <1>5, <1>9, <1>10, <2>1, <2>2, Recounted
<1> QED
  BY <1>9, <1>10, <1>11

(* The indexes are determined by the cells: two objects that agree on the   *)
(* cells, and whose indexes are right, are the same.                        *)
LEMMA Determined ==
  ASSUME NEW n \in Nat, NEW c, NEW d, Typed(c, n), Typed(d, n), CellsOK(c), CellsOK(d),
         d.pos = c.pos, d.seq = c.seq, d.shift = c.shift, d.has_shift = c.has_shift
  PROVE  d = c
<1>1. d.used = c.used
  BY DEF CellsOK, Occupied, Cells, is_empty
<1>2. \A s \in Seqs, p \in Pos : d.seq_pos[s][p] = c.seq_pos[s][p]
  <2>1. \A s, p : Holding(d, s, p) = Holding(c, s, p)
    BY DEF Holding, Cells
  <2> QED
    BY <2>1 DEF CellsOK
<1>3. c.seq_pos \in [Seqs -> [Pos -> Int]] /\ d.seq_pos \in [Seqs -> [Pos -> Int]]
  BY DEF Typed
<1>4. \A s \in Seqs : d.seq_pos[s] = c.seq_pos[s]
  BY <1>2, <1>3
<1>5. d.seq_pos = c.seq_pos
  BY <1>3, <1>4
<1> QED
  BY <1>1, <1>5 DEF Typed

\* what apply_ubatch() does to the cell of one token of sequence s
Placed(c, i, p, s) == seq_add_cell(pos_set(IF is_empty(c, i) THEN c ELSE rm(c, i), i, p), i, s)

(* prepare() places the tokens of a batch to see if there is room, then     *)
(* takes them back: set() of the saved cell undoes the placing of a token,  *)
(* the indexes included.                                                    *)
THEOREM TakenBack ==
  ASSUME NEW n \in Nat, NEW c, Typed(c, n), CellsOK(c), NEW i \in 0 .. n - 1, c.shift[i] = 0,
         NEW p \in Nat, NEW s \in Seqs
  PROVE  set_cell(Placed(c, i, p, s), i, [pos |-> c.pos[i], seq |-> c.seq[i]]) = c
<1> DEFINE a == IF is_empty(c, i) THEN c ELSE rm(c, i)
           b == pos_set(a, i, p)
           t == seq_add_cell(b, i, s)
           P == c.pos[i]
           T == c.seq[i]
           r == set_cell(t, i, [pos |-> P, seq |-> T])
<1>1. t = Placed(c, i, p, s)
  BY DEF Placed
<1>2. P \in Int /\ T \in SUBSET Seqs /\ [c.pos EXCEPT ![i] = P] = c.pos /\ [c.seq EXCEPT ![i] = T] = c.seq
  BY DEF Typed
<1>3. P = -1 => T = {}
  BY DEF CellsOK, is_empty, Cells, Typed
<1>4. /\ Typed(a, n) /\ CellsOK(a) /\ is_empty(a, i) /\ SameOthers(c, a, i)
      /\ a.shift[i] = 0 /\ a.has_shift = c.has_shift
  <2>1. CASE is_empty(c, i)
    BY <2>1 DEF SameOthers
  <2>2. CASE ~is_empty(c, i)
    <3> DEFINE q == seq_pos_rm(c, i)
    <3>1. a = rm(c, i) /\ a = Vacate(q, i) /\ q = seq_pos_rm(c, i)
      BY <2>2 DEF rm
    <3> HIDE DEF q, a
    <3>2. Typed(a, n) /\ CellsOK(a) /\ is_empty(a, i)
      BY <2>2, <3>1, RmOK
    <3>3. /\ Typed(q, n) /\ q.pos = c.pos /\ q.seq = c.seq /\ q.shift = c.shift
          /\ q.has_shift = c.has_shift
      BY <3>1, SeqPosRmIs
    <3>4. /\ a.pos = [q.pos EXCEPT ![i] = -1] /\ a.seq = [q.seq EXCEPT ![i] = {}]
          /\ a.shift = [q.shift EXCEPT ![i] = 0] /\ a.has_shift = q.has_shift
      BY <3>1, <3>3, VacateIs
    <3>5. SameOthers(c, a, i) /\ a.shift[i] = 0
      BY <3>3, <3>4 DEF SameOthers, Typed, Cells
    <3> QED
      BY <3>2, <3>3, <3>4, <3>5
  <2> QED
    BY <2>1, <2>2
<1>5. a = IF is_empty(c, i) THEN c ELSE rm(c, i)
  OBVIOUS
<1> HIDE DEF a
<1>6. /\ Typed(b, n) /\ CellsOK(b) /\ ~is_empty(b, i) /\ s \notin b.seq[i] /\ SameOthers(a, b, i)
      /\ b.shift = a.shift /\ b.has_shift = a.has_shift
  <2>1. Typed(b, n) /\ CellsOK(b)
    BY <1>4, PosSetOK
  <2>2. a.seq[i] = {}
    BY <1>4 DEF CellsOK, Typed, Cells
  <2>3. /\ b.pos = [a.pos EXCEPT ![i] = p] /\ b.seq = a.seq /\ b.shift = a.shift
        /\ b.has_shift = a.has_shift
    BY <1>4 DEF pos_set, Typed
  <2>4. SameOthers(a, b, i)
    BY <1>4, <2>3 DEF SameOthers, Typed, Cells
  <2>5. b.pos[i] = p
    BY <1>4, <2>3 DEF Typed
  <2> QED
    BY <2>1, <2>2, <2>3, <2>4, <2>5 DEF is_empty
<1> HIDE DEF b
<1>7. /\ Typed(t, n) /\ CellsOK(t) /\ SameOthers(b, t, i)
      /\ t.shift = b.shift /\ t.has_shift = b.has_shift
  <2> DEFINE S == b.seq[i] \union {s}
             x == b.pos[i]
             w == WithSeq(b, i, S)
  <2>1. Typed(t, n) /\ CellsOK(t)
    BY <1>6, SeqAddOK
  <2>2. S \in SUBSET Seqs /\ x \in Int
    BY <1>6 DEF Typed
  <2>3. w = WithSeq(b, i, S) /\ t = seq_pos_inc(w, s, x)
    BY DEF seq_add_cell, WithSeq
  <2> HIDE DEF S, x, w, t
  <2>4. /\ Typed(w, n) /\ w.pos = b.pos /\ w.seq = [b.seq EXCEPT ![i] = S] /\ w.shift = b.shift
        /\ w.has_shift = b.has_shift
    BY <1>6, <2>2, <2>3, NewSeq
  <2>5. t.pos = w.pos /\ t.seq = w.seq /\ t.shift = w.shift /\ t.has_shift = w.has_shift
    BY <2>2, <2>3, <2>4, SeqPosIncIs
  <2>6. SameOthers(b, t, i)
    BY <1>6, <2>4, <2>5 DEF SameOthers, Typed, Cells
  <2> QED
    BY <2>1, <2>4, <2>5, <2>6
<1>8. r = set_cell(t, i, [pos |-> P, seq |-> T])
  OBVIOUS
<1> HIDE DEF t, P, T, r
<1>9. t.shift[i] = 0
  BY <1>4, <1>6, <1>7
<1>10. /\ Typed(r, n) /\ CellsOK(r)
       /\ r.pos = [t.pos EXCEPT ![i] = P] /\ r.seq = [t.seq EXCEPT ![i] = T]
       /\ r.shift = t.shift /\ r.has_shift = t.has_shift
  BY <1>2, <1>3, <1>7, <1>8, <1>9, SetOK
<1>11. /\ \A j \in 0 .. n - 1 : r.pos[j] = c.pos[j] /\ r.seq[j] = c.seq[j] /\ r.shift[j] = c.shift[j]
       /\ r.has_shift = c.has_shift
  <2>1. Cells(c) = 0 .. n - 1 /\ Cells(a) = 0 .. n - 1 /\ Cells(b) = 0 .. n - 1
    BY <1>4, <1>6 DEF Typed, Cells
  <2>2. \A j \in (0 .. n - 1) \ {i} : t.pos[j] = c.pos[j] /\ t.seq[j] = c.seq[j] /\ t.shift[j] = c.shift[j]
    BY <1>4, <1>6, <1>7, <2>1 DEF SameOthers
  <2>3. r.pos[i] = c.pos[i] /\ r.seq[i] = c.seq[i] /\ r.shift[i] = c.shift[i]
    BY <1>7, <1>9, <1>10 DEF P, T, Typed
  <2>4. \A j \in (0 .. n - 1) \ {i} : r.pos[j] = t.pos[j] /\ r.seq[j] = t.seq[j] /\ r.shift[j] = t.shift[j]
    BY <1>7, <1>10 DEF Typed
  <2> QED
    BY <1>4, <1>6, <1>7, <1>10, <2>2, <2>3, <2>4
<1>12. r.pos = c.pos /\ r.seq = c.seq /\ r.shift = c.shift
  BY <1>10, <1>11 DEF Typed
<1>13. r = c
  BY <1>10, <1>11, <1>12, Determined
<1> QED
  BY <1>1, <1>13 DEF r, P, T

(* set_input_kq_mask(): copying the mask of the first token of a sequence   *)
(* and recomputing only the cells near the ubatch gives every later token   *)
(* the mask it would get cell by cell.  pmin is at most the position of any *)
(* token of that sequence in the ubatch; the margin may be 0.               *)
THEOREM MaskShortcut ==
  ASSUME NEW c, NEW n_kv \in Nat, NEW n_swa \in Nat, NEW s, MaskSlack \in Nat,
         \A j \in Cells(c) : c.pos[j] \in Int,
         NEW pmin \in Int, NEW pfirst \in Int, NEW p \in Int, pmin <= pfirst, pmin <= p
  PROVE  MaskOf(c, n_kv, n_swa, s, pmin, pfirst, p) = Visible(c, n_kv, n_swa, s, p)
<1> DEFINE near == Near(c, n_kv, n_swa, s, pmin)
<1>1. ASSUME NEW j \in Cells(c), j < n_kv, s \in c.seq[j], j \notin near
      PROVE  j \in Visible(c, n_kv, n_swa, s, pfirst) <=> j \in Visible(c, n_kv, n_swa, s, p)
  <2>1. c.pos[j] \in Int /\ ~(c.pos[j] + n_swa + MaskSlack >= pmin)
    BY <1>1 DEF Near
  <2>2. c.pos[j] + n_swa < pmin
    BY <2>1
  <2>3. CASE n_swa = 0
    BY <1>1, <2>1, <2>2, <2>3 DEF Visible, is_masked_swa
  <2>4. CASE n_swa > 0
    <3>1. is_masked_swa(n_swa, c.pos[j], pfirst) /\ is_masked_swa(n_swa, c.pos[j], p)
      BY <2>1, <2>2, <2>4 DEF is_masked_swa
    <3> QED
      BY <3>1 DEF Visible
  <2> QED
    BY <2>3, <2>4
<1>2. Visible(c, n_kv, n_swa, s, pfirst) \ near = Visible(c, n_kv, n_swa, s, p) \ near
  <2>1. \A q : Visible(c, n_kv, n_swa, s, q) \subseteq {j \in Cells(c) : j < n_kv /\ s \in c.seq[j]}
    BY DEF Visible
  <2> HIDE DEF near
  <2> QED
    BY <1>1, <2>1
<1>3. MaskOf(c, n_kv, n_swa, s, pmin, pfirst, p) =
        (Visible(c, n_kv, n_swa, s, pfirst) \ near) \union (Visible(c, n_kv, n_swa, s, p) \cap near)
  BY DEF MaskOf
<1> HIDE DEF near
<1> QED
  BY <1>2, <1>3

(* find_slot() gives an occupied cell away only if no later token of the    *)
(* cell's sequence would have looked at it.                                 *)
THEOREM EvictedUnseen ==
  ASSUME NEW k, NEW c, NEW i \in Cells(c), c.pos[i] \in Int, k.n_swa \in Nat, Usable(k, c, i), ~is_empty(c, i),
         NEW n_kv, NEW s \in Seqs, s \in c.seq[i], seq_pos_max(c, s) \in Int,
         NEW p \in Int, p > seq_pos_max(c, s)
  PROVE  i \notin Visible(c, n_kv, k.n_swa, s, p) /\ c.seq[i] = {s}
<1>1. PICK t \in Seqs : c.seq[i] = {t} /\ is_masked_swa(k.n_swa, c.pos[i], seq_pos_max(c, t) + 1)
  BY DEF Usable
<1>2. t = s
  BY <1>1
<1>3. is_masked_swa(k.n_swa, c.pos[i], p)
  BY <1>1, <1>2 DEF is_masked_swa
<1> QED
  BY <1>1, <1>2, <1>3 DEF Visible
=============================================================================
