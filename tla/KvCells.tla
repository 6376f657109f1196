------------------------------- MODULE KvCells -------------------------------
(***************************************************************************)
(* llama_kv_cells: what the KV cache knows about its cells.  A value of    *)
(* this class is a record c of the class's members:                        *)
(*   c.pos, c.seq, c.shift   per cell: position (-1: empty), the sequences *)
(*                           it belongs to, the shifts not yet applied;    *)
(*   c.used                  the indices of the non-empty cells;           *)
(*   c.seq_pos               c.seq_pos[s][p]: how many cells of sequence s *)
(*                           have position p (0: not in the std::map);     *)
(*   c.has_shift             some shift waits to be applied.               *)
(* used and seq_pos are indexes kept up to date by hand in every method;   *)
(* everything the cache answers about a sequence is read from seq_pos.     *)
(* Each operator below is one method and returns the updated object.  The  *)
(* 2D positions of M-RoPE (ext) are left out.                              *)
(***************************************************************************)
EXTENDS Integers, FiniteSets, FiniteSetsExt

CONSTANTS NSeq,       \* n_seq_max: sequences are 0 .. NSeq - 1
          MaxPos      \* the largest position a batch may use

ASSUME KvAssumption == NSeq \in Nat \ {0} /\ MaxPos \in Nat

Seqs == 0 .. NSeq - 1
Pos  == 0 .. MaxPos

Cells(c) == DOMAIN c.pos

\* resize(n), reset()
EmptyCells(n) ==
  [pos |-> [i \in 0 .. n - 1 |-> -1], seq |-> [i \in 0 .. n - 1 |-> {}],
   shift |-> [i \in 0 .. n - 1 |-> 0], used |-> {},
   seq_pos |-> [s \in Seqs |-> [p \in Pos |-> 0]], has_shift |-> FALSE]

reset_shift(c) == [c EXCEPT !.has_shift = FALSE, !.shift = [i \in Cells(c) |-> 0]]

is_empty(c, i) == c.pos[i] = -1

\* seq_pos_inc, seq_pos_dec: an entry that reaches 0 leaves the map
seq_pos_inc(c, s, p) == [c EXCEPT !.seq_pos[s][p] = @ + 1]

seq_pos_dec(c, s, p) == [c EXCEPT !.seq_pos[s][p] = @ - 1]

\* seq_pos_rm(i), seq_pos_add(i): the same for every sequence of cell i
seq_pos_rm(c, i) ==
  [c EXCEPT !.seq_pos = [s \in Seqs |-> [p \in Pos |->
     IF s \in c.seq[i] /\ c.pos[i] = p THEN c.seq_pos[s][p] - 1 ELSE c.seq_pos[s][p]]]]

seq_pos_add(c, i) ==
  [c EXCEPT !.seq_pos = [s \in Seqs |-> [p \in Pos |->
     IF s \in c.seq[i] /\ c.pos[i] = p THEN c.seq_pos[s][p] + 1 ELSE c.seq_pos[s][p]]]]

\* the lines that empty a cell in rm, seq_rm, seq_keep and pos_add
Vacate(c, i) == [c EXCEPT !.pos[i] = -1, !.seq[i] = {}, !.shift[i] = 0, !.used = @ \ {i}]

rm(c, i) == Vacate(seq_pos_rm(c, i), i)

\* called only when cell i has sequence s
seq_rm_cell(c, i, s) ==
  LET d == seq_pos_dec([c EXCEPT !.seq[i] = @ \ {s}], s, c.pos[i])
  IN  IF d.seq[i] = {} THEN Vacate(d, i) ELSE d

seq_keep_cell(c, i, s) ==
  IF s \in c.seq[i] THEN seq_pos_inc([seq_pos_rm(c, i) EXCEPT !.seq[i] = {s}], s, c.pos[i])
  ELSE IF c.seq[i] # {} THEN Vacate(seq_pos_rm(c, i), i)
  ELSE c

\* called only when cell i is not empty and does not have sequence s
seq_add_cell(c, i, s) == seq_pos_inc([c EXCEPT !.seq[i] = @ \union {s}], s, c.pos[i])

\* called only when cell i is empty
pos_set(c, i, p) == [c EXCEPT !.pos[i] = p, !.used = @ \union {i}]

pos_add(c, i, d) ==
  LET r == [seq_pos_rm(c, i) EXCEPT !.pos[i] = @ + d, !.shift[i] = @ + d, !.has_shift = TRUE]
  IN  IF r.pos[i] < 0 THEN Vacate(r, i) ELSE seq_pos_add(r, i)

pos_div(c, i, d) ==
  LET p == c.pos[i] \div d
  IN  seq_pos_add([seq_pos_rm(c, i) EXCEPT !.pos[i] = p, !.shift[i] = @ + (c.pos[i] - p),
                                           !.has_shift = TRUE], i)

\* cp(idxs) and set(idxs, other): save cells, and put them back.  set() does
\* not write shift: cp() asserts that it is 0.
cp(c, idxs) == [j \in DOMAIN idxs |-> [pos |-> c.pos[idxs[j]], seq |-> c.seq[idxs[j]]]]

\* Mutant: the token the cell held stays counted.
set_cell_keeps(c, i, old) ==
  LET u == IF old.pos = -1 THEN c.used \ {i} ELSE c.used \union {i}
      e == [c EXCEPT !.used = u, !.pos[i] = old.pos, !.seq[i] = old.seq]
  IN  IF old.pos = -1 THEN e ELSE seq_pos_add(e, i)

set_cell(c, i, old) ==
  LET u == IF old.pos = -1 THEN c.used \ {i} ELSE c.used \union {i}
      d == IF is_empty(c, i) THEN c ELSE seq_pos_rm(c, i)
      e == [d EXCEPT !.used = u, !.pos[i] = old.pos, !.seq[i] = old.seq]
  IN  IF old.pos = -1 THEN e ELSE seq_pos_add(e, i)

\* seq_pos_min, seq_pos_max: first and last key of the map, -1 when it is empty
Present(c, s) == {p \in Pos : c.seq_pos[s][p] # 0}

seq_pos_min(c, s) == IF Present(c, s) = {} THEN -1 ELSE Min(Present(c, s))

seq_pos_max(c, s) == IF Present(c, s) = {} THEN -1 ELSE Max(Present(c, s))

pos_in(c, i, p0, p1) == c.pos[i] >= p0 /\ c.pos[i] < p1

(***************************************************************************)
(* What the methods have to keep: both indexes say what the cells say.     *)
(***************************************************************************)
Occupied(c) == {i \in Cells(c) : ~is_empty(c, i)}

Holding(c, s, p) == {i \in Cells(c) : s \in c.seq[i] /\ c.pos[i] = p}

CellsOK(c) ==
  /\ c.used = Occupied(c)
  /\ \A i \in Cells(c) : is_empty(c, i) => c.seq[i] = {} /\ c.shift[i] = 0
  /\ \A s \in Seqs, p \in Pos : c.seq_pos[s][p] = Cardinality(Holding(c, s, p))
=============================================================================
