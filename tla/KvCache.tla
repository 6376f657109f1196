------------------------------- MODULE KvCache -------------------------------
(***************************************************************************)
(* llama_kv_cache: where the K and V rows of every sequence are.  A cache  *)
(* is a record k of the class's members:                                   *)
(*   k.unified    one stream for all sequences, else one stream each;      *)
(*   k.n_swa      width of the sliding window, 0 without one;              *)
(*   k.cells[st]  the llama_kv_cells of stream st (v_cells);               *)
(*   k.heads[st]  where the search for free cells starts (v_heads);        *)
(*   k.rows[st]   per cell, the contents of the K and V buffers: the token *)
(*                they were computed for and the position the K row is     *)
(*                rotated to;                                              *)
(*   k.sc         the stream copies not yet performed (sc_info).           *)
(* A token of a ubatch is [id, pos, seq, out]: what its rows will hold,    *)
(* its position, its sequence (tokens of several, "coupled", sequences are *)
(* left out: the server makes none), and whether its logits are wanted.    *)
(***************************************************************************)
EXTENDS KvCells, SequencesExt

CONSTANTS NPad,        \* granularity of n_kv (256)
          MaskSlack    \* margin of the mask shortcut (32)

Streams(k) == DOMAIN k.cells

seq_to_stream(k, s) == IF k.unified THEN 0 ELSE s

\* is_masked_swa() for LLAMA_SWA_TYPE_NONE and LLAMA_SWA_TYPE_STANDARD
is_masked_swa(n_swa, p0, p1) == n_swa > 0 /\ p1 - p0 >= n_swa

NoRow == [id |-> 0, rot |-> 0]

EmptyCache(unified, n_swa, n) ==
  LET S == IF unified THEN {0} ELSE Seqs
  IN  [unified |-> unified, n_swa |-> n_swa,
       cells |-> [st \in S |-> EmptyCells(n)], heads |-> [st \in S |-> 0],
       rows |-> [st \in S |-> [i \in 0 .. n - 1 |-> NoRow]], sc |-> << >>]

get_size(k) == Cardinality(Cells(k.cells[0]))

get_has_shift(k) == \E st \in Streams(k) : k.cells[st].has_shift

\* "for (i = 0; i < cells.size(); ++i) if (Sel(i)) c = Op(c, i)"
ForCells(c, n, Sel(_), Op(_, _)) ==
  FoldLeft(LAMBDA d, i : IF Sel(i) THEN Op(d, i) ELSE d, c, [j \in 1 .. n |-> j - 1])

Freed(c, d) == {i \in Cells(c) : ~is_empty(c, i) /\ is_empty(d, i)}

\* "If we freed up a slot, set head to it so searching can start there."
WithCells(k, st, d) ==
  LET f == Freed(k.cells[st], d)
  IN  [k EXCEPT !.cells[st] = d,
                !.heads[st] = IF f # {} /\ Min(f) < @ THEN Min(f) ELSE @]

\* a negative bound stands for 0 and for the largest position
Lo(p0) == IF p0 < 0 THEN 0 ELSE p0

Hi(p1) == IF p1 < 0 THEN MaxPos + 1 ELSE p1

seq_rm(k, s, p0, p1) ==
  LET st == seq_to_stream(k, s)
      c  == k.cells[st]
  IN  WithCells(k, st, ForCells(c, get_size(k),
                                LAMBDA i : pos_in(c, i, Lo(p0), Hi(p1)) /\ s \in c.seq[i],
                                LAMBDA d, i : seq_rm_cell(d, i, s)))

\* Within a stream the cells of src also become cells of dst.  Between streams
\* the cells are copied here, with the shift still to be applied, and the rows
\* by the next update().  Called for whole sequences only.
seq_cp(k, src, dst) ==
  LET s0 == seq_to_stream(k, src)
      s1 == seq_to_stream(k, dst)
      c  == k.cells[s0]
      Share(d, i) == seq_add_cell(d, i, dst)
      Copy(d, i) ==
        LET e == seq_add_cell(pos_set(d, i, c.pos[i] - c.shift[i]), i, dst)
        IN  IF c.shift[i] # 0 THEN pos_add(e, i, c.shift[i]) ELSE e
      Src(i) == src \in c.seq[i]
  IN  IF src = dst THEN k
      ELSE IF s0 = s1 THEN [k EXCEPT !.cells[s0] = ForCells(c, get_size(k), Src, Share)]
      ELSE [k EXCEPT !.cells[s1] = ForCells(EmptyCells(get_size(k)), get_size(k), Src, Copy),
                     !.heads[s1] = k.heads[s0],
                     !.sc = Append(@, <<s0, s1>>)]

seq_add(k, s, p0, p1, shift) ==
  LET st == seq_to_stream(k, s)
      c  == k.cells[st]
      d  == ForCells(c, get_size(k), LAMBDA i : pos_in(c, i, Lo(p0), Hi(p1)) /\ s \in c.seq[i],
                     LAMBDA e, i : pos_add(e, i, shift))
      f  == Freed(c, d)
  IN  IF shift = 0 \/ Lo(p0) = Hi(p1) THEN k
      ELSE [k EXCEPT !.cells[st] = d, !.heads[st] = IF f = {} THEN 0 ELSE Min(f)]

(***************************************************************************)
(* update(): the stream copies, then the K-shift of every row.             *)
(***************************************************************************)
CopyStreams(k) ==
  FoldLeft(LAMBDA r, x : [r EXCEPT !.rows[x[2]] = r.rows[x[1]]], [k EXCEPT !.sc = << >>], k.sc)

KShift(k) ==
  [k EXCEPT !.rows = [st \in Streams(k) |-> [i \in Cells(k.cells[st]) |->
                       [k.rows[st][i] EXCEPT !.rot = @ + k.cells[st].shift[i]]]],
            !.cells = [st \in Streams(k) |-> reset_shift(k.cells[st])]]

update(k) == IF get_has_shift(k) THEN KShift(CopyStreams(k)) ELSE CopyStreams(k)

(***************************************************************************)
(* find_slot(ubatch, cont = false).  Per stream: the first n_tokens usable *)
(* cells, searched from the head (from 0 when that leaves enough unused    *)
(* cells before it) once around the stream.  A cell is usable when it is   *)
(* empty, or holds one token of one sequence that is out of the window of  *)
(* that sequence's next token.  << >>: not found.                          *)
(***************************************************************************)
Usable(k, c, i) ==
  \/ is_empty(c, i)
  \/ \E s \in Seqs : c.seq[i] = {s} /\ is_masked_swa(k.n_swa, c.pos[i], seq_pos_max(c, s) + 1)

find_in_stream(k, st, n) ==
  LET c  == k.cells[st]
      h  == IF k.heads[st] > Cardinality(c.used) + 2 * n THEN 0 ELSE k.heads[st]
      ok == SelectSeq([j \in 1 .. get_size(k) |-> (h + j - 1) % get_size(k)], LAMBDA i : Usable(k, c, i))
  IN  IF Len(ok) < n THEN << >> ELSE SubSeq(ok, 1, n)

\* seq_id_unq: the sequences of a ubatch in increasing order
SeqsOf(ub) == SetToSortSeq({ub[i].seq : i \in DOMAIN ub}, <)

SlotInfo(strm, idxs) ==
  IF \E j \in DOMAIN idxs : idxs[j] = << >> THEN << >> ELSE <<[strm |-> strm, idxs |-> idxs]>>

FindInStreams(k, strm, n) == SlotInfo(strm, [j \in DOMAIN strm |-> find_in_stream(k, strm[j], n)])

find_slot(k, ub) ==
  IF k.unified THEN FindInStreams(k, <<0>>, Len(ub))
  ELSE FindInStreams(k, SeqsOf(ub), Len(ub) \div Cardinality({ub[i].seq : i \in DOMAIN ub}))

\* the stream and the cell of the i-th token of a ubatch
StreamOf(sinfo, i) == sinfo.strm[((i - 1) \div Len(sinfo.idxs[1])) + 1]

CellOf(sinfo, i) == sinfo.idxs[((i - 1) \div Len(sinfo.idxs[1])) + 1][((i - 1) % Len(sinfo.idxs[1])) + 1]

(***************************************************************************)
(* apply_ubatch(): a cell that is still occupied loses its old token; then *)
(* every position of that token's sequence up to it is purged, so that the *)
(* positions a sequence keeps have no gap.                                 *)
(***************************************************************************)
Place(k, st, i, t) ==
  LET c == k.cells[st]
      d == pos_set(IF is_empty(c, i) THEN c ELSE rm(c, i), i, t.pos)
  IN  [k EXCEPT !.cells[st] = seq_add_cell(d, i, t.seq)]

\* seq_pos_max_rm[s]: the last position of s that the ubatch overwrites
OverwrittenBy(k, sinfo, ub, s) ==
  {k.cells[StreamOf(sinfo, i)].pos[CellOf(sinfo, i)] :
     i \in {j \in DOMAIN ub : s \in k.cells[StreamOf(sinfo, j)].seq[CellOf(sinfo, j)]}}

Purge(k, s, last) ==
  LET first == seq_pos_min(k.cells[seq_to_stream(k, s)], s)
  IN  IF first <= last THEN seq_rm(k, s, first, last + 1) ELSE k

apply_ubatch(k, sinfo, ub) ==
  LET placed == FoldLeft(LAMBDA r, i : Place(r, StreamOf(sinfo, i), CellOf(sinfo, i), ub[i]),
                         k, [i \in DOMAIN ub |-> i])
      Old(s) == OverwrittenBy(k, sinfo, ub, s)
      purged == FoldLeft(LAMBDA r, s : IF Old(s) = {} THEN r ELSE Purge(r, s, Max(Old(s))),
                         placed, [j \in 1 .. NSeq |-> j - 1])
  IN  FoldLeft(LAMBDA r, j : [r EXCEPT !.heads[sinfo.strm[j]] = Last(sinfo.idxs[j]) + 1],
               purged, [j \in DOMAIN sinfo.strm |-> j])

(***************************************************************************)
(* prepare(): place the ubatches one after the other to find their cells,  *)
(* then take them back, last one first.  The head of the j-th stream of a  *)
(* ubatch is restored from entry j of the saved heads.                     *)
(***************************************************************************)
TakeBack(k, saved) ==
  FoldLeft(LAMBDA r, j :
             [r EXCEPT !.cells[saved.sinfo.strm[j]] =
                         FoldLeft(LAMBDA c, n : set_cell(c, saved.sinfo.idxs[j][n], saved.cells[j][n]),
                                  @, [n \in DOMAIN saved.sinfo.idxs[j] |-> n]),
                       !.heads[saved.sinfo.strm[j]] = saved.heads[j - 1]],
           k, [j \in DOMAIN saved.sinfo.strm |-> j])

SaveOld(k, sinfo) ==
  [sinfo |-> sinfo, heads |-> k.heads,
   cells |-> [j \in DOMAIN sinfo.strm |-> cp(k.cells[sinfo.strm[j]], sinfo.idxs[j])]]

\* found: what find_slot() returned for ub
TryPlace(r, ub, found) ==
  IF found = << >> THEN [r EXCEPT !.ok = FALSE]
  ELSE [r EXCEPT !.k = apply_ubatch(@, found[1], ub), !.states = Append(@, SaveOld(r.k, found[1]))]

PlaceAll(k, ubatches) ==
  FoldLeft(LAMBDA r, ub : IF r.ok THEN TryPlace(r, ub, find_slot(r.k, ub)) ELSE r,
           [ok |-> TRUE, k |-> k, states |-> << >>], ubatches)

\* Mutant: the ubatch placed before the one without cells is not taken back.
TakeAllBack_leaves(end) ==
  [ok |-> end.ok, k |-> IF end.ok THEN FoldLeft(TakeBack, end.k, Reverse(end.states)) ELSE end.k,
   sinfos |-> [j \in DOMAIN end.states |-> end.states[j].sinfo]]

TakeAllBack(end) ==
  [ok |-> end.ok, k |-> FoldLeft(TakeBack, end.k, Reverse(end.states)),
   sinfos |-> [j \in DOMAIN end.states |-> end.states[j].sinfo]]

prepare(k, ubatches) == TakeAllBack(PlaceAll(k, ubatches))

\* the rows the graph of a ubatch writes (set_input_k_idxs, set_input_v_idxs)
WriteRows(k, sinfo, ub) ==
  FoldLeft(LAMBDA r, i : [r EXCEPT !.rows[StreamOf(sinfo, i)][CellOf(sinfo, i)] = [id |-> ub[i].id, rot |-> ub[i].pos]],
           k, [i \in DOMAIN ub |-> i])

(***************************************************************************)
(* set_input_kq_mask(): the cells token i of a ubatch attends to.  Only    *)
(* the first n_kv cells of a stream are looked at.  The mask of the first  *)
(* token of a sequence is computed cell by cell; the later tokens of that  *)
(* sequence copy it and recompute only the cells near the ubatch.          *)
(***************************************************************************)
PadTo(x, n) == ((x + n - 1) \div n) * n

used_max_p1(c) == IF c.used = {} THEN 0 ELSE Max(c.used) + 1

\* Mutant: the last used cell is left out.
get_n_kv_short(k, sinfo) ==
  Max({Min({get_size(k), PadTo(used_max_p1(k.cells[st]) - 1, NPad)}) : st \in Range(sinfo.strm)})

get_n_kv(k, sinfo) ==
  Max({Min({get_size(k), Max({NPad, PadTo(used_max_p1(k.cells[st]), NPad)})}) : st \in Range(sinfo.strm)})

\* the cells of sequence s that a token at position p1 may see
Visible(c, n_kv, n_swa, s, p1) ==
  {j \in Cells(c) : /\ j < n_kv /\ s \in c.seq[j]
                    /\ c.pos[j] <= p1 /\ ~is_masked_swa(n_swa, c.pos[j], p1)}

\* the cells recorded for recomputation: within n_swa + 32 of the ubatch
Near(c, n_kv, n_swa, s, pmin) ==
  {j \in Cells(c) : j < n_kv /\ s \in c.seq[j] /\ c.pos[j] + n_swa + MaskSlack >= pmin}

\* p: position of the token, pfirst: of the token whose mask is copied
MaskOf(c, n_kv, n_swa, s, pmin, pfirst, p) ==
  LET near == Near(c, n_kv, n_swa, s, pmin)
  IN  (Visible(c, n_kv, n_swa, s, pfirst) \ near) \union (Visible(c, n_kv, n_swa, s, p) \cap near)

kq_mask(k, sinfo, ub, i) ==
  LET s    == ub[i].seq
      same == {j \in DOMAIN ub : ub[j].seq = s}
  IN  MaskOf(k.cells[StreamOf(sinfo, i)], get_n_kv(k, sinfo), k.n_swa, s,
             Min({ub[j].pos : j \in same}), ub[Min(same)].pos, ub[i].pos)

(***************************************************************************)
(* state_write(), state_read() of one sequence: its cells in cell order    *)
(* with the rows the buffers hold now.  Reading looks for cells like a     *)
(* ubatch does; a state without cells leaves the sequence as it is.        *)
(***************************************************************************)
state_write(k, s) ==
  LET st  == seq_to_stream(k, s)
      own == SetToSortSeq({i \in Cells(k.cells[st]) : s \in k.cells[st].seq[i]}, <)
  IN  [j \in DOMAIN own |-> [pos |-> k.cells[st].pos[own[j]], row |-> k.rows[st][own[j]]]]

ReadInto(k, ub, found, data) ==
  IF found = << >> THEN [ok |-> FALSE, k |-> k]
  ELSE [ok |-> TRUE,
        k |-> FoldLeft(LAMBDA r, j : [r EXCEPT !.rows[found[1].strm[1]][found[1].idxs[1][j]] = data[j].row],
                       apply_ubatch(k, found[1], ub), [j \in DOMAIN data |-> j])]

ReadCells(k, ub, data) == ReadInto(k, ub, find_slot(k, ub), data)

state_read(k, s, data) ==
  IF data = << >> THEN [ok |-> TRUE, k |-> k]
  ELSE ReadCells(seq_rm(k, s, -1, -1),
                 [j \in DOMAIN data |-> [id |-> data[j].row.id, pos |-> data[j].pos, seq |-> s]], data)
=============================================================================
