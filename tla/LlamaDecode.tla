----------------------------- MODULE LlamaDecode -----------------------------
(***************************************************************************)
(* llama_context::decode: a batch is validated and split into ubatches     *)
(* (llama_batch_allocr), cells are found for all of them, then each one is *)
(* applied to the memory and computed.  A memory is <<kv>>, or             *)
(* <<kv_base, kv_swa>> for a model whose layers alternate full attention   *)
(* and sliding windows (llama_kv_cache_iswa): every operation is done on   *)
(* both, and what the memory says of a sequence is what kv_swa says.       *)
(***************************************************************************)
EXTENDS KvCache

ForCaches(mem, Op(_)) == IF Len(mem) = 1 THEN <<Op(mem[1])>> ELSE <<Op(mem[1]), Op(mem[2])>>

\* Mutant: kv_swa keeps its cells.
mem_seq_rm_base(mem, s, p0, p1) == [mem EXCEPT ![1] = seq_rm(@, s, p0, p1)]

mem_seq_rm(mem, s, p0, p1) == ForCaches(mem, LAMBDA k : seq_rm(k, s, p0, p1))

mem_seq_cp(mem, src, dst) == ForCaches(mem, LAMBDA k : seq_cp(k, src, dst))

mem_seq_add(mem, s, p0, p1, d) == ForCaches(mem, LAMBDA k : seq_add(k, s, p0, p1, d))

mem_seq_pos_min(mem, s) == LET k == Last(mem) IN seq_pos_min(k.cells[seq_to_stream(k, s)], s)

mem_seq_pos_max(mem, s) == LET k == Last(mem) IN seq_pos_max(k.cells[seq_to_stream(k, s)], s)

mem_can_shift(mem) == get_size(mem[1]) = get_size(Last(mem))

\* partial: LLAMA_STATE_SEQ_FLAGS_PARTIAL_ONLY, only kv_swa
mem_state_write(mem, s, partial) ==
  [c \in DOMAIN mem |-> IF partial /\ c < Len(mem) THEN << >> ELSE state_write(mem[c], s)]

\* kv_base first; when it fails kv_swa is not touched
CacheRead(r, c, x) == [ok |-> x.ok, mem |-> [r.mem EXCEPT ![c] = x.k]]

mem_state_read(mem, s, data, partial) ==
  FoldLeft(LAMBDA r, c : IF ~r.ok \/ (partial /\ c < Len(mem)) THEN r
                         ELSE CacheRead(r, c, state_read(r.mem[c], s, data[c])),
           [ok |-> TRUE, mem |-> mem], [c \in DOMAIN mem |-> c])

memory_update(mem) == ForCaches(mem, update)

(***************************************************************************)
(* llama_batch_allocr::init: the positions of a sequence in the batch have *)
(* no gap and continue the ones in the memory.                             *)
(***************************************************************************)
PosOf(batch, s) == {batch[i].pos : i \in {j \in DOMAIN batch : batch[j].seq = s}}

balloc_init(mem, batch) ==
  \A s \in {batch[i].seq : i \in DOMAIN batch} :
    LET P  == PosOf(batch, s)
        p0 == mem_seq_pos_max(mem, s)
    IN  /\ p0 >= 0 => Min(P) = p0 + 1
        /\ Max(P) - Min(P) + 1 <= Cardinality(P)

\* split_simple: the next n_ubatch tokens; left: the indices not used yet
split_simple(batch, left, n_ubatch) ==
  LET todo == SetToSortSeq(left, <) IN SubSeq(todo, 1, Min({Len(todo), n_ubatch}))

\* split_equal: the same number of tokens from each of several sequences, in
\* runs; with sequential the sequence ids must follow one another
split_equal(batch, left, n_ubatch, sequential) ==
  LET Join(cur, i) ==
        IF /\ batch[i].seq \notin Range(cur) /\ Len(cur) <= n_ubatch
           /\ sequential => cur = << >> \/ batch[i].seq = Last(cur) + 1
        THEN Append(cur, batch[i].seq) ELSE cur
      seqs    == FoldLeft(Join, << >>, SetToSortSeq(left, <))
      Todo(s) == SetToSortSeq({i \in left : batch[i].seq = s}, <)
      n       == Min({Len(Todo(s)) : s \in Range(seqs)} \union {Max({1, n_ubatch \div Len(seqs)})})
  IN  FlattenSeq([j \in DOMAIN seqs |-> SubSeq(Todo(seqs[j]), 1, n)])

\* call a splitter until every token is used; a ubatch is a list of batch indices
AddUbatch(r, ub) == [left |-> r.left \ Range(ub), ubs |-> Append(r.ubs, ub)]

Splits(batch, Split(_)) ==
  FoldLeft(LAMBDA r, t : IF r.left = {} THEN r ELSE AddUbatch(r, Split(r.left)),
           [left |-> DOMAIN batch, ubs |-> << >>], batch).ubs

TokensOf(batch, ub) == [j \in DOMAIN ub |-> batch[ub[j]]]

(***************************************************************************)
(* init_batch: split, then prepare() every cache, kv_base first.  Only     *)
(* kv_iswa has a second try, with equal splits.                            *)
(***************************************************************************)
CachePrepared(r, c, x) == [r EXCEPT !.ok = x.ok, !.mem[c] = x.k, !.sinfos = Append(@, x.sinfos)]

PrepareAll(mem, batch, ubs) ==
  FoldLeft(LAMBDA r, c : IF ~r.ok THEN r
                         ELSE CachePrepared(r, c, prepare(r.mem[c], [u \in DOMAIN ubs |-> TokensOf(batch, ubs[u])])),
           [ok |-> TRUE, mem |-> mem, sinfos |-> << >>, ubs |-> ubs], [c \in DOMAIN mem |-> c])

SplitSimple(batch, n_ubatch) == Splits(batch, LAMBDA left : split_simple(batch, left, n_ubatch))

SplitEqual(batch, n_ubatch, sequential) ==
  Splits(batch, LAMBDA left : split_equal(batch, left, n_ubatch, sequential))

RetryEqual(first, batch, n_ubatch) ==
  IF first.ok \/ Len(first.mem) = 1 THEN first
  ELSE PrepareAll(first.mem, batch, SplitEqual(batch, n_ubatch, FALSE))

init_batch(mem, batch, n_ubatch) ==
  IF mem[1].unified THEN RetryEqual(PrepareAll(mem, batch, SplitSimple(batch, n_ubatch)), batch, n_ubatch)
  ELSE PrepareAll(mem, batch, SplitEqual(batch, n_ubatch, TRUE))

(***************************************************************************)
(* The outputs of the ubatches are stored one after the other; a selection *)
(* sort of out_ids gives the swaps that bring them back to the order of    *)
(* the batch (output_reorder).  logits[i]: the token whose logits          *)
(* llama_get_logits_ith(i) returns, 0 without output.                      *)
(***************************************************************************)
Swap(f, i, j) == [f EXCEPT ![i] = f[j], ![j] = f[i]]

SelectionSort(r, i) ==
  LET rest == {j \in DOMAIN r.ids : j >= i}
      jmin == CHOOSE j \in rest : \A h \in rest : r.ids[j] <= r.ids[h]
  IN  IF jmin = i THEN r ELSE [ids |-> Swap(r.ids, i, jmin), swaps |-> Append(r.swaps, <<i, jmin>>)]

\* Mutant: output_ids is sorted, the rows are not.
Outputs_unswapped(batch, ubs) ==
  LET out_ids == SelectSeq(FlattenSeq(ubs), LAMBDA i : batch[i].out)
      sorted  == SetToSortSeq(Range(out_ids), <)
  IN  [i \in DOMAIN batch |->
        IF batch[i].out THEN batch[out_ids[CHOOSE j \in DOMAIN sorted : sorted[j] = i]].id ELSE 0]

Outputs(batch, ubs) ==
  LET out_ids == SelectSeq(FlattenSeq(ubs), LAMBDA i : batch[i].out)
      sorted  == FoldLeft(SelectionSort, [ids |-> out_ids, swaps |-> << >>], [i \in DOMAIN out_ids |-> i])
      rows    == FoldLeft(LAMBDA r, x : Swap(r, x[1], x[2]),
                          [i \in DOMAIN out_ids |-> batch[out_ids[i]].id], sorted.swaps)
  IN  [i \in DOMAIN batch |-> IF batch[i].out THEN rows[CHOOSE j \in DOMAIN rows : sorted.ids[j] = i] ELSE 0]

(***************************************************************************)
(* decode().  fail: the ubatch whose computation fails, 0 for none; wrote: *)
(* whether its rows were written before it failed.  seen: what every       *)
(* computed token attended to, per cache.                                  *)
(***************************************************************************)
Attended(k, sinfo, ub, i) ==
  LET st == StreamOf(sinfo, i)
      m  == kq_mask(k, sinfo, ub, i)
  IN  [seq |-> ub[i].seq, pos |-> ub[i].pos, n_swa |-> k.n_swa, n |-> Cardinality(m),
       keys |-> {[id |-> k.rows[st][j].id, pos |-> k.cells[st].pos[j], rot |-> k.rows[st][j].rot] : j \in m}]

ApplyTo(k, sinfo, ub, compute) ==
  IF compute THEN WriteRows(apply_ubatch(k, sinfo, ub), sinfo, ub) ELSE apply_ubatch(k, sinfo, ub)

Computed(seen, m, u, plan, ub) ==
  [mem |-> m, seen |-> seen \union {Attended(m[c], plan.sinfos[c][u], ub, i) : c \in DOMAIN m, i \in DOMAIN ub}]

ComputeUbatch(r, u, plan, ub, compute) ==
  Computed(r.seen, [c \in DOMAIN r.mem |-> ApplyTo(r.mem[c], plan.sinfos[c][u], ub, compute)], u, plan, ub)

process_ubatch(r, batch, u, plan, compute) ==
  ComputeUbatch(r, u, plan, TokensOf(batch, plan.ubs[u]), compute)

\* the entries of the failed ubatch are removed again
Withdraw(mem, ub) ==
  FoldSet(LAMBDA s, m : mem_seq_rm(m, s, Min(PosOf(ub, s)), -1), mem, {ub[i].seq : i \in DOMAIN ub})

NoLogits(batch) == [i \in DOMAIN batch |-> 0]

\* run: after the ubatches before the one that fails, or after all of them
EndDecode(plan, run, batch, fail, wrote) ==
  IF fail \in DOMAIN plan.ubs
  THEN [ret |-> -3, mem |-> Withdraw(process_ubatch(run, batch, fail, plan, wrote).mem,
                                     TokensOf(batch, plan.ubs[fail])),
        seen |-> run.seen, logits |-> NoLogits(batch)]
  ELSE [ret |-> 0, mem |-> run.mem, seen |-> run.seen, logits |-> Outputs(batch, plan.ubs)]

RunPlan(plan, batch, fail, wrote) ==
  IF ~plan.ok THEN [ret |-> 1, mem |-> plan.mem, seen |-> {}, logits |-> NoLogits(batch)]
  ELSE EndDecode(plan,
                 FoldLeft(LAMBDA r, u : process_ubatch(r, batch, u, plan, TRUE),
                          [mem |-> plan.mem, seen |-> {}],
                          [u \in 1 .. (IF fail \in DOMAIN plan.ubs THEN fail - 1 ELSE Len(plan.ubs)) |-> u]),
                 batch, fail, wrote)

decode(mem, batch, n_ubatch, fail, wrote) ==
  IF ~balloc_init(mem, batch) THEN [ret |-> -1, mem |-> mem, seen |-> {}, logits |-> NoLogits(batch)]
  ELSE RunPlan(init_batch(memory_update(mem), batch, n_ubatch), batch, fail, wrote)
=============================================================================
