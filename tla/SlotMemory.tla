------------------------------ MODULE SlotMemory ------------------------------
(***************************************************************************)
(* What the slots of the server keep in the memory of the llama_context.   *)
(* A slot's prompt.tokens is the server's own account of what the memory   *)
(* holds for the slot's sequence; update_slots and the task handlers       *)
(* change both and never compare them.  Tokens are numbered as they first  *)
(* appear: two different tokens never look alike.                          *)
(*   mem      the memory of the context                                    *)
(*   slots    per slot: state, prompt.tokens, prompt.checkpoints, the      *)
(*            tokens of its task, its role (single, parent, child),        *)
(*            i_batch (0: none) and i_batch_dft (batch indices); early: a  *)
(*            child that was activated before its parent's prompt ended    *)
(*   batch    the batch of this iteration of update_slots                  *)
(*   done     how many of its tokens have been decoded                     *)
(*   n_batch  the size of the next view of it                              *)
(*   pcache   server_prompt_cache::states                                  *)
(*   file     the slot save file: empty, or what was saved last            *)
(*   n_tok    tokens seen so far                                           *)
(*   bad      what went wrong in a decode: "attention" if a token did not  *)
(*            see exactly the tokens before it, "logits" if a slot sampled *)
(*            from another token's logits                                  *)
(*   conf     the parameters of the server, chosen once                    *)
(***************************************************************************)
EXTENDS LlamaDecode

CONSTANTS Configs,     \* the parameters to choose from; of these max_tok bounds the
                       \* tokens of a behaviour, max_new the new tokens of a prompt
          CkptMin      \* least pos_max, and least distance, of a checkpoint (64)

ASSUME SlotAssumption ==
  /\ NPad \in Nat \ {0} /\ MaskSlack \in Nat
  /\ CkptMin \in Nat
  /\ \A c \in Configs : c.n_ctx <= MaxPos + 1 /\ c.n_parallel \in 1 .. NSeq /\ c.n_batch > 0 /\ c.n_ubatch > 0

VARIABLES mem, slots, batch, done, n_batch, pcache, file, n_tok, bad, conf

vars == <<mem, slots, batch, done, n_batch, pcache, file, n_tok, bad, conf>>

Slots == 0 .. conf.n_parallel - 1

InSlotOrder == [j \in 1 .. conf.n_parallel |-> j - 1]

IdleSlot == [state |-> "idle", tokens |-> << >>, ckpts |-> << >>, input |-> << >>,
             role |-> "single", i_batch |-> 0, dft |-> << >>, early |-> FALSE]

NewMemory(c) ==
  IF c.n_swa = 0 THEN <<EmptyCache(c.unified, 0, c.size)>>
  ELSE <<EmptyCache(c.unified, 0, c.size), EmptyCache(c.unified, c.n_swa, c.size_swa)>>

Init == /\ conf \in Configs
        /\ mem = NewMemory(conf)
        /\ slots = [s \in Slots |-> IdleSlot]
        /\ batch = << >> /\ done = 0 /\ n_batch = conf.n_batch
        /\ pcache = << >> /\ file = << >> /\ n_tok = 0 /\ bad = {}

is_processing(s) == slots[s].state # "idle"

\* the server thread is between two iterations: tasks are handled here
Between == done = Len(batch)

Common(t, u) == Cardinality({n \in 1 .. Min({Len(t), Len(u)}) : SubSeq(t, 1, n) = SubSeq(u, 1, n)})

Prefix(t, n) == SubSeq(t, 1, n)

(***************************************************************************)
(* r is a record [mem, slots, ...] of the variables a handler changes.     *)
(***************************************************************************)
prompt_clear(r, s) ==
  [r EXCEPT !.mem = mem_seq_rm(@, s, -1, -1), !.slots[s].tokens = << >>]

release(r, s) ==
  LET x == [r EXCEPT !.slots[s] = [@ EXCEPT !.state = "idle", !.input = << >>, !.role = "single",
                                            !.dft = << >>, !.early = FALSE]]
  IN  IF r.slots[s].state = "idle" THEN r
      ELSE IF r.slots[s].role = "child" THEN prompt_clear(x, s) ELSE x

\* n: how much of the batch has been decoded
copy_state_to(r, s, d, n) ==
  [r EXCEPT !.mem = mem_seq_cp(mem_seq_rm(@, d, -1, -1), s, d),
            !.slots[d] = [@ EXCEPT !.state = "done", !.tokens = r.slots[s].tokens,
                                   !.ckpts = r.slots[s].ckpts, !.i_batch = r.slots[s].i_batch,
                                   !.early = r.slots[s].i_batch > n]]

(***************************************************************************)
(* server_prompt_cache                                                     *)
(***************************************************************************)
pcache_alloc(states, p) ==
  IF \E i \in DOMAIN states : Common(states[i].tokens, p.tokens) = Len(p.tokens) THEN states
  ELSE Append(SelectSeq(states, LAMBDA x : Common(x.tokens, p.tokens) # Len(x.tokens)), p)

prompt_save(r, s) ==
  [r EXCEPT !.pcache = pcache_alloc(@, [tokens |-> r.slots[s].tokens, ckpts |-> r.slots[s].ckpts,
                                        data |-> mem_state_write(r.mem, s, FALSE)])]

\* the entry that keeps more of itself and shares more with the input than the
\* best one so far (best.e = 0: the slot's own prompt); fractions cross-multiplied
BestEntry(states, own, input) ==
  LET Better(best, i) ==
        LET n == Common(states[i].tokens, input)
        IN  IF /\ 4 * n >= Len(states[i].tokens)
               /\ n * best.len > best.lcp * Len(states[i].tokens)
               /\ n > best.lcp
            THEN [e |-> i, lcp |-> n, len |-> Len(states[i].tokens)] ELSE best
  IN  FoldLeft(Better, [e |-> 0, lcp |-> Common(own, input), len |-> Len(own)], [i \in DOMAIN states |-> i]).e

\* entry e read into the slot; x: what mem_state_read() returned
LoadEntry(r, s, e, x) ==
  IF ~x.ok THEN prompt_clear([r EXCEPT !.mem = x.mem], s)
  ELSE [r EXCEPT !.mem = x.mem, !.slots[s].tokens = r.pcache[e].tokens,
                 !.slots[s].ckpts = r.pcache[e].ckpts, !.pcache = RemoveAt(@, e)]

LoadBest(r, s, e) ==
  IF e = 0 THEN r ELSE LoadEntry(r, s, e, mem_state_read(r.mem, s, r.pcache[e].data, FALSE))

prompt_load(r, s, input) == LoadBest(r, s, BestEntry(r.pcache, r.slots[s].tokens, input))

\* update(): over the limit the oldest entries go, one always stays
pcache_update(r) == [r EXCEPT !.pcache = IF Len(@) > conf.n_cache THEN SubSeq(@, Len(@) - conf.n_cache + 1, Len(@)) ELSE @]

\* the end of get_available_slot
UpdateCache(r, s, input) ==
  IF conf.n_cache = 0 \/ r.slots[s].tokens = << >> THEN r
  ELSE pcache_update(prompt_load(prompt_save(r, s), s, input))

(***************************************************************************)
(* A completion task is given slot s; with n = 2 a second slot waits for   *)
(* the first one's prompt.  Its prompt starts like what the slot or the    *)
(* prompt cache holds, may skip a stretch of it, and ends in new tokens.   *)
(***************************************************************************)
Prompts(s) ==
  LET old == {slots[s].tokens} \union {pcache[i].tokens : i \in DOMAIN pcache}
      Cut(t) == {Prefix(t, x[1]) \o SubSeq(t, x[2], Len(t)) :
                   x \in {y \in (0 .. Len(t)) \X (1 .. Len(t) + 1) :
                            y[1] < y[2] /\ (conf.n_reuse = 0 => y[2] = Len(t) + 1)}}
      New(n) == [i \in 1 .. n |-> n_tok + i]
  IN  {t \o New(n) : t \in UNION {Cut(o) : o \in old}, n \in 0 .. conf.max_new}

\* the slot found for a prompt, with what the prompt cache did to it
SlotFor(s, input, cached) ==
  LET r == [mem |-> mem, slots |-> slots, pcache |-> pcache]
  IN  IF cached THEN UpdateCache(r, s, input) ELSE r

Accepts(input) == input # << >> /\ Len(input) < conf.n_ctx /\ Max(Range(input)) <= conf.max_tok

Assign(s, input, cached) ==
  /\ Between /\ ~is_processing(s) /\ Accepts(input)
  /\ \E x \in {SlotFor(s, input, cached)} :
       /\ mem' = x.mem /\ pcache' = x.pcache
       /\ slots' = [x.slots EXCEPT ![s].state = "started", ![s].input = input]
  /\ n_tok' = Max(Range(input) \union {n_tok})
  /\ UNCHANGED <<batch, done, n_batch, file, bad, conf>>

AssignPair(s, d, input, cached) ==
  /\ Between /\ s # d /\ ~is_processing(s) /\ ~is_processing(d) /\ conf.pairs /\ Accepts(input)
  /\ \E x \in {SlotFor(s, input, cached)} :
       /\ mem' = x.mem /\ pcache' = x.pcache
       /\ slots' = [x.slots EXCEPT ![s].state = "started", ![s].input = input, ![s].role = "parent",
                                   ![d].state = "wait", ![d].input = input, ![d].role = "child"]
  /\ n_tok' = Max(Range(input) \union {n_tok})
  /\ UNCHANGED <<batch, done, n_batch, file, bad, conf>>

\* SERVER_TASK_TYPE_CANCEL of a running task.  A reader posts the cancels of all
\* its tasks at once: a child that still waits for its parent's prompt is
\* cancelled with it, never alone.
Cancel(s) ==
  LET Waits(d) == d = s \/ (slots[s].role = "parent" /\ slots[d].state = "wait")
      x == FoldLeft(LAMBDA r, d : IF Waits(d) THEN release(r, d) ELSE r,
                    [mem |-> mem, slots |-> slots], InSlotOrder)
  IN  /\ Between /\ slots[s].state \in {"started", "prompt", "gen"}
      /\ mem' = x.mem /\ slots' = x.slots
      /\ UNCHANGED <<batch, done, n_batch, pcache, file, n_tok, bad, conf>>

\* SERVER_TASK_TYPE_SLOT_ERASE
Erase(s) ==
  LET x == prompt_clear([mem |-> mem, slots |-> slots], s)
  IN  /\ Between /\ ~is_processing(s)
      /\ mem' = x.mem /\ slots' = x.slots
      /\ UNCHANGED <<batch, done, n_batch, pcache, file, n_tok, bad, conf>>

\* SERVER_TASK_TYPE_SLOT_SAVE; conf.save: how many tokens a saved slot may have
Save(s) ==
  /\ Between /\ ~is_processing(s) /\ Len(slots[s].tokens) \in conf.save
  /\ file' = <<[tokens |-> slots[s].tokens, data |-> mem_state_write(mem, s, FALSE)]>>
  /\ UNCHANGED <<mem, slots, batch, done, n_batch, pcache, n_tok, bad, conf>>

\* SERVER_TASK_TYPE_SLOT_RESTORE: the prompt is emptied when the file cannot be
\* read; the slot keeps the checkpoints of what it held before
Restore(s) ==
  /\ Between /\ ~is_processing(s) /\ file # << >>
  /\ \E x \in {mem_state_read(mem, s, file[1].data, FALSE)} :
       /\ mem' = x.mem
       /\ slots' = [slots EXCEPT ![s].tokens = IF x.ok THEN file[1].tokens ELSE << >>]
  /\ UNCHANGED <<batch, done, n_batch, pcache, file, n_tok, bad, conf>>

(***************************************************************************)
(* update_slots, up to the decode.  First the context shift of a slot that *)
(* is full: without it, and for a shared prompt, the slot is released.     *)
(***************************************************************************)
ShiftContext(r, s) ==
  LET t      == r.slots[s].tokens
      n_keep == Min({conf.n_ctx - 4, conf.n_keep})
      n_disc == (Len(t) - n_keep) \div 2
      m      == mem_seq_rm(r.mem, s, n_keep, n_keep + n_disc)
  IN  IF r.slots[s].state # "gen" \/ Len(t) + 1 < conf.n_ctx THEN r
      ELSE IF ~conf.ctx_shift \/ r.slots[s].role # "single" THEN release(r, s)
      ELSE [r EXCEPT !.mem = mem_seq_add(m, s, n_keep + n_disc, Len(t), -n_disc),
                     !.slots[s].tokens = Prefix(t, n_keep) \o SubSeq(t, n_keep + n_disc + 1, Len(t))]

\* common_batch_add, and prompt.tokens.push_back
AddToken(r, s, id, out) ==
  [r EXCEPT !.batch = Append(@, [id |-> id, pos |-> Len(r.slots[s].tokens), seq |-> s, out |-> out]),
            !.slots[s].tokens = Append(@, id)]

AddNew(r, s) == [AddToken(r, s, r.n_tok + 1, TRUE) EXCEPT !.n_tok = @ + 1]

\* get_n_draft_max: one token is left for the context shift
get_n_draft_max(t) ==
  LET n == Min({conf.n_draft, conf.n_ctx - Len(t) - 2}) IN IF n < conf.n_min THEN 0 ELSE n

\* the token sampled last, and the draft that follows it unless it is too small
AddSampled(r, s, draft) ==
  LET n_max == get_n_draft_max(r.slots[s].tokens)
      n     == Min({draft, n_max})
      spec  == n_max > 0 /\ n >= conf.n_min
      x     == FoldLeft(LAMBDA q, i : AddNew(q, s), r, [i \in 1 .. IF spec THEN 1 + n ELSE 1 |-> i])
  IN  IF r.slots[s].state # "gen" THEN r
      ELSE IF spec
      THEN [x EXCEPT !.slots[s].dft = [i \in 1 .. 1 + n |-> Len(r.batch) + i]]
      ELSE [x EXCEPT !.slots[s].i_batch = Len(x.batch)]

(***************************************************************************)
(* The prompt of a slot that starts.  Chunks of the old prompt that occur  *)
(* later in the new one are shifted into place (n_cache_reuse).            *)
(***************************************************************************)
\* n tokens from x.c on are also the next ones of the input, from x.p on
MoveChunk(x, s, n) ==
  IF n < conf.n_reuse THEN [x EXCEPT !.c = @ + 1]
  ELSE [r |-> [x.r EXCEPT !.mem = mem_seq_add(mem_seq_rm(@, s, x.p, x.c), s, x.c, x.c + n, x.p - x.c),
                          !.slots[s].tokens = [i \in DOMAIN @ |-> IF i \in x.p + 1 .. x.p + n
                                                                  THEN @[i + x.c - x.p] ELSE @[i]]],
        c |-> x.c + n, p |-> x.p + n]

NextChunk(x, s, t, in) ==
  IF x.c >= Len(t) \/ x.p >= Len(in) THEN x
  ELSE MoveChunk(x, s, Common(SubSeq(t, x.c + 1, Len(t)), SubSeq(in, x.p + 1, Len(in))))

\* r with the slot's memory, p: how much of the prompt it now holds
ReuseChunks(r, s) ==
  LET n0 == Common(r.slots[s].tokens, r.slots[s].input)
      x0 == [r |-> r, c |-> n0, p |-> n0]
  IN  IF conf.n_reuse = 0 \/ ~mem_can_shift(r.mem) THEN x0
      ELSE FoldLeft(LAMBDA x, j : NextChunk(x, s, x.r.slots[s].tokens, r.slots[s].input),
                    x0, r.slots[s].tokens)

\* the window of the next token must be in the memory: else go back to a
\* checkpoint, or to the beginning; then drop the checkpoints after this point
RestoreCheckpoint(r, n_past, cur, x) ==
  [r |-> [r EXCEPT !.mem = x.mem],
   p |-> IF x.ok THEN Min({n_past, Max({cur.pos_min + 1, cur.pos_max}), cur.n_tokens}) ELSE 0]

\* GGML_ABORT: a prompt of which the memory holds nothing (pos_min = -1); between
\* two iterations MemoryIsPrompt and WindowIsPrompt exclude it
SearchCheckpoint(r, s, n_past, thold) ==
  LET ck == r.slots[s].ckpts
      ok == {i \in DOMAIN ck : ck[i].pos_min < thold}
  IN  IF n_past = 0 \/ n_past >= Len(r.slots[s].tokens) \/ mem_seq_pos_min(r.mem, s) <= thold
      THEN [r |-> r, p |-> n_past]
      ELSE IF ok = {} THEN [r |-> r, p |-> 0]
      ELSE RestoreCheckpoint(r, n_past, ck[Max(ok)], mem_state_read(r.mem, s, ck[Max(ok)].data, TRUE))

UseCheckpoint(x, s) ==
  LET thold == Max({0, x.p - Max({1, conf.n_swa})})
  IN  [SearchCheckpoint(x.r, s, x.p, thold) EXCEPT
         !.r.slots[s].ckpts = SelectSeq(@, LAMBDA q : q.pos_min <= thold)]

\* at least one token is evaluated
ContinueFrom(x, s) ==
  LET n == IF x.p = Len(x.r.slots[s].input) THEN x.p - 1 ELSE x.p
  IN  [x.r EXCEPT !.slots[s].state = "prompt", !.slots[s].tokens = Prefix(@, n)]

StartPrompt(r, s) ==
  IF r.slots[s].state # "started" THEN r
  ELSE ContinueFrom(UseCheckpoint(ReuseChunks(r, s), s), s)

\* memory positions that cannot be rolled back are saved before the end of a prompt
UsesCheckpoints == conf.n_ckpt > 0 /\ conf.n_swa > 0

\* the loop over the tokens of the prompt, and the early end for a checkpoint
AddPromptTokens(r, s) ==
  LET n == Len(r.slots[s].input)
      Step(x, j) ==
        LET y == AddToken(x.r, s, r.slots[s].input[Len(x.r.slots[s].tokens) + 1], FALSE)
        IN  IF x.stop \/ Len(x.r.slots[s].tokens) = n \/ Len(x.r.batch) >= conf.n_batch THEN x
            ELSE [r |-> y,
                  stop |-> UsesCheckpoints /\ \E o \in {4 + conf.n_ubatch, 4} :
                             n = Len(y.slots[s].tokens) + Min({conf.n_batch, o})]
  IN  FoldLeft(Step, [r |-> r, stop |-> FALSE], r.slots[s].input).r

\* n_added of the slot's tokens are in the batch and not yet in the memory
MakeCheckpoint(r, s, n_added) ==
  LET x    == r.slots[s]
      lo   == mem_seq_pos_min(r.mem, s)
      hi   == mem_seq_pos_max(r.mem, s)
      kept == IF Len(x.ckpts) >= conf.n_ckpt THEN SubSeq(x.ckpts, Len(x.ckpts) - conf.n_ckpt + 2, Len(x.ckpts)) ELSE x.ckpts
  IN  IF /\ UsesCheckpoints /\ lo >= 0 /\ hi >= CkptMin
         /\ Len(x.tokens) = Len(x.input) \/ Len(x.input) < Len(x.tokens) + conf.n_ubatch
         /\ x.ckpts = << >> \/ hi > Last(x.ckpts).pos_max + CkptMin
      THEN [r EXCEPT !.slots[s].ckpts = Append(kept, [pos_min |-> lo, pos_max |-> hi,
                                                      n_tokens |-> Len(x.tokens) - n_added,
                                                      data |-> mem_state_write(r.mem, s, TRUE)])]
      ELSE r

RemoveRest(r, s) == [r EXCEPT !.mem = mem_seq_rm(@, s, Len(r.slots[s].tokens), -1)]

EndPrompt(r, s) ==
  IF Len(r.slots[s].tokens) < Len(r.slots[s].input) THEN r
  ELSE [r EXCEPT !.slots[s].state = "done", !.slots[s].i_batch = Len(r.batch), !.batch[Len(r.batch)].out = TRUE]

\* n: the length of the batch before this slot
CheckpointPrompt(r, s, n) == MakeCheckpoint(EndPrompt(r, s), s, Len(r.batch) - n)

AddPrompt(r, s) ==
  LET MarkFull(x) == [x EXCEPT !.full = Len(x.batch) >= conf.n_batch]
  IN  IF r.full \/ r.slots[s].state \in {"idle", "wait"} THEN r
      ELSE IF r.slots[s].state = "gen" THEN MarkFull(r)
      ELSE MarkFull(CheckpointPrompt(AddPromptTokens(RemoveRest(StartPrompt(r, s), s), s), s, Len(r.batch)))

\* the context shifts and the sampled tokens come before any prompt;
\* draft[s]: how many tokens the draft model proposes
SampledTokens(draft) ==
  FoldLeft(LAMBDA r, s : AddSampled(r, s, draft[s]),
           FoldLeft(ShiftContext,
                    [mem |-> mem, slots |-> slots, batch |-> << >>, n_tok |-> n_tok, full |-> FALSE],
                    InSlotOrder),
           InSlotOrder)

BuildBatch(draft) ==
  /\ Between /\ \E s \in Slots : slots[s].state \notin {"idle", "wait"}
  /\ \E r \in {FoldLeft(AddPrompt, SampledTokens(draft), InSlotOrder)} :
       /\ r.n_tok <= conf.max_tok
       /\ mem' = r.mem /\ slots' = r.slots /\ batch' = r.batch /\ n_tok' = r.n_tok
  /\ done' = 0 /\ n_batch' = conf.n_batch
  /\ UNCHANGED <<pcache, file, bad, conf>>

(***************************************************************************)
(* update_slots: decode the next view of the batch.                        *)
(***************************************************************************)
View == SubSeq(batch, done + 1, Min({Len(batch), done + n_batch}))

\* what a token at position p of slot s should attend to
Expected(s, p, n_swa) ==
  {[id |-> slots[s].tokens[q + 1], pos |-> q, rot |-> q] : q \in {x \in 0 .. p : ~is_masked_swa(n_swa, x, p)}}

SeesItsContext(x) == x.keys = Expected(x.seq, x.pos, x.n_swa) /\ x.n = Cardinality(x.keys)

ActivateChildren(r, s) ==
  FoldLeft(LAMBDA x, d : IF /\ r.slots[s].state = "done" /\ r.slots[s].role = "parent"
                            /\ x.slots[d].state = "wait"
                         THEN copy_state_to(x, s, d, done + Len(View)) ELSE x,
           r, InSlotOrder)

\* a slot whose token is in this view samples from the logits at i_batch - i;
\* stop: the slots that then reach a stop condition
Sample(r, s, stop) ==
  LET i == r.slots[s].i_batch
      x == [r EXCEPT !.slots[s].state = "gen", !.slots[s].i_batch = 0,
                     !.bad = IF r.logits[i - done] = Last(r.slots[s].tokens) THEN @ ELSE @ \union {"logits"}]
  IN  IF i \notin done + 1 .. done + Len(View) \/ r.slots[s].state \notin {"done", "gen"} THEN r
      ELSE IF s \in stop THEN release(x, s) ELSE x

\* the draft of every generating slot is compared with what is sampled at the
\* batch indices i_batch_dft; acc of its tokens are kept
\* Mutant: the rejected tokens stay in the memory.
AcceptDraft_leaves(r, s, stop, acc) ==
  LET x == r.slots[s]
      n == Len(x.tokens) - (Len(x.dft) - 1) + Min({acc, Len(x.dft) - 1})
      y == [r EXCEPT !.slots[s].tokens = Prefix(@, n), !.slots[s].dft = << >>]
  IN  IF x.state # "gen" \/ x.dft = << >> THEN r
      ELSE IF s \in stop THEN release(y, s) ELSE y

AcceptDraft(r, s, stop, acc) ==
  LET x    == r.slots[s]
      n    == Len(x.tokens) - (Len(x.dft) - 1) + Min({acc, Len(x.dft) - 1})
      Read(i) == IF i \in DOMAIN r.logits THEN r.logits[i] ELSE 0
      own  == \A j \in DOMAIN x.dft : Read(x.dft[j]) = x.tokens[Len(x.tokens) - Len(x.dft) + j]
      y    == [r EXCEPT !.slots[s].tokens = Prefix(@, n), !.slots[s].dft = << >>,
                        !.mem = mem_seq_rm(@, s, n, -1),
                        !.bad = IF own THEN @ ELSE @ \union {"logits"}]
  IN  IF x.state # "gen" \/ x.dft = << >> THEN r
      ELSE IF s \in stop THEN release(y, s) ELSE y

AfterDecode(d, stop, acc) ==
  FoldLeft(LAMBDA r, s : AcceptDraft(r, s, stop, acc[s]),
    FoldLeft(LAMBDA r, s : Sample(r, s, stop),
      FoldLeft(ActivateChildren,
               [mem |-> d.mem, slots |-> slots, logits |-> d.logits,
                bad |-> IF \A x \in d.seen : slots[x.seq].early \/ SeesItsContext(x) THEN {} ELSE {"attention"}],
               InSlotOrder), InSlotOrder), InSlotOrder)

DecodeOK(d, stop, acc) ==
  /\ d.ret = 0
  /\ \E r \in {AfterDecode(d, stop, acc)} : mem' = r.mem /\ slots' = r.slots /\ bad' = bad \union r.bad
  /\ n_batch' = conf.n_batch
  /\ IF done + Len(View) = Len(batch) THEN batch' = << >> /\ done' = 0
     ELSE UNCHANGED batch /\ done' = done + Len(View)

\* no cells: purge an idle slot of a unified cache, else halve the view
FirstIdle == {s \in Slots : slots[s].state = "idle" /\ slots[s].tokens # << >>}

\* Mutant: the idle slot loses its cells and keeps its prompt.
DecodeRetry_forgets(d) ==
  /\ d.ret = 1 /\ n_batch > 1
  /\ IF conf.unified /\ FirstIdle # {}
     THEN mem' = mem_seq_rm(d.mem, Min(FirstIdle), -1, -1) /\ n_batch' = n_batch
     ELSE mem' = d.mem /\ n_batch' = n_batch \div 2
  /\ UNCHANGED <<slots, batch, done, bad>>

DecodeRetry(d) ==
  LET r == [mem |-> d.mem, slots |-> slots]
      x == prompt_clear(r, Min(FirstIdle))
  IN  /\ d.ret = 1 /\ n_batch > 1
      /\ IF conf.unified /\ FirstIdle # {}
         THEN mem' = x.mem /\ slots' = x.slots /\ n_batch' = n_batch
         ELSE mem' = d.mem /\ slots' = slots /\ n_batch' = n_batch \div 2
      /\ UNCHANGED <<batch, done, bad>>

\* any other error ends the iteration: all running slots fail and are cleared
DecodeError(d) ==
  LET Fail(r, s) == IF r.slots[s].state = "idle" THEN r ELSE prompt_clear(release(r, s), s)
      x == FoldLeft(Fail, [mem |-> d.mem, slots |-> slots], InSlotOrder)
  IN  /\ d.ret < 0 \/ (d.ret = 1 /\ n_batch = 1)
      /\ mem' = x.mem /\ slots' = x.slots
      /\ batch' = << >> /\ done' = 0 /\ n_batch' = conf.n_batch
      /\ UNCHANGED bad

\* a number of tokens for each slot of S, none for the others
Drafts(S) == {f \in [Slots -> 0 .. conf.n_draft] : \A s \in Slots \ S : f[s] = 0}

Sampling == {s \in Slots : slots[s].state \in {"done", "gen", "wait"}}

\* fault: which ubatch fails (0: none), and whether its rows were written
DecodeView(fault) ==
  /\ ~Between
  /\ \E d \in {decode(mem, View, conf.n_ubatch, fault[1], fault[2])} :
       \/ \E stop \in SUBSET Sampling, acc \in Drafts({s \in Slots : slots[s].dft # << >>}) :
            DecodeOK(d, stop, acc)
       \/ DecodeRetry(d)
       \/ DecodeError(d)
  /\ UNCHANGED <<pcache, file, n_tok, conf>>

Faults == {<<0, FALSE>>} \union ((1 .. conf.n_fail) \X BOOLEAN)

\* only a slot picked as the least recently used, or too unlike the prompt,
\* goes through the prompt cache
CacheUse == {FALSE, conf.n_cache > 0}

Next ==
  \/ \E s \in Slots : \E input \in Prompts(s), cached \in CacheUse : Assign(s, input, cached)
  \/ \E s, d \in Slots : \E input \in Prompts(s), cached \in CacheUse : AssignPair(s, d, input, cached)
  \/ \E s \in Slots : Cancel(s)
  \/ \E s \in Slots : Erase(s)
  \/ \E s \in Slots : Save(s)
  \/ \E s \in Slots : Restore(s)
  \/ \E draft \in Drafts({s \in Slots : slots[s].state = "gen"}) : BuildBatch(draft)
  \/ \E fault \in Faults : DecodeView(fault)

Spec == Init /\ [][Next]_vars

(***************************************************************************)
(* Properties                                                              *)
(***************************************************************************)
\* what the memory holds of sequence s once pending copies and shifts are done
Held(k, s) ==
  LET u  == update(k)
      st == seq_to_stream(k, s)
  IN  [i \in {j \in Cells(u.cells[st]) : s \in u.cells[st].seq[j]} |->
        [id |-> u.rows[st][i].id, pos |-> u.cells[st].pos[i], rot |-> u.rows[st][i].rot]]

\* The indexes every answer about a sequence is read from (used, seq_pos) agree
\* with the cells in every stream of every cache: no sequence of placements,
\* roll-backs, shifts, copies and failures leaves one of them behind.
IndexesAgree == \A c \in DOMAIN mem : \A st \in Streams(mem[c]) : CellsOK(mem[c].cells[st])

\* Between two iterations the full-attention memory of a slot is exactly its
\* prompt.tokens: every token once, at its place, with a key rotated to its place.
\* The exception is a child activated while part of its parent's prompt was still
\* to be decoded, and only until it is released.
MemoryIsPrompt ==
  Between => \A s \in {x \in Slots : ~slots[x].early} :
    LET h == Held(mem[1], s)
    IN  /\ Range(h) = Expected(s, Len(slots[s].tokens) - 1, 0)
        /\ Cardinality(DOMAIN h) = Len(slots[s].tokens)

\* Between two iterations the sliding-window memory of a slot holds nothing but
\* tokens of its prompt and all of those the next token will look back at; a child
\* activated early is excepted as in MemoryIsPrompt.
WindowIsPrompt ==
  Between => \A s \in {x \in Slots : ~slots[x].early} :
    LET h == Held(Last(mem), s)
        n == Len(slots[s].tokens)
    IN  /\ Range(h) \subseteq Expected(s, n - 1, 0)
        /\ Cardinality(Range(h)) = Cardinality(DOMAIN h)
        /\ \A x \in Expected(s, n - 1, 0) : is_masked_swa(Last(mem).n_swa, x.pos, n) \/ x \in Range(h)

\* Every token of every ubatch attended to exactly the tokens of its own
\* sequence at and before its position (in its window), each one once; the tokens
\* of a child activated early are excepted as in MemoryIsPrompt.
AttentionExact == "attention" \notin bad

\* No child is activated early.  This is refuted, with the configuration MCFewCells:
\* a refused decode halves the view.
NoneEarly == \A s \in Slots : ~slots[s].early

\* A slot samples from the logits of its own last token, or its own draft.
LogitsAreOwn == "logits" \notin bad

\* A decode that finds no cells leaves what the memory holds of a sequence alone.
RefusalRestores ==
  [][n_batch' < n_batch => \A c \in DOMAIN mem, s \in Slots : Range(Held(mem[c], s))' = Range(Held(mem[c], s))]_vars

\* The loop that decodes a batch ends: a pass that does not end it decodes a
\* token, or purges one more idle slot, or halves the view, whatever fails.
DecodeProgress ==
  [][~Between => \/ Between'
                 \/ done' > done
                 \/ FirstIdle' \subseteq FirstIdle /\ (FirstIdle' # FirstIdle \/ n_batch' < n_batch)]_vars
=============================================================================
