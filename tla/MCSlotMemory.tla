---------------------------- MODULE MCSlotMemory ----------------------------
EXTENDS SlotMemory

Plain == [n_parallel |-> 2, unified |-> TRUE, n_swa |-> 0, size |-> 5, size_swa |-> 0, n_ctx |-> 5,
          n_batch |-> 3, n_ubatch |-> 2, ctx_shift |-> FALSE, n_keep |-> 1, n_reuse |-> 0, n_draft |-> 0, n_min |-> 0,
          pairs |-> FALSE, n_cache |-> 0, save |-> {}, n_ckpt |-> 0, n_fail |-> 0, max_tok |-> 4, max_new |-> 2]

WithShift == [Plain EXCEPT !.ctx_shift = TRUE, !.n_reuse = 1, !.n_ctx = 4, !.size = 4]
WithKeep == [Plain EXCEPT !.n_parallel = 1, !.ctx_shift = TRUE, !.n_reuse = 1, !.max_tok = 6]
WithPairs == [Plain EXCEPT !.pairs = TRUE, !.n_ctx = 4, !.size = 4, !.n_ubatch = 1]
\* an idle slot's two tokens leave no room for a pair's prompt
WithFewCells == [Plain EXCEPT !.pairs = TRUE, !.n_ctx = 3, !.size = 3, !.n_ubatch = 1]
WithFile == [Plain EXCEPT !.save = 1 .. 2, !.n_ctx = 4, !.size = 3, !.max_tok = 3]
WithCache == [Plain EXCEPT !.n_cache = 1, !.n_ctx = 4, !.size = 4, !.n_fail = 1, !.max_tok = 2, !.max_new = 1]
WithDrafts == [Plain EXCEPT !.unified = FALSE, !.n_draft = 1, !.n_min = 1, !.n_batch = 4, !.n_ctx = 4, !.size = 4,
                            !.max_tok = 5, !.max_new = 1]
WithStreams == [Plain EXCEPT !.unified = FALSE, !.pairs = TRUE, !.n_ctx = 4, !.size = 4, !.max_tok = 3]
WithSwa == [Plain EXCEPT !.n_parallel = 1, !.n_swa = 2, !.size = 6, !.size_swa = 3, !.n_ctx = 6, !.n_ubatch = 1,
                         !.n_ckpt = 1, !.n_fail = 1, !.max_tok = 6, !.max_new = 4]

\* every passing configuration in one run
MCConfigs == {WithShift, WithKeep, WithPairs, WithFewCells, WithFile, WithCache, WithDrafts, WithStreams, WithSwa}

\* Configurations in which a property fails: MCCkpt, MCSwaU and MCPairCache have a
\* cfg of their own, the others may be put in the place of MCPairCache there.
\* one slot, a window, checkpoints
MCCkpt == {[WithSwa EXCEPT !.n_ckpt = 2, !.n_fail = 0, !.max_tok = 7]}
\* two slots share a cache with a window
MCSwaU == {[Plain EXCEPT !.n_swa = 2, !.size_swa = 5, !.size = 6, !.max_tok = 5]}
\* two choices share cells, chunks of the old prompt are shifted
MCPairReuse == {[Plain EXCEPT !.pairs = TRUE, !.n_reuse = 1]}
\* two choices in streams of their own, prompts are saved and loaded
MCPairCache == {[Plain EXCEPT !.unified = FALSE, !.pairs = TRUE, !.n_cache = 1]}
\* a pair's prompt does not fit beside what an idle slot holds
MCFewCells == {WithFewCells}
\* an empty slot is saved, and the file read into a slot that is not
MCEmptyFile == {[WithFile EXCEPT !.save = 0 .. 2]}
\* the drafts of two slots do not fit in n_batch
MCDraft == {[Plain EXCEPT !.n_draft = 1, !.max_tok = 6, !.max_new = 1]}
=============================================================================
