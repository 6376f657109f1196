--------------------------- MODULE MCLlamaServer ---------------------------
(***************************************************************************)
(* Instances of LlamaServer for TLC.  Tasks are named for what they do,    *)
(* and a request for its (first) task.                                     *)
(***************************************************************************)
EXTENDS LlamaServer

MCType == [t \in Task |->
    CASE t = "emb"              -> "EMBEDDING"
      [] t = "save"             -> "SLOT_ACTION"
      [] t = "query"            -> "METRICS"
      [] OTHER                  -> "COMPLETION"]

(* "pin2" asks for slot 2, which wraps around. *)
MCSlot == [t \in Task |-> IF t = "pin2" THEN 2 ELSE -1]

MCAction == [t \in Task |-> 0]

MCChildren == [t \in Task |->
    CASE t = "par"  -> <<"kid">>
      [] t = "par3" -> <<"kid3">>
      [] t = "long" -> <<"longkid">>
      [] OTHER      -> <<>>]

MCTokens == [t \in Task |->
    CASE t \in {"long", "longkid", "huge1", "huge2", "huge3", "huge4"} -> NCtx
      [] t = "empty"                  -> 0
      [] t \in {"par", "kid", "emb"}  -> 2
      [] t \in {"par3", "kid3"}       -> 3
      [] OTHER                        -> 1]

MCLora == [t \in Task |-> IF t \in {"tuned", "pin2"} THEN "adapter" ELSE "base"]

(* Request "a" posts two prompts, all others one. *)
MCTasks == [r \in Reader |->
    IF r = "a" THEN <<"a", "empty">> ELSE <<r>>]
=============================================================================
