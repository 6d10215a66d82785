----------------------------- MODULE MCPipeline -----------------------------
(* Two runs at once, that build a binary or only save the IR; or one that reads the
   profile of a game with two dumps.  Addresses have three digits of two values; a line
   has four bytes and a chunk five, so that chunks end anywhere in a line, as they do with
   five bytes in a line and 4096 in a chunk. *)
EXTENDS Pipeline, TLC

Options(profile, onlyIR, saveIR) == [profile |-> profile, onlyIR |-> onlyIR, saveIR |-> saveIR]
Full == Options(FALSE, FALSE, TRUE)
const_SCENARIOS ==
    {[options |-> (1 :> Full @@ 2 :> other), dumps |-> 0] : other \in {Full, Options(FALSE, TRUE, FALSE)}}
    \cup {[options |-> (1 :> Options(TRUE, FALSE, FALSE)), dumps |-> 2]}
const_NAMES == 1..4
const_RECORDED == {1, 2, 4, 6}
==============================================================================
