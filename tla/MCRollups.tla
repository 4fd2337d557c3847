----------------------------- MODULE MCRollups -----------------------------
EXTENDS Rollups, TLC

CONSTANTS m1, m2, m3, s1, s2, opus

Used(input, output, write, search) ==
  ("input" :> input) @@ ("output" :> output) @@ ("cache_write" :> write) @@ ("web_search" :> search)

(* Two Turns of one Session, on either side of a midnight in one timezone and   *)
(* in one row in the other, and one of another Session at the second's instant,  *)
(* with a cache write its split leaves out.                                      *)
MCReported ==
  m1 :> [session |-> s1, at |-> 1, id |-> 1, model |-> opus, multiplier |-> 2,
         usage |-> Used(1, 2, 0, 1), total |-> 0]
  @@ m2 :> [session |-> s1, at |-> 2, id |-> 2, model |-> opus, multiplier |-> 2,
            usage |-> Used(3, 1, 0, 1), total |-> 0]
  @@ m3 :> [session |-> s2, at |-> 2, id |-> 3, model |-> opus, multiplier |-> 1,
            usage |-> Used(1, 0, 1, 0), total |-> 2]

Row(rank, model, class, from, usd) ==
  [rank |-> rank, model |-> model, class |-> class, from |-> from, usd |-> usd]
(* Nothing entered; a Rate for input alone; output and searches priced from   *)
(* the second day, and a newer Rate for any model, which the model's own still   *)
(* beats; and an Org's override of both.                                        *)
MCRateLists ==
  LET input == {Row(2, opus, "input", 0, 3), Row(2, NoModel, "input", 1, 5)}
      output == {Row(2, opus, "output", 1, 7), Row(2, NoModel, "web_search", 1, 10)}
  IN {{}, input, input \cup output,
      input \cup output \cup {Row(1, NoModel, "input", 1, 2), Row(2, NoModel, "cache_write", 0, 4)}}

Interchangeable == Permutations(Txs) \cup Permutations(Devices)
=============================================================================
