---------------------------- MODULE MCAsyncCfire ----------------------------
(* AsyncCfire for TLC: two completions of the same prompt, and a stream.    *)
EXTENDS AsyncCfire, TLC

CONSTANTS t1, t2, s1, k1, k2

MCKeyOf == (t1 :> k1) @@ (t2 :> k1) @@ (s1 :> k1)
=============================================================================
