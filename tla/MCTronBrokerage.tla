-------------------------- MODULE MCTronBrokerage --------------------------
(***************************************************************************)
(* A small instance of TronBrokerage for TLC: three Super Representatives, *)
(* two concurrent calls.  The pages are one longer than the concurrency    *)
(* limit, one that overlaps it in another order, and an empty one.         *)
(***************************************************************************)
EXTENDS TronBrokerage

CONSTANTS s1, s2, s3

MCSR == {s1, s2, s3}
MCPages == {<<s1, s2, s3>>, <<s3, s1>>, <<>>}
=============================================================================
