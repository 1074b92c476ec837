---------------------------- MODULE MCOrderBook ----------------------------
(* OrderBook on a few orders. *)
EXTENDS OrderBook, TLC

CONSTANTS o1, o2, o3, o4

MCId3 == {o1, o2, o3}
MCId4 == {o1, o2, o3, o4}
Interchangeable == Permutations(MCId4)
=============================================================================
