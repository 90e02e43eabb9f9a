----------------------------- MODULE MCMemPool -----------------------------
(* An instance of MemPool for TLC: three types of two sizes, not in order.   *)
(* Addresses are only compared, so they may be permuted.                     *)
EXTENDS MemPool, TLC

MCTypeSizes == <<2, 1, 2>>
Addresses   == Permutations(Block)

(* PoolBuilder, evaluated for these types. *)
ASSUME BuilderAssumption == StaticAsserts /\ SizesKept
=============================================================================
