----------------------------- MODULE MC_StrqCq -----------------------------
(***************************************************************************)
(* Model-checking instance of StrqCq: two WQEs of three strides, a cache   *)
(* whose vectors hold two descriptors (CQ_CACHE_MIN_STRIDES is 16 in the   *)
(* code; only the ratio of vector size to strides in flight matters), and *)
(* batches of two.                                                         *)
(***************************************************************************)
EXTENDS StrqCq

CONSTANTS w1, w2

MC_WQES == {w1, w2}

====
