----------------------------- MODULE MCKVCache -----------------------------
(* Instances of KVCache for TLC. *)
EXTENDS KVCacheProps, TLC

MinusOne == {-1}

\* Every range, the open ones included.
AllRanges == (-1 .. MaxPos) \X (-1 .. MaxPos)

\* One position at a time.
SinglePositions == {<<p, p + 1>> : p \in 0 .. MaxPos}
=============================================================================
