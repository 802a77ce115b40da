---------------------------- MODULE MCSlotCache ----------------------------
(* Instances of SlotCache for TLC. *)
EXTENDS SlotCacheProps, TLC

CONSTANTS t1, t2

\* An empty prompt, and two that part after one token, the longer one once it
\* has been truncated.
FewPrompts == {<<>>, <<t1, t2>>, <<t2, t2, t1, t1, t2>>}

\* A prompt of one token and one that takes two ubatches.
ShortAndLong == {<<t1>>, <<t2, t2, t1, t1>>}

NoRanges == {}
=============================================================================
