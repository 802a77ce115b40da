---------------------------- MODULE KVCacheProps ----------------------------
(***************************************************************************)
(* What llama_kv_cache promises its callers.                               *)
(***************************************************************************)
EXTENDS KVCache

(***************************************************************************)
(* A cell has a position exactly when it belongs to a sequence, and used   *)
(* counts those cells.  The searches test the position, defragmentation    *)
(* tests the sequences and takes used for the number of cells to pack, and *)
(* the view logs "used cells mismatch" when they disagree; the count is    *)
(* kept by increments and decrements spread over five functions.           *)
(***************************************************************************)
UsedMatchesCells ==
    /\ \A c \in Cells : cells[c].pos >= 0 <=> ~ IsEmpty(cells[c])
    /\ used = Cardinality(NonEmpty(cells))

(***************************************************************************)
(* When a graph is about to be built or no call is running, the K/V row at *)
(* every populated cell is the row of the token the cell describes.        *)
(* Defragmentation moves the cells first and the rows later, through the   *)
(* map ids, in runs.                                                       *)
(***************************************************************************)
RowsFollowCells ==
    pc \in {"idle", "ubatch", "find"} =>
        \A c \in NonEmpty(cells) : rows[c] = cells[c].tok

\* Attention looks at the first n cells only: no populated cell is beyond.
VisibleToGraph ==
    pc = "compute" => \A c \in NonEmpty(cells) : c < n

\* GGML_ASSERT(nf == nh && "KV defrag bug: nf != nh") never fails.
NoDefragBug == pc = "abort" => has_shift

(***************************************************************************)
(* The copies build_defrag adds, one per run of consecutive moves, are no  *)
(* more than the moves counted against max_moves, which is what the graph  *)
(* has nodes for.                                                          *)
(***************************************************************************)
Moved(i) == df.ids[i] \notin {i, df.nkv}

Runs == {i \in 0 .. df.nkv - 1 :
            Moved(i) /\ ~ (i > 0 /\ Moved(i - 1) /\ df.ids[i] = df.ids[i - 1] + 1)}

CopiesFitTheGraph ==
    pc \in {"move", "copy"} => Cardinality(Runs) <= df.moves /\ df.moves <= MaxMoves

\* How many cells hold token t of sequence s at position p.
Holding(cs, s, p, t) ==
    Cardinality({c \in Cells : s \in cs[c].seq_id /\ cs[c].pos = p /\ cs[c].tok = t})

(***************************************************************************)
(* While llama_decode runs, the contents of the cache change only by the   *)
(* tokens of a ubatch being added: defragmentation neither loses nor       *)
(* duplicates a token of any sequence, and a found slot overwrites nothing.*)
(***************************************************************************)
DecodeOnlyAdds ==
    [][pc # "idle" =>
        \A s \in Seqs, p \in 0 .. MaxPos, t \in Tokens :
            Holding(cells', s, p, t) =
                Holding(cells, s, p, t)
                + IF pc = "find" /\ pc' = "compute"
                  THEN Cardinality({i \in DOMAIN Ubatch :
                           Ubatch[i].pos = p /\ s \in Ubatch[i].seq_id /\ Ubatch[i].tok = t})
                  ELSE 0]_vars

\* Every llama_decode returns (or aborts): no loop of it runs for ever.
DecodeReturns == pc # "idle" ~> pc \in {"idle", "abort"}
=============================================================================
