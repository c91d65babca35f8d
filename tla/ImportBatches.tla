--------------------------- MODULE ImportBatches ---------------------------
(* What the imports of mrmkt share: the slicing of a selection of symbols. *)
EXTENDS Naturals, Sequences

\* range(0, total, batch_size) over the selected symbols, a slice per offset.
Batches(symbols, size) ==
    [i \in 1..((Len(symbols) + size - 1) \div size) |->
        SubSeq(symbols, (i - 1) * size + 1,
               IF i * size > Len(symbols) THEN Len(symbols) ELSE i * size)]
=============================================================================
