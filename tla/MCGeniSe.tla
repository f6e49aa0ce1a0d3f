------------------------------ MODULE MCGeniSe ------------------------------
EXTENDS GeniSe

(* Both modes and all directions, more than a FIFO and less, none.            *)
X(tx, rx, dma, len) == [tx |-> tx, rx |-> rx, dma |-> dma, len |-> len]
MCTransfers ==
  {X(TRUE, TRUE, FALSE, 3), X(FALSE, TRUE, FALSE, 1), X(TRUE, TRUE, TRUE, 1),
   X(FALSE, TRUE, TRUE, 1), X(TRUE, FALSE, FALSE, 0)}

(* More to write than a FIFO takes and little to read, and the reverse.       *)
MCPolledLengths == {[tx |-> 3, rx |-> 1], [tx |-> 1, rx |-> 3]}
=============================================================================
