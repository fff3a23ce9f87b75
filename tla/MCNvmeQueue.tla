---------------------------- MODULE MCNvmeQueue ----------------------------
(* A small instance of NvmeQueue: the DMA buffers are interchangeable.       *)
EXTENDS NvmeQueue, TLC

CONSTANTS d1, d2

MCData == {d1, d2}

(* Short, of exactly split_size, and longer than split_size.                 *)
MCContents == {<<d1>>, <<d2, d1>>, <<d1, d2, d2>>}

(* Where only the flow of control matters, one datum is enough.              *)
MCOneDatum == {d1}
MCLengths == {<<d1>>, <<d1, d1>>, <<d1, d1, d1>>}

Symmetry == Permutations(Buf)
=============================================================================
