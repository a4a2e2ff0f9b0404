--------------------------- MODULE MCEpochJournal ---------------------------
(* Sizes of the data files: the second window is twice as large.           *)
EXTENDS EpochJournal

TwoSizes == [w \in Windows |-> IF w = 2 THEN 2 ELSE 1]
=============================================================================
