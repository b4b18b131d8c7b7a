--------------------------- MODULE MCSeqlockRing ---------------------------
(* SeqlockRing with concrete readers and words for TLC. *)
EXTENDS SeqlockRing

MCReaders == {"brain"}
MCFields == {"q", "t_ns"}
=============================================================================
