----------------------------- MODULE MCByteCache -----------------------------
(***************************************************************************)
(* Finite instances of ByteCache: four experts, two of the same size so    *)
(* that the key decides, one that only fits when two others leave.         *)
(***************************************************************************)
EXTENDS ByteCache

MCExperts == 1 .. 4

\* Rank 3 is the largest, and 1 and 4 together take its place.
MCSize == <<1, 2, 3, 1>>

=============================================================================
