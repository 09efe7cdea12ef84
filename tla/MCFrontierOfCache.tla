-------------------------- MODULE MCFrontierOfCache --------------------------
(***************************************************************************)
(* Finite instance of FrontierOfCache: the experts of MCByteCache.         *)
(***************************************************************************)
EXTENDS FrontierOfCache

MCExperts == 1 .. 4

MCSize == <<1, 2, 3, 1>>

=============================================================================
