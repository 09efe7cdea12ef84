-------------------------- MODULE MCCopyValidation --------------------------
(***************************************************************************)
(* Finite instance of CopyValidation: four experts of two components and   *)
(* two bytes each, two slots.                                              *)
(***************************************************************************)
EXTENDS CopyValidation

MCExperts == 1 .. 4

MCSize == <<2, 2, 2, 2>>

=============================================================================
