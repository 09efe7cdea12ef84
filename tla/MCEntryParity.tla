---------------------------- MODULE MCEntryParity ----------------------------
(***************************************************************************)
(* Finite instance of EntryParity: four experts of one byte, three of them *)
(* in the same layer so that bundles can mix targets and others.           *)
(***************************************************************************)
EXTENDS EntryParity

MCExperts == 1 .. 4

MCSize == [k \in MCExperts |-> 1]

MCLayer == <<0, 0, 0, 1>>

=============================================================================
