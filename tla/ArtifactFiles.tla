--------------------------- MODULE ArtifactFiles ---------------------------
(***************************************************************************)
(* Files as the artifact producers of the laboratory see them.  A file is  *)
(* opened, which truncates it, and then written; a process that is killed  *)
(* in between leaves it torn.  A SHA-256 digest is modelled by the         *)
(* contents it stands for.                                                 *)
(***************************************************************************)
EXTENDS Naturals, Sequences

NoFile == [kind |-> "absent"]
Torn == [kind |-> "torn"]
NoDirectory == [kind |-> "no directory"]

IsComplete(file) == file.kind \notin {"absent", "torn"}

(***************************************************************************)
(* Two steps of a write: whatever was there before becomes torn, and what  *)
(* is torn is completed.                                                   *)
(***************************************************************************)
Written(file, contents) == IF file = Torn THEN contents ELSE Torn
=============================================================================
