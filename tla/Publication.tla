---------------------------- MODULE Publication ----------------------------
(***************************************************************************)
(* The abstract promise of a directory that is published: a reader that    *)
(* validates it finds nothing, and from some moment on always the same     *)
(* contents.                                                               *)
(***************************************************************************)
CONSTANT Nothing

VARIABLE shown

Init == shown = Nothing

Publish ==
    /\ shown = Nothing
    /\ shown' # Nothing

Spec == Init /\ [][Publish]_shown
=============================================================================
