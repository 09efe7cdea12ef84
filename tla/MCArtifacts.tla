---------------------------- MODULE MCArtifacts ----------------------------
(***************************************************************************)
(* Two parents with two repetitions of two prompts and a deadline of one;  *)
(* two corpora, revisions and collections of two prompts; two writers of a *)
(* bundle.                                                                 *)
(***************************************************************************)
EXTENDS Artifacts

\* routings 1 and 2 agree on the prefix that V0.2 recorded, 3 does not
Prefixes == <<1, 1, 2>>

RequiredArtifacts == <<"config", "environment", "report_json", "report_markdown">>

SourceTraces == {[kind |-> "trace", version |-> v] : v \in 1..2}
=============================================================================
