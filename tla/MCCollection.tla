---------------------------- MODULE MCCollection ----------------------------
(***************************************************************************)
(* A Granite model with two routed layers and a Switch model with a sparse *)
(* encoder layer and two sparse decoder layers; prompts of one and two     *)
(* tokens; a horizon of two.  Token 1 is EOS.  The four continuations meet *)
(* it at once, before the horizon, at the horizon, and not at all.         *)
(***************************************************************************)
EXTENDS Collection

TwoPrompts == <<<<5>>, <<6, 5>>>>

FourContinuations == {<<1, 2, 3>>, <<2, 1, 3>>, <<2, 3, 1>>, <<2, 3, 4>>}

TwoContinuations == {<<2, 1, 3>>, <<2, 3, 4>>}

CalibrationPrompts == <<1>>
EvaluationPrompts == <<2, 1>>

\* two of three experts on a Granite layer; one on a Switch layer, and none
\* for token 6 in the encoder, which is over its capacity there
Routing(site, token) ==
    CASE site.stage = "model" -> {(token + site.layer) % 3, (token + site.layer + 1) % 3}
      [] site.stage = "encoder" /\ token = 6 -> {}
      [] OTHER -> {(token + site.layer) % 3}

SparseStages == [stage \in {"encoder", "decoder"} |->
                    IF stage = "encoder" THEN <<1>> ELSE <<1, 3>>]

\* what the Stage 1 repetition recorded, if the model computed <<2, 1, 3>>
TrustedOutcomes ==
    [prompt \in DOMAIN TwoPrompts |->
        [input |-> TwoPrompts[prompt], fed |-> <<2>>, terminal |-> 1, position |-> 1,
         eosEmitted |-> TRUE, horizonExhausted |-> FALSE,
         events |-> WholeRun(prompt, <<2>>)]]
=============================================================================
