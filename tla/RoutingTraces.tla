--------------------------- MODULE RoutingTraces ---------------------------
(***************************************************************************)
(* The canonical routing traces, formats 1 and 2 (trace.py, trace_v2.py):  *)
(* what their constructors and readers accept, and the completeness that   *)
(* the corpus workflow and Stage 1 demand on top of it.                    *)
(*                                                                         *)
(* An event of format 1 has a phase ("prompt", "generated"), a position, a *)
(* layer, a token and a set of experts.  An event of format 2 also has a   *)
(* stage; its set of experts is empty if the token was left unassigned for *)
(* want of capacity.  Probabilities and the shape of JSON records are left *)
(* out: the order of events and their identities are what can go wrong.    *)
(***************************************************************************)
EXTENDS Naturals, Sequences, FiniteSets

Before(a, b) == a[1] < b[1] \/ (a[1] = b[1] /\ a[2] < b[2])

LayerMajor(event) == <<event.layer, event.position>>
TokenMajor(event) == <<event.position, event.layer>>

\* order == sorted(order), for the events of a phase and keys that are pairs
Ascending(events, phase, Key(_)) ==
    \A i, j \in DOMAIN events :
        (i < j /\ events[i].phase = phase /\ events[j].phase = phase) =>
            ~ Before(Key(events[j]), Key(events[i]))

InPhase(events, phase) == SelectSeq(events, LAMBDA event : event.phase = phase)

Positions(events, phase) ==
    {events[i].position : i \in {j \in DOMAIN events : events[j].phase = phase}}

Layers(events) == {events[i].layer : i \in DOMAIN events}

AllBefore(positions, others) == \A p \in positions, q \in others : p < q

\* no event of the one kind follows an event of the other kind
NeverFollows(events, Late(_), Early(_)) ==
    \A i, j \in DOMAIN events : i < j => ~ (Late(events[i]) /\ Early(events[j]))

StreamsIncrease(events, Stream(_)) ==
    \A i, j \in DOMAIN events :
        (i < j /\ Stream(events[i]) = Stream(events[j])) =>
            events[i].position < events[j].position

DistinctEvents(events, Identity(_)) ==
    \A i, j \in DOMAIN events : i # j => Identity(events[i]) # Identity(events[j])

-----------------------------------------------------------------------------
\* RoutingEvent
IsEvent(event) ==
    /\ event.phase \in {"prompt", "generated"}
    /\ event.position \in Nat /\ event.layer \in Nat /\ event.token \in Nat
    /\ event.experts # {}

(***************************************************************************)
(* RoutingTrace: prompt events in layer-major order, then generated events *)
(* in token-major order at later positions.                                *)
(***************************************************************************)
IsTraceV1(events, numExperts, expertsPerToken) ==
    /\ events # <<>>
    /\ \A i \in DOMAIN events :
          /\ IsEvent(events[i])
          /\ events[i].experts \subseteq 0..numExperts - 1
          /\ Cardinality(events[i].experts) = expertsPerToken
    /\ DistinctEvents(events, LAMBDA event : <<event.position, event.layer>>)
    /\ NeverFollows(events, LAMBDA event : event.phase = "generated",
                            LAMBDA event : event.phase = "prompt")
    /\ StreamsIncrease(events, LAMBDA event : <<event.phase, event.layer>>)
    /\ AllBefore(Positions(events, "prompt"), Positions(events, "generated"))
    /\ Ascending(events, "prompt", LayerMajor)
    /\ Ascending(events, "generated", TokenMajor)

-----------------------------------------------------------------------------
PhasesOf(stage) ==
    IF stage = "encoder" THEN {"source"} ELSE {"decoder_prompt", "decoder_generated"}

\* RoutingEventV2
IsEventV2(event) ==
    /\ event.stage \in {"encoder", "decoder"}
    /\ event.phase \in PhasesOf(event.stage)
    /\ event.position \in Nat /\ event.layer \in Nat /\ event.token \in Nat

Admits(profile, event) ==
    /\ event.experts \subseteq 0..profile.numExperts - 1
    /\ IF event.experts = {} THEN profile.allowsUnassigned
                             ELSE Cardinality(event.experts) = profile.perToken

(***************************************************************************)
(* RoutingTraceV2, for profiles given as a function of the stages: encoder *)
(* events precede decoder events, and those of the decoder prompt precede  *)
(* the generated ones.                                                     *)
(***************************************************************************)
IsTraceV2(events, profiles) ==
    /\ events # <<>>
    /\ \A i \in DOMAIN events :
          /\ IsEventV2(events[i])
          /\ events[i].stage \in DOMAIN profiles
          /\ Admits(profiles[events[i].stage], events[i])
    /\ DistinctEvents(events, LAMBDA event : <<event.stage, event.position, event.layer>>)
    /\ NeverFollows(events, LAMBDA event : event.stage = "decoder",
                            LAMBDA event : event.stage = "encoder")
    /\ NeverFollows(events, LAMBDA event : event.phase = "decoder_generated",
                            LAMBDA event : event.phase = "decoder_prompt")
    /\ StreamsIncrease(events, LAMBDA event : <<event.stage, event.phase, event.layer>>)
    /\ Ascending(events, "source", LayerMajor)
    /\ Ascending(events, "decoder_prompt", LayerMajor)
    /\ Ascending(events, "decoder_generated", TokenMajor)
    /\ AllBefore(Positions(events, "decoder_prompt"), Positions(events, "decoder_generated"))

-----------------------------------------------------------------------------
(***************************************************************************)
(* Positions are contiguous, generated ones begin at the end of the prompt *)
(* and there are as many as steps, and every position has every layer.     *)
(***************************************************************************)
IsWhole(events, steps) ==
    LET prompt == Positions(events, "prompt")
        length == Cardinality(prompt)
    IN  /\ prompt # {}
        /\ prompt = 0..length - 1
        /\ Positions(events, "generated") =
              {length + step : step \in 0..steps - 1}
        /\ \A i \in DOMAIN events, layer \in Layers(events) :
              \E j \in DOMAIN events :
                  /\ events[j].layer = layer
                  /\ events[j].position = events[i].position
                  /\ events[j].phase = events[i].phase

\* the layers agree about the token, and generated tokens are those fed
TokensMatch(events, fed) ==
    LET length == Cardinality(Positions(events, "prompt"))
    IN  \A i \in DOMAIN events :
            /\ \A j \in DOMAIN events :
                  events[i].position = events[j].position =>
                      events[i].token = events[j].token
            /\ events[i].phase = "generated" =>
                  events[i].token = fed[events[i].position - length + 1]
=============================================================================
