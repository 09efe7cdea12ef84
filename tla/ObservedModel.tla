--------------------------- MODULE ObservedModel ---------------------------
(***************************************************************************)
(* A loaded model as the collectors see it: PyTorch hooks that are         *)
(* registered on its modules, the hooks' captures, and the greedy          *)
(* continuation of a prompt.  The model outlives a collection, and so does *)
(* every hook that is not removed.                                         *)
(*                                                                         *)
(* A hook belongs to the capture that registered it and writes into that   *)
(* capture only.  The store of the current capture is all that is kept:    *)
(* nobody reads the store of an earlier one.                               *)
(***************************************************************************)
EXTENDS Naturals, Sequences, FiniteSets

CONSTANTS
    Prompts,             \* the token sequences of the prompts
    Continuations,       \* what the model may generate, candidate by candidate
    EosTokens,
    Horizon,             \* STAGE1_MAX_DECODE_INPUT_STEPS
    NumExperts,
    ExpertsPerToken,
    Selected(_, _),      \* experts that a router selects for a token
    MaxUses,             \* bound of the number of collections
    MaxFailing           \* bound of the removals that fail in one cleanup

\* Prompts have tokens, the number of experts is positive (trace.py:114-115,
\* switch_collector.py:144), and no continuation ends before the horizon.
ASSUME ModelAssumption ==
    /\ \A p \in DOMAIN Prompts : Prompts[p] \in Seq(Nat) /\ Prompts[p] # <<>>
    /\ Horizon \in Nat \ {0}
    /\ \A c \in Continuations : c \in Seq(Nat) /\ Len(c) = Horizon + 1
    /\ EosTokens \subseteq Nat
    /\ NumExperts \in Nat \ {0}
    /\ MaxUses \in Nat /\ MaxFailing \in Nat

VARIABLES
    greedy,    \* the continuation
    hooked,    \* hooks on the modules of the model
    handles,   \* hooks the current capture will remove
    store,     \* observations in the current capture
    capture,   \* number of captures made so far
    stuck,     \* history: hooks whose own removal has failed
    dropped,   \* history: hooks whose handles were dropped by a dispatch check
    uses       \* outcomes of the collections so far

modelVars == <<greedy, hooked, handles, store, capture, stuck, dropped, uses>>
hookVars == <<hooked, handles, store, capture, stuck, dropped>>

\* what the model may be given
Tokens ==
    UNION {{s[i] : i \in DOMAIN s} : s \in Continuations \cup {Prompts[p] : p \in DOMAIN Prompts}}

Site(stage, layer) == [stage |-> stage, layer |-> layer]

Hook(kind, site) == [kind |-> kind, site |-> site, capture |-> capture]

ModelInit ==
    /\ greedy \in Continuations
    /\ hooked = {}
    /\ handles = {}
    /\ store = <<>>
    /\ capture = 0
    /\ stuck = {}
    /\ dropped = {}
    /\ uses = <<>>

-----------------------------------------------------------------------------
\* a capture is created with an empty store
NewCapture ==
    /\ capture' = capture + 1
    /\ store' = <<>>

\* register_forward_hook and register_forward_pre_hook
Register(kind, site) ==
    /\ hooked' = hooked \cup {Hook(kind, site)}
    /\ handles' = handles \cup {Hook(kind, site)}

\* which of the hooks may not come off
MayFail(hooks) == {failing \in SUBSET hooks : Cardinality(failing) <= MaxFailing}

(***************************************************************************)
(* Every handle is removed, although the removal of some may fail; what    *)
(* has been captured is discarded.                                         *)
(***************************************************************************)
RemoveHandles(failing) ==
    /\ hooked' = hooked \ (handles \ failing)
    /\ stuck' = stuck \cup failing
    /\ handles' = {}
    /\ store' = <<>>

\* the k-th of a set of positions
Nth(positions, k) == CHOOSE i \in positions : Cardinality(positions \cap 1..i) = k

(***************************************************************************)
(* What a forward call adds to the store: each module it reaches, in the   *)
(* order of the call, fires its hooks.                                     *)
(***************************************************************************)
Observations(sites, TokensAt(_)) ==
    LET hits == {i \in DOMAIN sites : Hook("router", sites[i]) \in hooked}
        hit(k) == sites[Nth(hits, k)]
    IN  [k \in 1..Cardinality(hits) |-> [site |-> hit(k), tokens |-> TokensAt(hit(k))]]

\* a table with so many rows and columns, row by row
RowByRow(rows, columns, Entry(_, _)) ==
    [k \in 1..rows * columns |-> Entry(((k - 1) \div columns) + 1, ((k - 1) % columns) + 1)]

Record(outcome) == uses' = Append(uses, outcome)

Raised == [kind |-> "raised"]
Rejected == [kind |-> "rejected"]
=============================================================================
