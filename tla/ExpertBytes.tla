----------------------------- MODULE ExpertBytes -----------------------------
(***************************************************************************)
(* Byte accounting and recency order of experts: the sizes map every byte  *)
(* replay validates before it starts, the byte sum of a set of experts,    *)
(* and the order in which an event-atomic LRU cache gives experts up.      *)
(*                                                                         *)
(* An expert is identified by its rank in the sorted order of its key, a   *)
(* (layer, expert) pair in format 1 and a (stage, layer, expert) triple in *)
(* format 2: the code uses a key only to compare it and to look it up.     *)
(***************************************************************************)
EXTENDS Integers, FiniteSets

CONSTANTS
  Experts,  \* the experts a trace may refer to, as ranks of their keys
  Size,     \* Size[k]: bytes of expert k in the validated sizes map
  MaxSize   \* no expert is larger

ASSUME ExpertsAssumption == Experts \subseteq Nat /\ IsFiniteSet(Experts)

\* _validate_expert_sizes_bytes: every size is a positive integer.
ASSUME SizeAssumption == MaxSize \in Nat /\ Size \in [Experts -> 1 .. MaxSize]

-----------------------------------------------------------------------------
(***************************************************************************)
(* An expert of Size[k] bytes fills Size[k] cells; the bytes of a set of   *)
(* experts, sum(expert_sizes_bytes[key] for key in S), are its cells.      *)
(***************************************************************************)
Cells(S) == {c \in S \X (1 .. MaxSize) : c[2] <= Size[c[1]]}

Bytes(S) == Cardinality(Cells(S))

-----------------------------------------------------------------------------
(***************************************************************************)
(* last[k] is the number of the latest event that required k, 0 if none.   *)
(* Experts required by one event share its number, and the key breaks the  *)
(* tie: (last, key) is the victim order of the LRU caches and the priority *)
(* of the capacity frontier.                                               *)
(***************************************************************************)
Older(last, j, k) ==
  \/ last[j] < last[k]
  \/ last[j] = last[k] /\ j < k

Touched(last) == {k \in Experts : last[k] # 0}

\* The recency stack down to and including k.
Stack(last, k) == {j \in Touched(last) : ~ Older(last, j, k)}

\* The longest prefix of the recency stack that fits a capacity.
Fitting(last, capacity) ==
  {k \in Touched(last) : Bytes(Stack(last, k)) <= capacity}

=============================================================================
