----------------------------- MODULE RecencyCache -----------------------------
(***************************************************************************)
(* What an event-atomic LRU byte cache promises, with no cache in it: an   *)
(* access hits exactly the required experts that lie in the longest prefix *)
(* of the recency stack that fits the capacity.  Nothing is loaded,        *)
(* evicted or pinned here, and the outcome depends only on the order of    *)
(* the events.  ByteCache under the LRU policy, and the copy executor,     *)
(* implement it.                                                           *)
(***************************************************************************)
EXTENDS ExpertBytes

CONSTANTS
  Capacity,        \* capacity in bytes
  StartsCold       \* TRUE if every workload starts from an empty cache

VARIABLES
  last,    \* last[k]: number of the latest event that required expert k
  events,  \* number of events that required anything, in this cache's life
  hits,    \* requests that hit, over all workloads
  misses   \* requests that missed, over all workloads

recencyVars == <<last, events, hits, misses>>

Init ==
  /\ last = [k \in Experts |-> 0]
  /\ events = 0
  /\ hits = 0
  /\ misses = 0

(***************************************************************************)
(* One event: every required expert is looked up in the recency stack as   *)
(* it was before the event, then all of them move to its top together.     *)
(***************************************************************************)
Access(required) ==
  /\ required # {}
  /\ Bytes(required) <= Capacity
  /\ events' = events + 1
  /\ last' = [k \in Experts |-> IF k \in required THEN events + 1 ELSE last[k]]
  /\ hits' = hits + Cardinality(required \cap Fitting(last, Capacity))
  /\ misses' = misses + Cardinality(required \ Fitting(last, Capacity))

\* A workload boundary: a cold lifecycle forgets the recency stack.
Restart ==
  /\ StartsCold
  /\ last' = [k \in Experts |-> 0]
  /\ events' = 0
  /\ UNCHANGED <<hits, misses>>

Next == Restart \/ \E required \in SUBSET Experts : Access(required)

Spec == Init /\ [][Next]_recencyVars

=============================================================================
