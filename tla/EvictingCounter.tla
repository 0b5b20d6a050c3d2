--------------------------- MODULE EvictingCounter ---------------------------
(***************************************************************************)
(* constrained_collections: a counter of at most m_limit keys.  A new key  *)
(* that finds it full is not counted: it takes one off the count of every  *)
(* key that is, and those that come down to zero leave.                    *)
(*                                                                         *)
(* The application makes two of them, and only asks for their limit.  A    *)
(* count is an int, which overflows after 2^31 - 1 additions of a key.     *)
(***************************************************************************)
EXTENDS Integers, Sequences, FiniteSets

CONSTANTS
  CountedKeys,  \* the keys that may be added
  Limits,       \* the limits a counter may be made with
  MaxAdded      \* bound: how many keys are added before the counter is cleared

ASSUME CountedLimitsAssumption == Limits \subseteq Nat

VARIABLES
  m_limit,
  m_counter,    \* from the keys that are tracked to their counts
  added         \* history: the keys added since the counter was last clear

counterVars == <<m_limit, m_counter, added>>

-----------------------------------------------------------------------------
HasRoom(counter, limit) == Cardinality(DOMAIN counter) < limit

\* Seeded fault: a key whose count comes down to one leaves as well.
FaultyDecremented(counter) ==
  [key \in {k \in DOMAIN counter : counter[k] > 2} |-> counter[key] - 1]

\* decrement_and_remove
Decremented(counter) ==
  [key \in {k \in DOMAIN counter : counter[k] > 1} |-> counter[key] - 1]

Incremented(counter, key) == [counter EXCEPT ![key] = @ + 1]

Inserted(counter, key) ==
  [k \in DOMAIN counter \cup {key} |-> IF k = key THEN 1 ELSE counter[k]]

contains(key) == key \in DOMAIN m_counter

-----------------------------------------------------------------------------
CounterInit ==
  /\ m_limit \in Limits
  /\ m_counter = << >>
  /\ added = << >>

add_or_decrement(key) ==
  /\ Len(added) < MaxAdded
  /\ \/ contains(key) /\ m_counter' = Incremented(m_counter, key)
     \/ /\ ~contains(key) /\ HasRoom(m_counter, m_limit)
        /\ m_counter' = Inserted(m_counter, key)
     \/ /\ ~contains(key) /\ ~HasRoom(m_counter, m_limit)
        /\ m_counter' = Decremented(m_counter)
  /\ added' = Append(added, key)
  /\ UNCHANGED m_limit

\* Also the end of get_items_and_clear, which returns m_counter as it was.
clear ==
  /\ m_counter' = << >>
  /\ added' = << >>
  /\ UNCHANGED m_limit

CounterNext == clear \/ \E key \in CountedKeys : add_or_decrement(key)

CounterSpec == CounterInit /\ [][CounterNext]_counterVars

-----------------------------------------------------------------------------
(* At most m_limit keys are tracked, each with a positive count.            *)
CounterTypeOK ==
  /\ m_limit \in Limits
  /\ added \in Seq(CountedKeys)
  /\ m_counter \in [DOMAIN m_counter -> Nat \ {0}]
  /\ DOMAIN m_counter \subseteq CountedKeys
  /\ IsFiniteSet(DOMAIN m_counter) /\ Cardinality(DOMAIN m_counter) <= m_limit

Occurrences(key) == Cardinality({n \in DOMAIN added : added[n] = key})
Count(key) == IF contains(key) THEN m_counter[key] ELSE 0

(* Whatever the order of the additions, no key is counted more often than   *)
(* it was added, and none misses more than a share 1 / (m_limit + 1) of all *)
(* additions.  A key with a larger share than that is therefore tracked,    *)
(* however many decrements it went through.                                 *)
CountsWithinError ==
  \A key \in CountedKeys :
    /\ Count(key) <= Occurrences(key)
    /\ (Occurrences(key) - Count(key)) * (m_limit + 1) <= Len(added)

=============================================================================
