---------------------- MODULE CapacityLimitedReservoir ----------------------
(***************************************************************************)
(* The per-key reservoir of constrained_collections/reservoirs: a map from *)
(* keys to at most Capacity values, filled by Algorithm R.  The map m_data *)
(* is a function whose domain is the set of keys seen so far; the random   *)
(* index drawn by the code is a nondeterministic choice, so add denotes    *)
(* the set of maps one call may leave behind.                              *)
(***************************************************************************)
EXTENDS Integers, Sequences

CONSTANT Capacity    \* the code's m_capacity

\* The constructor throws on a zero capacity.
ASSUME CapacityAssumption == Capacity \in Nat \ {0}

NoData == [k \in {} |-> {}]

EmptyEntry == [values |-> << >>, total_seen |-> 0]

Entry(m_data, key) == IF key \in DOMAIN m_data THEN m_data[key] ELSE EmptyEntry

get_keys(m_data) == DOMAIN m_data

get(m_data, key) == m_data[key].values

StoreEntry(m_data, key, entry) ==
  [k \in DOMAIN m_data \cup {key} |-> IF k = key THEN entry ELSE m_data[k]]

\* Seeded fault: an index one beyond the array is taken for one inside.
FaultyReplace(values, idx, value) ==
  IF idx <= Capacity
  THEN [i \in DOMAIN values \cup {idx + 1} |-> IF i = idx + 1 THEN value ELSE values[i]]
  ELSE values

\* The memory of the value array after a full reservoir drew index idx: only an index
\* below the capacity is written to.
Replace(values, idx, value) ==
  IF idx < Capacity
  THEN [i \in DOMAIN values \cup {idx + 1} |-> IF i = idx + 1 THEN value ELSE values[i]]
  ELSE values

\* What one add leaves in an entry, over every index the generator may draw.
AddToEntry(entry, value) ==
  LET seen == entry.total_seen + 1
  IN  IF Len(entry.values) < Capacity
        THEN {[values |-> Append(entry.values, value), total_seen |-> seen]}
        ELSE {[values |-> Replace(entry.values, idx, value), total_seen |-> seen]
                : idx \in 0 .. seen - 1}

add(m_data, key, value) ==
  {StoreEntry(m_data, key, entry) : entry \in AddToEntry(Entry(m_data, key), value)}

=============================================================================
