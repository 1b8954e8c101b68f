------------------------------ MODULE OrderedDict ------------------------------
(***************************************************************************)
(* A Python dict keyed by the id of its values, as the sequence of those   *)
(* values in insertion order.                                              *)
(***************************************************************************)
EXTENDS Naturals, Sequences, SequencesExt

HoldsId(dict, id) == \E i \in DOMAIN dict : dict[i].id = id

\* A dict keeps the place of a key it overwrites and appends a new one.
Put(dict, value) ==
  IF HoldsId(dict, value.id)
    THEN [i \in DOMAIN dict |-> IF dict[i].id = value.id THEN value ELSE dict[i]]
    ELSE Append(dict, value)

\* The values are put one after the other.
PutAll(dict, values) ==
  LET after[n \in 0..Len(values)] ==
        IF n = 0 THEN dict ELSE Put(after[n - 1], values[n])
  IN  after[Len(values)]

\* Where an id the dict holds is.
Position(dict, id) == CHOOSE i \in DOMAIN dict : dict[i].id = id

\* del dict[id], for an id the dict holds.
Delete(dict, id) == RemoveAt(dict, Position(dict, id))
================================================================================
