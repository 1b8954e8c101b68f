----------------------------- MODULE RegistryStore -----------------------------
(***************************************************************************)
(* What a persistent registry promises to whoever restarts it: it comes    *)
(* back with the contents it last stored, and what it stores is always     *)
(* what it holds at that moment.  An interrupted flush may lose the stored *)
(* contents; it never leaves a mixture of old and new.                     *)
(***************************************************************************)
EXTENDS OrderedDict

CONSTANTS
  Values,         \* what may be stored, records with an id
  Replacements    \* stored contents an operator may put in place

VARIABLES
  up,         \* the process that owns the registry is running
  contents,   \* what its callers see
  stored      \* what a restart would bring back

vars == <<up, contents, stored>>

Ids == {v.id : v \in Values}

Init ==
  /\ up = TRUE
  /\ contents = <<>>
  /\ stored = <<>>

Change ==
  /\ up
  /\ \/ \E v \in Values : contents' = Put(contents, v)
     \/ \E id \in Ids : HoldsId(contents, id) /\ contents' = Delete(contents, id)
     \/ contents' = <<>>
  /\ UNCHANGED <<up, stored>>

Flush     == up /\ stored' = contents /\ UNCHANGED <<up, contents>>
Interrupt == up /\ stored' = <<>> /\ UNCHANGED <<up, contents>>
Refresh   == up /\ contents' = stored /\ UNCHANGED <<up, stored>>
Stop      == up /\ up' = FALSE /\ contents' = <<>> /\ UNCHANGED stored
\* What is stored may be out of reach for the new process.
Restart   == ~up /\ up' = TRUE /\ contents' \in {stored, <<>>} /\ UNCHANGED stored
Replace   == stored' \in Replacements /\ UNCHANGED <<up, contents>>

Next == Change \/ Flush \/ Interrupt \/ Refresh \/ Stop \/ Restart \/ Replace

Spec == Init /\ [][Next]_vars
================================================================================
