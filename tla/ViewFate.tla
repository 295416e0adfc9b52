------------------------------ MODULE ViewFate ------------------------------
(***************************************************************************)
(* What the view counters promise, without how: a view is open until it is *)
(* counted, once and for good, or lost.                                    *)
(***************************************************************************)
CONSTANT Views
VARIABLES open, counted, lost

fates == <<open, counted, lost>>

Init == open = {} /\ counted = {} /\ lost = {}

Watch(v) ==
  /\ v \notin open \union counted \union lost
  /\ open' = open \union {v}
  /\ UNCHANGED <<counted, lost>>

Count(V) ==
  /\ V \subseteq open
  /\ open' = open \ V
  /\ counted' = counted \union V
  /\ UNCHANGED lost

Lose(V) ==
  /\ V \subseteq open
  /\ open' = open \ V
  /\ lost' = lost \union V
  /\ UNCHANGED counted

Next ==
  \/ \E v \in Views : Watch(v)
  \/ \E V \in SUBSET Views : Count(V) \/ Lose(V)

Spec == Init /\ [][Next]_fates
=============================================================================
