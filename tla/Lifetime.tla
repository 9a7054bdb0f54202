------------------------------ MODULE Lifetime ------------------------------
(***************************************************************************)
(* What a reference-counted object promises: it comes to life with all its *)
(* parts held, loses them one at a time, dies with the last one, and may   *)
(* then be allocated again.                                                *)
(***************************************************************************)
CONSTANT Parts

VARIABLES
  held,   \* the parts that still refer to the object
  alive

Init == held = {} /\ alive = FALSE

Allocate == ~alive /\ alive' = TRUE /\ held' = Parts

Release(p) ==
  /\ alive /\ p \in held
  /\ held' = held \ {p}
  /\ alive' = (held' # {})

Next == Allocate \/ \E p \in Parts : Release(p)

Spec == Init /\ [][Next]_<<held, alive>>
=============================================================================
