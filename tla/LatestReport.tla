----------------------------- MODULE LatestReport -----------------------------
(***************************************************************************)
(* What a macOS device promises its reader: a slot for one input report,   *)
(* which a newer report replaces and Read empties. Reports are numbered in *)
(* the order they arrive.                                                  *)
(***************************************************************************)
EXTENDS Naturals, Sequences

VARIABLES
    arrived,    \* reports that have arrived
    slot,       \* the report waiting, if any
    reads       \* history: the reports read

vars == <<arrived, slot, reads>>

Init == arrived = 0 /\ slot = << >> /\ reads = << >>

Arrive ==
    /\ arrived' = arrived + 1
    /\ slot' = <<arrived'>>
    /\ UNCHANGED reads

Take ==
    /\ slot # << >>
    /\ reads' = Append(reads, slot[1])
    /\ slot' = << >>
    /\ UNCHANGED arrived

Next == Arrive \/ Take

Spec == Init /\ [][Next]_vars
=============================================================================
