------------------------------ MODULE FrameLog ------------------------------
(***************************************************************************)
(* What the logger promises of the entries it accepts: numbered in the     *)
(* order of acceptance, those that have reached the card are always the    *)
(* first ones, none of them is ever taken back, and each step only extends *)
(* one of the two.                                                         *)
(***************************************************************************)
EXTENDS Naturals

VARIABLES
  accepted,  \* how many entries have been accepted
  stored     \* the numbers of those found on the card

Init == accepted = 0 /\ stored = {}

Accept == accepted' = accepted + 1 /\ UNCHANGED stored

Persist ==
  /\ stored' \subseteq 1..accepted /\ stored \subseteq stored'
  /\ \A x \in stored', y \in (1..accepted) \ stored' : x < y
  /\ UNCHANGED accepted

Next == Accept \/ Persist

Spec == Init /\ [][Next]_<<accepted, stored>>
=============================================================================
