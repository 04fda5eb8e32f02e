-------------------------------- MODULE Water --------------------------------
(***************************************************************************)
(* What the water program of Asmt_5/h2o promises: two hydrogen atoms and   *)
(* an oxygen atom that were created, and are not part of a molecule yet,   *)
(* form one.                                                               *)
(***************************************************************************)
EXTENDS Integers

VARIABLES
  hydrogen, oxygen,   \* how many atoms of each kind are not bonded
  molecules           \* how many molecules were formed

vars == <<hydrogen, oxygen, molecules>>

Init == hydrogen = 0 /\ oxygen = 0 /\ molecules = 0

NewHydrogen == hydrogen' = hydrogen + 1 /\ UNCHANGED <<oxygen, molecules>>

NewOxygen == oxygen' = oxygen + 1 /\ UNCHANGED <<hydrogen, molecules>>

Bond ==
  /\ hydrogen >= 2 /\ oxygen >= 1
  /\ hydrogen' = hydrogen - 2
  /\ oxygen' = oxygen - 1
  /\ molecules' = molecules + 1

Next == NewHydrogen \/ NewOxygen \/ Bond

Spec == Init /\ [][Next]_vars

============================================================================
