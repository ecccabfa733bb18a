----------------------------- MODULE Supervisor -----------------------------
(***************************************************************************)
(* What the manager process promises of the VCL that answers clients:      *)
(* "chosen" is the program the manager holds to be active, "serving" the    *)
(* one the cacher process really runs (Off while no cacher accepts          *)
(* connections).  The two may differ only while a conversation between the  *)
(* processes is going on, and a cacher always begins with the chosen one.   *)
(***************************************************************************)
CONSTANTS
  Vcl,   \* names of VCL programs
  Off    \* not one of them

VARIABLES
  chosen,    \* the program marked active in the manager
  serving,   \* the program new sessions get, or Off
  talking    \* a command is under way, or its outcome is not known

vars == <<chosen, serving, talking>>

Init == chosen \in Vcl /\ serving = Off /\ talking = FALSE

(* Without a cacher the choice is the manager's alone.                     *)
Choose(v) == /\ serving = Off
             /\ chosen' = v /\ talking' \in {talking, FALSE}
             /\ UNCHANGED serving

Ask == ~talking /\ talking' = TRUE /\ UNCHANGED <<chosen, serving>>

(* The cacher opens its ports: with the chosen program and no other.       *)
Open ==    /\ serving = Off /\ talking
           /\ serving' = chosen
           /\ UNCHANGED <<chosen, talking>>

(* In a conversation each side moves by itself ...                         *)
Turn(v) == talking /\ serving # Off /\ serving' = v /\ UNCHANGED <<chosen, talking>>
Note(v) == /\ talking /\ serving # Off
           /\ chosen' = v /\ talking' \in BOOLEAN
           /\ (~talking' => serving = v)
           /\ UNCHANGED serving

(* ... and it ends only when they agree.                                   *)
Settle == /\ talking
          /\ serving = Off \/ serving = chosen
          /\ talking' = FALSE
          /\ UNCHANGED <<chosen, serving>>

Down == serving # Off /\ serving' = Off /\ talking' \in BOOLEAN /\ UNCHANGED chosen

Next == \/ Ask \/ Open \/ Settle \/ Down
        \/ \E v \in Vcl : Choose(v) \/ Turn(v) \/ Note(v)

Spec == Init /\ [][Next]_vars
=============================================================================
