------------------------------ MODULE Linkage ------------------------------
(***************************************************************************)
(* What a compilation promises about names, whatever files it reads and in *)
(* which order: objects are defined once and keep their definition, the    *)
(* program comes to need more and more of them, and the compilation is     *)
(* accepted only when every object that is needed is defined.              *)
(***************************************************************************)
CONSTANTS Objects,      \* what can be defined and needed
          Definitions   \* the places that can define an object

VARIABLES defined,      \* a partial function from Objects to Definitions
          needed,       \* the objects needed so far
          outcome       \* "open" until the compilation ends

vars == <<defined, needed, outcome>>

Init == /\ defined = [o \in {} |-> o]
        /\ needed = {}
        /\ outcome = "open"

Define(o) ==
  /\ outcome = "open" /\ o \notin DOMAIN defined
  /\ DOMAIN defined' = DOMAIN defined \cup {o}
  /\ \A p \in DOMAIN defined : defined'[p] = defined[p]
  /\ defined'[o] \in Definitions
  /\ UNCHANGED <<needed, outcome>>

Need(o) ==
  /\ outcome = "open"
  /\ needed' = needed \cup {o}
  /\ UNCHANGED <<defined, outcome>>

Accept ==
  /\ outcome = "open" /\ needed \subseteq DOMAIN defined
  /\ outcome' = "accepted"
  /\ UNCHANGED <<defined, needed>>

Reject ==
  /\ outcome = "open"
  /\ outcome' = "rejected"
  /\ UNCHANGED <<defined, needed>>

Next == \/ \E o \in Objects : Define(o) \/ Need(o)
        \/ Accept
        \/ Reject

Spec == Init /\ [][Next]_vars
=============================================================================
