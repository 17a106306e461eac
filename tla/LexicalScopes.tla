---------------------------- MODULE LexicalScopes ----------------------------
(***************************************************************************)
(* What a generator of nested scopes promises: the open scopes form a      *)
(* stack, what is declared goes into the innermost of them, and a scope    *)
(* keeps what was declared in it until it is closed.                       *)
(***************************************************************************)
EXTENDS Sequences, Naturals

VARIABLE scopes     \* what is declared in the open scopes, the outermost first

Init == scopes = <<>>

\* The scopes around the innermost one are as they were.
OthersKept == \A k \in 1 .. Len(scopes) - 1 : scopes'[k] = scopes[k]
Grown      == scopes # <<>> => scopes[Len(scopes)] \subseteq scopes'[Len(scopes)]

Declare == Len(scopes') = Len(scopes) /\ OthersKept /\ Grown

\* A scope opens with nothing declared; its name may be made known in the
\* scope around it in the same step.
Open == /\ Len(scopes') = Len(scopes) + 1
        /\ OthersKept /\ Grown
        /\ scopes'[Len(scopes')] = {}

Close == scopes # <<>> /\ scopes' = SubSeq(scopes, 1, Len(scopes) - 1)

Next == Declare \/ Open \/ Close

Spec == Init /\ [][Next]_scopes
=============================================================================
