------------------------------ MODULE UnitStream ------------------------------
(***************************************************************************)
(* What DesignFile::parse promises of a token list of a given size: it     *)
(* delivers design units one after the other, each starts where the one    *)
(* before it ended and is not empty, and none is taken back.  Nothing is   *)
(* promised of the tokens after the last unit.                             *)
(***************************************************************************)
EXTENDS Naturals, Sequences

VARIABLES
    size,           \* the number of tokens
    spans,          \* <<from, to>> of the units delivered
    done            \* whether the file has been left

vars == <<size, spans, done>>

Reached == IF spans = <<>> THEN 0 ELSE spans[Len(spans)][2]

Init == size \in Nat /\ spans = <<>> /\ done = FALSE

Deliver ==
    /\ ~done
    /\ \E to \in Reached + 1 .. size : spans' = Append(spans, <<Reached, to>>)
    /\ UNCHANGED <<size, done>>

Leave ==
    /\ ~done
    /\ done' = TRUE
    /\ UNCHANGED <<size, spans>>

Next == Deliver \/ Leave

Spec == Init /\ [][Next]_vars

=============================================================================
