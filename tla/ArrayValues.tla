------------------------------ MODULE ArrayValues ------------------------------
(***************************************************************************)
(* What the kernel promises of the arrays and times of a process: an array *)
(* is a function from the indexes of its range to values, an alias names   *)
(* the same elements by another range, a legal statement changes what it   *)
(* names and nothing else, and an illegal one ends the simulation.  A null *)
(* range counts as its reverse, an array of another length is taken over   *)
(* with the indexes 1 and up, and an aggregate is promised only for arrays *)
(* that begin at 0 and with the last element named: elsewhere it changes   *)
(* no other array.                                                         *)
(***************************************************************************)
EXTENDS Integers, Sequences, FiniteSets

CONSTANTS
    Literals,       \* the literals of the element type, in order
    InBaseUnits(_)  \* an amount of time as a number of base units

VARIABLES
    bounds,         \* the range of each array
    values,         \* the array itself: index -> position of a literal
    view,           \* the range of the alias
    elapsed,        \* a time in base units, and its unit
    last,           \* the statement executed last
    running

vars == <<bounds, values, view, elapsed, last, running>>

Names == DOMAIN values

Length(b)  == IF b.right >= b.left THEN b.right - b.left + 1 ELSE b.left - b.right + 1
Indexes(b) == IF b.ascending THEN b.left .. b.left + Length(b) - 1
                             ELSE b.left - Length(b) + 1 .. b.left

\* The place of an index, from the left, and the index at a place.
Place(b, i)   == IF b.ascending THEN i - b.left ELSE b.left - i
IndexAt(b, p) == IF b.ascending THEN b.left + p ELSE b.left - p

\* The value of the array when its elements are given from the left.
FromLeft(b, s(_)) == [i \in Indexes(b) |-> s(Place(b, i))]

PositionOf(c, otherwise) ==
    IF \E i \in DOMAIN Literals : Literals[i] = c
    THEN (CHOOSE i \in DOMAIN Literals : Literals[i] = c) - 1
    ELSE otherwise

-------------------------------------------------------------------------------
(* Which statements are legal, and what they mean. *)

\* Where element, alias and named aggregate elements lead to, from the left.
AliasPlace(s) == Place(view, s.index.number)

Legal(s) ==
    CASE s.kind = "element"   -> s.index.number \in Indexes(bounds[s.to])
      [] s.kind = "alias"     -> AliasPlace(s) \in 0 .. Length(bounds[s.to]) - 1
      [] s.kind = "string"    -> Len(s.text) = Length(bounds[s.to])
      [] s.kind = "aggregate" -> /\ Len(s.listed) <= Length(bounds[s.to])
                                 /\ \A k \in DOMAIN s.named :
                                        s.named[k].number \in 0 .. Length(bounds[s.to]) - 1
      [] s.kind = "time"      -> s.amount.unit = elapsed.unit
      [] OTHER                -> TRUE

Put(to, i, v) == values' = [values EXCEPT ![to][i] = v] /\ UNCHANGED <<bounds, elapsed>>

TakeOver(s) ==
    LET b == IF Length(bounds[s.to]) = Length(bounds[s.from])
             THEN bounds[s.to]
             ELSE [left |-> 1, right |-> Length(bounds[s.from]), ascending |-> TRUE]
        From(p) == values[s.from][IndexAt(bounds[s.from], p)]
    IN  /\ bounds' = [bounds EXCEPT ![s.to] = b]
        /\ values' = [values EXCEPT ![s.to] = FromLeft(b, From)]
        /\ UNCHANGED elapsed

Spell(s) ==
    LET b == bounds[s.to]
        At(p) == PositionOf(s.text[p + 1], values[s.to][IndexAt(b, p)])
    IN  /\ values' = [values EXCEPT ![s.to] = FromLeft(b, At)]
        /\ UNCHANGED <<bounds, elapsed>>

\* The element at a place: the last association that names it, or others.
Named(s, p) == {k \in DOMAIN s.named : s.named[k].number = p}

Promised(s) ==
    LET b == bounds[s.to]
    IN  /\ b.ascending
        /\ b.left = 0
        /\ \/ s.others = -1
           \/ Length(b) - 1 \in 0 .. Len(s.listed) - 1
           \/ Named(s, Length(b) - 1) # {}

Compose(s) ==
    LET b == bounds[s.to]
        At(p) == IF Named(s, p) # {}
                   THEN s.named[CHOOSE k \in Named(s, p) : \A j \in Named(s, p) : k >= j].value
                 ELSE IF p < Len(s.listed) THEN s.listed[p + 1]
                 ELSE IF s.others # -1 THEN s.others
                 ELSE values[s.to][IndexAt(b, p)]
    IN  /\ IF Promised(s)
           THEN values' = [values EXCEPT ![s.to] = FromLeft(b, At)]
           ELSE /\ DOMAIN values' = Names
                /\ \A n \in Names \ {s.to} : values'[n] = values[n]
        /\ UNCHANGED <<bounds, elapsed>>

Add(s) ==
    /\ elapsed' = [elapsed EXCEPT !.base = @ + InBaseUnits(s.amount)]
    /\ UNCHANGED <<bounds, values>>

-------------------------------------------------------------------------------

Execute(s) ==
    /\ Legal(s)
    /\ CASE s.kind = "element"   -> Put(s.to, s.index.number, s.value)
         [] s.kind = "alias"     -> Put(s.to, IndexAt(bounds[s.to], AliasPlace(s)), s.value)
         [] s.kind = "array"     -> TakeOver(s)
         [] s.kind = "string"    -> Spell(s)
         [] s.kind = "aggregate" -> Compose(s)
         [] s.kind = "time"      -> Add(s)
         [] OTHER                -> UNCHANGED <<bounds, values, elapsed>>
    /\ UNCHANGED running

\* A loop that leaves its range, an empty line: not every stop is the fault of
\* an array.
Stop(s) ==
    /\ Legal(s) => s.kind = "writeline"
    /\ \A n \in Names : (s.kind = "aggregate" /\ n = s.to) \/ values'[n] = values[n]
    /\ DOMAIN values' = Names
    /\ running' = FALSE
    /\ UNCHANGED <<bounds, elapsed>>

Init ==
    /\ running = TRUE
    /\ \A n \in Names : DOMAIN values[n] = Indexes(bounds[n])

Next ==
    /\ running
    /\ Execute(last') \/ Stop(last')
    /\ UNCHANGED view

Spec == Init /\ [][Next]_vars

===============================================================================
