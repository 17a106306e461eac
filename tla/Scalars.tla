-------------------------------- MODULE Scalars --------------------------------
(***************************************************************************)
(* The scalar types of the simulation kernel: Range<int> (vhdl_range.hpp), *)
(* Enumeration (vhdl_enum.hpp) and PhysicalType (vhdl_type.hpp).  Objects  *)
(* are records of the members the code reads; an enumeration literal       *)
(* stands for its position, as in the tables the code looks them up in.    *)
(***************************************************************************)
EXTENDS Integers, Sequences, SequencesExt, FiniteSetsExt

CONSTANTS
    LITERALS,       \* the literals of the element type, all written as characters
    UNITS           \* UNITS[u]: how many of the unit before it unit u is

ASSUME LiteralsAssumption == LITERALS \in Seq(STRING) /\ LITERALS # <<>> /\ IsInjective(LITERALS)
ASSUME UnitsAssumption == UNITS \in Seq(Nat \ {0}) /\ UNITS # <<>>

SIZE == Len(LITERALS)

-------------------------------------------------------------------------------
(* Range<int>.  It has a direction, and no test of a value it is given. *)

RangeOf(left, right, ascending) ==
    [value |-> 0, left |-> left, right |-> right, ascending |-> ascending]

HIGH(r) == Max({r.left, r.right})
LOW(r)  == Min({r.left, r.right})

\* A null range has a length like its reverse.
LENGTH(r) == HIGH(r) - LOW(r) + 1

\* The direction is taken from the bounds, and not from m_ascending.
RIGHTOF(r) == IF r.left < r.right THEN r.value + 1 ELSE r.value - 1

-------------------------------------------------------------------------------
(* Enumeration.  Its bounds are those of the whole type unless a subtype   *)
(* constrains them; its value is the position in the whole type.           *)

Whole == [left |-> 0, right |-> SIZE - 1]

Enumeration(bounds) == [value |-> 0, left |-> bounds.left, right |-> bounds.right]

\* The table holds -1 for what is not a character literal of the type.
CharPosition(c) ==
    IF \E i \in 1 .. SIZE : LITERALS[i] = c
    THEN (CHOOSE i \in 1 .. SIZE : LITERALS[i] = c) - 1
    ELSE -1

\* set(char): an unknown character is reported and leaves the value.
SetChar(e, c) ==
    [e EXCEPT !.value = IF CharPosition(c) < 0 THEN @ ELSE CharPosition(c)]

\* operator=: the value is taken over, the bounds are not.
SetValue(e, other) == [e EXCEPT !.value = other.value]

EnumerationRightOf(e) == [Enumeration(Whole) EXCEPT !.value = e.value + 1]

\* relative_position: the position within the subtype.
RelativePosition(bounds, position) == position - bounds.left

-------------------------------------------------------------------------------
(* PhysicalType: a value and the unit it counts, units ordered upwards. *)

Physical(value, unit) == [value |-> value, unit |-> unit]

\* scale asserts that it goes upwards, and multiplies on the way.
Scalable(from, to) == to >= from

Scale(v, from, to) ==
    LET factor[u \in 1 .. to] == IF u >= to THEN 1 ELSE UNITS[u] * factor[u + 1]
    IN  v * factor[from]

\* operator+ takes both sides to the lower unit: that scales the higher one
\* downwards, where scale asserts, unless the units are the same.
LowestUnit(p, q) == Min({p.unit, q.unit})

Summable(p, q) == Scalable(p.unit, LowestUnit(p, q)) /\ Scalable(q.unit, LowestUnit(p, q))

Plus(p, q) ==
    Physical(Scale(p.value, p.unit, LowestUnit(p, q)) + Scale(q.value, q.unit, LowestUnit(p, q)),
             LowestUnit(p, q))

===============================================================================
