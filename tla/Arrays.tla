--------------------------------- MODULE Arrays ---------------------------------
(***************************************************************************)
(* vhdl::Array (vhdl_array.hpp) over elements of an enumeration type.  An  *)
(* array is its range, the bounds its elements are constrained to          *)
(* (m_subtype) and its elements; range.byType tells arrays that an         *)
(* enumeration type indexes from arrays that integers index.  An operator  *)
(* gives the array after the call; what the code asserts or throws is a    *)
(* predicate of its own.                                                   *)
(***************************************************************************)
EXTENDS Scalars

\* An array nobody constrained: a range 0 to 0 and no elements.
NewArray(byType) ==
    [range   |-> [left |-> 0, right |-> IF byType THEN SIZE - 1 ELSE 0,
                  ascending |-> TRUE, byType |-> byType],
     sub     |-> Whole,
     content |-> <<>>]

Size(a) == LENGTH(a.range)

\* resize: new elements, constrained, with the first value of their type.
Resize(a, length) == [a EXCEPT !.content = [i \in 1 .. length |-> Enumeration(a.sub)]]

WithRange(a, left, right, ascending) ==
    [a EXCEPT !.range.left = left, !.range.right = right,
              !.range.ascending = ascending, !.sub = Whole]

\* constrain(): Range has nothing to do, Enumeration takes its whole type.
ConstrainAgain(a) ==
    [a EXCEPT !.range.left  = IF a.range.byType THEN 0 ELSE @,
              !.range.right = IF a.range.byType THEN SIZE - 1 ELSE @,
              !.sub = Whole]

\* constrain(other): range and bounds of the elements, and new elements.
ConstrainLike(a, other) ==
    LET b == [a EXCEPT !.range.left = other.range.left, !.range.right = other.range.right,
                       !.range.ascending = other.range.ascending, !.sub = other.sub]
    IN  Resize(b, Size(b))

\* constrain(left, right, ascending): the bounds of the elements are reset.
ConstrainTo(a, left, right, ascending) ==
    LET b == WithRange(a, left, right, ascending) IN Resize(b, Size(b))

\* constrain(subtype) and constrain(left, right, ascending, subtype) leave the
\* elements as they are; the second loses the subtype it is given.
ConstrainElements(a, sub) == [ConstrainAgain(a) EXCEPT !.sub = sub]
ConstrainBoth(a, left, right, ascending, sub) == WithRange(a, left, right, ascending)

-------------------------------------------------------------------------------
(* Elements and their indexes. *)

\* The kernel takes an enumeration type as range to begin at its first literal.
LeftPosition(range) == IF range.byType THEN RelativePosition(range, range.left) ELSE range.left

Ascending(range) == range.byType \/ range.ascending

\* Faulty form, for the mutation check only: always counts upwards.
ConvertUpwards(range, index) == index - LeftPosition(range)

ConvertIndex(range, index) ==
    IF Ascending(range) THEN index - LeftPosition(range) ELSE LeftPosition(range) - index

\* getIndex: a character is looked up in the range, any other index is its position.
IndexOf(range, index) ==
    IF index.char THEN RelativePosition(range, index.number) ELSE index.number

AbsoluteIndex(range, index) == ConvertIndex(range, IndexOf(range, index))

\* getAbsolute asserts both: within the range, and within the elements.
IndexCheck(a, i) == i >= 0 /\ i < Size(a)
Reached(a, i)    == IndexCheck(a, i) /\ i < Len(a.content)

WithinRange(a, index) == IndexCheck(a, ConvertIndex(a.range, index))

PutAt(a, i, e) == [a EXCEPT !.content[i + 1] = SetValue(@, e)]

-------------------------------------------------------------------------------
(* Assignments. *)

\* operator=(string): throws unless the lengths agree.
StringFits(a, text) == Size(a) = Len(text)

SetString(a, text) ==
    [a EXCEPT !.content = [i \in DOMAIN @ |->
        IF i <= Len(text) THEN SetChar(@[i], text[i]) ELSE @[i]]]

\* push_back: more elements; the range stays.
PushBack(a, text) ==
    [a EXCEPT !.content = @ \o [i \in DOMAIN text |-> SetChar(Enumeration(a.sub), text[i])]]

\* Faulty form, for the mutation check only: only the range is adapted.
RangeOnly(a, other) ==
    IF Size(a) # Size(other) THEN WithRange(a, 1, Size(other), TRUE) ELSE a

\* set: the target takes the length of the other array, from 1 upwards.
LengthOf(a, other) ==
    IF Size(a) # Size(other) THEN ConstrainTo(a, 1, Size(other), TRUE) ELSE a

Copied(a, other) == Size(a) <= Len(a.content) /\ Size(a) <= Len(other.content)

SetArray(a, other) ==
    [a EXCEPT !.content = [i \in DOMAIN @ |->
        IF i <= Size(a) /\ i <= Len(other.content) THEN SetValue(@[i], other.content[i]) ELSE @[i]]]

-------------------------------------------------------------------------------
(* The calls an aggregate is made of; positions count from the first       *)
(* element, whatever the range is.                                         *)

\* setOthers -> setAll: all elements but the last one.
SetOthers(a, e) ==
    [a EXCEPT !.content = [i \in DOMAIN @ |-> IF i <= Size(a) - 1 THEN SetValue(@[i], e) ELSE @[i]]]

\* setIndex, setElement: vector::at throws outside the elements.
SetIndex(a, position, e) ==
    IF position \in 0 .. Len(a.content) - 1 THEN PutAt(a, position, e) ELSE a

AtThrows(a, position) == position \notin 0 .. Len(a.content) - 1

-------------------------------------------------------------------------------

\* toString, IMAGE: the elements from LEFT on, as long as the index is in the range.
Image(a) == [i \in 1 .. Size(a) |-> a.content[i].value]

===============================================================================
