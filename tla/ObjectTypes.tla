------------------------------ MODULE ObjectTypes ------------------------------
(***************************************************************************)
(* The types of objects and the interfaces of subprograms, as the          *)
(* generator compares them (src/src/ast/object_type.hpp, object_type.cpp,  *)
(* object_interface.cpp, generator/expression/expected_type.cpp).  A type  *)
(* has a kind of value, a name, the types of its indexes and, as a         *)
(* sequence of at most one, its subtype.                                   *)
(***************************************************************************)
EXTENDS Naturals, SequencesExt

NoNode == ""        \* no expression where there might be one

HasArray(value) == value \in {"array", "access", "file"}

UnknownType == [value |-> "unknown", name |-> "", args |-> <<>>, sub |-> <<>>]

\* A type by its kind of value; a boolean is an enumeration.
TypeNamed(value, name) ==
    [value |-> IF value = "boolean" THEN "enumeration" ELSE value,
     name  |-> IF value = "boolean" THEN "BOOLEAN" ELSE name,
     args  |-> <<>>,
     sub   |-> IF HasArray(value) THEN <<UnknownType>> ELSE <<>>]
TypeOfValue(value) == TypeNamed(value, "")

ArrayType(args, subtype) == [value |-> "array", name |-> "", args |-> args, sub |-> <<subtype>>]

-------------------------------------------------------------------------------
(* Comparison of types. *)

\* A literal number is any number.
NumberEquals(l, r) == l = "number" /\ r \in {"integer", "real", "number"}

\* Two types are the same as far as both are known: a type that is unknown, a
\* name that is missing stand for any.  The index types are not compared.
RECURSIVE TypeEquals(_, _)
SubtypesEqual(l, r) == Len(l) = Len(r) /\ \A i \in DOMAIN l : TypeEquals(l[i], r[i])
TypeEquals(l, r) ==
    \/ "unknown" \in {l.value, r.value}
    \/ NumberEquals(l.value, r.value) \/ NumberEquals(r.value, l.value)
    \/ /\ l.value = r.value
       /\ l.value \in {"user_type", "enumeration"} => "" \in {l.name, r.name} \/ l.name = r.name
       /\ HasArray(l.value) => SubtypesEqual(l.sub, r.sub)

\* The same kind and the same name, with the subtypes compared as above. The code
\* compares the names without regard to case; here they are in upper case, as
\* SimpleIdentifier::toString makes them.
EqualsExact(l, r) ==
    /\ l.value = r.value /\ l.name = r.name
    /\ HasArray(l.value) => SubtypesEqual(l.sub, r.sub)

\* An argument has the types its actual may have; it fits a type that equals one.
ArgumentFits(argument, type) == \E t \in argument.types : TypeEquals(t, type)

\* The indexes of an array, when there are no more of them than the type has:
\* an array with too many is not refused.
IndexesFit(type, arguments) ==
    Len(arguments) <= Len(type.args) =>
        \A i \in DOMAIN arguments : ArgumentFits(arguments[i], type.args[i])

\* What an element is: an index less, and behind the last one the kind and the
\* name of the subtype, but neither its indexes nor its own subtype.
NextSubtype(type) ==
    IF type.value # "array" THEN [type EXCEPT !.value = "none", !.name = ""]
    ELSE IF Len(type.args) > 1 THEN [type EXCEPT !.args = Tail(@)]
    ELSE [value |-> type.sub[1].value, name |-> type.sub[1].name, args |-> <<>>, sub |-> <<>>]

-------------------------------------------------------------------------------
(* ReturnTypes: an unordered set with a hash and an equality of its own. *)

Bucket(type) == IF type.value \in {"integer", "real"} THEN "number" ELSE type.value

SameEntry(l, r) == Bucket(l) = Bucket(r) /\ TypeEquals(l, r)

Insert(types, type) ==
    IF \E t \in types : SameEntry(t, type) THEN types ELSE types \cup {type}

InsertEach(types, sequence) == FoldLeft(Insert, types, sequence)

\* What is appended comes from a set of the same kind, so that its order is
\* of no account.
AppendTypes(types, others) == types \cup {x \in others : Insert(types, x) # types}

-------------------------------------------------------------------------------
(* ExpectedType: a type, and whether it is an array. *)

Expected(type) == [type |-> type, array |-> type.value = "array"]
AnyExpected    == [type |-> UnknownType, array |-> FALSE]      \* no ExpectedType is given

\* The type of the elements; the flag stays that of the array.
ExpectedElement(expected) == [expected EXCEPT !.type = NextSubtype(@)]

\* The type of an array's element that is an array has lost its subtype.
LostSubtype(expected) == expected.type.value = "array" /\ expected.type.sub = <<>>

-------------------------------------------------------------------------------
(* ObjectInterface: the formals of a subprogram against the actuals of a   *)
(* call.                                                                   *)

\* Which formal an actual is for, 0 when it is for none: the next one as long as
\* all before it were in place, or the one it names.
MatchFormal(formals, actual, place) ==
    IF actual.name = "" /\ place \in DOMAIN formals
    THEN IF ArgumentFits(actual, formals[place].type) THEN place ELSE 0
    ELSE LET named == {i \in DOMAIN formals : formals[i].name = actual.name}
             first == CHOOSE i \in named : \A k \in named : i <= k
         IN  IF named # {} /\ ArgumentFits(actual, formals[first].type) THEN first ELSE 0

\* The place is 0 from the first actual on that is out of place.
Associate(state, i) ==
    [place   |-> IF state.place > 0 /\ i = state.place THEN i + 1 ELSE 0,
     matched |-> state.matched \cup {i}]

\* A call matches if every actual is for a formal and every formal has one or a
\* default; that a formal has two is not noticed.
InterfaceMatches(formals, actuals) ==
    LET defaults == {i \in DOMAIN formals : formals[i].default # NoNode}
        end == FoldLeft(LAMBDA state, actual : Associate(state, MatchFormal(formals, actual, state.place)),
                        [place |-> 1, matched |-> defaults], actuals)
    IN  end.matched = DOMAIN formals
=============================================================================
