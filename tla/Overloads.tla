------------------------------- MODULE Overloads -------------------------------
(***************************************************************************)
(* The first pass over an expression: which types each part of it may have *)
(* (src/src/generator/expression/expression.cpp), and the choice of one of *)
(* several objects of a name (parameters.hpp).                             *)
(*                                                                         *)
(* A scope is the sequence of the objects that can be seen.  What a pass   *)
(* changes is a record s: the types collected for each node of the syntax  *)
(* tree, whether an error was reported, the signals the callback was given *)
(* and whether the compiler ended at an assertion or an exception.  An     *)
(* expression that is but a term, that term and the name in it are one     *)
(* node: they collect the same types.                                      *)
(***************************************************************************)
EXTENDS ObjectTypes

CONSTANT NODES      \* the syntax tree: a record of each node, by its name

Report(s)          == [s EXCEPT !.reported = TRUE]
ReportIf(failed, s) == IF failed THEN Report(s) ELSE s
Halt(s)            == [s EXCEPT !.halted = TRUE]
HaltIf(failed, s)  == IF failed THEN Halt(s) ELSE s

-------------------------------------------------------------------------------
(* Names. *)

FindAll(scope, name) ==
    LET named(global) == SelectSeq(scope, LAMBDA o : o.name = name /\ o.global = global)
    IN  named(FALSE) \o named(TRUE)

NoObject == [id |-> "none", name |-> "", type |-> UnknownType, formals |-> <<>>,
             depth |-> 0, global |-> FALSE]

\* findBestMatch: the deepest of the objects that are valid, the first of several.  One as
\* deep as the best so far is an error, whether or not a deeper one follows.
Deepest(objects, fitting) ==
    LET valid == {i \in DOMAIN objects : objects[i] \in fitting}
        best  == {i \in valid : \A k \in valid : objects[k].depth <= objects[i].depth}
    IN  [found     |-> valid # {},
         object    |-> IF valid = {} THEN NoObject
                       ELSE objects[CHOOSE i \in best : \A k \in best : i <= k],
         ambiguous |-> \E i, k \in valid :
                           /\ i < k /\ objects[i].depth = objects[k].depth
                           /\ \A j \in valid : j < k => objects[j].depth <= objects[k].depth]

\* findBestMatch of both: what the loaded packages declare comes before what is declared
\* around the expression.
Preferred(first, second) == IF first.found THEN first ELSE second

FindOne(scope, name, fitting) ==
    LET of(global) == Deepest(SelectSeq(scope, LAMBDA o : o.name = name /\ o.global = global), fitting)
    IN  Preferred(of(TRUE), of(FALSE))

\* getReturnTypes, which leaves its test for valid objects unused.
TypesNamed(scope, name) ==
    LET all == FindAll(scope, name) IN InsertEach({}, [i \in DOMAIN all |-> all[i].type])

-------------------------------------------------------------------------------
(* Operators. *)

\* The predefined operators: what both operands are, and what comes of them.
StandardOperators ==
    ("&" :> <<"array", "array">>)
    @@ [op \in {"+", "-"} |-> <<"dont_care", "dont_care">>]
    @@ [op \in {"=", "/=", "<=", ">="} |-> <<"dont_care", "boolean">>]
    @@ [op \in {"and", "or"} |-> <<"boolean", "boolean">>]

\* getStandardOperatorReturnTypes: both operands must be of one kind, a number
\* of no kind among them.
StandardTypes(op, l, r) ==
    IF l.value # r.value \/ op \notin DOMAIN StandardOperators THEN {}
    ELSE LET operand == StandardOperators[op][1]
             result  == StandardOperators[op][2]
             takes(t) == operand = "dont_care" \/ TypeEquals(TypeOfValue(operand), t)
         IN  IF ~(takes(l) /\ takes(r) /\ TypeEquals(l, r)) THEN {}
             ELSE {IF result \in {"dont_care", operand} THEN l ELSE TypeOfValue(result)}

\* operatorReturnTypes: whatever functions of that name return, whether or not
\* they take the operands, and what the predefined operator gives.
OperatorTypes(scope, op, l, r) == AppendTypes(TypesNamed(scope, op), StandardTypes(op, l, r))

-------------------------------------------------------------------------------
(* Attributes. *)

StringType == ArrayType(<<>>, TypeOfValue("enumeration"))

FixedAttributes ==
    [IMAGE |-> StringType, LENGTH |-> TypeOfValue("integer"),
     POS |-> TypeOfValue("integer"), EVENT |-> TypeOfValue("boolean")]

\* getAttributeType: unknown and reported, unless the type has such a value; an
\* array without indexes ends the compiler.
AttributeType(type, attribute) ==
    LET bound == attribute \in {"HIGH", "LOW", "LEFT", "RIGHT", "LAST_VALUE"}
        of(t)  == [type |-> t, reported |-> FALSE, halted |-> FALSE]
    IN  CASE attribute \in DOMAIN FixedAttributes -> of(FixedAttributes[attribute])
          [] bound /\ type.value \in {"integer", "physical", "enumeration"} -> of(type)
          [] bound /\ type.value = "array" /\ type.args # <<>> -> of(type.args[1])
          [] bound /\ type.value = "array" -> [of(UnknownType) EXCEPT !.halted = TRUE]
          [] OTHER -> [of(UnknownType) EXCEPT !.reported = TRUE]

-------------------------------------------------------------------------------
(* The types of a node: the recursion over the syntax tree. *)

\* The types that a step finds are added to those the node has from before; a
\* node without a type is an error.
TypeNeeded(n, s) == ReportIf(s.types[n] = {}, s)

Typed(n, s, found) == TypeNeeded(n, [s EXCEPT !.types[n] = AppendTypes(@, found)])

RECURSIVE Collect(_, _, _)

\* toObjectArguments: the actuals with their types; one without is reported and
\* left out, so that those behind it change places.
WithActual(a, element, t) ==
    LET found == t.types[element.actual]
    IN  IF found = {} THEN [a EXCEPT !.s = Report(t)]
        ELSE [actuals |-> Append(a.actuals, [name |-> element.formal, types |-> found]),
              s |-> HaltIf(\E x \in found : x.value = "unknown", t)]

CollectArguments(scope, list, s) ==
    FoldLeft(LAMBDA a, element : WithActual(a, element, Collect(scope, element.actual, a.s)),
             [actuals |-> <<>>, s |-> s], list)

CollectUnary(scope, n, s) ==
    LET t == Collect(scope, NODES[n].operand, s)
    IN  Typed(n, t, t.types[NODES[n].operand])

\* Every type of the left operand with every one of the right.
CollectOperation(scope, n, s) ==
    LET e == NODES[n]
        t == Collect(scope, e.right, Collect(scope, e.left, s))
        pairs == t.types[e.left] \X t.types[e.right]
    IN  Typed(n, t, AppendTypes(IF pairs = {} THEN {} ELSE TypesNamed(scope, e.op),
                                UNION {StandardTypes(e.op, p[1], p[2]) : p \in pairs}))

\* The element that stands for an aggregate: its last one.  Without a choice
\* its expression is kept as its only choice.
Single(element) ==
    CASE element.value # NoNode -> element.value
      [] Len(element.choices) = 1 /\ element.choices[1].kind = "at" -> element.choices[1].index
      [] OTHER -> NoNode

\* Faulty form, for the mutation check only: the types of the element are put
\* with those of the aggregate.
ElementTypesMixed(n, inner, s) == s.types[inner] \cup s.types[n]

ElementTypes(n, inner, s) == s.types[inner]

\* parenthesisReturnTypes: an aggregate is an array of what its last element may
\* be, or an array of two dimensions of what that has as elements; the other
\* elements are not looked at.
ArraysOf(element) ==
    {ArrayType(<<UnknownType>>, element)}
    \cup IF element.value # "array" THEN {}
         ELSE {ArrayType(<<UnknownType, UnknownType>>, element.sub[1])}

CollectParenthesis(scope, n, s) ==
    LET list == NODES[n].elements
        inner == Single(list[Len(list)])
        t == Collect(scope, inner, s)
    IN  IF inner = NoNode THEN Halt(s)
        ELSE Typed(n, t, IF Len(list) > 1 \/ list[1].value # NoNode
                         THEN UNION {ArraysOf(e) : e \in ElementTypes(n, inner, t)}
                         ELSE t.types[inner])

\* functionReturnTypes: what objects of the name return or have as elements,
\* whether or not they take the arguments.
CollectCall(scope, n, s) ==
    LET all == FindAll(scope, NODES[n].name)
        returned(o) == IF o.id # "TYPE" /\ o.type.sub # <<>> THEN o.type.sub[1] ELSE o.type
    IN  Typed(n, CollectArguments(scope, NODES[n].arguments, s).s,
              InsertEach({}, [i \in DOMAIN all |-> returned(all[i])]))

\* attributeReturnTypes
WithAttribute(n, a, s) == Typed(n, HaltIf(a.halted, ReportIf(a.reported, s)), {a.type})

OfObject(n, best, s) ==
    LET t == ReportIf(best.ambiguous, s)
    IN  IF best.found THEN WithAttribute(n, AttributeType(best.object.type, NODES[n].attribute), t)
        ELSE Typed(n, Report(t), {})

CollectAttribute(scope, n, s) == OfObject(n, FindOne(scope, NODES[n].name, Range(scope)), s)

\* basicIdentifierReturnTypes; a name without arguments may also be a function
\* that takes some.
CollectName(scope, n, s) ==
    CASE NODES[n].attribute # "" -> CollectAttribute(scope, n, s)
      [] NODES[n].attribute = "" /\ NODES[n].called -> CollectCall(scope, n, s)
      [] OTHER -> Typed(n, s, TypesNamed(scope, NODES[n].name))

\* expressionReturnTypes, expressionTermReturnTypes
Collect(scope, n, s) ==
    LET e == NODES[n]
    IN  CASE e.kind = "unary"       -> CollectUnary(scope, n, s)
          [] e.kind = "operation"   -> CollectOperation(scope, n, s)
          [] e.kind = "parenthesis" -> CollectParenthesis(scope, n, s)
          [] e.kind = "name"        -> CollectName(scope, n, s)
          [] e.kind = "character"   -> Typed(n, s, TypesNamed(scope, e.name))
          [] e.kind = "number"      -> Typed(n, s, {TypeOfValue(e.value)})
          [] e.kind = "string"      -> Typed(n, s, {StringType})
          [] e.kind = "physical"    -> Typed(n, s, {TypeNamed("physical", e.unit)})

-------------------------------------------------------------------------------
(* One type out of several. *)

\* uniqueReturnType: the only type there is, whatever was expected, or the only
\* one that is exactly as expected.
UniqueType(types, expected) ==
    LET exact == {t \in types : expected # AnyExpected /\ EqualsExact(expected.type, t)}
        from  == IF Cardinality(types) = 1 THEN types ELSE exact
    IN  [found |-> Cardinality(from) = 1,
         type  |-> IF from = {} THEN UnknownType ELSE CHOOSE t \in from : TRUE]

\* collectUniqueReturnType
Unique(n, expected, t) ==
    LET u == UniqueType(t.types[n], expected) IN [unique |-> u, s |-> ReportIf(~u.found, t)]

CollectUnique(scope, n, expected, s) == Unique(n, expected, Collect(scope, n, s))
=============================================================================
