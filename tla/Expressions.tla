------------------------------ MODULE Expressions ------------------------------
(***************************************************************************)
(* The second pass over an expression: the text that is written for it     *)
(* where a type is expected (src/src/generator/expression/expression.hpp), *)
(* and the statements and declarations whose expressions are written       *)
(* (sequential.hpp, declarations.hpp, systemc.cpp).  A text is the tree of *)
(* what it consists of.                                                    *)
(***************************************************************************)
EXTENDS Overloads

CONSTANT PROGRAMS       \* sequences of declarations and statements

VARIABLES
    pending,    \* what is left of the program
    scope,      \* the objects that can be seen
    types,      \* returnTypes of the nodes of the syntax tree
    work,       \* the expressions of the statement still to be written
    collected,  \* whether the first of them has been through the first pass
    texts,      \* what has been written of the statement
    last,       \* auxiliary: the expression written last, or none
    reported,   \* whether an error was printed
    heard,      \* the signals the callback was given
    halted      \* an assertion or an exception ended the compiler

vars == <<pending, scope, types, work, collected, texts, last, reported, heard, halted>>

-------------------------------------------------------------------------------
(* Texts. *)

Nothing == [kind |-> "nothing", node |-> NoNode]

Literal(n)               == [kind |-> "literal", node |-> n]
Unary(n, operand)        == [kind |-> "unary", node |-> n, parts |-> <<operand>>]
Operation(n, how, l, r)  == [kind |-> how, node |-> n, parts |-> <<l, r>>]
ObjectText(n, how, o, list, parts) ==
    [kind |-> how, node |-> n, object |-> o, list |-> list, parts |-> parts]
Aggregate(n, calls)      == [kind |-> "aggregate", node |-> n, calls |-> calls,
                             parts |-> FlattenSeq([i \in DOMAIN calls |-> calls[i].parts])]

\* A text, or the exception ObjectNotFound, with what has changed.
Written(text, s) == [text |-> text, s |-> s, thrown |-> FALSE]
Thrown(s)        == [text |-> Nothing, s |-> s, thrown |-> TRUE]

-------------------------------------------------------------------------------
(* The recursion over the syntax tree. *)

RECURSIVE Write(_, _, _)

Item(n, expected) == [node |-> n, expected |-> expected]

\* Several expressions, one after the other.  A type that is not known cannot
\* be expected: an assertion.
And(a, r) ==
    IF a.thrown THEN a ELSE [parts |-> Append(a.parts, r.text), s |-> r.s, thrown |-> r.thrown]

WriteEach(items, s) ==
    FoldLeft(LAMBDA a, i :
                 And(a, Write(i.node, i.expected, HaltIf(i.expected.type.value = "unknown", a.s))),
             [parts |-> <<>>, s |-> s, thrown |-> FALSE], items)

WriteUnary(n, expected, s) ==
    LET operand == Write(NODES[n].operand, expected, HaltIf(expected.type.value = "unknown", s))
    IN  [operand EXCEPT !.text = IF operand.thrown THEN @ ELSE Unary(n, @)]

\* objectWithArguments: an actual more or less than the one of a conversion is
\* reported and leaves the answer to chance.
ObjectFits(o, actuals, expected, chance) ==
    IF o.id = "TYPE" THEN IF Len(actuals) = 1 THEN ArgumentFits(actuals[1], o.type) ELSE chance
    ELSE /\ o.id = "FUNCTION" => InterfaceMatches(o.formals, actuals)
         /\ o.type.value = "array" => IndexesFit(o.type, actuals)
         /\ TypeEquals(expected.type, IF o.type.value = "array" /\ actuals # <<>>
                                      THEN o.type.sub[1] ELSE o.type)

\* The test reports a miscast of every object it is put to: those around the
\* expression are only tested when no global one fits.
Found(best, name, actuals, s) ==
    LET tested  == {o \in Range(FindAll(scope, name)) : best.found /\ best.object.global => o.global}
        miscast == \E o \in tested : o.id = "TYPE" /\ Len(actuals) # 1
    IN  [best |-> best, s |-> ReportIf(miscast \/ best.ambiguous, s)]

FindFitting(name, actuals, expected, s) ==
    LET fitting == {o \in Range(FindAll(scope, name)) : ObjectFits(o, actuals, expected, s.chance)}
    IN  Found(FindOne(scope, name, fitting), name, actuals, s)

\* Pairs of operand types whose operation has the expected type; equal pairs
\* count once, in either order.
PairEquals(p, q) ==
    \/ TypeEquals(p[1], q[1]) /\ TypeEquals(p[2], q[2])
    \/ TypeEquals(p[1], q[2]) /\ TypeEquals(p[2], q[1])

TypePairs(e, expected, s) ==
    {p \in s.types[e.left] \X s.types[e.right] :
        \E t \in OperatorTypes(scope, e.op, p[1], p[2]) : TypeEquals(expected.type, t)}

\* The name a function for an operator is looked for by, and never has: it is
\* declared under the operator itself.
UserOperators ==
    ("/=" :> "Neq") @@ ("=" :> "Eq") @@ (">=" :> "Ge") @@ ("+" :> "Add") @@ ("-" :> "Sub")
    @@ ("&" :> "Concat") @@ ("**" :> "Pow")
    @@ [and |-> "And", or |-> "Or", nand |-> "Nand", nor |-> "Nor", xor |-> "Xor", xnor |-> "Xnor",
        mod |-> "Mod", rem |-> "Rem", sll |-> "Sll", srl |-> "Srl", sla |-> "Sla", sra |-> "Sra",
        rol |-> "Rol", ror |-> "Ror"]

\* An operator that is not found under its translated name is written as one
\* of C++.
OperationOf(n, operands, function) ==
    IF operands.thrown THEN Thrown(operands.s)
    ELSE Written(Operation(n, IF function.best.found THEN "function" ELSE "operation",
                           operands.parts[1], operands.parts[2]), function.s)

FindOperator(op, pair, expected, s) ==
    LET actuals == [i \in 1 .. 2 |-> [name |-> "", types |-> {pair[i]}]]
    IN  FindFitting(IF op \in DOMAIN UserOperators THEN UserOperators[op] ELSE op, actuals, expected, s)

WithOperands(n, pair, expected, operands) ==
    OperationOf(n, operands, FindOperator(NODES[n].op, pair, expected, operands.s))

\* operationToString: one pair of operand types, or an error and no text.
WriteOperation(n, expected, s) ==
    LET e      == NODES[n]
        pairs  == TypePairs(e, expected, s)
        unique == {p \in pairs : \A q \in pairs : PairEquals(q, p)}
        pair   == CHOOSE p \in unique : TRUE
    IN  IF unique = {} THEN Written(Nothing, Report(s))
        ELSE WithOperands(n, pair, expected,
                          WriteEach(<<Item(e.left, Expected(pair[1])), Item(e.right, Expected(pair[2]))>>, s))

-------------------------------------------------------------------------------
(* Calls. *)

\* Faulty form, for the mutation check only: the actuals that name their formal
\* are not counted.
IsActualOfUncounted(list, j, formal, place) ==
    IF list[j].formal # "" THEN list[j].formal = formal.name
    ELSE Cardinality({i \in 1 .. j : list[i].formal = ""}) = place

\* Whether an actual is for a formal: by its name, or by its place in the list.
IsActualOf(list, j, formal, place) ==
    IF list[j].formal # "" THEN list[j].formal = formal.name ELSE j = place

\* associateArgument: the default is written first, then every actual as if it
\* were for this formal, up to the first that is; one that cannot be written
\* with the type of the formal is passed over without a word.
Tried(a, isActual, r) ==
    CASE a.done -> a
      [] ~a.done /\ ~r.thrown /\ isActual -> [text |-> r.text, s |-> r.s, thrown |-> FALSE, done |-> TRUE]
      [] OTHER -> [a EXCEPT !.s = r.s]

TryEach(formal, place, list, default) ==
    FoldLeft(LAMBDA a, j : Tried(a, IsActualOf(list, j, formal, place),
                                 Write(list[j].actual, Expected(formal.type), a.s)),
             [text |-> default.text, s |-> default.s, thrown |-> default.thrown, done |-> default.thrown],
             [j \in DOMAIN list |-> j])

AssociateArgument(formal, place, list, s) ==
    TryEach(formal, place, list,
            IF formal.default = NoNode THEN Written(Nothing, s)
            ELSE Write(formal.default, Expected(formal.type), Collect(scope, formal.default, s)))

\* An object with what was written of its arguments.
ObjectOf(n, how, o, list, arguments) ==
    IF arguments.thrown THEN Thrown(arguments.s)
    ELSE Written(ObjectText(n, how, o, list, arguments.parts), arguments.s)

\* parametersToString: a formal that is left without a text is an error.
OrReport(r) == [r EXCEPT !.s = ReportIf(~r.thrown /\ r.text = Nothing, @)]

WriteParameters(n, o, list, s) ==
    LET formal(k) == o.formals[k]
    IN  ObjectOf(n, "call", o, list,
                 FoldLeft(LAMBDA a, k :
                              And(a, OrReport(AssociateArgument(formal(k), k, list,
                                                  HaltIf(formal(k).type.value = "unknown", a.s)))),
                          [parts |-> <<>>, s |-> s, thrown |-> FALSE],
                          [k \in DOMAIN o.formals |-> k]))

\* objectToString: an array is indexed or converted to, with assertions on the
\* number of arguments; anything else that has arguments is called, and so is a
\* subprogram without.
WriteObject(n, o, called, list, s) ==
    LET array == o.type.value = "array"
        type(i) == IF o.id = "TYPE" THEN o.type ELSE o.type.args[i]
        count == IF o.id = "TYPE" THEN 1 ELSE Len(o.type.args)
        how == IF o.id = "TYPE" THEN "conversion" ELSE "element"
    IN  CASE called /\ ~array -> WriteParameters(n, o, list, s)
          [] called /\ array /\ Len(list) # count -> Written(Nothing, Halt(s))
          [] called /\ array /\ Len(list) = count ->
                 ObjectOf(n, how, o, list,
                          WriteEach([i \in DOMAIN list |-> Item(list[i].actual, Expected(type(i)))], s))
          [] OTHER -> Written(ObjectText(n, IF ~array /\ o.id \in {"FUNCTION", "PROCEDURE"}
                                            THEN "call" ELSE "object", o, <<>>, <<>>), s)

-------------------------------------------------------------------------------
(* Names. *)

\* findAttributeMatch: the first object whose attribute has the expected type;
\* further ones are reported, and so are objects without that attribute.
AttributeMatches(n, expected) ==
    SelectSeq(FindAll(scope, NODES[n].name),
              LAMBDA o : TypeEquals(expected.type, AttributeType(o.type, NODES[n].attribute).type))

\* attributeToString: of several arguments the last one is kept.
LastOnly(arguments) ==
    [arguments EXCEPT !.parts = IF @ = <<>> THEN <<>> ELSE <<Last(@)>>]

WriteAttribute(n, expected, s) ==
    LET all     == FindAll(scope, NODES[n].name)
        asked   == {AttributeType(all[i].type, NODES[n].attribute) : i \in DOMAIN all}
        matches == AttributeMatches(n, expected)
        list    == NODES[n].arguments
        t       == HaltIf(\E a \in asked : a.halted,
                          ReportIf(Len(matches) # 1 \/ \E a \in asked : a.reported, s))
    IN  IF matches = <<>> THEN Written(ObjectText(n, "attribute", NoObject, list, <<>>), t)
        ELSE ObjectOf(n, "attribute", matches[1], list,
                 LastOnly(WriteEach([i \in DOMAIN list |-> Item(list[i].actual, Expected(matches[1].type))], t)))

\* basicIdentifierToString: the arguments are put through the first pass again;
\* a signal or port that is read is given to the callback.
WriteFitting(n, f) ==
    LET o == f.best.object
        t == IF o.id \in {"SIGNAL", "PORT"} THEN [f.s EXCEPT !.heard = @ \cup {o.name}] ELSE f.s
    IN  IF f.best.found THEN WriteObject(n, o, NODES[n].called, NODES[n].arguments, t) ELSE Thrown(f.s)

WriteNameWith(n, expected, a) ==
    IF NODES[n].attribute # "" THEN WriteAttribute(n, expected, a.s)
    ELSE WriteFitting(n, FindFitting(NODES[n].name, a.actuals, expected, a.s))

WriteName(n, expected, s) ==
    WriteNameWith(n, expected, CollectArguments(scope, NODES[n].arguments, s))

-------------------------------------------------------------------------------
(* Aggregates. *)

\* The calls an aggregate consists of: others first, then what is listed or
\* chosen; a list of choices without a value is lost.
OthersCalls(element) ==
    LET others == SelectSeq(element.choices, LAMBDA c : c.kind = "others")
    IN  [i \in DOMAIN others |-> [set |-> "setOthers", nodes |-> <<element.value>>]]

ElementCalls(element) ==
    LET chosen == SelectSeq(element.choices, LAMBDA c : c.kind # "others")
    IN  IF element.value # NoNode
        THEN [i \in DOMAIN chosen |->
                 IF chosen[i].kind = "at"
                 THEN [set |-> "setElement", nodes |-> <<chosen[i].index, element.value>>]
                 ELSE [set |-> "setRange", nodes |-> <<chosen[i].left, chosen[i].right, element.value>>]]
        ELSE IF Len(element.choices) = 1 THEN <<[set |-> "next", nodes |-> <<Single(element)>>]>> ELSE <<>>

\* parenthisExpressionTermToString: indexes are written with the type expected
\* of the elements, too.  Whether a listed element is a part of the array or an
\* element is seen from its type, which is collected after it was written.
AddListed(a, parts, u) ==
    LET how == IF u.unique.found /\ u.unique.type.value = "array" THEN "setArray" ELSE "setIndex"
    IN  [a EXCEPT !.calls = Append(@, [set |-> how, parts |-> parts]), !.s = u.s]

AddCall(a, c, e, r) ==
    CASE a.thrown -> a
      [] ~a.thrown /\ r.thrown -> [a EXCEPT !.thrown = TRUE, !.s = r.s]
      [] ~a.thrown /\ ~r.thrown /\ c.set # "next" ->
             [a EXCEPT !.calls = Append(@, [set |-> c.set, parts |-> r.parts]), !.s = r.s]
      [] ~a.thrown /\ ~r.thrown /\ c.set = "next" /\ e.array ->
             AddListed(a, r.parts, CollectUnique(scope, c.nodes[1], e, r.s))
      [] OTHER -> [a EXCEPT !.calls = <<[set |-> "value", parts |-> r.parts]>>, !.s = r.s]

AggregateOf(n, a) == IF a.thrown THEN Thrown(a.s) ELSE Written(Aggregate(n, a.calls), a.s)

WriteParenthesis(n, expected, s) ==
    LET list == NODES[n].elements
        e    == IF expected.array THEN ExpectedElement(expected) ELSE expected
        calls == FlattenSeq([i \in DOMAIN list |-> OthersCalls(list[i])])
                 \o FlattenSeq([i \in DOMAIN list |-> ElementCalls(list[i])])
        writes(c) == [i \in DOMAIN c.nodes |-> Item(c.nodes[i], e)]
    IN  IF LostSubtype(e) \/ \E i \in DOMAIN calls : NoNode \in ToSet(calls[i].nodes)
        THEN Written(Nothing, Halt(s))
        ELSE AggregateOf(n, FoldLeft(LAMBDA a, c : AddCall(a, c, e, WriteEach(writes(c), a.s)),
                                     [calls |-> <<>>, s |-> s, thrown |-> FALSE], calls))

\* expressionToString, expressionTermToString.  A unit must be declared.
Write(n, expected, s) ==
    LET kind == NODES[n].kind
        unit == FindOne(scope, NODES[n].unit, {o \in Range(scope) : o.id = "ENUM"})
    IN  CASE kind = "unary"       -> WriteUnary(n, expected, s)
          [] kind = "operation"   -> WriteOperation(n, expected, s)
          [] kind = "parenthesis" -> WriteParenthesis(n, expected, s)
          [] kind = "name"        -> WriteName(n, expected, s)
          [] kind = "physical"    -> Written(Literal(n), HaltIf(~unit.found, ReportIf(~unit.found \/ unit.ambiguous, s)))
          [] OTHER                -> Written(Literal(n), s)

-------------------------------------------------------------------------------
(* Declarations and statements. *)

Init ==
    /\ pending \in PROGRAMS
    /\ scope = <<>>
    /\ types = [n \in DOMAIN NODES |-> {}]
    /\ work = <<>>
    /\ collected = FALSE
    /\ texts = <<>>
    /\ last = <<>>
    /\ reported = FALSE
    /\ heard = {}
    /\ halted = FALSE

Current(chance) ==
    [types |-> types, reported |-> reported, heard |-> heard, halted |-> halted, chance |-> chance]

Becomes(s) ==
    types' = s.types /\ reported' = s.reported /\ heard' = s.heard /\ halted' = s.halted

\* What an uninitialised result of objectWithArguments holds.
Chances == BOOLEAN

Now    == pending[1]
Ready(kind) == ~halted /\ work = <<>> /\ pending # <<>> /\ Now.kind = kind
Statement == pending' = Tail(pending) /\ last' = <<>>

Job(n, expected, guarded) == [node |-> n, expected |-> expected, guarded |-> guarded]

\* addObjectValueContainer, addFunction: an object is seen behind its
\* declaration, in its own initial value, too, which is not guarded.
Declare ==
    /\ Ready("declare")
    /\ Statement
    /\ scope' = Append(scope, Now.object)
    /\ work' = IF Now.value = NoNode THEN <<>> ELSE <<Job(Now.value, Expected(Now.type), FALSE)>>
    /\ texts' = <<>> /\ collected' = FALSE
    /\ UNCHANGED <<types, reported, heard, halted>>

\* endClass: what was declared in the class is out of sight.
Leave ==
    /\ Ready("leave")
    /\ Statement
    /\ scope' = SelectSeq(scope, LAMBDA o : o.global \/ o.depth < Now.depth)
    /\ UNCHANGED <<types, work, collected, texts, reported, heard, halted>>

\* The expressions of an assignment with conditions, in the order of their text.
AssignedJobs(values, type) ==
    FlattenSeq([i \in DOMAIN values |->
        (IF values[i].condition = NoNode THEN <<>>
         ELSE <<Job(values[i].condition, Expected(TypeOfValue("boolean")), TRUE)>>)
        \o <<Job(values[i].value, Expected(type), TRUE)>>])

\* assignment: the target, a name, is written and typed; its type is expected of the
\* values.
Target ==
    /\ Ready("assign")
    /\ Statement
    /\ \E chance \in Chances :
       \E r \in {Write(Now.target, AnyExpected, Current(chance))} :
           \/ /\ r.thrown
              /\ Becomes(Report(r.s)) /\ work' = <<>> /\ texts' = <<>>
           \/ /\ ~r.thrown
              /\ \E t \in {Collect(scope, Now.target, r.s)} :
                     LET u == UniqueType(t.types[Now.target], AnyExpected)
                     IN  /\ Becomes(HaltIf(u.type.value = "unknown" /\ u.found, ReportIf(~u.found, t)))
                         /\ work' = IF u.found THEN AssignedJobs(Now.values, u.type) ELSE <<>>
              /\ texts' = <<r.text>>
    /\ collected' = FALSE
    /\ UNCHANGED scope

\* returnStatement: the type that the subprogram returns.
Return ==
    /\ Ready("return")
    /\ Statement
    /\ work' = <<Job(Now.value, Expected(Now.type), TRUE)>>
    /\ texts' = <<>> /\ collected' = FALSE
    /\ UNCHANGED <<scope, types, reported, heard, halted>>

\* rangeToString: both bounds are typed and compared before they are written.
Bounds ==
    /\ Ready("range")
    /\ Statement
    /\ \E chance \in Chances :
       \E l \in {CollectUnique(scope, Now.left, Expected(Now.type), Current(chance))} :
       \E r \in {CollectUnique(scope, Now.right, Expected(Now.type), l.s)} :
           Becomes(ReportIf(~TypeEquals(l.unique.type, r.unique.type), r.s))
    /\ work' = <<Job(Now.left, Expected(Now.type), FALSE), Job(Now.right, Expected(Now.type), FALSE)>>
    /\ texts' = <<>> /\ collected' = FALSE
    /\ UNCHANGED scope

\* procedureCallStatement: nothing catches what an actual throws.
Call ==
    /\ Ready("call")
    /\ pending' = Tail(pending)
    /\ \E chance \in Chances :
       \E a \in {CollectArguments(scope, Now.arguments, Current(chance))} :
           LET f == FindOne(scope, Now.name,
                            {o \in Range(FindAll(scope, Now.name)) :
                                 o.id = "PROCEDURE" /\ InterfaceMatches(o.formals, a.actuals)})
               s == ReportIf(~f.found \/ f.ambiguous, a.s)
           IN  \E r \in {IF f.found THEN WriteObject(NoNode, f.object, Now.called, Now.arguments, s)
                          ELSE Written(Nothing, s)} :
                   Becomes(HaltIf(r.thrown, r.s)) /\ texts' = <<r.text>>
    /\ last' = <<>> /\ collected' = FALSE
    /\ UNCHANGED <<scope, work>>

\* collectAllReturnTypes
FirstPass ==
    /\ ~halted /\ work # <<>> /\ ~collected
    /\ \E chance \in Chances : Becomes(Collect(scope, work[1].node, Current(chance)))
    /\ collected' = TRUE
    /\ UNCHANGED <<pending, scope, work, texts, last>>

\* expressionToString.  ObjectNotFound is caught around a sequential statement,
\* of which nothing more is written.
SecondPass ==
    /\ ~halted /\ work # <<>> /\ collected
    /\ \E chance \in Chances :
       \E r \in {Write(work[1].node, work[1].expected, Current(chance))} :
           \/ /\ r.thrown
              /\ Becomes(IF work[1].guarded THEN Report(r.s) ELSE Halt(r.s))
              /\ work' = <<>> /\ texts' = texts
           \/ /\ ~r.thrown
              /\ Becomes(r.s)
              /\ work' = Tail(work) /\ texts' = Append(texts, r.text)
    /\ last' = <<work[1]>>
    /\ collected' = FALSE
    /\ UNCHANGED <<pending, scope>>

Next == Declare \/ Leave \/ Target \/ Return \/ Bounds \/ Call \/ FirstPass \/ SecondPass

Spec == Init /\ [][Next]_vars

-------------------------------------------------------------------------------
(* Properties. *)

Silent == ~reported /\ ~halted

RECURSIVE PartsOf(_)
PartsOf(text) ==
    {text} \cup (IF text.kind \in {"nothing", "literal"} THEN {}
                 ELSE UNION {PartsOf(text.parts[i]) : i \in DOMAIN text.parts})

Calls == {t \in UNION {PartsOf(texts[i]) : i \in DOMAIN texts} :
             t.kind = "call" /\ t.object.id \in {"FUNCTION", "PROCEDURE"} /\ t.list # <<>>}

\* The actuals a list gives a formal, as the language has it: by place up to the
\* first name, by name from there on.
Given(list, formal, k) ==
    {j \in DOMAIN list : IF list[j].formal = "" THEN j = k ELSE list[j].formal = formal.name}

\* An actual that no object can be found for with the type of the formal.
Unwritable(n, type) == \E chance \in Chances : Write(n, Expected(type), Current(chance)).thrown

\* What a call passes: a formal gets the actual the list gives it, and its
\* default if the list gives it none.
PassesWhatIsGiven(call) ==
    LET formals == call.object.formals
        given(k) == {call.list[j].actual : j \in Given(call.list, formals[k], k)}
        fit(k)   == {n \in given(k) : ~Unwritable(n, formals[k].type)}
    IN  /\ \A k \in DOMAIN formals :
               \E nodes \in {fit(k)} :
                   call.parts[k].node \in IF nodes = {} THEN {formals[k].default} ELSE nodes
        /\ \A j \in DOMAIN call.list : \E k \in DOMAIN formals : j \in Given(call.list, formals[k], k)

\* The two associations of a call are made by different code: matches decides
\* whether the call is one of the subprogram, associateArgument which text each
\* formal gets.  In text written without an error every actual is given to a
\* formal, and every formal gets an actual that is given to it, or its default
\* if there is none.  The default also replaces an actual whose name turns out
\* to have no object of the formal's type: the exception is caught and dropped.
CallsPassWhatIsGiven == Silent => \A call \in Calls : PassesWhatIsGiven(call)

\* The syntax tree keeps the types of a pass for the next one: the generator
\* converts ranges, defaults and actuals several times.  An expression that was
\* written without an error would be written the same again, and nothing would
\* be added to what was collected for it.
WritingAgainIsTheSame ==
    (Silent /\ last # <<>>) =>
        \A chance \in Chances :
        \A s \in {Collect(scope, last[1].node, Current(chance))} :
        \A r \in {Write(last[1].node, last[1].expected, s)} :
            s.types = types /\ r.s.types = types /\ ~r.thrown /\ r.text = texts[Len(texts)]
=============================================================================
