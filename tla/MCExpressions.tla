----------------------------- MODULE MCExpressions -----------------------------
(***************************************************************************)
(* Expressions on programs over integers, reals, booleans, bits, arrays of *)
(* them and a time, with overloaded subprograms, defaults and operators.   *)
(***************************************************************************)
EXTENDS Expressions

-------------------------------------------------------------------------------
(* Syntax trees. *)

Leaf(name)        == [kind |-> "name", name |-> name, attribute |-> "", called |-> FALSE, arguments |-> <<>>]
Calling(name, list) == [kind |-> "name", name |-> name, attribute |-> "", called |-> TRUE, arguments |-> list]
Attribute(name, attribute, list) ==
    [kind |-> "name", name |-> name, attribute |-> attribute, called |-> list # <<>>, arguments |-> list]
Binary(l, o, r)   == [kind |-> "operation", op |-> o, left |-> l, right |-> r]
Number(value)     == [kind |-> "number", value |-> value]
Parenthesis(list) == [kind |-> "parenthesis", elements |-> list]

Actual(n)         == [formal |-> "", actual |-> n]
Named(f, n)       == [formal |-> f, actual |-> n]
At(n)             == [kind |-> "at", index |-> n]
Others            == [kind |-> "others"]
To(l, r)          == [kind |-> "range", left |-> l, right |-> r]
Listed(n)         == [choices |-> <<At(n)>>, value |-> NoNode]
Chosen(c, n)      == [choices |-> <<c>>, value |-> n]

MCNodes ==
    [i |-> Leaf("I"), j |-> Leaf("J"), k |-> Leaf("K"), b |-> Leaf("B"), r |-> Leaf("R"),
     x |-> Leaf("X"), s |-> Leaf("S"), v |-> Leaf("V"), m |-> Leaf("M"), w |-> Leaf("W"),
     z |-> Leaf("Z"), f |-> Leaf("F"), t |-> Leaf("T"), bit |-> Leaf("BIT"),
     one |-> Number("integer"), half |-> Number("real"),
     low |-> [kind |-> "character", name |-> "0"],
     text |-> [kind |-> "string"],
     ns |-> [kind |-> "physical", unit |-> "NS"], days |-> [kind |-> "physical", unit |-> "DAYS"],
     notb |-> [kind |-> "unary", operand |-> "b"], minus |-> [kind |-> "unary", operand |-> "sum"],
     sum |-> Binary("i", "+", "one"), sums |-> Binary("j", "+", "sum"), mixed |-> Binary("i", "+", "half"),
     stale |-> Binary("k", "+", "one"), equal |-> Binary("i", "=", "sum"),
     both |-> Binary("b", "and", "equal"), anded |-> Binary("s", "and", "low"),
     joined |-> Binary("v", "&", "v"), shown |-> Binary("text", "&", "image"), xored |-> Binary("s", "xor", "low"),
     doubled |-> Binary("g1", "+", "g2"), less |-> Binary("i", "<=", "j"),
     g1 |-> Calling("G", <<Actual("i")>>), g2 |-> Calling("G", <<Actual("sum")>>),
     gb |-> Calling("G", <<Actual("b")>>), gg |-> Calling("G", <<Actual("g1")>>),
     f1 |-> Calling("F", <<Actual("sum"), Named("C", "j")>>),
     f2 |-> Calling("F", <<Named("C", "one"), Named("A", "gg")>>),
     f3 |-> Calling("F", <<Actual("one")>>),
     h1 |-> Calling("H", <<Actual("one"), Actual("b")>>), h2 |-> Calling("H", <<Actual("sum"), Actual("b")>>),
     v1 |-> Calling("V", <<Actual("sum")>>), v2 |-> Calling("V", <<Actual("i"), Actual("j")>>),
     m1 |-> Calling("M", <<Actual("i"), Actual("j")>>), vb |-> Calling("V", <<Actual("b")>>),
     cast |-> Calling("VECTOR", <<Actual("v")>>), miscast |-> Calling("VECTOR", <<Actual("v"), Actual("v")>>),
     int |-> Calling("INTEGER", <<Actual("i")>>),
     image |-> Attribute("INTEGER", "IMAGE", <<Actual("sum")>>), high |-> Attribute("V", "HIGH", <<>>),
     length |-> Attribute("V", "LENGTH", <<>>), event |-> Attribute("S", "EVENT", <<>>),
     odd |-> Attribute("I", "ODD", <<>>), missing |-> Attribute("Z", "HIGH", <<>>),
     next |-> Binary("high", "+", "one"),
     inner |-> Parenthesis(<<Listed("sum")>>), outer |-> Binary("i", "+", "inner"),
     lows |-> Parenthesis(<<Chosen(Others, "low")>>),
     list |-> Parenthesis(<<Listed("s"), Listed("low")>>),
     parts |-> Parenthesis(<<Listed("v"), Listed("low")>>),
     named |-> Parenthesis(<<Chosen(At("one"), "low"), Chosen(Others, "s")>>),
     span |-> Parenthesis(<<Chosen(To("one", "j"), "low"), Chosen(Others, "s")>>),
     spans |-> Parenthesis(<<Chosen(To("one", "one"), "low"), Chosen(Others, "s")>>),
     summed |-> Parenthesis(<<Listed("sum"), Listed("one")>>),
     ints |-> Parenthesis(<<Listed("one"), Listed("g1")>>),
     rows |-> Parenthesis(<<Listed("list"), Listed("lows")>>),
     either |-> Parenthesis(<<[choices |-> <<At("one"), At("i")>>, value |-> NoNode], Listed("low")>>)]

-------------------------------------------------------------------------------
(* Types and objects. *)

Integer == TypeNamed("integer", "INTEGER")
Double  == TypeNamed("real", "REAL")
Boolean == TypeNamed("boolean", "")
Bit     == TypeNamed("enumeration", "BIT")
Time    == TypeNamed("physical", "TIME")
Vector  == ArrayType(<<Integer>>, Bit)
Ints    == ArrayType(<<Integer>>, Integer)
Matrix  == ArrayType(<<Integer, Integer>>, Bit)
Vectors == ArrayType(<<Integer>>, Vector)
Text    == ArrayType(<<Integer>>, TypeNamed("enumeration", "CHARACTER"))

Object(id, name, type)     == [id |-> id, name |-> name, type |-> type, formals |-> <<>>, depth |-> 3, global |-> FALSE]
Library(id, name, type)    == [Object(id, name, type) EXCEPT !.global = TRUE, !.depth = 2]
Function(name, formals, type) == [Object("FUNCTION", name, type) EXCEPT !.formals = formals]
Deeper(o)                  == [o EXCEPT !.depth = 4]
Formal(name, type, default) == [name |-> name, type |-> type, default |-> default]

Seen(o)            == [kind |-> "declare", object |-> o, value |-> NoNode, type |-> o.type]
Initially(o, n)    == [Seen(o) EXCEPT !.value = n]
Assign(target, n)  == [kind |-> "assign", target |-> target, values |-> <<[condition |-> NoNode, value |-> n]>>]
When(target, n, c, m) == [Assign(target, n) EXCEPT !.values = <<[condition |-> c, value |-> n],
                                                              [condition |-> NoNode, value |-> m]>>]
Returned(type, n)  == [kind |-> "return", type |-> type, value |-> n]
Ranging(type, l, r) == [kind |-> "range", type |-> type, left |-> l, right |-> r]
Invoke(list)       == [kind |-> "call", name |-> "P", called |-> list # <<>>, arguments |-> list]
End                == [kind |-> "leave", depth |-> 4]

Variable(name, type) == Seen(Object("VARIABLE", name, type))
Numbers == <<Variable("I", Integer), Variable("J", Integer), Variable("B", Boolean)>>
Bits    == <<Seen(Library("TYPE", "BIT", Bit)), Seen(Library("ENUM", "0", Bit)),
             Seen(Object("SIGNAL", "S", Bit)), Variable("V", Vector)>>
G       == <<Seen(Function("G", <<Formal("A", Integer, NoNode)>>, Integer)),
             Seen(Function("G", <<Formal("A", Boolean, NoNode)>>, Boolean))>>
Operator(op, type) == Seen(Function(op, <<Formal("L", type, NoNode), Formal("R", type, NoNode)>>, type))
Standard == <<Seen(Library("TYPE", "INTEGER", Integer)), Seen(Library("TYPE", "VECTOR", Vector)),
              Seen(Library("ENUM", "NS", Time))>>

-------------------------------------------------------------------------------
(* Calls of a procedure: every list of up to two actuals, and of three that    *)
(* differ in what they name.                                                    *)

Profiles ==
    {<<Formal("A", Integer, NoNode)>>,
     <<Formal("A", Integer, NoNode), Formal("C", Integer, "one")>>,
     <<Formal("A", Integer, "i"), Formal("C", Integer, "stale")>>,
     <<Formal("A", Integer, NoNode), Formal("C", Boolean, "b"), Formal("E", Integer, "one")>>}

Element(actuals) == {Named(f, n) : f \in {"", "A", "C"}, n \in actuals}
Actuals ==
    UNION {[1 .. n -> Element({"i", "b", "gb", "sum"})] : n \in 1 .. 2}
    \cup [1 .. 3 -> Element({"one"})]

Procedure(formals) == Seen([Function("P", formals, TypeOfValue("none")) EXCEPT !.id = "PROCEDURE"])

CallPrograms ==
    {Numbers \o G \o <<Variable("K", Integer), Procedure(p), Invoke(a)>> : p \in Profiles, a \in Actuals}

\* Two overloads, a default that is used in two scopes, and calls that fail.
OverloadPrograms ==
    {Numbers \o G \o <<Procedure(<<Formal("A", Integer, NoNode)>>), Procedure(p), Variable("K", Integer), Invoke(a),
                  Variable("K", Double), Invoke(<<Actual("i")>>)>> :
        p \in Profiles \cup {<<Formal("A", Boolean, NoNode)>>},
        a \in {<<>>, <<Actual("i")>>, <<Actual("b")>>, <<Actual("z")>>, <<Actual("gb")>>, <<Actual("i"), Actual("b")>>}}
    \cup {Numbers \o <<Procedure(<<Formal("A", Integer, "stale")>>), Variable("K", Integer),
                       Invoke(<<Named("A", "one")>>), Seen(Deeper(Object("VARIABLE", "K", d))),
                       Invoke(<<Named("A", "i")>>), End, Invoke(<<Named("A", "one")>>)>> :
            d \in {Integer, Double, Boolean}}

-------------------------------------------------------------------------------
(* Assignments, initial values, ranges and results. *)

F == <<Seen(Function("F", <<Formal("A", Integer, NoNode), Formal("C", Integer, "one")>>, Integer)),
       Seen(Function("H", <<Formal("A", Integer, NoNode), Formal("C", Boolean, NoNode)>>, Integer))>>

AssignPrograms ==
    {Numbers \o G \o F \o <<Variable("R", Double), Assign(to, n)>> :
        to \in {"i", "b", "r"},
        n \in {"i", "z", "one", "half", "notb", "minus", "sum", "sums", "mixed", "equal", "both", "doubled", "less",
               "g1", "gb", "gg", "f", "f1", "f2", "f3", "h1", "h2", "inner", "outer", "odd", "missing"}}
    \cup {Numbers \o G \o Bits \o Standard \o <<Variable("M", Matrix), Variable("W", Vectors), Variable("X", Ints), Variable("T", Time),
                             Operator("and", Bit), Variable("N", Text), Assign(to, n)>> :
        to \in {"s", "v", "m", "w", "x", "v1", "v2", "m1", "t", "z", "bit", "b", "i"},
        n \in {"low", "s", "v", "text", "anded", "xored", "joined", "shown", "v1", "vb", "cast", "miscast", "int", "image", "high",
               "length", "next", "event", "lows", "list", "parts", "named", "span", "spans", "summed", "ints", "rows",
               "either", "ns", "days"}}

OtherPrograms ==
    {Numbers \o G \o Standard \o s :
        s \in {<<Initially(Object("VARIABLE", "K", Integer), n), Returned(t, n), When("i", n, c, "one")>> :
                   n \in {"k", "sum", "z", "gb", "stale"}, t \in {Integer, Boolean}, c \in {"b", "equal", "i", "z"}}
              \cup {<<Ranging(t, l, r)>> : t \in {Integer, TypeOfValue("number"), UnknownType},
                                           l \in {"one", "i", "b", "g1", "z"}, r \in {"one", "sum", "half", "gb"}}}

MCPrograms == CallPrograms \cup OverloadPrograms \cup AssignPrograms \cup OtherPrograms
=============================================================================
