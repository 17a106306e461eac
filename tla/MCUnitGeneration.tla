--------------------------- MODULE MCUnitGeneration ---------------------------
(***************************************************************************)
(* Files for UnitGeneration: an entity and its architecture, or a package  *)
(* and its body, filled with every sequence of up to two of the items that *)
(* a definition below lists.                                               *)
(***************************************************************************)
EXTENDS UnitGeneration

MCNames == {"pack", "test", "arch", "other", "a", "b", "c", "f", "g", "h", "i", "p",
            "red", "s", "v", "w", "x", "missing"}
MCTypes == {"INTEGER", "BOOLEAN", "COLOR", "LENGTH", "VECTOR", "SMALL", "MISSING"}

\* The package STANDARD, and a package with a constant.
MCLoaded ==
  <<[kind |-> "PACKAGE", name |-> "pack", base |-> NoName, path |-> <<1>>, active |-> FALSE,
     names |-> <<Entry("INTEGER", "TYPE", "INTEGER"), Entry("BOOLEAN", "TYPE", "BOOLEAN"),
                 Entry("g", "CONSTANT", "INTEGER")>>]>>

UpTo(n, items) == UNION {[1 .. k -> items] : k \in 0 .. n}
-----------------------------------------------------------------------------
Wait      == [node |-> "wait"]
Call      == [node |-> "call", name |-> "w", reads |-> <<>>]
CallOf(x) == [node |-> "call", name |-> "missing", reads |-> <<x>>]
Return(r) == [node |-> "return", reads |-> r]
Assign(target, r, signal) ==
  [node |-> "assignment", target |-> target, reads |-> r, signal |-> signal]
If(r, body) == [node |-> "condition", reads |-> r, body |-> body]
For(iteration, r, body) ==
  [node |-> "for", name |-> "i", iteration |-> iteration, reads |-> r, body |-> body]

SimpleStatements ==
  {Wait, Call, CallOf("c"), Assign("v", <<"c">>, FALSE), Assign("v", <<"i">>, FALSE),
   Assign("s", <<"p", "v">>, TRUE), Assign("s", <<"missing">>, TRUE), Return(<<"x">>),
   Assign("missing", <<>>, FALSE)}
BodyStatements ==
  {Wait, Call, CallOf("c"), Assign("v", <<"c">>, FALSE), Assign("s", <<"p", "v">>, TRUE),
   Assign("s", <<"missing">>, TRUE), Assign("missing", <<>>, FALSE),
   If(<<"b">>, <<Wait>>), If(<<"missing">>, <<Assign("v", <<"i">>, FALSE)>>),
   For(NoType, <<"c">>, <<Assign("v", <<"i">>, FALSE)>>), For(NoType, <<"c">>, <<Wait>>),
   For("COLOR", <<>>, <<>>), For("c", <<>>, <<>>), For("MISSING", <<>>, <<>>),
   For(NoType, <<"missing">>, <<>>)}
MCStatements ==
  SimpleStatements \cup BodyStatements \cup
  {Return(<<"missing">>), Return(<<>>), Assign("v", <<"x">>, FALSE)}
  \cup {Assign("s", r, TRUE) : r \in {<<"p">>, <<"s", "p">>, <<"i">>}}
-----------------------------------------------------------------------------
Ranged(kind, name, range, r) ==
  [node |-> "object", kind |-> kind, name |-> name, type |-> "INTEGER", range |-> range,
   reads |-> r]
Object(kind, name, type, r) == [Ranged(kind, name, <<>>, r) EXCEPT !.type = type]
Type(name, base, literals, r, physical) ==
  [node |-> "type", name |-> name, base |-> base, literals |-> literals, reads |-> r,
   physical |-> physical]
Subtype(base, r) == [node |-> "subtype", name |-> "SMALL", base |-> base, reads |-> r]
Function(name, type, parameters, hasBody, decls, stmts) ==
  [node |-> "function", name |-> name, type |-> type, parameters |-> parameters,
   hasBody |-> hasBody, decls |-> decls, stmts |-> stmts]
Alias(of, r) == [node |-> "alias", name |-> "a", of |-> of, reads |-> r]

SignalS   == Object("SIGNAL", "s", "INTEGER", <<>>)
SignalB   == Object("SIGNAL", "b", "BOOLEAN", <<>>)
PortP     == Object("PORT", "p", "INTEGER", <<>>)
ConstantC == Object("CONSTANT", "c", "INTEGER", <<>>)
VariableV == Object("VARIABLE", "v", "INTEGER", <<"c">>)
VariableI == Object("VARIABLE", "v", "INTEGER", <<"i">>)
Argument  == Object("PARAMETER", "x", "INTEGER", <<>>)
Color     == Type("COLOR", NoType, <<"red">>, <<>>, FALSE)
FunctionF == Function("f", "INTEGER", <<Argument>>, TRUE, <<>>, <<Return(<<"x">>)>>)
FunctionH == Function("h", "BOOLEAN", <<>>, TRUE, <<>>,
                      <<Assign("v", <<"x">>, FALSE), Return(<<"missing">>), Return(<<>>)>>)
ProcedureW == Function("w", NoType, <<>>, TRUE, <<>>, <<Wait>>)

Varied ==
  {Color, Type("LENGTH", NoType, <<"red">>, <<"c">>, TRUE),
   Type("VECTOR", "INTEGER", <<>>, <<"c">>, FALSE), Type("VECTOR", "MISSING", <<>>, <<>>, FALSE),
   Type("SMALL", NoType, <<>>, <<"missing">>, FALSE),
   Subtype("INTEGER", <<"c">>), Subtype("MISSING", <<>>),
   VariableV, Object("VARIABLE", "v", "SMALL", <<>>), Object("CONSTANT", "c", "INTEGER", <<"g">>),
   Object("VARIABLE", "v", "INTEGER", <<"missing">>),
   Ranged("VARIABLE", "v", <<"c">>, <<"c">>), Ranged("PORT", "p", <<"c">>, <<>>),
   Ranged("CONSTANT", "c", <<"missing">>, <<>>),
   Alias("v", <<"c">>), Alias("missing", <<>>), Alias("c", <<"missing">>),
   FunctionF, Function("f", "INTEGER", <<Argument>>, FALSE, <<>>, <<>>), ProcedureW,
   Function("g", "INTEGER", <<Argument>>, TRUE, <<VariableV, FunctionH>>, <<Return(<<"x">>)>>),
   Function("g", "MISSING", <<>>, TRUE, <<Color>>, <<Assign("v", <<"c">>, FALSE)>>)}
MCDeclarations ==
  Varied \cup {SignalS, SignalB, PortP, ConstantC, VariableV, VariableI, Argument,
                 FunctionH}
-----------------------------------------------------------------------------
Process(sensitivity, all, decls, stmts) ==
  [node |-> "process", sensitivity |-> sensitivity, all |-> all, concurrent |-> FALSE,
   decls |-> decls, stmts |-> stmts]
Concurrent(r) ==
  [node |-> "process", sensitivity |-> <<>>, all |-> TRUE, concurrent |-> TRUE,
   decls |-> <<>>, stmts |-> <<Assign("s", r, TRUE)>>]
Block(decls, conc) == [node |-> "block", decls |-> decls, conc |-> conc]
Generate(iteration, r, decls, conc) ==
  [node |-> "generate", name |-> "i", iteration |-> iteration, reads |-> r,
   decls |-> decls, conc |-> conc]
Component(formals, actuals) ==
  [node |-> "instance", entity |-> "test", formals |-> formals, actuals |-> actuals]

Idle    == Process(<<>>, FALSE, <<VariableV>>, <<Wait>>)
Copy    == Concurrent(<<"p">>)
UseOfI  == Concurrent(<<"i">>)
OverI   == Generate("i", <<>>, <<>>, <<UseOfI>>)
Inner   == Generate(NoType, <<"c">>, <<ConstantC>>, <<UseOfI>>)
OverC   == Generate("c", <<>>, <<ConstantC>>, <<OverI, UseOfI>>)
ConcurrentItems ==
  {Copy, Concurrent(<<"s", "p">>), Idle, Process(<<"s", "missing">>, FALSE, <<>>, <<Wait>>),
   Block(<<SignalS>>, <<Copy, Component(<<"p">>, <<"s">>)>>),
   Block(<<Type("LENGTH", NoType, <<"red">>, <<"c">>, TRUE)>>, <<Inner>>),
   Inner, Generate("INTEGER", <<>>, <<VariableI>>, <<Idle>>),
   Block(<<>>, <<OverC>>),
   Generate("MISSING", <<>>, <<>>, <<>>), Generate(NoType, <<"missing">>, <<>>, <<>>),
   Component(<<"p">>, <<"s">>), Component(<<"p", "missing">>, <<"s", "s">>),
   Component(<<"p">>, <<"missing">>)}
Processes ==
  {Process(sensitivity, all, <<VariableV, ProcedureW>>, stmts) :
     sensitivity \in {<<"s">>}, all \in BOOLEAN, stmts \in UpTo(2, BodyStatements)}
MCConcurrents == ConcurrentItems \cup Processes
                 \cup {UseOfI, Inner, OverC, OverI}
                 \cup {Process(<<>>, FALSE, <<>>, <<s>>) : s \in BodyStatements}
-----------------------------------------------------------------------------
Unit(kind, name, base, decls, conc) ==
  [node |-> kind, name |-> name, base |-> base, decls |-> decls, conc |-> conc]
Test  == Unit("ENTITY", "test", NoName, <<PortP>>, <<>>)
Other == Unit("ENTITY", "other", NoName, <<PortP>>, <<>>)
Architecture(decls, conc) ==
  Unit("ARCHITECTURE", "arch", "test", <<ConstantC, SignalS, SignalB>> \o decls, conc)
Package(kind, decls) == Unit(kind, "a", NoName, decls, <<>>)

\* One process with every body of two statements.
BodyFiles == {<<Test, Architecture(<<Color>>, <<p>>)>> : p \in Processes}
\* Every two declarations, in a package and its body, or in an architecture.
DeclarationFiles ==
  {<<Package("PACKAGE", <<ConstantC>>), Package("PACKAGE_BODY", ds)>> : ds \in UpTo(2, Varied)}
  \cup {<<Test, Architecture(<<d>>, <<Idle>>)>> : d \in Varied}
\* Every two concurrent statements.
StructureFiles ==
  {<<Test, Architecture(<<>>, cs)>> : cs \in UpTo(2, ConcurrentItems)}
  \cup {<<Test, Test, Other, Architecture(<<>>, <<c>>)>> : c \in ConcurrentItems}
  \cup {<<Architecture(<<>>, <<c>>)>> : c \in ConcurrentItems}

GenerationFiles  == BodyFiles \cup DeclarationFiles \cup StructureFiles
\* One item each.
TerminationFiles ==
  {<<Test, Architecture(<<Color>>, <<Process(<<>>, FALSE, <<>>, <<s>>)>>)>> : s \in BodyStatements}
  \cup {<<Package("PACKAGE_BODY", <<d>>)>> : d \in Varied}
  \cup {<<Test, Architecture(<<>>, <<c>>)>> : c \in ConcurrentItems}

UnitsOf(files)   == UNION {{f[n] : n \in DOMAIN f} : f \in files}
GenerationUnits  == UnitsOf(GenerationFiles)
TerminationUnits == UnitsOf(TerminationFiles)
=============================================================================
