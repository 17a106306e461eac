----------------------------- MODULE VhdlGrammar -----------------------------
(***************************************************************************)
(* The grammar of VHDL as hdlc parses it: one definition per class of      *)
(* src/src/vhdl/parser, the body of its parse function.  What a function   *)
(* stores in the syntax tree is left out; what it reads, what it tries and *)
(* in which order, and which failure is an error and which one only sends  *)
(* the parser back, is kept.                                               *)
(***************************************************************************)
EXTENDS Combinators

LOCAL Char(c)     == Sym(<<c>>)
LOCAL Identifier  == Rule("SimpleIdentifier")
LOCAL Expr        == Rule("Expression")

\* The rules that are instances of ObjectDeclaration.
LOCAL Object ==
    [variable |-> "ObjectVariable", signal |-> "ObjectSignal",
     constant |-> "ObjectConstant", file |-> "ObjectFile"]
LOCAL DefaultObject ==
    [variable |-> "DefaultVariable", signal |-> "DefaultSignal", constant |-> "DefaultConstant"]

---------------------------------------------------------------------------
(* Terminals.                                                              *)

SimpleIdentifier == Accept(Kind("IDENTIFIER"))

String == Accept(Kind("STRING"))

Character == Accept(Kind("CHARACTER"))

Number == FirstOf(<<Kind("INTEGER"), Kind("REAL")>>, <<>>, <<>>)

\* Faulty form: a number must be followed by a unit.
PhysicalExpected == Accept(Rule("Number")) \o Expect(Identifier)

Physical == Accept(Rule("Number")) \o Accept(Identifier)

---------------------------------------------------------------------------
(* Templates: list.hpp, interface_list.hpp (never used without             *)
(* parentheses), interface_element.hpp, object_declaration.hpp.            *)

List(type) == Accept(Rule(type)) \o While(Char(","), Expect(Rule(type)))

InterfaceList(element) ==
    Accept(Char("(")) \o Separated(Expect(Rule(element)), Char(";")) \o Expect(Char(")"))

\* ObjectDeclaration<keyword, default>: the keyword of the default kind may
\* be left out.
ObjectDeclaration(keyword, default) ==
    Here
    \o (IF default THEN Optional(Key(keyword)) ELSE Accept(Key(keyword)))
    \o Accept(Identifier) \o While(Char(","), Expect(Identifier))
    \o Accept(Char(":"))
    \o FirstOf(<<Key("in"), Key("out"), Key("inout"), Key("buffer")>>, <<>>, <<>>)
    \o Optional(Rule("SubtypeIndication"))
    \o Optional(Rule("DeclarationInitialization"))

\* An element of an interface is an object of one of four kinds, one of
\* which is the default of the list.
InterfaceElement(default) ==
    FirstOf([i \in 1..4 |->
                LET kind == <<"variable", "signal", "constant", "file">>[i]
                IN  Rule(IF kind = default THEN DefaultObject[kind] ELSE Object[kind])],
            <<>>, <<>>)

---------------------------------------------------------------------------
(* Names and expressions.                                                  *)

BasicIdentifier ==
    Accept(Identifier)
    \o IfElse(Char("."), Expect(Rule("BasicIdentifier")),
       When(Char("'"), IfElse(Key("range"), <<>>, Optional(Kind("IDENTIFIER")))))
    \o When(Char("("),
            FirstOf(<<Rule("RangeType"), Rule("AssociationList")>>, <<>>, <<>>)
            \o Expect(Char(")")))

UnaryOperator == FirstOf(<<Key("not"), Char("-"), Char("+")>>, <<>>, <<>>)

\* "=>" is not "=": the operator is empty in front of it.
ExpressionOperator ==
    Ahead(Sym(<<"=", ">">>), 0, <<>>,
        FirstOf(<<Sym(<<"/", "=">>), Char("/"), Sym(<<">", "=">>), Char(">"),
                  Sym(<<"<", "=">>), Char("<"), Sym(<<"*", "*">>), Char("*"),
                  Char("&"), Char("+"), Char("-"), Char("="),
                  Key("and"), Key("or"), Key("nand"), Key("nor"), Key("xor"),
                  Key("xnor"), Key("mod"), Key("rem"), Key("srl"), Key("sll"),
                  Key("sla"), Key("sra"), Key("rol"), Key("ror")>>, <<>>, <<>>))

ExpressionTerm ==
    Here
    \o IfElse(Char("("),
           Separated(Expect(Rule("ElementAssociation")), Char(",")) \o Expect(Char(")")),
           FirstOf(<<Rule("Physical"), Rule("Number"), Rule("Character"),
                     Rule("String"), Rule("BasicIdentifier")>>, <<>>, <<>>))

Expression ==
    Here
    \o IfElse(Rule("UnaryOperator"), Expect(Expr),
       When(Rule("ExpressionTerm"), When(Rule("ExpressionOperator"), Expect(Expr))))

ScalarType ==
    Here \o FirstOf(<<Rule("Physical"), Rule("Number"), Rule("Character"),
                      Rule("String"), Identifier>>, <<>>, <<>>)

Choise == FirstOf(<<Key("others"), Rule("RangeDirectionType"), Expr>>, <<>>, <<>>)

Choises == Separated(Accept(Rule("Choise")), Char("|"))

ElementAssociation == Optional(Rule("Choises")) \o When(Sym(<<"=", ">">>), Expect(Expr))

AssociationElementFormalPart ==
    IfElse(Key("others"), <<>>, Accept(Identifier)) \o Accept(Sym(<<"=", ">">>))

AssociationElement == Optional(Rule("AssociationElementFormalPart")) \o Accept(Expr)

AssociationList ==
    Accept(Rule("AssociationElement")) \o While(Char(","), Expect(Rule("AssociationElement")))

---------------------------------------------------------------------------
(* Ranges and types.                                                       *)

RangeDirection == FirstOf(<<Key("to"), Key("downto")>>, <<>>, <<>>)

RangeDirectionType == Accept(Expr) \o Accept(Rule("RangeDirection")) \o Expect(Expr)

RangeAttributeType == Accept(Identifier) \o Accept(Char("'")) \o Accept(Key("range"))

RangeType == FirstOf(<<Rule("RangeAttributeType"), Rule("RangeDirectionType")>>, <<>>, <<>>)

IterationScheme ==
    Optional(Rule("RangeType"))
    \o When(Identifier,
            When(Char("'"), IfElse(Key("reverse_range"), <<>>, Expect(Key("range")))))

SubtypeIndication ==
    Accept(Identifier)
    \o IfElse(Key("range"), Expect(Rule("RangeType")),
       When(Char("("), Expect(Rule("RangeType")) \o Expect(Char(")"))))

EnumerationElement == FirstOf(<<Rule("Character"), Identifier>>, <<>>, <<>>)

EnumerationType ==
    Accept(Char("(")) \o Expect(Rule("ListEnumerationElement")) \o Expect(Char(")"))

PhysicalElement ==
    Accept(Identifier) \o When(Char("="), Expect(Rule("Physical"))) \o Expect(Char(";"))

PhysicalType ==
    Accept(Key("units")) \o Many(Rule("PhysicalElement"))
    \o Accept(Key("end")) \o Accept(Key("units"))

NumberType == Accept(Key("range")) \o Expect(Rule("RangeType")) \o Optional(Rule("PhysicalType"))

ArraySubtypeDefinition ==
    Accept(Identifier) \o Accept(Key("range"))
    \o IfElse(Char("<"), Expect(Char(">")), Expect(Rule("RangeType")))

ArrayDefinition ==
    FirstOf(<<Rule("RangeType"), Rule("ArraySubtypeDefinition"), Identifier>>, <<>>, <<>>)

ArrayType ==
    Accept(Key("array")) \o Expect(Char("("))
    \o Separated(Expect(Rule("ArrayDefinition")), Char(","))
    \o Expect(Char(")")) \o Accept(Key("of")) \o Optional(Rule("SubtypeIndication"))

TypeDefinition ==
    FirstOf(<<Rule("NumberType"), Rule("EnumerationType"), Rule("ArrayType")>>, <<>>, <<>>)

ElementDeclaration ==
    Accept(Identifier) \o While(Char(","), Expect(Identifier))
    \o Expect(Char(":")) \o Expect(Rule("SubtypeIndication"))

ElementDeclarationList == While(Rule("ElementDeclaration"), Expect(Char(";")))

RecordDeclaration ==
    Expect(Rule("ElementDeclarationList")) \o Expect(Key("end")) \o Expect(Key("record"))
    \o Optional(Identifier)

---------------------------------------------------------------------------
(* Declarations.                                                           *)

DeclarationInitialization == Accept(Sym(<<":", "=">>)) \o Expect(Expr)

TypeDeclaration ==
    Accept(Key("type")) \o Expect(Identifier) \o Expect(Key("is"))
    \o IfElse(Key("access"), Expect(Identifier),
       IfElse(Key("file"), Expect(Key("of")) \o Expect(Identifier),
       IfElse(Key("record"), Expect(Rule("RecordDeclaration")),
              Expect(Rule("TypeDefinition")))))

\* Two identifiers in a row: the first names a resolution function.
SubtypeDeclaration ==
    Accept(Key("subtype")) \o Expect(Identifier) \o Expect(Key("is"))
    \o Ahead(Kind("IDENTIFIER"), 0, Ahead(Kind("IDENTIFIER"), 1, Expect(Identifier), <<>>), <<>>)
    \o Expect(Rule("SubtypeIndication"))

FileDeclaration ==
    Accept(Key("file")) \o Expect(Identifier) \o Expect(Char(":")) \o Expect(Identifier)
    \o Expect(Key("open")) \o Expect(Identifier) \o Expect(Key("is")) \o Expect(Rule("String"))

LOCAL Signature ==
    When(Char("["), Expect(Rule("ListSimpleIdentifier")) \o Optional(Rule("ReturnStatement"))
                    \o Expect(Char("]")))

Attribute ==
    Accept(Key("attribute")) \o Expect(Identifier)
    \o When(Key("of"), IfElse(Rule("String"), <<>>, Expect(Identifier)) \o Signature)
    \o Expect(Char(":"))
    \o FirstOf(<<Identifier, Key("entity"), Key("procedure"), Key("type"), Key("signal"),
                 Key("group"), Key("architecture"), Key("function"), Key("subtype"),
                 Key("variable"), Key("file"), Key("configuration"), Key("package"),
                 Key("constant"), Key("component")>>, <<>>, Fail)
    \o When(Key("is"), Expect(Rule("ScalarType")))

AliasDeclaration ==
    Accept(Key("alias")) \o Expect(Identifier)
    \o When(Char(":"), Expect(Rule("SubtypeIndication")))
    \o Expect(Key("is")) \o Expect(Identifier) \o Signature

FunctionBody ==
    Accept(Key("is")) \o Many(Rule("Declaration")) \o Expect(Key("begin"))
    \o Many(Rule("SequentialStatement")) \o Expect(Key("end")) \o Optional(Key("function"))
    \o FirstOf(<<Rule("String"), Identifier>>, <<>>, <<>>)

FunctionDeclaration ==
    Accept(Key("function")) \o IfElse(Rule("String"), <<>>, Expect(Identifier))
    \o Optional(Rule("InterfaceListVariable"))
    \o Expect(Key("return")) \o Expect(Identifier) \o Optional(Rule("FunctionBody"))

ProcedureBody ==
    Accept(Key("is")) \o Many(Rule("Declaration")) \o Expect(Key("begin"))
    \o Many(Rule("SequentialStatement")) \o Expect(Key("end")) \o Optional(Key("procedure"))
    \o Optional(Identifier)

ProcedureDeclaration ==
    Accept(Key("procedure")) \o Expect(Identifier)
    \o Optional(Rule("InterfaceListVariable")) \o Optional(Rule("ProcedureBody"))

Declaration ==
    FirstOf(<<Rule("TypeDeclaration"), Rule("SubtypeDeclaration"), Rule("ObjectVariable"),
              Rule("ObjectSignal"), Rule("ObjectConstant"), Rule("FunctionDeclaration"),
              Rule("ProcedureDeclaration"), Rule("FileDeclaration"), Rule("Attribute"),
              Rule("AliasDeclaration")>>,
            Expect(Char(";")), <<>>)

---------------------------------------------------------------------------
(* Sequential statements.                                                  *)

\* A statement starts with a label when the second token is a colon.
LOCAL Labelled ==
    Ahead(Char(":"), 1, Accept(Identifier) \o Label \o Accept(Char(":")), <<>>)

\* The list ends with the first expression that has no condition.
Assignment ==
    Expect(Expr) \o When(Key("when"), Expect(Expr) \o When(Key("else"), Again))

SignalAssignment ==
    Labelled \o Accept(Rule("BasicIdentifier")) \o Accept(Sym(<<"<", "=">>))
    \o Expect(Rule("Assignment"))

VariableAssignment ==
    Accept(Rule("BasicIdentifier")) \o Accept(Sym(<<":", "=">>)) \o Optional(Key("new"))
    \o Expect(Rule("Assignment"))

\* An assert without a report is no statement at all: the parser goes back
\* in front of the assert.
ReportStatement ==
    When(Key("assert"),
         IfElse(Char("("), Expect(Expr) \o Expect(Char(")")), Expect(Expr)))
    \o Accept(Key("report")) \o Expect(Expr)
    \o When(Key("severity"), Expect(Identifier))

CaseStatementChoise == FirstOf(<<Rule("ScalarType"), Key("others")>>, <<>>, <<>>)

CaseStatementAlternative ==
    Accept(Key("when")) \o Separated(Expect(Rule("CaseStatementChoise")), Char("|"))
    \o Expect(Sym(<<"=", ">">>)) \o Many(Rule("SequentialStatement"))

CaseStatement ==
    Labelled \o Accept(Key("case")) \o Expect(Identifier)
    \o When(Char("("), Expect(Rule("AssociationList")) \o Expect(Char(")")))
    \o Expect(Key("is")) \o Many(Rule("CaseStatementAlternative"))
    \o Expect(Key("end")) \o Expect(Key("case")) \o When(Identifier, SameLabel)

LoopStatement ==
    Labelled \o Accept(Key("loop")) \o Many(Rule("SequentialStatement"))
    \o Expect(Key("end")) \o Expect(Key("loop")) \o When(Identifier, SameLabel)

ForLoopStatement ==
    Labelled \o Accept(Key("for")) \o Expect(Identifier) \o Expect(Key("in"))
    \o Expect(Rule("IterationScheme")) \o Expect(Key("loop"))
    \o Many(Rule("SequentialStatement"))
    \o Expect(Key("end")) \o Expect(Key("loop")) \o When(Identifier, SameLabel)

WhileLoopStatement ==
    Accept(Key("while")) \o Expect(Expr) \o Expect(Key("loop"))
    \o Many(Rule("SequentialStatement")) \o Expect(Key("end")) \o Expect(Key("loop"))

ExitStatement ==
    Labelled \o Accept(Key("exit")) \o Optional(Identifier) \o When(Key("when"), Expect(Expr))

NextStatement ==
    Labelled \o Accept(Key("next")) \o Optional(Identifier) \o When(Key("when"), Expect(Expr))

IfStatement ==
    Accept(Key("if")) \o Expect(Expr) \o Expect(Key("then")) \o Many(Rule("SequentialStatement"))
    \o While(Key("elsif"),
             Expect(Expr) \o Expect(Key("then")) \o Many(Rule("SequentialStatement")))
    \o When(Key("else"), Many(Rule("SequentialStatement")))
    \o Expect(Key("end")) \o Expect(Key("if"))

WaitStatement == Accept(Key("wait")) \o Expect(Key("for")) \o Expect(Rule("Physical"))

ReturnStatement == Accept(Key("return")) \o Optional(Expr)

ProcedureCallStatement ==
    Accept(Identifier)
    \o When(Char("("), Expect(Rule("AssociationList")) \o Expect(Char(")")))

SequentialStatement ==
    FirstOf(<<Rule("VariableAssignment"), Rule("SignalAssignment"), Rule("ReportStatement"),
              Rule("CaseStatement"), Rule("LoopStatement"), Rule("ExitStatement"),
              Rule("NextStatement"), Rule("ForLoopStatement"), Rule("ProcedureCallStatement"),
              Rule("IfStatement"), Rule("WhileLoopStatement"), Rule("WaitStatement"),
              Rule("ReturnStatement")>>,
            Expect(Char(";")), <<>>)

---------------------------------------------------------------------------
(* Concurrent statements.                                                  *)

Process ==
    Labelled \o Accept(Key("process"))
    \o When(Char("("),
            IfElse(Key("all"), <<>>, Expect(Rule("ListSimpleIdentifier"))) \o Expect(Char(")")))
    \o Optional(Key("is")) \o Many(Rule("Declaration")) \o Expect(Key("begin"))
    \o Many(Rule("SequentialStatement")) \o Expect(Key("end")) \o Optional(Key("process"))

\* "begin" is read only when there are declarations, and then it must be
\* there.
ForGenerateStatement ==
    Accept(Identifier) \o Label \o Accept(Char(":")) \o Accept(Key("for"))
    \o Expect(Identifier) \o Expect(Key("in")) \o Expect(Rule("IterationScheme"))
    \o Expect(Key("generate"))
    \o When(Rule("Declaration"), Many(Rule("Declaration")) \o Expect(Key("begin")))
    \o Many(Rule("ConcurrentStatement"))
    \o Expect(Key("end")) \o Expect(Key("generate")) \o Expect(Identifier) \o SameLabel

BlockStatement ==
    Accept(Identifier) \o Label \o Accept(Char(":")) \o Accept(Key("block")) \o Expect(Key("is"))
    \o Many(Rule("Declaration")) \o Expect(Key("begin")) \o Many(Rule("ConcurrentStatement"))
    \o Expect(Key("end")) \o Optional(Key("block")) \o Expect(Identifier) \o SameLabel

LOCAL Map(keyword) ==
    When(Key(keyword), Expect(Key("map")) \o Expect(Char("(")) \o Expect(Rule("AssociationList"))
                       \o Expect(Char(")")))

ComponentInstance ==
    Accept(Identifier) \o Accept(Char(":")) \o Optional(Key("entity")) \o Expect(Identifier)
    \o When(Char("."), Expect(Identifier))
    \o When(Char("("), Expect(Identifier) \o Expect(Char(")")))
    \o Map("generic") \o Map("port")

ConcurrentStatement ==
    FirstOf(<<Rule("SignalAssignment"), Rule("Process"), Rule("ForGenerateStatement"),
              Rule("BlockStatement"), Rule("ComponentInstance")>>,
            Expect(Char(";")), <<>>)

---------------------------------------------------------------------------
(* Design units.                                                           *)

LibraryClause ==
    Accept(Key("library")) \o Expect(Rule("BasicIdentifier")) \o Expect(Char(";"))

UseClause ==
    Accept(Key("use")) \o Expect(Identifier) \o Expect(Char(".")) \o Expect(Identifier)
    \o Expect(Char("."))
    \o IfElse(Key("all"), <<>>, IfElse(Rule("String"), <<>>, Expect(Identifier)))
    \o Expect(Char(";"))

ContextClause == Optional(Rule("LibraryClause")) \o Optional(Rule("UseClause"))

Entity ==
    Accept(Key("entity")) \o Expect(Identifier) \o Label \o Expect(Key("is"))
    \o When(Key("generic"), Optional(Rule("InterfaceListConstant")) \o Expect(Char(";")))
    \o When(Key("port"), Optional(Rule("InterfaceListSignal")) \o Expect(Char(";")))
    \o Expect(Key("end")) \o Optional(Key("entity")) \o Expect(Identifier) \o SameLabel
    \o Expect(Char(";"))

\* The label of an architecture is its own name, not that of its entity.
Architecture ==
    Accept(Key("architecture")) \o Expect(Identifier) \o Label \o Expect(Key("of"))
    \o Expect(Identifier) \o Expect(Key("is")) \o Many(Rule("Declaration"))
    \o Expect(Key("begin")) \o Many(Rule("ConcurrentStatement")) \o Expect(Key("end"))
    \o Optional(Key("architecture")) \o Expect(Identifier) \o SameLabel \o Expect(Char(";"))

NewPackageDeclaration ==
    Expect(Identifier) \o Expect(Char(".")) \o Expect(Identifier) \o Expect(Key("generic"))
    \o Expect(Key("map")) \o Expect(Char("(")) \o Expect(Rule("AssociationList"))
    \o Expect(Char(")")) \o Expect(Char(";"))

\* "end body" closes a package body only.
LOCAL PackageOf(body) ==
    Expect(Identifier) \o Label \o Expect(Key("is"))
    \o IfElse(Key("new"), Expect(Rule("NewPackageDeclaration")),
           When(Key("generic"), Optional(Rule("InterfaceListConstant")) \o Expect(Char(";")))
           \o Many(Rule("Declaration")) \o Expect(Key("end")) \o Optional(Key("package"))
           \o When(Key("body"), IF body THEN <<>> ELSE Fail)
           \o When(Identifier, SameLabel) \o Expect(Char(";")))

Package ==
    Accept(Key("package")) \o IfElse(Key("body"), PackageOf(TRUE), PackageOf(FALSE))

DesignUnit ==
    FirstOf(<<Rule("ContextClause"), Rule("Entity"), Rule("Architecture"), Rule("Package")>>,
            <<>>, <<>>)

---------------------------------------------------------------------------
(* All rules, the instances of the templates among them.                   *)

Grammar ==
    [SimpleIdentifier |-> SimpleIdentifier, String |-> String, Character |-> Character,
     Number |-> Number, Physical |-> Physical, BasicIdentifier |-> BasicIdentifier,
     UnaryOperator |-> UnaryOperator, ExpressionOperator |-> ExpressionOperator,
     ExpressionTerm |-> ExpressionTerm, Expression |-> Expression,
     ScalarType |-> ScalarType, Choise |-> Choise, Choises |-> Choises,
     ElementAssociation |-> ElementAssociation,
     AssociationElementFormalPart |-> AssociationElementFormalPart,
     AssociationElement |-> AssociationElement, AssociationList |-> AssociationList,
     RangeDirection |-> RangeDirection, RangeDirectionType |-> RangeDirectionType,
     RangeAttributeType |-> RangeAttributeType, RangeType |-> RangeType,
     IterationScheme |-> IterationScheme, SubtypeIndication |-> SubtypeIndication,
     EnumerationElement |-> EnumerationElement, EnumerationType |-> EnumerationType,
     PhysicalElement |-> PhysicalElement, PhysicalType |-> PhysicalType,
     NumberType |-> NumberType, ArraySubtypeDefinition |-> ArraySubtypeDefinition,
     ArrayDefinition |-> ArrayDefinition, ArrayType |-> ArrayType,
     TypeDefinition |-> TypeDefinition, ElementDeclaration |-> ElementDeclaration,
     ElementDeclarationList |-> ElementDeclarationList,
     RecordDeclaration |-> RecordDeclaration,
     DeclarationInitialization |-> DeclarationInitialization,
     TypeDeclaration |-> TypeDeclaration, SubtypeDeclaration |-> SubtypeDeclaration,
     FileDeclaration |-> FileDeclaration, Attribute |-> Attribute,
     AliasDeclaration |-> AliasDeclaration, FunctionBody |-> FunctionBody,
     FunctionDeclaration |-> FunctionDeclaration, ProcedureBody |-> ProcedureBody,
     ProcedureDeclaration |-> ProcedureDeclaration, Declaration |-> Declaration,
     Assignment |-> Assignment, SignalAssignment |-> SignalAssignment,
     VariableAssignment |-> VariableAssignment, ReportStatement |-> ReportStatement,
     CaseStatementChoise |-> CaseStatementChoise,
     CaseStatementAlternative |-> CaseStatementAlternative,
     CaseStatement |-> CaseStatement, LoopStatement |-> LoopStatement,
     ForLoopStatement |-> ForLoopStatement, WhileLoopStatement |-> WhileLoopStatement,
     ExitStatement |-> ExitStatement, NextStatement |-> NextStatement,
     IfStatement |-> IfStatement, WaitStatement |-> WaitStatement,
     ReturnStatement |-> ReturnStatement,
     ProcedureCallStatement |-> ProcedureCallStatement,
     SequentialStatement |-> SequentialStatement, Process |-> Process,
     ForGenerateStatement |-> ForGenerateStatement, BlockStatement |-> BlockStatement,
     ComponentInstance |-> ComponentInstance,
     ConcurrentStatement |-> ConcurrentStatement, LibraryClause |-> LibraryClause,
     UseClause |-> UseClause, ContextClause |-> ContextClause, Entity |-> Entity,
     Architecture |-> Architecture, NewPackageDeclaration |-> NewPackageDeclaration,
     Package |-> Package, DesignUnit |-> DesignUnit,
     ListSimpleIdentifier   |-> List("SimpleIdentifier"),
     ListEnumerationElement |-> List("EnumerationElement"),
     InterfaceListConstant  |-> InterfaceList("InterfaceConstant"),
     InterfaceListSignal    |-> InterfaceList("InterfaceSignal"),
     InterfaceListVariable  |-> InterfaceList("InterfaceVariable"),
     InterfaceConstant      |-> InterfaceElement("constant"),
     InterfaceSignal        |-> InterfaceElement("signal"),
     InterfaceVariable      |-> InterfaceElement("variable"),
     ObjectVariable         |-> ObjectDeclaration("variable", FALSE),
     ObjectSignal           |-> ObjectDeclaration("signal", FALSE),
     ObjectConstant         |-> ObjectDeclaration("constant", FALSE),
     ObjectFile             |-> ObjectDeclaration("file", FALSE),
     DefaultVariable        |-> ObjectDeclaration("variable", TRUE),
     DefaultSignal          |-> ObjectDeclaration("signal", TRUE),
     DefaultConstant        |-> ObjectDeclaration("constant", TRUE)]

=============================================================================
