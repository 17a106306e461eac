---------------------------- MODULE UnitGeneration ----------------------------
(***************************************************************************)
(* How hdlc turns the design units of a file into classes of a SystemC     *)
(* program (generator/systemc.cpp, definition.hpp and .cpp,                *)
(* declarations.hpp and .cpp, sequential.hpp and .cpp, constructor.cpp).   *)
(*                                                                         *)
(* Units, processes, blocks, generate loops, functions and the factories   *)
(* of types become classes, each by a call of defineObject.  The calls in  *)
(* progress are the variable frames: a frame is the class the call opened  *)
(* and what is left of its declarations, its sequential statements and its *)
(* concurrent statements.  Statements that hold statements (if, for) put   *)
(* these in front of what is left.                                         *)
(*                                                                         *)
(* The text that is generated is abstracted to what it refers to: the      *)
(* references to other classes that one step writes, the classes that a    *)
(* constructor creates, and which function bodies are open in the .cpp     *)
(* file.  Expressions are the sequences of the names they read; overload   *)
(* resolution is by the type of a name alone.                              *)
(***************************************************************************)
EXTENDS ClassTree

CONSTANTS
  Declarations, Statements, Concurrents, Units, \* the nodes of syntax trees
  Files,    \* the files to generate: sequences of units
  Loaded,   \* the classes of the packages that were loaded before
  INTEGER   \* the type of a variable that runs over a range

Reads == Seq(Names)
Iterations == Types \cup Names \cup {NoType}
Formals == Seq([name : Names, type : Types])

\* A node of a syntax tree.  The sets of nodes are closed: what a node is made
\* of is in them too, which describes trees of every depth.
\*   type        literals are those of an enumeration; base is the type that an
\*               array or access type is built from, NoType for the others;
\*               physical is whether its range is that of a physical type
\*   object      one name; an identifier list is as many declarations; range is the
\*               constraint of its type, reads its initial value
\*   function    type is NoType for a procedure; a parameter is an object without a
\*               default and without a constraint
DeclarationNodes ==
  [node : {"type"}, name : Types, base : Types \cup {NoType}, literals : Reads,
   reads : Reads, physical : BOOLEAN]
  \cup [node : {"subtype"}, name : Types, base : Types, reads : Reads]
  \cup [node : {"object"}, name : Names, type : Types, range : Reads, reads : Reads,
        kind : {"VARIABLE", "SIGNAL", "CONSTANT", "PORT", "PARAMETER"}]
  \cup [node : {"alias"}, name : Names, of : Names, reads : Reads]
  \cup [node : {"function"}, name : Names, type : Types \cup {NoType},
        parameters : Seq(Declarations), hasBody : BOOLEAN,
        decls : Seq(Declarations), stmts : Seq(Statements)]

\*   call        of a procedure: an argument is one name
\*   assignment  of a variable or of a signal
\*   condition   one branch of an if statement; a report is one without a body
\*   for         over a range when iteration is NoType, else over what has that name:
\*               a type, but nothing keeps it from being an object
StatementNodes ==
  [node : {"wait"}]
  \cup [node : {"call"}, name : Names, reads : Reads]
  \cup [node : {"return"}, reads : Reads]
  \cup [node : {"assignment"}, target : Names, reads : Reads, signal : BOOLEAN]
  \cup [node : {"condition"}, reads : Reads, body : Seq(Statements)]
  \cup [node : {"for"}, name : Names, iteration : Iterations, reads : Reads,
        body : Seq(Statements)]

\*   process     also a concurrent signal assignment: it has this one statement,
\*               and all signals that it reads are in the sensitivity list
\*   instance    of a component: the actuals, by the name of their formal
ConcurrentNodes ==
  [node : {"process"}, sensitivity : Reads, all : BOOLEAN, concurrent : BOOLEAN,
   decls : Seq(Declarations), stmts : Seq(Statements)]
  \cup [node : {"block"}, decls : Seq(Declarations), conc : Seq(Concurrents)]
  \cup [node : {"generate"}, name : Names, iteration : Iterations, reads : Reads,
        decls : Seq(Declarations), conc : Seq(Concurrents)]
  \cup [node : {"instance"}, entity : Names, formals : Reads, actuals : Reads]

\* The ports of an entity are its declarations.
UnitNodes ==
  [node : UnitKinds, name : Names, base : Names \cup {NoName},
   decls : Seq(Declarations), conc : Seq(Concurrents)]

ASSUME NodesAssumption ==
  /\ Declarations \subseteq DeclarationNodes /\ Statements \subseteq StatementNodes
  /\ Concurrents \subseteq ConcurrentNodes /\ Units \subseteq UnitNodes
  /\ \A d \in Declarations :
       /\ d.node = "object" /\ d.kind = "PARAMETER" => d.reads = <<>> /\ d.range = <<>>
       /\ d.node = "type" =>
            \A n \in DOMAIN d.literals, k \in DOMAIN d.reads : d.literals[n] # d.reads[k]
       /\ d.node = "function" =>
            \A n \in DOMAIN d.parameters : d.parameters[n].node = "object"
  /\ \A p \in Concurrents :
       p.node = "process" /\ p.concurrent =>
         /\ p.all /\ p.decls = <<>>
         /\ \E s \in Statements : s.node = "assignment" /\ s.signal /\ p.stmts = <<s>>
  /\ INTEGER \in Types

ASSUME FilesAssumption ==
  /\ Files \subseteq Seq(Units)
  /\ Loaded \in Seq(Classes)
  /\ \A i \in DOMAIN Loaded : ~Loaded[i].active /\ Loaded[i].path = <<i>>

VARIABLES
  declarationsOnly, \* the file is walked for its declarations only
  todo,         \* the units of the file that are left
  frames,       \* the calls of defineObject in progress, the outermost first
  classes,      \* the classes generated so far: see ClassTree
  containsWait, \* parameters::process_contains_wait
  returnType,   \* parameters::returnType
  bodies,       \* the function bodies that are open in the .cpp file
  constructed,  \* the classes that constructors create: <<where, what>>
  spawned,      \* the processes that constructors spawn
  references,   \* the references that the last step wrote
  expected,     \* the type of the value, when the last step wrote a return
  waited,       \* history: the classes with a wait statement of their own
  errors,       \* the errors reported so far
  status        \* "running", "done" or "aborted"

vars == <<declarationsOnly, todo, frames, classes, containsWait, returnType, bodies,
          constructed, spawned, references, expected, waited, errors, status>>
-----------------------------------------------------------------------------
Phases == {"declarations", "statements", "concurrent"}
Nodes  == Declarations \cup Statements \cup Concurrents \cup Units

\* ready: the factory of the range of the item at hand has been written.
\* instances: the component instances, for which a second pass is made.
\* signals: what signal_list_generator has collected for the process.
Frames == [id : Nat, node : Nodes, phase : Phases, decls : Seq(Declarations),
           stmts : Seq(Statements), conc : Seq(Concurrents), ready : BOOLEAN,
           instances : Seq(Concurrents), signals : SUBSET (Nat \X Nat)]

NewFrame(node, decls, stmts, conc, signals) ==
  [id |-> Len(classes) + 1, node |-> node, phase |-> "declarations", decls |-> decls,
   stmts |-> stmts, conc |-> conc, ready |-> FALSE, instances |-> <<>>,
   signals |-> signals]

Top        == frames[Len(frames)]
Here       == Top.id
Kind       == classes[Here].kind
Running    == status = "running"
AtDeclaration == Running /\ frames # <<>> /\ Top.phase = "declarations" /\ Top.decls # <<>>
AtStatement   == Running /\ frames # <<>> /\ Top.phase = "statements" /\ Top.stmts # <<>>
AtConcurrent  == Running /\ frames # <<>> /\ Top.phase = "concurrent" /\ Top.conc # <<>>
Decl == Head(Top.decls)
Stmt == Head(Top.stmts)
Conc == Head(Top.conc)

ReplaceTop(fs, f) == [fs EXCEPT ![Len(fs)] = f]
PopFrame          == SubSeq(frames, 1, Len(frames) - 1)

\* The frame after its item at hand.
DeclDone(f)   == [f EXCEPT !.decls = Tail(@), !.ready = FALSE]
StmtDone(f)   == [f EXCEPT !.stmts = Tail(@), !.ready = FALSE]
ConcDone(f)   == [f EXCEPT !.conc = Tail(@), !.ready = FALSE]
Into(f, body) == [f EXCEPT !.stmts = body \o Tail(@), !.ready = FALSE]
Ready(f)      == [f EXCEPT !.ready = TRUE]
Enter(f, phase) == [f EXCEPT !.phase = phase]

file   == <<declarationsOnly, todo>>
flags  == <<containsWait, returnType, waited>>
output == <<bodies, constructed, spawned>>

Writes(rs)   == references' = rs /\ expected' = NoType
Reports(new) == errors' = errors \cup new
-----------------------------------------------------------------------------
(* Names in expressions: basicIdentifierToString.                          *)

AnyType    == Types \cup {NoType}
AnyKind    == ObjectKinds \cup {"TYPE"}
Values(name, types) == Matches(classes, name, ObjectKinds, types)
TypesNamed(name)    == Matches(classes, name, {"TYPE"}, AnyType)
Best(ms)            == BestMatch(classes, ms)
BestEntry(ms)       == EntryOf(classes, Best(ms))

\* The names of reads up to the first that has no match: it ends the expression.
IsFound(reads, types, n) == Values(reads[n], types) # {}
FoundNames(reads, types) ==
  {n \in DOMAIN reads : \A k \in 1 .. n : IsFound(reads, types, k)}
AllFound(reads, types) == FoundNames(reads, types) = DOMAIN reads

BestOf(reads, types) == {Best(Values(reads[n], types)) : n \in FoundNames(reads, types)}

\* The references that an expression leaves when it is written into the class at.
ReferencesTo(ms, at, offset) ==
  {Reference(classes, at, m, offset) : m \in {o \in ms : HasPrefix(classes, o)}}
Written(reads, types, at) == ReferencesTo(BestOf(reads, types), at, 0)

\* Faulty form: ports are forgotten.
SignalsOnly(reads, types) ==
  {m \in BestOf(reads, types) : EntryOf(classes, m).kind = "SIGNAL"}

\* The sensitivity callback of a process is called for signals and ports.
SignalsOf(reads, types) ==
  {m \in BestOf(reads, types) : EntryOf(classes, m).kind \in {"SIGNAL", "PORT"}}

Problem(what, name) == [what |-> what, name |-> name]
AmbiguousNames(reads, types) ==
  {Problem("ambiguous", reads[n]) :
     n \in {k \in FoundNames(reads, types) : Ambiguous(classes, Values(reads[k], types))}}
ReadErrors(reads, types) ==
  AmbiguousNames(reads, types) \cup
  {Problem("not found", reads[n]) :
     n \in {k \in DOMAIN reads : k = Cardinality(FoundNames(reads, types)) + 1}}
LookupErrors(name, ms) ==
  IF ms = {} THEN {Problem("not found", name)}
  ELSE IF Ambiguous(classes, ms) THEN {Problem("ambiguous", name)} ELSE {}
TypeErrors(name) == LookupErrors(name, TypesNamed(name))

\* An expression outside of a statement: ObjectNotFound is caught by nobody and
\* is no std::exception, so that it ends the process.
Abort ==
  /\ status' = "aborted"
  /\ Writes({})
  /\ UNCHANGED <<file, frames, classes, flags, output, errors>>
-----------------------------------------------------------------------------
(***************************************************************************)
(* The start of defineObject: openHierarchy and the reset of the flag.     *)
(***************************************************************************)
Define(tree, kind, name, base, fs, frame) ==
  /\ classes' = NewClass(tree, kind, name, base)
  /\ frames' = Append(fs, frame)
  /\ containsWait' = FALSE
  /\ UNCHANGED waited

\* printFactoryDefinition: the item at hand waits until the factory is written.
DefineFactory(tree, node) ==
  Define(tree, "FACTORY", NoName, NoName, frames, NewFrame(node, <<>>, <<>>, <<>>, {}))

\* Units: packageDeclaration, interfaceDeclaration, implementationDeclaration.
NextUnit == Running /\ frames = <<>> /\ todo # <<>>
IsSkipped(u) == declarationsOnly /\ u.node = "PACKAGE_BODY"

HasEntity(u) == \E i \in DOMAIN classes : classes[i].kind = "ENTITY" /\ classes[i].name = u.base
UnitErrors(u) ==
  IF u.node = "ARCHITECTURE" /\ ~HasEntity(u) THEN {Problem("not found", u.base)} ELSE {}

OpenUnit ==
  /\ NextUnit /\ ~IsSkipped(Head(todo))
  /\ LET u == Head(todo)
     IN  Define(classes, u.node, u.name, u.base, <<>>,
                NewFrame(u, u.decls, <<>>, u.conc, {}))
  /\ Reports(UnitErrors(Head(todo)))
  /\ todo' = Tail(todo)
  /\ Writes({})
  /\ UNCHANGED <<declarationsOnly, returnType, output, status>>

SkipUnit ==
  /\ NextUnit /\ IsSkipped(Head(todo))
  /\ todo' = Tail(todo)
  /\ Writes({})
  /\ UNCHANGED <<declarationsOnly, frames, classes, flags, output, errors, status>>

Finish ==
  /\ Running /\ frames = <<>> /\ todo = <<>>
  /\ status' = "done"
  /\ Writes({})
  /\ UNCHANGED <<file, frames, classes, flags, output, errors>>
-----------------------------------------------------------------------------
(* Declarations.                                                           *)

At(node) == AtDeclaration /\ Decl.node = node

\* A declaration that opens no class: it adds entries to the class at hand.
Declares(f, entries) ==
  /\ frames' = ReplaceTop(frames, f)
  /\ classes' = AddEntries(classes, entries)
  /\ UNCHANGED <<file, output, containsWait, waited, status>>

\* The literals of an enumeration and the units of a physical type come
\* before the factory, the type itself after it.
LiteralEntries(d) ==
  [n \in DOMAIN d.literals |-> Entry(d.literals[n], "ENUM", d.name)]

HasBase(d) == d.base = NoType \/ TypesNamed(d.base) # {}

OpenType ==
  /\ At("type") /\ ~Top.ready /\ HasBase(Decl) /\ AllFound(Decl.reads, AnyType)
  /\ DefineFactory(AddEntries(classes, LiteralEntries(Decl)), Decl)
  /\ Reports(AmbiguousNames(Decl.reads, AnyType))
  /\ Writes({})
  /\ UNCHANGED <<file, returnType, output, status>>

CloseType ==
  /\ At("type") /\ Top.ready
  /\ Declares(DeclDone(Top), <<Entry(Decl.name, "TYPE", Decl.name)>>)
  /\ Writes({})
  /\ UNCHANGED <<returnType, errors>>

\* arrayType or SimpleType failed: the name is a type nevertheless.
TypeWithoutBase ==
  /\ At("type") /\ ~Top.ready /\ ~HasBase(Decl)
  /\ Declares(DeclDone(Top), <<Entry(Decl.name, "TYPE", NoType)>>)
  /\ Reports(TypeErrors(Decl.base))
  /\ Writes({})
  /\ UNCHANGED returnType

\* A subtype is a type before its factory is written.
OpenSubtype ==
  /\ At("subtype") /\ ~Top.ready /\ TypesNamed(Decl.base) # {}
  /\ AllFound(Decl.reads, AnyType)
  /\ DefineFactory(AddEntries(classes,
       <<Entry(Decl.name, "TYPE", BestEntry(TypesNamed(Decl.base)).type)>>), Decl)
  /\ Reports(AmbiguousNames(Decl.reads, AnyType) \cup TypeErrors(Decl.base))
  /\ Writes({})
  /\ UNCHANGED <<file, returnType, output, status>>

CloseSubtype ==
  /\ At("subtype") /\ Top.ready
  /\ Declares(DeclDone(Top), <<>>)
  /\ Writes({})
  /\ UNCHANGED <<returnType, errors>>

SubtypeWithoutBase ==
  /\ At("subtype") /\ ~Top.ready /\ TypesNamed(Decl.base) = {}
  /\ Declares(DeclDone(Top), <<>>)
  /\ Reports(TypeErrors(Decl.base))
  /\ Writes({})
  /\ UNCHANGED returnType

RangeIsLost ==
  /\ AtDeclaration /\ ~Top.ready /\ Decl.node \in {"type", "subtype"}
  /\ ~AllFound(Decl.reads, AnyType)
  /\ Decl.node = "type" => HasBase(Decl)
  /\ Decl.node = "subtype" => TypesNamed(Decl.base) # {}
  /\ Abort

\* ObjectDeclaration: the constraint of the type is read first, then the name is
\* entered, then its initial value is read. The constructor calls the factory
\* of the type with the constraint as arguments, but not that of a port.
FactoryReference(kind, ms) ==
  IF kind \in {"PORT", "PARAMETER"} \/ ~IsLocal(classes, Best(ms)) THEN {}
  ELSE {Reference(classes, Here, Best(ms), 0)}
FactoryArguments(d) ==
  IF d.kind \in {"PORT", "PARAMETER"} THEN {} ELSE Written(d.range, AnyType, Here)

DeclareObject ==
  /\ At("object") /\ ~Top.ready /\ TypesNamed(Decl.type) # {}
  /\ AllFound(Decl.range, AnyType)
  /\ Declares(IF Decl.reads = <<>> THEN DeclDone(Top) ELSE Ready(Top),
              <<Entry(Decl.name, Decl.kind, BestEntry(TypesNamed(Decl.type)).type)>>)
  /\ Writes(FactoryReference(Decl.kind, TypesNamed(Decl.type)) \cup FactoryArguments(Decl))
  /\ Reports(TypeErrors(Decl.type) \cup AmbiguousNames(Decl.range, AnyType))
  /\ UNCHANGED returnType

ObjectRangeIsLost ==
  /\ At("object") /\ ~Top.ready /\ TypesNamed(Decl.type) # {}
  /\ ~AllFound(Decl.range, AnyType)
  /\ Abort

InitialType == {BestEntry(TypesNamed(Decl.type)).type}

InitialiseObject ==
  /\ At("object") /\ Top.ready /\ AllFound(Decl.reads, InitialType)
  /\ Declares(DeclDone(Top), <<>>)
  /\ Writes(Written(Decl.reads, InitialType, Here))
  /\ Reports(AmbiguousNames(Decl.reads, InitialType))
  /\ UNCHANGED returnType

InitialValueIsLost ==
  /\ At("object") /\ Top.ready /\ ~AllFound(Decl.reads, InitialType)
  /\ Abort

ObjectWithoutType ==
  /\ At("object") /\ ~Top.ready /\ TypesNamed(Decl.type) = {}
  /\ Declares(DeclDone(Top), <<>>)
  /\ Reports(TypeErrors(Decl.type))
  /\ Writes({})
  /\ UNCHANGED returnType

\* AliasDeclaration: an entry like that of the object, if there is one. The
\* constructor gets the name of the object as it stands in the source.
AliasEntries(d) ==
  LET ms == Values(d.of, AnyType)
  IN  IF ms = {} THEN <<>> ELSE <<Entry(d.name, BestEntry(ms).kind, BestEntry(ms).type)>>

DeclareAlias ==
  /\ At("alias") /\ AllFound(Decl.reads, AnyType)
  /\ Declares(DeclDone(Top), AliasEntries(Decl))
  /\ Writes(Written(Decl.reads, AnyType, Here) \cup
            {Plain(Here, m) : m \in BestOf(<<Decl.of>>, AnyType)})
  /\ Reports(ReadErrors(<<Decl.of>>, AnyType) \cup AmbiguousNames(Decl.reads, AnyType))
  /\ UNCHANGED returnType

AliasIsLost == At("alias") /\ ~AllFound(Decl.reads, AnyType) /\ Abort

\* FunctionReturn: the type of the function, NoType for a procedure or when
\* the type is not found, becomes the type that return statements expect.
FunctionType(d) ==
  IF d.type = NoType \/ TypesNamed(d.type) = {} THEN NoType
  ELSE BestEntry(TypesNamed(d.type)).type
FunctionErrors(d) == IF d.type = NoType THEN {} ELSE TypeErrors(d.type)

WithFunction(d) == AddEntries(classes, <<Entry(d.name, "FUNCTION", FunctionType(d))>>)

HasClass(d) == d.hasBody /\ ~declarationsOnly

DeclareFunction ==
  /\ At("function") /\ ~HasClass(Decl)
  /\ frames' = ReplaceTop(frames, DeclDone(Top))
  /\ classes' = WithFunction(Decl)
  /\ returnType' = FunctionType(Decl)
  /\ Reports(FunctionErrors(Decl))
  /\ Writes({})
  /\ UNCHANGED <<file, output, containsWait, waited, status>>

\* Faulty form: the type that return statements expect is not stored.
OpenUntypedFunction ==
  /\ At("function") /\ HasClass(Decl)
  /\ Define(WithFunction(Decl), "FUNCTION", NoName, NoName,
            ReplaceTop(frames, DeclDone(Top)),
            NewFrame(Decl, Decl.parameters \o Decl.decls, Decl.stmts, <<>>, {}))
  /\ Reports(FunctionErrors(Decl))
  /\ Writes({})
  /\ UNCHANGED <<file, returnType, output, status>>

\* The arguments of a function are entered first of its declarations.
OpenFunction ==
  /\ At("function") /\ HasClass(Decl)
  /\ Define(WithFunction(Decl), "FUNCTION", NoName, NoName,
            ReplaceTop(frames, DeclDone(Top)),
            NewFrame(Decl, Decl.parameters \o Decl.decls, Decl.stmts, <<>>, {}))
  /\ returnType' = FunctionType(Decl)
  /\ Reports(FunctionErrors(Decl))
  /\ Writes({})
  /\ UNCHANGED <<file, output, status>>
-----------------------------------------------------------------------------
(* What a loop without a range runs over.                                  *)

\* forLoop: the range of a loop is a type with a factory of its own. Without a
\* range, the first thing of the name that is found, of whatever kind, gives its
\* type to the variable, and its own name is written where that of a type should be.
Iterated(item) == Matches(classes, item.iteration, AnyKind, AnyType)
IterationType(item) ==
  IF item.iteration = NoType THEN INTEGER
  ELSE IF Iterated(item) = {} THEN NoType ELSE BestEntry(Iterated(item)).type
IterationErrors(item) ==
  IF item.iteration = NoType THEN {} ELSE LookupErrors(item.iteration, Iterated(item))
IterationName(item, ms) ==
  IF item.iteration = NoType \/ ms = {} THEN {} ELSE {Best(ms)}

-----------------------------------------------------------------------------
(* The middle of defineObject: body_callback and createConstructor.        *)

Turns(fs, tree, rs) ==
  /\ frames' = fs
  /\ classes' = tree
  /\ Writes(rs)
  /\ UNCHANGED <<file, flags, constructed, spawned, errors, status>>

BodyKinds == {"PROCESS", "FUNCTION"}
AtBody    == Running /\ frames # <<>> /\ Top.phase = "declarations" /\ Top.decls = <<>>

\* run() begins in the .cpp file.
StartRun ==
  /\ AtBody /\ Kind \in BodyKinds
  /\ Turns(ReplaceTop(frames, Enter(Top, "statements")), classes, {})
  /\ bodies' = Append(bodies, Here)

\* create() of a factory. printPhysicalType has made the text of the range
\* before the factory was opened.
IsPhysical(d) == d.node = "type" /\ d.physical

FactoryRange(d) ==
  LET ms == {m \in BestOf(d.reads, AnyType) : HasPrefix(classes, m)}
  IN  IF IsPhysical(d) THEN {Outside(classes, Here, m) : m \in ms}
      ELSE {Reference(classes, Here, m, 0) : m \in ms}

WriteFactory ==
  /\ AtBody /\ Kind = "FACTORY"
  /\ Turns(ReplaceTop(frames, Enter(Top, "concurrent")), classes, FactoryRange(Top.node))
  /\ UNCHANGED bodies

\* The variable of a generate loop becomes a member of its class: of the type
\* that it has in the class around, where it was entered last. The text of that
\* type was made there too, before the loop declared anything.
LastEntry(i) == classes[i].names[Len(classes[i].names)]
AroundHere == frames[Len(frames) - 1].id
IteratedBefore(item) ==
  {m \in Iterated(item) : m[1] # Here /\ m # <<AroundHere, Len(classes[AroundHere].names)>>}
MadeOutside(ms, at) == {Outside(classes, at, m) : m \in {o \in ms : HasPrefix(classes, o)}}

StartGenerate ==
  /\ AtBody /\ Kind = "GENERATE"
  /\ LET variable == LastEntry(AroundHere)
     IN  Turns(ReplaceTop(frames, Enter(Top, "concurrent")),
               AddEntries(classes, <<Entry(variable.name, "VARIABLE", variable.type)>>),
               MadeOutside(IterationName(Top.node, IteratedBefore(Top.node)), Here))
  /\ UNCHANGED bodies

StartOther ==
  /\ AtBody /\ Kind \in UnitKinds \cup {"BLOCK"}
  /\ Turns(ReplaceTop(frames, Enter(Top, "concurrent")), classes, {})
  /\ UNCHANGED bodies

\* Faulty form: the text of a function is not ended.
EndStatementsOnly ==
  /\ Running /\ frames # <<>> /\ Top.phase = "statements" /\ Top.stmts = <<>>
  /\ Turns(ReplaceTop(frames, Enter(Top, "concurrent")), classes, {})
  /\ UNCHANGED bodies

\* The text of a function ends here, that of a process only with its class.
EndStatements ==
  /\ Running /\ frames # <<>> /\ Top.phase = "statements" /\ Top.stmts = <<>>
  /\ Turns(ReplaceTop(frames, Enter(Top, "concurrent")), classes, {})
  /\ bodies' = IF Kind = "FUNCTION" THEN SubSeq(bodies, 1, Len(bodies) - 1) ELSE bodies
-----------------------------------------------------------------------------
(* Sequential statements.                                                  *)

AtStmt(node) == AtStatement /\ Stmt.node = node

\* A statement that opens no class and changes no flag.
Executes(f, rs, new) ==
  /\ frames' = ReplaceTop(frames, f)
  /\ references' = rs
  /\ Reports(new)
  /\ UNCHANGED <<file, output, classes, returnType, status>>

\* The unit around: the class whose wait() is called.
WaitReference(tree, offset) ==
  [at |-> Here, hops |-> ParentPrefix(tree, offset), to |-> <<classes[Here].path[1], 0>>,
   how |-> "here"]

WaitStatement ==
  /\ AtStmt("wait")
  /\ Executes(StmtDone(Top), {WaitReference(classes, -2)}, {})
  /\ containsWait' = TRUE
  /\ waited' = waited \cup {Here}
  /\ expected' = NoType

\* The text of an expression is lost with its first unknown name.
WrittenIfFound(reads, types) ==
  IF AllFound(reads, types) THEN Written(reads, types, Here) ELSE {}

Procedures(name) == Matches(classes, name, {"FUNCTION"}, {NoType})

\* An argument whose type is unknown keeps the procedure from being found.
ProcedureCall ==
  /\ AtStmt("call")
  /\ LET found == Procedures(Stmt.name) # {} /\ AllFound(Stmt.reads, AnyType)
     IN  Executes(StmtDone(Top),
           IF found THEN Written(Stmt.reads, AnyType, Here)
                         \cup ReferencesTo({Best(Procedures(Stmt.name))}, Here, 0)
           ELSE {},
           ReadErrors(Stmt.reads, AnyType)
           \cup IF found THEN {} ELSE {Problem("not found", Stmt.name)})
  /\ expected' = NoType
  /\ UNCHANGED <<containsWait, waited>>

ReturnStatement ==
  /\ AtStmt("return")
  /\ Executes(StmtDone(Top), WrittenIfFound(Stmt.reads, {returnType}),
              ReadErrors(Stmt.reads, {returnType}))
  /\ expected' = IF AllFound(Stmt.reads, {returnType}) THEN returnType ELSE NoType
  /\ UNCHANGED <<containsWait, waited>>

\* uniqueReturnType: of the target, all declarations count that are known
\* globally or on the chain, hidden ones too.
TargetTypes(name) ==
  {EntryOf(classes, m).type :
     m \in FindAllGlobal(classes, name, ObjectKinds, AnyType)
           \cup FindAllLocal(classes, name, ObjectKinds, AnyType)}

\* The callback of a signal assignment collects the signals that it reads. A
\* process has one list for all of them; a function ignores them.
Collected(reads, types) ==
  IF Stmt.signal /\ Kind = "PROCESS" /\ Top.node.all THEN SignalsOf(reads, types) ELSE {}

WithSignals(f, ms) == [f EXCEPT !.signals = @ \cup ms]

\* A name in the list is written into the constructor of the class around.

Assignment ==
  /\ AtStmt("assignment") /\ Cardinality(TargetTypes(Stmt.target)) = 1
  /\ LET types == TargetTypes(Stmt.target)
         ms    == Collected(Stmt.reads, types)
     IN  Executes(WithSignals(StmtDone(Top), ms),
           ReferencesTo(ms, AroundHere, -1) \cup
           (IF AllFound(Stmt.reads, types)
            THEN Written(Stmt.reads, types, Here) \cup Written(<<Stmt.target>>, types, Here)
            ELSE {}),
           ReadErrors(Stmt.reads, types) \cup ReadErrors(<<Stmt.target>>, types))
  /\ expected' = NoType
  /\ UNCHANGED <<containsWait, waited>>

\* The target is unknown, or it has declarations of different types.
AssignmentWithoutType ==
  /\ AtStmt("assignment") /\ Cardinality(TargetTypes(Stmt.target)) # 1
  /\ Executes(StmtDone(Top), {}, ReadErrors(<<Stmt.target>>, AnyType)
                                 \cup {Problem("no type", Stmt.target)})
  /\ expected' = NoType
  /\ UNCHANGED <<containsWait, waited>>

\* The statements of a branch are written even if its condition was lost.
Condition ==
  /\ AtStmt("condition")
  /\ Executes(Into(Top, Stmt.body), WrittenIfFound(Stmt.reads, AnyType),
              ReadErrors(Stmt.reads, AnyType))
  /\ expected' = NoType
  /\ UNCHANGED <<containsWait, waited>>

HasRange(item) == item.iteration = NoType /\ ~Top.ready

DefineRange(item) ==
  /\ HasRange(item) /\ AllFound(item.reads, AnyType)
  /\ DefineFactory(classes, item)
  /\ Reports(AmbiguousNames(item.reads, AnyType))
  /\ Writes({})
  /\ UNCHANGED <<file, returnType, output, status>>

LoopRange == AtStmt("for") /\ DefineRange(Stmt)

EnterLoop ==
  /\ AtStmt("for") /\ ~HasRange(Stmt)
  /\ frames' = ReplaceTop(frames, Into(Top, Stmt.body))
  /\ classes' = AddEntries(classes, <<Entry(Stmt.name, "VARIABLE", IterationType(Stmt))>>)
  /\ Reports(IterationErrors(Stmt))
  /\ Writes(ReferencesTo(IterationName(Stmt, Iterated(Stmt)), Here, 0))
  /\ UNCHANGED <<file, output, flags, status>>

LoopRangeIsLost ==
  /\ AtStmt("for") /\ HasRange(Stmt) /\ ~AllFound(Stmt.reads, AnyType)
  /\ Abort
-----------------------------------------------------------------------------
(* Concurrent statements.                                                  *)

AtConc(node) == AtConcurrent /\ Conc.node = node

\* The names of a sensitivity list are looked up before the class is opened.
Listed(p) == IF p.all THEN {}
             ELSE {Best(Values(p.sensitivity[n], AnyType)) :
                     n \in {k \in DOMAIN p.sensitivity : Values(p.sensitivity[k], AnyType) # {}}}
ListErrors(p) == IF p.all THEN {}
                 ELSE UNION {ReadErrors(<<p.sensitivity[n]>>, AnyType) : n \in DOMAIN p.sensitivity}

\* processDefinition and concurrentSignalAssignment, as far as createProcess
\* calls defineObject.
OpenProcess ==
  /\ AtConc("process")
  /\ Define(classes, "PROCESS", NoName, NoName, ReplaceTop(frames, ConcDone(Top)),
            NewFrame(Conc, Conc.decls, Conc.stmts, <<>>, Listed(Conc)))
  /\ Writes(ReferencesTo(Listed(Conc), Here, 0))
  /\ Reports(ListErrors(Conc))
  /\ UNCHANGED <<file, returnType, output, status>>

\* Faulty forms: the class is opened before its creation is written, into itself
\* therefore; and the position of the new class is one too many.
DefinePartFirst(tree, kind, rs) ==
  /\ Define(tree, kind, NoName, NoName, ReplaceTop(frames, ConcDone(Top)),
            NewFrame(Conc, Conc.decls, <<>>, Conc.conc, {}))
  /\ constructed' = Append(constructed, <<Len(classes) + 1, Len(classes) + 1>>)
  /\ Writes(rs)
  /\ UNCHANGED <<file, returnType, bodies, spawned, status>>

DefineNextPart(tree, kind, rs) ==
  /\ Define(tree, kind, NoName, NoName, ReplaceTop(frames, ConcDone(Top)),
            NewFrame(Conc, Conc.decls, <<>>, Conc.conc, {}))
  /\ constructed' = Append(constructed, <<Here, Len(classes) + 2>>)
  /\ Writes(rs)
  /\ UNCHANGED <<file, returnType, bodies, spawned, status>>

\* What a block or a generate loop is: a member that the constructor of the
\* class at hand creates, which is written before the class is opened.
DefinePart(tree, kind, rs) ==
  /\ Define(tree, kind, NoName, NoName, ReplaceTop(frames, ConcDone(Top)),
            NewFrame(Conc, Conc.decls, <<>>, Conc.conc, {}))
  /\ constructed' = Append(constructed, <<Here, Len(classes) + 1>>)
  /\ Writes(rs)
  /\ UNCHANGED <<file, returnType, bodies, spawned, status>>

OpenBlock ==
  /\ AtConc("block")
  /\ DefinePart(classes, "BLOCK", {})
  /\ UNCHANGED errors

GenerateRange == AtConc("generate") /\ DefineRange(Conc)

\* The loop itself runs in the constructor of the class around, whose variable
\* it needs: to the database this is a variable of that class.
OpenGenerate ==
  /\ AtConc("generate") /\ ~HasRange(Conc)
  /\ DefinePart(AddEntries(classes, <<Entry(Conc.name, "ITERATOR", IterationType(Conc))>>),
                "GENERATE", ReferencesTo(IterationName(Conc, Iterated(Conc)), Here, 0))
  /\ Reports(IterationErrors(Conc))

GenerateRangeIsLost ==
  /\ AtConc("generate") /\ HasRange(Conc) /\ ~AllFound(Conc.reads, AnyType)
  /\ Abort

\* concurrentStatementsInstantiation is a second pass over the statements.
PostponeInstance ==
  /\ AtConc("instance")
  /\ frames' = ReplaceTop(frames, [ConcDone(Top) EXCEPT !.instances = Append(@, Conc)])
  /\ Writes({})
  /\ UNCHANGED <<file, classes, flags, output, errors, status>>

\* componentAssociation: a formal is looked for in the entity, but what is
\* declared on the chain is searched without regard to the entity.
FormalMatches(c, n) ==
  LET entity == {i \in DOMAIN classes : IsGlobal(classes, i) /\ classes[i].name = c.entity}
      ports  == FoundIn(classes, entity, c.formals[n], ObjectKinds, AnyType)
  IN  IF ports # {} THEN ports
      ELSE FindAllLocal(classes, c.formals[n], ObjectKinds, AnyType)

Associated(c) == {n \in DOMAIN c.formals : FormalMatches(c, n) # {}}
FormalType(c, n) == {BestEntry(FormalMatches(c, n)).type}
Actuals(c, n) == Values(c.actuals[n], FormalType(c, n))

AtInstance == /\ Running /\ frames # <<>> /\ Top.phase = "concurrent"
              /\ Top.conc = <<>> /\ Top.instances # <<>>
Instance   == Head(Top.instances)

\* Faulty form: the second pass does not get past the first instance.
InstantiateAgain ==
  /\ AtInstance /\ \A n \in Associated(Instance) : Actuals(Instance, n) # {}
  /\ Writes({})
  /\ UNCHANGED <<file, frames, classes, flags, output, errors, status>>

Instantiate ==
  /\ AtInstance /\ \A n \in Associated(Instance) : Actuals(Instance, n) # {}
  /\ frames' = ReplaceTop(frames, [Top EXCEPT !.instances = Tail(@)])
  /\ Writes(ReferencesTo({Best(Actuals(Instance, n)) : n \in Associated(Instance)}, Here, 0))
  /\ Reports(
       {Problem("not found", Instance.formals[n]) :
          n \in DOMAIN Instance.formals \ Associated(Instance)}
       \cup {Problem("ambiguous", Instance.formals[n]) :
          n \in {k \in Associated(Instance) : Ambiguous(classes, FormalMatches(Instance, k))}}
       \cup {Problem("ambiguous", Instance.actuals[n]) :
          n \in {k \in Associated(Instance) : Ambiguous(classes, Actuals(Instance, k))}})
  /\ UNCHANGED <<file, classes, flags, output, status>>

ActualIsLost ==
  /\ AtInstance /\ \E n \in Associated(Instance) : Actuals(Instance, n) = {}
  /\ Abort
-----------------------------------------------------------------------------
(***************************************************************************)
(* The end of defineObject, and what its caller writes after it.           *)
(***************************************************************************)
Closes(kinds, fs) ==
  /\ Running /\ frames # <<>> /\ Top.phase = "concurrent"
  /\ Top.conc = <<>> /\ Top.instances = <<>> /\ Kind \in kinds
  /\ classes' = EndClass(classes)
  /\ frames' = fs
  /\ UNCHANGED <<file, flags, status>>

\* topHierarchyEnd: packages and entities become global.
Globalizes == Kind \in {"PACKAGE", "ENTITY"}
IsDuplicate == \E i \in 1 .. Here - 1 :
  classes[i].kind \in {"PACKAGE", "ENTITY"} /\ classes[i].name = classes[Here].name

CloseUnit ==
  /\ Closes(UnitKinds, <<>>)
  /\ Reports(IF Globalizes /\ IsDuplicate
             THEN {Problem("duplicate", classes[Here].name)} ELSE {})
  /\ Writes({})
  /\ UNCHANGED output

ClosePart ==
  /\ Closes({"BLOCK", "GENERATE"}, PopFrame)
  /\ Writes({})
  /\ UNCHANGED <<output, errors>>

\* A wrapper function in the class around calls run() of a new object.
CloseFunction ==
  /\ Closes({"FUNCTION"}, PopFrame)
  /\ constructed' = Append(constructed, <<AroundHere, Here>>)
  /\ Writes({})
  /\ UNCHANGED <<bodies, spawned, errors>>

CloseFactory ==
  /\ Closes({"FACTORY"}, ReplaceTop(PopFrame, Ready(frames[Len(frames) - 1])))
  /\ constructed' = Append(constructed, <<AroundHere, Here>>)
  /\ Writes({})
  /\ UNCHANGED <<bodies, spawned, errors>>

\* Faulty form: the flag is misread.
CloseSwapped ==
  /\ Closes({"PROCESS"}, PopFrame)
  /\ constructed' = Append(constructed, <<AroundHere, Here>>)
  /\ spawned' = spawned \cup
       {[process |-> Here, method |-> containsWait, signals |-> Top.signals]}
  /\ bodies' = SubSeq(bodies, 1, Len(bodies) - 1)
  /\ Writes({})
  /\ UNCHANGED errors

\* createProcess: the constructor around spawns a thread if there was a wait
\* statement and a method otherwise. A thread with a sensitivity list waits for
\* it first; then the text of run() ends.
CloseProcess ==
  /\ Closes({"PROCESS"}, PopFrame)
  /\ constructed' = Append(constructed, <<AroundHere, Here>>)
  /\ spawned' = spawned \cup
       {[process |-> Here, method |-> ~containsWait, signals |-> Top.signals]}
  /\ bodies' = SubSeq(bodies, 1, Len(bodies) - 1)
  /\ Writes(IF containsWait /\ Top.signals # {} THEN {WaitReference(EndClass(classes), -1)}
            ELSE {})
  /\ UNCHANGED errors
-----------------------------------------------------------------------------
\* SystemC::generate has loaded the packages that the file uses.
Init ==
  /\ todo \in Files
  /\ declarationsOnly \in BOOLEAN
  /\ frames = <<>>
  /\ classes = Loaded
  /\ containsWait = FALSE
  /\ returnType = NoType
  /\ bodies = <<>>
  /\ constructed = <<>>
  /\ spawned = {}
  /\ references = {}
  /\ expected = NoType
  /\ waited = {}
  /\ errors = {}
  /\ status = "running"

Declaration ==
  \/ OpenType \/ CloseType \/ TypeWithoutBase
  \/ OpenSubtype \/ CloseSubtype \/ SubtypeWithoutBase \/ RangeIsLost
  \/ DeclareObject \/ ObjectRangeIsLost
  \/ InitialiseObject \/ InitialValueIsLost \/ ObjectWithoutType
  \/ DeclareAlias \/ AliasIsLost \/ DeclareFunction \/ OpenFunction

Body == StartRun \/ WriteFactory \/ StartGenerate \/ StartOther \/ EndStatements

Statement ==
  \/ WaitStatement \/ ProcedureCall \/ ReturnStatement
  \/ Assignment \/ AssignmentWithoutType \/ Condition
  \/ LoopRange \/ EnterLoop \/ LoopRangeIsLost

ConcurrentStatement ==
  \/ OpenProcess \/ OpenBlock \/ GenerateRange \/ OpenGenerate \/ GenerateRangeIsLost
  \/ PostponeInstance \/ Instantiate \/ ActualIsLost

CloseClass == CloseUnit \/ ClosePart \/ CloseFunction \/ CloseFactory \/ CloseProcess

Step == \/ OpenUnit \/ SkipUnit \/ Finish
        \/ Declaration \/ Body \/ Statement \/ ConcurrentStatement \/ CloseClass

\* After the end of the process nothing happens any more.
Stopped == ~Running /\ UNCHANGED vars

Next == Step \/ Stopped

Spec == Init /\ [][Next]_vars /\ WF_vars(Step)
-----------------------------------------------------------------------------
(***************************************************************************)
(* Properties.                                                             *)
(***************************************************************************)
Positions == 1 .. Len(classes)

\* Every variable has a value of its type, and what the output refers to are
\* classes that exist.
TypeOK ==
  /\ todo \in Seq(Units) /\ declarationsOnly \in BOOLEAN
  /\ frames \in Seq(Frames) /\ classes \in Seq(Classes)
  /\ \A k \in DOMAIN frames : frames[k].id \in Positions
  /\ containsWait \in BOOLEAN /\ returnType \in AnyType /\ expected \in AnyType
  /\ bodies \in Seq(Positions) /\ constructed \in Seq(Positions \X Positions)
  /\ \A s \in spawned : s.process \in Positions
  /\ \A r \in references : r.at \in Positions /\ r.to[1] \in Positions
  /\ waited \subseteq Positions
  /\ status \in {"running", "done", "aborted"}

\* No container knows which one is being written: whenever it matters, the
\* chain of last active children is walked anew (traverseClassContainerHierarchy).
\* That chain is always the stack of the calls of defineObject in progress.
ChainIsCallStack ==
  /\ Chain(classes) = {frames[k].id : k \in DOMAIN frames}
  /\ \A k \in DOMAIN frames :
       classes[frames[k].id].path = [j \in 1 .. k |-> frames[j].id]

\* What the current chain has in its databases is a stack of lexical scopes:
\* no declaration gets into a class that is not the innermost one, and closing
\* a class closes this class (newClass, endClass, addObjectValueContainer).
Scopes == [k \in 1 .. Len(CurrentPath(classes)) |->
             LET c == classes[CurrentPath(classes)[k]]
             IN  {c.names[n] : n \in DOMAIN c.names}]
Lexical == INSTANCE LexicalScopes WITH scopes <- Scopes
ImplementsScopes == Lexical!Spec

\* The names that are written into a class are found from an object of that
\* class: following "p->" as often as getParentPrefix says leads to the class
\* that the name is a member of, or to one that inherits from it. Of names that
\* are no members of their class only those used in the class itself count.
IsMemberName(r) == r.to[2] = 0 \/ EntryOf(classes, r.to).kind \notin Locals \/ r.hops = 0

ReferencesReach ==
  \A r \in references : r.how = "here" /\ IsMemberName(r) => Reaches(classes, r)

\* The same of every name: what "Used to access parent class" (the comment on
\* the member p in defineObject) says p is for.
NamesReachThroughParents == \A r \in references : Reaches(classes, r)

\* When a file is done, each process, block, generate loop, function and factory
\* is created in exactly one place, and this is in the class around it, whose
\* "this" it gets as its parent.
IsPart(i) == i > Len(Loaded) /\ classes[i].kind \notin UnitKinds

PartsAreInstantiated ==
  /\ \A n \in DOMAIN constructed :
       Around(classes, constructed[n][2]) = classes[constructed[n][1]].path
  /\ status = "done" =>
       \A i \in Positions : IsPart(i) =>
         Cardinality({n \in DOMAIN constructed : constructed[n][2] = i}) = 1

\* The .cpp file gets its text at its end only. Although functions and processes
\* are walked inside other classes, the text of one body is never interrupted by
\* that of another, and what is written while a body is open belongs to it.
BodiesAreWhole ==
  /\ Len(bodies) <= 1
  /\ \A k \in DOMAIN frames : frames[k].phase = "statements" => bodies = <<frames[k].id>>

\* process_contains_wait is one flag for all classes, reset by each. A process
\* is spawned as a thread only if it or something in it waits, and as a method
\* although it waits only if the factory of a loop range has reset the flag.
IsInside(i, j) == \E k \in DOMAIN classes[i].path : classes[i].path[k] = j
HasLoopRange(i) == \E j \in Positions :
  classes[j].kind = "FACTORY" /\ Around(classes, j) = classes[i].path

ThreadsAreThoseThatWait ==
  \A s \in spawned :
    IF s.method THEN s.process \in waited => HasLoopRange(s.process)
    ELSE \E i \in waited : IsInside(i, s.process)

\* What the name of the flag says: a process that contains a wait statement is
\* spawned as a thread.
WaitingProcessesAreThreads ==
  \A s \in spawned : s.method => s.process \notin waited

\* parameters::returnType is one variable for all functions. The value of a
\* return statement has the type of the function around it, unless a function
\* was declared in this function after that type was stored.
DeclaresFunction(d) == \E n \in DOMAIN d.decls : d.decls[n].node = "function"

ReturnsAreTyped ==
  expected # NoType /\ Top.node.node = "function" /\ ~DeclaresFunction(Top.node) =>
    LET names == classes[AroundHere].names
    IN  \E n \in DOMAIN names : names[n] = Entry(Top.node.name, "FUNCTION", expected)

\* A concurrent signal assignment runs again whenever a signal or a port changes
\* that its run() reads: all of them are in its sensitivity list.
ConcurrentIsSensitive ==
  frames # <<>> /\ Top.node.node = "process" /\ Top.node.concurrent =>
    \A r \in references :
      LET e == EntryOf(classes, r.to)
      IN  /\ r.at = Here /\ r.to[2] # 0
          /\ e.kind \in {"SIGNAL", "PORT"} /\ e.name # Top.node.stmts[1].target
          => r.to \in Top.signals

\* The walk of every file comes to its end.
Terminates == <>(status # "running")
=============================================================================
