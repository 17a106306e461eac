------------------------------ MODULE PartProofs ------------------------------
(***************************************************************************)
(* More proofs about UnitGeneration, for every set of syntax trees: the    *)
(* text of a body is never interrupted, every part of a unit is created in *)
(* exactly one place, and the processes that wait become threads.          *)
(*                                                                         *)
(* For all of them it is enough to know what a step does to the stack of   *)
(* calls, to the kinds and the paths of the classes, to the open bodies,   *)
(* to the list of what constructors create and to the flag of the wait     *)
(* statements.  There are seven things a step may do: see StepKind.        *)
(***************************************************************************)
EXTENDS UnitGenerationProofs, FiniteSetTheorems

-----------------------------------------------------------------------------
(* The kinds of steps.                                                     *)

\* The classes that there were stay what and where they are.
PlacesKept(t, u) ==
  \A i \in 1 .. Len(t) : u[i].kind = t[i].kind /\ u[i].path = t[i].path

\* Classes that are created by what is written at their end, and the others.
CreatedLast  == {"PROCESS", "FUNCTION", "FACTORY"}
CreatedFirst == {"BLOCK", "GENERATE"}

\* A frame goes on in its phase: no declaration and no statement comes back.
GoesOn(f, g) ==
  /\ g.id = f.id /\ g.phase = f.phase
  /\ f.decls = <<>> => g.decls = <<>>
  /\ f.conc = <<>> => g.conc = <<>>

\* No step of the walk, or one that ends it.
Rests ==
  /\ UNCHANGED <<classes, frames, bodies, constructed>>
  /\ status' = "done" => status = "done" \/ frames = <<>>

StaysInClass ==
  /\ frames # <<>>
  /\ Len(classes') = Len(classes) /\ PlacesKept(classes, classes')
  /\ UNCHANGED <<constructed, status>>

\* An item of the frame on top is done.
Works ==
  /\ StaysInClass /\ UNCHANGED bodies
  /\ \E f : GoesOn(Top, f) /\ frames' = ReplaceTop(frames, f)

\* The declarations of a frame are done.
BeginsBody ==
  /\ StaysInClass /\ Top.phase = "declarations" /\ Kind \in BodyKinds
  /\ frames' = ReplaceTop(frames, Enter(Top, "statements"))
  /\ bodies' = Append(bodies, Here)

BeginsParts ==
  /\ StaysInClass /\ Top.phase = "declarations" /\ Kind \notin BodyKinds
  /\ frames' = ReplaceTop(frames, Enter(Top, "concurrent"))
  /\ UNCHANGED bodies

\* The statements of a frame are done.
EndsStatements ==
  /\ StaysInClass /\ Top.phase = "statements"
  /\ frames' = ReplaceTop(frames, Enter(Top, "concurrent"))
  /\ bodies' = IF Kind = "FUNCTION" THEN SubSeq(bodies, 1, Len(bodies) - 1) ELSE bodies

\* What of the frame on top lets it open a class of a kind.
MayOpen(kind) ==
  /\ Running
  /\ \/ frames = <<>> /\ kind \in UnitKinds
     \/ /\ frames # <<>>
        /\ \/ Top.phase = "declarations" /\ Top.decls # <<>>
           \/ Top.phase = "statements" /\ kind = "FACTORY"
           \/ Top.phase = "concurrent" /\ Top.conc # <<>>

IsNewFrame(f, kind) ==
  /\ f.id = Len(classes) + 1 /\ f.phase = "declarations"
  /\ kind \in CreatedLast => f.conc = <<>>
  /\ kind = "FACTORY" => f.decls = <<>>

\* The frame on top may be done with the item that opens the class.
OnTop(fs) ==
  \/ fs = frames
  \/ frames # <<>> /\ \E g : GoesOn(Top, g) /\ fs = ReplaceTop(frames, g)

Gains(kind) ==
  /\ Len(classes') = Len(classes) + 1 /\ PlacesKept(classes, classes')
  /\ classes'[Len(classes) + 1].kind = kind

Enters(kind) ==
  /\ MayOpen(kind)
  /\ Gains(kind)
  /\ \E fs, f : OnTop(fs) /\ IsNewFrame(f, kind) /\ frames' = Append(fs, f)
  /\ kind \in CreatedFirst =>
       frames # <<>> /\ constructed' = Append(constructed, <<Here, Len(classes) + 1>>)
  /\ kind \notin CreatedFirst => UNCHANGED constructed
  /\ UNCHANGED <<bodies, status>>

Leaves ==
  /\ frames # <<>> /\ Top.phase = "concurrent"
  /\ Len(classes') = Len(classes) /\ PlacesKept(classes, classes')
  /\ Len(frames') = Len(frames) - 1
  /\ \A k \in 1 .. Len(frames) - 1 :
       GoesOn(frames[k], frames'[k]) /\ frames'[k].conc = frames[k].conc
  /\ Kind \in CreatedLast => constructed' = Append(constructed, <<AroundHere, Here>>)
  /\ Kind \notin CreatedLast => UNCHANGED constructed
  /\ bodies' = IF Kind = "PROCESS" THEN SubSeq(bodies, 1, Len(bodies) - 1) ELSE bodies
  /\ UNCHANGED status

StepKind == \/ Rests \/ Works \/ BeginsBody \/ BeginsParts \/ EndsStatements
            \/ \E kind \in ClassKinds : Enters(kind)
            \/ Leaves
-----------------------------------------------------------------------------
(* What the operators of ClassTree do to the places of classes.            *)

LEMMA EntriesKeepPlaces ==
  ASSUME NEW t, NEW fs, Nested(t, fs), fs # <<>>, NEW es
  PROVE  Len(AddEntries(t, es)) = Len(t) /\ PlacesKept(t, AddEntries(t, es))
<1> DEFINE d == WithNames(t[Current(t)], TRUE, es)
<1>1. Current(t) = fs[Len(fs)].id /\ Len(fs) \in 1 .. Len(fs)
  BY CurrentIsTop
<1>2. Current(t) \in 1 .. Len(t) /\ IsSequence(t)
  BY <1>1 DEF Nested, IsOpen, IsTree
<1>3. d.kind = t[Current(t)].kind /\ d.path = t[Current(t)].path
  BY DEF WithNames
<1> HIDE DEF d
<1>4. AddEntries(t, es) = [t EXCEPT ![Current(t)] = d]
  BY DEF AddEntries, d
<1>5. QED
  BY <1>2, <1>3, <1>4, ReplacedIs DEF PlacesKept

LEMMA EndKeepsPlaces ==
  ASSUME NEW t, NEW fs, Nested(t, fs), fs # <<>>
  PROVE  Len(EndClass(t)) = Len(t) /\ PlacesKept(t, EndClass(t))
<1> DEFINE d == WithNames(t[Current(t)], FALSE, <<>>)
<1>1. Current(t) = fs[Len(fs)].id /\ Len(fs) \in 1 .. Len(fs)
  BY CurrentIsTop
<1>2. Current(t) \in 1 .. Len(t) /\ IsSequence(t)
  BY <1>1 DEF Nested, IsOpen, IsTree
<1>3. d.kind = t[Current(t)].kind /\ d.path = t[Current(t)].path
  BY DEF WithNames
<1> HIDE DEF d
<1>4. EndClass(t) = [t EXCEPT ![Current(t)] = d]
  BY DEF EndClass, d
<1>5. QED
  BY <1>2, <1>3, <1>4, ReplacedIs DEF PlacesKept

LEMMA NewKeepsPlaces ==
  ASSUME NEW t, IsSequence(t), NEW kind, NEW name, NEW base
  PROVE  LET u == NewClass(t, kind, name, base)
         IN  /\ Len(u) = Len(t) + 1 /\ PlacesKept(t, u)
             /\ u[Len(t) + 1].kind = kind
BY AppendedIs DEF NewClass, PlacesKept

\* The same after entries were added to the class on top.
LEMMA NewAfterEntries ==
  ASSUME IInv, NEW kind, NEW name, NEW base, NEW es, IsSequence(es),
         NEW tree, tree = classes \/ (frames # <<>> /\ tree = AddEntries(classes, es))
  PROVE  LET u == NewClass(tree, kind, name, base)
         IN  /\ Len(u) = Len(classes) + 1 /\ PlacesKept(classes, u)
             /\ u[Len(classes) + 1].kind = kind
<1>1. /\ IsSequence(tree) /\ Len(tree) = Len(classes) /\ PlacesKept(classes, tree)
      /\ Len(classes) \in Nat
  <2>1. CASE tree = classes
    BY <2>1, OpenPaths DEF IInv, Nested, IsTree, PlacesKept
  <2>2. CASE frames # <<>> /\ tree = AddEntries(classes, es)
    BY <2>2, EntriesKeepPlaces, AddKeeps, OpenPaths DEF IInv, Nested, IsTree
  <2>3. QED
    BY <2>1, <2>2
<1> DEFINE u == NewClass(tree, kind, name, base)
<1>2. Len(u) = Len(tree) + 1 /\ PlacesKept(tree, u) /\ u[Len(tree) + 1].kind = kind
  BY <1>1, NewKeepsPlaces
<1> HIDE DEF u
<1>3. QED
  BY <1>1, <1>2 DEF PlacesKept, u
-----------------------------------------------------------------------------
(* What is left of a frame after its item at hand.                         *)

LEMMA FrameGoesOn ==
  ASSUME NEW f, IsFrame(f)
  PROVE  /\ f.decls # <<>> => GoesOn(f, DeclDone(f))
         /\ GoesOn(f, StmtDone(f)) /\ GoesOn(f, Ready(f))
         /\ \A body : GoesOn(f, Into(f, body))
         /\ \A ms : GoesOn(f, WithSignals(StmtDone(f), ms))
         /\ f.conc # <<>> => GoesOn(f, ConcDone(f))
         /\ f.conc # <<>> => \A is : GoesOn(f, [ConcDone(f) EXCEPT !.instances = is])
         /\ \A is : GoesOn(f, [f EXCEPT !.instances = is])
<1>1. /\ f.decls # <<>> => GoesOn(f, DeclDone(f))
      /\ f.conc # <<>> => GoesOn(f, ConcDone(f))
  BY DEF IsFrame, FrameFields, GoesOn, DeclDone, ConcDone
<1>2. GoesOn(f, StmtDone(f)) /\ GoesOn(f, Ready(f)) /\ \A body : GoesOn(f, Into(f, body))
  BY DEF IsFrame, FrameFields, GoesOn, StmtDone, Ready, Into
<1>3. \A ms : GoesOn(f, WithSignals(StmtDone(f), ms))
  BY DEF IsFrame, FrameFields, GoesOn, StmtDone, WithSignals
<1>4. /\ f.conc # <<>> => \A is : GoesOn(f, [ConcDone(f) EXCEPT !.instances = is])
      /\ \A is : GoesOn(f, [f EXCEPT !.instances = is])
  BY DEF IsFrame, FrameFields, GoesOn, ConcDone
<1>5. QED
  BY <1>1, <1>2, <1>3, <1>4

\* The class on top gets entries, or stays as it is.
LEMMA StaysIs ==
  ASSUME IInv, frames # <<>>, UNCHANGED <<constructed, status>>,
         NEW es, classes' = classes \/ classes' = AddEntries(classes, es)
  PROVE  StaysInClass
<1>1. CASE classes' = classes
  BY <1>1 DEF StaysInClass, PlacesKept
<1>2. CASE classes' = AddEntries(classes, es)
  BY <1>2, EntriesKeepPlaces DEF IInv, StaysInClass
<1>3. QED
  BY <1>1, <1>2

LEMMA DeclarationWorks ==
  ASSUME IInv
  PROVE  /\ CloseType => Works
         /\ TypeWithoutBase => Works
         /\ CloseSubtype => Works
         /\ SubtypeWithoutBase => Works
         /\ DeclareObject => Works
         /\ InitialiseObject => Works
         /\ ObjectWithoutType => Works
         /\ DeclareAlias => Works
         /\ DeclareFunction => Works
<1>1. ASSUME AtDeclaration
      PROVE  frames # <<>> /\ GoesOn(Top, DeclDone(Top)) /\ GoesOn(Top, Ready(Top))
  BY <1>1, DeclIs, TopIs, FrameGoesOn
<1>2. ASSUME AtDeclaration, NEW f, f = DeclDone(Top) \/ f = Ready(Top), NEW es, Declares(f, es)
      PROVE  Works
  <2>1. UNCHANGED <<bodies, constructed, status>> /\ frames' = ReplaceTop(frames, f)
    BY <1>2 DEF Declares, output
  <2>2. StaysInClass
    BY <1>1, <1>2, <2>1, StaysIs DEF Declares
  <2>3. QED
    BY <1>1, <1>2, <2>1, <2>2 DEF Works
<1>3. CloseType => Works
  BY <1>2 DEF CloseType, At
<1>4. TypeWithoutBase => Works
  BY <1>2 DEF TypeWithoutBase, At
<1>5. CloseSubtype => Works
  BY <1>2 DEF CloseSubtype, At
<1>6. SubtypeWithoutBase => Works
  BY <1>2 DEF SubtypeWithoutBase, At
<1>7. DeclareObject => Works
  BY <1>2 DEF DeclareObject, At
<1>8. InitialiseObject => Works
  BY <1>2 DEF InitialiseObject, At
<1>9. ObjectWithoutType => Works
  BY <1>2 DEF ObjectWithoutType, At
<1>10. DeclareAlias => Works
  BY <1>2 DEF DeclareAlias, At
<1>11. DeclareFunction => Works
  <2>1. SUFFICES ASSUME DeclareFunction PROVE Works
    OBVIOUS
  <2>2. /\ UNCHANGED <<bodies, constructed, status>>
        /\ frames' = ReplaceTop(frames, DeclDone(Top))
        /\ classes' = WithFunction(Decl) /\ AtDeclaration
    BY <2>1 DEF DeclareFunction, output, At
  <2>3. StaysInClass
    BY <1>1, <2>2, StaysIs DEF WithFunction
  <2>4. QED
    BY <1>1, <2>2, <2>3 DEF Works
<1>12. QED
  BY <1>3, <1>4, <1>5, <1>6, <1>7, <1>8, <1>9, <1>10, <1>11

LEMMA BodyTurns ==
  ASSUME IInv
  PROVE  /\ StartRun => BeginsBody
         /\ WriteFactory => BeginsParts
         /\ StartGenerate => BeginsParts
         /\ StartOther => BeginsParts
         /\ EndStatements => EndsStatements
<1>1. ASSUME frames # <<>>, NEW fs, NEW tree, NEW rs, Turns(fs, tree, rs),
             NEW es, tree = classes \/ tree = AddEntries(classes, es)
      PROVE  StaysInClass /\ frames' = fs
  BY <1>1, StaysIs DEF Turns
<1>2. StartRun => BeginsBody
  BY <1>1 DEF StartRun, AtBody, BeginsBody
<1>3. "FACTORY" \notin BodyKinds /\ "GENERATE" \notin BodyKinds
  BY DEF BodyKinds
<1>4. WriteFactory => BeginsParts
  BY <1>1, <1>3 DEF WriteFactory, AtBody, BeginsParts
<1>5. StartGenerate => BeginsParts
  BY <1>1, <1>3 DEF StartGenerate, AtBody, BeginsParts
<1>6. StartOther => BeginsParts
  <2>1. Kind \in UnitKinds \cup {"BLOCK"} => Kind \notin BodyKinds
    BY DEF BodyKinds, UnitKinds
  <2>2. QED
    BY <1>1, <2>1 DEF StartOther, AtBody, BeginsParts
<1>7. EndStatements => EndsStatements
  BY <1>1 DEF EndStatements, EndsStatements
<1>8. QED
  BY <1>2, <1>4, <1>5, <1>6, <1>7

LEMMA StatementWorks ==
  ASSUME IInv
  PROVE  /\ WaitStatement => Works
         /\ ProcedureCall => Works
         /\ ReturnStatement => Works
         /\ Assignment => Works
         /\ AssignmentWithoutType => Works
         /\ Condition => Works
         /\ EnterLoop => Works
<1>1. ASSUME frames # <<>>, NEW f, GoesOn(Top, f), NEW rs, NEW new, Executes(f, rs, new)
      PROVE  Works
  <2>1. UNCHANGED <<bodies, constructed, status, classes>> /\ frames' = ReplaceTop(frames, f)
    BY <1>1 DEF Executes, output
  <2>2. StaysInClass
    BY <1>1, <2>1, StaysIs
  <2>3. QED
    BY <1>1, <2>1, <2>2 DEF Works
<1>2. ASSUME frames # <<>>
      PROVE  /\ GoesOn(Top, StmtDone(Top))
             /\ \A ms : GoesOn(Top, WithSignals(StmtDone(Top), ms))
             /\ \A body : GoesOn(Top, Into(Top, body))
  BY <1>2, TopIs, FrameGoesOn
<1>3. WaitStatement => Works
  BY <1>1, <1>2 DEF WaitStatement, AtStmt, AtStatement
<1>4. ProcedureCall => Works
  BY <1>1, <1>2 DEF ProcedureCall, AtStmt, AtStatement
<1>5. ReturnStatement => Works
  BY <1>1, <1>2 DEF ReturnStatement, AtStmt, AtStatement
<1>6. Assignment => Works
  BY <1>1, <1>2 DEF Assignment, AtStmt, AtStatement
<1>7. AssignmentWithoutType => Works
  BY <1>1, <1>2 DEF AssignmentWithoutType, AtStmt, AtStatement
<1>8. Condition => Works
  BY <1>1, <1>2 DEF Condition, AtStmt, AtStatement
<1>9. EnterLoop => Works
  <2>1. SUFFICES ASSUME EnterLoop PROVE Works
    OBVIOUS
  <2>2. /\ UNCHANGED <<bodies, constructed, status>> /\ frames # <<>>
        /\ frames' = ReplaceTop(frames, Into(Top, Stmt.body))
        /\ \E es : classes' = AddEntries(classes, es)
    BY <2>1 DEF EnterLoop, AtStmt, AtStatement, output
  <2>3. StaysInClass
    BY <2>2, StaysIs
  <2>4. QED
    BY <1>2, <2>2, <2>3 DEF Works
<1>10. QED
  BY <1>3, <1>4, <1>5, <1>6, <1>7, <1>8, <1>9

LEMMA InstanceWorks ==
  ASSUME IInv
  PROVE  /\ PostponeInstance => Works
         /\ Instantiate => Works
<1>1. ASSUME frames # <<>>, UNCHANGED <<classes, output, status>>,
             NEW f, GoesOn(Top, f), frames' = ReplaceTop(frames, f)
      PROVE  Works
  BY <1>1, StaysIs DEF Works, output
<1>2. PostponeInstance => Works
  <2>1. SUFFICES ASSUME PostponeInstance PROVE Works
    OBVIOUS
  <2>2. AtConcurrent /\ UNCHANGED <<classes, output, status>>
        /\ frames' = ReplaceTop(frames,
             [ConcDone(Top) EXCEPT !.instances = Append(@, Conc)])
    BY <2>1 DEF PostponeInstance, AtConc
  <2>3. /\ frames # <<>>
        /\ \A is : GoesOn(Top, [ConcDone(Top) EXCEPT !.instances = is])
    BY <2>2, ConcIs, TopIs, FrameGoesOn
  <2>4. QED
    BY <1>1, <2>2, <2>3
<1>3. Instantiate => Works
  <2>1. SUFFICES ASSUME Instantiate PROVE Works
    OBVIOUS
  <2>2. frames # <<>> /\ UNCHANGED <<classes, output, status>>
        /\ frames' = ReplaceTop(frames, [Top EXCEPT !.instances = Tail(@)])
    BY <2>1 DEF Instantiate, AtInstance
  <2>3. \A is : GoesOn(Top, [Top EXCEPT !.instances = is])
    BY <2>2, TopIs, FrameGoesOn
  <2>4. QED
    BY <1>1, <2>2, <2>3
<1>4. QED
  BY <1>2, <1>3
-----------------------------------------------------------------------------
(* Steps that open a class.                                                *)

LEMMA EntersBy ==
  ASSUME NEW kind, MayOpen(kind), Gains(kind),
         NEW fs, OnTop(fs), NEW f, IsNewFrame(f, kind), frames' = Append(fs, f),
         UNCHANGED <<bodies, status>>,
         kind \in CreatedFirst =>
           frames # <<>> /\ constructed' = Append(constructed, <<Here, Len(classes) + 1>>),
         kind \notin CreatedFirst => UNCHANGED constructed
  PROVE  Enters(kind)
<1>1. \E gs, g : OnTop(gs) /\ IsNewFrame(g, kind) /\ frames' = Append(gs, g)
  OBVIOUS
<1>2. QED
  BY <1>1 DEF Enters

LEMMA NewFrameFits ==
  ASSUME NEW kind, NEW node, NEW decls, NEW stmts, NEW conc, NEW signals,
         kind \in CreatedLast => conc = <<>>, kind = "FACTORY" => decls = <<>>
  PROVE  IsNewFrame(NewFrame(node, decls, stmts, conc, signals), kind)
BY DEF IsNewFrame, NewFrame

LEMMA FactoryEnters ==
  ASSUME IInv, frames # <<>>, NEW tree, NEW node, NEW es, IsSequence(es),
         tree = classes \/ tree = AddEntries(classes, es),
         DefineFactory(tree, node), MayOpen("FACTORY"), UNCHANGED <<output, status>>
  PROVE  Enters("FACTORY")
<1>1. IsNewFrame(NewFrame(node, <<>>, <<>>, <<>>, {}), "FACTORY")
  BY NewFrameFits
<1>2. "FACTORY" \notin CreatedFirst
  BY DEF CreatedFirst
<1> DEFINE f == NewFrame(node, <<>>, <<>>, <<>>, {})
<1>3. /\ classes' = NewClass(tree, "FACTORY", NoName, NoName)
      /\ frames' = Append(frames, f)
  BY DEF DefineFactory, Define
<1>4. Gains("FACTORY")
  BY <1>3, NewAfterEntries DEF Gains
<1> HIDE DEF f
<1>5. IsNewFrame(f, "FACTORY")
  BY <1>1 DEF f
<1>6. OnTop(frames) /\ UNCHANGED <<bodies, constructed, status>>
  BY DEF OnTop, output
<1>7. QED
  BY <1>2, <1>3, <1>4, <1>5, <1>6, EntersBy

LEMMA FactoriesEnter ==
  ASSUME IInv
  PROVE  /\ OpenType => Enters("FACTORY")
         /\ OpenSubtype => Enters("FACTORY")
         /\ LoopRange => Enters("FACTORY")
         /\ GenerateRange => Enters("FACTORY")
<1>1. AtDeclaration \/ AtStatement \/ AtConcurrent => frames # <<>> /\ MayOpen("FACTORY")
  BY DEF AtDeclaration, AtStatement, AtConcurrent, MayOpen
<1>2. OpenType => Enters("FACTORY")
  BY <1>1, DeclIs, FactoryEnters DEF OpenType, At
<1>3. OpenSubtype => Enters("FACTORY")
  BY <1>1, FactoryEnters, EntriesAreSequences DEF OpenSubtype, At
<1>4. LoopRange => Enters("FACTORY")
  BY <1>1, FactoryEnters, EntriesAreSequences DEF LoopRange, DefineRange, AtStmt
<1>5. GenerateRange => Enters("FACTORY")
  BY <1>1, FactoryEnters, EntriesAreSequences DEF GenerateRange, DefineRange, AtConc
<1>6. QED
  BY <1>2, <1>3, <1>4, <1>5

LEMMA FunctionEnters ==
  ASSUME IInv, OpenFunction
  PROVE  Enters("FUNCTION")
<1> DEFINE es == <<Entry(Decl.name, "FUNCTION", FunctionType(Decl))>>
           f  == NewFrame(Decl, Decl.parameters \o Decl.decls, Decl.stmts, <<>>, {})
           fs == ReplaceTop(frames, DeclDone(Top))
<1>1. AtDeclaration /\ UNCHANGED <<output, status>>
  BY DEF OpenFunction, At
<1>2. frames # <<>> /\ GoesOn(Top, DeclDone(Top)) /\ MayOpen("FUNCTION")
  BY <1>1, DeclIs, TopIs, FrameGoesOn DEF AtDeclaration, MayOpen
<1>3. IsNewFrame(f, "FUNCTION") /\ IsSequence(es) /\ "FUNCTION" \notin CreatedFirst
  BY NewFrameFits, EntriesAreSequences DEF CreatedFirst
<1>4. /\ classes' = NewClass(AddEntries(classes, es), "FUNCTION", NoName, NoName)
      /\ frames' = Append(fs, f)
  BY DEF OpenFunction, Define, WithFunction
<1> HIDE DEF es, f
<1>5. OnTop(fs) /\ UNCHANGED <<bodies, constructed, status>>
  BY <1>1, <1>2 DEF OnTop, output
<1>6. Gains("FUNCTION")
  BY <1>2, <1>3, <1>4, NewAfterEntries DEF Gains
<1> HIDE DEF fs
<1>7. QED
  BY <1>2, <1>3, <1>4, <1>5, <1>6, EntersBy

LEMMA UnitEnters ==
  ASSUME IInv, OpenUnit
  PROVE  \E kind \in UnitKinds : Enters(kind)
<1> DEFINE u == Head(todo)
           f == NewFrame(u, u.decls, <<>>, u.conc, {})
<1>1. frames = <<>> /\ todo # <<>> /\ Running /\ UNCHANGED <<output, status>>
  BY DEF OpenUnit, NextUnit
<1>2. u.node \in UnitKinds
  <2>1. u \in Units
    BY <1>1, HeadTailProperties DEF IInv
  <2>2. QED
    BY <2>1, NodesAssumption DEF UnitNodes
<1>3. IsNewFrame(f, u.node) /\ u.node \notin CreatedFirst /\ MayOpen(u.node)
  <2>1. u.node \notin CreatedFirst \cup CreatedLast
    BY <1>2 DEF UnitKinds, CreatedFirst, CreatedLast
  <2>2. u.node # "FACTORY"
    BY <1>2 DEF UnitKinds
  <2>3. QED
    BY <1>1, <1>2, <2>1, <2>2, NewFrameFits DEF MayOpen
<1>4. /\ classes' = NewClass(classes, u.node, u.name, u.base)
      /\ frames' = Append(frames, f)
  BY <1>1 DEF OpenUnit, Define
<1> HIDE DEF u, f
<1>5. Gains(u.node)
  BY <1>4, NewAfterEntries, EntriesAreSequences DEF Gains
<1>6. Enters(u.node)
  <2>1. OnTop(frames) /\ UNCHANGED <<bodies, constructed, status>>
    BY <1>1 DEF OnTop, output
  <2>2. QED
    BY <1>3, <1>4, <1>5, <2>1, EntersBy
<1>7. QED
  BY <1>2, <1>6

LEMMA ConcurrentEnters ==
  ASSUME IInv
  PROVE  /\ OpenProcess => Enters("PROCESS")
         /\ OpenBlock => Enters("BLOCK")
         /\ OpenGenerate => Enters("GENERATE")
<1> DEFINE fs == ReplaceTop(frames, ConcDone(Top))
<1>1. ASSUME AtConcurrent, NEW kind
      PROVE  /\ frames # <<>> /\ MayOpen(kind)
             /\ OnTop(fs)
  BY <1>1, ConcIs, TopIs, FrameGoesOn DEF AtConcurrent, MayOpen, OnTop
<1>2. IsSequence(<<>>) /\ \A e : IsSequence(<<e>>)
  BY EntriesAreSequences
<1>3. OpenProcess => Enters("PROCESS")
  <2> DEFINE f == NewFrame(Conc, Conc.decls, Conc.stmts, <<>>, Listed(Conc))
  <2>1. SUFFICES ASSUME OpenProcess PROVE Enters("PROCESS")
    OBVIOUS
  <2>2. AtConcurrent /\ UNCHANGED <<bodies, constructed, status>>
    BY <2>1 DEF OpenProcess, AtConc, output
  <2>3. /\ classes' = NewClass(classes, "PROCESS", NoName, NoName)
        /\ frames' = Append(fs, f)
    BY <2>1 DEF OpenProcess, Define
  <2>4. IsNewFrame(f, "PROCESS") /\ "PROCESS" \notin CreatedFirst
    BY NewFrameFits DEF CreatedFirst
  <2> HIDE DEF f, fs
  <2>5. Gains("PROCESS")
    BY <1>2, <2>3, NewAfterEntries DEF Gains
  <2>6. QED
    BY <1>1, <2>2, <2>3, <2>4, <2>5, EntersBy
<1>4. ASSUME AtConcurrent, NEW es, IsSequence(es), NEW tree,
             tree = classes \/ tree = AddEntries(classes, es),
             NEW kind \in CreatedFirst, NEW rs, DefinePart(tree, kind, rs)
      PROVE  Enters(kind)
  <2> DEFINE f == NewFrame(Conc, Conc.decls, <<>>, Conc.conc, {})
  <2>1. /\ classes' = NewClass(tree, kind, NoName, NoName)
        /\ frames' = Append(fs, f) /\ UNCHANGED <<bodies, status>>
        /\ constructed' = Append(constructed, <<Here, Len(classes) + 1>>)
    BY <1>4 DEF DefinePart, Define
  <2>2. kind \notin CreatedLast /\ kind # "FACTORY"
    BY <1>4 DEF CreatedFirst, CreatedLast
  <2>3. IsNewFrame(f, kind)
    BY <2>2, NewFrameFits
  <2> HIDE DEF f, fs
  <2>4. Gains(kind)
    BY <1>1, <1>4, <2>1, NewAfterEntries DEF Gains
  <2>5. QED
    BY <1>1, <1>4, <2>1, <2>3, <2>4, EntersBy
<1>5. OpenBlock => Enters("BLOCK")
  BY <1>2, <1>4 DEF OpenBlock, AtConc, CreatedFirst
<1>6. OpenGenerate => Enters("GENERATE")
  BY <1>2, <1>4 DEF OpenGenerate, AtConc, CreatedFirst
<1>7. QED
  BY <1>3, <1>5, <1>6
-----------------------------------------------------------------------------
(* Steps that close a class.                                               *)

LEMMA ClassCloses ==
  ASSUME IInv, NEW kinds, NEW fs, Closes(kinds, fs)
  PROVE  /\ frames # <<>> /\ Top.phase = "concurrent" /\ Kind \in kinds
         /\ Len(classes') = Len(classes) /\ PlacesKept(classes, classes')
         /\ frames' = fs /\ UNCHANGED status
         /\ Len(PopFrame) = Len(frames) - 1 /\ IsSequence(PopFrame)
         /\ \A k \in 1 .. Len(frames) - 1 : PopFrame[k] = frames[k]
<1>1. /\ frames # <<>> /\ Top.phase = "concurrent" /\ Kind \in kinds
      /\ classes' = EndClass(classes) /\ frames' = fs /\ UNCHANGED status
  BY DEF Closes
<1>2. Len(classes') = Len(classes) /\ PlacesKept(classes, classes')
  BY <1>1, EndKeepsPlaces DEF IInv
<1>3. QED
  BY <1>1, <1>2, FrontIs DEF IInv, Nested, IsStack, PopFrame

LEMMA CloseLeaves ==
  ASSUME IInv
  PROVE  /\ CloseUnit => Leaves
         /\ ClosePart => Leaves
         /\ CloseFunction => Leaves
         /\ CloseFactory => Leaves
         /\ CloseProcess => Leaves
<1>1. /\ UnitKinds \cap (CreatedLast \cup CreatedFirst) = {}
      /\ "PROCESS" \notin UnitKinds
  BY DEF UnitKinds, CreatedLast, CreatedFirst
<1>2. CloseUnit => Leaves
  <2>1. SUFFICES ASSUME CloseUnit PROVE Leaves
    OBVIOUS
  <2>2. Closes(UnitKinds, <<>>) /\ UNCHANGED <<bodies, constructed>>
    BY <2>1 DEF CloseUnit, output
  <2>3. /\ frames # <<>> /\ Top.phase = "concurrent" /\ Kind \in UnitKinds
        /\ Len(classes') = Len(classes) /\ PlacesKept(classes, classes')
        /\ frames' = <<>> /\ UNCHANGED status
    BY <2>2, ClassCloses
  <2>4. Len(frames) = 1 /\ Len(frames') = 0
    BY <2>3, TopIs, EmptySeq
  <2>5. Kind \notin CreatedLast /\ Kind # "PROCESS"
    BY <1>1, <2>3
  <2>6. QED
    BY <2>2, <2>3, <2>4, <2>5 DEF Leaves
<1>3. ASSUME NEW kinds, Closes(kinds, PopFrame)
      PROVE  /\ frames # <<>> /\ Top.phase = "concurrent" /\ Kind \in kinds
             /\ Len(classes') = Len(classes) /\ PlacesKept(classes, classes')
             /\ Len(frames') = Len(frames) - 1 /\ UNCHANGED status
             /\ \A k \in 1 .. Len(frames) - 1 :
                  GoesOn(frames[k], frames'[k]) /\ frames'[k].conc = frames[k].conc
  BY <1>3, ClassCloses DEF GoesOn
<1>4. ClosePart => Leaves
  <2>1. SUFFICES ASSUME ClosePart PROVE Leaves
    OBVIOUS
  <2>2. Closes({"BLOCK", "GENERATE"}, PopFrame) /\ UNCHANGED <<bodies, constructed>>
    BY <2>1 DEF ClosePart, output
  <2>3. Kind \in {"BLOCK", "GENERATE"}
    BY <1>3, <2>2
  <2>4. Kind \notin CreatedLast /\ Kind # "PROCESS"
    BY <2>3 DEF CreatedLast
  <2>5. QED
    BY <1>3, <2>2, <2>4 DEF Leaves
<1>5. CloseFunction => Leaves
  <2>1. SUFFICES ASSUME CloseFunction PROVE Leaves
    OBVIOUS
  <2>2. /\ Closes({"FUNCTION"}, PopFrame) /\ UNCHANGED bodies
        /\ constructed' = Append(constructed, <<AroundHere, Here>>)
    BY <2>1 DEF CloseFunction
  <2>3. Kind = "FUNCTION" /\ Kind \in CreatedLast
    BY <1>3, <2>2 DEF CreatedLast
  <2>4. QED
    BY <1>3, <2>2, <2>3 DEF Leaves
<1>6. CloseProcess => Leaves
  <2>1. SUFFICES ASSUME CloseProcess PROVE Leaves
    OBVIOUS
  <2>2. /\ Closes({"PROCESS"}, PopFrame)
        /\ bodies' = SubSeq(bodies, 1, Len(bodies) - 1)
        /\ constructed' = Append(constructed, <<AroundHere, Here>>)
    BY <2>1 DEF CloseProcess
  <2>3. Kind = "PROCESS" /\ Kind \in CreatedLast
    BY <1>3, <2>2 DEF CreatedLast
  <2>4. QED
    BY <1>3, <2>2, <2>3 DEF Leaves
<1>7. CloseFactory => Leaves
  <2> DEFINE n == Len(frames)
             f == Ready(frames[n - 1])
             fs == ReplaceTop(PopFrame, f)
  <2>1. SUFFICES ASSUME CloseFactory PROVE Leaves
    OBVIOUS
  <2>2. /\ Closes({"FACTORY"}, fs) /\ UNCHANGED bodies
        /\ constructed' = Append(constructed, <<AroundHere, Here>>)
    BY <2>1 DEF CloseFactory
  <2> HIDE DEF f, fs
  <2>3. /\ frames # <<>> /\ Top.phase = "concurrent" /\ Kind \in {"FACTORY"}
        /\ Len(classes') = Len(classes) /\ PlacesKept(classes, classes')
        /\ frames' = fs /\ UNCHANGED status
        /\ Len(PopFrame) = n - 1 /\ IsSequence(PopFrame)
        /\ \A k \in 1 .. n - 1 : PopFrame[k] = frames[k]
    BY <2>2, ClassCloses
  <2>4. Kind = "FACTORY" /\ Kind \in CreatedLast /\ Kind # "PROCESS"
    BY <2>3 DEF CreatedLast
  <2>5. n \in Nat \ {0} /\ n # 1 /\ n - 1 \in 1 .. n - 1
    BY <2>3, <2>4, TopIs DEF UnitKinds
  <2>6. GoesOn(frames[n - 1], f) /\ f.conc = frames[n - 1].conc
    <3>1. n - 1 \in 1 .. n
      BY <2>5
    <3>2. IsFrame(frames[n - 1])
      BY <3>1 DEF IInv, Nested, IsStack
    <3>3. QED
      BY <3>2 DEF IsFrame, FrameFields, GoesOn, Ready, f
  <2>7. /\ Len(fs) = n - 1
        /\ \A k \in 1 .. n - 1 : fs[k] = IF k = n - 1 THEN f ELSE frames[k]
    <3>1. fs = [PopFrame EXCEPT ![n - 1] = f]
      BY <2>3 DEF ReplaceTop, fs
    <3>2. QED
      BY <2>3, <2>5, <3>1, ReplacedIs
  <2>8. \A k \in 1 .. n - 1 :
          GoesOn(frames[k], fs[k]) /\ fs[k].conc = frames[k].conc
    BY <2>6, <2>7 DEF GoesOn
  <2>9. QED
    BY <2>2, <2>3, <2>4, <2>7, <2>8 DEF Leaves
<1>8. QED
  BY <1>2, <1>4, <1>5, <1>6, <1>7
-----------------------------------------------------------------------------
(* Every step is of one of the kinds.                                      *)

LEMMA StepIsKind == IInv /\ [Next]_vars => StepKind
<1> SUFFICES ASSUME IInv, [Next]_vars PROVE StepKind
  OBVIOUS
<1>1. UnitKinds \subseteq ClassKinds
      /\ {"PROCESS", "BLOCK", "GENERATE", "FUNCTION", "FACTORY"} \subseteq ClassKinds
  BY DEF ClassKinds
<1>2. ASSUME Abort PROVE Rests
  BY <1>2 DEF Abort, output, Rests
<1>3. CASE OpenUnit
  BY <1>1, <1>3, UnitEnters DEF StepKind
<1>4. CASE SkipUnit
  BY <1>4 DEF SkipUnit, output, Rests, StepKind
<1>5. CASE Finish
  BY <1>5 DEF Finish, output, Rests, StepKind
<1>6. CASE Declaration
  <2>1. RangeIsLost \/ ObjectRangeIsLost \/ InitialValueIsLost \/ AliasIsLost => Rests
    BY <1>2 DEF RangeIsLost, ObjectRangeIsLost, InitialValueIsLost, AliasIsLost
  <2>2. OpenType \/ OpenSubtype \/ OpenFunction => StepKind
    BY <1>1, FactoriesEnter, FunctionEnters DEF StepKind
  <2>3. QED
    BY <1>6, <2>1, <2>2, DeclarationWorks DEF Declaration, StepKind
<1>7. CASE Body
  BY <1>7, BodyTurns DEF Body, StepKind
<1>8. CASE Statement
  <2>1. LoopRangeIsLost => Rests
    BY <1>2 DEF LoopRangeIsLost
  <2>2. LoopRange => StepKind
    BY <1>1, FactoriesEnter DEF StepKind
  <2>3. QED
    BY <1>8, <2>1, <2>2, StatementWorks DEF Statement, StepKind
<1>9. CASE ConcurrentStatement
  <2>1. GenerateRangeIsLost \/ ActualIsLost => Rests
    BY <1>2 DEF GenerateRangeIsLost, ActualIsLost
  <2>2. GenerateRange \/ OpenProcess \/ OpenBlock \/ OpenGenerate => StepKind
    BY <1>1, FactoriesEnter, ConcurrentEnters DEF StepKind
  <2>3. QED
    BY <1>9, <2>1, <2>2, InstanceWorks DEF ConcurrentStatement, StepKind
<1>10. CASE CloseClass
  BY <1>10, CloseLeaves DEF CloseClass, StepKind
<1>11. CASE UNCHANGED vars
  BY <1>11 DEF vars, Rests, StepKind
<1>12. QED
  BY <1>3, <1>4, <1>5, <1>6, <1>7, <1>8, <1>9, <1>10, <1>11 DEF Next, Stopped, Step
-----------------------------------------------------------------------------
(* What the steps leave of the frames.                                     *)

\* The frame g of a later state stands for the frame f of this one.
SamePhase(f, g) == g.id = f.id /\ g.phase = f.phase

LEMMA FramesHave ==
  ASSUME IInv
  PROVE  /\ IsSequence(frames) /\ Len(frames) \in Nat /\ Len(classes) \in Nat
         /\ \A k \in 1 .. Len(frames) :
              IsFrame(frames[k]) /\ frames[k].id \in 1 .. Len(classes)
BY OpenPaths DEF IInv, Nested, IsStack, IsOpen

\* The frame on top is replaced.
LEMMA ReplacedFrames ==
  ASSUME NEW fs, IsSequence(fs), fs # <<>>, NEW f
  PROVE  /\ IsSequence(ReplaceTop(fs, f)) /\ Len(ReplaceTop(fs, f)) = Len(fs)
         /\ \A k \in 1 .. Len(fs) :
              ReplaceTop(fs, f)[k] = IF k = Len(fs) THEN f ELSE fs[k]
<1>1. Len(fs) \in 1 .. Len(fs)
  BY FrontIs
<1>2. QED
  BY <1>1, ExceptIs DEF ReplaceTop

\* A frame is added, and the one below it may go on.
LEMMA EnteredFrames ==
  ASSUME IInv, NEW kind \in ClassKinds, Enters(kind)
  PROVE  \E f : /\ IsNewFrame(f, kind)
                /\ Len(frames') = Len(frames) + 1 /\ frames'[Len(frames) + 1] = f
                /\ \A k \in 1 .. Len(frames) : GoesOn(frames[k], frames'[k])
<1>1. PICK fs, f : OnTop(fs) /\ IsNewFrame(f, kind) /\ frames' = Append(fs, f)
  BY DEF Enters
<1>2. /\ IsSequence(fs) /\ Len(fs) = Len(frames)
      /\ \A k \in 1 .. Len(frames) : GoesOn(frames[k], fs[k])
  <2>1. CASE fs = frames
    BY <2>1, FramesHave DEF GoesOn
  <2>2. CASE frames # <<>> /\ \E g : GoesOn(Top, g) /\ fs = ReplaceTop(frames, g)
    <3>1. PICK g : GoesOn(Top, g) /\ fs = ReplaceTop(frames, g)
      BY <2>2
    <3>2. /\ IsSequence(fs) /\ Len(fs) = Len(frames)
          /\ \A k \in 1 .. Len(frames) : fs[k] = IF k = Len(frames) THEN g ELSE frames[k]
      BY <2>2, <3>1, FramesHave, ReplacedFrames
    <3>3. \A k \in 1 .. Len(frames) : k # Len(frames) => GoesOn(frames[k], fs[k])
      BY <3>2 DEF GoesOn
    <3>4. QED
      BY <3>1, <3>2, <3>3 DEF Top
  <2>3. QED
    BY <1>1, <2>1, <2>2 DEF OnTop
<1>3. /\ Len(frames') = Len(frames) + 1 /\ frames'[Len(frames) + 1] = f
      /\ \A k \in 1 .. Len(frames) : frames'[k] = fs[k]
  BY <1>1, <1>2, AppendedIs
<1>4. QED
  BY <1>1, <1>2, <1>3
-----------------------------------------------------------------------------
(* Bodies.                                                                 *)

\* The text of a function is open while its statements are walked, that of a
\* process until its class is closed.
Holds(kind, f) ==
  \/ f.phase = "statements"
  \/ f.phase = "concurrent" /\ kind = "PROCESS"

KindOf(t, fs, k) == t[fs[k].id].kind
Owners(t, fs)    == {k \in 1 .. Len(fs) : Holds(KindOf(t, fs, k), fs[k])}

FrameFits(kind, f) ==
  /\ f.phase = "statements" => kind \in BodyKinds
  /\ kind \in CreatedLast => f.conc = <<>>
  /\ kind = "FACTORY" => f.decls = <<>>

\* At most one call has a body open.  Above it there is at most a factory, in
\* which there is nothing to open a class for.
IsOwner(t, fs, k) ==
  k = Len(fs) \/ (k = Len(fs) - 1 /\ KindOf(t, fs, Len(fs)) = "FACTORY")

Owned(t, fs, bs) ==
  \/ Owners(t, fs) = {} /\ bs = <<>>
  \/ \E k \in 1 .. Len(fs) :
       Owners(t, fs) = {k} /\ bs = <<fs[k].id>> /\ IsOwner(t, fs, k)

Fitting(t, fs) == \A k \in 1 .. Len(fs) : FrameFits(KindOf(t, fs, k), fs[k])

BodyInv == Fitting(classes, frames) /\ Owned(classes, frames, bodies)

LEMMA KindsStay ==
  ASSUME IInv, PlacesKept(classes, classes'), NEW fs, NEW k \in 1 .. Len(frames),
         fs[k].id = frames[k].id
  PROVE  KindOf(classes', fs, k) = KindOf(classes, frames, k)
BY FramesHave DEF PlacesKept, KindOf

LEMMA GoesOnFits ==
  ASSUME NEW kind, NEW f, NEW g, FrameFits(kind, f), GoesOn(f, g)
  PROVE  FrameFits(kind, g) /\ (Holds(kind, g) <=> Holds(kind, f))
BY DEF FrameFits, GoesOn, Holds

LEMMA WorkKeepsBodies ==
  ASSUME IInv, BodyInv, Works
  PROVE  BodyInv'
<1>1. PICK f : GoesOn(Top, f) /\ frames' = ReplaceTop(frames, f)
  BY DEF Works
<1>2. frames # <<>> /\ PlacesKept(classes, classes') /\ bodies' = bodies
  BY DEF Works, StaysInClass
<1>3. /\ Len(frames') = Len(frames)
      /\ \A k \in 1 .. Len(frames) : frames'[k] = IF k = Len(frames) THEN f ELSE frames[k]
  BY <1>1, <1>2, FramesHave, ReplacedFrames
<1>4. ASSUME NEW k \in 1 .. Len(frames)
      PROVE  /\ frames'[k].id = frames[k].id
             /\ KindOf(classes', frames', k) = KindOf(classes, frames, k)
             /\ FrameFits(KindOf(classes, frames, k), frames'[k])
             /\ Holds(KindOf(classes, frames, k), frames'[k])
                  <=> Holds(KindOf(classes, frames, k), frames[k])
  <2>1. GoesOn(frames[k], frames'[k])
    BY <1>1, <1>3 DEF GoesOn, Top
  <2>2. FrameFits(KindOf(classes, frames, k), frames[k])
    BY DEF BodyInv, Fitting
  <2>3. frames'[k].id = frames[k].id
    BY <2>1 DEF GoesOn
  <2>4. QED
    BY <1>2, <2>1, <2>2, <2>3, GoesOnFits, KindsStay
<1>5. Fitting(classes', frames') /\ Owners(classes', frames') = Owners(classes, frames)
  BY <1>3, <1>4 DEF Fitting, Owners
<1>6. \A k \in 1 .. Len(frames) :
        IsOwner(classes, frames, k) => IsOwner(classes', frames', k)
  <2>1. Len(frames) \in 1 .. Len(frames)
    BY <1>2, TopIs
  <2>2. QED
    BY <1>3, <1>4, <2>1 DEF IsOwner
<1>7. Owned(classes', frames', bodies')
  BY <1>2, <1>3, <1>4, <1>5, <1>6 DEF BodyInv, Owned
<1>8. QED
  BY <1>5, <1>7 DEF BodyInv

LEMMA TopFits ==
  ASSUME IInv, BodyInv, frames # <<>>
  PROVE  /\ Len(frames) \in 1 .. Len(frames)
         /\ KindOf(classes, frames, Len(frames)) = Kind
         /\ frames[Len(frames)] = Top /\ FrameFits(Kind, Top)
<1>1. Len(frames) \in 1 .. Len(frames)
  BY TopIs
<1>2. KindOf(classes, frames, Len(frames)) = Kind /\ frames[Len(frames)] = Top
  BY DEF KindOf, Kind, Here, Top
<1>3. QED
  BY <1>1, <1>2 DEF BodyInv, Fitting

LEMMA TopOwns ==
  ASSUME IInv, BodyInv, frames # <<>>, Holds(Kind, Top)
  PROVE  Owners(classes, frames) = {Len(frames)} /\ bodies = <<Here>>
<1>1. Len(frames) \in Owners(classes, frames)
  BY TopFits DEF Owners
<1>2. PICK k \in 1 .. Len(frames) :
        Owners(classes, frames) = {k} /\ bodies = <<frames[k].id>>
  BY <1>1 DEF BodyInv, Owned
<1>3. k = Len(frames)
  BY <1>1, <1>2
<1>4. QED
  BY <1>2, <1>3 DEF Here, Top

LEMMA NobodyOwns ==
  ASSUME IInv, BodyInv, frames # <<>>, ~Holds(Kind, Top), Kind # "FACTORY"
  PROVE  Owners(classes, frames) = {} /\ bodies = <<>>
<1>1. Len(frames) \notin Owners(classes, frames)
  BY TopFits DEF Owners
<1>2. \A k \in 1 .. Len(frames) :
        IsOwner(classes, frames, k) => k = Len(frames)
  BY TopFits DEF IsOwner
<1>3. QED
  BY <1>1, <1>2 DEF BodyInv, Owned

\* The frame on top changes to another phase.
LEMMA PhaseEntered ==
  ASSUME IInv, BodyInv, StaysInClass, NEW phase,
         frames' = ReplaceTop(frames, Enter(Top, phase))
  PROVE  /\ Len(frames') = Len(frames)
         /\ frames'[Len(frames)] = Enter(Top, phase)
         /\ \A k \in 1 .. Len(frames) :
              /\ frames'[k].id = frames[k].id
              /\ KindOf(classes', frames', k) = KindOf(classes, frames, k)
              /\ k # Len(frames) => frames'[k] = frames[k]
         /\ Enter(Top, phase).phase = phase /\ Enter(Top, phase).id = Here
         /\ phase # "statements" \/ Kind \in BodyKinds => Fitting(classes', frames')
<1>1. frames # <<>> /\ PlacesKept(classes, classes')
  BY DEF StaysInClass
<1>2. /\ Len(frames') = Len(frames)
      /\ \A k \in 1 .. Len(frames) :
           frames'[k] = IF k = Len(frames) THEN Enter(Top, phase) ELSE frames[k]
  BY <1>1, FramesHave, ReplacedFrames
<1>3. /\ Enter(Top, phase).phase = phase /\ Enter(Top, phase).id = Here
      /\ Enter(Top, phase).conc = Top.conc /\ Enter(Top, phase).decls = Top.decls
  <2>1. IsFrame(Top)
    BY <1>1, TopIs
  <2>2. QED
    BY <2>1 DEF IsFrame, FrameFields, Enter, Here
<1>4. \A k \in 1 .. Len(frames) : frames'[k].id = frames[k].id
  BY <1>2, <1>3 DEF Here, Top
<1>5. \A k \in 1 .. Len(frames) :
        KindOf(classes', frames', k) = KindOf(classes, frames, k)
  BY <1>1, <1>4, KindsStay
<1>6. ASSUME phase # "statements" \/ Kind \in BodyKinds,
             NEW k \in 1 .. Len(frames)
      PROVE  FrameFits(KindOf(classes, frames, k), frames'[k])
  <2>1. CASE k = Len(frames)
    <3>1. FrameFits(Kind, Enter(Top, phase))
      BY <1>1, <1>3, <1>6, TopFits DEF FrameFits
    <3>2. QED
      BY <1>1, <1>2, <2>1, <3>1, TopFits
  <2>2. CASE k # Len(frames)
    BY <1>2, <2>2 DEF BodyInv, Fitting
  <2>3. QED
    BY <2>1, <2>2
<1>7. phase # "statements" \/ Kind \in BodyKinds => Fitting(classes', frames')
  BY <1>2, <1>5, <1>6 DEF Fitting
<1>8. Len(frames) \in 1 .. Len(frames)
  BY <1>1, TopIs
<1>9. QED
  BY <1>2, <1>3, <1>4, <1>5, <1>7, <1>8

LEMMA BeginKeepsBodies ==
  ASSUME IInv, BodyInv, BeginsBody
  PROVE  BodyInv'
<1> DEFINE n == Len(frames)
<1>1. /\ frames # <<>> /\ Top.phase = "declarations" /\ Kind \in BodyKinds
      /\ StaysInClass /\ frames' = ReplaceTop(frames, Enter(Top, "statements"))
      /\ bodies' = Append(bodies, Here)
  BY DEF BeginsBody, StaysInClass
<1>2. ~Holds(Kind, Top) /\ Kind # "FACTORY"
  BY <1>1 DEF Holds, BodyKinds
<1>3. Owners(classes, frames) = {} /\ bodies = <<>>
  BY <1>1, <1>2, NobodyOwns
<1>4. bodies' = <<Here>>
  BY <1>1, <1>3
<1>5. /\ Len(frames') = n /\ frames'[n] = Enter(Top, "statements")
      /\ \A k \in 1 .. n : k # n => frames'[k] = frames[k]
      /\ \A k \in 1 .. n : KindOf(classes', frames', k) = KindOf(classes, frames, k)
      /\ frames'[n].phase = "statements" /\ frames'[n].id = Here
      /\ Fitting(classes', frames')
  BY <1>1, PhaseEntered
<1>6. n \in 1 .. n
  BY <1>1, TopIs
<1>7. ASSUME NEW k \in 1 .. n
      PROVE  Holds(KindOf(classes', frames', k), frames'[k]) <=> k = n
  <2>1. CASE k = n
    BY <1>5, <2>1 DEF Holds
  <2>2. CASE k # n
    BY <1>3, <1>5, <2>2 DEF Owners
  <2>3. QED
    BY <2>1, <2>2
<1>8. Owners(classes', frames') = {n}
  BY <1>5, <1>6, <1>7 DEF Owners
<1>9. Owned(classes', frames', bodies')
  BY <1>4, <1>5, <1>6, <1>8 DEF Owned, IsOwner
<1>10. QED
  BY <1>5, <1>9 DEF BodyInv

LEMMA PartsKeepBodies ==
  ASSUME IInv, BodyInv, BeginsParts
  PROVE  BodyInv'
<1> DEFINE n == Len(frames)
<1>1. /\ frames # <<>> /\ Top.phase = "declarations" /\ Kind \notin BodyKinds
      /\ StaysInClass /\ frames' = ReplaceTop(frames, Enter(Top, "concurrent"))
      /\ bodies' = bodies
  BY DEF BeginsParts, StaysInClass
<1>2. ~Holds(Kind, Top) /\ Kind # "PROCESS"
  BY <1>1 DEF Holds, BodyKinds
<1>3. /\ Len(frames') = n
      /\ \A k \in 1 .. n : /\ frames'[k].id = frames[k].id
                           /\ k # n => frames'[k] = frames[k]
                           /\ KindOf(classes', frames', k) = KindOf(classes, frames, k)
      /\ frames'[n].phase = "concurrent"
      /\ Fitting(classes', frames')
  BY <1>1, PhaseEntered
<1>4. n \in 1 .. n /\ KindOf(classes, frames, n) = Kind /\ frames[n] = Top
  BY <1>1, TopFits
<1>5. ASSUME NEW k \in 1 .. n
      PROVE  Holds(KindOf(classes', frames', k), frames'[k])
               <=> Holds(KindOf(classes, frames, k), frames[k])
  <2>1. CASE k = n
    BY <1>2, <1>3, <1>4, <2>1 DEF Holds
  <2>2. CASE k # n
    BY <1>3, <2>2
  <2>3. QED
    BY <2>1, <2>2
<1>6. Owners(classes', frames') = Owners(classes, frames)
  BY <1>3, <1>5 DEF Owners
<1>7. \A k \in 1 .. n : IsOwner(classes, frames, k) => IsOwner(classes', frames', k)
  BY <1>3, <1>4 DEF IsOwner
<1>8. Owned(classes', frames', bodies')
  BY <1>1, <1>3, <1>6, <1>7 DEF BodyInv, Owned
<1>9. QED
  BY <1>3, <1>8 DEF BodyInv

LEMMA EndKeepsBodies ==
  ASSUME IInv, BodyInv, EndsStatements
  PROVE  BodyInv'
<1> DEFINE n == Len(frames)
<1>1. /\ frames # <<>> /\ Top.phase = "statements" /\ StaysInClass
      /\ frames' = ReplaceTop(frames, Enter(Top, "concurrent"))
      /\ bodies' = IF Kind = "FUNCTION" THEN SubSeq(bodies, 1, Len(bodies) - 1) ELSE bodies
  BY DEF EndsStatements, StaysInClass
<1>2. Owners(classes, frames) = {n} /\ bodies = <<Here>>
  BY <1>1, TopOwns DEF Holds
<1>3. Kind \in {"PROCESS", "FUNCTION"}
  BY <1>1, TopFits DEF FrameFits, BodyKinds
<1>4. /\ Len(frames') = n
      /\ \A k \in 1 .. n : k # n => frames'[k] = frames[k]
      /\ \A k \in 1 .. n : KindOf(classes', frames', k) = KindOf(classes, frames, k)
      /\ frames'[n].phase = "concurrent" /\ frames'[n].id = Here
      /\ Fitting(classes', frames')
  BY <1>1, PhaseEntered
<1>5. n \in 1 .. n /\ KindOf(classes, frames, n) = Kind
  BY <1>1, TopFits
<1>6. ASSUME NEW k \in 1 .. n
      PROVE  Holds(KindOf(classes', frames', k), frames'[k]) <=> k = n /\ Kind = "PROCESS"
  <2>1. CASE k = n
    BY <1>4, <1>5, <2>1 DEF Holds
  <2>2. CASE k # n
    BY <1>2, <1>4, <2>2 DEF Owners
  <2>3. QED
    BY <2>1, <2>2
<1>7. CASE Kind = "PROCESS"
  <2>1. Owners(classes', frames') = {n}
    BY <1>4, <1>5, <1>6, <1>7 DEF Owners
  <2>2. Owned(classes', frames', bodies')
    BY <1>1, <1>2, <1>4, <1>5, <1>7, <2>1 DEF Owned, IsOwner
  <2>3. QED
    BY <1>4, <2>2 DEF BodyInv
<1>8. CASE Kind = "FUNCTION"
  <2>1. Owners(classes', frames') = {}
    BY <1>4, <1>6, <1>8 DEF Owners
  <2>2. bodies' = <<>>
    BY <1>1, <1>2, <1>8
  <2>3. QED
    BY <1>4, <2>1, <2>2 DEF BodyInv, Owned
<1>9. QED
  BY <1>3, <1>7, <1>8

\* A class opens only while no body is open, but for the factory of the range of
\* a loop in a body.
LEMMA OpensOutside ==
  ASSUME IInv, BodyInv, NEW kind, MayOpen(kind)
  PROVE  \/ Owners(classes, frames) = {} /\ bodies = <<>>
         \/ /\ frames # <<>> /\ kind = "FACTORY"
            /\ Owners(classes, frames) = {Len(frames)} /\ bodies = <<Here>>
<1>1. CASE frames = <<>>
  <2>1. Len(frames) = 0
    BY <1>1, EmptySeq
  <2>2. QED
    BY <2>1 DEF BodyInv, Owned
<1>2. CASE frames # <<>>
  <2>1. /\ FrameFits(Kind, Top)
        /\ \/ Top.phase = "declarations" /\ Top.decls # <<>>
           \/ Top.phase = "statements" /\ kind = "FACTORY"
           \/ Top.phase = "concurrent" /\ Top.conc # <<>>
    BY <1>2, TopFits DEF MayOpen
  <2>2. Kind # "FACTORY"
    BY <2>1 DEF FrameFits, CreatedLast, BodyKinds
  <2>3. CASE Holds(Kind, Top)
    <3>1. Top.phase = "statements" /\ kind = "FACTORY"
      BY <2>1, <2>3 DEF Holds, FrameFits, CreatedLast
    <3>2. QED
      BY <1>2, <2>3, <3>1, TopOwns
  <2>4. CASE ~Holds(Kind, Top)
    BY <1>2, <2>2, <2>4, NobodyOwns
  <2>5. QED
    BY <2>3, <2>4
<1>3. QED
  BY <1>1, <1>2

LEMMA EnterKeepsBodies ==
  ASSUME IInv, BodyInv, NEW kind \in ClassKinds, Enters(kind)
  PROVE  BodyInv'
<1> DEFINE n == Len(frames)
           m == n + 1
<1>1. PICK f : /\ IsNewFrame(f, kind)
               /\ Len(frames') = m /\ frames'[m] = f
               /\ \A k \in 1 .. n : GoesOn(frames[k], frames'[k])
  BY EnteredFrames
<1>2. /\ PlacesKept(classes, classes') /\ bodies' = bodies /\ MayOpen(kind)
      /\ classes'[Len(classes) + 1].kind = kind
  BY DEF Enters, Gains
<1>3. n \in Nat
  BY FramesHave
<1>4. ASSUME NEW k \in 1 .. n
      PROVE  /\ frames'[k].id = frames[k].id
             /\ KindOf(classes', frames', k) = KindOf(classes, frames, k)
             /\ FrameFits(KindOf(classes, frames, k), frames'[k])
             /\ Holds(KindOf(classes, frames, k), frames'[k])
                  <=> Holds(KindOf(classes, frames, k), frames[k])
  <2>1. GoesOn(frames[k], frames'[k])
    BY <1>1
  <2>2. FrameFits(KindOf(classes, frames, k), frames[k])
    BY DEF BodyInv, Fitting
  <2>3. frames'[k].id = frames[k].id
    BY <2>1 DEF GoesOn
  <2>4. QED
    BY <1>2, <2>1, <2>2, <2>3, GoesOnFits, KindsStay
<1>5. KindOf(classes', frames', m) = kind
  BY <1>1, <1>2 DEF KindOf, IsNewFrame
<1>6. FrameFits(kind, frames'[m]) /\ ~Holds(kind, frames'[m])
  BY <1>1 DEF FrameFits, Holds, IsNewFrame
<1>7. Fitting(classes', frames')
  <2>1. ASSUME NEW k \in 1 .. m PROVE FrameFits(KindOf(classes', frames', k), frames'[k])
    <3>1. CASE k = m
      BY <1>5, <1>6, <3>1
    <3>2. CASE k # m
      <4>1. k \in 1 .. n
        BY <1>3, <3>2
      <4>2. QED
        BY <1>4, <4>1
    <3>3. QED
      BY <3>1, <3>2
  <2>2. QED
    BY <1>1, <2>1 DEF Fitting
<1>8. Owners(classes', frames') = Owners(classes, frames)
  <2>1. \A k \in 1 .. m :
          Holds(KindOf(classes', frames', k), frames'[k])
            <=> k \in 1 .. n /\ Holds(KindOf(classes, frames, k), frames[k])
    BY <1>3, <1>4, <1>5, <1>6
  <2>2. 1 .. n \subseteq 1 .. m
    BY <1>3
  <2>3. QED
    BY <1>1, <2>1, <2>2 DEF Owners
<1>9. CASE Owners(classes, frames) = {} /\ bodies = <<>>
  BY <1>2, <1>7, <1>8, <1>9 DEF BodyInv, Owned
<1>10. CASE /\ frames # <<>> /\ kind = "FACTORY"
            /\ Owners(classes, frames) = {n} /\ bodies = <<Here>>
  <2>1. n \in 1 .. n /\ n \in 1 .. m /\ n = m - 1
    BY <1>10, TopIs
  <2>2. bodies' = <<frames'[n].id>>
    BY <1>2, <1>4, <1>10, <2>1 DEF Here, Top
  <2>3. Owned(classes', frames', bodies')
    BY <1>1, <1>5, <1>8, <1>10, <2>1, <2>2 DEF Owned, IsOwner
  <2>4. QED
    BY <1>7, <2>3 DEF BodyInv
<1>11. QED
  BY <1>2, <1>9, <1>10, OpensOutside

LEMMA LeaveKeepsBodies ==
  ASSUME IInv, BodyInv, Leaves
  PROVE  BodyInv'
<1> DEFINE n == Len(frames)
           m == n - 1
<1>1. /\ frames # <<>> /\ Top.phase = "concurrent"
      /\ PlacesKept(classes, classes') /\ Len(frames') = m
      /\ \A k \in 1 .. m : GoesOn(frames[k], frames'[k])
      /\ bodies' = IF Kind = "PROCESS" THEN SubSeq(bodies, 1, Len(bodies) - 1) ELSE bodies
  BY DEF Leaves
<1>2. n \in Nat \ {0} /\ n \in 1 .. n /\ m \in Nat /\ 1 .. m \subseteq 1 .. n
  BY <1>1, TopIs
<1>3. ASSUME NEW k \in 1 .. m
      PROVE  /\ frames'[k].id = frames[k].id
             /\ KindOf(classes', frames', k) = KindOf(classes, frames, k)
             /\ FrameFits(KindOf(classes, frames, k), frames'[k])
             /\ Holds(KindOf(classes, frames, k), frames'[k])
                  <=> Holds(KindOf(classes, frames, k), frames[k])
  <2>1. GoesOn(frames[k], frames'[k]) /\ k \in 1 .. n
    BY <1>1, <1>2
  <2>2. FrameFits(KindOf(classes, frames, k), frames[k])
    BY <2>1 DEF BodyInv, Fitting
  <2>3. frames'[k].id = frames[k].id
    BY <2>1 DEF GoesOn
  <2>4. QED
    BY <1>1, <2>1, <2>2, <2>3, GoesOnFits, KindsStay
<1>4. Fitting(classes', frames')
  BY <1>1, <1>3 DEF Fitting
<1>5. Owners(classes', frames') = Owners(classes, frames) \ {n}
  <2>1. \A k \in 1 .. m : k \in 1 .. n /\ k # n
    BY <1>2
  <2>2. \A k \in 1 .. n : k # n => k \in 1 .. m
    BY <1>2
  <2>3. QED
    BY <1>1, <1>3, <2>1, <2>2 DEF Owners
<1>6. CASE Kind = "PROCESS"
  <2>1. Owners(classes, frames) = {n} /\ bodies = <<Here>>
    BY <1>1, <1>6, TopOwns DEF Holds
  <2>2. Owners(classes', frames') = {} /\ bodies' = <<>>
    BY <1>1, <1>5, <1>6, <2>1
  <2>3. QED
    BY <1>4, <2>2 DEF BodyInv, Owned
<1>7. CASE Kind # "PROCESS"
  <2>1. bodies' = bodies /\ ~Holds(Kind, Top)
    BY <1>1, <1>7 DEF Holds
  <2>2. n \notin Owners(classes, frames)
    BY <1>1, <2>1, TopFits DEF Owners
  <2>3. Owners(classes', frames') = Owners(classes, frames)
    BY <1>5, <2>2
  <2>4. CASE Owners(classes, frames) = {} /\ bodies = <<>>
    BY <1>4, <2>1, <2>3, <2>4 DEF BodyInv, Owned
  <2>5. CASE \E k \in 1 .. n :
               /\ Owners(classes, frames) = {k} /\ bodies = <<frames[k].id>>
               /\ IsOwner(classes, frames, k)
    <3>1. PICK k \in 1 .. n :
            /\ Owners(classes, frames) = {k} /\ bodies = <<frames[k].id>>
            /\ IsOwner(classes, frames, k)
      BY <2>5
    <3>2. k # n /\ k = m
      BY <2>2, <3>1 DEF IsOwner
    <3>3. k \in 1 .. m
      BY <1>2, <3>2
    <3>4. bodies' = <<frames'[k].id>> /\ IsOwner(classes', frames', k)
      BY <1>1, <1>3, <2>1, <3>1, <3>2, <3>3 DEF IsOwner
    <3>5. Owned(classes', frames', bodies')
      BY <1>1, <2>3, <3>1, <3>3, <3>4 DEF Owned
    <3>6. QED
      BY <1>4, <3>5 DEF BodyInv
  <2>6. QED
    BY <2>4, <2>5 DEF BodyInv, Owned
<1>8. QED
  BY <1>6, <1>7

LEMMA BodiesStart == Init => BodyInv
<1> SUFFICES ASSUME Init PROVE BodyInv
  OBVIOUS
<1>1. frames = <<>> /\ bodies = <<>> /\ Len(frames) = 0
  BY EmptySeq DEF Init
<1>2. QED
  BY <1>1 DEF BodyInv, Fitting, Owned, Owners

LEMMA StepKeepsBodies == IInv /\ BodyInv /\ [Next]_vars => BodyInv'
<1> SUFFICES ASSUME IInv, BodyInv, [Next]_vars PROVE BodyInv'
  OBVIOUS
<1>1. StepKind
  BY StepIsKind
<1>2. CASE Rests
  BY <1>2 DEF Rests, BodyInv
<1>3. QED
  BY <1>1, <1>2, WorkKeepsBodies, BeginKeepsBodies, PartsKeepBodies, EndKeepsBodies,
     EnterKeepsBodies, LeaveKeepsBodies DEF StepKind

\* The .cpp file gets its text at its end only, and functions and processes are
\* walked inside other classes: the text of a body is never interrupted by that
\* of another, and belongs to the body that is open (body_callback in definition.hpp:36).
THEOREM BodiesAlwaysWhole == Spec => []BodiesAreWhole
<1>1. IInv /\ BodyInv => BodiesAreWhole
  <2> SUFFICES ASSUME IInv, BodyInv PROVE BodiesAreWhole
    OBVIOUS
  <2>1. DOMAIN frames = 1 .. Len(frames)
    BY SequenceHas, FramesHave
  <2>2. Len(bodies) <= 1
    <3>1. bodies = <<>> \/ \E i : bodies = <<i>>
      BY DEF BodyInv, Owned
    <3>2. \A i : Len(<<i>>) = 1
      OBVIOUS
    <3>3. Len(<<>>) = 0
      OBVIOUS
    <3>4. PICK n \in {0, 1} : n = Len(bodies)
      BY <3>1, <3>2, <3>3
    <3>5. QED
      BY <3>4
  <2>3. ASSUME NEW k \in 1 .. Len(frames), frames[k].phase = "statements"
        PROVE  bodies = <<frames[k].id>>
    <3>1. k \in Owners(classes, frames)
      BY <2>3 DEF Owners, Holds
    <3>2. QED
      BY <3>1 DEF BodyInv, Owned
  <2>4. QED
    BY <2>1, <2>2, <2>3 DEF BodiesAreWhole
<1>2. Spec => []BodyInv
  BY BodiesStart, StepKeepsBodies, InvAlways, PTL DEF Spec
<1>3. QED
  BY <1>1, <1>2, InvAlways, PTL
-----------------------------------------------------------------------------
(* Parts.                                                                  *)

Makers(made, i) == {n \in DOMAIN made : made[n][2] = i}

MakesInside(t, made) ==
  \A n \in DOMAIN made :
    /\ made[n][1] \in 1 .. Len(t) /\ made[n][2] \in 1 .. Len(t)
    /\ Around(t, made[n][2]) = t[made[n][1]].path

\* A process, function or factory is created by what is written after it.
IsPending(t, fs, i) ==
  t[i].kind \in CreatedLast /\ \E k \in 1 .. Len(fs) : fs[k].id = i

MadeOnce(t, fs, made, i) ==
  /\ IsPending(t, fs, i) => Makers(made, i) = {}
  /\ ~IsPending(t, fs, i) => \E n : Makers(made, i) = {n}

PartsMade(t, fs, made) ==
  \A i \in 1 .. Len(t) :
    i > Len(Loaded) /\ t[i].kind \notin UnitKinds => MadeOnce(t, fs, made, i)

PartInv ==
  /\ IsSequence(constructed)
  /\ MakesInside(classes, constructed)
  /\ PartsMade(classes, frames, constructed)
  /\ status = "done" => frames = <<>>

\* An open class is inside the one that was opened before it.
LEMMA OpenAround ==
  ASSUME NEW t, NEW fs, Nested(t, fs), NEW k \in 1 .. Len(fs), NEW j \in 1 .. Len(fs),
         k = j + 1
  PROVE  Around(t, fs[k].id) = t[fs[j].id].path
<1>1. Len(fs) \in Nat
  BY OpenPaths
<1>2. /\ t[fs[k].id].path = [l \in 1 .. k |-> fs[l].id]
      /\ t[fs[j].id].path = [l \in 1 .. j |-> fs[l].id]
  BY DEF Nested, IsOpen
<1>3. Len(t[fs[k].id].path) = k
  BY OpenPaths DEF Depth
<1>4. k - 1 = j /\ k \in Nat /\ j \in Nat /\ j <= k
  BY <1>1
<1>5. Around(t, fs[k].id) = SubSeq([l \in 1 .. k |-> fs[l].id], 1, j)
  BY <1>2, <1>3, <1>4 DEF Around
<1>6. SubSeq([l \in 1 .. k |-> fs[l].id], 1, j) = [l \in 1 .. j |-> fs[l].id]
  BY <1>4
<1>7. QED
  BY <1>2, <1>5, <1>6

\* Nothing was made, and no class was opened or closed.
LEMMA NothingMade ==
  ASSUME IInv, PartInv, StaysInClass,
         Len(frames') = Len(frames),
         \A k \in 1 .. Len(frames) : frames'[k].id = frames[k].id
  PROVE  PartInv'
<1>1. /\ Len(classes') = Len(classes) /\ PlacesKept(classes, classes')
      /\ constructed' = constructed /\ status' = status /\ frames # <<>>
  BY DEF StaysInClass
<1>2. MakesInside(classes', constructed')
  BY <1>1 DEF PartInv, MakesInside, PlacesKept, Around
<1>3. ASSUME NEW i \in 1 .. Len(classes)
      PROVE  IsPending(classes', frames', i) <=> IsPending(classes, frames, i)
  BY <1>1 DEF IsPending, PlacesKept
<1>4. PartsMade(classes', frames', constructed')
  BY <1>1, <1>3 DEF PartInv, PartsMade, MadeOnce, PlacesKept
<1>5. status' # "done"
  BY <1>1 DEF PartInv
<1>6. QED
  BY <1>1, <1>2, <1>4, <1>5 DEF PartInv

\* Something is made: only its own list of makers changes.
LEMMA MakersOf ==
  ASSUME NEW made, IsSequence(made), NEW e
  PROVE  LET new == Append(made, e)
         IN  /\ IsSequence(new)
             /\ \A h : h # e[2] => Makers(new, h) = Makers(made, h)
             /\ Makers(made, e[2]) = {} => Makers(new, e[2]) = {Len(made) + 1}
             /\ \A n \in DOMAIN new :
                  (n \in DOMAIN made /\ new[n] = made[n]) \/ new[n] = e
<1> DEFINE new == Append(made, e)
           i   == e[2]
<1>1. /\ IsSequence(new) /\ Len(new) = Len(made) + 1 /\ new[Len(made) + 1] = e
      /\ \A n \in 1 .. Len(made) : new[n] = made[n]
  BY AppendIs
<1> HIDE DEF new
<1>2. /\ DOMAIN made = 1 .. Len(made) /\ Len(made) \in Nat
      /\ DOMAIN new = 1 .. Len(new)
  BY <1>1, SequenceHas
<1>3. DOMAIN new = DOMAIN made \cup {Len(made) + 1} /\ Len(made) + 1 \notin DOMAIN made
  BY <1>1, <1>2
<1>4. \A n \in DOMAIN made : new[n] = made[n]
  BY <1>1, <1>2
<1>5. \A h : h # i => Makers(new, h) = Makers(made, h)
  BY <1>1, <1>3, <1>4 DEF Makers
<1>6. Makers(made, i) = {} => Makers(new, i) = {Len(made) + 1}
  BY <1>1, <1>3, <1>4 DEF Makers
<1>7. \A n \in DOMAIN new : (n \in DOMAIN made /\ new[n] = made[n]) \/ new[n] = e
  BY <1>1, <1>3, <1>4
<1>8. QED
  BY <1>1, <1>5, <1>6, <1>7 DEF new

\* The same of the variable.
LEMMA MakesOne ==
  ASSUME PartInv, NEW e, constructed' = Append(constructed, e)
  PROVE  /\ IsSequence(constructed')
         /\ \A h : h # e[2] => Makers(constructed', h) = Makers(constructed, h)
         /\ Makers(constructed, e[2]) = {} =>
              Makers(constructed', e[2]) = {Len(constructed) + 1}
         /\ \A n \in DOMAIN constructed' :
              (n \in DOMAIN constructed /\ constructed'[n] = constructed[n])
              \/ constructed'[n] = e
<1>1. IsSequence(constructed)
  BY DEF PartInv
<1>2. QED
  BY <1>1, MakersOf

LEMMA EnterKeepsParts ==
  ASSUME IInv, IInv', PartInv, NEW kind \in ClassKinds, Enters(kind)
  PROVE  PartInv'
<1> DEFINE n == Len(frames)
           c == Len(classes) + 1
           e == <<Here, c>>
<1>1. PICK f : /\ IsNewFrame(f, kind)
               /\ Len(frames') = n + 1 /\ frames'[n + 1] = f
               /\ \A k \in 1 .. n : GoesOn(frames[k], frames'[k])
  BY EnteredFrames
<1>2. /\ Len(classes') = c /\ PlacesKept(classes, classes')
      /\ classes'[c].kind = kind /\ status' = status
      /\ kind \in CreatedFirst => frames # <<>> /\ constructed' = Append(constructed, e)
      /\ kind \notin CreatedFirst => constructed' = constructed
  BY DEF Enters, Gains
<1>3. n \in Nat /\ c \in Nat /\ c - 1 = Len(classes) /\ c \notin 1 .. Len(classes)
  BY FramesHave
<1>4. /\ \A k \in 1 .. n : frames'[k].id = frames[k].id /\ frames[k].id # c
      /\ frames'[n + 1].id = c
  BY <1>1, <1>3, FramesHave DEF GoesOn, IsNewFrame
<1>5. ASSUME NEW i \in 1 .. Len(classes)
      PROVE  /\ i # c /\ classes'[i].kind = classes[i].kind
             /\ classes'[i].path = classes[i].path
             /\ IsPending(classes', frames', i) <=> IsPending(classes, frames, i)
  <2>1. /\ i # c /\ classes'[i].kind = classes[i].kind
        /\ classes'[i].path = classes[i].path
    BY <1>2, <1>3 DEF PlacesKept
  <2>2. (\E k \in 1 .. n + 1 : frames'[k].id = i) <=> (\E k \in 1 .. n : frames[k].id = i)
    <3>1. \A k \in 1 .. n + 1 : k \in 1 .. n \/ k = n + 1
      BY <1>3
    <3>2. 1 .. n \subseteq 1 .. n + 1
      BY <1>3
    <3>3. QED
      BY <1>4, <2>1, <3>1, <3>2
  <2>3. QED
    BY <1>1, <2>1, <2>2 DEF IsPending
<1>6. IsPending(classes', frames', c) <=> kind \in CreatedLast
  <2>1. n + 1 \in 1 .. n + 1
    BY <1>3
  <2>2. QED
    BY <1>1, <1>2, <1>4, <2>1 DEF IsPending
<1>7. Makers(constructed, c) = {}
  BY <1>3 DEF PartInv, MakesInside, Makers
<1>8. status' # "done"
  BY <1>2 DEF Enters, MayOpen, Running
<1>9. ASSUME IsSequence(constructed'), MakesInside(classes', constructed'),
             MadeOnce(classes', frames', constructed', c) \/ kind \in UnitKinds,
             \A i \in 1 .. Len(classes) : Makers(constructed', i) = Makers(constructed, i)
      PROVE  PartInv'
  <2>1. ASSUME NEW i \in 1 .. c, i > Len(Loaded), classes'[i].kind \notin UnitKinds
        PROVE  MadeOnce(classes', frames', constructed', i)
    <3>1. CASE i = c
      BY <1>2, <1>9, <2>1, <3>1
    <3>2. CASE i # c
      <4>1. i \in 1 .. Len(classes)
        BY <1>3, <3>2
      <4>2. MadeOnce(classes, frames, constructed, i)
        BY <1>5, <2>1, <4>1 DEF PartInv, PartsMade
      <4>3. QED
        BY <1>5, <1>9, <4>1, <4>2 DEF MadeOnce
    <3>3. QED
      BY <3>1, <3>2
  <2>2. PartsMade(classes', frames', constructed')
    BY <1>2, <2>1 DEF PartsMade
  <2>3. QED
    BY <1>8, <1>9, <2>2 DEF PartInv
<1>10. ASSUME NEW m \in DOMAIN constructed
       PROVE  /\ constructed[m][1] \in 1 .. c /\ constructed[m][2] \in 1 .. c
              /\ Around(classes', constructed[m][2]) = classes'[constructed[m][1]].path
  <2>1. /\ constructed[m][1] \in 1 .. Len(classes) /\ constructed[m][2] \in 1 .. Len(classes)
        /\ Around(classes, constructed[m][2]) = classes[constructed[m][1]].path
    BY DEF PartInv, MakesInside
  <2>2. 1 .. Len(classes) \subseteq 1 .. c
    BY <1>3
  <2>3. QED
    BY <1>5, <2>1, <2>2 DEF Around
<1>11. CASE kind \in CreatedFirst
  <2>1. frames # <<>> /\ constructed' = Append(constructed, e)
    BY <1>2, <1>11
  <2>2. n \in 1 .. n + 1 /\ n + 1 \in 1 .. n + 1 /\ frames'[n].id = Here
    <3>1. n \in 1 .. n
      BY <2>1, TopIs
    <3>2. n \in 1 .. n + 1 /\ n + 1 \in 1 .. n + 1
      BY <1>3, <3>1
    <3>3. QED
      BY <1>4, <3>1, <3>2 DEF Here, Top
  <2>3. Around(classes', c) = classes'[Here].path
    <3>1. Nested(classes', frames')
      BY DEF IInv
    <3>2. PICK k \in 1 .. Len(frames'), j \in 1 .. Len(frames') :
            k = j + 1 /\ frames'[k].id = c /\ frames'[j].id = Here
      BY <1>1, <1>4, <2>2
    <3>3. Around(classes', frames'[k].id) = classes'[frames'[j].id].path
      BY <3>1, <3>2, OpenAround
    <3>4. QED
      BY <3>2, <3>3
  <2>4. e[1] = Here /\ e[2] = c /\ Here \in 1 .. c /\ c \in 1 .. c
    <3>1. Here \in 1 .. Len(classes)
      BY <2>1, TopIs
    <3>2. QED
      BY <1>3, <3>1
  <2> HIDE DEF e
  <2>5. /\ IsSequence(constructed')
        /\ \A h : h # c => Makers(constructed', h) = Makers(constructed, h)
        /\ Makers(constructed', c) = {Len(constructed) + 1}
        /\ \A m \in DOMAIN constructed' :
             (m \in DOMAIN constructed /\ constructed'[m] = constructed[m]) \/ constructed'[m] = e
    BY <1>7, <2>1, <2>4, MakesOne
  <2>6. MakesInside(classes', constructed')
    BY <1>2, <1>10, <2>3, <2>4, <2>5 DEF MakesInside
  <2>7. kind \notin CreatedLast
    BY <1>11 DEF CreatedFirst, CreatedLast
  <2>8. MadeOnce(classes', frames', constructed', c)
    BY <1>6, <2>5, <2>7 DEF MadeOnce
  <2>9. QED
    BY <1>5, <1>9, <2>5, <2>6, <2>8
<1>12. CASE kind \notin CreatedFirst
  <2>1. constructed' = constructed
    BY <1>2, <1>12
  <2>2. MakesInside(classes', constructed') /\ IsSequence(constructed')
    BY <1>2, <1>10, <2>1 DEF MakesInside, PartInv
  <2>3. kind \in CreatedLast \/ kind \in UnitKinds
    BY <1>12 DEF ClassKinds, CreatedFirst, CreatedLast
  <2>4. MadeOnce(classes', frames', constructed', c) \/ kind \in UnitKinds
    BY <1>6, <1>7, <2>1, <2>3 DEF MadeOnce
  <2>5. QED
    BY <1>9, <2>1, <2>2, <2>4
<1>13. QED
  BY <1>11, <1>12

LEMMA LeaveKeepsParts ==
  ASSUME IInv, PartInv, Leaves
  PROVE  PartInv'
<1> DEFINE n == Len(frames)
           m == n - 1
           e == <<AroundHere, Here>>
<1>1. /\ frames # <<>> /\ Len(classes') = Len(classes) /\ PlacesKept(classes, classes')
      /\ Len(frames') = m /\ status' = status
      /\ \A k \in 1 .. m : GoesOn(frames[k], frames'[k])
      /\ Kind \in CreatedLast => constructed' = Append(constructed, e)
      /\ Kind \notin CreatedLast => constructed' = constructed
  BY DEF Leaves
<1>2. /\ n \in Nat \ {0} /\ n \in 1 .. n /\ m \in Nat
      /\ Here \in 1 .. Len(classes) /\ frames[n].id = Here
  BY <1>1, TopIs DEF Here, Top
<1>3. \A k \in 1 .. m : k \in 1 .. n /\ k # n
  BY <1>2
<1>4. \A k \in 1 .. m : frames'[k].id = frames[k].id /\ frames[k].id # Here
  <2>1. \A k \in 1 .. m : frames'[k].id = frames[k].id
    BY <1>1 DEF GoesOn
  <2>2. \A k \in 1 .. m : frames[k].id # frames[n].id
    BY <1>2, <1>3, OpenPaths DEF IInv
  <2>3. QED
    BY <1>2, <2>1, <2>2
<1>5. ASSUME NEW i \in 1 .. Len(classes)
      PROVE  /\ classes'[i].kind = classes[i].kind /\ classes'[i].path = classes[i].path
             /\ i # Here =>
                  (IsPending(classes', frames', i) <=> IsPending(classes, frames, i))
             /\ i = Here => ~IsPending(classes', frames', i)
             /\ i = Here => (IsPending(classes, frames, i) <=> Kind \in CreatedLast)
  <2>1. classes'[i].kind = classes[i].kind /\ classes'[i].path = classes[i].path
    BY <1>1 DEF PlacesKept
  <2>2. i # Here =>
          ((\E k \in 1 .. m : frames'[k].id = i) <=> (\E k \in 1 .. n : frames[k].id = i))
    <3>1. \A k \in 1 .. n : k \in 1 .. m \/ k = n
      BY <1>2
    <3>2. QED
      BY <1>2, <1>3, <1>4, <3>1
  <2>3. i = Here => ~(\E k \in 1 .. m : frames'[k].id = i)
    BY <1>4
  <2>4. i = Here => ~IsPending(classes', frames', i)
    BY <1>1, <2>3 DEF IsPending
  <2>5. i = Here => (IsPending(classes, frames, i) <=> Kind \in CreatedLast)
    BY <1>2 DEF IsPending, Kind
  <2>6. i # Here => (IsPending(classes', frames', i) <=> IsPending(classes, frames, i))
    BY <1>1, <2>1, <2>2 DEF IsPending
  <2>7. QED
    BY <2>1, <2>4, <2>5, <2>6
<1>6. status' # "done"
  BY <1>1 DEF PartInv
<1>7. ASSUME IsSequence(constructed'), MakesInside(classes', constructed'),
             \A h : h # Here => Makers(constructed', h) = Makers(constructed, h),
             MadeOnce(classes, frames, constructed, Here) =>
               MadeOnce(classes', frames', constructed', Here)
      PROVE  PartInv'
  <2>1. ASSUME NEW i \in 1 .. Len(classes), i > Len(Loaded), classes'[i].kind \notin UnitKinds
        PROVE  MadeOnce(classes', frames', constructed', i)
    <3>1. MadeOnce(classes, frames, constructed, i)
      BY <1>5, <2>1 DEF PartInv, PartsMade
    <3>2. CASE i = Here
      BY <1>7, <3>1, <3>2
    <3>3. CASE i # Here
      BY <1>5, <1>7, <3>1, <3>3 DEF MadeOnce
    <3>4. QED
      BY <3>2, <3>3
  <2>2. PartsMade(classes', frames', constructed')
    BY <1>1, <2>1 DEF PartsMade
  <2>3. QED
    BY <1>6, <1>7, <2>2 DEF PartInv
<1>8. ASSUME NEW k \in DOMAIN constructed
      PROVE  /\ constructed[k][1] \in 1 .. Len(classes)
             /\ constructed[k][2] \in 1 .. Len(classes)
             /\ Around(classes', constructed[k][2]) = classes'[constructed[k][1]].path
  <2>1. /\ constructed[k][1] \in 1 .. Len(classes) /\ constructed[k][2] \in 1 .. Len(classes)
        /\ Around(classes, constructed[k][2]) = classes[constructed[k][1]].path
    BY DEF PartInv, MakesInside
  <2>2. QED
    BY <1>5, <2>1 DEF Around
<1>9. CASE Kind \in CreatedLast
  <2>1. constructed' = Append(constructed, e)
    BY <1>1, <1>9
  <2>2. Kind \notin UnitKinds
    BY <1>9 DEF CreatedLast, UnitKinds
  <2>3. n # 1 /\ m \in 1 .. n /\ n = m + 1
    <3>1. n # 1
      BY <1>1, <2>2, TopIs
    <3>2. \A j \in Nat \ {0} : j # 1 => j - 1 \in 1 .. j /\ j = j - 1 + 1
      OBVIOUS
    <3>3. QED
      BY <1>2, <3>1, <3>2
  <2>4. AroundHere = frames[m].id /\ AroundHere \in 1 .. Len(classes)
    BY <2>3, FramesHave DEF AroundHere
  <2>5. Around(classes', Here) = classes'[AroundHere].path
    <3>1. Around(classes, frames[n].id) = classes[frames[m].id].path
      BY <1>2, <2>3, OpenAround DEF IInv
    <3>2. Around(classes, Here) = classes[AroundHere].path
      BY <1>2, <2>4, <3>1
    <3>3. QED
      BY <1>2, <1>5, <2>4, <3>2 DEF Around
  <2>6. e[1] = AroundHere /\ e[2] = Here
    OBVIOUS
  <2> HIDE DEF e
  <2>7. /\ IsSequence(constructed')
        /\ \A h : h # Here => Makers(constructed', h) = Makers(constructed, h)
        /\ Makers(constructed, Here) = {} =>
             Makers(constructed', Here) = {Len(constructed) + 1}
        /\ \A k \in DOMAIN constructed' :
             (k \in DOMAIN constructed /\ constructed'[k] = constructed[k])
             \/ constructed'[k] = e
    BY <2>1, <2>6, MakesOne
  <2>8. MakesInside(classes', constructed')
    BY <1>1, <1>2, <1>8, <2>4, <2>5, <2>6, <2>7 DEF MakesInside
  <2>9. MadeOnce(classes, frames, constructed, Here) =>
          MadeOnce(classes', frames', constructed', Here)
    BY <1>2, <1>5, <1>9, <2>7 DEF MadeOnce
  <2>10. QED
    BY <1>7, <2>7, <2>8, <2>9
<1>10. CASE Kind \notin CreatedLast
  <2>1. constructed' = constructed
    BY <1>1, <1>10
  <2>2. IsSequence(constructed') /\ MakesInside(classes', constructed')
    BY <1>1, <1>8, <2>1 DEF MakesInside, PartInv
  <2>3. MadeOnce(classes, frames, constructed, Here) =>
          MadeOnce(classes', frames', constructed', Here)
    BY <1>2, <1>5, <1>10, <2>1 DEF MadeOnce
  <2>4. QED
    BY <1>7, <2>1, <2>2, <2>3
<1>11. QED
  BY <1>9, <1>10

LEMMA PartsStart == Init => PartInv
<1> SUFFICES ASSUME Init PROVE PartInv
  OBVIOUS
<1>1. /\ frames = <<>> /\ constructed = <<>> /\ DOMAIN constructed = {}
      /\ classes = Loaded /\ IsSequence(constructed)
  BY EntriesAreSequences DEF Init
<1>2. Len(classes) \in Nat
  BY InitIs, FramesHave
<1>3. \A i \in 1 .. Len(classes) : ~(i > Len(Loaded))
  BY <1>1, <1>2
<1>4. QED
  BY <1>1, <1>3 DEF PartInv, MakesInside, PartsMade

LEMMA StepKeepsParts == IInv /\ BodyInv /\ PartInv /\ [Next]_vars => PartInv'
<1> SUFFICES ASSUME IInv, BodyInv, PartInv, [Next]_vars PROVE PartInv'
  OBVIOUS
<1>1. StepKind /\ IInv'
  BY StepIsKind, StepKeepsInv
<1>2. CASE Rests
  BY <1>2 DEF Rests, PartInv
<1>3. CASE Works
  <2>1. PICK f : GoesOn(Top, f) /\ frames' = ReplaceTop(frames, f)
    BY <1>3 DEF Works
  <2>2. StaysInClass /\ frames # <<>>
    BY <1>3 DEF Works, StaysInClass
  <2>3. /\ Len(frames') = Len(frames)
        /\ \A k \in 1 .. Len(frames) : frames'[k] = IF k = Len(frames) THEN f ELSE frames[k]
    BY <2>1, <2>2, FramesHave, ReplacedFrames
  <2>4. \A k \in 1 .. Len(frames) : frames'[k].id = frames[k].id
    BY <2>1, <2>3 DEF GoesOn, Top
  <2>5. QED
    BY <2>2, <2>3, <2>4, NothingMade
<1>4. CASE BeginsBody \/ BeginsParts \/ EndsStatements
  <2>1. PICK phase : StaysInClass /\ frames' = ReplaceTop(frames, Enter(Top, phase))
    BY <1>4 DEF BeginsBody, BeginsParts, EndsStatements
  <2>2. QED
    BY <2>1, PhaseEntered, NothingMade
<1>5. QED
  BY <1>1, <1>2, <1>3, <1>4, EnterKeepsParts, LeaveKeepsParts DEF StepKind

\* When a file is done, each process, block, generate loop, function and factory
\* is created in exactly one place, in the constructor or the wrapper of the class
\* around it, some before their class is opened and some after it is closed.
THEOREM PartsAlwaysInstantiated == Spec => []PartsAreInstantiated
<1>1. IInv /\ PartInv => PartsAreInstantiated
  <2> SUFFICES ASSUME IInv, PartInv PROVE PartsAreInstantiated
    OBVIOUS
  <2>1. \A n \in DOMAIN constructed :
          Around(classes, constructed[n][2]) = classes[constructed[n][1]].path
    BY DEF PartInv, MakesInside
  <2>2. ASSUME status = "done", NEW i \in 1 .. Len(classes), IsPart(i)
        PROVE  Cardinality({n \in DOMAIN constructed : constructed[n][2] = i}) = 1
    <3>1. Len(frames) = 0
      BY <2>2, EmptySeq DEF PartInv
    <3>2. ~IsPending(classes, frames, i)
      BY <3>1 DEF IsPending
    <3>3. \E n : Makers(constructed, i) = {n}
      BY <2>2, <3>2 DEF PartInv, PartsMade, IsPart, MadeOnce
    <3>4. QED
      BY <3>3, FS_Singleton DEF Makers
  <2>3. QED
    BY <2>1, <2>2 DEF PartsAreInstantiated, Positions
<1>2. Spec => []PartInv
  <2>1. Spec => [](IInv /\ BodyInv)
    BY BodiesStart, StepKeepsBodies, InvAlways, PTL DEF Spec
  <2>2. QED
    BY <2>1, PartsStart, StepKeepsParts, PTL DEF Spec
<1>3. QED
  BY <1>1, <1>2, InvAlways, PTL
-----------------------------------------------------------------------------
(* Waits: the steps.                                                       *)

Unflagged ==
  Len(classes') = Len(classes) /\ UNCHANGED <<containsWait, waited, spawned>>

\* Every class that is opened resets the flag.
Resets ==
  /\ Len(classes') = Len(classes) + 1
  /\ containsWait' = FALSE /\ UNCHANGED <<waited, spawned>>

Waits ==
  /\ frames # <<>> /\ Top.phase = "statements"
  /\ containsWait' = TRUE /\ waited' = waited \cup {Here}
  /\ UNCHANGED <<classes, spawned>>

Spawns ==
  /\ frames # <<>>
  /\ Len(frames') = Len(frames) - 1 /\ Len(classes') = Len(classes)
  /\ \E s : /\ s.process = Here /\ s.method = ~containsWait
            /\ spawned' = spawned \cup {s}
  /\ UNCHANGED <<containsWait, waited>>

FlagStep == Unflagged \/ Resets \/ Waits \/ Spawns

LEMMA LengthsKept ==
  ASSUME IInv, frames # <<>>
  PROVE  /\ \A es : Len(AddEntries(classes, es)) = Len(classes)
         /\ Len(EndClass(classes)) = Len(classes)
BY EntriesKeepPlaces, EndKeepsPlaces DEF IInv

LEMMA DeclarationUnflagged ==
  ASSUME IInv, CloseType \/ TypeWithoutBase \/ CloseSubtype \/ SubtypeWithoutBase
               \/ DeclareObject \/ InitialiseObject \/ ObjectWithoutType \/ DeclareAlias
               \/ DeclareFunction
  PROVE  Unflagged
<1>1. AtDeclaration
  BY DEF CloseType, TypeWithoutBase, CloseSubtype, SubtypeWithoutBase, DeclareObject,
         InitialiseObject, ObjectWithoutType, DeclareAlias, DeclareFunction, At
<1>2. frames # <<>>
  BY <1>1 DEF AtDeclaration
<1>3. ASSUME NEW f, NEW es, Declares(f, es) PROVE Unflagged
  BY <1>2, <1>3, LengthsKept DEF Declares, output, Unflagged
<1>4. CASE DeclareFunction
  BY <1>2, <1>4, LengthsKept DEF DeclareFunction, WithFunction, output, Unflagged
<1>5. QED
  BY <1>3, <1>4 DEF CloseType, TypeWithoutBase, CloseSubtype, SubtypeWithoutBase,
     DeclareObject, InitialiseObject, ObjectWithoutType, DeclareAlias

LEMMA BodyUnflagged ==
  ASSUME IInv, Body
  PROVE  Unflagged
<1>1. frames # <<>>
  BY DEF Body, StartRun, WriteFactory, StartGenerate, StartOther, EndStatements, AtBody
<1>2. ASSUME NEW fs, NEW tree, NEW rs, Turns(fs, tree, rs), Len(tree) = Len(classes)
      PROVE  Unflagged
  BY <1>2 DEF Turns, flags, Unflagged
<1>3. CASE StartRun
  BY <1>2, <1>3 DEF StartRun
<1>4. CASE WriteFactory
  BY <1>2, <1>4 DEF WriteFactory
<1>5. CASE StartGenerate
  BY <1>1, <1>2, <1>5, LengthsKept DEF StartGenerate
<1>6. CASE StartOther
  BY <1>2, <1>6 DEF StartOther
<1>7. CASE EndStatements
  BY <1>2, <1>7 DEF EndStatements
<1>8. QED
  BY <1>3, <1>4, <1>5, <1>6, <1>7 DEF Body

LEMMA StatementFlags ==
  ASSUME IInv
  PROVE  /\ WaitStatement => Waits
         /\ ProcedureCall => Unflagged
         /\ ReturnStatement => Unflagged
         /\ Assignment => Unflagged
         /\ AssignmentWithoutType => Unflagged
         /\ Condition => Unflagged
         /\ EnterLoop => Unflagged
<1>1. WaitStatement => Waits
  BY DEF WaitStatement, AtStmt, AtStatement, Executes, output, Waits
<1>2. ASSUME NEW f, NEW rs, NEW new, Executes(f, rs, new), UNCHANGED <<containsWait, waited>>
      PROVE  Unflagged
  BY <1>2 DEF Executes, output, Unflagged
<1>3. ProcedureCall => Unflagged
  BY <1>2 DEF ProcedureCall
<1>4. ReturnStatement => Unflagged
  BY <1>2 DEF ReturnStatement
<1>5. Assignment => Unflagged
  BY <1>2 DEF Assignment
<1>6. AssignmentWithoutType => Unflagged
  BY <1>2 DEF AssignmentWithoutType
<1>7. Condition => Unflagged
  BY <1>2 DEF Condition
<1>8. EnterLoop => Unflagged
  BY LengthsKept DEF EnterLoop, AtStmt, AtStatement, output, flags, Unflagged
<1>9. QED
  BY <1>1, <1>3, <1>4, <1>5, <1>6, <1>7, <1>8

LEMMA OpeningResets ==
  ASSUME IInv, OpenUnit \/ OpenType \/ OpenSubtype \/ OpenFunction \/ LoopRange
               \/ GenerateRange \/ OpenProcess \/ OpenBlock \/ OpenGenerate
  PROVE  Resets
<1>1. Len(classes') = Len(classes) + 1
  BY UnitEnters, FactoriesEnter, FunctionEnters, ConcurrentEnters DEF Enters, Gains
<1>2. containsWait' = FALSE /\ UNCHANGED <<waited, spawned>>
  BY DEF OpenUnit, OpenType, OpenSubtype, OpenFunction, LoopRange, GenerateRange,
         OpenProcess, OpenBlock, OpenGenerate, DefineRange, DefinePart, DefineFactory,
         Define, output
<1>3. QED
  BY <1>1, <1>2 DEF Resets

LEMMA ClosingFlags ==
  ASSUME IInv
  PROVE  /\ CloseUnit \/ ClosePart \/ CloseFunction \/ CloseFactory => Unflagged
         /\ CloseProcess => Spawns
<1>1. ASSUME NEW kinds, NEW fs, Closes(kinds, fs)
      PROVE  frames # <<>> /\ Len(classes') = Len(classes) /\ UNCHANGED <<containsWait, waited>>
  BY <1>1, ClassCloses DEF Closes, flags
<1>2. CloseUnit \/ ClosePart \/ CloseFunction \/ CloseFactory => Unflagged
  BY <1>1 DEF CloseUnit, ClosePart, CloseFunction, CloseFactory, output, Unflagged
<1>3. CloseProcess => Spawns
  <2> DEFINE s == [process |-> Here, method |-> ~containsWait, signals |-> Top.signals]
  <2>1. SUFFICES ASSUME CloseProcess PROVE Spawns
    OBVIOUS
  <2>2. Closes({"PROCESS"}, PopFrame) /\ spawned' = spawned \cup {s}
    BY <2>1 DEF CloseProcess
  <2>3. Len(frames') = Len(frames) - 1
    BY <2>2, ClassCloses
  <2>4. s.process = Here /\ s.method = ~containsWait
    OBVIOUS
  <2> HIDE DEF s
  <2>5. QED
    BY <1>1, <2>2, <2>3, <2>4 DEF Spawns
<1>4. QED
  BY <1>2, <1>3

LEMMA StepFlags == IInv /\ [Next]_vars => FlagStep
<1> SUFFICES ASSUME IInv, [Next]_vars PROVE FlagStep
  OBVIOUS
<1>1. ASSUME Abort PROVE Unflagged
  BY <1>1 DEF Abort, flags, output, Unflagged
<1>2. CASE OpenUnit
  BY <1>2, OpeningResets DEF FlagStep
<1>3. CASE SkipUnit \/ Finish
  BY <1>3 DEF SkipUnit, Finish, flags, output, Unflagged, FlagStep
<1>4. CASE Declaration
  <2>1. RangeIsLost \/ ObjectRangeIsLost \/ InitialValueIsLost \/ AliasIsLost => Unflagged
    BY <1>1 DEF RangeIsLost, ObjectRangeIsLost, InitialValueIsLost, AliasIsLost
  <2>2. QED
    BY <1>4, <2>1, DeclarationUnflagged, OpeningResets DEF Declaration, FlagStep
<1>5. CASE Body
  BY <1>5, BodyUnflagged DEF FlagStep
<1>6. CASE Statement
  <2>1. LoopRangeIsLost => Unflagged
    BY <1>1 DEF LoopRangeIsLost
  <2>2. QED
    BY <1>6, <2>1, StatementFlags, OpeningResets DEF Statement, FlagStep
<1>7. CASE ConcurrentStatement
  <2>1. GenerateRangeIsLost \/ ActualIsLost => Unflagged
    BY <1>1 DEF GenerateRangeIsLost, ActualIsLost
  <2>2. PostponeInstance \/ Instantiate => Unflagged
    BY DEF PostponeInstance, Instantiate, flags, output, Unflagged
  <2>3. QED
    BY <1>7, <2>1, <2>2, OpeningResets DEF ConcurrentStatement, FlagStep
<1>8. CASE CloseClass
  BY <1>8, ClosingFlags DEF CloseClass, FlagStep
<1>9. CASE UNCHANGED vars
  BY <1>9 DEF vars, Unflagged, FlagStep
<1>10. QED
  BY <1>2, <1>3, <1>4, <1>5, <1>6, <1>7, <1>8, <1>9 DEF Next, Stopped, Step
-----------------------------------------------------------------------------
(* Waits: the invariant.                                                   *)

InPath(t, i, j) == \E k \in DOMAIN t[i].path : t[i].path[k] = j

RangeIn(t, i) ==
  \E j \in 1 .. Len(t) : t[j].kind = "FACTORY" /\ Around(t, j) = t[i].path

\* The flag is set only by a wait statement inside of all classes that are open.
FlagMeant(t, fs, w, flag) ==
  flag => \E i \in w : \A k \in 1 .. Len(fs) : InPath(t, i, fs[k].id)

\* A body with a wait statement has set the flag, which a factory in it may
\* have reset.
InBody(kind, f) == f.phase \in {"statements", "concurrent"} /\ kind \in BodyKinds

WaitKept(t, fs, flag, k) ==
  InBody(KindOf(t, fs, k), fs[k]) /\ (flag \/ RangeIn(t, fs[k].id))

WaitsKept(t, fs, w, flag) ==
  \A k \in 1 .. Len(fs) : fs[k].id \in w => WaitKept(t, fs, flag, k)

\* A body at its end has no class above it.
EndsOnTop(t, fs) ==
  \A k \in 1 .. Len(fs) :
    fs[k].phase = "concurrent" /\ KindOf(t, fs, k) \in BodyKinds => k = Len(fs)

SpawnIs(t, w, s) ==
  /\ s.process \in 1 .. Len(t)
  /\ IF s.method THEN s.process \in w => RangeIn(t, s.process)
     ELSE \E i \in w : InPath(t, i, s.process)

SpawnsAre(t, fs, w, sp) ==
  \A s \in sp : SpawnIs(t, w, s) /\ \A k \in 1 .. Len(fs) : fs[k].id # s.process

FlagInv ==
  /\ containsWait \in BOOLEAN /\ waited \subseteq 1 .. Len(classes)
  /\ FlagMeant(classes, frames, waited, containsWait)
  /\ WaitsKept(classes, frames, waited, containsWait)
  /\ EndsOnTop(classes, frames)
  /\ SpawnsAre(classes, frames, waited, spawned)

\* What a step does to the frames that opens no class.
Stays ==
  /\ Len(classes') = Len(classes) /\ PlacesKept(classes, classes')
  /\ 1 .. Len(frames') \subseteq 1 .. Len(frames)
  /\ \A k \in 1 .. Len(frames') :
       /\ frames'[k].id = frames[k].id
       /\ frames[k].phase \in {"statements", "concurrent"} =>
            frames'[k].phase \in {"statements", "concurrent"}
       /\ k = Len(frames') \/ frames'[k].phase = frames[k].phase

LEMMA StepStays ==
  ASSUME IInv, BodyInv, StepKind, Len(classes') = Len(classes)
  PROVE  Stays
<1> DEFINE n == Len(frames)
<1>1. n \in Nat /\ Len(classes) \in Nat /\ IsSequence(frames)
  BY FramesHave
<1>2. CASE Rests
  BY <1>2 DEF Rests, Stays, PlacesKept
<1>3. CASE Works
  <2>1. PICK f : GoesOn(Top, f) /\ frames' = ReplaceTop(frames, f)
    BY <1>3 DEF Works
  <2>2. StaysInClass /\ frames # <<>>
    BY <1>3 DEF Works, StaysInClass
  <2>3. /\ Len(frames') = n
        /\ \A k \in 1 .. n : frames'[k] = IF k = n THEN f ELSE frames[k]
    BY <1>1, <2>1, <2>2, ReplacedFrames
  <2>4. \A k \in 1 .. n : frames'[k].id = frames[k].id /\ frames'[k].phase = frames[k].phase
    BY <2>1, <2>3 DEF GoesOn, Top
  <2>5. QED
    BY <2>2, <2>3, <2>4 DEF StaysInClass, Stays
<1>4. CASE BeginsBody \/ BeginsParts \/ EndsStatements
  <2>1. PICK phase \in {"statements", "concurrent"} :
          StaysInClass /\ frames' = ReplaceTop(frames, Enter(Top, phase))
    BY <1>4 DEF BeginsBody, BeginsParts, EndsStatements
  <2>2. StaysInClass /\ frames # <<>>
    BY <2>1 DEF StaysInClass
  <2>3. /\ Len(frames') = n
        /\ \A k \in 1 .. n : frames'[k] = IF k = n THEN Enter(Top, phase) ELSE frames[k]
    BY <1>1, <2>1, <2>2, ReplacedFrames
  <2>4. n \in 1 .. n /\ IsFrame(Top)
    BY <2>2, TopFits, FramesHave
  <2>5. Enter(Top, phase).id = Top.id /\ Enter(Top, phase).phase = phase
    BY <2>4 DEF Enter, IsFrame
  <2>6. QED
    BY <2>2, <2>3, <2>5 DEF StaysInClass, Stays, Top
<1>5. ASSUME NEW kind \in ClassKinds, Enters(kind) PROVE FALSE
  <2>1. Len(classes') = Len(classes) + 1
    BY <1>5 DEF Enters, Gains
  <2>2. QED
    BY <1>1, <2>1
<1>6. CASE Leaves
  <2>1. /\ PlacesKept(classes, classes') /\ Len(frames') = n - 1
        /\ \A k \in 1 .. n - 1 : GoesOn(frames[k], frames'[k])
    BY <1>6 DEF Leaves
  <2>2. 1 .. n - 1 \subseteq 1 .. n
    BY <1>1
  <2>3. QED
    BY <2>1, <2>2 DEF Stays, GoesOn
<1>7. QED
  BY <1>2, <1>3, <1>4, <1>5, <1>6 DEF StepKind

\* What was in a class or a range of it remains so.
LEMMA InsideStays ==
  ASSUME IInv, PlacesKept(classes, classes'),
         1 .. Len(classes) \subseteq 1 .. Len(classes')
  PROVE  \A i \in 1 .. Len(classes) :
           /\ \A j : InPath(classes', i, j) <=> InPath(classes, i, j)
           /\ RangeIn(classes, i) => RangeIn(classes', i)
<1>1. \A i \in 1 .. Len(classes) :
        classes'[i].path = classes[i].path /\ classes'[i].kind = classes[i].kind
  BY DEF PlacesKept
<1>2. ASSUME NEW i \in 1 .. Len(classes), RangeIn(classes, i) PROVE RangeIn(classes', i)
  <2>1. PICK j \in 1 .. Len(classes) :
          classes[j].kind = "FACTORY" /\ Around(classes, j) = classes[i].path
    BY <1>2 DEF RangeIn
  <2>2. classes'[j].kind = "FACTORY" /\ Around(classes', j) = classes'[i].path
    BY <1>1, <2>1 DEF Around
  <2>3. QED
    BY <2>1, <2>2 DEF RangeIn
<1>3. QED
  BY <1>1, <1>2 DEF InPath

LEMMA SpawnStays ==
  ASSUME IInv, PlacesKept(classes, classes'),
         1 .. Len(classes) \subseteq 1 .. Len(classes'),
         waited \subseteq 1 .. Len(classes), waited \subseteq waited',
         NEW s, SpawnIs(classes, waited, s), s.process \in waited' => s.process \in waited
  PROVE  SpawnIs(classes', waited', s)
<1>1. s.process \in 1 .. Len(classes')
  BY DEF SpawnIs
<1>2. CASE s.method
  BY <1>1, <1>2, InsideStays DEF SpawnIs
<1>3. CASE ~s.method
  <2>1. PICK i \in waited : InPath(classes, i, s.process)
    BY <1>3 DEF SpawnIs
  <2>2. i \in waited' /\ InPath(classes', i, s.process)
    BY <2>1, InsideStays
  <2>3. QED
    BY <1>1, <1>3, <2>2 DEF SpawnIs
<1>4. QED
  BY <1>2, <1>3

LEMMA BodyStays ==
  ASSUME IInv, Stays, NEW k \in 1 .. Len(frames')
  PROVE  /\ k \in 1 .. Len(frames) /\ frames'[k].id = frames[k].id
         /\ frames[k].id \in 1 .. Len(classes)
         /\ KindOf(classes', frames', k) = KindOf(classes, frames, k)
         /\ InBody(KindOf(classes, frames, k), frames[k]) =>
              InBody(KindOf(classes', frames', k), frames'[k])
<1>1. k \in 1 .. Len(frames) /\ frames'[k].id = frames[k].id
  BY DEF Stays
<1>2. frames[k].id \in 1 .. Len(classes)
  BY <1>1, FramesHave
<1>3. KindOf(classes', frames', k) = KindOf(classes, frames, k)
  BY <1>1, KindsStay DEF Stays
<1>4. QED
  BY <1>1, <1>2, <1>3 DEF Stays, InBody

LEMMA EndsStayOnTop ==
  ASSUME IInv, EndsOnTop(classes, frames), Stays, Len(frames') \in Nat
  PROVE  EndsOnTop(classes', frames')
<1>1. ASSUME NEW k \in 1 .. Len(frames'), frames'[k].phase = "concurrent",
             KindOf(classes', frames', k) \in BodyKinds, k # Len(frames')
      PROVE  FALSE
  <2>1. frames[k].phase = "concurrent" /\ k \in 1 .. Len(frames)
    BY <1>1 DEF Stays
  <2>2. k = Len(frames)
    BY <1>1, <2>1, BodyStays DEF EndsOnTop
  <2>3. \A m, n \in Nat : 1 .. m \subseteq 1 .. n /\ n \in 1 .. m => m = n
    OBVIOUS
  <2>4. Len(frames') = Len(frames)
    BY <1>1, <2>2, <2>3, FramesHave DEF Stays
  <2>5. QED
    BY <1>1, <2>2, <2>4
<1>2. QED
  BY <1>1 DEF EndsOnTop

LEMMA WaitStays ==
  ASSUME IInv, Stays, containsWait => containsWait', NEW k \in 1 .. Len(frames'),
         WaitKept(classes, frames, containsWait, k)
  PROVE  WaitKept(classes', frames', containsWait', k)
<1>1. RangeIn(classes, frames[k].id) => RangeIn(classes', frames'[k].id)
  BY BodyStays, InsideStays DEF Stays
<1>2. QED
  BY <1>1, BodyStays DEF WaitKept

LEMMA UnflaggedKeeps ==
  ASSUME IInv, IInv', FlagInv, Stays, Unflagged
  PROVE  FlagInv'
<1>1. /\ containsWait' = containsWait /\ waited' = waited /\ spawned' = spawned
      /\ Len(classes') = Len(classes) /\ PlacesKept(classes, classes')
  BY DEF Unflagged, Stays
<1>2. containsWait' \in BOOLEAN /\ waited' \subseteq 1 .. Len(classes')
  BY <1>1 DEF FlagInv
<1>3. FlagMeant(classes', frames', waited', containsWait')
  BY <1>1, BodyStays, InsideStays DEF FlagInv, FlagMeant
<1>4. WaitsKept(classes', frames', waited', containsWait')
  BY <1>1, BodyStays, WaitStays DEF FlagInv, WaitsKept
<1>5. EndsOnTop(classes', frames')
  BY EndsStayOnTop, FramesHave DEF FlagInv, IInv, Nested, IsStack
<1>6. SpawnsAre(classes', frames', waited', spawned')
  <2>1. ASSUME NEW s \in spawned
        PROVE  SpawnIs(classes', waited', s) /\ \A k \in 1 .. Len(frames') : frames'[k].id # s.process
    BY <1>1, BodyStays, SpawnStays DEF FlagInv, SpawnsAre
  <2>2. QED
    BY <1>1, <2>1 DEF SpawnsAre
<1>7. QED
  BY <1>2, <1>3, <1>4, <1>5, <1>6 DEF FlagInv

LEMMA WaitKeeps ==
  ASSUME IInv, IInv', BodyInv, FlagInv, Stays, Waits
  PROVE  FlagInv'
<1> DEFINE n == Len(frames)
<1>1. /\ frames # <<>> /\ Top.phase = "statements"
      /\ containsWait' = TRUE /\ waited' = waited \cup {Here}
      /\ classes' = classes /\ spawned' = spawned /\ PlacesKept(classes, classes')
  BY DEF Waits, Stays
<1>2. /\ n \in 1 .. n /\ frames[n] = Top /\ FrameFits(Kind, Top)
      /\ KindOf(classes, frames, n) = Kind
  BY <1>1, TopFits
<1>3. Here \in 1 .. Len(classes) /\ frames[n].id = Here
  BY <1>2, FramesHave DEF Here
<1>4. containsWait' \in BOOLEAN /\ waited' \subseteq 1 .. Len(classes')
  BY <1>1, <1>3 DEF FlagInv
<1>5. \A k \in 1 .. n : InPath(classes, Here, frames[k].id)
  BY <1>2, <1>3, OpenPaths DEF IInv, InPath
<1>6. FlagMeant(classes', frames', waited', containsWait')
  BY <1>1, <1>5, BodyStays DEF FlagMeant
<1>7. ASSUME NEW k \in 1 .. Len(frames'), frames'[k].id \in waited'
      PROVE  InBody(KindOf(classes', frames', k), frames'[k])
  <2>1. k \in 1 .. n /\ frames'[k].id = frames[k].id
    BY <1>7, BodyStays
  <2>2. CASE frames[k].id \in waited
    BY <2>1, <2>2, BodyStays DEF FlagInv, WaitsKept, WaitKept
  <2>3. CASE frames[k].id = Here
    <3>1. k = n
      BY <1>2, <1>3, <2>1, <2>3, OpenPaths DEF IInv
    <3>2. InBody(Kind, Top)
      BY <1>1, <1>2 DEF FrameFits, InBody
    <3>3. QED
      BY <1>2, <3>1, <3>2, BodyStays
  <2>4. QED
    BY <1>1, <1>7, <2>1, <2>2, <2>3
<1>8. WaitsKept(classes', frames', waited', containsWait')
  BY <1>1, <1>7 DEF WaitsKept, WaitKept
<1>9. EndsOnTop(classes', frames')
  BY EndsStayOnTop, FramesHave DEF FlagInv, IInv, Nested, IsStack
<1>10. SpawnsAre(classes', frames', waited', spawned')
  <2>1. ASSUME NEW s \in spawned
        PROVE  SpawnIs(classes', waited', s) /\ \A k \in 1 .. Len(frames') : frames'[k].id # s.process
    <3>1. /\ SpawnIs(classes, waited, s)
          /\ \A k \in 1 .. n : frames[k].id # s.process
      BY <2>1 DEF FlagInv, SpawnsAre
    <3>2. s.process # Here
      BY <1>2, <1>3, <3>1
    <3>3. SpawnIs(classes', waited', s)
      BY <1>1, <3>1, <3>2, SpawnStays DEF FlagInv
    <3>4. QED
      BY <3>1, <3>3, BodyStays
  <2>2. QED
    BY <1>1, <2>1 DEF SpawnsAre
<1>11. QED
  BY <1>4, <1>6, <1>8, <1>9, <1>10 DEF FlagInv

LEMMA SpawnKeeps ==
  ASSUME IInv, IInv', BodyInv, FlagInv, Stays, Spawns
  PROVE  FlagInv'
<1> DEFINE n == Len(frames)
<1>1. PICK s : s.process = Here /\ s.method = ~containsWait /\ spawned' = spawned \cup {s}
  BY DEF Spawns
<1>2. /\ frames # <<>> /\ Len(frames') = n - 1 /\ Len(classes') = Len(classes)
      /\ containsWait' = containsWait /\ waited' = waited /\ PlacesKept(classes, classes')
  BY DEF Spawns, Stays
<1>3. n \in 1 .. n /\ n \in Nat /\ frames[n].id = Here /\ Here \in 1 .. Len(classes)
  BY <1>2, TopFits, FramesHave DEF Here
<1>4. containsWait' \in BOOLEAN /\ waited' \subseteq 1 .. Len(classes')
  BY <1>2 DEF FlagInv
<1>5. FlagMeant(classes', frames', waited', containsWait')
  BY <1>2, BodyStays, InsideStays DEF FlagInv, FlagMeant
<1>6. WaitsKept(classes', frames', waited', containsWait')
  BY <1>2, BodyStays, WaitStays DEF FlagInv, WaitsKept
<1>7. EndsOnTop(classes', frames')
  BY EndsStayOnTop, FramesHave DEF FlagInv, IInv, Nested, IsStack
<1>8. SpawnIs(classes, waited, s)
  <2>1. CASE containsWait
    <3>1. PICK i \in waited : \A k \in 1 .. n : InPath(classes, i, frames[k].id)
      BY <2>1 DEF FlagInv, FlagMeant
    <3>2. InPath(classes, i, Here)
      BY <1>3, <3>1
    <3>3. s.method = FALSE
      BY <1>1, <2>1
    <3>4. QED
      BY <1>1, <1>3, <3>2, <3>3 DEF SpawnIs
  <2>2. CASE ~containsWait
    <3>1. Here \in waited => RangeIn(classes, Here)
      BY <1>3, <2>2 DEF FlagInv, WaitsKept, WaitKept
    <3>2. s.method = TRUE
      BY <1>1, <2>2
    <3>3. QED
      BY <1>1, <1>3, <3>1, <3>2 DEF SpawnIs
  <2>3. QED
    BY <2>1, <2>2
<1>9. \A k \in 1 .. Len(frames') : frames'[k].id # Here
  <2>1. ASSUME NEW k \in 1 .. Len(frames'), frames'[k].id = Here PROVE FALSE
    <3>1. k \in 1 .. n /\ frames[k].id = frames[n].id
      BY <1>3, <2>1, BodyStays
    <3>2. k = n
      BY <1>3, <3>1, OpenPaths DEF IInv
    <3>3. k \in 1 .. n - 1
      BY <1>2, <2>1
    <3>4. QED
      BY <1>3, <3>2, <3>3
  <2>2. QED
    BY <2>1
<1>10. SpawnsAre(classes', frames', waited', spawned')
  <2>1. ASSUME NEW r \in spawned'
        PROVE  SpawnIs(classes', waited', r) /\ \A k \in 1 .. Len(frames') : frames'[k].id # r.process
    <3>1. /\ SpawnIs(classes, waited, r)
          /\ \A k \in 1 .. Len(frames') : frames'[k].id # r.process
      BY <1>1, <1>8, <1>9, <2>1, BodyStays DEF FlagInv, SpawnsAre
    <3>2. QED
      BY <1>2, <3>1, SpawnStays DEF FlagInv
  <2>2. QED
    BY <2>1 DEF SpawnsAre
<1>11. QED
  BY <1>4, <1>5, <1>6, <1>7, <1>10 DEF FlagInv

\* A body that has waited is on top when a class is opened, and this class is
\* the factory of a range.
LEMMA OpensRange ==
  ASSUME IInv, BodyInv, FlagInv, NEW kind, MayOpen(kind), NEW k \in 1 .. Len(frames),
         InBody(KindOf(classes, frames, k), frames[k])
  PROVE  k = Len(frames) /\ kind = "FACTORY"
<1>1. KindOf(classes, frames, k) \in BodyKinds /\ FrameFits(KindOf(classes, frames, k), frames[k])
  BY DEF InBody, BodyInv, Fitting
<1>2. CASE Holds(KindOf(classes, frames, k), frames[k])
  <2>1. k \in Owners(classes, frames)
    BY <1>2 DEF Owners
  <2>2. QED
    BY <2>1, OpensOutside
<1>3. CASE ~Holds(KindOf(classes, frames, k), frames[k])
  <2>1. frames[k].phase = "concurrent"
    BY <1>3 DEF InBody, Holds
  <2>2. k = Len(frames)
    BY <1>1, <2>1 DEF FlagInv, EndsOnTop
  <2>3. frames[k].conc = <<>>
    BY <1>1 DEF FrameFits, BodyKinds, CreatedLast
  <2>4. frames # <<>> /\ Top.phase = "concurrent" /\ Top.conc = <<>>
    BY <2>1, <2>2, <2>3, EmptySeq DEF Top
  <2>5. QED
    BY <2>4 DEF MayOpen
<1>4. QED
  BY <1>2, <1>3

LEMMA OpeningKeeps ==
  ASSUME IInv, IInv', BodyInv, FlagInv, Resets, NEW kind \in ClassKinds, Enters(kind)
  PROVE  FlagInv'
<1> DEFINE n == Len(frames)
           m == n + 1
           c == Len(classes) + 1
<1>1. PICK f : /\ IsNewFrame(f, kind)
               /\ Len(frames') = m /\ frames'[m] = f
               /\ \A k \in 1 .. n : GoesOn(frames[k], frames'[k])
  BY EnteredFrames
<1>2. /\ PlacesKept(classes, classes') /\ MayOpen(kind) /\ classes'[c].kind = kind
      /\ Len(classes') = c
  BY DEF Enters, Gains
<1>3. containsWait' = FALSE /\ waited' = waited /\ spawned' = spawned
  BY DEF Resets
<1>4. n \in Nat /\ Len(classes) \in Nat /\ 1 .. Len(classes) \subseteq 1 .. Len(classes')
  BY <1>2, FramesHave
<1>5. /\ frames'[m].id = c /\ c \notin 1 .. Len(classes) /\ frames'[m].phase = "declarations"
      /\ c \in 1 .. Len(classes')
  BY <1>1, <1>2, <1>4 DEF IsNewFrame
<1>6. ASSUME NEW k \in 1 .. m PROVE k = m \/ k \in 1 .. n
  BY <1>4
<1>7. ASSUME NEW k \in 1 .. n
      PROVE  /\ frames'[k].id = frames[k].id /\ frames'[k].phase = frames[k].phase
             /\ KindOf(classes', frames', k) = KindOf(classes, frames, k)
             /\ frames[k].id \in 1 .. Len(classes)
  <2>1. frames'[k].id = frames[k].id /\ frames'[k].phase = frames[k].phase
    BY <1>1 DEF GoesOn
  <2>2. QED
    BY <1>2, <2>1, KindsStay, FramesHave
<1>8. containsWait' \in BOOLEAN /\ waited' \subseteq 1 .. Len(classes')
  BY <1>3, <1>4 DEF FlagInv
<1>9. FlagMeant(classes', frames', waited', containsWait')
  BY <1>3 DEF FlagMeant
<1>10. ASSUME NEW k \in 1 .. n, frames[k].id \in waited
       PROVE  WaitKept(classes', frames', containsWait', k)
  <2>1. InBody(KindOf(classes, frames, k), frames[k])
    BY <1>10 DEF FlagInv, WaitsKept, WaitKept
  <2>2. k = n /\ kind = "FACTORY"
    BY <1>2, <2>1, OpensRange
  <2>3. Around(classes', frames'[m].id) = classes'[frames'[n].id].path
    <3>1. n \in 1 .. m /\ m \in 1 .. m
      BY <1>4, <2>2
    <3>2. QED
      BY <1>1, <3>1, OpenAround DEF IInv
  <2>4. RangeIn(classes', frames'[k].id)
    BY <1>2, <1>5, <2>2, <2>3 DEF RangeIn
  <2>5. QED
    BY <1>7, <2>1, <2>4 DEF WaitKept, InBody
<1>11. WaitsKept(classes', frames', waited', containsWait')
  <2>1. c \notin waited'
    BY <1>3, <1>5 DEF FlagInv
  <2>2. QED
    BY <1>1, <1>3, <1>5, <1>6, <1>7, <1>10, <2>1 DEF WaitsKept
<1>12. EndsOnTop(classes', frames')
  <2>1. ASSUME NEW k \in 1 .. n, frames'[k].phase = "concurrent",
               KindOf(classes', frames', k) \in BodyKinds
        PROVE  FALSE
    <3>1. InBody(KindOf(classes, frames, k), frames[k]) /\ frames[k].phase = "concurrent"
      BY <1>7, <2>1 DEF InBody
    <3>2. k = n /\ kind = "FACTORY"
      BY <1>2, <3>1, OpensRange
    <3>3. frames # <<>> /\ Top = frames[k] /\ FrameFits(Kind, Top) /\ Kind \in BodyKinds
      <4>1. frames # <<>>
        BY <1>4, <3>2, EmptySeq
      <4>2. QED
        BY <1>7, <2>1, <3>2, <4>1, TopFits
    <3>4. Top.conc = <<>>
      BY <3>3 DEF FrameFits, BodyKinds, CreatedLast
    <3>5. QED
      BY <1>2, <3>1, <3>3, <3>4 DEF MayOpen
  <2>2. QED
    BY <1>1, <1>6, <2>1 DEF EndsOnTop
<1>13. SpawnsAre(classes', frames', waited', spawned')
  <2>1. ASSUME NEW s \in spawned
        PROVE  SpawnIs(classes', waited', s) /\ \A k \in 1 .. Len(frames') : frames'[k].id # s.process
    <3>1. /\ SpawnIs(classes, waited, s)
          /\ \A k \in 1 .. n : frames[k].id # s.process
      BY <2>1 DEF FlagInv, SpawnsAre
    <3>2. s.process # c
      BY <1>5, <3>1 DEF SpawnIs
    <3>3. SpawnIs(classes', waited', s)
      BY <1>2, <1>3, <1>4, <3>1, SpawnStays DEF FlagInv
    <3>4. QED
      BY <1>1, <1>5, <1>6, <1>7, <3>1, <3>2, <3>3
  <2>2. QED
    BY <1>3, <2>1 DEF SpawnsAre
<1>14. QED
  BY <1>8, <1>9, <1>11, <1>12, <1>13 DEF FlagInv

LEMMA FlagStart == Init => FlagInv
<1> SUFFICES ASSUME Init PROVE FlagInv
  OBVIOUS
<1>1. frames = <<>> /\ waited = {} /\ spawned = {} /\ containsWait = FALSE /\ Len(frames) = 0
  BY EmptySeq DEF Init
<1>2. 1 .. Len(frames) = {}
  BY <1>1
<1>3. FlagMeant(classes, frames, waited, containsWait)
  BY <1>1 DEF FlagMeant
<1>4. SpawnsAre(classes, frames, waited, spawned)
  BY <1>1 DEF SpawnsAre
<1>5. WaitsKept(classes, frames, waited, containsWait) /\ EndsOnTop(classes, frames)
  BY <1>2 DEF WaitsKept, EndsOnTop
<1>6. QED
  BY <1>1, <1>3, <1>4, <1>5 DEF FlagInv

LEMMA StepKeepsFlag == IInv /\ BodyInv /\ FlagInv /\ [Next]_vars => FlagInv'
<1> SUFFICES ASSUME IInv, BodyInv, FlagInv, [Next]_vars PROVE FlagInv'
  OBVIOUS
<1>1. StepKind /\ FlagStep /\ IInv'
  BY StepIsKind, StepFlags, StepKeepsInv
<1>2. CASE Unflagged
  BY <1>1, <1>2, StepStays, UnflaggedKeeps DEF Unflagged
<1>3. CASE Waits
  BY <1>1, <1>3, StepStays, WaitKeeps DEF Waits
<1>4. CASE Spawns
  BY <1>1, <1>4, StepStays, SpawnKeeps DEF Spawns
<1>5. CASE Resets
  <2>1. Len(classes') = Len(classes) + 1 /\ Len(classes) \in Nat
    BY <1>5, FramesHave DEF Resets
  <2>2. Len(classes') # Len(classes)
    BY <2>1
  <2>3. \E kind \in ClassKinds : Enters(kind)
    BY <1>1, <2>2 DEF StepKind, Rests, Works, BeginsBody, BeginsParts, EndsStatements,
       Leaves, StaysInClass
  <2>4. QED
    BY <1>1, <1>5, <2>3, OpeningKeeps
<1>6. QED
  BY <1>1, <1>2, <1>3, <1>4, <1>5 DEF FlagStep

\* process_contains_wait is one flag for all classes. A process is a thread only if
\* it or something in it waits; it is a method although it waits only if the factory
\* of a loop range in it has reset the flag (defineObject, createProcess).
THEOREM ThreadsAlwaysWait == Spec => []ThreadsAreThoseThatWait
<1>1. IInv /\ FlagInv => ThreadsAreThoseThatWait
  <2> SUFFICES ASSUME IInv, FlagInv, NEW s \in spawned
               PROVE  IF s.method THEN s.process \in waited => HasLoopRange(s.process)
                      ELSE \E i \in waited : IsInside(i, s.process)
    BY DEF ThreadsAreThoseThatWait
  <2>1. SpawnIs(classes, waited, s)
    BY DEF FlagInv, SpawnsAre
  <2>2. RangeIn(classes, s.process) => HasLoopRange(s.process)
    BY DEF RangeIn, HasLoopRange, Positions
  <2>3. \A i : InPath(classes, i, s.process) => IsInside(i, s.process)
    BY DEF InPath, IsInside
  <2>4. QED
    BY <2>1, <2>2, <2>3 DEF SpawnIs
<1>2. Spec => []FlagInv
  <2>1. Spec => [](IInv /\ BodyInv)
    BY BodiesStart, StepKeepsBodies, InvAlways, PTL DEF Spec
  <2>2. QED
    BY <2>1, FlagStart, StepKeepsFlag, PTL DEF Spec
<1>3. QED
  BY <1>1, <1>2, InvAlways, PTL
=============================================================================
