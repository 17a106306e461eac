------------------------- MODULE ElaborationProofs -------------------------
(***************************************************************************)
(* Proofs about Elaboration, for every source tree, command line and       *)
(* configuration: its type invariant and the exit code first, then what    *)
(* the database and the file information say of the files that were        *)
(* walked, that the compiler implements Linkage, and that it never rejects *)
(* a tidy program.                                                         *)
(*                                                                         *)
(* The second half rests on one classification of the steps (StackStep):   *)
(* the stack and the set of files walked stay, or a file is begun, moved   *)
(* on in, entered from another, left for its caller, or ended.             *)
(***************************************************************************)
EXTENDS Elaboration, SequenceTheorems, FiniteSetTheorems, TLAPS

-----------------------------------------------------------------------------
(* What the three ways of changing the stack do to each frame.             *)

\* The loop index of the running file moves on, and nothing else.
LEMMA AdvanceShape ==
  ASSUME NEW s \in Seq(Frames), s # <<>>
  PROVE  /\ Advance(s) \in Seq(Frames)
         /\ Len(Advance(s)) = Len(s)
         /\ \A i \in 1 .. Len(s) - 1 : Advance(s)[i] = s[i]
         /\ Advance(s)[Len(s)] = [s[Len(s)] EXCEPT !.pos = @ + 1]
<1>1. Len(s) \in 1 .. Len(s) /\ s[Len(s)] \in Frames
  BY EmptySeq, LenProperties, ElementOfSeq
<1>2. [s[Len(s)] EXCEPT !.pos = @ + 1] \in Frames
  BY <1>1, SMTT(20) DEF Frames
<1>3. QED
  BY <1>1, <1>2, ExceptSeq, LenProperties DEF Advance

LEMMA WithClassIsFrame ==
  ASSUME NEW f \in Frames, NEW class \in Classes
  PROVE  /\ WithClass(f, class) \in Frames
         /\ WithClass(f, class).lib = f.lib
         /\ WithClass(f, class).file = f.file
         /\ WithClass(f, class).pos = f.pos + 1
         /\ WithClass(f, class).classes = Append(f.classes, class)
<1>1. Append(f.classes, class) \in Seq(Classes)
  BY AppendProperties DEF Frames
<1>2. QED
  BY <1>1 DEF Frames, WithClass

\* The loop index moves on and the unit becomes the last class of the file.
LEMMA AddClassShape ==
  ASSUME NEW s \in Seq(Frames), s # <<>>, NEW class \in Classes
  PROVE  /\ AddClass(s, class) \in Seq(Frames)
         /\ Len(AddClass(s, class)) = Len(s)
         /\ \A i \in 1 .. Len(s) - 1 : AddClass(s, class)[i] = s[i]
         /\ AddClass(s, class)[Len(s)] = WithClass(s[Len(s)], class)
<1>1. Len(s) \in 1 .. Len(s) /\ s[Len(s)] \in Frames
  BY EmptySeq, LenProperties, ElementOfSeq
<1>2. WithClass(s[Len(s)], class) \in Frames
  BY <1>1, WithClassIsFrame
<1>3. QED
  BY <1>1, <1>2, ExceptSeq, LenProperties DEF AddClass

\* A return pops the running file and moves its caller on.
LEMMA ReturnShape ==
  ASSUME NEW s \in Seq(Frames), Len(s) > 1
  PROVE  /\ Returned(s) \in Seq(Frames)
         /\ Len(Returned(s)) = Len(s) - 1
         /\ \A i \in 1 .. Len(s) - 2 : Returned(s)[i] = s[i]
         /\ Returned(s)[Len(s) - 1] = [s[Len(s) - 1] EXCEPT !.pos = @ + 1]
<1> DEFINE r == SubSeq(s, 1, Len(s) - 1)
<1>1. Len(s) \in Nat /\ \A i \in 1 .. Len(s) - 1 : s[i] \in Frames
  BY LenProperties, ElementOfSeq
<1>2. /\ r \in Seq(Frames)
      /\ Len(r) = Len(s) - 1
      /\ \A i \in 1 .. Len(s) - 1 : r[i] = s[i]
  BY <1>1, SubSeqProperties
<1>3. Returned(s) = Advance(r)
  BY DEF Returned
<1> HIDE DEF r
<1>4. r # <<>>
  BY <1>1, <1>2, EmptySeq
<1>5. /\ Advance(r) \in Seq(Frames)
      /\ Len(Advance(r)) = Len(r)
      /\ \A i \in 1 .. Len(r) - 1 : Advance(r)[i] = r[i]
      /\ Advance(r)[Len(r)] = [r[Len(r)] EXCEPT !.pos = @ + 1]
  BY <1>2, <1>4, AdvanceShape
<1>6. r[Len(r)] = s[Len(s) - 1] /\ Len(r) - 1 = Len(s) - 2
  BY <1>1, <1>2
<1>7. QED
  BY <1>1, <1>2, <1>3, <1>5, <1>6

-----------------------------------------------------------------------------
(* Types.                                                                  *)

\* Every frame below the running one waits at the use clause it is loading.
AtUseClause(f) == ~AtEnd(f) /\ ItemAt(f.file, f.pos).kind = "use"
CallersWait == \A i \in 1 .. Len(stack) - 1 : AtUseClause(stack[i])

TypeInv == TypeOK /\ CallersWait

LEMMA StackDomain ==
  ASSUME TypeOK
  PROVE  /\ Len(stack) \in Nat
         /\ DOMAIN stack = 1 .. Len(stack)
         /\ \A i \in 1 .. Len(stack) : stack[i] \in Frames /\ FrameOK(stack[i])
         /\ stack # <<>> => Len(stack) > 0
BY LenProperties, ElementOfSeq, EmptySeq DEF TypeOK, StackOK

\* What a frame that is not at its end is looking at.
LEMMA ItemTypes ==
  ASSUME SourceTree(source), NEW f \in Frames, FrameOK(f), ~AtEnd(f)
  PROVE  LET u == ItemAt(f.file, f.pos)
         IN  /\ u.kind = "use" => u \in Uses
             /\ u.kind # "use" => u \in Units /\ f.pos \in DOMAIN source[f.file]
<1> DEFINE u == ItemAt(f.file, f.pos)
<1>1. /\ f.file \in Paths /\ f.pos \in Nat
      /\ source[f.file] \in Seq(Uses \cup Units)
      /\ Len(source[f.file]) \in Nat
      /\ DOMAIN source[f.file] = 1 .. Len(source[f.file])
      /\ f.pos <= Len(source[f.file])
  BY LenProperties DEF Frames, FrameOK, SourceTree, AtEnd
<1>2. CASE f.pos = 0
  <2>1. u = StandardUse
    BY <1>2 DEF ItemAt
  <2>2. StandardUse \in Uses /\ StandardUse.kind = "use"
    BY ConstantsAssumption DEF StandardUse, Uses
  <2>3. QED
    BY <2>1, <2>2
<1>3. CASE f.pos # 0
  <2>1. f.pos \in 1 .. Len(source[f.file]) /\ u = source[f.file][f.pos]
    BY <1>1, <1>3 DEF ItemAt
  <2>2. u \in Uses \cup Units
    BY <1>1, <2>1, ElementOfSeq
  <2>3. /\ u \in Uses => u.kind = "use"
        /\ u \in Units => u.kind # "use"
    BY DEF Uses, Units, UnitKinds
  <2>4. QED
    BY <1>1, <2>1, <2>2, <2>3
<1>4. QED
  BY <1>2, <1>3

LEMMA ErrorType ==
  ASSUME NEW what \in Problems, NEW lib \in Libraries, NEW name \in Names,
         NEW where \in SUBSET Origins
  PROVE  Error(what, lib, name, where) \in ErrorRecords
BY DEF Error, ErrorRecords

LEMMA UseErrorTypes ==
  ASSUME NEW f, NEW u \in Uses
  PROVE  UseErrors(f, u) \subseteq ErrorRecords
<1>1. u.lib \in Libraries /\ u.name \in Names
  BY DEF Uses
<1>2. QED
  BY <1>1, ErrorType DEF UseErrors, Problems

\* setVisible changes what is visible in one entry, and nothing else.
LEMMA SetVisibleKeeps ==
  ASSUME NEW db, IsDatabase(db), NEW key, NEW id
  PROVE  /\ IsDatabase(SetVisible(db, key, id))
         /\ DOMAIN SetVisible(db, key, id) = DOMAIN db
         /\ \A k \in DOMAIN db :
              LET e == SetVisible(db, key, id)[k]
              IN  /\ e.kind = db[k].kind /\ e.origin = db[k].origin
                  /\ e.declares = db[k].declares
                  /\ db[k].visible \subseteq e.visible
<1> DEFINE new == SetVisible(db, key, id)
           touched(k) == [db[k] EXCEPT !.visible = @ \cup SelectedBy(id, db[k])]
<1>1. DOMAIN new = DOMAIN db
  BY DEF SetVisible
<1>2. ASSUME NEW k \in DOMAIN db
      PROVE  /\ db[k] \in Entries(Origins)
             /\ touched(k) \in Entries(Origins)
             /\ touched(k).kind = db[k].kind /\ touched(k).origin = db[k].origin
             /\ touched(k).declares = db[k].declares
             /\ db[k].visible \subseteq touched(k).visible
  <2>1. db[k] \in Entries(Origins)
    BY DEF IsDatabase
  <2>2. SelectedBy(id, db[k]) \subseteq db[k].declares
    BY DEF SelectedBy
  <2>3. QED
    BY <2>1, <2>2 DEF Entries
<1>3. \A k \in DOMAIN db : new[k] = db[k] \/ new[k] = touched(k)
  BY DEF SetVisible
<1> HIDE DEF new, touched
<1>4. \A k \in DOMAIN db : new[k] \in Entries(Origins)
  BY <1>2, <1>3
<1>5. new = [k \in DOMAIN db |-> new[k]]
  BY DEF new, SetVisible
<1>6. IsDatabase(new)
  BY <1>1, <1>4, <1>5 DEF IsDatabase
<1>7. QED
  BY <1>1, <1>2, <1>3, <1>6 DEF new

\* append adds at most one entry and changes none.
LEMMA AppendObjectKeeps ==
  ASSUME NEW db, IsDatabase(db), NEW key \in Keys, NEW e \in Entries(Origins)
  PROVE  /\ IsDatabase(AppendObject(db, key, e))
         /\ DOMAIN AppendObject(db, key, e) = DOMAIN db \cup {key}
         /\ \A k \in DOMAIN db : AppendObject(db, key, e)[k] = db[k]
         /\ key \notin DOMAIN db => AppendObject(db, key, e)[key] = e
BY DEF AppendObject, IsDatabase

LEMMA ConcludeUseTypes ==
  ASSUME TypeOK, NEW f, NEW u \in Uses, NEW reported \in SUBSET ErrorRecords,
         ConcludeUse(f, u, reported)
  PROVE  IsDatabase(globals') /\ errors' \subseteq ErrorRecords
<1>1. IsDatabase(globals) /\ errors \subseteq ErrorRecords
  BY DEF TypeOK
<1>2. IsDatabase(globals')
  BY <1>1, SetVisibleKeeps DEF ConcludeUse
<1>3. QED
  BY <1>1, <1>2, UseErrorTypes DEF ConcludeUse

LEMMA ClassTypes ==
  ASSUME SourceTree(source), NEW f \in Frames, FrameOK(f), ~AtEnd(f),
         ItemAt(f.file, f.pos).kind # "use"
  PROVE  /\ ClassOf(f) \in Classes
         /\ ClassOf(f).kind = ItemAt(f.file, f.pos).kind
         /\ Append(f.classes, ClassOf(f))[Len(Append(f.classes, ClassOf(f)))] = ClassOf(f)
<1>1. /\ ItemAt(f.file, f.pos) \in Units
      /\ f.pos \in DOMAIN source[f.file] /\ source[f.file] \in Seq(Uses \cup Units)
  BY ItemTypes DEF SourceTree, FrameOK, Frames
<1>2. f.pos \in Nat \ {0}
  BY <1>1, LenProperties
<1>3. ClassOf(f) \in Classes /\ ClassOf(f).kind = ItemAt(f.file, f.pos).kind
  BY <1>1, <1>2 DEF ClassOf, Classes, Units
<1>4. f.classes \in Seq(Classes)
  BY DEF Frames
<1>5. QED
  BY <1>3, <1>4, AppendProperties, LenProperties

LEMMA GlobalizeTypes ==
  ASSUME TypeOK, NEW f \in Frames, NEW classes,
         classes[Len(classes)] \in Classes,
         classes[Len(classes)].kind \in GlobalKinds,
         Globalize(f, classes)
  PROVE  IsDatabase(globals') /\ errors' \subseteq ErrorRecords
<1> DEFINE class == classes[Len(classes)]
           key == <<f.lib, class.name>>
           origin == <<f.file, class.unit>>
<1> HIDE DEF class
<1>1. IsDatabase(globals) /\ errors \subseteq ErrorRecords
  BY DEF TypeOK
<1>2. class \in Classes /\ class.kind \in GlobalKinds
  BY DEF class
<1>3. key \in Keys /\ origin \in Origins
  BY <1>2 DEF Frames, Classes, Keys, Origins
<1>4. EntryFor(f, class) \in Entries(Origins)
  BY <1>2, <1>3 DEF EntryFor, Entries, Classes
<1>5. /\ globals' = AppendObject(globals, key, EntryFor(f, class))
      /\ errors' = IF AlreadyDefined(globals, key)
                    THEN errors \cup {Error("already defined", f.lib, class.name,
                                            {globals[key].origin, origin})}
                    ELSE errors
  BY DEF Globalize, class
<1>6. IsDatabase(globals')
  BY <1>1, <1>3, <1>4, <1>5, AppendObjectKeeps
<1>7. ASSUME AlreadyDefined(globals, key)
      PROVE  Error("already defined", f.lib, class.name,
                   {globals[key].origin, origin}) \in ErrorRecords
  <2>1. globals[key].origin \in Origins
    BY <1>1, <1>7 DEF IsDatabase, AlreadyDefined, Entries
  <2>2. f.lib \in Libraries /\ class.name \in Names
    BY <1>2 DEF Frames, Classes
  <2>3. QED
    BY <1>3, <2>1, <2>2, ErrorType DEF Problems
<1>8. QED
  BY <1>1, <1>5, <1>6, <1>7

\* The running file and its unit.
LEMMA RunningTop ==
  ASSUME TypeInv, Running
  PROVE  /\ Len(stack) \in Nat /\ Len(stack) > 0 /\ stack # <<>>
         /\ stack \in Seq(Frames)
         /\ Top = stack[Len(stack)] /\ Top \in Frames /\ FrameOK(Top)
         /\ SourceTree(source)
BY StackDomain, EmptySeq DEF TypeInv, TypeOK, StackOK, Running, Top

\* s1 is s with its last frame one unit further.
MovedOn(s, s1) ==
  /\ s1 \in Seq(Frames) /\ Len(s1) = Len(s)
  /\ \A i \in 1 .. Len(s) - 1 : s1[i] = s[i]
  /\ s1[Len(s)].lib = s[Len(s)].lib /\ s1[Len(s)].file = s[Len(s)].file
  /\ s1[Len(s)].pos = s[Len(s)].pos + 1

LEMMA AdvanceMovesOn ==
  ASSUME TypeInv, Running
  PROVE  MovedOn(stack, Advance(stack))
<1>1. stack \in Seq(Frames) /\ stack # <<>> /\ stack[Len(stack)] \in Frames
  BY RunningTop
<1>2. QED
  BY <1>1, AdvanceShape DEF MovedOn, Frames

LEMMA AddClassMovesOn ==
  ASSUME TypeInv, Running, ~AtEnd(Top), Item.kind # "use"
  PROVE  MovedOn(stack, AddClass(stack, ClassOf(Top)))
<1>1. /\ stack \in Seq(Frames) /\ stack # <<>> /\ stack[Len(stack)] \in Frames
      /\ Top \in Frames /\ FrameOK(Top) /\ SourceTree(source)
  BY RunningTop
<1>2. ClassOf(Top) \in Classes
  BY <1>1, ClassTypes DEF Item
<1>3. QED
  BY <1>1, <1>2, AddClassShape, WithClassIsFrame DEF MovedOn

LEMMA StackAfterMove ==
  ASSUME TypeInv, Running, ~AtEnd(Top), UNCHANGED inputs, MovedOn(stack, stack')
  PROVE  StackOK' /\ CallersWait' /\ stack' # <<>>
<1> DEFINE n == Len(stack)
<1>1. n \in Nat /\ n > 0 /\ Top = stack[n] /\ n <= MaxDepth
  BY RunningTop DEF TypeInv, TypeOK, StackOK
<1>2. \A i \in 1 .. n : stack[i] \in Frames /\ FrameOK(stack[i])
  BY StackDomain DEF TypeInv
<1>3. stack' \in Seq(Frames) /\ Len(stack') = n /\ DOMAIN stack' = 1 .. n
  BY LenProperties DEF MovedOn
<1>4. \A i \in 1 .. n - 1 : stack'[i] = stack[i]
  BY DEF MovedOn
<1>5. /\ stack'[n].file = stack[n].file /\ stack'[n].pos = stack[n].pos + 1
  BY DEF MovedOn
<1>6. source' = source
  BY DEF inputs
<1>7. ASSUME NEW i \in 1 .. n PROVE FrameOK(stack[i])'
  <2>1. CASE i = n
    <3>1. stack[n].pos <= Len(source[stack[n].file])
      <4>1. source[stack[n].file] \in Seq(Uses \cup Units)
        BY <1>1, <1>2 DEF TypeInv, TypeOK, SourceTree, Frames, FrameOK
      <4>2. Len(source[stack[n].file]) \in Nat /\ stack[n].pos \in Nat
        BY <1>1, <1>2, <4>1, LenProperties DEF Frames
      <4>3. QED
        BY <1>1, <4>2 DEF AtEnd
    <3>2. QED
      BY <1>1, <1>2, <1>5, <1>6, <2>1, <3>1 DEF FrameOK, Frames
  <2>2. CASE i # n
    BY <1>1, <1>2, <1>4, <1>6, <2>2 DEF FrameOK
  <2>3. QED
    BY <2>1, <2>2
<1>8. StackOK'
  BY <1>1, <1>3, <1>7 DEF StackOK
<1>9. CallersWait'
  BY <1>3, <1>4, <1>6 DEF TypeInv, CallersWait, AtUseClause, AtEnd, ItemAt
<1>10. QED
  BY <1>1, <1>3, <1>8, <1>9, EmptySeq

LEMMA StackAfterReturn ==
  ASSUME TypeInv, Running, Len(stack) > 1, UNCHANGED inputs, stack' = Returned(stack)
  PROVE  StackOK' /\ CallersWait' /\ stack' # <<>>
<1> DEFINE n == Len(stack) - 1
<1>1. n \in Nat /\ n > 0 /\ n <= MaxDepth /\ stack \in Seq(Frames)
  BY RunningTop, ConstantsAssumption DEF TypeInv, TypeOK, StackOK
<1>2. \A i \in 1 .. n : stack[i] \in Frames /\ FrameOK(stack[i])
  BY <1>1, StackDomain DEF TypeInv
<1>3. /\ stack' \in Seq(Frames) /\ Len(stack') = n
      /\ \A i \in 1 .. n - 1 : stack'[i] = stack[i]
      /\ stack'[n] = [stack[n] EXCEPT !.pos = @ + 1]
  BY <1>1, ReturnShape
<1>4. DOMAIN stack' = 1 .. n
  BY <1>3, LenProperties
<1>5. stack'[n].file = stack[n].file /\ stack'[n].pos = stack[n].pos + 1
  BY <1>1, <1>2, <1>3 DEF Frames
<1>6. source' = source
  BY DEF inputs
<1>7. ASSUME NEW i \in 1 .. n PROVE FrameOK(stack[i])'
  <2>1. CASE i = n
    <3>1. ~AtEnd(stack[n])
      BY <1>1 DEF TypeInv, CallersWait, AtUseClause
    <3>2. source[stack[n].file] \in Seq(Uses \cup Units)
      BY <1>1, <1>2, SMTT(20) DEF TypeInv, TypeOK, SourceTree, Frames, FrameOK
    <3>3. Len(source[stack[n].file]) \in Nat /\ stack[n].pos \in Nat
      BY <1>1, <1>2, <3>2, LenProperties DEF Frames
    <3>4. QED
      BY <1>1, <1>2, <1>5, <1>6, <2>1, <3>1, <3>3 DEF FrameOK, AtEnd
  <2>2. CASE i # n
    BY <1>1, <1>2, <1>3, <1>6, <2>2 DEF FrameOK
  <2>3. QED
    BY <2>1, <2>2
<1>8. StackOK'
  BY <1>1, <1>3, <1>4, <1>7 DEF StackOK
<1>9. CallersWait'
  BY <1>1, <1>3, <1>6 DEF TypeInv, CallersWait, AtUseClause, AtEnd, ItemAt
<1>10. QED
  BY <1>1, <1>3, <1>8, <1>9, EmptySeq

LEMMA PackagePathIsPath ==
  ASSUME TypeInv, MustParse
  PROVE  PackagePath \in Paths /\ Item \in Uses
<1>1. Running /\ ~AtEnd(Top) /\ Item.kind = "use"
  BY DEF MustParse, Missing, AtUse
<1>2. Item \in Uses
  BY <1>1, RunningTop, ItemTypes DEF Item
<1>3. DirOf(Item.lib) \in Dirs
  BY <1>2, ConstantsAssumption DEF MustParse, HasFile, HasDir, DirOf, Uses
<1>4. FileOf(Item) \in Files
  BY <1>2, <1>3, ConstantsAssumption DEF MustParse, HasFile, FileOf, Uses
<1>5. QED
  BY <1>2, <1>3, <1>4 DEF PackagePath, Paths

LEMMA StackAfterEnter ==
  ASSUME TypeInv, UNCHANGED inputs, MustParse,
         source[PackagePath] # Unreadable, Len(stack) < MaxDepth,
         stack' = Append(stack, NewFrame(Item.lib, PackagePath, 1))
  PROVE  StackOK' /\ CallersWait' /\ stack' # <<>>
<1> DEFINE n == Len(stack)
           new == NewFrame(Item.lib, PackagePath, 1)
<1>1. Running /\ AtUseClause(Top)
  BY DEF MustParse, Missing, AtUse, AtUseClause, Item
<1>2. n \in Nat /\ n > 0 /\ stack \in Seq(Frames) /\ Top = stack[n]
  BY <1>1, RunningTop
<1>3. \A i \in 1 .. n : stack[i] \in Frames /\ FrameOK(stack[i])
  BY StackDomain DEF TypeInv
<1>4. PackagePath \in Paths /\ Item \in Uses
  BY PackagePathIsPath
<1>5. new \in Frames /\ new.file = PackagePath /\ new.pos = 1
  BY <1>4, EmptySeq DEF NewFrame, Frames, Uses
<1>6. /\ stack' \in Seq(Frames) /\ Len(stack') = n + 1 /\ stack' # <<>>
      /\ \A i \in 1 .. n : stack'[i] = stack[i]
      /\ stack'[n + 1] = new
  BY <1>2, <1>5, AppendProperties
<1>7. DOMAIN stack' = 1 .. n + 1
  BY <1>6, LenProperties
<1>8. source' = source
  BY DEF inputs
<1>9. ASSUME NEW i \in 1 .. n + 1 PROVE FrameOK(stack[i])'
  <2>1. CASE i = n + 1
    <3>1. source[PackagePath] \in Seq(Uses \cup Units)
      BY <1>4 DEF TypeInv, TypeOK, SourceTree
    <3>2. Len(source[PackagePath]) \in Nat
      BY <3>1, LenProperties
    <3>3. QED
      BY <1>5, <1>6, <1>8, <2>1, <3>2 DEF FrameOK
  <2>2. CASE i # n + 1
    BY <1>2, <1>3, <1>6, <1>8, <2>2 DEF FrameOK
  <2>3. QED
    BY <2>1, <2>2
<1>10. StackOK'
  BY <1>2, <1>6, <1>7, <1>9, ConstantsAssumption DEF StackOK
<1>11. CallersWait'
  BY <1>1, <1>2, <1>6, <1>8 DEF TypeInv, CallersWait, AtUseClause, AtEnd, ItemAt
<1>12. QED
  BY <1>6, <1>10, <1>11

\* The parts of TypeInv that do not speak of the stack.
TypeRest ==
  /\ SourceTree(source)
  /\ command \in CommandLines
  /\ status \in {"starting", "running", "done", "aborted", "crashed"}
  /\ IsDatabase(globals)
  /\ errors \subseteq ErrorRecords
  /\ dependencies \subseteq Keys
  /\ listed \subseteq UnitKinds \X Names
  /\ parsed \subseteq Libraries \X Paths

LEMMA TypeParts ==
  TypeInv <=> /\ TypeRest /\ StackOK /\ CallersWait
              /\ status \in {"running", "done"} => stack # <<>>
BY DEF TypeInv, TypeOK, TypeRest

LEMMA InitTypes == Init => TypeInv
<1> SUFFICES ASSUME Init PROVE TypeInv
  OBVIOUS
<1>1. SourceTree(source) /\ command \in CommandLines
  BY SourcesAssumption DEF Init
<1>2. IsDatabase(globals)
  BY DEF Init, IsDatabase, EmptyDatabase
<1>3. stack = <<>> /\ Len(stack) = 0 /\ DOMAIN stack = {}
  BY EmptySeq DEF Init
<1>4. StackOK /\ CallersWait
  BY <1>3, EmptySeq, ConstantsAssumption DEF StackOK, CallersWait
<1>5. QED
  BY <1>1, <1>2, <1>4 DEF Init, TypeInv, TypeOK

LEMMA GenerateTypes == TypeInv /\ Generate => TypeInv'
<1> SUFFICES ASSUME TypeInv, Generate PROVE TypeInv'
  OBVIOUS
<1> DEFINE start == IF Prelude THEN 0 ELSE 1
           new == NewFrame(command.library, Main, start)
<1>1. /\ TypeRest /\ UNCHANGED inputs
      /\ command.library \in Libraries /\ Main \in Paths
      /\ source[Main] \in Seq(Uses \cup Units) /\ source[Main] # Unreadable
  BY TypeParts, ConstantsAssumption
     DEF Generate, TypeRest, SourceTree, CommandLines, Main, Paths
<1>2. new \in Frames /\ new.file = Main /\ new.pos \in {0, 1}
  BY <1>1, EmptySeq DEF NewFrame, Frames
<1>3. stack' = <<new>>
  BY DEF Generate
<1> HIDE DEF new
<1>4. /\ stack' \in Seq(Frames) /\ Len(stack') = 1 /\ stack'[1] = new
      /\ DOMAIN stack' = 1 .. 1 /\ stack' # <<>>
  BY <1>2, <1>3
<1>5. FrameOK(stack[1])'
  <2>1. Len(source[Main]) \in Nat
    BY <1>1, LenProperties
  <2>2. source' = source /\ new.pos <= Len(source[Main]) + 1
    BY <1>1, <1>2, <2>1 DEF inputs
  <2>3. QED
    BY <1>1, <1>2, <1>4, <2>2 DEF FrameOK
<1>6. StackOK' /\ CallersWait'
  BY <1>3, <1>4, <1>5, ConstantsAssumption DEF StackOK, CallersWait
<1>7. errors' \subseteq ErrorRecords
  <2>1. Error("no configuration", command.library, STANDARD, {}) \in ErrorRecords
    BY <1>1, ErrorType, ConstantsAssumption DEF Problems
  <2>2. QED
    BY <1>1, <2>1 DEF Generate, TypeRest
<1>8. TypeRest'
  BY <1>1, <1>7 DEF TypeRest, Generate, inputs, output, SourceTree, IsDatabase
<1>9. QED
  BY <1>4, <1>6, <1>8, TypeParts DEF TypeInv, TypeOK, TypeRest

\* A use clause that is settled at once: the package is known, or it cannot
\* be found without parsing.
LEMMA ConcludedUseTypes ==
  ASSUME TypeInv, AtUse, UNCHANGED <<inputs, status, listed, parsed>>,
         dependencies' \in {dependencies, dependencies \cup {KeyOf(Item)}},
         NEW reported \in SUBSET ErrorRecords,
         ConcludeUse(Top, Item, reported), stack' = Advance(stack)
  PROVE  TypeInv'
<1>1. Running /\ ~AtEnd(Top) /\ Item.kind = "use" /\ TypeOK /\ TypeRest
  BY TypeParts DEF AtUse, TypeInv
<1>2. Item \in Uses
  BY <1>1, RunningTop, ItemTypes DEF Item
<1>3. KeyOf(Item) \in Keys
  BY <1>2 DEF KeyOf, Keys, Uses
<1>4. StackOK' /\ CallersWait' /\ stack' # <<>>
  BY <1>1, AdvanceMovesOn, StackAfterMove
<1>5. IsDatabase(globals') /\ errors' \subseteq ErrorRecords
  BY <1>1, <1>2, ConcludeUseTypes
<1>6. TypeRest'
  BY <1>1, <1>3, <1>5 DEF TypeRest, inputs, SourceTree, IsDatabase
<1>7. QED
  BY <1>4, <1>6, TypeParts DEF TypeInv, TypeOK, TypeRest

LEMMA UseFailsTypes ==
  ASSUME TypeInv, Missing, NEW what \in Problems, UseFails(what)
  PROVE  TypeInv'
<1>1. Running /\ ~AtEnd(Top) /\ AtUse /\ Item.kind = "use"
  BY DEF Missing, AtUse
<1>2. Item \in Uses
  BY <1>1, RunningTop, ItemTypes DEF Item
<1>3. Error(what, Item.lib, Item.name, {}) \in ErrorRecords
  BY <1>2, ErrorType DEF Uses
<1>4. QED
  BY <1>1, <1>3, ConcludedUseTypes DEF UseFails, WriteDependency

\* Steps that change the stack by StackOK and CallersWait, or not at all.
LEMMA EnterTypes == TypeInv /\ EnterPackageFile => TypeInv'
<1> SUFFICES ASSUME TypeInv, EnterPackageFile PROVE TypeInv'
  OBVIOUS
<1>1. MustParse /\ TypeRest /\ Item \in Uses
  BY PackagePathIsPath, TypeParts DEF EnterPackageFile
<1>2. StackOK' /\ CallersWait' /\ stack' # <<>>
  BY StackAfterEnter DEF EnterPackageFile
<1>3. TypeRest'
  BY <1>1 DEF EnterPackageFile, WriteDependency, TypeRest, KeyOf, Keys, Uses,
              inputs, SourceTree, IsDatabase
<1>4. QED
  BY <1>2, <1>3, TypeParts DEF TypeInv, TypeOK, TypeRest

LEMMA EndOfProcessTypes ==
  TypeInv /\ (EnterUnreadableFile \/ ExhaustStack) => TypeInv'
<1> SUFFICES ASSUME TypeInv, EnterUnreadableFile \/ ExhaustStack PROVE TypeInv'
  OBVIOUS
<1>1. MustParse /\ TypeRest /\ Item \in Uses
  BY PackagePathIsPath, TypeParts DEF EnterUnreadableFile, ExhaustStack
<1>2. StackOK' /\ CallersWait' /\ status' \in {"aborted", "crashed"}
  BY TypeParts DEF EnterUnreadableFile, ExhaustStack, StackOK, CallersWait, FrameOK,
                   AtUseClause, AtEnd, ItemAt, inputs
<1>3. TypeRest'
  BY <1>1 DEF EnterUnreadableFile, ExhaustStack, WriteDependency, TypeRest, KeyOf,
              Keys, Uses, inputs, SourceTree, IsDatabase
<1>4. QED
  BY <1>2, <1>3, TypeParts DEF TypeInv, TypeOK, TypeRest

LEMMA OperatorUseTypes == TypeInv /\ UseOfOperatorSymbol => TypeInv'
<1> SUFFICES ASSUME TypeInv, UseOfOperatorSymbol PROVE TypeInv'
  OBVIOUS
<1>1. TypeRest /\ StackOK' /\ CallersWait' /\ status' = "crashed"
  BY TypeParts DEF UseOfOperatorSymbol, StackOK, CallersWait, FrameOK, AtUseClause,
                   AtEnd, ItemAt, inputs
<1>2. TypeRest'
  BY <1>1 DEF UseOfOperatorSymbol, TypeRest, inputs, output, SourceTree, IsDatabase
<1>3. QED
  BY <1>1, <1>2, TypeParts DEF TypeInv, TypeOK, TypeRest

LEMMA ReturnTypes == TypeInv /\ ReturnToCaller => TypeInv'
<1> SUFFICES ASSUME TypeInv, ReturnToCaller PROVE TypeInv'
  OBVIOUS
<1>1. /\ Running /\ Len(stack) > 1 /\ Len(stack) \in Nat
      /\ TypeOK /\ TypeRest /\ Top \in Frames
  BY RunningTop, TypeParts DEF ReturnToCaller, TypeInv
<1>2. StackOK' /\ CallersWait' /\ stack' # <<>>
  BY <1>1, StackAfterReturn DEF ReturnToCaller
<1>3. /\ Caller \in Frames /\ FrameOK(Caller) /\ AtUseClause(Caller)
      /\ SourceTree(source)
  BY <1>1, StackDomain DEF TypeInv, CallersWait, Caller, TypeRest
<1>4. ItemAt(Caller.file, Caller.pos) \in Uses
  BY <1>3, ItemTypes DEF AtUseClause
<1>5. IsDatabase(globals') /\ errors' \subseteq ErrorRecords
  BY <1>1, <1>4, ConcludeUseTypes DEF ReturnToCaller
<1>6. parsed' \subseteq Libraries \X Paths
  BY <1>1 DEF ReturnToCaller, TypeRest, Frames
<1>7. TypeRest'
  BY <1>1, <1>5, <1>6 DEF ReturnToCaller, TypeRest, inputs, output, SourceTree, IsDatabase
<1>8. QED
  BY <1>2, <1>7, TypeParts DEF TypeInv, TypeOK, TypeRest

LEMMA FinishTypes == TypeInv /\ Finish => TypeInv'
<1> SUFFICES ASSUME TypeInv, Finish PROVE TypeInv'
  OBVIOUS
<1>1. TypeRest /\ Top \in Frames /\ stack # <<>>
  BY RunningTop, TypeParts DEF Finish
<1>2. StackOK' /\ CallersWait'
  BY TypeParts DEF Finish, StackOK, CallersWait, FrameOK, AtUseClause, AtEnd, ItemAt, inputs
<1>3. TypeRest'
  BY <1>1 DEF Finish, TypeRest, Frames, inputs, output, SourceTree, IsDatabase
<1>4. QED
  BY <1>1, <1>2, <1>3, TypeParts DEF TypeInv, TypeOK, TypeRest, Finish

\* What a unit that is not a use clause adds to the lists.
LEMMA UnitFacts ==
  ASSUME TypeInv, Running, ~AtEnd(Top), Item.kind # "use"
  PROVE  /\ Item \in Units /\ <<Item.kind, Item.name>> \in UnitKinds \X Names
         /\ ClassOf(Top) \in Classes /\ ClassOf(Top).kind = Item.kind
         /\ Append(Top.classes, ClassOf(Top))[Len(Append(Top.classes, ClassOf(Top)))]
              = ClassOf(Top)
<1>1. Top \in Frames /\ FrameOK(Top) /\ SourceTree(source)
  BY RunningTop
<1>2. Item \in Units
  BY <1>1, ItemTypes DEF Item
<1>3. QED
  BY <1>1, <1>2, ClassTypes DEF Units, Item

LEMMA DeclareGlobalUnitTypes ==
  ASSUME TypeInv, Running, ~AtEnd(Top), Item.kind \in GlobalKinds, DeclareGlobalUnit
  PROVE  TypeInv'
<1> DEFINE classes == Append(Top.classes, ClassOf(Top))
<1>1. Item.kind # "use" /\ TypeOK /\ TypeRest /\ Top \in Frames
  BY RunningTop, TypeParts DEF GlobalKinds, TypeInv
<1>2. /\ <<Item.kind, Item.name>> \in UnitKinds \X Names
      /\ ClassOf(Top) \in Classes /\ ClassOf(Top).kind = Item.kind
      /\ classes[Len(classes)] = ClassOf(Top)
  BY <1>1, UnitFacts
<1>3. Globalize(Top, classes)
  BY DEF DeclareGlobalUnit
<1> HIDE DEF classes
<1>4. IsDatabase(globals') /\ errors' \subseteq ErrorRecords
  BY <1>1, <1>2, <1>3, GlobalizeTypes
<1>5. StackOK' /\ CallersWait' /\ stack' # <<>>
  BY <1>1, AddClassMovesOn, StackAfterMove DEF DeclareGlobalUnit
<1>6. TypeRest'
  BY <1>1, <1>2, <1>4 DEF DeclareGlobalUnit, WriteUnit, TypeRest, inputs, SourceTree, IsDatabase
<1>7. QED
  BY <1>5, <1>6, TypeParts DEF TypeInv, TypeOK, TypeRest

LEMMA LocalUnitTypes ==
  ASSUME TypeInv, DeclarePackageBody \/ SkipPackageBody \/ DeclareArchitecture
  PROVE  TypeInv'
<1>1. /\ Running /\ ~AtEnd(Top) /\ Item.kind # "use"
      /\ UNCHANGED <<inputs, status, globals, parsed>>
      /\ stack' = Advance(stack) \/ stack' = AddClass(stack, ClassOf(Top))
  BY DEF DeclarePackageBody, SkipPackageBody, DeclareArchitecture, AtUnit
<1>2. StackOK' /\ CallersWait' /\ stack' # <<>>
  BY <1>1, AdvanceMovesOn, AddClassMovesOn, StackAfterMove
<1>3. /\ TypeRest /\ Item \in Units /\ Top \in Frames
      /\ <<Item.kind, Item.name>> \in UnitKinds \X Names
  BY <1>1, UnitFacts, RunningTop, TypeParts
<1>4. errors' \subseteq ErrorRecords
  <2>1. Error("no entity", Top.lib, Item.name, {}) \in ErrorRecords
    BY <1>3, ErrorType DEF Problems, Frames, Units
  <2>2. QED
    BY <1>3, <2>1
       DEF DeclarePackageBody, SkipPackageBody, DeclareArchitecture, TypeRest
<1>5. TypeRest'
  BY <1>1, <1>3, <1>4
     DEF DeclarePackageBody, SkipPackageBody, DeclareArchitecture, WriteUnit, output,
         TypeRest, inputs, SourceTree, IsDatabase
<1>6. QED
  BY <1>2, <1>5, TypeParts DEF TypeInv, TypeOK, TypeRest

LEMMA StepTypes == TypeInv /\ [Next]_vars => TypeInv'
<1> SUFFICES ASSUME TypeInv, [Next]_vars PROVE TypeInv'
  OBVIOUS
<1>1. CASE Generate
  BY <1>1, GenerateTypes
<1>2. CASE UseKnown
  BY <1>2, ConcludedUseTypes DEF UseKnown, output
<1>3. CASE UseOfUnknownLibrary
  BY <1>3, UseFailsTypes DEF UseOfUnknownLibrary, Problems
<1>4. CASE UseOfUnknownPackage
  BY <1>4, UseFailsTypes DEF UseOfUnknownPackage, Problems
<1>5. CASE UseOfOwnFile
  BY <1>5, UseFailsTypes DEF UseOfOwnFile, Problems
<1>6. CASE EnterPackageFile
  BY <1>6, EnterTypes
<1>7. CASE EnterUnreadableFile \/ ExhaustStack \/ UseOfOperatorSymbol
  BY <1>7, EndOfProcessTypes, OperatorUseTypes
<1>8. CASE ReturnToCaller
  BY <1>8, ReturnTypes
<1>9. CASE Finish
  BY <1>9, FinishTypes
<1>10. CASE DeclarePackage \/ DeclareEntity
  BY <1>10, DeclareGlobalUnitTypes DEF DeclarePackage, DeclareEntity, AtUnit, GlobalKinds
<1>11. CASE DeclarePackageBody \/ SkipPackageBody \/ DeclareArchitecture
  BY <1>11, LocalUnitTypes
<1>12. CASE UNCHANGED vars
  BY <1>12 DEF vars, inputs, output, TypeInv, TypeOK, StackOK, CallersWait, FrameOK,
               AtUseClause, AtEnd, ItemAt, SourceTree, IsDatabase
<1>13. QED
  BY <1>1, <1>2, <1>3, <1>4, <1>5, <1>6, <1>7, <1>8, <1>9, <1>10, <1>11, <1>12
     DEF Next, Step, Stopped

LEMMA TypeInvAlways == Spec => []TypeInv
BY InitTypes, StepTypes, PTL DEF Spec

\* Every state of every run has the types of the data structures of the code;
\* in particular a caller is always waiting at a use clause when the file it
\* loads ends, which is where loadPackage resumes (includes.cpp:17-26).
THEOREM TypeCorrect == Spec => []TypeOK
<1>1. TypeInv => TypeOK
  BY DEF TypeInv
<1>2. QED
  BY <1>1, TypeInvAlways, PTL

-----------------------------------------------------------------------------
(* What no step takes away.                                                *)

Grows ==
  /\ source' = source /\ command' = command
  /\ errors \subseteq errors'
  /\ \A key \in DOMAIN globals :
       /\ key \in DOMAIN globals'
       /\ globals'[key].kind = globals[key].kind
       /\ globals'[key].origin = globals[key].origin
       /\ globals'[key].declares = globals[key].declares
       /\ globals[key].visible \subseteq globals'[key].visible

LEMMA ConcludeUseGrows ==
  ASSUME TypeInv, NEW f, NEW u, NEW reported, ConcludeUse(f, u, reported), UNCHANGED inputs
  PROVE  Grows
BY SetVisibleKeeps DEF TypeInv, TypeOK, ConcludeUse, Grows, inputs

LEMMA GlobalizeGrows ==
  ASSUME TypeInv, Running, ~AtEnd(Top), Item.kind \in GlobalKinds, DeclareGlobalUnit
  PROVE  /\ Grows
         /\ LET class == ClassOf(Top)
                key   == <<Top.lib, class.name>>
            IN  /\ DOMAIN globals' = DOMAIN globals \cup {key}
                /\ \A k \in DOMAIN globals : globals'[k] = globals[k]
                /\ key \notin DOMAIN globals => globals'[key] = EntryFor(Top, class)
                /\ key \in DOMAIN globals => errors' # {}
<1> DEFINE class == ClassOf(Top)
           key   == <<Top.lib, class.name>>
<1>1. /\ Item.kind # "use" /\ IsDatabase(globals)
      /\ Top \in Frames /\ UNCHANGED inputs
  BY RunningTop DEF GlobalKinds, TypeInv, TypeOK, DeclareGlobalUnit
<1>2. /\ class \in Classes /\ class.kind \in GlobalKinds
      /\ Append(Top.classes, class)[Len(Append(Top.classes, class))] = class
  BY <1>1, UnitFacts
<1>3. key \in Keys /\ <<Top.file, class.unit>> \in Origins
  BY <1>1, <1>2 DEF Frames, Classes, Keys, Origins
<1>4. EntryFor(Top, class) \in Entries(Origins)
  BY <1>2, <1>3 DEF EntryFor, Entries, Classes
<1>5. /\ globals' = AppendObject(globals, key, EntryFor(Top, class))
      /\ errors' = IF key \in DOMAIN globals
                    THEN errors \cup {Error("already defined", Top.lib, class.name,
                              {globals[key].origin, <<Top.file, class.unit>>})}
                    ELSE errors
  BY <1>2 DEF DeclareGlobalUnit, Globalize, AlreadyDefined
<1> HIDE DEF class
<1>6. /\ DOMAIN globals' = DOMAIN globals \cup {key}
      /\ \A k \in DOMAIN globals : globals'[k] = globals[k]
      /\ key \notin DOMAIN globals => globals'[key] = EntryFor(Top, class)
  BY <1>1, <1>3, <1>4, <1>5, AppendObjectKeeps
<1>7. Grows
  BY <1>1, <1>5, <1>6 DEF Grows, inputs
<1>8. QED
  BY <1>5, <1>6, <1>7 DEF class

LEMMA StepGrows == TypeInv /\ [Next]_vars => Grows
<1> SUFFICES ASSUME TypeInv, [Next]_vars PROVE Grows
  OBVIOUS
<1>1. CASE UseKnown \/ ReturnToCaller
  BY <1>1, ConcludeUseGrows DEF UseKnown, ReturnToCaller
<1>2. CASE UseOfUnknownLibrary \/ UseOfUnknownPackage \/ UseOfOwnFile
  BY <1>2, ConcludeUseGrows
     DEF UseOfUnknownLibrary, UseOfUnknownPackage, UseOfOwnFile, UseFails
<1>3. CASE DeclarePackage \/ DeclareEntity
  BY <1>3, GlobalizeGrows DEF DeclarePackage, DeclareEntity, AtUnit, GlobalKinds
<1>4. CASE \/ Generate \/ EnterPackageFile \/ EnterUnreadableFile \/ ExhaustStack
           \/ UseOfOperatorSymbol \/ Finish
           \/ DeclarePackageBody \/ SkipPackageBody \/ DeclareArchitecture
           \/ UNCHANGED vars
  BY <1>4 DEF Generate, EnterPackageFile, EnterUnreadableFile,
              ExhaustStack, UseOfOperatorSymbol, Finish,
              DeclarePackageBody, SkipPackageBody, DeclareArchitecture, Grows, vars, inputs
<1>5. QED
  BY <1>1, <1>2, <1>3, <1>4 DEF Next, Step, Stopped

\* Every step of every run leaves the objects of the database as they were
\* declared, and what is visible stays visible (global_database.cpp:8-31).
THEOREM DefinitionsStable == Spec => DefinitionsAreStable
<1>1. TypeInv /\ [Next]_vars =>
        [\A key \in DOMAIN globals :
           /\ key \in DOMAIN globals'
           /\ globals'[key].kind = globals[key].kind
           /\ globals'[key].origin = globals[key].origin
           /\ globals[key].visible \subseteq globals'[key].visible]_vars
  BY StepGrows DEF Grows
<1>2. QED
  BY <1>1, TypeInvAlways, PTL DEF Spec, DefinitionsAreStable

-----------------------------------------------------------------------------
(* The classes of a file come from the units it has passed and, unless an  *)
(* error was reported, are in the database.  They decide findObject for    *)
(* WORK.                                                                   *)

ClassDeclared(f, class) ==
  /\ class.unit \in DOMAIN source[f.file] /\ class.unit \in 1 .. f.pos - 1
  /\ source[f.file][class.unit].kind = class.kind
  /\ source[f.file][class.unit].name = class.name

ClassGlobal(f, class) ==
  class.kind \in GlobalKinds => HasObject(globals, <<f.lib, class.name>>, class.kind)

ClassesInv ==
  \A i \in 1 .. Len(stack) : \A j \in DOMAIN stack[i].classes :
    /\ ClassDeclared(stack[i], stack[i].classes[j])
    /\ errors = {} => ClassGlobal(stack[i], stack[i].classes[j])

\* A unit that a frame has passed is one that it has passed a unit later.
LEMMA ClassStays ==
  ASSUME NEW f, NEW g, NEW class, ClassDeclared(f, class),
         g.file = f.file, f.pos \in Nat, g.pos \in {f.pos, f.pos + 1}
  PROVE  ClassDeclared(g, class)
<1>1. 1 .. f.pos - 1 \subseteq 1 .. g.pos - 1
  OBVIOUS
<1>2. QED
  BY <1>1 DEF ClassDeclared

\* The frame g of the new stack has the classes of a frame f of the old one.
LEMMA ClassesPersist ==
  ASSUME Grows, NEW i \in 1 .. Len(stack), NEW k,
         stack'[k].lib = stack[i].lib, stack'[k].file = stack[i].file,
         stack[i].pos \in Nat, stack'[k].pos \in {stack[i].pos, stack[i].pos + 1},
         stack'[k].classes = stack[i].classes, ClassesInv
  PROVE  \A j \in DOMAIN stack'[k].classes :
           /\ ClassDeclared(stack[k], stack[k].classes[j])'
           /\ errors' = {} => ClassGlobal(stack[k], stack[k].classes[j])'
<1>1. errors' = {} => errors = {}
  BY DEF Grows
<1>2. source' = source
  BY DEF Grows
<1>3. \A key, kind : HasObject(globals, key, kind) =>
                      key \in DOMAIN globals' /\ globals'[key].kind = kind
  BY DEF Grows, HasObject
<1>4. ASSUME NEW j \in DOMAIN stack'[k].classes
      PROVE  /\ ClassDeclared(stack[k], stack[k].classes[j])'
             /\ errors' = {} => ClassGlobal(stack[k], stack[k].classes[j])'
  <2>1. PICK f, g, class : f = stack[i] /\ g = stack'[k] /\ class = stack'[k].classes[j]
    OBVIOUS
  <2>2. ClassDeclared(f, class) /\ (errors = {} => ClassGlobal(f, class))
    BY <1>4, <2>1 DEF ClassesInv
  <2>3. ClassDeclared(g, class)
    BY <2>1, <2>2, ClassStays
  <2>4. ClassDeclared(stack[k], stack[k].classes[j])'
    BY <1>2, <2>1, <2>3 DEF ClassDeclared
  <2>5. ASSUME errors' = {} PROVE ClassGlobal(stack[k], stack[k].classes[j])'
    <3>1. ClassGlobal(f, class) /\ g.lib = f.lib
      BY <1>1, <2>1, <2>2, <2>5
    <3>2. class.kind \in GlobalKinds =>
            /\ <<g.lib, class.name>> \in DOMAIN globals'
            /\ globals'[<<g.lib, class.name>>].kind = class.kind
      BY <1>3, <3>1 DEF ClassGlobal
    <3>3. QED
      BY <2>1, <3>2 DEF ClassGlobal, HasObject
  <2>6. QED
    BY <2>4, <2>5
<1>5. QED
  BY <1>4

LEMMA ClassesStep == TypeInv /\ ClassesInv /\ [Next]_vars => ClassesInv'
<1> SUFFICES ASSUME TypeInv, ClassesInv, [Next]_vars PROVE ClassesInv'
  OBVIOUS
<1> DEFINE n == Len(stack)
<1>1. Grows /\ n \in Nat /\ \A i \in 1 .. n : stack[i].pos \in Nat
  BY StepGrows, StackDomain DEF TypeInv, Frames
<1>2. CASE stack' = stack
  BY <1>1, <1>2, ClassesPersist DEF ClassesInv
<1>3. CASE Generate
  <2>1. stack' = <<NewFrame(command.library, Main, IF Prelude THEN 0 ELSE 1)>>
    BY <1>3 DEF Generate
  <2>2. Len(stack') = 1 /\ stack'[1].classes = <<>>
    BY <2>1 DEF NewFrame
  <2>3. QED
    BY <2>2 DEF ClassesInv
<1>4. CASE Running /\ stack' = Advance(stack)
  <2>1. /\ n > 0 /\ Len(stack') = n
        /\ \A i \in 1 .. n - 1 : stack'[i] = stack[i]
        /\ stack'[n] = [stack[n] EXCEPT !.pos = @ + 1]
        /\ stack[n] \in Frames
    BY <1>4, RunningTop, AdvanceShape
  <2>2. \A i \in 1 .. n : /\ stack'[i].lib = stack[i].lib
                           /\ stack'[i].file = stack[i].file
                           /\ stack'[i].pos \in {stack[i].pos, stack[i].pos + 1}
                           /\ stack'[i].classes = stack[i].classes
    BY <1>1, <2>1 DEF Frames
  <2>3. QED
    BY <1>1, <2>1, <2>2, ClassesPersist DEF ClassesInv
<1>5. CASE ReturnToCaller
  <2>1. /\ n > 1 /\ Len(stack') = n - 1
        /\ \A i \in 1 .. n - 2 : stack'[i] = stack[i]
        /\ stack'[n - 1] = [stack[n - 1] EXCEPT !.pos = @ + 1]
        /\ stack[n - 1] \in Frames
    <3>1. Running /\ n > 1 /\ stack' = Returned(stack)
      BY <1>5 DEF ReturnToCaller
    <3>2. stack \in Seq(Frames) /\ stack[n - 1] \in Frames
      BY <1>1, <3>1, RunningTop, StackDomain DEF TypeInv
    <3>3. QED
      BY <3>1, <3>2, ReturnShape
  <2>2. \A i \in 1 .. n - 1 : /\ stack'[i].lib = stack[i].lib
                               /\ stack'[i].file = stack[i].file
                               /\ stack'[i].pos \in {stack[i].pos, stack[i].pos + 1}
                               /\ stack'[i].classes = stack[i].classes
    BY <1>1, <2>1 DEF Frames
  <2>3. \A i \in 1 .. n - 1 : i \in 1 .. n
    BY <1>1
  <2>4. QED
    BY <1>1, <2>1, <2>2, <2>3, ClassesPersist DEF ClassesInv
<1>6. CASE EnterPackageFile
  <2>1. /\ MustParse /\ Running /\ stack \in Seq(Frames)
        /\ stack' = Append(stack, NewFrame(Item.lib, PackagePath, 1))
    BY <1>6, RunningTop DEF EnterPackageFile, MustParse, Missing, AtUse
  <2>2. PackagePath \in Paths /\ Item \in Uses
    BY <2>1, PackagePathIsPath
  <2>3. NewFrame(Item.lib, PackagePath, 1) \in Frames
    BY <2>2, EmptySeq DEF NewFrame, Frames, Uses
  <2>4. /\ Len(stack') = n + 1
        /\ \A i \in 1 .. n : stack'[i] = stack[i]
        /\ stack'[n + 1].classes = <<>>
    BY <2>1, <2>3, AppendProperties DEF NewFrame
  <2>5. ASSUME NEW k \in 1 .. n + 1, NEW j \in DOMAIN stack'[k].classes
        PROVE  /\ ClassDeclared(stack[k], stack[k].classes[j])'
               /\ errors' = {} => ClassGlobal(stack[k], stack[k].classes[j])'
    <3>1. CASE k = n + 1
      BY <2>4, <3>1
    <3>2. CASE k # n + 1
      <4>1. k \in 1 .. n /\ stack'[k] = stack[k]
        BY <1>1, <2>4, <3>2
      <4>2. QED
        BY <1>1, <4>1, <2>5, ClassesPersist
    <3>3. QED
      BY <3>1, <3>2
  <2>6. QED
    BY <2>4, <2>5 DEF ClassesInv
<1>7. CASE DeclarePackage \/ DeclareEntity \/ DeclarePackageBody \/ DeclareArchitecture
  <2> DEFINE class == ClassOf(Top)
  <2>1. /\ Running /\ ~AtEnd(Top) /\ Item.kind # "use"
        /\ stack' = AddClass(stack, class)
    BY <1>7 DEF DeclarePackage, DeclareEntity, DeclarePackageBody, DeclareArchitecture,
                AtUnit, DeclareGlobalUnit
  <2>2. /\ Top = stack[n] /\ Top \in Frames /\ n > 0 /\ FrameOK(Top)
        /\ SourceTree(source) /\ stack \in Seq(Frames) /\ stack # <<>>
    BY <2>1, RunningTop
  <2>3. Item \in Units /\ class \in Classes /\ class.kind = Item.kind
    BY <2>1, UnitFacts
  <2>4. /\ Len(stack') = n
        /\ \A i \in 1 .. n - 1 : stack'[i] = stack[i]
        /\ stack'[n].lib = Top.lib /\ stack'[n].file = Top.file
        /\ stack'[n].pos = Top.pos + 1
        /\ stack'[n].classes = Append(Top.classes, class)
    BY <2>1, <2>2, <2>3, AddClassShape, WithClassIsFrame
  <2>5. /\ class.unit = Top.pos /\ class.name = Item.name
        /\ Top.pos \in DOMAIN source[Top.file] /\ Top.pos # 0
    <3>1. Top.pos \in DOMAIN source[Top.file]
      BY <2>1, <2>2, ItemTypes DEF Item
    <3>2. source[Top.file] \in Seq(Uses \cup Units)
      BY <2>2 DEF SourceTree, FrameOK, Frames
    <3>3. QED
      BY <3>1, <3>2, LenProperties DEF ClassOf, Item
  <2>6. Item = source[Top.file][Top.pos]
    BY <2>5 DEF Item, ItemAt
  <2>7. ClassDeclared(stack'[n], class)
    <3>1. Top.pos \in 1 .. stack'[n].pos - 1
      BY <2>2, <2>4, <2>5 DEF Frames
    <3>2. QED
      BY <2>3, <2>4, <2>5, <2>6, <3>1 DEF ClassDeclared
  <2>8. errors' = {} /\ class.kind \in GlobalKinds =>
          HasObject(globals', <<Top.lib, class.name>>, class.kind)
    <3>1. SUFFICES ASSUME errors' = {}, class.kind \in GlobalKinds
                   PROVE  HasObject(globals', <<Top.lib, class.name>>, class.kind)
      OBVIOUS
    <3>2. DeclareGlobalUnit
      BY <1>7, <2>3, <3>1 DEF DeclarePackage, DeclareEntity, DeclarePackageBody,
                              DeclareArchitecture, AtUnit, GlobalKinds
    <3>3. /\ <<Top.lib, class.name>> \in DOMAIN globals'
          /\ globals'[<<Top.lib, class.name>>] = EntryFor(Top, class)
      BY <2>1, <2>3, <3>1, <3>2, GlobalizeGrows
    <3>4. QED
      BY <3>3 DEF HasObject, EntryFor
  <2>9. /\ Top.classes \in Seq(Classes) /\ DOMAIN Top.classes = 1 .. Len(Top.classes)
        /\ Len(Top.classes) \in Nat
        /\ Append(Top.classes, class) \in Seq(Classes)
        /\ DOMAIN Append(Top.classes, class) = 1 .. Len(Top.classes) + 1
        /\ \A j \in 1 .. Len(Top.classes) : Append(Top.classes, class)[j] = Top.classes[j]
        /\ Append(Top.classes, class)[Len(Top.classes) + 1] = class
    BY <2>2, <2>3, AppendProperties, LenProperties DEF Frames
  <2> HIDE DEF class
  <2>10. errors' = {} => errors = {}
    BY <1>1 DEF Grows
  <2>11. \A key, kind : HasObject(globals, key, kind) => HasObject(globals', key, kind)
    BY <1>1 DEF Grows, HasObject
  <2>12. ASSUME NEW k \in 1 .. n, NEW j \in DOMAIN stack'[k].classes
         PROVE  /\ ClassDeclared(stack[k], stack[k].classes[j])'
                /\ errors' = {} => ClassGlobal(stack[k], stack[k].classes[j])'
    <3>1. CASE k # n
      <4>1. stack'[k] = stack[k]
        BY <1>1, <2>4, <3>1
      <4>2. QED
        BY <1>1, <4>1, <2>12, ClassesPersist
    <3>2. CASE k = n /\ j = Len(Top.classes) + 1
      BY <1>1, <2>4, <2>7, <2>8, <2>9, <3>2 DEF ClassDeclared, ClassGlobal, Grows
    <3>3. CASE k = n /\ j # Len(Top.classes) + 1
      <4>1. j \in DOMAIN Top.classes /\ stack'[k].classes[j] = Top.classes[j]
        BY <2>4, <2>9, <2>12, <3>3
      <4>2. /\ ClassDeclared(Top, Top.classes[j])
            /\ errors = {} => ClassGlobal(Top, Top.classes[j])
        BY <1>1, <2>2, <4>1 DEF ClassesInv
      <4>3. ClassDeclared(stack'[n], Top.classes[j])
        BY <2>2, <2>4, <4>2, ClassStays DEF Frames
      <4>4. QED
        BY <1>1, <2>4, <2>10, <2>11, <3>3, <4>1, <4>2, <4>3 DEF ClassDeclared, ClassGlobal, Grows
    <3>4. QED
      BY <3>1, <3>2, <3>3
  <2>13. QED
    BY <2>4, <2>12 DEF ClassesInv
<1>8. QED
  BY <1>2, <1>3, <1>4, <1>5, <1>6, <1>7
     DEF Next, Step, Stopped, vars, Missing, AtUse, UseKnown, UseOfUnknownLibrary,
         UseOfUnknownPackage, UseOfOwnFile, UseFails, EnterUnreadableFile, ExhaustStack,
         UseOfOperatorSymbol,
         Finish, SkipPackageBody, AtUnit

-----------------------------------------------------------------------------
(* Everything passed is settled, or an error was reported.                 *)

LEMMA SettledPersists ==
  ASSUME Grows, NEW lib, NEW path, NEW pos
  PROVE  /\ ItemAt(path, pos)' = ItemAt(path, pos)
         /\ SettledItem(lib, path, pos) => SettledItem(lib, path, pos)'
<1>1. ItemAt(path, pos)' = ItemAt(path, pos)
  BY DEF Grows, ItemAt
<1>2. \A key, kind : HasObject(globals, key, kind) => HasObject(globals', key, kind)
  BY DEF Grows, HasObject
<1>3. ASSUME NEW u, SettledUse(path, u) PROVE SettledUse(path, u)'
  BY <1>3 DEF Grows, SettledUse, KeyOf
<1>4. ASSUME NEW u, SettledUnit(lib, u) PROVE SettledUnit(lib, u)'
  BY <1>2, <1>4 DEF SettledUnit
<1>5. QED
  BY <1>1, <1>3, <1>4 DEF SettledItem

\* A use clause that ends without an error is settled.
LEMMA ConcludedUseSettled ==
  ASSUME TypeInv, ClassesInv, UNCHANGED inputs, NEW i \in 1 .. Len(stack),
         NEW f, f = stack[i], AtUseClause(f), NEW reported,
         ConcludeUse(f, ItemAt(f.file, f.pos), reported), errors' = {}
  PROVE  SettledItem(f.lib, f.file, f.pos)'
<1> DEFINE u == ItemAt(f.file, f.pos)
<1>1. Grows /\ u.kind = "use"
  BY ConcludeUseGrows DEF AtUseClause
<1>2. FoundFor(f, u) /\ KeyOf(u) \in DOMAIN globals
  BY DEF ConcludeUse, UseErrors, SetVisibleFinds
<1>3. SettledUse(f.file, u)
  <2>1. CASE HasObject(globals, <<u.lib, u.name>>, "package")
    BY <1>2, <2>1 DEF SettledUse, HasObject, KeyOf
  <2>2. CASE u.lib = WORK /\ Declares(f, u.name, "package")
    <3>1. PICK j \in DOMAIN f.classes :
            f.classes[j].name = u.name /\ f.classes[j].kind = "package"
      BY <2>2 DEF Declares
    <3>2. ClassDeclared(f, f.classes[j])
      BY DEF ClassesInv
    <3>3. QED
      BY <1>2, <2>2, <3>1, <3>2 DEF SettledUse, ClassDeclared
  <2>3. QED
    BY <1>2, <2>1, <2>2 DEF FoundFor, FindObject
<1>4. SettledItem(f.lib, f.file, f.pos)
  BY <1>1, <1>3 DEF SettledItem
<1>5. QED
  BY <1>1, <1>4, SettledPersists

StackSettled == \A i \in DOMAIN stack : \A pos \in Passed(i) :
                  SettledItem(stack[i].lib, stack[i].file, pos)
ParsedSettled == \A w \in parsed : \A pos \in DOMAIN source[w[2]] :
                   SettledItem(w[1], w[2], pos)

LEMMA SettledParts == SettledOrReported <=> (errors = {} => StackSettled /\ ParsedSettled)
BY DEF SettledOrReported, StackSettled, ParsedSettled

\* Frame m of the new stack has passed one unit more, and that unit is
\* settled; the frames below it are as they were and those above are gone.
LEMMA StackSettledAfterMove ==
  ASSUME TypeInv, StackSettled, Grows, NEW m \in 1 .. Len(stack), NEW f, f = stack[m],
         SettledItem(f.lib, f.file, f.pos)',
         DOMAIN stack' = 1 .. m, \A i \in 1 .. m - 1 : stack'[i] = stack[i],
         stack'[m].lib = f.lib, stack'[m].file = f.file, stack'[m].pos = f.pos + 1
  PROVE  StackSettled'
<1>1. /\ Len(stack) \in Nat /\ m \in Nat /\ DOMAIN stack = 1 .. Len(stack)
      /\ \A i \in 1 .. Len(stack) : stack[i] \in Frames
  BY StackDomain DEF TypeInv
<1>2. command' = command /\ f.pos \in Nat
  BY <1>1 DEF Grows, Frames
<1>3. SUFFICES ASSUME NEW i \in 1 .. m, NEW pos \in Passed(i)',
                      NEW lib, lib = stack'[i].lib, NEW path, path = stack'[i].file
               PROVE  SettledItem(lib, path, pos)'
  BY DEF StackSettled
<1>4. CASE i # m
  <2>1. stack'[i] = stack[i] /\ i \in 1 .. Len(stack)
    BY <1>1, <1>4
  <2>2. pos \in Passed(i)
    BY <1>2, <2>1 DEF Passed, Prelude
  <2>3. SettledItem(lib, path, pos)
    BY <1>1, <1>3, <2>1, <2>2 DEF StackSettled
  <2>4. QED
    BY <2>3, SettledPersists
<1>5. CASE i = m
  <2>1. lib = f.lib /\ path = f.file
    BY <1>3, <1>5
  <2>2. pos = f.pos \/ pos \in Passed(m)
    BY <1>2, <1>5 DEF Passed, Prelude
  <2>3. CASE pos = f.pos
    BY <2>1, <2>3
  <2>4. CASE pos \in Passed(m)
    <3>1. SettledItem(lib, path, pos)
      BY <1>1, <2>1, <2>4 DEF StackSettled
    <3>2. QED
      BY <3>1, SettledPersists
  <2>5. QED
    BY <2>2, <2>3, <2>4
<1>6. QED
  BY <1>4, <1>5

\* A file that was walked to its end is settled as its last frame was.
LEMMA ParsedSettledAfterEnd ==
  ASSUME TypeInv, StackSettled, ParsedSettled, Grows, Running, AtEnd(Top),
         parsed' = parsed \cup {<<Top.lib, Top.file>>}
  PROVE  ParsedSettled'
<1>1. /\ Len(stack) \in 1 .. Len(stack) /\ Len(stack) \in DOMAIN stack
      /\ Top = stack[Len(stack)] /\ Top \in Frames /\ FrameOK(Top)
      /\ source[Top.file] \in Seq(Uses \cup Units)
  BY RunningTop, StackDomain DEF TypeInv, TypeOK, SourceTree, FrameOK, Frames
<1>2. source' = source
  BY DEF Grows
<1>3. SUFFICES ASSUME NEW w \in parsed', NEW pos \in DOMAIN source[w[2]]
               PROVE  SettledItem(w[1], w[2], pos)'
  BY <1>2 DEF ParsedSettled
<1>4. CASE w \in parsed
  BY <1>4, SettledPersists DEF ParsedSettled
<1>5. CASE w = <<Top.lib, Top.file>>
  <2>1. /\ Len(source[Top.file]) \in Nat /\ Top.pos \in Nat
        /\ DOMAIN source[Top.file] = 1 .. Len(source[Top.file])
    BY <1>1, LenProperties DEF Frames
  <2>2. pos \in Passed(Len(stack))
    BY <1>1, <1>5, <2>1 DEF Passed, AtEnd
  <2>3. SettledItem(w[1], w[2], pos)
    BY <1>1, <1>5, <2>2 DEF StackSettled
  <2>4. QED
    BY <2>3, SettledPersists
<1>6. QED
  BY <1>4, <1>5

LEMMA ParsedSettledKept ==
  ASSUME ParsedSettled, Grows, parsed' = parsed
  PROVE  ParsedSettled'
<1>1. source' = source
  BY DEF Grows
<1>2. SUFFICES ASSUME NEW w \in parsed', NEW pos \in DOMAIN source[w[2]]
               PROVE  SettledItem(w[1], w[2], pos)'
  BY <1>1 DEF ParsedSettled
<1>3. QED
  BY SettledPersists DEF ParsedSettled

\* A step that moves the running file on keeps everything settled if it
\* settles the unit at hand.
LEMMA SettledAfterMove ==
  ASSUME TypeInv, StackSettled, ParsedSettled, Grows, Running, MovedOn(stack, stack'),
         parsed' = parsed, NEW f, f = Top, SettledItem(f.lib, f.file, f.pos)'
  PROVE  StackSettled' /\ ParsedSettled'
<1>1. /\ Len(stack) \in 1 .. Len(stack) /\ f = stack[Len(stack)]
  BY RunningTop
<1>2. DOMAIN stack' = 1 .. Len(stack)
  BY LenProperties DEF MovedOn
<1>3. StackSettled'
  BY <1>1, <1>2, StackSettledAfterMove DEF MovedOn
<1>4. QED
  BY <1>3, ParsedSettledKept

\* The three kinds of unit that are not use clauses.
LEMMA UnitSettled ==
  ASSUME TypeInv, ClassesInv, errors' = {}, NEW f, f = Top,
         \/ DeclarePackage \/ DeclareEntity \/ DeclarePackageBody
         \/ SkipPackageBody \/ DeclareArchitecture
  PROVE  SettledItem(f.lib, f.file, f.pos)'
<1> DEFINE u == ItemAt(f.file, f.pos)
<1>1. Grows
  <2>1. [Next]_vars
    BY DEF Next, Step
  <2>2. QED
    BY <2>1, StepGrows
<1>2. /\ Running /\ ~AtEnd(Top) /\ u.kind # "use" /\ u = Item
      /\ Top = stack[Len(stack)] /\ Len(stack) \in 1 .. Len(stack)
  <2>1. Running /\ ~AtEnd(Top) /\ Item.kind # "use"
    BY DEF DeclarePackage, DeclareEntity, DeclarePackageBody,
           SkipPackageBody, DeclareArchitecture, AtUnit
  <2>2. QED
    BY <2>1, RunningTop DEF Item
<1>3. u' = u
  BY <1>1, SettledPersists
<1>8. SUFFICES SettledUnit(f.lib, u)'
  <2>1. u'.kind # "use"
    BY <1>2, <1>3
  <2>2. QED
    BY <2>1 DEF SettledItem
<1>4. CASE DeclarePackage \/ DeclareEntity
  <2>1. DeclareGlobalUnit /\ Item.kind \in GlobalKinds
    BY <1>4 DEF DeclarePackage, DeclareEntity, AtUnit, GlobalKinds
  <2>2. ClassOf(Top).kind = u.kind /\ ClassOf(Top).name = u.name
    BY <1>2 DEF ClassOf, Item
  <2>3. /\ <<f.lib, u.name>> \in DOMAIN globals'
        /\ globals'[<<f.lib, u.name>>] = EntryFor(Top, ClassOf(Top))
    BY <1>2, <2>1, <2>2, GlobalizeGrows
  <2>4. globals'[<<f.lib, u.name>>].kind = u.kind
    BY <2>2, <2>3 DEF EntryFor
  <2>5. u' = u
    BY <1>1, SettledPersists
  <2>6. QED
    BY <1>2, <2>1, <2>3, <2>4, <2>5 DEF SettledUnit, HasObject, GlobalKinds
<1>5. CASE DeclarePackageBody \/ SkipPackageBody
  <2>1. u.kind = "body" /\ u' = u
    BY <1>1, <1>2, <1>5, SettledPersists DEF DeclarePackageBody, SkipPackageBody, AtUnit
  <2>2. QED
    BY <2>1 DEF SettledUnit
<1>6. CASE DeclareArchitecture
  <2>1. /\ u.kind = "architecture" /\ u' = u /\ errors = {}
        /\ FindObject(Top, Top.lib, u.name, "entity")
    BY <1>1, <1>2, <1>6, SettledPersists DEF DeclareArchitecture, AtUnit, Grows
  <2>2. HasObject(globals, <<f.lib, u.name>>, "entity")
    <3>1. CASE Declares(Top, u.name, "entity")
      <4>1. PICK j \in DOMAIN Top.classes :
              Top.classes[j].name = u.name /\ Top.classes[j].kind = "entity"
        BY <3>1 DEF Declares
      <4>2. ClassGlobal(Top, Top.classes[j])
        BY <1>2, <2>1 DEF ClassesInv
      <4>3. QED
        BY <4>1, <4>2 DEF ClassGlobal, GlobalKinds
    <3>2. QED
      BY <2>1, <3>1 DEF FindObject
  <2>3. HasObject(globals', <<f.lib, u.name>>, "entity")
    BY <1>1, <2>2 DEF Grows, HasObject
  <2>4. QED
    BY <2>1, <2>3 DEF SettledUnit
<1>7. QED
  BY <1>4, <1>5, <1>6

LEMMA SettledStep ==
  TypeInv /\ ClassesInv /\ SettledOrReported /\ [Next]_vars => SettledOrReported'
<1> SUFFICES ASSUME TypeInv, ClassesInv, SettledOrReported, [Next]_vars, errors' = {}
             PROVE  StackSettled' /\ ParsedSettled'
  BY SettledParts DEF SettledOrReported, StackSettled, ParsedSettled
<1> DEFINE n == Len(stack)
<1>1. Grows /\ StackSettled /\ ParsedSettled
  BY StepGrows, SettledParts DEF Grows
<1>2. CASE stack' = stack /\ parsed' = parsed
  <2>1. \A i : Passed(i)' = Passed(i)
    BY <1>1, <1>2 DEF Passed, Prelude, Grows
  <2>2. StackSettled'
    BY <1>1, <1>2, <2>1, SettledPersists DEF StackSettled
  <2>3. QED
    BY <1>1, <1>2, <2>2, ParsedSettledKept
<1>3. CASE Generate
  <2>1. stack' = <<NewFrame(command.library, Main, IF Prelude THEN 0 ELSE 1)>>
    BY <1>3 DEF Generate
  <2>2. DOMAIN stack' = {1} /\ stack'[1].pos = IF Prelude THEN 0 ELSE 1
    BY <2>1 DEF NewFrame
  <2>3. Passed(1)' = {}
    BY <1>1, <2>2 DEF Passed, Prelude, Grows
  <2>4. QED
    BY <1>1, <1>3, <2>2, <2>3, ParsedSettledKept DEF StackSettled, Generate
<1>4. CASE AtUse /\ \E reported : ConcludeUse(Top, Item, reported)
           /\ stack' = Advance(stack) /\ UNCHANGED <<inputs, parsed>>
  <2>1. PICK reported : ConcludeUse(Top, Item, reported)
    BY <1>4
  <2>2. /\ Running /\ AtUseClause(Top) /\ Top = stack[n] /\ n \in 1 .. n
        /\ Item = ItemAt(Top.file, Top.pos)
    BY <1>4, RunningTop DEF AtUse, AtUseClause, Item
  <2>3. PICK f : f = Top
    OBVIOUS
  <2>4. SettledItem(f.lib, f.file, f.pos)'
    BY <1>4, <2>1, <2>2, <2>3, ConcludedUseSettled
  <2>5. QED
    BY <1>1, <1>4, <2>2, <2>3, <2>4, AdvanceMovesOn, SettledAfterMove
<1>5. CASE \/ DeclarePackage \/ DeclareEntity \/ DeclarePackageBody
           \/ SkipPackageBody \/ DeclareArchitecture
  <2>1. PICK f : f = Top
    OBVIOUS
  <2>2. SettledItem(f.lib, f.file, f.pos)'
    BY <1>5, <2>1, UnitSettled
  <2>3. /\ Running /\ ~AtEnd(Top) /\ Item.kind # "use" /\ parsed' = parsed
        /\ stack' = Advance(stack) \/ stack' = AddClass(stack, ClassOf(Top))
    BY <1>5 DEF DeclarePackage, DeclareEntity, DeclarePackageBody, SkipPackageBody,
                DeclareArchitecture, AtUnit, DeclareGlobalUnit
  <2>4. MovedOn(stack, stack')
    BY <2>3, AdvanceMovesOn, AddClassMovesOn
  <2>5. QED
    BY <1>1, <2>1, <2>2, <2>3, <2>4, SettledAfterMove
<1>6. CASE EnterPackageFile
  <2>0. PICK k : k = Len(stack)
    OBVIOUS
  <2>1. /\ MustParse /\ Running /\ stack \in Seq(Frames) /\ k \in Nat /\ k > 0
        /\ stack' = Append(stack, NewFrame(Item.lib, PackagePath, 1))
    BY <1>6, <2>0, RunningTop DEF EnterPackageFile, MustParse, Missing, AtUse
  <2>2. PackagePath \in Paths /\ Item \in Uses
    BY <2>1, PackagePathIsPath
  <2>3. NewFrame(Item.lib, PackagePath, 1) \in Frames
    BY <2>2, EmptySeq DEF NewFrame, Frames, Uses
  <2>4. /\ DOMAIN stack' = 1 .. k + 1
        /\ \A i \in 1 .. k : stack'[i] = stack[i]
        /\ stack'[k + 1].pos = 1
    BY <2>0, <2>1, <2>3, AppendProperties, LenProperties DEF NewFrame
  <2>5. Passed(k + 1)' = {}
    BY <1>1, <2>1, <2>4 DEF Passed, Prelude, Grows
  <2>6. \A i \in 1 .. k : Passed(i)' = Passed(i)
    BY <1>1, <2>4 DEF Passed, Prelude, Grows
  <2>7. ASSUME NEW i \in 1 .. k, NEW pos \in Passed(i),
               NEW lib, lib = stack[i].lib, NEW path, path = stack[i].file
        PROVE  SettledItem(lib, path, pos)'
    <3>1. SettledItem(lib, path, pos)
      BY <1>1, <2>0, <2>1, <2>7, LenProperties DEF StackSettled
    <3>2. QED
      BY <1>1, <3>1, SettledPersists
  <2>8. StackSettled'
    <3>1. SUFFICES ASSUME NEW i \in DOMAIN stack', NEW pos \in Passed(i)'
                   PROVE  SettledItem(stack[i].lib, stack[i].file, pos)'
      BY DEF StackSettled
    <3>2. i \in 1 .. k /\ pos \in Passed(i) /\ stack'[i] = stack[i]
      BY <2>1, <2>4, <2>5, <2>6
    <3>3. PICK lib, path : lib = stack[i].lib /\ path = stack[i].file
      OBVIOUS
    <3>4. SettledItem(lib, path, pos)'
      BY <2>7, <3>2, <3>3
    <3>5. QED
      BY <3>2, <3>3, <3>4
  <2>9. QED
    BY <1>1, <1>6, <2>8, ParsedSettledKept DEF EnterPackageFile
<1>7. CASE ReturnToCaller
  <2>1. /\ Running /\ n \in Nat /\ n > 1 /\ AtEnd(Top) /\ stack \in Seq(Frames)
        /\ stack' = Returned(stack) /\ UNCHANGED inputs
        /\ parsed' = parsed \cup {<<Top.lib, Top.file>>}
    BY <1>7, RunningTop DEF ReturnToCaller
  <2>2. /\ n - 1 \in 1 .. n - 1 /\ n - 1 \in 1 .. n
        /\ stack[n - 1] \in Frames /\ AtUseClause(stack[n - 1])
    BY <2>1, StackDomain DEF TypeInv, CallersWait
  <2>3. PICK f : f = stack[n - 1]
    OBVIOUS
  <2>4. /\ ConcludeUse(f, ItemAt(f.file, f.pos), {})
    BY <1>7, <2>3 DEF ReturnToCaller, Caller
  <2>5. SettledItem(f.lib, f.file, f.pos)'
    BY <2>1, <2>2, <2>3, <2>4, ConcludedUseSettled
  <2>6. /\ DOMAIN stack' = 1 .. n - 1 /\ \A i \in 1 .. n - 2 : stack'[i] = stack[i]
        /\ stack'[n - 1] = [f EXCEPT !.pos = @ + 1]
    BY <2>1, <2>3, ReturnShape, LenProperties
  <2>7. /\ stack'[n - 1].lib = f.lib /\ stack'[n - 1].file = f.file
        /\ stack'[n - 1].pos = f.pos + 1
    BY <2>2, <2>3, <2>6 DEF Frames
  <2>8. \A i \in 1 .. (n - 1) - 1 : stack'[i] = stack[i]
    BY <2>1, <2>6
  <2>9. StackSettled'
    BY <1>1, <2>2, <2>3, <2>5, <2>6, <2>7, <2>8, StackSettledAfterMove
  <2>10. QED
    BY <1>1, <2>1, <2>9, ParsedSettledAfterEnd
<1>8. CASE Finish
  <2>1. \A i : Passed(i)' = Passed(i)
    BY <1>1, <1>8 DEF Finish, Passed, Prelude, Grows
  <2>2. StackSettled'
    BY <1>1, <1>8, <2>1, SettledPersists DEF Finish, StackSettled
  <2>3. QED
    BY <1>1, <1>8, <2>2, ParsedSettledAfterEnd DEF Finish
<1>9. QED
  BY <1>2, <1>3, <1>4, <1>5, <1>6, <1>7, <1>8
     DEF Next, Step, Stopped, vars, Missing, UseKnown, UseOfUnknownLibrary,
         UseOfUnknownPackage, UseOfOwnFile, UseFails, EnterUnreadableFile,
         ExhaustStack, UseOfOperatorSymbol

\* In every run, whatever the files contain and however their use clauses
\* refer to each other, either an error is reported or everything the compiler
\* has passed hangs together: exit code 0 is never given to a program with a
\* use clause of a missing package, a lost package or entity, or an
\* architecture without its entity (hdlc.cpp:92, includes.cpp:18-26).
THEOREM ExitCodeSound == Spec => []SettledOrReported
<1>1. Init => ClassesInv /\ SettledOrReported
  BY EmptySeq DEF Init, ClassesInv, SettledOrReported
<1>2. TypeInv /\ ClassesInv /\ SettledOrReported /\ [Next]_vars
        => ClassesInv' /\ SettledOrReported'
  BY ClassesStep, SettledStep
<1>3. QED
  BY <1>1, <1>2, TypeInvAlways, PTL DEF Spec

-----------------------------------------------------------------------------
(* What a step does to the stack and to the files walked.                  *)

\* Nothing was done before Generate.
Fresh == status = "starting" => stack = <<>> /\ parsed = {} /\ listed = {}

LEMMA FreshAlways == Spec => []Fresh
<1>1. Init => Fresh
  BY DEF Init, Fresh
<1>2. Fresh /\ [Next]_vars => Fresh'
  <2> SUFFICES ASSUME Fresh, [Next]_vars PROVE Fresh'
    OBVIOUS
  <2>1. CASE UNCHANGED vars
    BY <2>1 DEF vars, output, Fresh
  <2>2. CASE Next /\ ~ UNCHANGED vars
    <3>1. status' # "starting"
      BY <2>2 DEF Next, Step, Stopped, Generate, UseKnown, UseOfUnknownLibrary,
         UseOfUnknownPackage, UseOfOwnFile, UseFails, EnterPackageFile,
         EnterUnreadableFile, ExhaustStack, UseOfOperatorSymbol, ReturnToCaller,
         Finish, DeclarePackage,
         DeclareEntity, DeclarePackageBody, SkipPackageBody, DeclareArchitecture,
         DeclareGlobalUnit, Missing, MustParse, AtUse, AtUnit, Running
    <3>2. QED
      BY <3>1 DEF Fresh
  <2>3. QED
    BY <2>1, <2>2
<1>3. QED
  BY <1>1, <1>2, PTL DEF Spec

\* The frames below m stay, frame m moves on, and those above it are gone.
MovesFrame(m) ==
  /\ DOMAIN stack' = 1 .. m
  /\ \A i \in 1 .. m - 1 : stack'[i] = stack[i]
  /\ stack'[m].lib = stack[m].lib /\ stack'[m].file = stack[m].file
  /\ stack'[m].pos = stack[m].pos + 1

TopWalked == parsed' = parsed \cup {<<Top.lib, Top.file>>}

Still == UNCHANGED <<stack, parsed>> /\ (Running' => Running)

Starts ==
  /\ stack = <<>> /\ DOMAIN stack' = {1} /\ status = "starting"
  /\ stack'[1].lib = command.library /\ stack'[1].file = Main
  /\ stack'[1].pos = IF Prelude THEN 0 ELSE 1
  /\ parsed' = parsed

Moves ==
  /\ Running /\ ~AtEnd(Top)
  /\ MovesFrame(Len(stack))
  /\ parsed' = parsed

Enters ==
  /\ Running /\ ~AtEnd(Top) /\ Item.kind = "use"
  /\ DOMAIN stack' = 1 .. Len(stack) + 1
  /\ \A i \in 1 .. Len(stack) : stack'[i] = stack[i]
  /\ stack'[Len(stack) + 1].lib = Item.lib
  /\ stack'[Len(stack) + 1].file = PackagePath
  /\ stack'[Len(stack) + 1].pos = 1
  /\ parsed' = parsed
  /\ MustParse
  /\ KeyOf(Item) \in dependencies' /\ KeyOf(Item) \in Keys

Returns ==
  /\ Running /\ AtEnd(Top) /\ Len(stack) > 1
  /\ AtUseClause(stack[Len(stack) - 1])
  /\ MovesFrame(Len(stack) - 1)
  /\ TopWalked

Ends ==
  /\ Running /\ AtEnd(Top) /\ Len(stack) = 1
  /\ stack' = stack /\ ~Running'
  /\ TopWalked

LEMMA MovesOnMovesFrame ==
  ASSUME MovedOn(stack, stack')
  PROVE  MovesFrame(Len(stack))
BY LenProperties DEF MovedOn, MovesFrame

LEMMA StackStep ==
  ASSUME TypeInv, Fresh, [Next]_vars
  PROVE  Still \/ Starts \/ Moves \/ Enters \/ Returns \/ Ends
<1> DEFINE n == Len(stack)
<1>1. CASE UNCHANGED vars
  BY <1>1 DEF vars, Still, Running
<1>2. CASE Generate
  <2>1. /\ stack = <<>> /\ status = "starting" /\ parsed' = parsed
        /\ stack' = <<NewFrame(command.library, Main, IF Prelude THEN 0 ELSE 1)>>
    BY <1>2 DEF Generate, Fresh
  <2>2. QED
    BY <2>1 DEF NewFrame, Starts
<1>3. CASE UseKnown \/ UseOfUnknownLibrary \/ UseOfUnknownPackage \/ UseOfOwnFile
  <2>1. Running /\ ~AtEnd(Top) /\ stack' = Advance(stack) /\ parsed' = parsed
    BY <1>3 DEF UseKnown, UseOfUnknownLibrary, UseOfUnknownPackage, UseOfOwnFile,
       UseFails, Missing, AtUse
  <2>2. QED
    BY <2>1, AdvanceMovesOn, MovesOnMovesFrame DEF Moves
<1>4. CASE EnterPackageFile
  <2>1. /\ MustParse /\ Running /\ stack \in Seq(Frames) /\ n \in Nat /\ n > 0
        /\ stack' = Append(stack, NewFrame(Item.lib, PackagePath, 1))
        /\ ~AtEnd(Top) /\ Item.kind = "use"
    BY <1>4, RunningTop DEF EnterPackageFile, MustParse, Missing, AtUse
  <2>2. PackagePath \in Paths /\ Item \in Uses
    BY <2>1, PackagePathIsPath
  <2>3. NewFrame(Item.lib, PackagePath, 1) \in Frames
    BY <2>2, EmptySeq DEF NewFrame, Frames, Uses
  <2>4. /\ DOMAIN stack' = 1 .. n + 1
        /\ \A i \in 1 .. n : stack'[i] = stack[i]
        /\ stack'[n + 1] = NewFrame(Item.lib, PackagePath, 1)
    BY <2>1, <2>3, AppendProperties, LenProperties
  <2>5. KeyOf(Item) \in dependencies' /\ KeyOf(Item) \in Keys
    BY <1>4, <2>2 DEF EnterPackageFile, WriteDependency, KeyOf, Keys, Uses
  <2>6. parsed' = parsed
    BY <1>4 DEF EnterPackageFile
  <2>7. QED
    BY <2>1, <2>4, <2>5, <2>6 DEF NewFrame, Enters
<1>5. CASE EnterUnreadableFile \/ ExhaustStack \/ UseOfOperatorSymbol \/ Stopped
  BY <1>5 DEF EnterUnreadableFile, ExhaustStack, UseOfOperatorSymbol,
              Stopped, vars, Still, Running
<1>6. CASE ReturnToCaller
  <2>1. /\ Running /\ n \in Nat /\ n > 1 /\ AtEnd(Top) /\ stack \in Seq(Frames)
        /\ stack' = Returned(stack) /\ TopWalked
    BY <1>6, RunningTop DEF ReturnToCaller, TopWalked
  <2>2. /\ n - 1 \in 1 .. n /\ n - 1 \in 1 .. n - 1
        /\ stack[n - 1] \in Frames /\ AtUseClause(stack[n - 1])
    BY <2>1, StackDomain DEF TypeInv, CallersWait
  <2>3. /\ DOMAIN stack' = 1 .. n - 1 /\ \A i \in 1 .. (n - 1) - 1 : stack'[i] = stack[i]
        /\ stack'[n - 1] = [stack[n - 1] EXCEPT !.pos = @ + 1]
    BY <2>1, ReturnShape, LenProperties
  <2>4. MovesFrame(n - 1)
    BY <2>2, <2>3 DEF MovesFrame, Frames
  <2>5. QED
    BY <2>1, <2>2, <2>4 DEF Returns
<1>7. CASE Finish
  BY <1>7 DEF Finish, Ends, TopWalked, Running
<1>8. CASE \/ DeclarePackage \/ DeclareEntity \/ DeclarePackageBody
           \/ SkipPackageBody \/ DeclareArchitecture
  <2>1. /\ Running /\ ~AtEnd(Top) /\ Item.kind # "use" /\ parsed' = parsed
        /\ stack' = Advance(stack) \/ stack' = AddClass(stack, ClassOf(Top))
    BY <1>8 DEF DeclarePackage, DeclareEntity, DeclarePackageBody, SkipPackageBody,
                DeclareArchitecture, AtUnit, DeclareGlobalUnit
  <2>2. MovedOn(stack, stack')
    BY <2>1, AdvanceMovesOn, AddClassMovesOn
  <2>3. QED
    BY <2>1, <2>2, MovesOnMovesFrame DEF Moves
<1>9. QED
  BY <1>1, <1>2, <1>3, <1>4, <1>5, <1>6, <1>7, <1>8 DEF Next, Step

-----------------------------------------------------------------------------
(* The entries of the database.                                            *)

\* The file was walked, or is being walked, for the library.
Walked(lib, file) ==
  \/ <<lib, file>> \in parsed
  \/ \E i \in DOMAIN stack : stack[i].lib = lib /\ stack[i].file = file

LEMMA WalkedPersists ==
  ASSUME TypeInv, Fresh, [Next]_vars, NEW lib, NEW file, Walked(lib, file)
  PROVE  Walked(lib, file)'
<1> DEFINE n == Len(stack)
<1>1. n \in Nat /\ DOMAIN stack = 1 .. n /\ (Running => n > 0 /\ Top = stack[n])
  BY StackDomain, RunningTop DEF TypeInv
<1>2. CASE <<lib, file>> \in parsed
  <2>1. parsed \subseteq parsed'
    BY StackStep DEF Still, Starts, Moves, Enters, Returns, Ends, TopWalked
  <2>2. QED
    BY <1>2, <2>1 DEF Walked
<1>3. CASE \E i \in DOMAIN stack : stack[i].lib = lib /\ stack[i].file = file
  <2>1. PICK i \in 1 .. n : stack[i].lib = lib /\ stack[i].file = file
    BY <1>1, <1>3
  <2>2. CASE Still \/ Ends
    BY <1>1, <2>1, <2>2 DEF Still, Ends, Walked
  <2>3. CASE Starts
    BY <1>1, <2>1, <2>3, EmptySeq DEF Starts
  <2>4. CASE Moves
    <3>1. /\ DOMAIN stack' = 1 .. n
          /\ stack'[i].lib = lib /\ stack'[i].file = file
      BY <1>1, <2>1, <2>4 DEF Moves, MovesFrame
    <3>2. QED
      BY <2>1, <3>1 DEF Walked
  <2>5. CASE Enters
    <3>1. i \in DOMAIN stack' /\ stack'[i].lib = lib /\ stack'[i].file = file
      BY <1>1, <2>1, <2>5 DEF Enters
    <3>2. QED
      BY <2>1, <3>1 DEF Walked
  <2>6. CASE Returns
    <3>1. CASE i = n
      BY <1>1, <2>1, <2>6, <3>1 DEF Returns, TopWalked, Walked
    <3>2. CASE i # n
      <4>1. MovesFrame(n - 1) /\ n \in Nat /\ i \in 1 .. n
        BY <1>1, <2>6 DEF Returns
      <4>2. i \in 1 .. n - 1 /\ (i = n - 1 \/ i \in 1 .. (n - 1) - 1)
        BY <3>2, <4>1
      <4>3. i \in DOMAIN stack' /\ stack'[i].lib = lib /\ stack'[i].file = file
        BY <2>1, <4>1, <4>2 DEF MovesFrame
      <4>4. QED
        BY <4>3 DEF Walked
    <3>3. QED
      BY <3>1, <3>2
  <2>7. QED
    BY <2>2, <2>3, <2>4, <2>5, <2>6, StackStep
<1>4. QED
  BY <1>2, <1>3 DEF Walked

\* A use clause makes visible only what the package declares.
LEMMA VisibleStep ==
  ASSUME TypeInv, [Next]_vars, NEW key \in DOMAIN globals
  PROVE  globals'[key].visible \subseteq globals[key].visible \cup globals[key].declares
<1>1. IsDatabase(globals) /\ globals[key] \in Entries(Origins)
  BY DEF TypeInv, TypeOK, IsDatabase
<1>2. ASSUME NEW f, NEW u, NEW reported, ConcludeUse(f, u, reported)
      PROVE  globals'[key].visible \subseteq globals[key].visible \cup globals[key].declares
  <2> DEFINE touched == [globals[key] EXCEPT !.visible = @ \cup SelectedBy(u.id, globals[key])]
  <2>1. \/ globals'[key] = globals[key]
        \/ globals'[key] = touched
    BY <1>2 DEF ConcludeUse, SetVisible
  <2>2. touched.visible = globals[key].visible \cup SelectedBy(u.id, globals[key])
    BY <1>1 DEF Entries
  <2>3. SelectedBy(u.id, globals[key]) \subseteq globals[key].declares
    BY DEF SelectedBy
  <2>4. QED
    BY <2>1, <2>2, <2>3
<1>3. CASE UseKnown \/ ReturnToCaller
  BY <1>2, <1>3 DEF UseKnown, ReturnToCaller
<1>4. CASE UseOfUnknownLibrary \/ UseOfUnknownPackage \/ UseOfOwnFile
  BY <1>2, <1>4 DEF UseOfUnknownLibrary, UseOfUnknownPackage, UseOfOwnFile, UseFails
<1>5. CASE DeclarePackage \/ DeclareEntity
  <2>1. globals'[key] = globals[key]
    BY <1>5, GlobalizeGrows DEF DeclarePackage, DeclareEntity, AtUnit, GlobalKinds
  <2>2. QED
    BY <2>1
<1>6. CASE \/ Generate \/ EnterPackageFile \/ EnterUnreadableFile \/ ExhaustStack
           \/ UseOfOperatorSymbol \/ Finish
           \/ DeclarePackageBody \/ SkipPackageBody \/ DeclareArchitecture
           \/ UNCHANGED vars
  <2>1. globals' = globals
    BY <1>6 DEF Generate, EnterPackageFile, EnterUnreadableFile,
              ExhaustStack, UseOfOperatorSymbol, Finish,
                DeclarePackageBody, SkipPackageBody, DeclareArchitecture, vars
  <2>2. QED
    BY <2>1
<1>7. QED
  BY <1>3, <1>4, <1>5, <1>6 DEF Next, Step, Stopped

\* The unit at hand, when it is not a use clause.
LEMMA UnitAtHand ==
  ASSUME TypeInv, Running, ~AtEnd(Top), Item.kind # "use"
  PROVE  /\ Item \in Units /\ Item = source[Top.file][Top.pos]
         /\ Top.pos \in DOMAIN source[Top.file] /\ Top.pos # 0
         /\ ClassOf(Top) = [kind |-> Item.kind, name |-> Item.name, unit |-> Top.pos,
                            declares |-> Item.declares]
<1>1. Top \in Frames /\ FrameOK(Top) /\ SourceTree(source)
  BY RunningTop
<1>2. Item \in Units /\ Top.pos \in DOMAIN source[Top.file]
  BY <1>1, ItemTypes DEF Item
<1>3. source[Top.file] \in Seq(Uses \cup Units)
  BY <1>1 DEF SourceTree, FrameOK, Frames
<1>4. Top.pos # 0
  BY <1>2, <1>3, LenProperties
<1>5. QED
  BY <1>2, <1>4 DEF Item, ItemAt, ClassOf

\* Which keys a step adds to the database.
LEMMA DomainStep ==
  ASSUME TypeInv, [Next]_vars
  PROVE  \/ DOMAIN globals' = DOMAIN globals
         \/ /\ Running /\ ~AtEnd(Top) /\ Item.kind \in GlobalKinds
            /\ stack' = AddClass(stack, ClassOf(Top))
            /\ <<Top.lib, Item.name>> \notin DOMAIN globals
            /\ DOMAIN globals' = DOMAIN globals \cup {<<Top.lib, Item.name>>}
            /\ globals'[<<Top.lib, Item.name>>] = EntryFor(Top, ClassOf(Top))
<1>1. IsDatabase(globals)
  BY DEF TypeInv, TypeOK
<1>2. ASSUME NEW f, NEW u, NEW reported, ConcludeUse(f, u, reported)
      PROVE  DOMAIN globals' = DOMAIN globals
  BY <1>1, <1>2, SetVisibleKeeps DEF ConcludeUse
<1>3. CASE UseKnown \/ ReturnToCaller
  BY <1>2, <1>3 DEF UseKnown, ReturnToCaller
<1>4. CASE UseOfUnknownLibrary \/ UseOfUnknownPackage \/ UseOfOwnFile
  BY <1>2, <1>4 DEF UseOfUnknownLibrary, UseOfUnknownPackage, UseOfOwnFile, UseFails
<1>5. CASE DeclarePackage \/ DeclareEntity
  <2>1. Running /\ ~AtEnd(Top) /\ Item.kind \in GlobalKinds /\ DeclareGlobalUnit
    BY <1>5 DEF DeclarePackage, DeclareEntity, AtUnit, GlobalKinds
  <2>2. Item.kind # "use"
    BY <2>1 DEF GlobalKinds
  <2>3. ClassOf(Top).name = Item.name /\ stack' = AddClass(stack, ClassOf(Top))
    BY <2>1, <2>2, UnitAtHand DEF DeclareGlobalUnit
  <2>4. QED
    BY <2>1, <2>3, GlobalizeGrows
<1>6. CASE \/ Generate \/ EnterPackageFile \/ EnterUnreadableFile \/ ExhaustStack
           \/ UseOfOperatorSymbol \/ Finish
           \/ DeclarePackageBody \/ SkipPackageBody \/ DeclareArchitecture
           \/ UNCHANGED vars
  BY <1>6 DEF Generate, EnterPackageFile, EnterUnreadableFile,
              ExhaustStack, UseOfOperatorSymbol, Finish,
                DeclarePackageBody, SkipPackageBody, DeclareArchitecture, vars
<1>7. QED
  BY <1>3, <1>4, <1>5, <1>6 DEF Next, Step, Stopped

\* One entry is what its origin declares.
FaithfulEntry(key) ==
  LET e == globals[key]
      u == source[e.origin[1]][e.origin[2]]
  IN  /\ u.kind = e.kind /\ u.name = key[2] /\ u.declares = e.declares
      /\ e.visible \subseteq e.declares
      /\ Walked(key[1], e.origin[1])

LEMMA FaithfulParts == EntriesAreFaithful <=> \A key \in DOMAIN globals : FaithfulEntry(key)
BY DEF EntriesAreFaithful, FaithfulEntry, Walked

LEMMA KnownEntryFaithful ==
  ASSUME TypeInv, Fresh, [Next]_vars, NEW key \in DOMAIN globals, FaithfulEntry(key)
  PROVE  FaithfulEntry(key)'
<1> DEFINE e == globals[key]
<1>1. /\ source' = source
      /\ globals'[key].kind = e.kind /\ globals'[key].origin = e.origin
      /\ globals'[key].declares = e.declares
  BY StepGrows DEF Grows
<1>2. globals'[key].visible \subseteq globals'[key].declares
  BY <1>1, VisibleStep DEF FaithfulEntry
<1>3. PICK lib, file : lib = key[1] /\ file = e.origin[1]
  OBVIOUS
<1>4. Walked(lib, file)'
  BY <1>3, WalkedPersists DEF FaithfulEntry
<1>5. Walked(key[1], globals[key].origin[1])'
  BY <1>1, <1>3, <1>4 DEF Walked
<1>6. QED
  BY <1>1, <1>2, <1>5 DEF FaithfulEntry

LEMMA NewEntryFaithful ==
  ASSUME TypeInv, Fresh, [Next]_vars, Running, ~AtEnd(Top), Item.kind \in GlobalKinds,
         NEW key, key = <<Top.lib, Item.name>>,
         globals'[key] = EntryFor(Top, ClassOf(Top))
  PROVE  FaithfulEntry(key)'
<1>1. source' = source
  BY StepGrows DEF Grows
<1>2. Item.kind # "use"
  BY DEF GlobalKinds
<1>3. /\ globals'[key].kind = Item.kind /\ globals'[key].declares = Item.declares
      /\ globals'[key].origin = <<Top.file, Top.pos>> /\ globals'[key].visible = {}
  BY <1>2, UnitAtHand DEF EntryFor
<1>4. Item = source[Top.file][Top.pos]
  BY <1>2, UnitAtHand
<1>5. PICK lib, file : lib = Top.lib /\ file = Top.file
  OBVIOUS
<1>6. Walked(lib, file)
  BY <1>5, RunningTop, StackDomain DEF Walked, TypeInv
<1>7. Walked(lib, file)'
  BY <1>6, WalkedPersists
<1>8. Walked(key[1], globals[key].origin[1])'
  BY <1>3, <1>5, <1>7 DEF Walked
<1>9. QED
  BY <1>1, <1>3, <1>4, <1>8 DEF FaithfulEntry

\* Every object of the database is what its origin declares, in a file that
\* was walked for the library it is filed under, whatever the files contain
\* (parameters_database.cpp:161-168).
THEOREM EntriesFaithful == Spec => []EntriesAreFaithful
<1>1. Init => EntriesAreFaithful
  BY DEF Init, EmptyDatabase, EntriesAreFaithful
<1>2. TypeInv /\ Fresh /\ EntriesAreFaithful /\ [Next]_vars => EntriesAreFaithful'
  <2> SUFFICES ASSUME TypeInv, Fresh, EntriesAreFaithful, [Next]_vars,
                      NEW key \in DOMAIN globals'
               PROVE  FaithfulEntry(key)'
    BY FaithfulParts DEF EntriesAreFaithful, FaithfulEntry, Walked
  <2>1. CASE key \in DOMAIN globals
    BY <2>1, FaithfulParts, KnownEntryFaithful
  <2>2. CASE key \notin DOMAIN globals
    BY <2>2, DomainStep, NewEntryFaithful
  <2>3. QED
    BY <2>1, <2>2
<1>3. QED
  BY <1>1, <1>2, TypeInvAlways, FreshAlways, PTL DEF Spec

-----------------------------------------------------------------------------
(* The file information.                                                   *)

\* A package_dependency line led to the file, unless it is the main one.
Announced(lib, file) ==
  file # Main =>
    \E d \in dependencies :
      d[1] = lib /\ file = <<DirOf(d[1]), PackageFile[DirOf(d[1])][d[2]]>>

\* The units of the main file before a position, as they are listed.
UnitsBefore(pos) ==
  {<<source[Main][i].kind, source[Main][i].name>> :
     i \in {j \in DOMAIN source[Main] : source[Main][j].kind # "use" /\ j < pos}}

AllUnits ==
  {<<source[Main][i].kind, source[Main][i].name>> :
     i \in {j \in DOMAIN source[Main] : source[Main][j].kind # "use"}}

WalksAnnounced ==
  /\ \A i \in DOMAIN stack : Announced(stack[i].lib, stack[i].file)
  /\ \A w \in parsed : Announced(w[1], w[2])

\* The main file is at the bottom; its units up to the one at hand are listed.
BottomListed ==
  1 \in DOMAIN stack => stack[1].file = Main /\ listed = UnitsBefore(stack[1].pos)

EndListed == status = "done" => listed = AllUnits

InfoInv == WalksAnnounced /\ BottomListed /\ EndListed

LEMMA DependenciesGrow ==
  ASSUME [Next]_vars PROVE dependencies \subseteq dependencies'
BY DEF vars, output, Next, Step, Stopped, Generate, UseKnown, UseOfUnknownLibrary,
   UseOfUnknownPackage, UseOfOwnFile, UseFails, EnterPackageFile, EnterUnreadableFile,
   ExhaustStack, UseOfOperatorSymbol, ReturnToCaller, Finish, DeclarePackage, DeclareEntity,
   DeclarePackageBody, SkipPackageBody, DeclareArchitecture, DeclareGlobalUnit,
   WriteDependency, WriteUnit

LEMMA AnnouncedPersists ==
  ASSUME TypeInv, [Next]_vars, NEW lib, NEW file, Announced(lib, file)
  PROVE  Announced(lib, file)'
<1>1. command' = command /\ dependencies \subseteq dependencies'
  BY StepGrows, DependenciesGrow DEF Grows
<1>2. QED
  BY <1>1 DEF Announced, DirOf

LEMMA AnnouncedStep ==
  ASSUME TypeInv, Fresh, [Next]_vars, WalksAnnounced
  PROVE  WalksAnnounced'
<1> DEFINE n == Len(stack)
<1>1. n \in Nat /\ DOMAIN stack = 1 .. n /\ (Running => n > 0 /\ Top = stack[n])
  BY StackDomain, RunningTop DEF TypeInv
<1>2. ASSUME NEW i \in DOMAIN stack, NEW lib, NEW file,
             lib = stack[i].lib, file = stack[i].file
      PROVE  Announced(lib, file)'
  BY <1>2, AnnouncedPersists DEF WalksAnnounced
<1>3. ASSUME NEW w \in parsed' PROVE Announced(w[1], w[2])'
  <2>1. PICK lib, file : lib = w[1] /\ file = w[2]
    OBVIOUS
  <2>2. CASE w \in parsed
    <3>1. Announced(lib, file)
      BY <2>1, <2>2 DEF WalksAnnounced
    <3>2. QED
      BY <2>1, <3>1, AnnouncedPersists
  <2>3. CASE w \notin parsed
    <3>1. w = <<Top.lib, Top.file>> /\ Running
      BY <1>3, <2>3, StackStep DEF Still, Starts, Moves, Enters, Returns, Ends, TopWalked
    <3>2. n \in DOMAIN stack /\ lib = stack[n].lib /\ file = stack[n].file
      BY <1>1, <2>1, <3>1
    <3>3. QED
      BY <1>2, <2>1, <3>2
  <2>4. QED
    BY <2>2, <2>3
<1>4. ASSUME NEW i \in DOMAIN stack', NEW lib, NEW file,
             lib = stack'[i].lib, file = stack'[i].file
      PROVE  Announced(lib, file)'
  <2>1. CASE Starts
    BY <1>4, <2>1 DEF Starts, Announced
  <2>2. CASE Enters /\ i = n + 1
    <3>1. /\ KeyOf(Item) \in dependencies' /\ command' = command
          /\ lib = Item.lib /\ file = PackagePath
      BY <1>4, <2>2, StepGrows DEF Enters, Grows
    <3>2. /\ KeyOf(Item)[1] = lib
          /\ file = <<DirOf(KeyOf(Item)[1]), PackageFile[DirOf(KeyOf(Item)[1])][KeyOf(Item)[2]]>>
      BY <3>1 DEF KeyOf, PackagePath, FileOf
    <3>3. QED
      BY <3>1, <3>2 DEF Announced, DirOf
  <2>3. CASE ~ Starts /\ ~ (Enters /\ i = n + 1)
    <3>1. i \in DOMAIN stack /\ lib = stack[i].lib /\ file = stack[i].file
      BY <1>1, <1>4, <2>3, StackStep DEF Still, Moves, MovesFrame, Enters, Returns, Ends
    <3>2. QED
      BY <1>2, <3>1
  <2>4. QED
    BY <2>1, <2>2, <2>3
<1>5. QED
  BY <1>3, <1>4 DEF WalksAnnounced

\* What a step adds to the list of units.
LEMMA ListedStep ==
  ASSUME TypeInv, Fresh, [Next]_vars
  PROVE  \/ /\ Moves /\ Len(stack) = 1 /\ Item.kind # "use"
            /\ listed' = listed \cup {<<Item.kind, Item.name>>}
         \/ listed' = listed /\ (Moves /\ Len(stack) = 1 => Item.kind = "use")
<1>1. Len(stack) \in Nat
  BY StackDomain DEF TypeInv
<1>2. CASE UNCHANGED vars
  <2>1. listed' = listed /\ stack' = stack
    BY <1>2 DEF vars, output
  <2>2. ~ (Moves /\ Len(stack) = 1)
    <3>1. SUFFICES ASSUME Moves, Len(stack) = 1 PROVE FALSE
      OBVIOUS
    <3>2. stack[1].pos = stack[1].pos + 1
      BY <2>1, <3>1 DEF Moves, MovesFrame
    <3>3. stack[1] \in Frames
      BY <3>1, StackDomain DEF TypeInv
    <3>4. stack[1].pos \in Nat
      BY <3>3 DEF Frames
    <3>5. QED
      BY <3>2, <3>4
  <2>3. QED
    BY <2>1, <2>2
<1>3. CASE UseKnown \/ UseOfUnknownLibrary \/ UseOfUnknownPackage \/ UseOfOwnFile
           \/ EnterPackageFile \/ EnterUnreadableFile \/ ExhaustStack
           \/ UseOfOperatorSymbol
  BY <1>3 DEF UseKnown, UseOfUnknownLibrary, UseOfUnknownPackage, UseOfOwnFile,
     UseFails, EnterPackageFile, EnterUnreadableFile, ExhaustStack,
     UseOfOperatorSymbol, MustParse, Missing,
     AtUse, WriteDependency, output
<1>4. CASE Generate \/ ReturnToCaller \/ Finish \/ Stopped
  <2>1. listed' = listed /\ ~ (Running /\ ~AtEnd(Top))
    BY <1>4 DEF Generate, ReturnToCaller, Finish, Stopped, Running, vars, output
  <2>2. QED
    BY <2>1 DEF Moves
<1>5. CASE DeclarePackage \/ DeclareEntity \/ DeclarePackageBody \/ DeclareArchitecture
  <2>1. /\ Running /\ ~AtEnd(Top) /\ Item.kind # "use" /\ parsed' = parsed
        /\ stack' = AddClass(stack, ClassOf(Top)) /\ WriteUnit
    BY <1>5 DEF DeclarePackage, DeclareEntity, DeclarePackageBody,
                DeclareArchitecture, AtUnit, DeclareGlobalUnit
  <2>2. Moves
    BY <2>1, AddClassMovesOn, MovesOnMovesFrame DEF Moves
  <2>3. Len(stack) > 0
    BY <2>1, RunningTop
  <2>4. CASE Len(stack) = 1
    <3>1. listed' = listed \cup {<<Item.kind, Item.name>>}
      BY <2>1, <2>4 DEF WriteUnit, Quiet
    <3>2. QED
      BY <2>1, <2>2, <2>4, <3>1
  <2>5. CASE Len(stack) # 1
    <3>1. Quiet
      <4>1. PICK n : n = Len(stack)
        OBVIOUS
      <4>2. n > 1
        BY <1>1, <2>3, <2>5, <4>1
      <4>3. QED
        BY <4>1, <4>2 DEF Quiet
    <3>2. listed' = listed
      BY <2>1, <3>1 DEF WriteUnit
    <3>3. QED
      BY <2>5, <3>2
  <2>6. QED
    BY <2>4, <2>5
<1>6. CASE SkipPackageBody
  <2>0. listed' = listed /\ Len(stack) > 1
    BY <1>6 DEF SkipPackageBody, DeclarationsOnly, output
  <2>1. PICK n : n = Len(stack)
    OBVIOUS
  <2>2. n # 1
    BY <1>1, <2>0, <2>1
  <2>3. QED
    BY <2>0, <2>1, <2>2
<1>7. QED
  BY <1>2, <1>3, <1>4, <1>5, <1>6 DEF Next, Step

LEMMA MainUnits ==
  ASSUME TypeInv
  PROVE  /\ source[Main] \in Seq(Uses \cup Units) /\ Len(source[Main]) \in Nat
         /\ DOMAIN source[Main] = 1 .. Len(source[Main])
         /\ UnitsBefore(0) = {} /\ UnitsBefore(1) = {}
<1>1. source[Main] \in Seq(Uses \cup Units)
  BY ConstantsAssumption DEF TypeInv, TypeOK, SourceTree, Main, Paths
<1>2. Len(source[Main]) \in Nat /\ DOMAIN source[Main] = 1 .. Len(source[Main])
  BY <1>1, LenProperties
<1>3. QED
  BY <1>1, <1>2 DEF UnitsBefore

\* The next unit of the main file, if it is one that is listed.
LEMMA UnitsBeforeNext ==
  ASSUME TypeInv, NEW pos \in Nat, pos <= Len(source[Main])
  PROVE  UnitsBefore(pos + 1) =
           UnitsBefore(pos) \cup
             (IF pos > 0 /\ source[Main][pos].kind # "use"
                THEN {<<source[Main][pos].kind, source[Main][pos].name>>} ELSE {})
<1>1. Len(source[Main]) \in Nat /\ DOMAIN source[Main] = 1 .. Len(source[Main])
  BY MainUnits
<1> DEFINE Sel(p) == {j \in DOMAIN source[Main] : source[Main][j].kind # "use" /\ j < p}
<1>2. Sel(pos + 1) = Sel(pos) \cup
                       (IF pos > 0 /\ source[Main][pos].kind # "use" THEN {pos} ELSE {})
  BY <1>1
<1>3. QED
  BY <1>2 DEF UnitsBefore

LEMMA BottomStep ==
  ASSUME TypeInv, Fresh, [Next]_vars, BottomListed
  PROVE  BottomListed'
<1> DEFINE n == Len(stack)
<1>1. /\ n \in Nat /\ DOMAIN stack = 1 .. n /\ (Running => n > 0 /\ Top = stack[n])
      /\ source' = source /\ \A i \in 1 .. n : stack[i] \in Frames /\ FrameOK(stack[i])
  BY StackDomain, RunningTop, StepGrows DEF TypeInv, Grows
<1>2. \A pos : UnitsBefore(pos)' = UnitsBefore(pos)
  BY <1>1 DEF UnitsBefore
<1>3. CASE Starts
  <2>1. listed = {} /\ listed' = listed
    BY <1>3, EmptySeq, ListedStep DEF Starts, Fresh, Moves, Running
  <2>2. QED
    BY <1>2, <1>3, <2>1, MainUnits DEF Starts, BottomListed
<1>4. CASE n = 1 /\ Moves
  <2>1. /\ Top = stack[1] /\ Top.file = Main /\ Top.pos \in Nat
        /\ Top.pos <= Len(source[Main]) /\ listed = UnitsBefore(Top.pos)
        /\ Running /\ ~AtEnd(Top)
        /\ stack'[1].file = Main /\ stack'[1].pos = Top.pos + 1
    BY <1>1, <1>4, MainUnits DEF Moves, MovesFrame, BottomListed, Frames, AtEnd
  <2>2. UnitsBefore(Top.pos + 1) =
           UnitsBefore(Top.pos) \cup
             (IF Top.pos > 0 /\ source[Main][Top.pos].kind # "use"
                THEN {<<source[Main][Top.pos].kind, source[Main][Top.pos].name>>} ELSE {})
    BY <2>1, UnitsBeforeNext
  <2>3. listed' = UnitsBefore(Top.pos + 1)
    <3>1. CASE Item.kind = "use"
      <4>1. Top.pos > 0 => source[Main][Top.pos].kind = "use"
        BY <2>1, <3>1 DEF Item, ItemAt
      <4>2. QED
        BY <1>4, <2>1, <2>2, <3>1, <4>1, ListedStep
    <3>2. CASE Item.kind # "use"
      <4>1. Top.pos > 0 /\ Item = source[Main][Top.pos]
        BY <2>1, <3>2, UnitAtHand
      <4>2. QED
        BY <1>4, <2>1, <2>2, <3>2, <4>1, ListedStep
    <3>3. QED
      BY <3>1, <3>2
  <2>4. QED
    BY <1>2, <2>1, <2>3 DEF BottomListed
<1>5. CASE n = 2 /\ Returns
  <2>1. /\ stack[1].file = Main /\ stack[1].pos \in Nat
        /\ stack[1].pos <= Len(source[Main]) /\ listed = UnitsBefore(stack[1].pos)
        /\ ItemAt(Main, stack[1].pos).kind = "use"
        /\ stack'[1].file = Main /\ stack'[1].pos = stack[1].pos + 1
    BY <1>1, <1>5, MainUnits DEF Returns, MovesFrame, BottomListed, Frames, AtEnd, AtUseClause
  <2>2. stack[1].pos > 0 => source[Main][stack[1].pos].kind = "use"
    BY <2>1 DEF ItemAt
  <2>3. UnitsBefore(stack[1].pos + 1) = UnitsBefore(stack[1].pos)
    BY <2>1, <2>2, UnitsBeforeNext
  <2>4. listed' = listed
    BY <1>5, ListedStep
  <2>5. QED
    BY <1>2, <2>1, <2>3, <2>4 DEF BottomListed
<1>6. CASE ~ Starts /\ ~ (n = 1 /\ Moves) /\ ~ (n = 2 /\ Returns)
  <2>1. listed' = listed
    BY <1>6, ListedStep
  <2>2. 1 \in DOMAIN stack' => 1 \in DOMAIN stack /\ stack'[1] = stack[1]
    BY <1>1, <1>6, StackStep DEF Still, Moves, MovesFrame, Enters, Returns, Ends
  <2>3. QED
    BY <1>2, <2>1, <2>2 DEF BottomListed
<1>7. QED
  BY <1>3, <1>4, <1>5, <1>6

LEMMA EndStep ==
  ASSUME TypeInv, Fresh, [Next]_vars, BottomListed, EndListed
  PROVE  EndListed'
<1>1. source' = source
  BY StepGrows DEF Grows
<1>2. AllUnits' = AllUnits
  BY <1>1 DEF AllUnits
<1>3. CASE Finish
  <2>1. /\ Running /\ AtEnd(Top) /\ Len(stack) = 1 /\ listed' = listed
    BY <1>3 DEF Finish, output
  <2>2. /\ Top = stack[1] /\ Top.file = Main /\ Top.pos \in Nat
        /\ listed = UnitsBefore(Top.pos)
    BY <2>1, StackDomain, RunningTop DEF TypeInv, BottomListed, Frames
  <2>3. \A j \in DOMAIN source[Main] : j < Top.pos
    BY <2>1, <2>2, MainUnits DEF AtEnd
  <2>4. UnitsBefore(Top.pos) = AllUnits
    BY <2>3 DEF UnitsBefore, AllUnits
  <2>5. QED
    BY <1>2, <2>1, <2>2, <2>4 DEF EndListed
<1>4. CASE ~ Finish
  <2>1. status' = "done" => status = "done" /\ listed' = listed
    BY <1>4 DEF vars, output, Next, Step, Stopped, Generate, UseKnown, UseOfUnknownLibrary,
       UseOfUnknownPackage, UseOfOwnFile, UseFails, EnterPackageFile, EnterUnreadableFile,
       ExhaustStack, UseOfOperatorSymbol, ReturnToCaller, DeclarePackage,
       DeclareEntity, DeclarePackageBody,
       SkipPackageBody, DeclareArchitecture, DeclareGlobalUnit, Missing, MustParse,
       AtUse, AtUnit, Running
  <2>2. QED
    BY <1>2, <2>1 DEF EndListed
<1>5. QED
  BY <1>3, <1>4

\* The build scripts can order compilations from what hdlc wrote: a file that
\* was walked is named by a package_dependency line, and at the end the other
\* lines are the units of the main file (file_info.cpp), for every program.
THEOREM FileInformationComplete == Spec => []FileInformationIsComplete
<1>1. Init => InfoInv
  BY EmptySeq DEF Init, InfoInv, WalksAnnounced, BottomListed, EndListed
<1>2. TypeInv /\ Fresh /\ InfoInv /\ [Next]_vars => InfoInv'
  BY AnnouncedStep, BottomStep, EndStep DEF InfoInv
<1>3. InfoInv => FileInformationIsComplete
  BY DEF InfoInv, WalksAnnounced, EndListed, Announced, AllUnits, FileInformationIsComplete
<1>4. QED
  BY <1>1, <1>2, <1>3, TypeInvAlways, FreshAlways, PTL DEF Spec

-----------------------------------------------------------------------------
(* The refinement of Linkage.                                              *)

\* A use clause of the package k at a position of a file.
UseOf(path, pos, k) ==
  ItemAt(path, pos).kind = "use" /\ k = KeyOf(ItemAt(path, pos))

FrameNeeds(i, k) == \E pos \in Passed(i) : UseOf(stack[i].file, pos, k)
WalkNeeds(path, k) == \E pos \in DOMAIN source[path] : UseOf(path, pos, k)

StackNeeds(k)  == \E i \in DOMAIN stack : FrameNeeds(i, k)
ParsedNeeds(k) == \E w \in parsed : WalkNeeds(w[2], k)

LEMMA NeededIs ==
  ASSUME NEW k
  PROVE  /\ k \in Needed <=> StackNeeds(k) \/ ParsedNeeds(k)
         /\ k \in Needed' <=> StackNeeds(k)' \/ ParsedNeeds(k)'
<1>1. \A path, positions :
         k \in NeededBy(path, positions) <=> \E pos \in positions : UseOf(path, pos, k)
  BY DEF NeededBy, UseOf
<1>2. k \in Needed <=> \/ \E i \in DOMAIN stack : k \in NeededBy(stack[i].file, Passed(i))
                       \/ \E w \in parsed : k \in NeededBy(w[2], DOMAIN source[w[2]])
  BY DEF Needed
<1>3. k \in Needed <=> StackNeeds(k) \/ ParsedNeeds(k)
  BY <1>1, <1>2 DEF StackNeeds, FrameNeeds, ParsedNeeds, WalkNeeds
<1>4. k \in Needed' <=>
         \/ \E i \in DOMAIN stack' : k \in NeededBy(stack[i].file, Passed(i))'
         \/ \E w \in parsed' : k \in NeededBy(w[2], DOMAIN source[w[2]])'
  BY DEF Needed
<1>5. \A i : k \in NeededBy(stack[i].file, Passed(i))' <=> FrameNeeds(i, k)'
  BY DEF NeededBy, FrameNeeds, UseOf
<1>6. \A w : k \in NeededBy(w[2], DOMAIN source[w[2]])' <=> WalkNeeds(w[2], k)'
  BY DEF NeededBy, WalkNeeds, UseOf
<1>7. k \in Needed' <=> StackNeeds(k)' \/ ParsedNeeds(k)'
  BY <1>4, <1>5, <1>6 DEF StackNeeds, ParsedNeeds
<1>8. QED
  BY <1>3, <1>7

LEMMA FrameKept ==
  ASSUME source' = source, command' = command, NEW i, stack'[i] = stack[i], NEW k
  PROVE  FrameNeeds(i, k)' <=> FrameNeeds(i, k)
<1>1. Passed(i)' = Passed(i)
  BY DEF Passed, Prelude
<1>2. \A pos : ItemAt(stack[i].file, pos)' = ItemAt(stack[i].file, pos)
  BY DEF ItemAt
<1>3. QED
  BY <1>1, <1>2 DEF FrameNeeds, UseOf

LEMMA WalkKept ==
  ASSUME source' = source, NEW path, NEW k
  PROVE  WalkNeeds(path, k)' <=> WalkNeeds(path, k)
BY DEF WalkNeeds, UseOf, ItemAt

\* The position at hand, unless it is the implicit use clause that is left out.
Counts(m) == stack[m].pos > 0 \/ (m = 1 /\ Prelude)

LEMMA FrameMoved ==
  ASSUME source' = source, command' = command, NEW m, stack[m] \in Frames,
         stack'[m].file = stack[m].file, stack'[m].pos = stack[m].pos + 1, NEW k
  PROVE  FrameNeeds(m, k)' <=>
           FrameNeeds(m, k) \/ (Counts(m) /\ UseOf(stack[m].file, stack[m].pos, k))
<1>1. stack[m].pos \in Nat
  BY DEF Frames
<1>2. Passed(m)' = Passed(m) \cup (IF Counts(m) THEN {stack[m].pos} ELSE {})
  BY <1>1 DEF Passed, Prelude, Counts
<1>3. \A pos : ItemAt(stack[m].file, pos)' = ItemAt(stack[m].file, pos)
  BY DEF ItemAt
<1>4. FrameNeeds(m, k)' <=> \E pos \in Passed(m)' : UseOf(stack[m].file, pos, k)
  BY <1>3 DEF FrameNeeds, UseOf
<1>5. QED
  BY <1>2, <1>4 DEF FrameNeeds

\* A frame at its end has passed its file.
LEMMA EndedFrameNeeds ==
  ASSUME TypeInv, NEW i \in 1 .. Len(stack), AtEnd(stack[i]), NEW k
  PROVE  /\ WalkNeeds(stack[i].file, k) => FrameNeeds(i, k)
         /\ i # 1 => (FrameNeeds(i, k) => WalkNeeds(stack[i].file, k))
<1>1. /\ stack[i] \in Frames /\ FrameOK(stack[i]) /\ stack[i].pos \in Nat
      /\ source[stack[i].file] \in Seq(Uses \cup Units)
  BY StackDomain DEF TypeInv, TypeOK, SourceTree, Frames, FrameOK
<1>2. /\ DOMAIN source[stack[i].file] = 1 .. Len(source[stack[i].file])
      /\ Len(source[stack[i].file]) \in Nat
  BY <1>1, LenProperties
<1>3. stack[i].pos = Len(source[stack[i].file]) + 1
  BY <1>1, <1>2 DEF AtEnd, FrameOK
<1>4. DOMAIN source[stack[i].file] \subseteq Passed(i)
  BY <1>2, <1>3 DEF Passed
<1>5. i # 1 => Passed(i) \subseteq DOMAIN source[stack[i].file]
  BY <1>2, <1>3 DEF Passed
<1>6. QED
  BY <1>4, <1>5 DEF FrameNeeds, WalkNeeds

LEMMA ParsedNeedsStep ==
  ASSUME TypeInv, [Next]_vars, NEW k
  PROVE  /\ parsed' = parsed => (ParsedNeeds(k)' <=> ParsedNeeds(k))
         /\ TopWalked => (ParsedNeeds(k)' <=> ParsedNeeds(k) \/ WalkNeeds(Top.file, k))
<1>1. source' = source
  BY StepGrows DEF Grows
<1>2. \A path : WalkNeeds(path, k)' <=> WalkNeeds(path, k)
  BY <1>1, WalkKept
<1>3. ParsedNeeds(k)' <=> \E w \in parsed' : WalkNeeds(w[2], k)
  BY <1>2 DEF ParsedNeeds
<1>4. CASE parsed' = parsed /\ ~ TopWalked
  BY <1>3, <1>4 DEF ParsedNeeds
<1>5. CASE TopWalked
  <2>0. PICK t : t = <<Top.lib, Top.file>>
    OBVIOUS
  <2>1. t[2] = Top.file /\ \A w : w \in parsed' <=> w \in parsed \/ w = t
    BY <1>5, <2>0 DEF TopWalked
  <2>2. ParsedNeeds(k)' <=> ParsedNeeds(k) \/ WalkNeeds(Top.file, k)
    <3>1. ParsedNeeds(k)' <=> (\E w \in parsed : WalkNeeds(w[2], k)) \/ WalkNeeds(t[2], k)
      BY <1>3, <2>1, Zenon
    <3>2. QED
      BY <2>1, <3>1 DEF ParsedNeeds
  <2>3. parsed' = parsed => (ParsedNeeds(k)' <=> ParsedNeeds(k))
    BY <1>3 DEF ParsedNeeds
  <2>4. QED
    BY <2>2, <2>3
<1>6. QED
  BY <1>4, <1>5

\* What a step that is not a move or a return adds to what is needed: nothing.
LEMMA NeedsKept ==
  ASSUME TypeInv, Fresh, [Next]_vars, Still \/ Starts \/ Enters \/ Ends
  PROVE  Needed' = Needed
<1>0. PICK n : n = Len(stack)
  OBVIOUS
<1>1. /\ source' = source /\ command' = command
      /\ n \in Nat /\ DOMAIN stack = 1 .. n /\ (Running => n > 0 /\ Top = stack[n])
  BY <1>0, StackDomain, RunningTop, StepGrows DEF TypeInv, Grows
<1>2. SUFFICES ASSUME NEW k
               PROVE  StackNeeds(k)' \/ ParsedNeeds(k)' <=> StackNeeds(k) \/ ParsedNeeds(k)
  BY NeededIs
<1>3. CASE Still
  <2>1. StackNeeds(k)' <=> StackNeeds(k)
    BY <1>1, <1>3, FrameKept DEF Still, StackNeeds
  <2>2. QED
    BY <1>3, <2>1, ParsedNeedsStep DEF Still
<1>4. CASE Starts
  <2>1. Passed(1)' = {}
    BY <1>1, <1>4 DEF Starts, Passed, Prelude
  <2>2. ~ StackNeeds(k)' /\ ~ StackNeeds(k)
    BY <1>4, <2>1, EmptySeq DEF Starts, StackNeeds, FrameNeeds
  <2>3. QED
    BY <1>4, <2>2, ParsedNeedsStep DEF Starts
<1>5. CASE Enters
  <2>1. DOMAIN stack' = 1 .. n + 1 /\ stack'[n + 1].pos = 1 /\ n > 0
    BY <1>0, <1>1, <1>5 DEF Enters
  <2>2. Passed(n + 1)' = {}
    <3>1. n + 1 # 1 /\ 0 .. 1 - 1 = {0}
      BY <1>1, <2>1
    <3>2. Passed(n + 1)' = {pos \in 0 .. 1 - 1 : pos > 0 \/ (n + 1 = 1 /\ Prelude')}
      BY <2>1 DEF Passed
    <3>3. QED
      BY <3>1, <3>2
  <2>3. ~ FrameNeeds(n + 1, k)'
    BY <2>2 DEF FrameNeeds
  <2>4. \A i \in 1 .. n : FrameNeeds(i, k)' <=> FrameNeeds(i, k)
    BY <1>0, <1>1, <1>5, FrameKept DEF Enters
  <2>5. \A i \in 1 .. n + 1 : i = n + 1 \/ i \in 1 .. n
    BY <1>1
  <2>6. \A i \in 1 .. n : i \in 1 .. n + 1
    BY <1>1
  <2>7. StackNeeds(k)' <=> StackNeeds(k)
    <3>1. StackNeeds(k)' <=> \E i \in 1 .. n + 1 : FrameNeeds(i, k)'
      BY <2>1 DEF StackNeeds
    <3>2. StackNeeds(k) <=> \E i \in 1 .. n : FrameNeeds(i, k)
      BY <1>1 DEF StackNeeds
    <3>3. QED
      BY <2>3, <2>4, <2>5, <2>6, <3>1, <3>2, Zenon
  <2>8. QED
    BY <1>5, <2>7, ParsedNeedsStep DEF Enters
<1>6. CASE Ends
  <2>1. StackNeeds(k)' <=> StackNeeds(k)
    BY <1>1, <1>6, FrameKept DEF Ends, StackNeeds
  <2>2. n = 1 /\ 1 \in 1 .. n /\ Top = stack[1] /\ AtEnd(stack[1])
    BY <1>0, <1>1, <1>6 DEF Ends
  <2>3. WalkNeeds(Top.file, k) => StackNeeds(k)
    BY <1>0, <1>1, <2>2, EndedFrameNeeds DEF StackNeeds
  <2>4. QED
    BY <1>6, <2>1, <2>3, ParsedNeedsStep DEF Ends
<1>7. QED
  BY <1>3, <1>4, <1>5, <1>6

LEMMA NeedsMoved ==
  ASSUME TypeInv, Fresh, [Next]_vars, NEW m \in 1 .. Len(stack), MovesFrame(m),
         \/ Moves /\ m = Len(stack)
         \/ Returns /\ m = Len(stack) - 1
  PROVE  LET u == ItemAt(stack[m].file, stack[m].pos)
         IN  \/ Needed' = Needed
             \/ u.kind = "use" /\ Needed' = Needed \cup {KeyOf(u)}
<1>0. PICK n : n = Len(stack)
  OBVIOUS
<1> DEFINE u == ItemAt(stack[m].file, stack[m].pos)
           new(k) == Counts(m) /\ UseOf(stack[m].file, stack[m].pos, k)
<1>1. /\ source' = source /\ command' = command
      /\ DOMAIN stack = 1 .. n /\ Top = stack[n]
      /\ stack[m] \in Frames
  BY <1>0, StackDomain, RunningTop, StepGrows DEF TypeInv, Grows, Moves, Returns
<1>n. n \in Nat /\ m \in Nat /\ m > 0
  BY <1>0, StackDomain DEF TypeInv
<1>2. ASSUME NEW k PROVE k \in Needed' <=> k \in Needed \/ new(k)
  <2>1. FrameNeeds(m, k)' <=> FrameNeeds(m, k) \/ new(k)
    BY <1>1, FrameMoved DEF MovesFrame
  <2>2. \A i \in 1 .. m - 1 : FrameNeeds(i, k)' <=> FrameNeeds(i, k)
    BY <1>1, FrameKept DEF MovesFrame
  <2>3. \A i \in 1 .. m : i = m \/ i \in 1 .. m - 1
    BY <1>n
  <2>4. m \in 1 .. m /\ \A i \in 1 .. m - 1 : i \in 1 .. m
    BY <1>n
  <2>5. StackNeeds(k)' <=> (\E i \in 1 .. m : FrameNeeds(i, k)) \/ new(k)
    <3>1. StackNeeds(k)' <=> \E i \in 1 .. m : FrameNeeds(i, k)'
      BY DEF StackNeeds, MovesFrame
    <3>2. QED
      BY <2>1, <2>2, <2>3, <2>4, <3>1, Zenon
  <2>6. CASE Moves /\ m = n
    <3>1. StackNeeds(k)' <=> StackNeeds(k) \/ new(k)
      BY <1>1, <2>5, <2>6 DEF StackNeeds
    <3>2. ParsedNeeds(k)' <=> ParsedNeeds(k)
      BY <2>6, ParsedNeedsStep DEF Moves
    <3>3. QED
      BY <3>1, <3>2, NeededIs
  <2>7. CASE Returns /\ m = n - 1
    <3>1. n \in 1 .. n /\ n # 1 /\ AtEnd(stack[n])
      BY <1>0, <1>1, <1>n, <2>7 DEF Returns
    <3>2. WalkNeeds(Top.file, k) <=> FrameNeeds(n, k)
      BY <1>0, <1>1, <3>1, EndedFrameNeeds
    <3>3. ParsedNeeds(k)' <=> ParsedNeeds(k) \/ FrameNeeds(n, k)
      BY <2>7, <3>2, ParsedNeedsStep DEF Returns
    <3>4. \A i : i \in 1 .. n <=> i \in 1 .. m \/ i = n
      BY <1>n, <2>7
    <3>5. StackNeeds(k) <=> (\E i \in 1 .. m : FrameNeeds(i, k)) \/ FrameNeeds(n, k)
      BY <1>1, <3>4 DEF StackNeeds
    <3>6. QED
      BY <2>5, <3>3, <3>5, NeededIs
  <2>8. QED
    BY <1>0, <2>6, <2>7
<1>3. CASE Counts(m) /\ u.kind = "use"
  <2>1. \A k : new(k) <=> k = KeyOf(u)
    BY <1>3 DEF UseOf
  <2>2. Needed' = Needed \cup {KeyOf(u)}
    BY <1>2, <2>1
  <2>3. QED
    BY <1>3, <2>2
<1>4. CASE ~ (Counts(m) /\ u.kind = "use")
  <2>1. \A k : ~ new(k)
    BY <1>4 DEF UseOf
  <2>2. QED
    BY <1>2, <2>1
<1>5. QED
  BY <1>3, <1>4

\* When the outcome changes: nothing else that Linkage speaks of does.
LEMMA OutcomeStep ==
  ASSUME TypeInv, Fresh, [Next]_vars
  PROVE  \/ Outcome' = Outcome
         \/ /\ Outcome = "open" /\ globals' = globals
            /\ Still \/ Ends
            /\ \/ Outcome' = "rejected"
               \/ Outcome' = "accepted" /\ errors = {}
<1>1. CASE UNCHANGED vars
  BY <1>1 DEF vars, Outcome
<1>2. CASE Generate
  BY <1>2 DEF Generate, Outcome
<1>3. CASE EnterUnreadableFile \/ ExhaustStack \/ UseOfOperatorSymbol
  BY <1>3 DEF EnterUnreadableFile, ExhaustStack,
     UseOfOperatorSymbol, MustParse, Missing,
     AtUse, Running, Outcome, Still
<1>4. CASE Finish
  BY <1>4 DEF Finish, Running, Outcome, Ends, TopWalked
<1>5. CASE ~ \/ UNCHANGED vars \/ Generate \/ EnterUnreadableFile \/ ExhaustStack
             \/ UseOfOperatorSymbol \/ Finish
  <2>1. status = "running" /\ status' = "running"
    BY <1>5 DEF Next, Step, Stopped, UseKnown, UseOfUnknownLibrary,
       UseOfUnknownPackage, UseOfOwnFile, UseFails, EnterPackageFile,
       ReturnToCaller, DeclarePackage, DeclareEntity, DeclarePackageBody,
       SkipPackageBody, DeclareArchitecture, DeclareGlobalUnit, Missing, MustParse,
       AtUse, AtUnit, Running
  <2>2. QED
    BY <2>1 DEF Outcome
<1>6. QED
  BY <1>1, <1>2, <1>3, <1>4, <1>5

\* Without errors everything needed is in the database.
LEMMA NeededIsDefined ==
  ASSUME TypeInv, SettledOrReported, errors = {}
  PROVE  Needed \subseteq DOMAIN globals
<1>1. StackSettled /\ ParsedSettled
  BY SettledParts
<1>2. ASSUME NEW lib, NEW path, NEW pos, NEW k, UseOf(path, pos, k), SettledItem(lib, path, pos)
      PROVE  k \in DOMAIN globals
  BY <1>2 DEF UseOf, SettledItem, SettledUse
<1>3. SUFFICES ASSUME NEW k, StackNeeds(k) \/ ParsedNeeds(k)
               PROVE  k \in DOMAIN globals
  BY NeededIs
<1>4. CASE StackNeeds(k)
  BY <1>1, <1>2, <1>4 DEF StackNeeds, FrameNeeds, StackSettled
<1>5. CASE ParsedNeeds(k)
  BY <1>1, <1>2, <1>5 DEF ParsedNeeds, WalkNeeds, ParsedSettled
<1>6. QED
  BY <1>3, <1>4, <1>5

Defined == [key \in DOMAIN globals |-> globals[key].origin]

LEMMA DefinedStep ==
  ASSUME TypeInv, Fresh, [Next]_vars
  PROVE  \/ Defined' = Defined
         \/ /\ Running /\ ~AtEnd(Top) /\ Item.kind \in GlobalKinds
            /\ \E o \in Keys :
                 /\ o \notin DOMAIN Defined
                 /\ DOMAIN Defined' = DOMAIN Defined \cup {o}
                 /\ \A p \in DOMAIN Defined : Defined'[p] = Defined[p]
                 /\ Defined'[o] \in Origins
<1>1. \A key \in DOMAIN globals :
         key \in DOMAIN globals' /\ globals'[key].origin = globals[key].origin
  BY StepGrows DEF Grows
<1>2. CASE DOMAIN globals' = DOMAIN globals
  BY <1>1, <1>2 DEF Defined
<1>3. CASE DOMAIN globals' # DOMAIN globals
  <2> DEFINE o == <<Top.lib, Item.name>>
  <2>1. /\ Running /\ ~AtEnd(Top) /\ Item.kind \in GlobalKinds
        /\ o \notin DOMAIN globals /\ DOMAIN globals' = DOMAIN globals \cup {o}
    BY <1>3, DomainStep
  <2>2. IsDatabase(globals')
    BY StepTypes DEF TypeInv, TypeOK, IsDatabase
  <2>3. o \in Keys /\ globals'[o].origin \in Origins
    BY <2>1, <2>2 DEF IsDatabase, Entries
  <2> HIDE DEF o
  <2>4. /\ DOMAIN Defined' = DOMAIN Defined \cup {o} /\ o \notin DOMAIN Defined
        /\ \A p \in DOMAIN Defined : Defined'[p] = Defined[p]
        /\ Defined'[o] \in Origins
    BY <1>1, <2>1, <2>3 DEF Defined
  <2>5. QED
    BY <2>1, <2>3, <2>4
<1>4. QED
  BY <1>2, <1>3

\* A move or a return is about the unit of one frame.
LEMMA NeedsStep ==
  ASSUME TypeInv, Fresh, [Next]_vars
  PROVE  \/ Needed' = Needed
         \/ /\ Running /\ (AtEnd(Top) \/ Item.kind = "use")
            /\ \E o \in Keys : Needed' = Needed \cup {o}
<1>0. PICK n : n = Len(stack)
  OBVIOUS
<1>1. CASE Still \/ Starts \/ Enters \/ Ends
  BY <1>1, NeedsKept
<1>2. CASE Moves \/ Returns
  <2>1. /\ n \in Nat /\ n > 0 /\ Running /\ Top = stack[n] /\ SourceTree(source)
        /\ \A i \in 1 .. n : stack[i] \in Frames /\ FrameOK(stack[i])
    BY <1>0, <1>2, RunningTop, StackDomain DEF Moves, Returns, TypeInv
  <2>2. PICK m \in 1 .. n :
          /\ MovesFrame(m) /\ ~AtEnd(stack[m])
          /\ \/ Moves /\ m = Len(stack)
             \/ Returns /\ m = Len(stack) - 1
    <3>1. CASE Moves
      <4>1. n \in 1 .. n /\ MovesFrame(n) /\ ~AtEnd(stack[n])
        BY <1>0, <2>1, <3>1 DEF Moves
      <4>2. QED
        BY <1>0, <3>1, <4>1
    <3>2. CASE Returns
      <4>1. MovesFrame(n - 1) /\ ~AtEnd(stack[n - 1]) /\ n > 1
        BY <1>0, <3>2 DEF Returns, AtUseClause
      <4>2. n - 1 \in 1 .. n
        BY <2>1, <4>1
      <4>3. QED
        BY <1>0, <3>2, <4>1, <4>2
    <3>3. QED
      BY <1>2, <3>1, <3>2
  <2> DEFINE u == ItemAt(stack[m].file, stack[m].pos)
  <2>3. \/ Needed' = Needed
        \/ u.kind = "use" /\ Needed' = Needed \cup {KeyOf(u)}
    BY <1>0, <2>2, NeedsMoved
  <2>4. stack[m] \in Frames /\ FrameOK(stack[m])
    BY <2>1
  <2>5. u.kind = "use" => KeyOf(u) \in Keys
    BY <2>1, <2>2, <2>4, ItemTypes DEF KeyOf, Keys, Uses
  <2>6. AtEnd(Top) \/ u = Item
    BY <1>0, <2>1, <2>2 DEF Moves, Returns, Item
  <2> HIDE DEF u
  <2>7. QED
    BY <2>1, <2>3, <2>5, <2>6
<1>3. QED
  BY <1>1, <1>2, StackStep

LEMMA LinkStep ==
  ASSUME TypeInv, Fresh, SettledOrReported, [Next]_vars
  PROVE  [Link!Next]_<<Defined, Needed, Outcome>>
<1>1. CASE Outcome' # Outcome
  <2>1. /\ Outcome = "open" /\ globals' = globals
        /\ Still \/ Ends
        /\ Outcome' = "rejected" \/ (Outcome' = "accepted" /\ errors = {})
    BY <1>1, OutcomeStep
  <2>2. Defined' = Defined /\ Needed' = Needed
    BY <2>1, NeedsKept DEF Defined
  <2>3. Outcome' = "accepted" => Needed \subseteq DOMAIN Defined
    BY <2>1, NeededIsDefined DEF Defined
  <2>4. CASE Outcome' = "rejected"
    <3>1. Link!Reject
      BY <2>1, <2>2, <2>4 DEF Link!Reject, Defined
    <3>2. QED
      BY <3>1 DEF Link!Next
  <2>5. CASE Outcome' = "accepted" /\ errors = {}
    <3>1. Link!Accept
      BY <2>1, <2>2, <2>3, <2>5 DEF Link!Accept, Defined
    <3>2. QED
      BY <3>1 DEF Link!Next
  <2>6. QED
    BY <2>1, <2>4, <2>5
<1>2. CASE Outcome' = Outcome /\ Defined' # Defined
  <2>1. PICK o \in Keys :
          /\ Running /\ ~AtEnd(Top) /\ Item.kind \in GlobalKinds
          /\ o \notin DOMAIN Defined
          /\ DOMAIN Defined' = DOMAIN Defined \cup {o}
          /\ \A p \in DOMAIN Defined : Defined'[p] = Defined[p]
          /\ Defined'[o] \in Origins
    BY <1>2, DefinedStep
  <2>2. Needed' = Needed
    BY <2>1, NeedsStep DEF GlobalKinds
  <2>3. Outcome = "open"
    BY <2>1 DEF Running, Outcome
  <2>4. Link!Define(o)
    BY <1>2, <2>1, <2>2, <2>3 DEF Link!Define, Defined
  <2>5. QED
    BY <2>4 DEF Link!Next
<1>3. CASE Outcome' = Outcome /\ Defined' = Defined /\ Needed' # Needed
  <2>1. PICK o \in Keys : Running /\ Needed' = Needed \cup {o}
    BY <1>3, NeedsStep
  <2>2. Link!Need(o)
    BY <1>3, <2>1 DEF Link!Need, Defined, Running, Outcome
  <2>3. QED
    BY <2>2 DEF Link!Next
<1>4. CASE UNCHANGED <<Defined, Needed, Outcome>>
  BY <1>4
<1>5. QED
  BY <1>1, <1>2, <1>3, <1>4

\* The compiler implements Linkage for every program: an object that was
\* defined keeps its definition, and a compilation is accepted only when every
\* object needed by a file that was walked is defined (hdlc.cpp:92).
THEOREM LinkageImplemented == Spec => ImplementsLinkage
<1>1. Init => Link!Init
  <2> SUFFICES ASSUME Init PROVE Link!Init
    OBVIOUS
  <2>1. Needed = {}
    <3>1. DOMAIN stack = {} /\ parsed = {}
      BY EmptySeq DEF Init
    <3>2. QED
      BY <3>1 DEF Needed
  <2>2. Outcome = "open" /\ DOMAIN globals = {}
    BY DEF Init, Outcome, EmptyDatabase
  <2>3. QED
    BY <2>1, <2>2 DEF Link!Init
<1>2. TypeInv /\ Fresh /\ SettledOrReported /\ [Next]_vars => [Link!Next]_Link!vars
  BY LinkStep DEF Link!vars, Defined
<1>3. QED
  BY <1>1, <1>2, TypeInvAlways, ExitCodeSound, FreshAlways, PTL DEF Spec, ImplementsLinkage, Link!Spec
-----------------------------------------------------------------------------
(* Tidy programs.  No step of a tidy program reports an error or stops the *)
(* process, because of what holds of the walk: the files on the stack are  *)
(* of ever lower rank, so that none is entered again; each is in the       *)
(* directory of its library, so that a library and a directory say the     *)
(* same; and whatever the database has was passed, so that a unit at hand  *)
(* is new in it.                                                           *)

\* The program is tidy with this ranking of its files.
TidyWith(rank) ==
  /\ command.config # "unreadable" /\ OneLibraryPerDirectory /\ OnceInLibrary
  /\ rank \in Ranks /\ Ordered(rank)

FileCount == Cardinality(ReadablePaths)

\* No error, no unreadable file, and no end of a C++ stack that can hold a
\* frame for every file.
NoTrouble ==
  /\ errors = {} /\ status # "aborted"
  /\ status = "crashed" => MaxDepth < FileCount

InItsDirectory ==
  /\ \A i \in DOMAIN stack : DirOf(stack[i].lib) = stack[i].file[1]
  /\ \A w \in parsed : w[1] \in Libraries /\ DirOf(w[1]) = w[2][1]

Descends(rank) ==
  /\ \A i, j \in DOMAIN stack : i < j => rank[stack[j].file] < rank[stack[i].file]
  /\ \A i \in DOMAIN stack : rank[stack[i].file] + i <= FileCount

\* A caller waits for a file that has the package it asked for.
Awaits(u, f) == u.lib = f.lib /\ HasPackage(f.file, u.name, Len(source[f.file]) + 1)
CallersGet == \A i \in 1 .. Len(stack) - 1 :
                Awaits(ItemAt(stack[i].file, stack[i].pos), stack[i + 1])

PreludeOfMain == \A i \in DOMAIN stack : stack[i].pos = 0 => stack[i].file = Main /\ Prelude

WalkedOnce == Running => \A i \in DOMAIN stack : \A w \in parsed : w[2] # stack[i].file

\* The unit at the place o was passed.
Behind(o) ==
  /\ o[1] \in ReadablePaths /\ o[2] \in DeclaredIn(o[1])
  /\ \/ \E i \in DOMAIN stack : stack[i].file = o[1] /\ o[2] < stack[i].pos
     \/ \E w \in parsed : w[2] = o[1]
OriginsBehind == \A key \in DOMAIN globals : Behind(globals[key].origin)

TidyWalk(rank) ==
  /\ NoTrouble /\ InItsDirectory /\ Descends(rank) /\ CallersGet
  /\ PreludeOfMain /\ WalkedOnce /\ OriginsBehind

\* What is known at every state of a run.
Context == TypeInv /\ Fresh /\ ClassesInv /\ SettledOrReported /\ EntriesAreFaithful

LEMMA RanksAreNumbers ==
  ASSUME NEW rank \in Ranks
  PROVE  /\ FileCount \in Nat
         /\ \A p \in ReadablePaths : rank[p] \in Nat /\ rank[p] < FileCount
<1>1. IsFiniteSet(Paths)
  BY FilesAreFinite, FS_Product DEF Paths
<1>2. IsFiniteSet(ReadablePaths)
  BY <1>1, FS_Subset DEF ReadablePaths
<1>3. FileCount \in Nat
  BY <1>2, FS_CardinalityType DEF FileCount
<1>4. rank \in [ReadablePaths -> 0 .. FileCount - 1]
  BY DEF Ranks, FileCount
<1>5. QED
  BY <1>3, <1>4

LEMMA SameLibrary ==
  ASSUME OneLibraryPerDirectory, NEW l \in Libraries, NEW m \in Libraries,
         DirOf(l) = DirOf(m), DirOf(l) \in Dirs
  PROVE  l = m
BY ConstantsAssumption DEF OneLibraryPerDirectory

LEMMA FrameIs ==
  ASSUME TypeInv, NEW i \in DOMAIN stack
  PROVE  /\ stack[i] \in Frames /\ FrameOK(stack[i]) /\ stack[i].lib \in Libraries
         /\ stack[i].file \in ReadablePaths /\ stack[i].file[1] \in Dirs
         /\ stack[i].pos \in Nat
<1>1. stack[i] \in Frames /\ FrameOK(stack[i])
  BY StackDomain DEF TypeInv
<1>2. QED
  BY <1>1 DEF Frames, FrameOK, ReadablePaths, Paths

LEMMA UnitsOf ==
  ASSUME TypeInv, NEW p \in ReadablePaths
  PROVE  /\ source[p] \in Seq(Uses \cup Units) /\ Len(source[p]) \in Nat
         /\ DOMAIN source[p] = 1 .. Len(source[p])
<1>1. source[p] \in Seq(Uses \cup Units)
  BY DEF TypeInv, TypeOK, SourceTree, ReadablePaths
<1>2. QED
  BY <1>1, LenProperties

\* A package or an entity that a frame has passed is in the database.
LEMMA PassedUnit ==
  ASSUME TypeInv, SettledOrReported, errors = {}, NEW i \in DOMAIN stack,
         NEW q \in DOMAIN source[stack[i].file], q < stack[i].pos,
         source[stack[i].file][q].kind \in GlobalKinds
  PROVE  HasObject(globals, <<stack[i].lib, source[stack[i].file][q].name>>,
                   source[stack[i].file][q].kind)
<1>1. PICK f, u : f = stack[i] /\ u = source[f.file][q]
  OBVIOUS
<1>2. f.file \in ReadablePaths /\ f.pos \in Nat
  BY <1>1, FrameIs
<1>3. q \in Nat /\ q # 0
  BY <1>1, <1>2, UnitsOf
<1>4. q \in Passed(i)
  BY <1>1, <1>2, <1>3 DEF Passed
<1>5. SettledItem(f.lib, f.file, q)
  BY <1>1, <1>4, SettledParts DEF StackSettled
<1>6. ItemAt(f.file, q) = u /\ u.kind # "use" /\ u.kind \in {"package", "entity"}
  BY <1>1, <1>3 DEF ItemAt, GlobalKinds
<1>7. HasObject(globals, <<f.lib, u.name>>, u.kind)
  BY <1>5, <1>6 DEF SettledItem, SettledUnit
<1>8. QED
  BY <1>1, <1>7

\* So is one of a file that was walked to its end.
LEMMA WalkedUnit ==
  ASSUME TypeInv, SettledOrReported, errors = {}, NEW w \in parsed, w[2] \in ReadablePaths,
         NEW q \in DOMAIN source[w[2]], source[w[2]][q].kind \in GlobalKinds
  PROVE  HasObject(globals, <<w[1], source[w[2]][q].name>>, source[w[2]][q].kind)
<1>1. PICK u : u = source[w[2]][q]
  OBVIOUS
<1>2. q \in Nat /\ q # 0
  BY UnitsOf
<1>3. SettledItem(w[1], w[2], q)
  BY SettledParts DEF ParsedSettled
<1>4. ItemAt(w[2], q) = u /\ u.kind # "use" /\ u.kind \in {"package", "entity"}
  BY <1>1, <1>2 DEF ItemAt, GlobalKinds
<1>5. QED
  BY <1>1, <1>3, <1>4 DEF SettledItem, SettledUnit

LEMMA PassedPackage ==
  ASSUME TypeInv, SettledOrReported, errors = {}, NEW i \in DOMAIN stack, NEW name,
         NEW before, HasPackage(stack[i].file, name, before),
         \A q \in DOMAIN source[stack[i].file] : q < before => q < stack[i].pos
  PROVE  HasObject(globals, <<stack[i].lib, name>>, "package")
<1>1. PICK q \in DOMAIN source[stack[i].file] :
        /\ q < before
        /\ source[stack[i].file][q].kind = "package" /\ source[stack[i].file][q].name = name
  BY DEF HasPackage
<1>2. q < stack[i].pos /\ "package" \in GlobalKinds
  BY <1>1 DEF GlobalKinds
<1>3. QED
  BY <1>1, <1>2, PassedUnit

LEMMA WalkedPackage ==
  ASSUME TypeInv, SettledOrReported, errors = {}, NEW w \in parsed, w[2] \in ReadablePaths,
         NEW name, NEW before, HasPackage(w[2], name, before)
  PROVE  HasObject(globals, <<w[1], name>>, "package")
<1>1. PICK q \in DOMAIN source[w[2]] :
        source[w[2]][q].kind = "package" /\ source[w[2]][q].name = name
  BY DEF HasPackage
<1>2. "package" \in GlobalKinds
  BY DEF GlobalKinds
<1>3. QED
  BY <1>1, <1>2, WalkedUnit

\* A use clause that a frame is at is a good one.
LEMMA UseIsGood ==
  ASSUME TypeInv, NEW rank, TidyWith(rank), PreludeOfMain,
         NEW i \in DOMAIN stack, AtUseClause(stack[i])
  PROVE  /\ GoodUse(rank, stack[i].file, stack[i].pos)
         /\ ItemAt(stack[i].file, stack[i].pos) \in Uses
<1>1. PICK f : f = stack[i]
  OBVIOUS
<1>2. /\ f \in Frames /\ FrameOK(f) /\ f.pos \in Nat /\ f.file \in ReadablePaths
      /\ ~AtEnd(f) /\ ItemAt(f.file, f.pos).kind = "use"
  BY <1>1, FrameIs DEF AtUseClause
<1>3. ItemAt(f.file, f.pos) \in Uses
  BY <1>2, ItemTypes DEF TypeInv, TypeOK
<1>4. CASE f.pos = 0
  BY <1>1, <1>3, <1>4 DEF PreludeOfMain, TidyWith, Ordered
<1>5. CASE f.pos # 0
  <2>1. f.pos \in DOMAIN source[f.file]
    BY <1>2, <1>5, UnitsOf DEF AtEnd
  <2>2. GoodItem(rank, f.file, f.pos)
    BY <1>2, <2>1 DEF TidyWith, Ordered
  <2>3. QED
    BY <1>1, <1>2, <1>3, <2>2 DEF GoodItem
<1>6. QED
  BY <1>4, <1>5

\* In a tidy program the package of a use clause is known, or in the file
\* that parsePackage finds, which is of lower rank.
LEMMA OwnPackageKnown ==
  ASSUME Context, NEW rank, TidyWith(rank), TidyWalk(rank),
         NEW i \in DOMAIN stack, AtUseClause(stack[i]),
         NEW u, u = ItemAt(stack[i].file, stack[i].pos),
         DirOf(u.lib) = stack[i].file[1],
         HasPackage(stack[i].file, u.name, stack[i].pos)
  PROVE  HasObject(globals, KeyOf(u), "package")
<1>1. u \in Uses
  BY UseIsGood DEF Context, TidyWalk
<1>2. /\ stack[i].lib \in Libraries /\ u.lib \in Libraries
      /\ stack[i].file[1] \in Dirs /\ stack[i].file \in ReadablePaths
  BY <1>1, FrameIs DEF Context, Uses
<1>3. stack[i].lib = u.lib
  BY <1>2, SameLibrary DEF TidyWith, TidyWalk, InItsDirectory
<1>4. HasObject(globals, <<stack[i].lib, u.name>>, "package")
  BY <1>2, PassedPackage DEF Context, TidyWalk, NoTrouble
<1>5. QED
  BY <1>3, <1>4 DEF KeyOf

LEMMA FoundIsKnown ==
  ASSUME Context, NEW rank, TidyWith(rank), TidyWalk(rank),
         AtUse, FoundFor(Top, Item)
  PROVE  HasObject(globals, KeyOf(Item), "package")
<1> DEFINE n == Len(stack)
<1>1. /\ Running /\ n \in DOMAIN stack /\ Top = stack[n] /\ AtUseClause(stack[n])
      /\ Item = ItemAt(stack[n].file, stack[n].pos)
  BY RunningTop, StackDomain DEF Context, TypeInv, AtUse, AtUseClause, Item
<1>2. GoodUse(rank, stack[n].file, stack[n].pos) /\ Item \in Uses
  BY <1>1, UseIsGood DEF Context, TidyWalk
<1>3. CASE HasObject(globals, <<Item.lib, Item.name>>, "package")
  BY <1>3 DEF KeyOf
<1>4. CASE Item.lib = WORK /\ Declares(stack[n], Item.name, "package")
  <2>1. PICK j \in DOMAIN stack[n].classes :
          stack[n].classes[j].name = Item.name /\ stack[n].classes[j].kind = "package"
    BY <1>4 DEF Declares
  <2>2. PICK f, class : f = stack[n] /\ class = f.classes[j]
    OBVIOUS
  <2>3. ClassDeclared(f, class)
    BY <1>1, <2>2, StackDomain DEF Context, TypeInv, ClassesInv
  <2>4. f.pos \in Nat
    BY <1>1, <2>2, FrameIs DEF Context
  <2>5. HasPackage(f.file, Item.name, f.pos)
    <3>1. class.unit \in DOMAIN source[f.file] /\ class.unit < f.pos
      BY <2>3, <2>4 DEF ClassDeclared
    <3>2. /\ source[f.file][class.unit].kind = "package"
          /\ source[f.file][class.unit].name = Item.name
      BY <2>1, <2>2, <2>3 DEF ClassDeclared
    <3>3. QED
      BY <3>1, <3>2 DEF HasPackage
  <2>6. DirOf(Item.lib) = f.file[1]
    BY <1>1, <1>2, <1>4, <2>2, <2>5 DEF GoodUse
  <2>7. QED
    BY <1>1, <2>2, <2>5, <2>6, OwnPackageKnown
<1>5. QED
  BY <1>1, <1>3, <1>4 DEF FoundFor, FindObject

LEMMA MissingIsLower ==
  ASSUME Context, NEW rank, TidyWith(rank), TidyWalk(rank), Missing
  PROVE  /\ HasFile /\ ~IsOwnFile
         /\ PackagePath \in ReadablePaths /\ rank[PackagePath] < rank[Top.file]
         /\ HasPackage(PackagePath, Item.name, Len(source[PackagePath]) + 1)
         /\ Item \in Uses
<1> DEFINE n == Len(stack)
<1>1. /\ Running /\ n \in DOMAIN stack /\ Top = stack[n] /\ AtUseClause(stack[n])
      /\ Item = ItemAt(stack[n].file, stack[n].pos)
  BY RunningTop, StackDomain DEF Context, TypeInv, Missing, AtUse, AtUseClause, Item
<1>2. GoodUse(rank, stack[n].file, stack[n].pos) /\ Item \in Uses
  BY <1>1, UseIsGood DEF Context, TidyWalk
<1>3. ~HasObject(globals, KeyOf(Item), "package")
  BY DEF Missing, FindObject, KeyOf
<1>4. ~(DirOf(Item.lib) = stack[n].file[1] /\ HasPackage(stack[n].file, Item.name, stack[n].pos))
  BY <1>1, <1>3, OwnPackageKnown
<1>5. QED
  BY <1>1, <1>2, <1>4 DEF GoodUse, HasFile, HasDir, IsOwnFile, PackagePath

\* So the file that is entered was not walked before.
LEMMA EnteredIsNew ==
  ASSUME Context, NEW rank, TidyWith(rank), TidyWalk(rank), Missing, NEW w \in parsed
  PROVE  w[2] # PackagePath
<1>1. SUFFICES ASSUME w[2] = PackagePath PROVE FALSE
  OBVIOUS
<1>2. /\ PackagePath \in ReadablePaths /\ Item \in Uses /\ HasFile
      /\ HasPackage(PackagePath, Item.name, Len(source[PackagePath]) + 1)
  BY MissingIsLower
<1>3. HasObject(globals, <<w[1], Item.name>>, "package")
  BY <1>1, <1>2, WalkedPackage DEF Context, TidyWalk, NoTrouble
<1>4. DirOf(w[1]) = DirOf(Item.lib) /\ w[1] \in Libraries
  BY <1>1 DEF TidyWalk, InItsDirectory, PackagePath
<1>5. PackagePath \in Paths /\ DirOf(Item.lib) \in Dirs /\ Item.lib \in Libraries
  BY <1>2 DEF ReadablePaths, PackagePath, Paths, Uses
<1>6. w[1] = Item.lib
  BY <1>4, <1>5, SameLibrary DEF TidyWith
<1>7. QED
  BY <1>3, <1>6 DEF Missing, FindObject

\* The package of a caller is there when the file it waits for ends.
LEMMA CallerGets ==
  ASSUME Context, NEW rank, TidyWith(rank), TidyWalk(rank),
         Running, AtEnd(Top), Len(stack) > 1
  PROVE  HasObject(globals, KeyOf(ItemAt(Caller.file, Caller.pos)), "package")
<1> DEFINE n == Len(stack)
<1>1. /\ n \in DOMAIN stack /\ n \in Nat /\ Top = stack[n] /\ n - 1 \in 1 .. n - 1
      /\ Caller = stack[n - 1]
  BY RunningTop, StackDomain DEF Context, TypeInv, Caller
<1>2. PICK u : u = ItemAt(Caller.file, Caller.pos)
  OBVIOUS
<1>3. u.lib = Top.lib /\ HasPackage(Top.file, u.name, Len(source[Top.file]) + 1)
  BY <1>1, <1>2 DEF TidyWalk, CallersGet, Awaits
<1>4. Top.file \in ReadablePaths /\ Top.pos \in Nat /\ Top.pos > Len(source[Top.file])
  BY <1>1, FrameIs DEF Context, AtEnd
<1>5. \A q \in DOMAIN source[Top.file] : q < Top.pos
  BY <1>4, UnitsOf DEF Context
<1>6. HasObject(globals, <<Top.lib, u.name>>, "package")
  BY <1>1, <1>3, <1>5, PassedPackage DEF Context, TidyWalk, NoTrouble
<1>7. QED
  BY <1>2, <1>3, <1>6 DEF KeyOf

LEMMA KnownUseIsQuiet ==
  ASSUME NEW f, NEW u, HasObject(globals, KeyOf(u), "package")
  PROVE  FoundFor(f, u) /\ UseErrors(f, u) = {}
BY DEF FoundFor, FindObject, KeyOf, UseErrors, SetVisibleFinds, HasObject

\* A unit at hand is the only one of its name in its library, and was not
\* passed: it is new in the database.
LEMMA UnitIsNew ==
  ASSUME Context, NEW rank, TidyWith(rank), TidyWalk(rank),
         Running, ~AtEnd(Top), Item.kind \in GlobalKinds
  PROVE  <<Top.lib, Item.name>> \notin DOMAIN globals
<1> DEFINE n == Len(stack)
<1>1. SUFFICES ASSUME NEW key, key = <<Top.lib, Item.name>>, key \in DOMAIN globals PROVE FALSE
  OBVIOUS
<1>2. /\ n \in DOMAIN stack /\ Top = stack[n] /\ DOMAIN stack = 1 .. n /\ n \in Nat
  BY RunningTop, StackDomain DEF Context, TypeInv
<1>3. /\ Top.pos \in DOMAIN source[Top.file] /\ Item = source[Top.file][Top.pos]
      /\ Top.file \in ReadablePaths /\ Top.file[1] \in Dirs /\ Top.pos \in Nat
  BY <1>2, UnitAtHand, FrameIs DEF Context, GlobalKinds
<1>4. PICK o : o = globals[key].origin
  OBVIOUS
<1>5. /\ Behind(o) /\ source[o[1]][o[2]].name = Item.name /\ Walked(Top.lib, o[1])
      /\ o \in Origins
  <2>1. FaithfulEntry(key) /\ globals[key] \in Entries(Origins)
    BY <1>1, FaithfulParts DEF Context, TypeInv, TypeOK, IsDatabase
  <2>2. QED
    BY <1>1, <1>4, <2>1 DEF FaithfulEntry, TidyWalk, OriginsBehind, Entries
<1>6. o[1][1] = DirOf(Top.lib)
  BY <1>5 DEF Walked, TidyWalk, InItsDirectory
<1>7. DirOf(Top.lib) = Top.file[1]
  BY <1>2 DEF TidyWalk, InItsDirectory
<1>8. Top.pos \in DeclaredIn(Top.file) /\ o[2] \in DeclaredIn(o[1]) /\ o[1] \in ReadablePaths
  BY <1>3, <1>5 DEF DeclaredIn, Behind, GlobalKinds
<1>9. o[1] = Top.file /\ o[2] = Top.pos
  BY <1>3, <1>5, <1>6, <1>7, <1>8 DEF TidyWith, OnceInLibrary
<1>10. \A w \in parsed : w[2] # Top.file
  BY <1>2 DEF TidyWalk, WalkedOnce
<1>11. PICK i \in DOMAIN stack : stack[i].file = Top.file /\ Top.pos < stack[i].pos
  BY <1>5, <1>9, <1>10 DEF Behind
<1>12. CASE i = n
  BY <1>2, <1>3, <1>11, <1>12
<1>13. CASE i # n
  <2>1. i < n
    BY <1>2, <1>13
  <2>2. rank[stack[n].file] < rank[stack[i].file]
    BY <1>2, <2>1 DEF TidyWalk, Descends
  <2>3. rank[Top.file] \in Nat
    BY <1>3, RanksAreNumbers DEF TidyWith
  <2>4. QED
    BY <1>2, <1>11, <2>2, <2>3
<1>14. QED
  BY <1>12, <1>13

\* The entity of an architecture was passed.
LEMMA EntityIsKnown ==
  ASSUME Context, NEW rank, TidyWith(rank), TidyWalk(rank), AtUnit("architecture")
  PROVE  FindObject(Top, Top.lib, Item.name, "entity")
<1> DEFINE n == Len(stack)
<1>1. Running /\ ~AtEnd(Top) /\ Item.kind = "architecture"
  BY DEF AtUnit
<1>2. /\ n \in DOMAIN stack /\ Top = stack[n]
  BY <1>1, RunningTop, StackDomain DEF Context, TypeInv
<1>3. /\ Top.pos \in DOMAIN source[Top.file] /\ Item = source[Top.file][Top.pos]
      /\ Top.file \in ReadablePaths /\ ItemAt(Top.file, Top.pos) = Item
  BY <1>1, <1>2, UnitAtHand, FrameIs DEF Context, Item
<1>4. GoodArchitecture(Top.file, Top.pos)
  BY <1>1, <1>3 DEF TidyWith, Ordered, GoodItem
<1>5. PICK q \in DOMAIN source[Top.file] :
        /\ q < Top.pos /\ source[Top.file][q].kind = "entity"
        /\ source[Top.file][q].name = Item.name
  BY <1>3, <1>4 DEF GoodArchitecture
<1>6. "entity" \in GlobalKinds
  BY DEF GlobalKinds
<1>7. HasObject(globals, <<Top.lib, Item.name>>, "entity")
  BY <1>2, <1>5, <1>6, PassedUnit DEF Context, TidyWalk, NoTrouble
<1>8. QED
  BY <1>7 DEF FindObject

\* What each step does when the program is tidy.
LEMMA TroubleStep ==
  ASSUME Context, NEW rank, TidyWith(rank), TidyWalk(rank), [Next]_vars
  PROVE  NoTrouble'
<1>1. /\ errors = {} /\ source' = source /\ FileCount' = FileCount
      /\ status # "aborted" /\ (status = "crashed" => MaxDepth < FileCount)
  BY StepGrows DEF Context, TidyWalk, NoTrouble, Grows, FileCount, ReadablePaths
<1>2. SUFFICES /\ errors' = {} /\ status' # "aborted"
               /\ status' = "crashed" => MaxDepth < FileCount
  BY <1>1 DEF NoTrouble
<1>3. ASSUME NEW f, NEW u, ConcludeUse(f, u, {}), HasObject(globals, KeyOf(u), "package")
      PROVE  errors' = {}
  BY <1>1, <1>3, KnownUseIsQuiet DEF ConcludeUse
<1>4. CASE Generate
  BY <1>1, <1>4 DEF Generate, TidyWith
<1>5. CASE UseKnown
  <2>1. AtUse /\ FoundFor(Top, Item) /\ ConcludeUse(Top, Item, {}) /\ status' = status
    BY <1>5 DEF UseKnown
  <2>2. HasObject(globals, KeyOf(Item), "package")
    BY <2>1, FoundIsKnown
  <2>3. QED
    BY <1>1, <1>3, <2>1, <2>2
<1>6. CASE UseOfUnknownLibrary \/ UseOfUnknownPackage \/ UseOfOwnFile
  BY <1>6, MissingIsLower DEF UseOfUnknownLibrary, UseOfUnknownPackage, UseOfOwnFile, HasFile
<1>7. CASE EnterUnreadableFile
  BY <1>7, MissingIsLower DEF EnterUnreadableFile, MustParse, ReadablePaths
<1>8. CASE ExhaustStack
  <2>1. Missing /\ Len(stack) = MaxDepth /\ errors' = errors /\ status' = "crashed"
    BY <1>8 DEF ExhaustStack, MustParse
  <2>2. Running /\ Len(stack) \in DOMAIN stack /\ Top = stack[Len(stack)] /\ Len(stack) \in Nat
    BY <2>1, RunningTop, StackDomain DEF Context, TypeInv, Missing, AtUse
  <2>3. /\ rank[PackagePath] < rank[Top.file]
        /\ rank[PackagePath] \in Nat /\ rank[Top.file] \in Nat /\ FileCount \in Nat
    BY <2>1, <2>2, MissingIsLower, FrameIs, RanksAreNumbers DEF TidyWith, Context
  <2>4. rank[Top.file] + Len(stack) <= FileCount
    BY <2>2 DEF TidyWalk, Descends
  <2>5. QED
    BY <1>1, <2>1, <2>2, <2>3, <2>4
<1>9. CASE ReturnToCaller
  <2>1. /\ Running /\ AtEnd(Top) /\ Len(stack) > 1 /\ status' = status
        /\ ConcludeUse(Caller, ItemAt(Caller.file, Caller.pos), {})
    BY <1>9 DEF ReturnToCaller
  <2>2. HasObject(globals, KeyOf(ItemAt(Caller.file, Caller.pos)), "package")
    BY <2>1, CallerGets
  <2>3. QED
    BY <1>1, <1>3, <2>1, <2>2
<1>10. CASE DeclarePackage \/ DeclareEntity
  <2>1. /\ Running /\ ~AtEnd(Top) /\ Item.kind \in GlobalKinds /\ DeclareGlobalUnit
        /\ status' = status
    BY <1>10 DEF DeclarePackage, DeclareEntity, AtUnit, GlobalKinds, DeclareGlobalUnit
  <2>2. <<Top.lib, Item.name>> \notin DOMAIN globals
    BY <2>1, UnitIsNew
  <2>3. PICK class : class = ClassOf(Top)
    OBVIOUS
  <2>4. class.name = Item.name
    BY <2>1, <2>3, UnitAtHand DEF Context, GlobalKinds
  <2>5. Append(Top.classes, class)[Len(Append(Top.classes, class))] = class
    BY <2>1, <2>3, UnitFacts DEF Context, GlobalKinds
  <2>6. errors' = errors
    BY <2>1, <2>2, <2>3, <2>4, <2>5 DEF DeclareGlobalUnit, Globalize, AlreadyDefined
  <2>7. QED
    BY <1>1, <2>1, <2>6
<1>11. CASE DeclareArchitecture
  BY <1>1, <1>11, EntityIsKnown DEF DeclareArchitecture
<1>12. CASE \/ EnterPackageFile \/ Finish \/ DeclarePackageBody \/ SkipPackageBody
            \/ UNCHANGED vars
  BY <1>1, <1>12 DEF EnterPackageFile, Finish, DeclarePackageBody, SkipPackageBody, vars
<1>13. CASE UseOfOperatorSymbol
  <2>1. /\ Len(stack) \in DOMAIN stack /\ AtUseClause(stack[Len(stack)])
        /\ Item = ItemAt(stack[Len(stack)].file, stack[Len(stack)].pos)
        /\ Item.id = OPERATOR
    BY <1>13, RunningTop, StackDomain
       DEF Context, TypeInv, UseOfOperatorSymbol, AtUseClause, Item
  <2>2. GoodUse(rank, stack[Len(stack)].file, stack[Len(stack)].pos)
    BY <2>1, UseIsGood DEF Context, TidyWalk
  <2>3. QED
    BY <2>1, <2>2 DEF GoodUse
<1>14. QED
  BY <1>4, <1>5, <1>6, <1>7, <1>8, <1>9, <1>10, <1>11, <1>12, <1>13 DEF Next, Step, Stopped

\* A frame after a step is the main file's first, that of a package file just
\* entered, or one that was there, moved on or not.
LEMMA OldFrame ==
  ASSUME Context, [Next]_vars, NEW i \in DOMAIN stack', ~Starts,
         Enters => i # Len(stack) + 1
  PROVE  /\ i \in DOMAIN stack
         /\ stack'[i].lib = stack[i].lib /\ stack'[i].file = stack[i].file
         /\ stack'[i].pos \in {stack[i].pos, stack[i].pos + 1}
<1> DEFINE n == Len(stack)
<1>1. n \in Nat /\ DOMAIN stack = 1 .. n /\ (Running => n \in DOMAIN stack)
  BY StackDomain, RunningTop DEF Context, TypeInv
<1>2. CASE Enters
  BY <1>1, <1>2 DEF Enters
<1>3. CASE Moves \/ Returns
  <2>1. PICK m \in 1 .. n : MovesFrame(m)
    BY <1>1, <1>3 DEF Moves, Returns
  <2>2. QED
    BY <1>1, <2>1 DEF MovesFrame
<1>4. CASE Still \/ Ends
  BY <1>4 DEF Still, Ends
<1>5. QED
  BY <1>2, <1>3, <1>4, StackStep DEF Context

LEMMA DirectoryStep ==
  ASSUME Context, NEW rank, TidyWith(rank), TidyWalk(rank), [Next]_vars
  PROVE  InItsDirectory'
<1> DEFINE n == Len(stack)
<1>1. source' = source /\ command' = command
  BY StepGrows DEF Context, Grows
<1>2. \A l : DirOf(l)' = DirOf(l)
  BY <1>1 DEF DirOf
<1>3. n \in Nat /\ DOMAIN stack = 1 .. n /\ (Running => n \in DOMAIN stack /\ Top = stack[n])
  BY StackDomain, RunningTop DEF Context, TypeInv
<1>4. \A i \in DOMAIN stack : DirOf(stack[i].lib) = stack[i].file[1]
  BY DEF TidyWalk, InItsDirectory
<1>5. ASSUME NEW w \in parsed' PROVE w[1] \in Libraries /\ DirOf(w[1]) = w[2][1]
  <2>1. CASE w \in parsed
    BY <2>1 DEF TidyWalk, InItsDirectory
  <2>2. CASE w \notin parsed
    <3>1. Running /\ w = <<Top.lib, Top.file>>
      BY <2>2, StackStep DEF Context, Still, Starts, Moves, Enters, Returns, Ends, TopWalked
    <3>2. QED
      BY <1>3, <1>4, <3>1, FrameIs DEF Context
  <2>3. QED
    BY <2>1, <2>2
<1>6. ASSUME NEW i \in DOMAIN stack' PROVE DirOf(stack'[i].lib) = stack'[i].file[1]
  <2>1. CASE Starts
    <3>1. stack'[i].lib = WORK /\ stack'[i].file = Main
      BY <2>1 DEF Starts, TidyWith, OneLibraryPerDirectory
    <3>2. QED
      BY <3>1 DEF DirOf, Main
  <2>2. CASE Enters /\ i = n + 1
    BY <2>2 DEF Enters, PackagePath
  <2>3. CASE ~Starts /\ (Enters => i # n + 1)
    BY <1>4, <2>3, OldFrame
  <2>4. QED
    BY <2>1, <2>2, <2>3
<1>7. QED
  BY <1>2, <1>5, <1>6 DEF InItsDirectory

LEMMA DescentStep ==
  ASSUME Context, NEW rank, TidyWith(rank), TidyWalk(rank), [Next]_vars
  PROVE  Descends(rank)'
<1> DEFINE n == Len(stack)
<1>1. source' = source /\ FileCount' = FileCount
  BY StepGrows DEF Context, Grows, FileCount, ReadablePaths
<1>2. n \in Nat /\ DOMAIN stack = 1 .. n /\ (Running => n \in DOMAIN stack /\ Top = stack[n])
  BY StackDomain, RunningTop DEF Context, TypeInv
<1>3. /\ \A i, j \in 1 .. n : i < j => rank[stack[j].file] < rank[stack[i].file]
      /\ \A i \in 1 .. n : rank[stack[i].file] + i <= FileCount
  BY <1>2 DEF TidyWalk, Descends
<1>4. /\ FileCount \in Nat
      /\ \A p \in ReadablePaths : rank[p] \in Nat /\ rank[p] < FileCount
  BY RanksAreNumbers DEF TidyWith
<1>5. CASE Starts
  <2>1. DOMAIN stack' = {1} /\ stack'[1].file = Main
    BY <1>5 DEF Starts
  <2>2. Main \in ReadablePaths
    BY ConstantsAssumption DEF Context, TypeInv, TypeOK, SourceTree, ReadablePaths, Main, Paths
  <2>3. rank[Main] + 1 <= FileCount
    BY <1>4, <2>2
  <2>4. QED
    BY <1>1, <2>1, <2>3 DEF Descends
<1>6. CASE Enters
  <2>1. /\ DOMAIN stack' = 1 .. n + 1 /\ n \in 1 .. n /\ Top = stack[n] /\ Missing
        /\ \A i \in 1 .. n : stack'[i] = stack[i]
        /\ stack'[n + 1].file = PackagePath
    BY <1>2, <1>6 DEF Enters, MustParse
  <2>2. PackagePath \in ReadablePaths /\ rank[PackagePath] < rank[stack[n].file]
    BY <2>1, MissingIsLower
  <2>3. \A i \in 1 .. n : rank[stack[i].file] \in Nat
    BY <1>2, <1>4, FrameIs DEF Context
  <2>4. rank[PackagePath] \in Nat
    BY <1>4, <2>2
  <2>5. ASSUME NEW i \in 1 .. n PROVE rank[PackagePath] < rank[stack[i].file]
    <3>1. CASE i = n
      BY <2>2, <3>1
    <3>2. CASE i # n
      <4>1. i < n
        <5>1. n \in Nat /\ i \in 1 .. n
          BY <1>2
        <5>2. QED
          BY <3>2, <5>1
      <4>2. rank[stack[n].file] < rank[stack[i].file]
        BY <1>3, <2>1, <4>1
      <4>3. QED
        BY <2>1, <2>2, <2>3, <2>4, <4>2
    <3>3. QED
      BY <3>1, <3>2
  <2>6. rank[PackagePath] + n + 1 <= FileCount
    BY <1>2, <1>3, <1>4, <2>1, <2>2, <2>3, <2>4
  <2>7. ASSUME NEW i \in 1 .. n + 1, NEW j \in 1 .. n + 1, i < j
        PROVE  rank[stack'[j].file] < rank[stack'[i].file]
    <3>1. i \in 1 .. n /\ (j \in 1 .. n \/ j = n + 1)
      BY <1>2, <2>7
    <3>2. QED
      BY <1>3, <2>1, <2>5, <2>7, <3>1
  <2>8. ASSUME NEW i \in 1 .. n + 1 PROVE rank[stack'[i].file] + i <= FileCount
    <3>1. i \in 1 .. n \/ i = n + 1
      BY <1>2
    <3>2. CASE i \in 1 .. n
      BY <1>3, <2>1, <3>2
    <3>3. CASE i = n + 1
      BY <1>2, <2>1, <2>4, <2>6, <3>3
    <3>4. QED
      BY <3>1, <3>2, <3>3
  <2>9. QED
    BY <1>1, <2>1, <2>7, <2>8 DEF Descends
<1>7. CASE ~Starts /\ ~Enters
  <2>1. \A i \in DOMAIN stack' : i \in 1 .. n /\ stack'[i].file = stack[i].file
    BY <1>2, <1>7, OldFrame
  <2>2. QED
    BY <1>1, <1>3, <2>1 DEF Descends
<1>8. QED
  BY <1>5, <1>6, <1>7

LEMMA CallersStep ==
  ASSUME Context, NEW rank, TidyWith(rank), TidyWalk(rank), [Next]_vars
  PROVE  CallersGet'
<1> DEFINE n == Len(stack)
<1>1. source' = source
  BY StepGrows DEF Context, Grows
<1>2. n \in Nat /\ DOMAIN stack = 1 .. n /\ (Running => n \in DOMAIN stack /\ Top = stack[n])
  BY StackDomain, RunningTop DEF Context, TypeInv
<1>3. Len(stack') \in Nat /\ DOMAIN stack' = 1 .. Len(stack')
  <2>1. TypeInv'
    BY StepTypes DEF Context
  <2>2. stack' \in Seq(Frames)
    BY <2>1 DEF TypeInv, TypeOK, StackOK
  <2>3. QED
    BY <2>2, LenProperties
<1>4. \A i \in 1 .. n - 1 : Awaits(ItemAt(stack[i].file, stack[i].pos), stack[i + 1])
  BY DEF TidyWalk, CallersGet
<1>5. SUFFICES ASSUME NEW i \in 1 .. Len(stack') - 1
               PROVE  Awaits(ItemAt(stack'[i].file, stack'[i].pos), stack'[i + 1])
  BY <1>1 DEF CallersGet, Awaits, ItemAt, HasPackage
<1>6. i \in DOMAIN stack' /\ i + 1 \in DOMAIN stack'
  BY <1>3
<1>7. ASSUME i \in 1 .. n - 1, stack'[i].file = stack[i].file, stack'[i].pos = stack[i].pos,
             stack'[i + 1].lib = stack[i + 1].lib, stack'[i + 1].file = stack[i + 1].file
      PROVE  Awaits(ItemAt(stack'[i].file, stack'[i].pos), stack'[i + 1])
  BY <1>4, <1>7 DEF Awaits
<1>8. CASE Starts
  BY <1>6, <1>8 DEF Starts
<1>9. CASE Enters
  <2>1. /\ DOMAIN stack' = 1 .. n + 1 /\ n \in 1 .. n /\ Top = stack[n] /\ Missing
        /\ \A j \in 1 .. n : stack'[j] = stack[j]
        /\ stack'[n + 1].file = PackagePath /\ stack'[n + 1].lib = Item.lib
    BY <1>2, <1>9 DEF Enters, MustParse
  <2>2. CASE i = n
    <3>1. HasPackage(PackagePath, Item.name, Len(source[PackagePath]) + 1)
      BY <2>1, MissingIsLower
    <3>2. QED
      BY <2>1, <2>2, <3>1 DEF Awaits, Item
  <2>3. CASE i # n
    <3>1. i \in 1 .. n - 1 /\ i \in 1 .. n /\ i + 1 \in 1 .. n
      BY <1>2, <1>6, <2>1, <2>3
    <3>2. QED
      BY <1>7, <2>1, <3>1
  <2>4. QED
    BY <2>2, <2>3
<1>10. CASE Moves \/ Returns
  <2>1. PICK m \in 1 .. n : MovesFrame(m)
    BY <1>2, <1>10 DEF Moves, Returns
  <2>2. i \in 1 .. m - 1 /\ i + 1 \in 1 .. m
    BY <1>2, <1>6, <2>1 DEF MovesFrame
  <2>3. i \in 1 .. n - 1 /\ stack'[i] = stack[i] /\ (i + 1 = m \/ i + 1 \in 1 .. m - 1)
    BY <1>2, <2>1, <2>2 DEF MovesFrame
  <2>4. stack'[i + 1].lib = stack[i + 1].lib /\ stack'[i + 1].file = stack[i + 1].file
    BY <2>1, <2>3 DEF MovesFrame
  <2>5. QED
    BY <1>7, <2>3, <2>4
<1>11. CASE Still \/ Ends
  <2>1. stack' = stack
    BY <1>11 DEF Still, Ends
  <2>2. QED
    BY <1>7, <2>1
<1>12. QED
  BY <1>8, <1>9, <1>10, <1>11, StackStep DEF Context

LEMMA PreludeStep ==
  ASSUME Context, NEW rank, TidyWith(rank), TidyWalk(rank), [Next]_vars
  PROVE  PreludeOfMain'
<1>1. Prelude' = Prelude
  BY StepGrows DEF Context, Grows, Prelude
<1>2. SUFFICES ASSUME NEW i \in DOMAIN stack', stack'[i].pos = 0
               PROVE  stack'[i].file = Main /\ Prelude
  BY <1>1 DEF PreludeOfMain
<1>3. CASE Starts
  BY <1>2, <1>3 DEF Starts
<1>4. CASE Enters /\ i = Len(stack) + 1
  BY <1>2, <1>4 DEF Enters
<1>5. CASE ~Starts /\ (Enters => i # Len(stack) + 1)
  <2>1. /\ i \in DOMAIN stack /\ stack'[i].file = stack[i].file
        /\ stack'[i].pos \in {stack[i].pos, stack[i].pos + 1}
    BY <1>5, OldFrame
  <2>2. stack[i].pos \in Nat
    BY <2>1, FrameIs DEF Context
  <2>3. stack[i].pos = 0
    BY <1>2, <2>1, <2>2
  <2>4. QED
    BY <2>1, <2>3 DEF TidyWalk, PreludeOfMain
<1>6. QED
  BY <1>3, <1>4, <1>5

LEMMA OnceStep ==
  ASSUME Context, NEW rank, TidyWith(rank), TidyWalk(rank), [Next]_vars
  PROVE  WalkedOnce'
<1> DEFINE n == Len(stack)
<1>1. n \in Nat /\ DOMAIN stack = 1 .. n /\ (Running => n \in DOMAIN stack /\ Top = stack[n])
  BY StackDomain, RunningTop DEF Context, TypeInv
<1>2. SUFFICES ASSUME Running', NEW i \in DOMAIN stack', NEW w \in parsed'
               PROVE  w[2] # stack'[i].file
  BY DEF WalkedOnce
<1>3. Running => \A j \in 1 .. n : \A v \in parsed : v[2] # stack[j].file
  BY <1>1 DEF TidyWalk, WalkedOnce
<1>4. CASE Still
  BY <1>1, <1>2, <1>3, <1>4 DEF Still
<1>5. CASE Starts
  BY <1>2, <1>5 DEF Starts, Context, Fresh
<1>6. CASE Ends
  BY <1>2, <1>6 DEF Ends
<1>7. CASE Enters
  <2>1. Missing /\ Running /\ parsed' = parsed
    BY <1>7 DEF Enters, MustParse
  <2>2. CASE i = n + 1
    BY <1>2, <1>7, <2>1, <2>2, EnteredIsNew DEF Enters
  <2>3. CASE i # n + 1
    <3>1. i \in 1 .. n /\ stack'[i].file = stack[i].file
      BY <1>1, <1>2, <1>7, <2>3 DEF Enters
    <3>2. QED
      BY <1>2, <1>3, <2>1, <3>1
  <2>4. QED
    BY <2>2, <2>3
<1>8. CASE Moves \/ Returns
  <2>1. Running
    BY <1>8 DEF Moves, Returns
  <2>2. PICK m \in 1 .. n : /\ MovesFrame(m)
                            /\ parsed' = parsed \/ (m = n - 1 /\ TopWalked)
    <3>1. CASE Moves
      BY <1>1, <3>1 DEF Moves
    <3>2. CASE Returns
      <4>1. n - 1 \in 1 .. n /\ MovesFrame(n - 1) /\ TopWalked
        BY <1>1, <3>2 DEF Returns
      <4>2. QED
        BY <4>1
    <3>3. QED
      BY <1>8, <3>1, <3>2
  <2>3. i \in 1 .. m /\ i \in 1 .. n /\ stack'[i].file = stack[i].file
    <3>1. MovesFrame(m)
      BY <2>2
    <3>2. QED
      BY <1>1, <1>2, <3>1 DEF MovesFrame
  <2>4. CASE w \in parsed
    BY <1>3, <2>1, <2>3, <2>4
  <2>5. CASE w \notin parsed
    <3>1. m = n - 1 /\ w[2] = stack[n].file
      <4>1. m = n - 1 /\ TopWalked
        BY <1>2, <2>2, <2>5
      <4>2. QED
        BY <1>1, <1>2, <2>1, <2>5, <4>1 DEF TopWalked
    <3>2. i < n /\ n \in 1 .. n
      BY <1>1, <2>1, <2>3, <3>1
    <3>3. rank[stack[n].file] < rank[stack[i].file]
      BY <1>1, <2>3, <3>2 DEF TidyWalk, Descends
    <3>4. rank[stack[n].file] \in Nat
      BY <1>1, <3>2, FrameIs, RanksAreNumbers DEF Context, TidyWith
    <3>5. QED
      BY <2>3, <3>1, <3>3, <3>4
  <2>6. QED
    BY <2>4, <2>5
<1>9. QED
  BY <1>4, <1>5, <1>6, <1>7, <1>8, StackStep DEF Context

\* What was passed stays passed, and a new unit was passed by the step that
\* put it in the database.
LEMMA BehindStays ==
  ASSUME Context, [Next]_vars, NEW o, Behind(o)
  PROVE  Behind(o)'
<1> DEFINE n == Len(stack)
<1>1. source' = source
  BY StepGrows DEF Context, Grows
<1>2. n \in Nat /\ DOMAIN stack = 1 .. n /\ (Running => n \in DOMAIN stack /\ Top = stack[n])
  BY StackDomain, RunningTop DEF Context, TypeInv
<1>3. o[1] \in ReadablePaths /\ o[2] \in DeclaredIn(o[1]) /\ o[2] \in Nat
  <2>1. o[1] \in ReadablePaths /\ o[2] \in DeclaredIn(o[1])
    BY DEF Behind
  <2>2. QED
    BY <2>1, UnitsOf DEF Context, DeclaredIn
<1>4. SUFFICES \/ \E i \in DOMAIN stack' : stack'[i].file = o[1] /\ o[2] < stack'[i].pos
               \/ \E w \in parsed' : w[2] = o[1]
  BY <1>1, <1>3 DEF Behind, ReadablePaths, DeclaredIn
<1>5. CASE \E w \in parsed : w[2] = o[1]
  <2>1. parsed \subseteq parsed'
    BY StackStep DEF Context, Still, Starts, Moves, Enters, Returns, Ends, TopWalked
  <2>2. QED
    BY <1>5, <2>1
<1>6. CASE \E i \in DOMAIN stack : stack[i].file = o[1] /\ o[2] < stack[i].pos
  <2>1. PICK i \in 1 .. n : stack[i].file = o[1] /\ o[2] < stack[i].pos
    BY <1>2, <1>6
  <2>2. stack[i].pos \in Nat /\ i \in DOMAIN stack
    BY <1>2, FrameIs DEF Context
  <2>3. ASSUME i \in DOMAIN stack', stack'[i].file = stack[i].file,
               stack'[i].pos \in {stack[i].pos, stack[i].pos + 1}
        PROVE  stack'[i].file = o[1] /\ o[2] < stack'[i].pos
    BY <1>3, <2>1, <2>2, <2>3
  <2>4. CASE Still \/ Ends
    BY <2>2, <2>3, <2>4 DEF Still, Ends
  <2>5. CASE Starts
    BY <1>2, <2>5, EmptySeq DEF Starts
  <2>6. CASE Enters
    <3>1. i \in DOMAIN stack' /\ stack'[i] = stack[i]
      BY <1>2, <2>6 DEF Enters
    <3>2. QED
      BY <2>3, <3>1
  <2>7. CASE Moves
    <3>1. DOMAIN stack' = 1 .. n /\ ~Starts
      BY <2>7 DEF Moves, MovesFrame, Starts, Running
    <3>2. i \in DOMAIN stack' /\ (Enters => i # n + 1)
      BY <1>2, <3>1
    <3>3. QED
      BY <2>3, <3>1, <3>2, OldFrame
  <2>8. CASE Returns
    <3>1. CASE i = n
      <4>1. <<Top.lib, Top.file>> \in parsed' /\ Top.file = o[1]
        BY <1>2, <2>1, <2>8, <3>1 DEF Returns, TopWalked
      <4>2. QED
        BY <4>1
    <3>2. CASE i # n
      <4>1. n \in Nat /\ i \in 1 .. n
        BY <1>2
      <4>2. i \in 1 .. n - 1 /\ i # n + 1
        BY <3>2, <4>1
      <4>3. i \in DOMAIN stack' /\ ~Starts
        BY <2>8, <4>2 DEF Returns, MovesFrame, Starts, Running
      <4>4. QED
        BY <2>3, <4>2, <4>3, OldFrame
    <3>3. QED
      BY <3>1, <3>2
  <2>9. QED
    BY <2>4, <2>5, <2>6, <2>7, <2>8, StackStep DEF Context
<1>7. QED
  BY <1>5, <1>6 DEF Behind

LEMMA OriginsStep ==
  ASSUME Context, NEW rank, TidyWith(rank), TidyWalk(rank), [Next]_vars
  PROVE  OriginsBehind'
<1> DEFINE n == Len(stack)
<1>1. Grows
  BY StepGrows DEF Context
<1>2. SUFFICES ASSUME NEW key \in DOMAIN globals' PROVE Behind(globals[key].origin)'
  BY DEF OriginsBehind
<1>3. CASE key \in DOMAIN globals
  <2>1. PICK o : o = globals[key].origin
    OBVIOUS
  <2>2. Behind(o) /\ globals'[key].origin = o
    BY <1>1, <1>3, <2>1 DEF TidyWalk, OriginsBehind, Grows
  <2>3. Behind(o)'
    BY <2>2, BehindStays
  <2>4. QED
    BY <2>2, <2>3 DEF Behind
<1>4. CASE key \notin DOMAIN globals
  <2>1. /\ Running /\ ~AtEnd(Top) /\ Item.kind \in GlobalKinds
        /\ stack' = AddClass(stack, ClassOf(Top))
        /\ globals'[key] = EntryFor(Top, ClassOf(Top))
    BY <1>2, <1>4, DomainStep DEF Context
  <2>2. PICK o : o = globals'[key].origin
    OBVIOUS
  <2>3. /\ o[1] = Top.file /\ o[2] = Top.pos
        /\ Top.pos \in DOMAIN source[Top.file] /\ Item = source[Top.file][Top.pos]
    BY <2>1, <2>2, UnitAtHand DEF Context, GlobalKinds, EntryFor
  <2>4. /\ n \in Nat /\ n \in DOMAIN stack /\ n > 0 /\ Top = stack[n]
    BY <2>1, RunningTop, StackDomain DEF Context, TypeInv
  <2>5. Top.file \in ReadablePaths /\ Top.pos \in Nat
    BY <2>4, FrameIs DEF Context
  <2>6. Top.pos \in DeclaredIn(Top.file)
    BY <2>1, <2>3 DEF DeclaredIn, GlobalKinds
  <2>7. MovesFrame(n)
    BY <2>1, AddClassMovesOn, MovesOnMovesFrame DEF Context, GlobalKinds
  <2>8. n \in DOMAIN stack' /\ stack'[n].file = o[1] /\ o[2] < stack'[n].pos
    BY <2>3, <2>4, <2>5, <2>7 DEF MovesFrame
  <2>9. source' = source
    BY <1>1 DEF Grows
  <2>10. Behind(o)'
    BY <2>3, <2>5, <2>6, <2>8, <2>9 DEF Behind, ReadablePaths, DeclaredIn
  <2>11. QED
    BY <2>2, <2>10 DEF Behind
<1>5. QED
  BY <1>3, <1>4

LEMMA TidyStep ==
  ASSUME Context, [Next]_vars,
         \A rank : TidyWith(rank) => TidyWalk(rank)
  PROVE  \A rank : TidyWith(rank)' => TidyWalk(rank)'
<1>1. SUFFICES ASSUME NEW rank, TidyWith(rank)' PROVE TidyWalk(rank)'
  OBVIOUS
<1>2. source' = source /\ command' = command
  BY StepGrows DEF Context, Grows
<1>3. TidyWith(rank)
  <2>1. /\ \A l : DirOf(l)' = DirOf(l)
        /\ \A path, pos : ItemAt(path, pos)' = ItemAt(path, pos)
        /\ \A path : DeclaredIn(path)' = DeclaredIn(path)
        /\ \A path, name, before : HasPackage(path, name, before)' <=> HasPackage(path, name, before)
        /\ ReadablePaths' = ReadablePaths /\ Prelude' = Prelude
    BY <1>2 DEF DirOf, ItemAt, DeclaredIn, HasPackage, ReadablePaths, Prelude
  <2>2. \A u : FileOf(u)' = FileOf(u)
    BY <2>1 DEF FileOf
  <2>3. \A path, pos : GoodUse(rank, path, pos)' => GoodUse(rank, path, pos)
    BY <1>2, <2>1, <2>2 DEF GoodUse
  <2>4. \A path, pos : GoodArchitecture(path, pos)' => GoodArchitecture(path, pos)
    BY <1>2 DEF GoodArchitecture
  <2>5. \A path, pos : GoodItem(rank, path, pos)' => GoodItem(rank, path, pos)
    BY <2>1, <2>3, <2>4 DEF GoodItem
  <2>6. Ordered(rank)
    BY <1>1, <1>2, <2>1, <2>3, <2>5 DEF TidyWith, Ordered
  <2>7. OneLibraryPerDirectory
    BY <1>1, <1>2, <2>1 DEF TidyWith, OneLibraryPerDirectory
  <2>8. OnceInLibrary
    BY <1>1, <1>2, <2>1 DEF TidyWith, OnceInLibrary
  <2>9. rank \in Ranks
    BY <1>1, <2>1 DEF TidyWith, Ranks
  <2>10. QED
    BY <1>1, <1>2, <2>6, <2>7, <2>8, <2>9 DEF TidyWith
<1>4. TidyWalk(rank)
  BY <1>3
<1>5. QED
  BY <1>3, <1>4, TroubleStep, DirectoryStep, DescentStep, CallersStep, PreludeStep, OnceStep,
     OriginsStep DEF TidyWalk

\* A tidy program is never rejected, whatever its files contain and however
\* their use clauses share packages: no error is reported, no unreadable file
\* is come to, and a C++ stack with room for a frame of each file does not end
\* (systemc.cpp:68-99, includes.cpp:9-29, hdlc.cpp:92).  It is the safety half
\* of TidyProgramsCompile.
TidyNeverRejected == Tidy => NoTrouble

THEOREM TidyProgramsPass == Spec => []TidyNeverRejected
<1> DEFINE Inv == \A rank : TidyWith(rank) => TidyWalk(rank)
<1>1. Init => Inv
  BY EmptySeq DEF Init, EmptyDatabase, TidyWalk, NoTrouble, InItsDirectory, Descends, CallersGet,
     PreludeOfMain, WalkedOnce, OriginsBehind
<1>2. Context /\ Inv /\ [Next]_vars => Inv'
  BY TidyStep
<1>3. Inv => TidyNeverRejected
  BY DEF Tidy, TidyWith, TidyWalk, TidyNeverRejected
<1>4. Init => ClassesInv
  BY DEF Init, ClassesInv
<1>5. TypeInv /\ ClassesInv /\ [Next]_vars => ClassesInv'
  BY ClassesStep
<1> HIDE DEF Inv
<1>6. QED
  BY <1>1, <1>2, <1>3, <1>4, <1>5, TypeInvAlways, FreshAlways, ExitCodeSound, EntriesFaithful, PTL
     DEF Spec, Context
=============================================================================
