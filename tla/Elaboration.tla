---------------------------- MODULE Elaboration ----------------------------
(***************************************************************************)
(* How one run of the compiler hdlc loads the packages that its file uses  *)
(* and declares the design units it meets (generator/systemc.cpp,          *)
(* includes.cpp, general.cpp, parameters_database.cpp, file_info.cpp).     *)
(*                                                                         *)
(* The compiler walks the design units of its file in order.  A use clause *)
(* of a package that is not in the global database makes it find the file  *)
(* of that package through two configuration files, parse that file and    *)
(* walk it the same way, recursively, before it goes on.  The call stack   *)
(* of parse, loadPackage and parsePackage is the variable stack: a frame   *)
(* is one "parameters" object, the index of the unit that its loop is at   *)
(* and the classes its file has declared.                                  *)
(*                                                                         *)
(* A design unit is a use clause, a package, a package body, an entity or  *)
(* an architecture: DesignUnit::parse takes one of them at a time, and a   *)
(* context clause has at most one use clause.  Declarations and statements *)
(* inside a unit are abstracted to the set of identifiers it declares.     *)
(***************************************************************************)
EXTENDS GlobalDatabase, Integers, Sequences, FiniteSets

CONSTANTS WORK,          \* the library that is the current directory
          STD, STANDARD, \* the package every VHDL file uses implicitly
          Dirs,          \* directories that hold source files
          HERE,          \* the current directory
          Files,         \* names of source files, without their directory
          MainFile,      \* the file named on the command line
          NoPath,        \* a library that the configuration does not name
          NoFile,        \* a package that no .jhdl.ini names
          LibraryPath,   \* the [hdl] section of the configuration file
          PackageFile,   \* the [package] sections of the .jhdl.ini files
          Unreadable,    \* a file that is missing or has a syntax error
          OPERATOR,      \* the suffix of a use clause that is an operator symbol
          Sources,       \* the source trees to compile
          Commands,      \* the command lines to run
          MaxDepth       \* how many nested frames the C++ stack can hold

Paths == Dirs \X Files
Main  == <<HERE, MainFile>>

UnitKinds == {"package", "body", "entity", "architecture"}

Uses  == [kind : {"use"}, lib : Libraries, name : Names,
          id : Identifiers \cup {ALL, OPERATOR}]
\* The name of an architecture is that of its entity.
Units == [kind : UnitKinds, name : Names, declares : SUBSET Identifiers]

\* A source tree: what the parser makes of each file.
SourceTree(s) ==
  /\ DOMAIN s = Paths
  /\ \A p \in Paths : s[p] # Unreadable => s[p] \in Seq(Uses \cup Units)
  /\ s[Main] # Unreadable

CommandLines == [library : Libraries, standardPackage : BOOLEAN,
                 config : {"none", "loaded", "unreadable"}]

ASSUME ConstantsAssumption ==
  /\ {WORK, STD} \subseteq Libraries /\ STANDARD \in Names
  /\ HERE \in Dirs /\ MainFile \in Files
  /\ NoPath \notin Dirs /\ NoFile \notin Files
  /\ LibraryPath \in [Libraries -> Dirs \cup {NoPath}]
  /\ PackageFile \in [Dirs -> [Names -> Files \cup {NoFile}]]
  /\ MaxDepth \in Nat \ {0}

ASSUME OperatorIsNoIdentifier == OPERATOR \notin Identifiers \cup {ALL}

\* A file system holds finitely many files.
ASSUME FilesAreFinite == IsFiniteSet(Dirs) /\ IsFiniteSet(Files)

\* A main file that cannot be parsed ends hdlc before anything is elaborated.
ASSUME SourcesAssumption ==
  /\ \A s \in Sources : SourceTree(s)
  /\ Commands \subseteq CommandLines

VARIABLES
  source,       \* the source tree, which no step changes
  command,      \* the command line, which no step changes
  status,       \* what the process is doing
  stack,        \* the frames of the files being walked, the main file first
  globals,      \* the global database
  errors,       \* the errors reported so far
  dependencies, \* the "package_dependency" lines written so far
  listed,       \* the other lines written by the file information
  parsed        \* history: <<library, path>> of the files walked to their end

inputs == <<source, command>>
output == <<dependencies, listed>>
vars == <<inputs, status, stack, globals, errors, output, parsed>>
-----------------------------------------------------------------------------
(* The state of one file being walked.                                     *)

\* A top-level class of the file; its unit is the index that declared it.
Classes == [kind : UnitKinds, name : Names, unit : Nat \ {0},
            declares : SUBSET Identifiers]
Frames == [lib : Libraries, file : Paths, pos : Nat, classes : Seq(Classes)]

NewFrame(lib, path, pos) ==
  [lib |-> lib, file |-> path, pos |-> pos, classes |-> <<>>]

\* Position 0 of the main file is the implicit use of STD.STANDARD.ALL.
StandardUse == [kind |-> "use", lib |-> STD, name |-> STANDARD, id |-> ALL]
ItemAt(path, pos) == IF pos = 0 THEN StandardUse ELSE source[path][pos]

Top      == stack[Len(stack)]
AtEnd(f) == f.pos > Len(source[f.file])
Item     == ItemAt(Top.file, Top.pos)
KeyOf(u) == <<u.lib, u.name>>

\* Nested files are parsed quietly and for their declarations only.
Quiet            == Len(stack) > 1
DeclarationsOnly == Len(stack) > 1

(***************************************************************************)
(* parameters::findObject: when the global database has no such object and *)
(* the library is called WORK, the classes of the file itself are asked.   *)
(***************************************************************************)
Declares(f, name, kind) ==
  \E i \in DOMAIN f.classes : f.classes[i].name = name /\ f.classes[i].kind = kind

FindObject(f, lib, name, kind) ==
  \/ HasObject(globals, <<lib, name>>, kind)
  \/ lib = WORK /\ Declares(f, name, kind)

\* The directory of a library, or NoPath: SystemC::parsePackage.
DirOf(lib) == IF lib = WORK THEN HERE
              ELSE IF command.config = "loaded" THEN LibraryPath[lib] ELSE NoPath

\* The file of a package in the .jhdl.ini of its library's directory.
FileOf(u) == PackageFile[DirOf(u.lib)][u.name]

Origins == Paths \X (Nat \ {0})
Problems == {"no configuration", "no library path", "no package file",
             "own file", "no package", "no identifier", "already defined",
             "no entity"}
Error(what, lib, name, where) ==
  [what |-> what, lib |-> lib, name |-> name, where |-> where]

Running == status = "running"

\* The loop of the running file goes on with its next unit.
Advance(frames) == [frames EXCEPT ![Len(frames)].pos = @ + 1]

\* The same, after newClass made the unit the last top-level class of the file.
WithClass(f, class) == [lib |-> f.lib, file |-> f.file, pos |-> f.pos + 1,
                        classes |-> Append(f.classes, class)]
AddClass(frames, class) ==
  [frames EXCEPT ![Len(frames)] = WithClass(frames[Len(frames)], class)]

\* Faulty form: the loop of parsePackage and the caller's both go on.
ReturnedTwice(frames) == Advance(Advance(SubSeq(frames, 1, Len(frames) - 1)))

\* The running file is done and its caller's loop goes on.
Returned(frames) == Advance(SubSeq(frames, 1, Len(frames) - 1))
-----------------------------------------------------------------------------
\* The implicit use clause is walked when a configuration was loaded and the
\* command line does not say that the file is the package STANDARD itself.
Prelude == command.config = "loaded" /\ ~command.standardPackage

(***************************************************************************)
(* SystemC::generate: load the configuration, then walk the main file.     *)
(***************************************************************************)
Generate ==
  /\ status = "starting"
  /\ status' = "running"
  /\ stack' = <<NewFrame(command.library, Main, IF Prelude THEN 0 ELSE 1)>>
  /\ errors' = IF command.config = "unreadable"
                 THEN errors \cup {Error("no configuration", command.library, STANDARD, {})}
                 ELSE errors
  /\ UNCHANGED <<inputs, globals, output, parsed>>

\* The unit at hand is a use clause, or the implicit one, whose suffix is an
\* identifier or ALL.
AtUse == Running /\ ~AtEnd(Top) /\ Item.kind = "use" /\ Item.id # OPERATOR

\* The parser leaves a use clause of an operator symbol, use lib.pack."and",
\* without an identifier.  SystemC::includes reads that identifier first of
\* all: a null pointer, whether the package is known or not.
UseOfOperatorSymbol ==
  /\ Running /\ ~AtEnd(Top) /\ Item.kind = "use" /\ Item.id = OPERATOR
  /\ status' = "crashed"
  /\ UNCHANGED <<inputs, stack, globals, errors, output, parsed>>

\* Faulty form: the package is loaded even when it is there.
AlwaysMissing == AtUse

\* A use clause whose package is not there yet.
Missing == AtUse /\ ~FindObject(Top, Item.lib, Item.name, "package")

(***************************************************************************)
(* The end of SystemC::loadPackage for the use clause u of the frame f:    *)
(* the second findObject, then setVisible or one of the two errors.        *)
(***************************************************************************)
FoundFor(f, u) == FindObject(f, u.lib, u.name, "package")

\* Faulty form: the second findObject goes unchecked.
UseErrorsUnchecked(f, u) ==
  IF FoundFor(f, u) /\ ~SetVisibleFinds(globals, KeyOf(u))
    THEN {Error("no identifier", u.lib, u.name, {})}
    ELSE {}

UseErrors(f, u) ==
  IF ~FoundFor(f, u) THEN {Error("no package", u.lib, u.name, {})}
  ELSE IF ~SetVisibleFinds(globals, KeyOf(u))
    THEN {Error("no identifier", u.lib, u.name, {})}
    ELSE {}

ConcludeUse(f, u, reported) ==
  /\ globals' = IF FoundFor(f, u) THEN SetVisible(globals, KeyOf(u), u.id) ELSE globals
  /\ errors' = errors \cup reported \cup UseErrors(f, u)

\* The package of the use clause is known already.
UseKnown ==
  /\ AtUse /\ FoundFor(Top, Item)
  /\ ConcludeUse(Top, Item, {})
  /\ stack' = Advance(stack)
  /\ UNCHANGED <<inputs, status, output, parsed>>

\* Faulty form: nested files write no line at all.
WriteOwnDependency ==
  /\ dependencies' = IF Quiet THEN dependencies ELSE dependencies \cup {KeyOf(Item)}
  /\ UNCHANGED listed

\* loadPackage writes the dependency before it looks for the file.
WriteDependency ==
  /\ dependencies' = dependencies \cup {KeyOf(Item)}
  /\ UNCHANGED listed

\* parsePackage gives up with one error, and loadPackage adds its own.
UseFails(what) ==
  /\ WriteDependency
  /\ ConcludeUse(Top, Item, {Error(what, Item.lib, Item.name, {})})
  /\ stack' = Advance(stack)
  /\ UNCHANGED <<inputs, status, parsed>>

HasDir  == DirOf(Item.lib) # NoPath
HasFile == HasDir /\ FileOf(Item) # NoFile
\* parsePackage compares the name in .jhdl.ini with the main file's name,
\* whatever the directories of the two.
IsOwnFile == FileOf(Item) = MainFile

UseOfUnknownLibrary == Missing /\ ~HasDir /\ UseFails("no library path")
UseOfUnknownPackage == Missing /\ HasDir /\ ~HasFile /\ UseFails("no package file")
UseOfOwnFile == Missing /\ HasFile /\ IsOwnFile /\ UseFails("own file")

PackagePath == <<DirOf(Item.lib), FileOf(Item)>>
MustParse == Missing /\ HasFile /\ ~IsOwnFile

\* Faulty form: the nested file is walked for the library WORK.
EnterPackageFileAsWork ==
  /\ MustParse /\ source[PackagePath] # Unreadable /\ Len(stack) < MaxDepth
  /\ WriteDependency
  /\ stack' = Append(stack, NewFrame(WORK, PackagePath, 1))
  /\ UNCHANGED <<inputs, status, globals, errors, parsed>>

\* parsePackage parses the file and walks it with parameters of its own.
EnterPackageFile ==
  /\ MustParse /\ source[PackagePath] # Unreadable /\ Len(stack) < MaxDepth
  /\ WriteDependency
  /\ stack' = Append(stack, NewFrame(Item.lib, PackagePath, 1))
  /\ UNCHANGED <<inputs, status, globals, errors, parsed>>

\* FileNotFound and SyntaxError end the process with exit code 1.
EnterUnreadableFile ==
  /\ MustParse /\ source[PackagePath] = Unreadable
  /\ WriteDependency
  /\ status' = "aborted"
  /\ UNCHANGED <<inputs, stack, globals, errors, parsed>>

\* Nothing bounds the recursion but the C++ stack, whose end is a crash.
ExhaustStack ==
  /\ MustParse /\ source[PackagePath] # Unreadable /\ Len(stack) = MaxDepth
  /\ WriteDependency
  /\ status' = "crashed"
  /\ UNCHANGED <<inputs, stack, globals, errors, parsed>>

\* The walk of a package file ends: back into the caller's loadPackage.
Caller == stack[Len(stack) - 1]

ReturnToCaller ==
  /\ Running /\ AtEnd(Top) /\ Len(stack) > 1
  /\ ConcludeUse(Caller, ItemAt(Caller.file, Caller.pos), {})
  /\ stack' = Returned(stack)
  /\ parsed' = parsed \cup {<<Top.lib, Top.file>>}
  /\ UNCHANGED <<inputs, status, output>>

\* The walk of the main file ends: main returns errorsExists().
Finish ==
  /\ Running /\ AtEnd(Top) /\ Len(stack) = 1
  /\ status' = "done"
  /\ parsed' = parsed \cup {<<Top.lib, Top.file>>}
  /\ UNCHANGED <<inputs, stack, globals, errors, output>>
-----------------------------------------------------------------------------
AtUnit(kind) == Running /\ ~AtEnd(Top) /\ Item.kind = kind

ClassOf(f) == LET u == ItemAt(f.file, f.pos)
              IN  [kind |-> u.kind, name |-> u.name, unit |-> f.pos, declares |-> u.declares]

\* Faulty form: the units of nested files are listed too.
WriteEveryUnit ==
  /\ listed' = listed \cup {<<Item.kind, Item.name>>}
  /\ UNCHANGED dependencies

\* SystemC::topHierarchyStart writes a line unless the file is nested.
WriteUnit ==
  /\ listed' = IF Quiet THEN listed ELSE listed \cup {<<Item.kind, Item.name>>}
  /\ UNCHANGED dependencies

(***************************************************************************)
(* parameters::globalizeClass: the last top-level class of the file enters *)
(* the global database under the library of the file.                      *)
(***************************************************************************)
EntryFor(f, class) == [kind |-> class.kind, origin |-> <<f.file, class.unit>>,
                       declares |-> class.declares, visible |-> {}]

\* Faulty form: objects are filed under WORK whatever the library of the file.
GlobalizeInWork(f, classes) ==
  LET class == classes[Len(classes)]
  IN  /\ globals' = AppendObject(globals, <<WORK, class.name>>, EntryFor(f, class))
      /\ UNCHANGED errors

Globalize(f, classes) ==
  LET class == classes[Len(classes)]
      key   == <<f.lib, class.name>>
  IN  /\ globals' = AppendObject(globals, key, EntryFor(f, class))
      /\ errors' = IF AlreadyDefined(globals, key)
                     THEN errors \cup
                          {Error("already defined", key[1], key[2],
                                 {globals[key].origin, <<f.file, class.unit>>})}
                     ELSE errors

DeclareGlobalUnit ==
  /\ Globalize(Top, Append(Top.classes, ClassOf(Top)))
  /\ stack' = AddClass(stack, ClassOf(Top))
  /\ WriteUnit
  /\ UNCHANGED <<inputs, status, parsed>>

DeclarePackage == AtUnit("package") /\ DeclareGlobalUnit
DeclareEntity  == AtUnit("entity") /\ DeclareGlobalUnit

\* A package body is a class of the main file and is never global.
DeclarePackageBody ==
  /\ AtUnit("body") /\ ~DeclarationsOnly
  /\ stack' = AddClass(stack, ClassOf(Top))
  /\ WriteUnit
  /\ UNCHANGED <<inputs, status, globals, errors, parsed>>

SkipPackageBody ==
  /\ AtUnit("body") /\ DeclarationsOnly
  /\ stack' = Advance(stack)
  /\ UNCHANGED <<inputs, status, globals, errors, output, parsed>>

\* An architecture is elaborated, nested file or not, even if its entity is
\* missing, and is never global.
DeclareArchitecture ==
  /\ AtUnit("architecture")
  /\ errors' = IF FindObject(Top, Top.lib, Item.name, "entity") THEN errors
               ELSE errors \cup {Error("no entity", Top.lib, Item.name, {})}
  /\ stack' = AddClass(stack, ClassOf(Top))
  /\ WriteUnit
  /\ UNCHANGED <<inputs, status, globals, parsed>>

Stopped == status \in {"done", "aborted", "crashed"} /\ UNCHANGED vars
-----------------------------------------------------------------------------
Init ==
  /\ source \in Sources
  /\ command \in Commands
  /\ status = "starting"
  /\ stack = <<>>
  /\ globals = EmptyDatabase
  /\ errors = {}
  /\ dependencies = {}
  /\ listed = {}
  /\ parsed = {}

Step ==
  \/ Generate
  \/ UseOfOperatorSymbol
  \/ UseKnown
  \/ UseOfUnknownLibrary
  \/ UseOfUnknownPackage
  \/ UseOfOwnFile
  \/ EnterPackageFile
  \/ EnterUnreadableFile
  \/ ExhaustStack
  \/ ReturnToCaller
  \/ Finish
  \/ DeclarePackage
  \/ DeclareEntity
  \/ DeclarePackageBody
  \/ SkipPackageBody
  \/ DeclareArchitecture

Next == Step \/ Stopped

Spec == Init /\ [][Next]_vars

\* hdlc is one thread that runs until it exits.
FairSpec == Spec /\ WF_vars(Step)
(***************************************************************************)
(* Type correctness.                                                       *)
(***************************************************************************)
ErrorRecords == [what : Problems, lib : Libraries, name : Names, where : SUBSET Origins]

IsDatabase(db) == DOMAIN db \subseteq Keys /\ db \in [DOMAIN db -> Entries(Origins)]

FrameOK(f) == /\ source[f.file] # Unreadable
              /\ f.pos <= Len(source[f.file]) + 1

StackOK == /\ stack \in Seq(Frames) /\ Len(stack) <= MaxDepth
           /\ \A i \in DOMAIN stack : FrameOK(stack[i])

TypeOK ==
  /\ SourceTree(source)
  /\ command \in CommandLines
  /\ status \in {"starting", "running", "done", "aborted", "crashed"}
  /\ StackOK
  /\ (status \in {"running", "done"}) => stack # <<>>
  /\ IsDatabase(globals)
  /\ errors \subseteq ErrorRecords
  /\ dependencies \subseteq Keys
  /\ listed \subseteq UnitKinds \X Names
  /\ parsed \subseteq Libraries \X Paths
-----------------------------------------------------------------------------
(***************************************************************************)
(* What the exit code promises.                                            *)
(***************************************************************************)

\* The walk of the file path under the library lib has left the unit u.
SettledUse(path, u) ==
  /\ KeyOf(u) \in DOMAIN globals
  /\ \/ globals[KeyOf(u)].kind = "package"
     \/ /\ u.lib = WORK
        /\ \E i \in DOMAIN source[path] :
             source[path][i].kind = "package" /\ source[path][i].name = u.name

SettledUnit(lib, u) ==
  /\ u.kind \in {"package", "entity"} => HasObject(globals, <<lib, u.name>>, u.kind)
  /\ u.kind = "architecture" => HasObject(globals, <<lib, u.name>>, "entity")

SettledItem(lib, path, pos) ==
  LET u == ItemAt(path, pos)
  IN  IF u.kind = "use" THEN SettledUse(path, u) ELSE SettledUnit(lib, u)

\* The positions that frame i has left behind.
Passed(i) == {pos \in 0 .. stack[i].pos - 1 : pos > 0 \/ (i = 1 /\ Prelude)}

\* Unless an error was reported, every use clause that the compiler has
\* passed names a package that is in the database, every package and entity
\* it has passed is there as what it is, and every architecture it has passed
\* has its entity: in files still being walked (up to the unit at hand) and
\* in files walked to their end.  This is what makes exit code 0 mean that
\* the program hangs together (hdlc.cpp:92, includes.cpp:18-26).
SettledOrReported ==
  errors = {} =>
    /\ \A i \in DOMAIN stack : \A pos \in Passed(i) :
         SettledItem(stack[i].lib, stack[i].file, pos)
    /\ \A w \in parsed : \A pos \in DOMAIN source[w[2]] :
         SettledItem(w[1], w[2], pos)

\* Every object in the database is the one its origin declares, under its own
\* name and kind, in a file that was walked for the library it is filed under;
\* a use clause makes visible only what the package declares
\* (parameters_database.cpp:161-168 takes "the last class" for it).
EntriesAreFaithful ==
  \A key \in DOMAIN globals :
    LET e == globals[key]
        u == source[e.origin[1]][e.origin[2]]
    IN  /\ u.kind = e.kind /\ u.name = key[2] /\ u.declares = e.declares
        /\ e.visible \subseteq e.declares
        /\ \/ <<key[1], e.origin[1]>> \in parsed
           \/ \E i \in DOMAIN stack :
                stack[i].lib = key[1] /\ stack[i].file = e.origin[1]

\* What a use clause has resolved to never changes afterwards: an object keeps
\* its declaration and what was visible stays visible, whatever later files
\* define under the same name (global_database.cpp:18-23).
DefinitionsAreStable ==
  [][\A key \in DOMAIN globals :
       /\ key \in DOMAIN globals'
       /\ globals'[key].kind = globals[key].kind
       /\ globals'[key].origin = globals[key].origin
       /\ globals[key].visible \subseteq globals'[key].visible]_vars

\* The lines from which the build scripts order compilations are complete and
\* about the right file: every file but the main one was walked because of a
\* package_dependency line that names a package of that file, and at the end
\* the other lines are exactly the units of the main file (file_info.cpp).
FileInformationIsComplete ==
  /\ \A w \in parsed : w[2] # Main =>
       \E d \in dependencies :
         d[1] = w[1] /\ w[2] = <<DirOf(d[1]), PackageFile[DirOf(d[1])][d[2]]>>
  /\ status = "done" =>
       listed = {<<source[Main][i].kind, source[Main][i].name>> :
                   i \in {j \in DOMAIN source[Main] : source[Main][j].kind # "use"}}

\* The needs of the program: the packages named by the use clauses passed.
NeededBy(path, positions) ==
  {KeyOf(ItemAt(path, pos)) : pos \in {q \in positions : ItemAt(path, q).kind = "use"}}

Needed == UNION ({NeededBy(stack[i].file, Passed(i)) : i \in DOMAIN stack}
                 \cup {NeededBy(w[2], DOMAIN source[w[2]]) : w \in parsed})

Outcome == IF status \in {"starting", "running"} THEN "open"
           ELSE IF status = "done" /\ errors = {} THEN "accepted" ELSE "rejected"

Link == INSTANCE Linkage WITH
          Objects     <- Keys,
          Definitions <- Origins,
          defined     <- [key \in DOMAIN globals |-> globals[key].origin],
          needed      <- Needed,
          outcome     <- Outcome

\* The compiler links a program as Linkage says: whatever the recursion, a
\* package keeps its first definition, and exit code 0 is given only when
\* every package used in any file that was walked is in the database
\* (hdlc.cpp:92).
ImplementsLinkage == Link!Spec
-----------------------------------------------------------------------------
(***************************************************************************)
(* Programs that must compile.  A program is tidy when its files can be    *)
(* ranked so that every use clause names a package declared earlier in its *)
(* own file or, by the configuration, in a readable file of lower rank, no *)
(* use clause names an operator symbol, and no name is declared twice in a *)
(* library.  This is a definition by the order of files alone, without any *)
(* walk.                                                                   *)
(***************************************************************************)
DeclaredIn(path) ==
  {i \in DOMAIN source[path] : source[path][i].kind \in {"package", "entity"}}

HasPackage(path, name, before) ==
  \E i \in DOMAIN source[path] :
    i < before /\ source[path][i].kind = "package" /\ source[path][i].name = name

ReadablePaths == {p \in Paths : source[p] # Unreadable}

\* A file that is not in the current directory must not declare a package that
\* it then takes from WORK: findObject asks the classes of the file itself,
\* everything else the current directory (parameters_database.cpp:137).
GoodUse(rank, path, pos) ==
  LET u == ItemAt(path, pos)
      target == <<DirOf(u.lib), FileOf(u)>>
  IN  /\ u.id # OPERATOR
      /\ \/ DirOf(u.lib) = path[1] /\ HasPackage(path, u.name, pos)
         \/ /\ u.lib = WORK => ~HasPackage(path, u.name, pos)
            /\ DirOf(u.lib) # NoPath /\ FileOf(u) \notin {NoFile, MainFile}
            /\ target \in ReadablePaths /\ rank[target] < rank[path]
            /\ HasPackage(target, u.name, Len(source[target]) + 1)

GoodArchitecture(path, pos) ==
  \E i \in DOMAIN source[path] :
    i < pos /\ source[path][i].kind = "entity" /\ source[path][i].name = source[path][pos].name

GoodItem(rank, path, pos) ==
  LET kind == ItemAt(path, pos).kind
  IN  /\ kind = "use" => GoodUse(rank, path, pos)
      /\ kind = "architecture" => GoodArchitecture(path, pos)

OnceInLibrary ==
  \A p, q \in ReadablePaths : p[1] = q[1] =>
    \A i \in DeclaredIn(p), j \in DeclaredIn(q) :
      source[p][i].name = source[q][j].name => p = q /\ i = j

OneLibraryPerDirectory ==
  /\ command.library = WORK
  /\ \A l, m \in Libraries : DirOf(l) = DirOf(m) => l = m \/ DirOf(l) = NoPath

Ranks == [ReadablePaths -> 0 .. Cardinality(ReadablePaths) - 1]

Ordered(rank) ==
  /\ Prelude => GoodUse(rank, Main, 0)
  /\ \A p \in ReadablePaths : \A i \in DOMAIN source[p] : GoodItem(rank, p, i)

Tidy ==
  /\ command.config # "unreadable"
  /\ OneLibraryPerDirectory
  /\ OnceInLibrary
  /\ \E rank \in Ranks : Ordered(rank)

\* A tidy program compiles: hdlc ends, and with exit code 0.  No file is
\* parsed over and over, no package is found missing or defined twice,
\* however the use clauses of its files share packages (systemc.cpp:68-99).
TidyProgramsCompile ==
  (status = "starting" /\ Tidy) ~> (status = "done" /\ errors = {})
-----------------------------------------------------------------------------
(***************************************************************************)
(* What messages of the compiler say of the program.                       *)
(***************************************************************************)

\* An object that "is already defined" has two definitions: the two places
\* that the message shows are different (global_database.cpp:22-23).
AlreadyDefinedMeansTwoUnits ==
  \A e \in errors : e.what = "already defined" =>
    \E a, b \in e.where : a # b

\* A use clause that passed without "Could not find <identifier> in package"
\* names an identifier of that package (includes.cpp:21-22).
UsedIdentifiersExist ==
  \A i \in DOMAIN stack : \A pos \in Passed(i) :
    LET u == ItemAt(stack[i].file, pos)
    IN  u.kind = "use" /\ u.id # ALL /\ HasObject(globals, KeyOf(u), "package") =>
          \/ u.id \in globals[KeyOf(u)].declares
          \/ \E e \in errors : e.what = "no identifier" /\ e.lib = u.lib /\ e.name = u.name
=============================================================================
