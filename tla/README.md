# Formal models of hdlc

`hdlc` compiles VHDL to a SystemC program (one `.hpp` and one `.cpp` file per source
file) which is linked with the simulation kernel in `src/src/kernel`. This directory
holds TLA+ models of the compiler, the TLC configurations that check them on small
instances, and proofs that TLAPS checks. `PROJECT.json` ties every definition to the lines
of C++ it is translated from, every property to a run and to a faulty form of the code that
breaks it, and lists the hazards of the code with the properties that watch them.

Run TLC with `tlc -workers 2 -config X.cfg M.tla` and the proofs with `tlapm M.tla`.

## 1. The system

| Component | State it keeps | Operations | Talks to |
|---|---|---|---|
| Package loading (`generator/systemc.cpp`, `includes.cpp`, `general.cpp`, `hdlc.cpp`) | the C++ call stack of `parse`/`loadPackage`/`parsePackage`, one `parameters` object per nested file | walk a file, load a package that a use clause names, make packages and entities global | the parser, the database, the configuration, file information |
| Global database (`generator/database/global_database.*`, `name_map.*`) | library → unit → kind, place of definition, local database | `append`, `findObject`, `findAll`, `setVisible` | everything that looks up a name |
| Class hierarchy of a file (`parameters.*`, `file_container.cpp`) | a tree of class containers, each with its local database, its text areas and a flag `active` | `newClass`, `endClass`, find the current class by walking the last active children | all generators |
| Name lookup (`parameters.hpp`, `parameters_database.cpp`, `database/local_database.*`) | – | `findAllLocal`, `findBestMatch`, `findOneBase`, `isLocal` | expressions, declarations |
| Definitions (`definition.*`, `constructor.cpp`) | `process_contains_wait`, sensitivity lists, the end of the `.cpp` text | `defineObject`, `createProcess`, blocks, generate loops, instances, constructors | declarations, statements |
| Declarations (`declarations.*`) | `returnType` | types, subtypes, objects, aliases, functions | `defineObject` (functions, factories of types) |
| Sequential statements (`sequential.*`) | – | wait, return, assignments, conditions, loops, calls | expressions, `defineObject` (factories of loop ranges) |
| Expressions (`expression/*`, `ast/object_type.*`) | – | text of an expression for a required type, overload resolution, sensitivity callback | name lookup |
| Name converter (`name_converter.*`) | – | the chain `p->p->…` from a class to the class that a name is a member of | class hierarchy |
| File information (`file_info.*`) | an output file | `package_dependency` and unit lines, from which the build scripts order compilations | package loading |
| Text, token scanner, parser combinators (`ast/text.*`, `token_scanner.hpp`, `scanner.hpp`) | position in the text, array of tokens, position in it | tokenize; `optional`, `accept`, `expect` with backtracking by exceptions | VHDL and Verilog parsers |
| VHDL and Verilog parsers (`vhdl/*`, `verilog/*`) | the syntax tree | one function per grammar rule | combinators |
| Simulation kernel (`kernel/*`) | ranges, arrays, physical and access types of the generated program | iteration, assignment, conversion, attributes | SystemC, generated code |
| Configuration, error reports, `hdlf` | library paths; a static count of errors | read, report | all |

`hdlc` is a single-threaded program that runs to its exit. What is hard in it is therefore not
concurrency but **re-entrancy and shared mutable context**: one file is walked in the middle
of another, a class is written in the middle of another, and both go through state that is
shared by all levels – the database, flags such as `process_contains_wait` and `returnType`,
the open end of the `.cpp` text, the "current class" that nobody stores. Errors that are
reported while the walk goes on, and exceptions that leave half of a construct behind, are
the failure paths. The hazards, each at its line, are in `PROJECT.json`.

### What makes each component correct

* *Package loading*: it ends; exit code 0 means every use clause in every file that was
  walked is satisfied; the lines of the file information are complete.
* *Global database*: an object keeps its first definition; an entry is what its origin declares.
* *Class hierarchy*: the chain of last active children is the stack of calls that write
  classes; declarations form lexical scopes.
* *Definitions, constructors*: what is generated is instantiated once, in its parent; a body
  of text is not interrupted by another; waiting processes are threads; sensitivity lists are
  complete.
* *Name converter*: `p->…` leads from an object of the class that contains the text to an
  object that has the name.
* *Expressions*: a call passes what its list of actuals gives it; what the two passes keep in the
  syntax tree does not change what is written next.
* *Tokens*: nothing of the text is lost between tokens, a token is a whole word, lines are
  counted right.
* *Parser*: what a failed alternative has consumed is given back; design units follow each other
  and are whole; every parse ends.
* *Kernel*: loops over ranges visit each element once and end; an array is a function from the
  indexes of its range to values, whatever is assigned to what.

## 2. The modules

### GlobalDatabase, Elaboration, Linkage: which files are walked, and what they define

`GlobalDatabase` is the database as a partial function from `<<library, name>>` to entries, with
`append`, `findObject` and `setVisible` (`AppendObject`, `HasObject`, `SetVisible`).

`Elaboration` is one run of `hdlc`. A frame of the variable `stack` is one activation of
`SystemC::parse` with its `parameters` object: the library, the file, the index of the design
unit at hand and the classes that the file has declared. The recursion
`parse → includes → loadPackage → parsePackage → parse` becomes pushing and popping frames:

| Action | Code |
|---|---|
| `Generate` | `SystemC::generate`: configuration, first frame, implicit use of `STD.STANDARD` |
| `UseKnown` | `loadPackage` when the first `findObject` succeeds |
| `UseOfUnknownLibrary`, `UseOfUnknownPackage`, `UseOfOwnFile` | the three errors of `parsePackage`, followed by the rest of `loadPackage` |
| `UseOfOperatorSymbol` | `includes` reads the identifier of a use clause that has none, but an operator symbol |
| `EnterPackageFile` | `parsePackage` parses a file and starts to walk it |
| `EnterUnreadableFile`, `ExhaustStack` | exceptions and the end of the C++ stack |
| `ReturnToCaller`, `Finish` | the end of the loop of `parse`, and the second half of the caller's `loadPackage` |
| `DeclarePackage`, `DeclareEntity`, `DeclarePackageBody`, `SkipPackageBody`, `DeclareArchitecture` | the handlers of design units with `topHierarchyStart/End` and `globalizeClass` |

`Linkage` is the abstract specification: objects get defined once, the program comes to need
them, and it is accepted only if all that is needed is defined. `ImplementsLinkage` is the
refinement: `defined` is the origin in the database, `needed` the keys of the use clauses left
behind in all frames and all files walked, `outcome` the exit code.

### ClassTree, UnitGeneration, LexicalScopes: what one file becomes

`ClassTree` has the containers of a file as a sequence in the order of creation; the path of a
container is the list of positions around it. As in the code nothing stores which class is being
written: `Chain` follows last children as long as they are active, and `Current` is its end.
Name lookup (`Matches`, `BestMatch`, `Ambiguous`, `IsLocal`) and the prefixes of names
(`ParentPrefix`, `Reference`, `Reaches`) are operators over such a tree.

`UnitGeneration` is the walk of one file's syntax trees. The variable `frames` is the stack of
calls of `defineObject`: a frame has the class it opened and what is left of its declarations,
sequential statements and concurrent statements; its phase follows the order of `defineObject`
(declarations, then `body_callback`, then the architecture's statements and the second pass for
component instances). There is one action for the beginning of each construct, one for its
end if other classes are written in between (`OpenType`/`CloseType`, `LoopRange`/`EnterLoop`, …),
and one `…IsLost` for each place where `ObjectNotFound` ends the process. The generated text is
represented by what it refers to: `references` (names written by the last step, with the number
of `p->`), `constructed` (which constructor creates which class), `spawned` (processes, as thread
or method, with their sensitivity), `bodies` (functions whose text is open in the `.cpp` file).

`LexicalScopes` is the abstract specification of nested scopes: declare in the innermost, open,
close. `ImplementsScopes` maps the databases of the classes on the current chain to it.

### Tokenizer: from characters to tokens

`Tokenizer` is `TokenScanner::tokenize` over an `ast::Text`. One action skips white space and
comments, one per accept function reads a token, in the order in which the code tries them
(strings, characters, special characters, identifiers, numbers). Looking or stepping past the last
character throws `TextEof`, which is the end of the file wherever it is thrown: each action has its
counterpart that ends there. `lineNumber` and `lineStart` move with the position as in
`Text::incrementPosition`. A character outside ASCII is looked up with a negative index; the model
takes either answer.

### Combinators, VhdlGrammar, VerilogGrammar, Parser, UnitStream: from tokens to design units

A parse function of the code is a sequence of calls of `Scanner::optional`, `accept`, `expect`,
`lookAhead` and `error`. `Combinators` writes these as instructions, `VhdlGrammar` and
`VerilogGrammar` have one definition for each class of `vhdl/parser` and `verilog/parser`, and `Parser`
executes them. Its variables are the position in the token list, the positions that the calls of
`optional<T>` in progress have remembered (`saved`), what is left of their parse functions
(`frames`) and the design units delivered. The exceptions are `GoBack` (`TokenNotAccepted`, caught by the
nearest `optional<T>`), `ErrorReport` (`SyntaxError`, which ends the compiler) and `EndOfTokens` (`TokenEof`,
which `DesignFile::parse` takes for the end of the file). The syntax tree is represented by the rule
and the tokens each object spans.

`ParserReference` says what a grammar means without a stack: the outcome of a rule at a position,
by recursion. `UnitStream` is the abstract specification: units delivered one after the other. `Descent` says
what it is for a grammar not to be left recursive: the points a parse function may come to are closed under
what it may find and miss (`After`), and every rule that it may call before it has read a token has a
lower rank. `MCParser` computes points and ranks of both grammars, and TLC evaluates the assumption
`GrammarsDescend` that they are of this kind. `Phrases` follows the parse functions in the same way with notes on the
tokens they have read (whether the last is a semicolon, whether there is an `end` or a `new`), and with what each rule
promises its callers of them: `ClosesUnits` says that every promise is kept and that a `DesignUnit` is closed, and
TLC evaluates it for the grammar of VHDL (`GrammarCloses`). `Derivations` writes the meaning of a grammar flat, as rules
of derivation: how a parse function comes out (`Returns`, `Rejects`, `Throws`), from what comes out of the functions it
calls and with none of the state of its callers. The constant `Derives` is any relation that the rules close, and the
least one is the meaning of the grammar; `ParserReference` computes that one and cannot be used in proofs.

### ObjectTypes, Overloads, Expressions: what an expression is written as

`ObjectTypes` compares types and interfaces as `ObjectValueContainer` and `ObjectInterface` do.
`Overloads` is the first pass, which collects the types each node of the syntax tree may have and
leaves them there; `Expressions` is the second pass, which writes the text for an expected type, and the
statements and declarations that start the passes. An operator of either pass maps a record of
the state the pass changes (types collected, errors, signals shown to the sensitivity callback,
whether the compiler ended) to the next; the machine does one declaration or statement per step. A
text is the tree of what it consists of.

The modules keep what the code does where it is not what a reader expects: a cast
with other than one argument returns an uninitialised object (`chance` is either boolean),
`getReturnTypes` does not use its argument `valid`, operations in the elements of an aggregate
that is not last, in choices or in range bounds are typed by no first pass and end in an error,
a conversion `INTEGER(x)` is written without its operand, operators declared by the user are
never found (their names differ in case), an attribute with several arguments keeps the
last one, and a physical literal with a unknown unit ends at an assertion.

### Scalars, Arrays, Kernel, ArrayValues: what the generated program does

`Scalars` and `Arrays` are the methods of `Range`, `Enumeration`, `PhysicalType` and `Array` as operators on
records of the members they read. `Kernel` is one generated process: it declares arrays and an
alias, then executes the statements in the form in which the generator writes them, among them
aggregates (a chain of calls on the target itself), assignments of arrays of other lengths,
times, lines and loops. `ArrayValues` is the abstract specification, with VHDL's view of the same
variables: an array is a function from indexes to values.

The kernel differs from VHDL where `ArrayValues` says so: assigning an array of another
length gives the target the range 1 to n; a null range has the length of its reverse; an
aggregate with `others` leaves the last element alone; a loop over one value runs away
downwards and a descending loop is never entered (`LoopsVisitTheirRange` speaks of the loops that
work); `constrain` with a subtype forgets it; `DEALLOCATE` keeps the text of the line and the image of a line
shows its first element only.

### Composition

Text becomes tokens in `Tokenizer`, tokens become units in `Parser`, units are walked by
`Elaboration` and become classes in `UnitGeneration`, whose expressions are written by `Expressions`
and whose generated statements run in `Kernel`.

`Elaboration` looks at whole files and abstracts a unit to the identifiers that it declares;
`UnitGeneration` takes one file whose packages are loaded (`Loaded`) and looks inside its units.
The two meet in the handlers of design units: `DeclareGlobalUnit` is what `OpenUnit … CloseUnit`
looks like from outside, and `declarationsOnly` is the mode in which `Elaboration` walks nested
files. `ClassTree` is the shared part for name lookup, `GlobalDatabase` that for units.

`SequenceFacts` holds the lemmas that the proofs share: what sequences have, that a nonempty set of naturals
has a least element and a bounded one a greatest, and induction over a range of integers
(`RangeInduction`).

## 3. The runs

| Run | Question | Result |
|---|---|---|
| `elaboration_work` | a main file and two package files of one library, which may use each other, themselves, or hold each other's packages | passes |
| `elaboration_libraries` | packages of one name in two libraries, implicit `STD.STANDARD`, main file in another library, configuration absent or unreadable | passes |
| `unit_generation` | all processes of up to two of 15 statements, package bodies of up to two of 22 declarations, architectures of up to two of 14 concurrent statements, each walked fully and for declarations only | passes |
| `unit_termination` | one of each item: types and termination | passes |
| `tokenizer` | every text of up to four characters out of fourteen kinds, longer ones of quotes, comments and ticks, in VHDL and Verilog | passes |
| `parser` | tests of `src/testsuite` word by word, files that use the rest of both grammars, and 200 files that are cut short or miss a word | passes |
| `expressions` | programs with overloaded subprograms, defaults and operators; calls with every list of up to three actuals | passes |
| `kernel` | a process with arrays of six ranges and three kinds of types, an alias, strings, aggregates, times, a line and loops | passes |
| `spurious_duplicate`, `unknown_identifier`, `wait_lost`, `parent_missed` | statements of the repository that the code contradicts | violated, see 6 |

What the properties say:

* `SettledOrReported` – as long as no error was reported, every use clause, package, entity and
  architecture that any walk has left behind is in the database as what it is.
* `EntriesAreFaithful` – a database entry is the unit at its origin, in a file that is or was
  walked for that library; only declared identifiers become visible.
* `FileInformationIsComplete` – every nested walk was announced by a `package_dependency` line
  that leads to that very file; the unit lines are those of the main file.
* `DefinitionsAreStable` – no step changes what a use clause has resolved to.
* `TidyProgramsCompile` – a program whose files can be ranked so that use clauses point downwards,
  with no name twice in a library, ends with exit code 0. `Tidy` speaks of the order of files
  only, never of a walk. It leaves out the files of section 6, points 5 and 6, and `LibraryThere` of the second run
  has one.
* `ChainIsCallStack` – the chain found by walking last active children is the call stack.
* `ReferencesReach`, `NamesReachThroughParents` – `p->…` leads where the name lives; the first speaks of
  names written where they are looked up, only the second of text made in one class and written into another.
* `PartsAreInstantiated` – every generated class is created in exactly one place, its parent.
* `BodiesAreWhole` – the text of a function body is never interrupted by another.
* `ThreadsAreThoseThatWait`, `ReturnsAreTyped` – the two context variables mean what their readers
  think, with exactly the exceptions the code has: a loop over a range after the wait statement
  (which `wait_lost` is about), and a function that declares functions, whose expected type the
  inner ones overwrite. The second one is in the model, and no run says anything against it.
* `ConcurrentIsSensitive` – a concurrent assignment is sensitive to every signal it reads.
* `TokensCoverTheText`, `TokensAreWhole` – between tokens there is only white space and comments;
  names and numbers go on as long as they can, quotes in strings are doubled.
* `EndedFilesAreRead` – a text that ends with a newline is read to its end, but for the words that
  are not closed. (Without the newline the last token is lost.)
* `LinesAreCounted` – `lineNumber` and `lineStart` are those of the position, whatever was skipped.
* `PositionsNest`, `OptionalIsAtomic` – backtracking leaves no trace in the position or in the lists of
  the callers.
* `MatchesGrammar` – the machine delivers the units, and ends in the way, that `ParserReference`
  gives for the file; `TestsEndAsExpected` compares with what the test suite expects of its files.
* `UnitsAreWhole` – a unit that is delivered is closed by its own end, in files cut short as well.
* `NoCallWithoutProgress`, `Terminates` – no rule calls itself at the same token; every parse ends.
* `CallsPassWhatIsGiven` – in text written without an error every actual is passed to the formal it
  is given to, and a formal without one gets its default. One exception is written into
  it: an actual for which no object of the formal's type is found is silently replaced by
  the default (`expression.hpp`, the `catch` of `associateArgument`).
* `WritingAgainIsTheSame` – the types that stay in the syntax tree do not change a second writing.
* `ElementsFitTheRange` – an array has the elements its range speaks of, with the bounds it gives.
* `ImplementsArrayValues` – what a statement changes is what it names.
* `LoopsVisitTheirRange` – upward loops assign to every element once, in order, and end. Loops over
  one value, downwards or over a null range do something else, which the model has too; what
  is true of these is in `LoopsAlwaysVisit` (section 4).
* `TypeOK`, one for each machine – that a stack has a bound in the model is a guard of it, and shows nothing
  of the code; what does is `TidyProgramsCompile` for the walk of packages and `NoCallWithoutProgress` for
  the parser.

Every one of them is broken by a faulty form of a modelled definition (the operators marked
"Faulty form" in the modules), which shows that the instances reach the interesting cases.

### Bounds

* `MaxDepth = 4` frames: with three files every chain of distinct files fits, so the crash of the
  stack happens exactly for packages that (transitively) use themselves, and both outcomes
  occur. Files have up to three items: enough for "use, declare, use again" in each of them.
* `unit_generation`: two items per list, because every hazard there needs one construct that
  changes the shared context and one that relies on it; nesting is up to five classes
  (architecture, generate loop, generate loop, process, factory), so differences of depth from 0
  to 4 occur. Items include unknown names, types and ranges, so that each error path is taken.
* `unit_termination` checks type correctness and liveness on single items because the sets of
  syntax trees in the type invariant make it slow on the big instance.

* `tokenizer`: the accept functions look at most two characters past a token, so texts of four
  characters have every pair of neighbouring tokens with both looks; the longer texts are for
  doubled quotes and for ticks, whose reading depends on three characters.
* `parser`: every rule of both grammars is used by some file; two files are cut after every
  word and the two largest after every twentieth, so that the tokens end inside most rules.
* `expressions`: two formals with a default and overloads by one type reach every branch of
  the association; lists of three actuals are one too long for it.
* `kernel`: arrays of up to four elements (`LONGEST`), ranges of both directions, null and of one
  element, integers cut at `LOWEST` so that the loop that runs away has an end in the model.

### Fairness

`WF_vars(Step)` only: `hdlc` is one thread with no I/O it could wait for but reading files,
so it takes its next step as long as there is one. No fairness is put on single actions – at
each point the code leaves just one choice. After the end `Stopped` stutters, so deadlock
checking stays on: a state from which the model has no step would be reported. `Parser` has the same
(`FairSpec`). `Kernel` assumes it of the steps of a loop alone: a process that is in a loop goes on with
it, while the next statement is a choice of the instance. `Kernel` and `Expressions` switch deadlock checking
off: the process, or the program, is at its end.

## 4. Proofs

`ElaborationProofs` proves, for all source trees, command lines, configurations and every
`MaxDepth > 0`:

* `TypeCorrect`: `Spec => []TypeOK`. The invariant is strengthened to `TypeInv`, which adds that the
  frames below the top are at a use clause (`CallersWait`); without it nothing is known of the
  item a return goes back to. One lemma per action.
* `DefinitionsStable`: `Spec => DefinitionsAreStable`, from `TypeInv` and the lemma that every step
  lets the database grow (`StepGrows`).
* `ExitCodeSound`: `Spec => []SettledOrReported`, the meaning of exit code 0. The inductive invariant
  adds that the classes of each frame are those of the units the frame has passed
  (`ClassesInv`), since `findObject` answers from them for the library `WORK`. `StackSettled` and
  `ParsedSettled` are the two halves: the first changes with every step of the top frame, the
  second only when a walk ends.

The second half of `ElaborationProofs` is about what the database and the file information hold in the end:

* `EntriesFaithful`: `Spec => []EntriesAreFaithful`. The property is inductive with `TypeInv` and `Fresh`
  (nothing exists before `Generate`). What it needs is that a walk, once begun, stays on the stack or
  ends up in `parsed` (`WalkedPersists`), and what one step adds to the database (`VisibleStep`,
  `DomainStep`).
* `FileInformationComplete`: `Spec => []FileInformationIsComplete`. The invariant `InfoInv` says it of the walks
  in progress too: every frame above the first has been announced (`WalksAnnounced`), and the units listed are
  those the bottom frame has passed (`BottomListed`), or all of the main file (`EndListed`).
* `LinkageImplemented`: `Spec => ImplementsLinkage`. Every step leaves the stack as it is, starts, moves the
  top, enters a file, returns or ends (`StackStep`); from this follows what becomes needed, which is one object
  when the walk goes past a use clause and nothing else. That a program is accepted only when what it
  needs is defined is `ExitCodeSound`.
* `TidyProgramsPass`: `Spec => []TidyNeverRejected`, the safety half of `TidyProgramsCompile`. A tidy program never
  has an error reported, never comes to an unreadable file, and does not exhaust a C++ stack that can hold a frame
  for every file. The inductive invariant `TidyWalk(rank)` is about the ranking that makes the program tidy: the files
  on the stack are of ever lower rank (`Descends`), so that no file is entered twice and the depth is bounded; none of
  them was walked before (`WalkedOnce`), because a file that was walked has put the package asked for in the database,
  under the library of its directory (`InItsDirectory`); each caller waits for a file that has its package
  (`CallersGet`); and every entry of the database was passed (`OriginsBehind`), so that the unit at hand is new
  in it. `ExitCodeSound` and `EntriesFaithful` supply what is in the database.

The proofs assume only `ConstantsAssumption`, `SourcesAssumption`, `AllIsNoIdentifier`, `OperatorIsNoIdentifier` and,
for the last theorem, `FilesAreFinite`, which TLC evaluates in every run.

`UnitGenerationProofs` proves, for every set of design units and every class tree of loaded packages,

* `ChainIsStack`: `Spec => []ChainIsCallStack`. The inductive invariant is the relation
  `Nested(classes, frames)`: the frames are a path of the tree, each in the class below it, and no class
  is active that has no frame. The second half is what makes the first one inductive: without it
  an active class left behind could turn up in the chain when its sibling closes. Each step is
  shown to be one of three things: `Keeps` (the open classes stay), `Opens` (a class in the innermost one)
  or `Shuts` (that one closes), which is `StepOK`, with one lemma per action.
* `ScopesRefined`: `Spec => ImplementsScopes`. `Keeps`, `Opens` and `Shuts` also say what happens to the
  names declared in the open classes, and are `Declare`, `Open` and `Close` of `LexicalScopes`.

They assume `NodesAssumption` and `FilesAssumption`: what the syntax trees are made of, and that the
classes loaded from other files are closed and at the top. Of the syntax trees four things are assumed that the
records alone do not say: a parameter has no initial value and no constraint to read and is declared as an object; a type does
not read its own literals; and a concurrent assignment becomes a process with this one statement, no
declarations and the sensitivity of `all`, which is how `concurrentSignalAssignment` calls `createProcess`
(`definition.cpp`).

`PartProofs` goes on from there, with the same assumptions. What matters of a step is what it does to the
frames, the places of the classes, `bodies` and `constructed`; every step is shown to be one of seven
kinds (`StepKind`): it `Rests`, `Works` within a phase, `BeginsBody`, `BeginsParts`, `EndsStatements`, `Enters` a
class or `Leaves` one.

* `BodiesAlwaysWhole`: `Spec => []BodiesAreWhole`. The inductive invariant `BodyInv` says what may lie above the
  frame that owns the open body: at most one factory, which has neither declarations nor statements and so
  can open nothing itself.
* `PartsAlwaysInstantiated`: `Spec => []PartsAreInstantiated`. Blocks and generate loops are created before they are
  opened, all other parts when they are closed; so `PartInv` counts exactly one creation for each class but
  those whose frame is still on the stack and which are created last, which have none.
* `ThreadsAlwaysWait`: `Spec => []ThreadsAreThoseThatWait`. `FlagInv` says what the one flag means between the
  steps: when it is set, some wait statement is inside of all open classes; and an open body with a wait
  statement has the flag set or a factory in it. The second part is inductive because a class is opened
  above such a body only when it is the factory of a range (`OpensRange`, from `BodyInv`). Hence the
  disagreement `wait_lost` of section 6 is the only way in which a process that waits becomes a method.

`ReferenceProofs` goes on from `PartProofs` and is about what is found and written. It rests on two facts: a
lookup that has matches has a best one, for there is a deepest class and a first entry in it
(`BestMatch` is a CHOOSE, of which nothing is known otherwise); and the tree of classes only grows, so that
what a frame or an earlier reference has found is still at its place.

* `TypesAlwaysOK`: `Spec => []TypeOK`. A frame refers to variables that its class declares and has a node that is
  of the kind of its class (`GrowInv`), and what the output refers to are classes that exist (`OutputInv`).
* `ReturnsAlwaysTyped`: `Spec => []ReturnsAreTyped`. Nothing resets `returnType` when a function ends, so the
  invariant `ReturnInv` has to say when it is still the right one: for each open function that declares no
  other (`IsPlain`), the type stored is that of its own entry in the class around it. What is open above
  such a function is a factory, never a function (`NothingAbove`).
* `ConcurrentAlwaysSensitive`: `Spec => []ConcurrentIsSensitive`. The process of a concurrent assignment has one
  statement, and what that reads is collected while it is written; `SoloInv` says that nothing is left of it
  afterwards, so no later step of that frame refers to anything.
* `ReferencesAlwaysReach`: `Spec => [](NamesApart /\ SignalsOutside => ReferencesReach)`. A prefix is the difference
  of two levels, counted on the chain that `ChainIsCallStack` makes the stack of the calls (`LevelsAre`); so it
  leads back to the class of the name whenever this is on the chain, and to the unit at hand when the name is
  global (`HereExplained`, `AroundExplained`, `WaitExplained`, `LoopExplained`, `OutsideExplained`: one lemma for each way
  in which the code makes a prefix). That names of global units have the level of a unit is invariant (`UnitsOutermost`), and what was
  right when it was written stays so because the tree grows only (`ExplainedStays`).

  `ReferencesReach` does not hold without a condition. `ReferencesAlwaysExplained` says exactly what
  else can happen, with no hypothesis at all: `isLocal` (`parameters_database.cpp:170-214`) compares names only,
  so that a global unit counts as the one at hand that is merely named like the unit or like what it implements,
  as an architecture `rtl` in a design that uses a package `rtl` (`OnlyNamedAlike`); or a process that is
  sensitive to `all` reads a signal that is an entry of its own, as an alias of a signal is, and the constructor
  around gets a name that only the process has (`NamedFromAround`). `NamesApart` and `SignalsOutside` say that
  a file has neither; all files of the run `unit_generation` satisfy them but those that declare one entity
  twice.

`ParserProofs` proves, for every grammar (only `NeverCalledWithoutProgress` and `UnitsAlwaysWhole` assume anything of
`Rules`) and every list of tokens,

* `TypeCorrect` and `PositionsAlwaysNest`: `Spec => []TypeOK`, `Spec => []PositionsNest`. The inductive
  invariant `IInv` adds to `PositionsNest` the shape of the state (`Shape`): `saved` and `frames` have one length and
  frames have the four fields a parse function needs. Every step is shown to be one of four
  kinds (`StepKind`): `Within` a parse function, `Enters` one, `Leaves` one, or `Ends` the parse.
* `OptionalAlwaysAtomic`: `Spec => OptionalIsAtomic`. Only `Leaves` makes the stack lower, and what it does to
  the caller is the lemma `LeavesTo`.
* `ParserImplementsStream`: `Spec => ImplementsStream`. Leaving the outermost call with an object is
  `Deliver`, ending the parse is `Leave`, all else is a stutter.
* `NeverCalledWithoutProgress`: `Spec => []NoCallWithoutProgress`, for every grammar that is not left
  recursive (`NoLeftRecursion`). The invariant `DescentInv` says that every parse function in progress is at a point of
  its grammar, that those with a call in progress are at that call, and that of two that began at one token
  the inner one has the lower rank. What is assumed of the grammar is independent of the files, and
  evaluated for both grammars (`GrammarsDescend`): so the theorem speaks of every VHDL and every Verilog file.
* `UnitsAlwaysWhole`: `Spec => []UnitsAreWhole`, for every grammar of VHDL that closes its units (`ClosesUnits`). The
  invariant `PhraseInv` says that for every parse function in progress there is a note of the grammar that is true of
  the tokens it has read up to the call it is at, and that each call in progress is the one its caller is at. When a
  rule is over its promise holds of the tokens it spans, so it holds of the end of what the caller has read
  (`NoteFinds`); a rule given up leaves the note of the caller as it was (`NoteGoesOn`). The assumption is evaluated
  for the grammar of the compiler (`GrammarCloses`), so the theorem speaks of every VHDL file, wherever it is cut.
* `ParsesAlwaysDerived`: `Spec => []ParsesAsDerived`, for every relation `Derives` that the rules of derivation close
  (`ClosedByRules`), and so for the least one. The units delivered are phrases of the grammar with the phrases found in
  them, each where the one before ends, and what ends the parse is what the rules derive there. The invariant
  `DerivedInv` says that every parse function in progress comes out as what is left of it does (`Traced`): whatever is
  derived of the rest of it, from where it has come, is derived of the whole of it, from where it began. So a
  call that comes out brings to its caller what the rules derive of it (`CallComesOut`, `CallerTraced`), and an exception
  that no `optional<T>` catches is one that the rules derive of each function in progress, up to the
  unit (`ThrownThrough`, by going down the stack).

They assume `FilesAssumption`: token lists are sequences.

`TokenizerProofs` proves, for every text and every set of keywords, `TokensAlwaysCover`,
`EndedFilesAlwaysRead`, `LinesAlwaysCounted` and `TokensAlwaysWhole`: the invariants `TokensCoverTheText`,
`EndedFilesAreRead`, `LinesAreCounted` and `TokensAreWhole`. The inductive invariant `IInv` is the shape of the
state with the first three of them: that a token ends where the next begins needs the position to lie behind
the last one, and the line count needs the position not to run past the text. A step skips, looks further,
stops or adds a token; that the token added is whole follows from the accept function that read it, and the
tokens before it are left alone. How far a token reaches is computed by the recursive function `Behind`; what
it returns is proved from the least element of the positions it could return (`LeastIs`, `GreatestIs`, from
`WFMin`) instead of by induction. The only assumption is `SourcesAssumption`: texts are sequences of characters.

`KernelProofs` proves, for every enumeration type, every set of units and every process,

* `ElementsAlwaysFit`: `Spec => []ElementsFitTheRange`. The inductive invariant `IInv` has the shape of the arrays,
  with this property for each of them, and what ties the process to its arrays: the alias names one, and each
  statement fits the kinds of those it uses, which no statement changes (`Typed`).
* `KernelImplementsArrayValues`: `Spec => ImplementsArrayValues`. Each statement is `Execute` or `Stop` of
  `ArrayValues`, the rest stutters. The hard ones are aggregates, which the generator writes as a chain of
  calls on the target itself: `others` is written first, then the elements listed are set at indexes that
  count up, then those named, each with the check of its index, so that a failure leaves the first ones set. The proof follows the
  calls one by one over the recursive function `Aggregated`, as an induction over the range of its calls
  (`RangeInduction`, proved from the least counterexample). Of times, the base value of a sum is the sum of the
  base values whatever the units are.
* `LoopsAlwaysVisit` and `LoopsAlwaysLeaveTheirValue`, the safety half of `LoopsVisitTheirRange` for every range,
  whatever its direction: a loop that is left has visited the values from its left to its right bound, once and in
  order, and its array has the value it assigned at each of them. So a descending range is left without a visit, a
  null range `0 downto 1` is run through, and the loop over one value is never left, which is all said by the bounds
  alone. The inductive invariant `LoopInv` says how far a loop has come: its variable is one beyond
  what it has seen, and what it has seen is assigned, as long as no other statement has been executed; that an
  assignment leaves the earlier ones alone is `FoundIs`, from the places of `ArrayValues`.

They assume `LiteralsAssumption` (literals are different strings), the assumptions on units, and
`DesignsAssumption`, which says what the generator can write: only a type that integers index has a
range of its own, and so have its objects (the callback of `printArrayType` evaluates a range only there); an
array is assigned to an array of the same C++ type; an index by a character goes to an array of the
other kind (only an enumeration has `POS` of a character); an alias is of an array of the process.

Model-checked only:

* Liveness: `TidyProgramsCompile` (that hdlc ends; that it ends well is `TidyProgramsPass`), `Terminates` and
  `LoopsVisitTheirRange` (that a loop is left; what it has done then is `LoopsAlwaysVisit`).
* `NamesReachThroughParents`, which does not hold (section 6).
* `MatchesGrammar` and `TestsEndAsExpected` of `MCParser` and the other properties of `Expressions`, whose definitions are
  recursive over syntax trees and grammars: what they compute for every input would need induction over data. What
  `MatchesGrammar` says is proved of the rules of derivation (`ParsesAlwaysDerived`); that the recursive functions of
  `ParserReference` compute the least relation these rules close is not.

## 5. What is not modelled

* In `UnitGeneration`: drivers of resolved signals (`setSignalAssignment`), FILE objects, FOREIGN
  attributes, resolution functions, range attributes of loops, user attributes, the layout of text
  areas and `flush`. An expression is the sequence of the names it reads, and an overload is told
  by the type of a name; what is written for operators, argument lists and attributes is in
  `Expressions`, which takes its scope as given. Names of generated classes are positions, so
  that two classes of one C++ name cannot be told apart (a hazard listed without a property).
  Where several loaded packages declare a name the code takes the first in the order of a hash
  table and reports an error; the model takes one of them and the same error.
* In `Tokenizer` and `Parser`: the texts of errors and of the debug output, and the contents of the syntax
  tree beyond what each rule spans.
* In `Expressions`: range attributes, names selected by a type and elements of records. Names of types are
  in upper case there, as the parser's `toString(true)` makes them, so that the comparison without regard to
  case (`ObjectValueContainer::equalsExact`) is equality.
* In `Kernel`: resolved assignment, interfaces and signals (SystemC), files, identifiers of processes, the
  ranges of enumeration objects.
* Configuration files (`Elaboration` takes them as the maps `LibraryPath` and `PackageFile`), `hdlf`, build scripts,
  IEEE sources, test suites: no state of their own, or input data.

## 6. Disagreements found

1. `spurious_duplicate` – two acyclic packages may lead to one file being entered twice; hdlc then
   says that a package "is already defined", by itself. The program is legal.
2. `unknown_identifier` – `loadPackage` has an error message for an identifier that a package
   lacks, but `GlobalDatabase::setVisible` drops the answer it depends on.
3. `wait_lost` – a wait statement before a loop over a range is forgotten, because the factory of
   the range resets `process_contains_wait`; the process becomes an `SC_METHOD`.
4. `parent_missed` – the range of a physical type is written for the class outside of the factory
   that contains it: a constant of that class lacks its `p->`.
5. A file of another directory that declares a package and then uses the package of that name from `WORK`:
   `findObject` takes the file's own class for it (`parameters_database.cpp:137-145`), so that nothing is loaded, and
   then `setVisible` does not find it under `WORK`; hdlc reports that it could not find `ALL` in the package. It came up
   in the proof of `TidyProgramsPass`, which failed there, and TLC then found it as a violation of
   `TidyProgramsCompile`. `GoodUse` now leaves such a use clause out.
6. `use LIB.PACK."op"` is parsed into a use clause without an identifier (`use_clause.cpp:22-24`), which
   `includes.cpp:39` then reads: the process ends there (`UseOfOperatorSymbol`). No statement of the repository is about
   it, and `GoodUse` leaves this use clause out, too.

## 7. Plan

In order of importance:

1. (done) Elaboration with Linkage; its type correctness, stability and exit code proved.
2. (done) ClassTree, UnitGeneration and LexicalScopes; `ChainIsCallStack` and the refinement of
   LexicalScopes proved.
3. (done) Tokenizer with four theorems; Combinators, both grammars and Parser with seven.
4. (done) Kernel with ArrayValues; ObjectTypes, Overloads and Expressions.
5. (done) Proofs of the refinement of `Linkage` and of the invariants of Elaboration and Tokenizer, and of
   `BodiesAreWhole`, `PartsAreInstantiated`, `ThreadsAreThoseThatWait`, `ReturnsAreTyped` and
   `ConcurrentIsSensitive` of UnitGeneration; of the refinement of `ArrayValues`; of `NoCallWithoutProgress` and
   `UnitsAreWhole`; of when `ReferencesReach` holds; of the safety half of `TidyProgramsCompile`; of what loops
   have done when they are left; of the parser against the rules of derivation of its grammar.
6. Drivers of resolved signals (`setSignalAssignment`) and the constructors that connect them.
7. Range attributes and records in Expressions; the scopes of UnitGeneration as its scopes.
8. Interfaces of the kernel: signals with several drivers and their resolution.
