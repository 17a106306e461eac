--------------------------- MODULE MCElaboration ---------------------------
(***************************************************************************)
(* Instances of Elaboration: small source trees, each run exploring all of *)
(* them from its initial states.                                           *)
(***************************************************************************)
EXTENDS Elaboration, SequencesExt, TLC

CONSTANTS work, std, lib, standard, a, b, c, d, x, y, here, there, system, m, f, g, h

MCLibraries   == {work, std, lib}
MCNames       == {standard, a, b, c, d}
MCIdentifiers == {x, y}
MCDirs        == {here, there, system}
MCFiles       == {m, f, g, h}

Use(l, n)       == [kind |-> "use", lib |-> l, name |-> n, id |-> ALL]
UseOne(l, n, i) == [kind |-> "use", lib |-> l, name |-> n, id |-> i]
UseOperator(l, n) == UseOne(l, n, OPERATOR)
Package(n, ids) == [kind |-> "package", name |-> n, declares |-> ids]
Unit(kind, n)   == [kind |-> kind, name |-> n, declares |-> {}]

SequencesOf(items, n) == UNION {[1 .. k -> items] : k \in 0 .. n}

\* A tree in which only the files in the domain of contents exist.
Tree(contents) ==
  [p \in Paths |-> IF p \in DOMAIN contents THEN contents[p] ELSE Unreadable]

MCLibraryPath == [l \in MCLibraries |->
  CASE l = lib -> there [] l = std -> system [] OTHER -> NoPath]

\* c is in no .jhdl.ini; d here, and b there, are said to be in a file with
\* the name of the main file.
MCPackageFile == [dir \in MCDirs |-> [n \in MCNames |->
  CASE dir = here /\ n = a -> f [] dir = here /\ n = b -> g [] dir = here /\ n = d -> m
    [] dir = there /\ n = a -> f [] dir = there /\ n = b -> m
    [] dir = system /\ n = standard -> h
    [] OTHER -> NoFile]]

(***************************************************************************)
(* Packages of the library WORK in two files f and g that may use each     *)
(* other, themselves, or hold both packages; some use an operator symbol.  *)
(***************************************************************************)
NestedItems == {Use(work, a), Use(work, b), Package(a, {x}), Package(b, {y})}
NestedFiles == SequencesOf(NestedItems, 2) \cup
               {<<Package(a, {x}), Use(work, b), Package(b, {y})>>,
                <<Package(a, {x}), UseOperator(work, b)>>,
                <<Package(a, {x}), Unit("body", a), Unit("entity", d)>>,
                <<Unit("entity", a), Unit("architecture", b)>>,
                Unreadable}
MainItems   == {Use(work, a), UseOne(work, b, y), Package(a, {y}), Unit("body", a),
                Unit("entity", d), Unit("architecture", d)}
MainFiles   == SequencesOf(MainItems, 2) \cup
               {<<UseOne(work, a, y), Use(work, c), Use(work, d)>>,
                <<Use(work, b), UseOperator(work, b)>>,
                <<Package(d, {}), Use(work, d), Unit("body", d)>>,
                <<Use(work, b), Use(work, a), Unit("entity", d), Unit("architecture", d)>>}

WorkSources == {Tree((<<here, m>> :> mc) @@ (<<here, f>> :> fc) @@ (<<here, g>> :> gc)) :
                  mc \in MainFiles, fc \in NestedFiles, gc \in NestedFiles}
PlainCommands == {[library |-> work, standardPackage |-> FALSE, config |-> "none"]}

(***************************************************************************)
(* Several libraries: the implicit use of STD.STANDARD, packages of the    *)
(* same name in two libraries, a main file compiled into a library other   *)
(* than WORK, and a configuration that is absent or unreadable.            *)
(***************************************************************************)
LibraryMain == SequencesOf({Use(work, a), Use(lib, a), UseOne(lib, b, x),
                            Use(std, standard), Package(a, {x}), Unit("entity", a)}, 3)
               \cup {<<UseOperator(lib, a), Unit("entity", a)>>}
LibraryHere == {Unreadable, <<Package(a, {x})>>, <<Use(lib, a), Package(a, {x})>>,
                <<Unit("entity", a), Package(b, {y})>>}
LibraryThere == {Unreadable, <<Package(b, {y})>>, <<Package(a, {y})>>,
                 <<Use(work, a), Package(a, {y})>>, <<Package(a, {y}), Use(work, a)>>,
                 <<Package(a, {x}), Unit("entity", d), Unit("architecture", d)>>}
Standard == {Unreadable, <<Package(standard, {x})>>,
             <<Use(std, standard), Package(standard, {x})>>}

LibrarySources ==
  {Tree((<<here, m>> :> mc) @@ (<<here, f>> :> hc) @@ (<<there, f>> :> tc)
        @@ (<<system, h>> :> sc)) :
     mc \in LibraryMain, hc \in LibraryHere, tc \in LibraryThere, sc \in Standard}

LibraryCommands ==
  {[library |-> l, standardPackage |-> p, config |-> k] :
     l \in {work, lib}, p \in BOOLEAN, k \in {"loaded"}}
  \cup {[library |-> work, standardPackage |-> FALSE, config |-> "unreadable"],
        [library |-> lib, standardPackage |-> FALSE, config |-> "none"]}

(***************************************************************************)
(* Three packages in two files: a alone in f, b and c in g, where f uses c *)
(* and g uses a before it declares c.  No package uses itself, even        *)
(* through others.                                                         *)
(***************************************************************************)
InterleavedFiles ==
  {Tree((<<here, m>> :> <<Use(work, a)>>)
        @@ (<<here, f>> :> <<Use(work, b), Package(a, {x})>>)
        @@ (<<here, g>> :> <<Package(b, {y}), Use(work, a), Package(c, {})>>))}

\* A use clause of an identifier that the package does not declare.
UnknownIdentifier ==
  {Tree((<<here, m>> :> <<UseOne(work, b, x)>>) @@ (<<here, g>> :> <<Package(b, {y})>>))}
=============================================================================
