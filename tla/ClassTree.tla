------------------------------ MODULE ClassTree ------------------------------
(***************************************************************************)
(* The classes that the compiler has generated for one file, and the names *)
(* that are declared in them (generator/parameters.hpp and .cpp,           *)
(* parameters_database.cpp, file_container.cpp, name_converter.cpp).       *)
(*                                                                         *)
(* In C++ a class container has a list of children, and none knows which   *)
(* of them is being written: that is found anew whenever it is needed, by  *)
(* going from the file to its last child, to the last child of that one,   *)
(* and so on as long as they are active.  Here a tree is the sequence of   *)
(* all containers in the order of their creation.  The path of a container *)
(* is the sequence of the positions of those around it and its own.        *)
(*                                                                         *)
(* Packages of other files are in the global database too: they come first *)
(* in the sequence, as classes that are closed.                            *)
(***************************************************************************)
EXTENDS Integers, Sequences, FiniteSets

CONSTANTS Names,     \* names of design units and of objects
          Types,     \* names of types
          NoName,    \* the name of a class that is never looked up
          NoType     \* the type of a thing whose type was not found

ASSUME NamesAssumption ==
  Names \cap Types = {} /\ NoName \notin Names /\ NoType \notin Types

NoClass == 0

UnitKinds  == {"PACKAGE", "PACKAGE_BODY", "ENTITY", "ARCHITECTURE"}
ClassKinds == UnitKinds \cup {"PROCESS", "BLOCK", "GENERATE", "FUNCTION", "FACTORY"}

\* What may be declared: PARAMETER stands for the VARIABLE that an argument
\* of a function is, and ITERATOR for that of a generate loop in the class
\* around the loop.  Neither is a member of the class whose database has it.
ObjectKinds == {"VARIABLE", "SIGNAL", "CONSTANT", "PORT", "PARAMETER", "ITERATOR",
                "ENUM", "FUNCTION"}
Locals      == {"PARAMETER", "ITERATOR"}
Entries     == [name : Names \cup Types, kind : ObjectKinds \cup {"TYPE"},
                type : Types \cup {NoType}]
Classes     == [kind : ClassKinds, name : Names \cup {NoName}, base : Names \cup {NoName},
                path : Seq(Nat), active : BOOLEAN, names : Seq(Entries)]

Entry(name, kind, type) == [name |-> name, kind |-> kind, type |-> type]
-----------------------------------------------------------------------------
(***************************************************************************)
(* FileContainer::traverseClassContainerHierarchy.                         *)
(***************************************************************************)
Depth(t, i)  == Len(t[i].path)
Around(t, i) == SubSeq(t[i].path, 1, Len(t[i].path) - 1)

IsLastChild(t, i) == \A j \in DOMAIN t : Around(t, j) = Around(t, i) => j <= i

\* The containers that the traversal visits.
Chain(t) == {i \in DOMAIN t : \A k \in DOMAIN t[i].path :
               t[t[i].path[k]].active /\ IsLastChild(t, t[i].path[k])}

\* getCurrentClassContainer: the last one visited.
Current(t) ==
  IF Chain(t) = {} THEN NoClass
  ELSE CHOOSE i \in Chain(t) : \A j \in Chain(t) : Depth(t, j) <= Depth(t, i)

CurrentPath(t) == IF Chain(t) = {} THEN <<>> ELSE t[Current(t)].path

\* newClass, endClass and the additions to the database of the class.
NewClass(t, kind, name, base) ==
  Append(t, [kind |-> kind, name |-> name, base |-> base,
             path |-> Append(CurrentPath(t), Len(t) + 1),
             active |-> TRUE, names |-> <<>>])

WithNames(c, active, entries) ==
  [kind |-> c.kind, name |-> c.name, base |-> c.base, path |-> c.path,
   active |-> active, names |-> c.names \o entries]

\* Faulty form: the class around the current one is closed.
EndOuter(t) == LET i == Head(CurrentPath(t)) IN
  [t EXCEPT ![i] = WithNames(t[i], FALSE, <<>>)]

EndClass(t) == [t EXCEPT ![Current(t)] = WithNames(t[Current(t)], FALSE, <<>>)]

\* Faulty form: the database is that of the outermost class.
AddToOuter(t, entries) == LET i == Head(CurrentPath(t)) IN
  [t EXCEPT ![i] = WithNames(t[i], TRUE, entries)]

AddEntries(t, entries) ==
  [t EXCEPT ![Current(t)] = WithNames(t[Current(t)], TRUE, entries)]
-----------------------------------------------------------------------------
(***************************************************************************)
(* findOneBase: a name is looked for among all global objects first, and   *)
(* only when there is none in the classes on the chain.  Whether a use     *)
(* clause has made a global object visible is not asked.                   *)
(***************************************************************************)
IsGlobal(t, i) ==
  /\ t[i].kind \in {"PACKAGE", "ENTITY"} /\ ~t[i].active
  /\ \A j \in 1 .. i - 1 : t[j].kind \in {"PACKAGE", "ENTITY"} => t[j].name # t[i].name

Found(t, i, name, kinds, types) ==
  {<<i, n>> : n \in {m \in DOMAIN t[i].names :
     LET e == t[i].names[m] IN e.name = name /\ e.kind \in kinds /\ e.type \in types}}

FoundIn(t, cs, name, kinds, types) == UNION {Found(t, i, name, kinds, types) : i \in cs}

FindAllGlobal(t, name, kinds, types) ==
  FoundIn(t, {i \in DOMAIN t : IsGlobal(t, i)}, name, kinds, types)
FindAllLocal(t, name, kinds, types) == FoundIn(t, Chain(t), name, kinds, types)

Matches(t, name, kinds, types) ==
  LET global == FindAllGlobal(t, name, kinds, types)
  IN  IF global # {} THEN global ELSE FindAllLocal(t, name, kinds, types)

\* findBestMatch: the deepest match, the first one of its class.  Among global
\* matches the order is that of a hash table: any of them, but then the name
\* is ambiguous as well.
BestMatch(t, ms) ==
  CHOOSE m \in ms : \A o \in ms :
    \/ Depth(t, o[1]) < Depth(t, m[1])
    \/ Depth(t, o[1]) = Depth(t, m[1]) /\ (o[1] = m[1] => m[2] <= o[2])

\* "More than one match of": two matches at one level, be it the deepest or
\* one that a deeper match hides.
Ambiguous(t, ms) ==
  \E m, o \in ms : m # o /\ Depth(t, m[1]) = Depth(t, o[1])

EntryOf(t, m) == t[m[1]].names[m[2]]

\* isLocal, for a match that the global database gave: its unit is the one
\* being generated, or the one that this one is the implementation of.
IsLocal(t, m) ==
  \/ m[1] \in Chain(t)
  \/ LET top == t[CurrentPath(t)[1]]
     IN  t[m[1]].name \in {top.name, top.base}
-----------------------------------------------------------------------------
(***************************************************************************)
(* getParentPrefix: the number of "p->" before a name.  A hierarchy counts *)
(* the library as a level.                                                 *)
(***************************************************************************)
\* Faulty form: the library is forgotten.
LevelInFile(t) == IF Chain(t) = {} THEN 0 ELSE Depth(t, Current(t))

HierarchyLevel(t) == IF Chain(t) = {} THEN 0 ELSE Depth(t, Current(t)) + 1
HierarchySize(t, m) == Depth(t, m[1]) + 1

ParentPrefix(t, offset) ==
  IF HierarchyLevel(t) + offset > 0 THEN HierarchyLevel(t) + offset ELSE 0

\* The name of the match m, written into the class with the position at. how
\* tells where the prefix was made: "here", in this class; "outside", before
\* the class was opened that the name is written into; "plain", not at all.
Reference(t, at, m, offset) ==
  [at |-> at, hops |-> ParentPrefix(t, offset - HierarchySize(t, m)), to |-> m,
   how |-> "here"]
Outside(t, at, m) ==
  [at |-> at, hops |-> ParentPrefix(t, -1 - HierarchySize(t, m)), to |-> m,
   how |-> "outside"]
Plain(at, m) == [at |-> at, hops |-> 0, to |-> m, how |-> "plain"]

\* Names of types and enumeration values are resolved by C++ itself, and a
\* global object of another unit has a prefix that names it.
HasPrefix(t, m) ==
  EntryOf(t, m).kind \notin {"TYPE", "ENUM"} /\ IsLocal(t, m)

\* What a chain of n times "p->" leads to from the class at.
Ancestor(t, at, n) ==
  IF n < Depth(t, at) THEN t[at].path[Depth(t, at) - n] ELSE NoClass

\* An architecture inherits from its entity, a package body from its package.
Inherits(t, i, j) ==
  \/ t[i].kind = "ARCHITECTURE" /\ t[j].kind = "ENTITY" /\ t[i].base = t[j].name
  \/ t[i].kind = "PACKAGE_BODY" /\ t[j].kind = "PACKAGE" /\ t[i].name = t[j].name

Reaches(t, r) ==
  LET a == Ancestor(t, r.at, r.hops)
  IN  a # NoClass /\ (a = r.to[1] \/ Inherits(t, a, r.to[1]))
=============================================================================
