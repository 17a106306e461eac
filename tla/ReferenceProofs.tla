--------------------------- MODULE ReferenceProofs ---------------------------
(***************************************************************************)
(* What UnitGeneration finds and writes, for every set of syntax trees:    *)
(* the types of the variables, what a return statement expects, what a     *)
(* concurrent signal assignment is sensitive to, and where the "p->" of a  *)
(* name lead to.                                                           *)
(*                                                                         *)
(* All of them rest on two facts.  The best of the matches of a name is    *)
(* one of them: there is a deepest class, and in it a first entry.  And    *)
(* the tree of classes only grows: a class keeps what it is, and its       *)
(* entries keep their places.                                              *)
(***************************************************************************)
EXTENDS PartProofs

-----------------------------------------------------------------------------
(* The best match.                                                         *)

IsMatch(t, m) ==
  /\ m = <<m[1], m[2]>>
  /\ m[1] \in 1 .. Len(t)
  /\ m[2] \in DOMAIN t[m[1]].names

LEMMA NamesHave ==
  ASSUME NEW t, IsTree(t), NEW i \in 1 .. Len(t)
  PROVE  /\ Depth(t, i) \in Nat /\ IsSequence(t[i].names)
         /\ DOMAIN t[i].names = 1 .. Len(t[i].names) /\ Len(t[i].names) \in Nat
<1>1. ClassOK(t, i)
  BY DEF IsTree
<1>2. t[i].path \in Seq(1 .. i) /\ IsSequence(t[i].names)
  BY <1>1 DEF ClassOK
<1>3. QED
  BY <1>2, LenProperties, SequenceHas DEF Depth

\* There is a deepest class.
LEMMA DepthsBounded ==
  ASSUME NEW t, IsTree(t)
  PROVE  \E b \in Nat : \A i \in 1 .. Len(t) : Depth(t, i) <= b
<1> DEFINE B(n) == \E b \in Nat : \A i \in 1 .. n : Depth(t, i) <= b
           S == {n \in Nat : n <= Len(t) /\ ~ B(n)}
<1>1. Len(t) \in Nat
  BY SequenceHas DEF IsTree
<1>2. B(0)
  OBVIOUS
<1>3. ASSUME NEW n \in Nat, n + 1 <= Len(t), B(n) PROVE B(n + 1)
  <2>1. PICK b \in Nat : \A i \in 1 .. n : Depth(t, i) <= b
    BY <1>3
  <2>2. PICK d \in Nat : d = Depth(t, n + 1)
    BY <1>1, <1>3, NamesHave
  <2>3. PICK c \in Nat : b <= c /\ d <= c
    <3>1. b + d \in Nat /\ b <= b + d /\ d <= b + d
      OBVIOUS
    <3>2. QED
      BY <3>1
  <2>4. ASSUME NEW i \in 1 .. n + 1 PROVE Depth(t, i) <= c
    <3>1. CASE i = n + 1
      BY <2>2, <2>3, <3>1
    <3>2. CASE i # n + 1
      <4>1. i \in 1 .. n /\ i \in 1 .. Len(t)
        BY <1>1, <1>3, <3>2
      <4>2. Depth(t, i) \in Nat /\ Depth(t, i) <= b
        BY <2>1, <4>1, NamesHave
      <4>3. QED
        BY <2>3, <4>2
    <3>3. QED
      BY <3>1, <3>2
  <2>5. QED
    BY <2>3, <2>4
<1> HIDE DEF B
<1>4. ASSUME NEW m \in S PROVE FALSE
  <2>1. S \in SUBSET Nat /\ S # {}
    BY <1>4
  <2>2. PICK n \in S : \A k \in S : n <= k
    BY <2>1, LeastIs
  <2>3. n \in Nat /\ n # 0 /\ n <= Len(t) /\ ~ B(n)
    BY <1>2, <2>2
  <2>4. n - 1 \in Nat /\ (n - 1) + 1 = n /\ n - 1 <= Len(t) /\ ~ (n <= n - 1)
    BY <1>1, <2>3
  <2>5. B(n - 1)
    BY <2>2, <2>4
  <2>6. QED
    BY <1>3, <2>3, <2>4, <2>5
<1>5. B(Len(t))
  BY <1>1, <1>4
<1>6. QED
  BY <1>5 DEF B

\* findBestMatch finds one of the matches, and none is deeper.
LEMMA BestIs ==
  ASSUME NEW t, IsTree(t), NEW ms, ms # {}, \A m \in ms : IsMatch(t, m)
  PROVE  /\ BestMatch(t, ms) \in ms
         /\ \A o \in ms : Depth(t, o[1]) <= Depth(t, BestMatch(t, ms)[1])
<1> DEFINE Q(m) == \A o \in ms :
              \/ Depth(t, o[1]) < Depth(t, m[1])
              \/ Depth(t, o[1]) = Depth(t, m[1]) /\ (o[1] = m[1] => m[2] <= o[2])
<1>1. \A m \in ms : m[1] \in 1 .. Len(t) /\ Depth(t, m[1]) \in Nat /\ m[2] \in Nat
  BY NamesHave DEF IsMatch
<1>2. PICK m \in ms : \A o \in ms : Depth(t, o[1]) <= Depth(t, m[1])
  <2> DEFINE D == {Depth(t, m[1]) : m \in ms}
  <2>1. PICK b \in Nat : \A i \in 1 .. Len(t) : Depth(t, i) <= b
    BY DepthsBounded
  <2>2. D \in SUBSET Nat /\ D # {} /\ \A d \in D : d <= b
    BY <1>1, <2>1
  <2>3. PICK d \in D : \A e \in D : e <= d
    BY <2>2, GreatestIs
  <2>4. PICK m \in ms : d = Depth(t, m[1])
    BY <2>3
  <2>5. QED
    BY <2>3, <2>4
<1>3. PICK n \in ms : n[1] = m[1] /\ \A o \in ms : o[1] = m[1] => n[2] <= o[2]
  <2> DEFINE O == {o \in ms : o[1] = m[1]}
             N == {o[2] : o \in O}
  <2>1. N \in SUBSET Nat /\ N # {}
    BY <1>1
  <2>2. PICK k \in N : \A l \in N : k <= l
    BY <2>1, LeastIs
  <2>3. PICK n \in O : n[2] = k
    BY <2>2
  <2>4. QED
    BY <2>2, <2>3
<1>4. Q(n)
  <2>1. SUFFICES ASSUME NEW o \in ms
                 PROVE  \/ Depth(t, o[1]) < Depth(t, n[1])
                        \/ Depth(t, o[1]) = Depth(t, n[1]) /\ (o[1] = n[1] => n[2] <= o[2])
    OBVIOUS
  <2>2. Depth(t, o[1]) \in Nat /\ Depth(t, n[1]) \in Nat /\ Depth(t, o[1]) <= Depth(t, n[1])
    BY <1>1, <1>2, <1>3
  <2>3. o[1] = n[1] => n[2] <= o[2]
    BY <1>3
  <2>4. QED
    BY <2>2, <2>3
<1>5. BestMatch(t, ms) = CHOOSE o \in ms : Q(o)
  BY DEF BestMatch
<1> HIDE DEF Q
<1>6. BestMatch(t, ms) \in ms /\ Q(BestMatch(t, ms))
  BY <1>4, <1>5
<1>7. ASSUME NEW o \in ms PROVE Depth(t, o[1]) <= Depth(t, BestMatch(t, ms)[1])
  <2>1. /\ Depth(t, o[1]) \in Nat /\ Depth(t, BestMatch(t, ms)[1]) \in Nat
        /\ \/ Depth(t, o[1]) < Depth(t, BestMatch(t, ms)[1])
           \/ Depth(t, o[1]) = Depth(t, BestMatch(t, ms)[1])
    BY <1>1, <1>6 DEF Q
  <2>2. QED
    BY <2>1
<1>8. QED
  BY <1>6, <1>7

\* What is found: an entry of the name, in a class that is global or open.
IsFoundAs(t, m, name, kinds, types) ==
  /\ IsMatch(t, m)
  /\ IsGlobal(t, m[1]) \/ m[1] \in Chain(t)
  /\ EntryOf(t, m).name = name
  /\ EntryOf(t, m).kind \in kinds
  /\ EntryOf(t, m).type \in types

LEMMA FoundIs ==
  ASSUME NEW t, NEW cs, cs \subseteq 1 .. Len(t), NEW name, NEW kinds, NEW types,
         NEW m \in FoundIn(t, cs, name, kinds, types)
  PROVE  /\ IsMatch(t, m) /\ m[1] \in cs
         /\ EntryOf(t, m).name = name
         /\ EntryOf(t, m).kind \in kinds
         /\ EntryOf(t, m).type \in types
<1>1. PICK i \in cs : m \in Found(t, i, name, kinds, types)
  BY DEF FoundIn
<1>2. PICK n \in DOMAIN t[i].names :
        /\ m = <<i, n>>
        /\ t[i].names[n].name = name /\ t[i].names[n].kind \in kinds
        /\ t[i].names[n].type \in types
  BY <1>1 DEF Found
<1>3. m[1] = i /\ m[2] = n
  BY <1>2
<1>4. QED
  BY <1>2, <1>3 DEF IsMatch, EntryOf

LEMMA MatchesAre ==
  ASSUME NEW t, IsTree(t), NEW name, NEW kinds, NEW types
  PROVE  /\ \A m \in Matches(t, name, kinds, types) : IsFoundAs(t, m, name, kinds, types)
         /\ \A m \in FindAllGlobal(t, name, kinds, types) : IsFoundAs(t, m, name, kinds, types)
         /\ \A m \in FindAllLocal(t, name, kinds, types) : IsFoundAs(t, m, name, kinds, types)
<1>1. DOMAIN t = 1 .. Len(t)
  BY SequenceHas DEF IsTree
<1>2. {i \in DOMAIN t : IsGlobal(t, i)} \subseteq 1 .. Len(t) /\ Chain(t) \subseteq 1 .. Len(t)
  BY <1>1 DEF Chain
<1>3. \A m \in FindAllGlobal(t, name, kinds, types) : IsFoundAs(t, m, name, kinds, types)
  BY <1>2, FoundIs DEF FindAllGlobal, IsFoundAs
<1>4. \A m \in FindAllLocal(t, name, kinds, types) : IsFoundAs(t, m, name, kinds, types)
  BY <1>2, FoundIs DEF FindAllLocal, IsFoundAs
<1>5. QED
  BY <1>3, <1>4 DEF Matches

LEMMA BestFound ==
  ASSUME NEW t, IsTree(t), NEW name, NEW kinds, NEW types,
         NEW ms, ms # {}, \A m \in ms : IsFoundAs(t, m, name, kinds, types)
  PROVE  BestMatch(t, ms) \in ms /\ IsFoundAs(t, BestMatch(t, ms), name, kinds, types)
<1>1. \A m \in ms : IsMatch(t, m)
  BY DEF IsFoundAs
<1>2. QED
  BY <1>1, BestIs

LEMMA BestValue ==
  ASSUME IInv, NEW name, NEW types, Values(name, types) # {}
  PROVE  /\ Best(Values(name, types)) \in Values(name, types)
         /\ IsFoundAs(classes, Best(Values(name, types)), name, ObjectKinds, types)
<1>1. IsTree(classes)
  BY DEF IInv, Nested
<1>2. QED
  BY <1>1, MatchesAre, BestFound DEF Values, Best

LEMMA BestType ==
  ASSUME IInv, NEW name, TypesNamed(name) # {}
  PROVE  IsFoundAs(classes, Best(TypesNamed(name)), name, {"TYPE"}, AnyType)
<1>1. IsTree(classes)
  BY DEF IInv, Nested
<1>2. QED
  BY <1>1, MatchesAre, BestFound DEF TypesNamed, Best

\* What a loop runs over.
LEMMA IterationIs ==
  ASSUME IInv, NEW item
  PROVE  /\ Iterated(item) # {} =>
              IsFoundAs(classes, Best(Iterated(item)), item.iteration, AnyKind, AnyType)
         /\ \A ms \in SUBSET Iterated(item) : \A m \in IterationName(item, ms) :
              IsFoundAs(classes, m, item.iteration, AnyKind, AnyType)
<1>1. IsTree(classes)
  BY DEF IInv, Nested
<1>2. ASSUME NEW ms \in SUBSET Iterated(item), ms # {}
      PROVE  IsFoundAs(classes, Best(ms), item.iteration, AnyKind, AnyType)
  BY <1>1, <1>2, MatchesAre, BestFound DEF Iterated, Best
<1>3. QED
  BY <1>2 DEF IterationName

\* What an expression reads.
LEMMA ReadsAre ==
  ASSUME IInv, NEW reads \in Reads, NEW types, NEW m \in BestOf(reads, types)
  PROVE  \E n \in DOMAIN reads : IsFoundAs(classes, m, reads[n], ObjectKinds, types)
<1>1. PICK n \in FoundNames(reads, types) : m = Best(Values(reads[n], types))
  BY DEF BestOf
<1>2. n \in DOMAIN reads /\ \A k \in 1 .. n : IsFound(reads, types, k)
  BY <1>1 DEF FoundNames
<1>3. n \in 1 .. n
  <2>1. DOMAIN reads = 1 .. Len(reads) /\ Len(reads) \in Nat
    BY LenProperties DEF Reads
  <2>2. QED
    BY <1>2, <2>1
<1>4. Values(reads[n], types) # {}
  BY <1>2, <1>3 DEF IsFound
<1>5. QED
  BY <1>1, <1>2, <1>4, BestValue

-----------------------------------------------------------------------------
(* The nodes of syntax trees, by their kind.                               *)

LEMMA DeclTyped ==
  ASSUME NEW d \in Declarations
  PROVE  /\ d.node = "type" =>
              /\ d.name \in Types /\ d.base \in AnyType
              /\ d.literals \in Reads /\ d.reads \in Reads
         /\ d.node = "subtype" => d.name \in Types /\ d.base \in Types /\ d.reads \in Reads
         /\ d.node = "object" =>
              /\ d.name \in Names /\ d.type \in Types
              /\ d.range \in Reads /\ d.reads \in Reads
              /\ d.kind \in {"VARIABLE", "SIGNAL", "CONSTANT", "PORT", "PARAMETER"}
         /\ d.node = "alias" => d.name \in Names /\ d.of \in Names /\ d.reads \in Reads
         /\ d.node = "function" =>
              /\ d.name \in Names /\ d.type \in AnyType
              /\ d.parameters \in Seq(Declarations) /\ d.decls \in Seq(Declarations)
              /\ d.stmts \in Seq(Statements)
         /\ d.node \in {"type", "subtype", "object", "alias", "function"}
BY NodesAssumption DEF DeclarationNodes, AnyType

LEMMA StmtTyped ==
  ASSUME NEW s \in Statements
  PROVE  /\ s.node = "call" => s.name \in Names /\ s.reads \in Reads
         /\ s.node = "return" => s.reads \in Reads
         /\ s.node = "assignment" =>
              s.target \in Names /\ s.reads \in Reads /\ s.signal \in BOOLEAN
         /\ s.node = "condition" => s.reads \in Reads /\ s.body \in Seq(Statements)
         /\ s.node = "for" =>
              /\ s.name \in Names /\ s.iteration \in Iterations /\ s.reads \in Reads
              /\ s.body \in Seq(Statements)
         /\ s.node \in {"wait", "call", "return", "assignment", "condition", "for"}
BY NodesAssumption DEF StatementNodes

LEMMA ConcTyped ==
  ASSUME NEW c \in Concurrents
  PROVE  /\ c.node = "process" =>
              /\ c.sensitivity \in Reads /\ c.all \in BOOLEAN /\ c.concurrent \in BOOLEAN
              /\ c.decls \in Seq(Declarations) /\ c.stmts \in Seq(Statements)
         /\ c.node = "block" => c.decls \in Seq(Declarations) /\ c.conc \in Seq(Concurrents)
         /\ c.node = "generate" =>
              /\ c.name \in Names /\ c.iteration \in Iterations /\ c.reads \in Reads
              /\ c.decls \in Seq(Declarations) /\ c.conc \in Seq(Concurrents)
         /\ c.node = "instance" => c.formals \in Reads /\ c.actuals \in Reads
         /\ c.node \in {"process", "block", "generate", "instance"}
BY NodesAssumption DEF ConcurrentNodes

LEMMA UnitTyped ==
  ASSUME NEW u \in Units
  PROVE  /\ u.node \in UnitKinds /\ u.name \in Names /\ u.base \in Names \cup {NoName}
         /\ u.decls \in Seq(Declarations) /\ u.conc \in Seq(Concurrents)
BY NodesAssumption DEF UnitNodes

-----------------------------------------------------------------------------
(* How the tree of classes grows.                                          *)

EntriesStay(t, u, i) ==
  /\ DOMAIN t[i].names \subseteq DOMAIN u[i].names
  /\ \A n \in DOMAIN t[i].names : u[i].names[n] = t[i].names[n]

ClassStays(t, u, i) ==
  /\ u[i].kind = t[i].kind /\ u[i].name = t[i].name /\ u[i].base = t[i].base
  /\ u[i].path = t[i].path
  /\ EntriesStay(t, u, i)

Grows(t, u) ==
  /\ Len(t) <= Len(u)
  /\ \A i \in 1 .. Len(t) : ClassStays(t, u, i)

\* Entries are added behind those that there are; one class is replaced.
Joins(s, r, es)        == s = r \o es
Replaces(u, t, i, d) == u = [t EXCEPT ![i] = d]

LEMMA JoinedIs ==
  ASSUME NEW s, NEW r, NEW es, IsSequence(r), IsSequence(es), Joins(s, r, es)
  PROVE  /\ Len(s) = Len(r) + Len(es) /\ Len(r) \in Nat /\ Len(es) \in Nat
         /\ DOMAIN s = 1 .. Len(r) + Len(es)
         /\ DOMAIN r = 1 .. Len(r) /\ DOMAIN es = 1 .. Len(es)
         /\ \A n \in 1 .. Len(r) : s[n] = r[n]
         /\ \A n \in 1 .. Len(es) : s[Len(r) + n] = es[n]
<1> DEFINE R == {r[n] : n \in DOMAIN r} \cup {es[n] : n \in DOMAIN es}
<1>1. r \in Seq(R) /\ es \in Seq(R)
  BY SeqMonotonic DEF IsSequence
<1> HIDE DEF R
<1>2. /\ r \o es \in Seq(R) /\ Len(r \o es) = Len(r) + Len(es)
      /\ \A i \in 1 .. Len(r) + Len(es) :
           (r \o es)[i] = IF i <= Len(r) THEN r[i] ELSE es[i - Len(r)]
  BY <1>1, ConcatProperties
<1>3. /\ s \in Seq(R) /\ Len(s) = Len(r) + Len(es)
      /\ \A i \in 1 .. Len(r) + Len(es) :
           s[i] = IF i <= Len(r) THEN r[i] ELSE es[i - Len(r)]
  BY <1>2 DEF Joins
<1>4. /\ DOMAIN r = 1 .. Len(r) /\ DOMAIN es = 1 .. Len(es) /\ DOMAIN s = 1 .. Len(s)
      /\ Len(r) \in Nat /\ Len(es) \in Nat
  BY <1>1, <1>3, LenProperties
<1>5. QED
  BY <1>3, <1>4

\* One class is replaced by one that is what it was, with more entries.
LEMMA ReplacedGrows ==
  ASSUME NEW t, IsTree(t), NEW i \in 1 .. Len(t), NEW d, NEW es, IsSequence(es),
         d.kind = t[i].kind, d.name = t[i].name, d.base = t[i].base, d.path = t[i].path,
         Joins(d.names, t[i].names, es),
         NEW u, Replaces(u, t, i, d)
  PROVE  Grows(t, u) /\ Len(u) = Len(t) /\ u[i] = d
<1>1. IsSequence(t[i].names)
  BY NamesHave
<1>2. /\ DOMAIN t[i].names \subseteq DOMAIN d.names
      /\ \A n \in DOMAIN t[i].names : d.names[n] = t[i].names[n]
  <2> DEFINE r == t[i].names
             s == d.names
  <2> HIDE DEF r, s
  <2>1. IsSequence(r) /\ Joins(s, r, es)
    BY <1>1 DEF r, s
  <2>2. /\ DOMAIN s = 1 .. Len(r) + Len(es) /\ DOMAIN r = 1 .. Len(r)
        /\ Len(r) \in Nat /\ Len(es) \in Nat /\ \A n \in 1 .. Len(r) : s[n] = r[n]
    BY <2>1, JoinedIs
  <2>3. DOMAIN r \subseteq DOMAIN s /\ \A n \in DOMAIN r : s[n] = r[n]
    BY <2>2
  <2>4. QED
    BY <2>3 DEF r, s
<1>3. /\ Len(u) = Len(t) /\ Len(t) \in Nat
      /\ \A j \in 1 .. Len(t) : u[j] = IF j = i THEN d ELSE t[j]
  BY ReplacedIs, SequenceHas DEF IsTree, Replaces
<1>4. ASSUME NEW j \in 1 .. Len(t) PROVE ClassStays(t, u, j)
  <2>1. CASE j = i
    BY <1>2, <1>3, <2>1 DEF ClassStays, EntriesStay
  <2>2. CASE j # i
    BY <1>3, <2>2 DEF ClassStays, EntriesStay
  <2>3. QED
    BY <2>1, <2>2
<1>5. Len(t) <= Len(u) /\ u[i] = d
  BY <1>3
<1>6. QED
  BY <1>3, <1>4, <1>5 DEF Grows

LEMMA AddGrows ==
  ASSUME NEW t, NEW fs, Nested(t, fs), fs # <<>>, NEW es, IsSequence(es),
         NEW i, i = fs[Len(fs)].id, NEW u, u = AddEntries(t, es)
  PROVE  /\ Grows(t, u) /\ Len(u) = Len(t)
         /\ i \in 1 .. Len(t) /\ Joins(u[i].names, t[i].names, es)
<1> DEFINE d == WithNames(t[i], TRUE, es)
<1>1. i = Current(t) /\ Len(fs) \in 1 .. Len(fs)
  BY CurrentIsTop
<1>2. i \in 1 .. Len(t) /\ IsTree(t)
  BY <1>1 DEF Nested, IsOpen
<1>3. /\ d.kind = t[i].kind /\ d.name = t[i].name /\ d.base = t[i].base
      /\ d.path = t[i].path /\ Joins(d.names, t[i].names, es)
  BY DEF WithNames, Joins
<1>4. Replaces(u, t, i, d)
  BY <1>1 DEF AddEntries, Replaces
<1> HIDE DEF d
<1>5. Grows(t, u) /\ Len(u) = Len(t) /\ u[i] = d
  BY <1>2, <1>3, <1>4, ReplacedGrows
<1>6. QED
  BY <1>2, <1>3, <1>5

LEMMA EndGrows ==
  ASSUME NEW t, NEW fs, Nested(t, fs), fs # <<>>, NEW u, u = EndClass(t)
  PROVE  Grows(t, u) /\ Len(u) = Len(t)
<1> DEFINE i == Current(t)
           d == WithNames(t[i], FALSE, <<>>)
<1>1. i = fs[Len(fs)].id /\ Len(fs) \in 1 .. Len(fs)
  BY CurrentIsTop
<1>2. i \in 1 .. Len(t) /\ IsTree(t) /\ IsSequence(<<>>)
  BY <1>1, EntriesAreSequences DEF Nested, IsOpen
<1>3. /\ d.kind = t[i].kind /\ d.name = t[i].name /\ d.base = t[i].base
      /\ d.path = t[i].path /\ Joins(d.names, t[i].names, <<>>)
  BY DEF WithNames, Joins
<1>4. Replaces(u, t, i, d)
  BY DEF EndClass, Replaces
<1> HIDE DEF d, i
<1>5. QED
  BY <1>2, <1>3, <1>4, ReplacedGrows

LEMMA NewGrows ==
  ASSUME NEW t, IsTree(t), NEW kind, NEW name, NEW base,
         NEW u, u = NewClass(t, kind, name, base)
  PROVE  /\ Grows(t, u) /\ Len(u) = Len(t) + 1
         /\ u[Len(t) + 1].kind = kind /\ u[Len(t) + 1].name = name
         /\ u[Len(t) + 1].base = base
         /\ u[Len(t) + 1].path = Append(CurrentPath(t), Len(t) + 1)
<1> DEFINE c == [kind |-> kind, name |-> name, base |-> base,
                 path |-> Append(CurrentPath(t), Len(t) + 1),
                 active |-> TRUE, names |-> <<>>]
<1>1. u = Append(t, c)
  BY DEF NewClass
<1>2. /\ c.kind = kind /\ c.name = name /\ c.base = base
      /\ c.path = Append(CurrentPath(t), Len(t) + 1)
  OBVIOUS
<1> HIDE DEF c
<1>3. /\ Len(t) \in Nat /\ Len(u) = Len(t) + 1 /\ u[Len(t) + 1] = c
      /\ \A i \in 1 .. Len(t) : u[i] = t[i]
  BY <1>1, AppendedIs, SequenceHas DEF IsTree
<1>4. Grows(t, u)
  BY <1>3 DEF Grows, ClassStays, EntriesStay
<1>5. QED
  BY <1>2, <1>3, <1>4

LEMMA GrowsOn ==
  ASSUME NEW t, NEW u, NEW v, Grows(t, u), Grows(u, v),
         Len(t) \in Nat, Len(u) \in Nat, Len(v) \in Nat
  PROVE  Grows(t, v)
<1>1. Len(t) <= Len(v)
  BY DEF Grows
<1>2. ASSUME NEW i \in 1 .. Len(t) PROVE ClassStays(t, v, i)
  <2>1. i \in 1 .. Len(u)
    BY DEF Grows
  <2>2. ClassStays(t, u, i) /\ ClassStays(u, v, i)
    BY <2>1 DEF Grows
  <2>3. QED
    BY <2>2 DEF ClassStays, EntriesStay
<1>3. QED
  BY <1>1, <1>2 DEF Grows

-----------------------------------------------------------------------------
(* Types: what a step makes of classes and of frames.                      *)

LEMMA AllIn ==
  ASSUME NEW S, NEW s, IsSequence(s), \A i \in 1 .. Len(s) : s[i] \in S
  PROVE  s \in Seq(S)
<1>1. DOMAIN s = 1 .. Len(s)
  BY SequenceHas
<1>2. {s[i] : i \in DOMAIN s} \subseteq S
  BY <1>1
<1>3. QED
  BY <1>2, SeqMonotonic DEF IsSequence

LEMMA EachIn ==
  ASSUME NEW S, NEW s \in Seq(S)
  PROVE  /\ IsSequence(s) /\ Len(s) \in Nat /\ DOMAIN s = 1 .. Len(s)
         /\ \A i \in 1 .. Len(s) : s[i] \in S
BY SequenceIs, LenProperties, ElementOfSeq

LEMMA JoinedIn ==
  ASSUME NEW S, NEW r \in Seq(S), NEW es \in Seq(S)
  PROVE  r \o es \in Seq(S)
BY ConcatProperties

\* A class that was typed is typed with more entries.
LEMMA WithNamesTyped ==
  ASSUME NEW c \in Classes, NEW active \in BOOLEAN, NEW es \in Seq(Entries)
  PROVE  WithNames(c, active, es) \in Classes
<1>1. c.names \in Seq(Entries)
  BY DEF Classes
<1>2. c.names \o es \in Seq(Entries)
  BY <1>1, JoinedIn
<1>3. QED
  BY <1>2 DEF WithNames, Classes

LEMMA AddTyped ==
  ASSUME NEW t \in Seq(Classes), NEW fs, Nested(t, fs), fs # <<>>, NEW es \in Seq(Entries)
  PROVE  AddEntries(t, es) \in Seq(Classes)
<1> DEFINE i == Current(t)
           d == WithNames(t[i], TRUE, es)
<1>1. i = fs[Len(fs)].id /\ Len(fs) \in 1 .. Len(fs)
  BY CurrentIsTop
<1>2. i \in 1 .. Len(t)
  BY <1>1 DEF Nested, IsOpen
<1>3. t[i] \in Classes
  BY <1>2, ElementOfSeq
<1>4. d \in Classes
  BY <1>3, WithNamesTyped
<1>5. AddEntries(t, es) = [t EXCEPT ![i] = d]
  BY DEF AddEntries
<1> HIDE DEF i, d
<1>6. [t EXCEPT ![i] = d] \in Seq(Classes)
  BY <1>2, <1>4, ExceptSeq
<1>7. QED
  BY <1>5, <1>6

LEMMA EndTyped ==
  ASSUME NEW t \in Seq(Classes), NEW fs, Nested(t, fs), fs # <<>>
  PROVE  EndClass(t) \in Seq(Classes)
<1> DEFINE i == Current(t)
           d == WithNames(t[i], FALSE, <<>>)
<1>1. i = fs[Len(fs)].id /\ Len(fs) \in 1 .. Len(fs)
  BY CurrentIsTop
<1>2. i \in 1 .. Len(t)
  BY <1>1 DEF Nested, IsOpen
<1>3. t[i] \in Classes /\ <<>> \in Seq(Entries)
  BY <1>2, ElementOfSeq, EmptySeq
<1>4. d \in Classes
  BY <1>3, WithNamesTyped
<1>5. EndClass(t) = [t EXCEPT ![i] = d]
  BY DEF EndClass
<1> HIDE DEF i, d
<1>6. [t EXCEPT ![i] = d] \in Seq(Classes)
  BY <1>2, <1>4, ExceptSeq
<1>7. QED
  BY <1>5, <1>6

LEMMA NewTyped ==
  ASSUME NEW t \in Seq(Classes), NEW fs, Nested(t, fs), NEW kind \in ClassKinds,
         NEW name \in Names \cup {NoName}, NEW base \in Names \cup {NoName}
  PROVE  NewClass(t, kind, name, base) \in Seq(Classes)
<1>1. CurrentPath(t) \in Seq(Nat)
  <2>1. CASE fs = <<>>
    BY <2>1, NothingOpen, EmptySeq
  <2>2. CASE fs # <<>>
    <3>1. CurrentPath(t) = t[fs[Len(fs)].id].path /\ Len(fs) \in 1 .. Len(fs)
      BY <2>2, CurrentIsTop
    <3>2. t[fs[Len(fs)].id] \in Classes
      BY <3>1, ElementOfSeq DEF Nested, IsOpen
    <3>3. QED
      BY <3>1, <3>2 DEF Classes
  <2>3. QED
    BY <2>1, <2>2
<1>2. Len(t) + 1 \in Nat
  BY LenProperties
<1>3. Append(CurrentPath(t), Len(t) + 1) \in Seq(Nat) /\ <<>> \in Seq(Entries)
  BY <1>1, <1>2, AppendProperties, EmptySeq
<1> DEFINE c == [kind |-> kind, name |-> name, base |-> base,
                 path |-> Append(CurrentPath(t), Len(t) + 1),
                 active |-> TRUE, names |-> <<>>]
<1>4. c \in Classes
  BY <1>3 DEF Classes
<1>5. NewClass(t, kind, name, base) = Append(t, c)
  BY DEF NewClass
<1> HIDE DEF c
<1>6. QED
  BY <1>4, <1>5, AppendProperties

\* A frame after its item at hand.
LEMMA DoneTyped ==
  ASSUME NEW f \in Frames
  PROVE  /\ f.decls # <<>> => DeclDone(f) \in Frames
         /\ f.stmts # <<>> =>
              /\ StmtDone(f) \in Frames
              /\ \A body \in Seq(Statements) : Into(f, body) \in Frames
         /\ f.conc # <<>> => ConcDone(f) \in Frames
         /\ Ready(f) \in Frames
         /\ \A phase \in Phases : Enter(f, phase) \in Frames
<1>1. /\ f.decls \in Seq(Declarations) /\ f.stmts \in Seq(Statements)
      /\ f.conc \in Seq(Concurrents)
  BY DEF Frames
<1>2. /\ f.decls # <<>> => Tail(f.decls) \in Seq(Declarations)
      /\ f.stmts # <<>> => Tail(f.stmts) \in Seq(Statements)
      /\ f.conc # <<>> => Tail(f.conc) \in Seq(Concurrents)
  BY <1>1, HeadTailProperties
<1>3. f.decls # <<>> => DeclDone(f) \in Frames
  BY <1>2 DEF Frames, DeclDone
<1>4. f.stmts # <<>> => StmtDone(f) \in Frames
  BY <1>2 DEF Frames, StmtDone
<1>5. ASSUME f.stmts # <<>>, NEW body \in Seq(Statements) PROVE Into(f, body) \in Frames
  <2>1. body \o Tail(f.stmts) \in Seq(Statements)
    BY <1>2, <1>5, JoinedIn
  <2>2. QED
    BY <2>1 DEF Frames, Into
<1>6. f.conc # <<>> => ConcDone(f) \in Frames
  BY <1>2 DEF Frames, ConcDone
<1>7. Ready(f) \in Frames /\ \A phase \in Phases : Enter(f, phase) \in Frames
  BY DEF Frames, Ready, Enter
<1>8. QED
  BY <1>3, <1>4, <1>5, <1>6, <1>7

LEMMA SignalsTyped ==
  ASSUME NEW f \in Frames, NEW ms \in SUBSET (Nat \X Nat)
  PROVE  WithSignals(f, ms) \in Frames
<1>1. f.signals \cup ms \in SUBSET (Nat \X Nat)
  BY DEF Frames
<1>2. QED
  BY <1>1 DEF Frames, WithSignals

LEMMA InstancesTyped ==
  ASSUME NEW f \in Frames, NEW is \in Seq(Concurrents)
  PROVE  [f EXCEPT !.instances = is] \in Frames
BY DEF Frames

LEMMA NewFrameTyped ==
  ASSUME IInv, NEW node \in Nodes, NEW decls \in Seq(Declarations),
         NEW stmts \in Seq(Statements), NEW conc \in Seq(Concurrents),
         NEW signals \in SUBSET (Nat \X Nat)
  PROVE  NewFrame(node, decls, stmts, conc, signals) \in Frames
<1>1. Len(classes) + 1 \in Nat /\ <<>> \in Seq(Concurrents)
  BY FramesHave, EmptySeq
<1>2. QED
  BY <1>1 DEF Frames, NewFrame, Phases

LEMMA ReplacedTyped ==
  ASSUME NEW fs \in Seq(Frames), fs # <<>>, NEW f \in Frames
  PROVE  ReplaceTop(fs, f) \in Seq(Frames)
<1>1. Len(fs) \in 1 .. Len(fs)
  BY EmptySeq
<1>2. QED
  BY <1>1, ExceptSeq DEF ReplaceTop

LEMMA PoppedTyped ==
  ASSUME frames \in Seq(Frames), frames # <<>>
  PROVE  PopFrame \in Seq(Frames)
<1>1. IsSequence(frames)
  BY SequenceIs
<1>2. /\ IsSequence(PopFrame) /\ Len(PopFrame) = Len(frames) - 1 /\ Len(frames) \in Nat
      /\ \A i \in 1 .. Len(frames) - 1 : PopFrame[i] = frames[i]
  BY <1>1, FrontIs DEF PopFrame
<1>3. \A i \in 1 .. Len(frames) : frames[i] \in Frames
  BY ElementOfSeq
<1>4. \A i \in 1 .. Len(PopFrame) : PopFrame[i] \in Frames
  BY <1>2, <1>3
<1>5. QED
  BY <1>2, <1>4, AllIn

-----------------------------------------------------------------------------
(* Types: the steps.                                                       *)

Typed ==
  /\ classes \in Seq(Classes) /\ frames \in Seq(Frames)
  /\ declarationsOnly \in BOOLEAN /\ returnType \in AnyType

\* The variable of a generate loop is declared in the class around it.
VariablesKnown(t, fs) ==
  \A k \in 2 .. Len(fs) :
    t[fs[k].id].kind = "GENERATE" => 1 \in DOMAIN t[fs[k - 1].id].names

Adds(tree) ==
  \/ tree = classes
  \/ frames # <<>> /\ \E es \in Seq(Entries) : tree = AddEntries(classes, es)

AddsSome(tree) ==
  frames # <<>> /\ \E es \in Seq(Entries) : es # <<>> /\ tree = AddEntries(classes, es)

\* A frame goes on with what it has; a branch or a loop brings its statements.
Moves(f, g) ==
  /\ g \in Frames /\ g.id = f.id /\ g.node = f.node
  /\ g.decls = f.decls \/ (f.decls # <<>> /\ g.decls = Tail(f.decls))
  /\ \/ g.stmts = f.stmts
     \/ f.stmts # <<>> /\ g.stmts = Tail(f.stmts)
     \/ f.stmts # <<>> /\ Head(f.stmts).node \in {"condition", "for"}
  /\ g.instances = f.instances \/ f.conc # <<>> \/ f.instances # <<>>

MovesTop(fs) ==
  \/ fs = frames
  \/ frames # <<>> /\ \E g : Moves(Top, g) /\ fs = ReplaceTop(frames, g)

\* What a class is made from.
NodeFits(kind, node) ==
  /\ kind \in UnitKinds => node \in Units
  /\ kind = "PROCESS" => node \in Concurrents /\ node.node = "process"
  /\ kind = "BLOCK" => node \in Concurrents /\ node.node = "block"
  /\ kind = "GENERATE" => node \in Concurrents /\ node.node = "generate"
  /\ kind = "FUNCTION" => node \in Declarations /\ node.node = "function"
  /\ kind = "FACTORY" =>
       node.reads \in Reads /\ node.node \in {"type", "subtype", "for", "generate"}

FitsNew(kind, f) ==
  /\ f \in Frames /\ f.id = Len(classes) + 1 /\ NodeFits(kind, f.node)
  /\ kind = "FUNCTION" => f.decls = f.node.parameters \o f.node.decls
  /\ kind = "PROCESS" =>
       f.decls = f.node.decls /\ f.stmts = f.node.stmts /\ f.instances = <<>>
  /\ kind = "FACTORY" => f.decls = <<>> /\ f.stmts = <<>>

AddsClass(tree, kind, name, base) ==
  /\ kind \in ClassKinds /\ name \in Names \cup {NoName} /\ base \in Names \cup {NoName}
  /\ Adds(tree) /\ (kind = "GENERATE" => AddsSome(tree))
  /\ classes' = NewClass(tree, kind, name, base)

StaysTyped  == Adds(classes') /\ MovesTop(frames')
OpensTyped  == \E tree, kind, name, base, fs, f :
  AddsClass(tree, kind, name, base) /\ FitsNew(kind, f) /\ MovesTop(fs) /\ frames' = Append(fs, f)
ClosesTyped ==
  /\ frames # <<>> /\ classes' = EndClass(classes)
  /\ \/ frames' = <<>> \/ frames' = PopFrame
     \/ Len(frames) > 1 /\ frames' = ReplaceTop(PopFrame, Ready(frames[Len(frames) - 1]))

RefersTo(rs) == \A r \in rs : r.at \in 1 .. Len(classes) /\ r.to[1] \in 1 .. Len(classes)

TypedStep ==
  /\ StaysTyped \/ OpensTyped \/ ClosesTyped
  /\ UNCHANGED declarationsOnly /\ returnType' \in AnyType /\ expected' \in AnyType
  /\ \E rs : RefersTo(rs) /\ references' = rs
  /\ status' \in {status, "done", "aborted"}

LEMMA NoTypeIs == NoType \in AnyType /\ RefersTo({})
BY DEF AnyType, RefersTo

\* References to what was found, written into the class at hand.
LEMMA MatchesTyped ==
  ASSUME NEW ms, \A m \in ms : IsMatch(classes, m), NEW at \in 1 .. Len(classes), NEW offset
  PROVE  RefersTo(ReferencesTo(ms, at, offset))
BY DEF RefersTo, ReferencesTo, Reference, IsMatch

LEMMA BestTyped ==
  ASSUME IInv, NEW reads \in Reads, NEW types
  PROVE  \A m \in BestOf(reads, types) : IsMatch(classes, m)
BY ReadsAre DEF IsFoundAs

LEMMA WrittenTyped ==
  ASSUME IInv, frames # <<>>, NEW reads \in Reads, NEW types
  PROVE  RefersTo(Written(reads, types, Here)) /\ RefersTo(WrittenIfFound(reads, types))
<1>1. RefersTo(Written(reads, types, Here))
  BY BestTyped, MatchesTyped, TopIs DEF Written
<1>2. QED
  BY <1>1, NoTypeIs DEF WrittenIfFound

LEMMA TopTyped ==
  ASSUME IInv, Typed, frames # <<>>
  PROVE  /\ Top \in Frames
         /\ Top.decls # <<>> => Moves(Top, DeclDone(Top))
         /\ Top.stmts # <<>> => Moves(Top, StmtDone(Top))
         /\ Top.conc # <<>> => Moves(Top, ConcDone(Top))
         /\ Moves(Top, Ready(Top)) /\ \A phase \in Phases : Moves(Top, Enter(Top, phase))
<1>1. Top \in Frames
  BY TopIs, ElementOfSeq DEF Typed
<1>2. IsFrame(Top)
  BY TopIs
<1>3. Top.decls # <<>> => Moves(Top, DeclDone(Top))
  BY <1>1, <1>2, DoneTyped DEF Moves, DeclDone, IsFrame, FrameFields
<1>4. Top.stmts # <<>> => Moves(Top, StmtDone(Top))
  BY <1>1, <1>2, DoneTyped DEF Moves, StmtDone, IsFrame, FrameFields
<1>5. Top.conc # <<>> => Moves(Top, ConcDone(Top))
  BY <1>1, <1>2, DoneTyped DEF Moves, ConcDone, IsFrame, FrameFields
<1>6. Moves(Top, Ready(Top)) /\ \A phase \in Phases : Moves(Top, Enter(Top, phase))
  BY <1>1, <1>2, DoneTyped DEF Moves, Ready, Enter, IsFrame, FrameFields
<1>7. QED
  BY <1>1, <1>3, <1>4, <1>5, <1>6

LEMMA EntryTyped ==
  ASSUME NEW name \in Names \cup Types, NEW kind \in ObjectKinds \cup {"TYPE"},
         NEW type \in AnyType
  PROVE  Entry(name, kind, type) \in Entries /\ <<Entry(name, kind, type)>> \in Seq(Entries)
<1>1. Entry(name, kind, type) \in Entries
  BY DEF Entry, Entries, AnyType
<1>2. QED
  BY <1>1

LEMMA NamedTyped ==
  ASSUME IInv, NEW name, TypesNamed(name) # {}
  PROVE  BestEntry(TypesNamed(name)).type \in AnyType
BY BestType DEF BestEntry, IsFoundAs

\* Declarations that open no class.
LEMMA DeclaresTyped ==
  ASSUME IInv, Typed, AtDeclaration, NEW f, f = DeclDone(Top) \/ f = Ready(Top),
         NEW es \in Seq(Entries), Declares(f, es), returnType' \in AnyType,
         NEW rs, RefersTo(rs), Writes(rs)
  PROVE  TypedStep
<1>1. frames # <<>> /\ Top.decls # <<>>
  BY DEF AtDeclaration
<1>2. Adds(classes')
  BY <1>1 DEF Declares, Adds
<1>3. Moves(Top, f) /\ frames' = ReplaceTop(frames, f)
  BY <1>1, TopTyped DEF Declares
<1>4. StaysTyped
  BY <1>1, <1>2, <1>3 DEF StaysTyped, MovesTop
<1>5. QED
  BY <1>4, NoTypeIs DEF TypedStep, Declares, Writes, file

LEMMA DeclarationTyped ==
  ASSUME IInv, Typed
  PROVE  /\ CloseType => TypedStep
         /\ TypeWithoutBase => TypedStep
         /\ CloseSubtype => TypedStep
         /\ SubtypeWithoutBase => TypedStep
         /\ DeclareObject => TypedStep
         /\ InitialiseObject => TypedStep
         /\ ObjectWithoutType => TypedStep
         /\ DeclareAlias => TypedStep
         /\ DeclareFunction => TypedStep
<1>1. ASSUME AtDeclaration PROVE Decl \in Declarations /\ frames # <<>> /\ Top.decls # <<>>
  BY <1>1, DeclIs
<1>2. returnType \in AnyType /\ <<>> \in Seq(Entries)
  BY EmptySeq DEF Typed
<1>3. CloseType => TypedStep
  <2> SUFFICES ASSUME CloseType PROVE TypedStep
    OBVIOUS
  <2>1. Decl \in Declarations /\ Decl.node = "type" /\ AtDeclaration
    BY <1>1 DEF CloseType, At
  <2>2. <<Entry(Decl.name, "TYPE", Decl.name)>> \in Seq(Entries)
    BY <2>1, DeclTyped, EntryTyped DEF AnyType
  <2>3. QED
    BY <1>2, <2>1, <2>2, DeclaresTyped, NoTypeIs DEF CloseType
<1>4. TypeWithoutBase => TypedStep
  <2> SUFFICES ASSUME TypeWithoutBase PROVE TypedStep
    OBVIOUS
  <2>1. Decl \in Declarations /\ Decl.node = "type" /\ AtDeclaration
    BY <1>1 DEF TypeWithoutBase, At
  <2>2. <<Entry(Decl.name, "TYPE", NoType)>> \in Seq(Entries)
    BY <2>1, DeclTyped, EntryTyped, NoTypeIs
  <2>3. QED
    BY <1>2, <2>1, <2>2, DeclaresTyped, NoTypeIs DEF TypeWithoutBase
<1>5. CloseSubtype => TypedStep
  BY <1>2, DeclaresTyped, NoTypeIs DEF CloseSubtype, At
<1>6. SubtypeWithoutBase => TypedStep
  BY <1>2, DeclaresTyped, NoTypeIs DEF SubtypeWithoutBase, At
<1>7. DeclareObject => TypedStep
  <2> SUFFICES ASSUME DeclareObject PROVE TypedStep
    OBVIOUS
  <2>1. Decl \in Declarations /\ Decl.node = "object" /\ AtDeclaration /\ frames # <<>>
        /\ TypesNamed(Decl.type) # {}
    BY <1>1 DEF DeclareObject, At
  <2>2. Decl.name \in Names /\ Decl.kind \in ObjectKinds
    BY <2>1, DeclTyped DEF ObjectKinds
  <2> DEFINE type == BestEntry(TypesNamed(Decl.type)).type
             es == <<Entry(Decl.name, Decl.kind, type)>>
             rs == FactoryReference(Decl.kind, TypesNamed(Decl.type)) \cup FactoryArguments(Decl)
  <2>3. type \in AnyType
    BY <2>1, NamedTyped
  <2>4. es \in Seq(Entries)
    BY <2>2, <2>3, EntryTyped
  <2>5. RefersTo(rs)
    <3>1. IsMatch(classes, Best(TypesNamed(Decl.type)))
      BY <2>1, BestType DEF IsFoundAs
    <3>2. Here \in 1 .. Len(classes)
      BY <2>1, TopIs
    <3>3. RefersTo(FactoryReference(Decl.kind, TypesNamed(Decl.type)))
      BY <3>1, <3>2 DEF RefersTo, FactoryReference, Reference, IsMatch
    <3>4. RefersTo(FactoryArguments(Decl))
      <4>1. Decl.range \in Reads
        BY <2>1, DeclTyped
      <4>2. RefersTo(Written(Decl.range, AnyType, Here))
        BY <2>1, <4>1, WrittenTyped
      <4>3. QED
        BY <4>2, NoTypeIs DEF FactoryArguments
    <3>5. QED
      BY <3>3, <3>4 DEF RefersTo
  <2>6. PICK f : (f = DeclDone(Top) \/ f = Ready(Top)) /\ Declares(f, es)
    BY DEF DeclareObject
  <2>7. Writes(rs) /\ returnType' \in AnyType
    BY <1>2 DEF DeclareObject
  <2> HIDE DEF es, rs
  <2>8. QED
    BY <2>1, <2>4, <2>5, <2>6, <2>7, DeclaresTyped
<1>8. InitialiseObject => TypedStep
  <2> SUFFICES ASSUME InitialiseObject PROVE TypedStep
    OBVIOUS
  <2>1. Decl \in Declarations /\ Decl.node = "object" /\ AtDeclaration /\ frames # <<>>
    BY <1>1 DEF InitialiseObject, At
  <2>2. RefersTo(Written(Decl.reads, InitialType, Here))
    BY <2>1, DeclTyped, WrittenTyped
  <2>3. QED
    BY <1>2, <2>1, <2>2, DeclaresTyped DEF InitialiseObject
<1>9. ObjectWithoutType => TypedStep
  BY <1>2, DeclaresTyped, NoTypeIs DEF ObjectWithoutType, At
<1>10. DeclareAlias => TypedStep
  <2> SUFFICES ASSUME DeclareAlias PROVE TypedStep
    OBVIOUS
  <2>1. Decl \in Declarations /\ Decl.node = "alias" /\ AtDeclaration /\ frames # <<>>
    BY <1>1 DEF DeclareAlias, At
  <2>2. Decl.name \in Names /\ Decl.of \in Names /\ Decl.reads \in Reads
        /\ <<Decl.of>> \in Reads
    BY <2>1, DeclTyped DEF Reads
  <2>3. AliasEntries(Decl) \in Seq(Entries)
    <3>1. CASE Values(Decl.of, AnyType) = {}
      BY <1>2, <3>1 DEF AliasEntries
    <3>2. CASE Values(Decl.of, AnyType) # {}
      <4> DEFINE e == BestEntry(Values(Decl.of, AnyType))
      <4>1. e.kind \in ObjectKinds /\ e.type \in AnyType
        BY <3>2, BestValue DEF BestEntry, IsFoundAs
      <4>2. AliasEntries(Decl) = <<Entry(Decl.name, e.kind, e.type)>>
        BY <3>2 DEF AliasEntries
      <4> HIDE DEF e
      <4>3. QED
        BY <2>2, <4>1, <4>2, EntryTyped
    <3>3. QED
      BY <3>1, <3>2
  <2> DEFINE ps == {Plain(Here, m) : m \in BestOf(<<Decl.of>>, AnyType)}
             ws == Written(Decl.reads, AnyType, Here)
  <2>4. RefersTo(ws)
    BY <2>1, <2>2, WrittenTyped
  <2>5. RefersTo(ps)
    <3>1. Here \in 1 .. Len(classes)
      BY <2>1, TopIs
    <3>2. \A m \in BestOf(<<Decl.of>>, AnyType) : IsMatch(classes, m)
      BY <2>2, BestTyped
    <3>3. QED
      BY <3>1, <3>2 DEF RefersTo, Plain, IsMatch
  <2>6. RefersTo(ws \cup ps)
    BY <2>4, <2>5 DEF RefersTo
  <2>7. Declares(DeclDone(Top), AliasEntries(Decl)) /\ Writes(ws \cup ps)
        /\ returnType' \in AnyType
    BY <1>2 DEF DeclareAlias
  <2> HIDE DEF ws, ps
  <2>8. QED
    BY <2>1, <2>3, <2>6, <2>7, DeclaresTyped
<1>11. DeclareFunction => TypedStep
  <2> SUFFICES ASSUME DeclareFunction PROVE TypedStep
    OBVIOUS
  <2>1. Decl \in Declarations /\ Decl.node = "function" /\ frames # <<>> /\ Top.decls # <<>>
    BY <1>1 DEF DeclareFunction, At
  <2>2. FunctionType(Decl) \in AnyType /\ Decl.name \in Names
    BY <2>1, DeclTyped, NamedTyped, NoTypeIs DEF FunctionType
  <2>3. <<Entry(Decl.name, "FUNCTION", FunctionType(Decl))>> \in Seq(Entries)
    BY <2>2, EntryTyped DEF ObjectKinds
  <2>4. Adds(classes')
    BY <2>1, <2>3 DEF DeclareFunction, WithFunction, Adds
  <2>5. Moves(Top, DeclDone(Top)) /\ frames' = ReplaceTop(frames, DeclDone(Top))
    BY <2>1, TopTyped DEF DeclareFunction
  <2>6. StaysTyped
    BY <2>1, <2>4, <2>5 DEF StaysTyped, MovesTop
  <2>7. QED
    BY <2>2, <2>6, NoTypeIs DEF TypedStep, DeclareFunction, Writes, file
<1>12. QED
  BY <1>3, <1>4, <1>5, <1>6, <1>7, <1>8, <1>9, <1>10, <1>11

LEMMA TurnsTyped ==
  ASSUME IInv, Typed, frames # <<>>, NEW phase \in Phases, NEW tree, Adds(tree),
         NEW rs, RefersTo(rs), Turns(ReplaceTop(frames, Enter(Top, phase)), tree, rs)
  PROVE  TypedStep
<1>1. Moves(Top, Enter(Top, phase)) /\ frames' = ReplaceTop(frames, Enter(Top, phase))
  BY TopTyped DEF Turns
<1>2. StaysTyped
  BY <1>1 DEF StaysTyped, MovesTop, Turns
<1>3. QED
  BY <1>2, NoTypeIs DEF TypedStep, Turns, Writes, file, flags, Typed

LEMMA FactoryRangeTyped ==
  ASSUME IInv, frames # <<>>, NEW d, d.reads \in Reads
  PROVE  RefersTo(FactoryRange(d))
<1> DEFINE ms == {m \in BestOf(d.reads, AnyType) : HasPrefix(classes, m)}
<1>1. Here \in 1 .. Len(classes)
  BY TopIs
<1>2. \A m \in ms : IsMatch(classes, m)
  BY BestTyped
<1>3. FactoryRange(d) = IF IsPhysical(d) THEN {Outside(classes, Here, m) : m \in ms}
                        ELSE {Reference(classes, Here, m, 0) : m \in ms}
  BY DEF FactoryRange
<1> HIDE DEF ms
<1>4. QED
  BY <1>1, <1>2, <1>3 DEF RefersTo, Outside, Reference, IsMatch

\* The invariant that the types need: what each class is made from.
NodesFit(t, fs) == \A k \in 1 .. Len(fs) : NodeFits(KindOf(t, fs, k), fs[k].node)

GrowInv == Typed /\ VariablesKnown(classes, frames) /\ NodesFit(classes, frames)

LEMMA NodeOfTop ==
  ASSUME IInv, GrowInv, frames # <<>>
  PROVE  NodeFits(Kind, Top.node)
<1>1. Len(frames) \in 1 .. Len(frames)
  BY TopIs
<1>2. QED
  BY <1>1 DEF GrowInv, NodesFit, KindOf, Kind, Here, Top

LEMMA BodyTyped ==
  ASSUME IInv, GrowInv
  PROVE  /\ StartRun => TypedStep
         /\ WriteFactory => TypedStep
         /\ StartGenerate => TypedStep
         /\ StartOther => TypedStep
         /\ EndStatements => TypedStep
<1>1. Typed /\ "statements" \in Phases /\ "concurrent" \in Phases /\ Adds(classes)
  BY DEF GrowInv, Phases, Adds
<1>2. StartRun => TypedStep
  BY <1>1, TurnsTyped, NoTypeIs DEF StartRun, AtBody
<1>3. WriteFactory => TypedStep
  <2> SUFFICES ASSUME WriteFactory PROVE TypedStep
    OBVIOUS
  <2>1. frames # <<>> /\ Top.node.reads \in Reads
    BY NodeOfTop DEF WriteFactory, AtBody, NodeFits
  <2>2. RefersTo(FactoryRange(Top.node))
    BY <2>1, FactoryRangeTyped
  <2>3. QED
    BY <1>1, <2>1, <2>2, TurnsTyped DEF WriteFactory
<1>4. StartGenerate => TypedStep
  <2> SUFFICES ASSUME StartGenerate PROVE TypedStep
    OBVIOUS
  <2> DEFINE n == Len(frames)
             i == AroundHere
             v == LastEntry(i)
             es == <<Entry(v.name, "VARIABLE", v.type)>>
  <2>1. frames # <<>> /\ Kind = "GENERATE" /\ n \in Nat \ {0} /\ (Kind \in UnitKinds <=> n = 1)
    BY TopIs DEF StartGenerate, AtBody
  <2>2. n \in 2 .. n /\ n - 1 \in 1 .. n
    <3>1. n # 1
      BY <2>1 DEF UnitKinds
    <3> HIDE DEF n
    <3>2. QED
      BY <2>1, <3>1
  <2>3. i \in 1 .. Len(classes) /\ 1 \in DOMAIN classes[i].names
    BY <2>1, <2>2, FramesHave DEF GrowInv, VariablesKnown, Kind, Here, Top, AroundHere
  <2>4. classes[i].names \in Seq(Entries)
    <3> HIDE DEF i
    <3>1. classes[i] \in Classes
      BY <1>1, <2>3, ElementOfSeq DEF Typed
    <3>2. QED
      BY <3>1 DEF Classes
  <2>5. v \in Entries
    <3> DEFINE s == classes[i].names
    <3> HIDE DEF s, i
    <3>1. s \in Seq(Entries) /\ 1 \in DOMAIN s
      BY <2>3, <2>4 DEF s
    <3>2. Len(s) \in 1 .. Len(s)
      <4>1. PICK m \in Nat : m = Len(s) /\ DOMAIN s = 1 .. m
        BY <3>1, EachIn
      <4>2. m \in 1 .. m
        BY <3>1, <4>1
      <4>3. QED
        BY <4>1, <4>2
    <3>3. s[Len(s)] \in Entries
      BY <3>1, <3>2, ElementOfSeq
    <3>4. QED
      BY <3>3 DEF LastEntry, s
  <2>6. es \in Seq(Entries)
    <3>1. v.name \in Names \cup Types /\ v.type \in AnyType
      BY <2>5 DEF Entries, AnyType
    <3>2. "VARIABLE" \in ObjectKinds \cup {"TYPE"}
      BY DEF ObjectKinds
    <3> HIDE DEF v
    <3>3. QED
      BY <3>1, <3>2, EntryTyped
  <2> DEFINE ms == IterationName(Top.node, IteratedBefore(Top.node))
             rs == MadeOutside(ms, Here)
  <2>7. Turns(ReplaceTop(frames, Enter(Top, "concurrent")), AddEntries(classes, es), rs)
    BY DEF StartGenerate
  <2>8. RefersTo(rs)
    <3>1. \A m \in ms : IsMatch(classes, m)
      BY IterationIs DEF IsFoundAs, IteratedBefore
    <3> HIDE DEF ms
    <3>2. QED
      BY <2>1, <3>1, TopIs DEF RefersTo, MadeOutside, Outside, IsMatch
  <2> HIDE DEF es, rs
  <2>9. Adds(AddEntries(classes, es))
    BY <2>1, <2>6 DEF Adds
  <2>10. QED
    BY <1>1, <2>1, <2>7, <2>8, <2>9, TurnsTyped
<1>5. StartOther => TypedStep
  BY <1>1, TurnsTyped, NoTypeIs DEF StartOther, AtBody
<1>6. EndStatements => TypedStep
  BY <1>1, TurnsTyped, NoTypeIs DEF EndStatements
<1>7. QED
  BY <1>2, <1>3, <1>4, <1>5, <1>6

\* Statements.
LEMMA StmtIs ==
  ASSUME IInv, Typed, AtStatement
  PROVE  Stmt \in Statements /\ Stmt = Head(Top.stmts) /\ Top.stmts # <<>> /\ frames # <<>>
<1>1. Stmt = Head(Top.stmts) /\ Top.stmts # <<>> /\ frames # <<>>
  BY DEF AtStatement, Stmt
<1>2. Top.stmts \in Seq(Statements)
  BY <1>1, TopTyped DEF Frames
<1>3. QED
  BY <1>1, <1>2, HeadTailProperties

LEMMA MatchTyped ==
  ASSUME NEW t, IsTree(t), NEW m, IsMatch(t, m)
  PROVE  m \in Nat \X Nat
<1>1. m[1] \in Nat /\ m[2] \in Nat
  BY NamesHave, SequenceHas DEF IsMatch, IsTree
<1>2. QED
  BY <1>1 DEF IsMatch

LEMMA IterationTyped ==
  ASSUME IInv, NEW item
  PROVE  IterationType(item) \in AnyType
<1>1. Iterated(item) # {} => BestEntry(Iterated(item)).type \in AnyType
  BY IterationIs DEF BestEntry, IsFoundAs
<1>2. QED
  BY <1>1, NoTypeIs, NodesAssumption DEF IterationType, AnyType

LEMMA ExecutesTyped ==
  ASSUME IInv, Typed, frames # <<>>, NEW f, Moves(Top, f), NEW rs, RefersTo(rs),
         NEW new, Executes(f, rs, new), expected' \in AnyType
  PROVE  TypedStep
<1>1. Adds(classes') /\ MovesTop(frames')
  BY DEF Executes, Adds, MovesTop
<1>2. QED
  BY <1>1 DEF TypedStep, StaysTyped, Executes, Typed, file

LEMMA ProcessIsInside ==
  ASSUME IInv, frames # <<>>, Kind \notin UnitKinds
  PROVE  /\ Len(frames) \in Nat /\ Len(frames) > 1 /\ Len(frames) - 1 \in 1 .. Len(frames)
         /\ AroundHere \in 1 .. Len(classes)
<1>1. Len(frames) \in Nat \ {0} /\ Len(frames) # 1
  BY TopIs
<1>2. Len(frames) > 1 /\ Len(frames) - 1 \in 1 .. Len(frames)
  <2>1. PICK n \in Nat \ {0} : n = Len(frames) /\ n # 1
    BY <1>1
  <2>2. n > 1 /\ n - 1 \in 1 .. n
    BY <2>1
  <2>3. QED
    BY <2>1, <2>2
<1>3. QED
  BY <1>1, <1>2, FramesHave DEF AroundHere

LEMMA AssignmentTyped ==
  ASSUME IInv, Typed
  PROVE  Assignment => TypedStep
<1> SUFFICES ASSUME Assignment PROVE TypedStep
  OBVIOUS
<1>1. Stmt \in Statements /\ Stmt.node = "assignment" /\ Top.stmts # <<>> /\ frames # <<>>
  BY StmtIs DEF Assignment, AtStmt
<1>2. Stmt.reads \in Reads /\ <<Stmt.target>> \in Reads
  BY <1>1, StmtTyped DEF Reads
<1> DEFINE types == TargetTypes(Stmt.target)
           ms == Collected(Stmt.reads, types)
           rs == IF AllFound(Stmt.reads, types)
                 THEN Written(Stmt.reads, types, Here) \cup Written(<<Stmt.target>>, types, Here)
                 ELSE {}
           ss == ReferencesTo(ms, AroundHere, -1)
<1>3. ms \subseteq BestOf(Stmt.reads, types) /\ (ms # {} => Kind = "PROCESS")
  BY DEF Collected, SignalsOf
<1>4. \A m \in ms : IsMatch(classes, m)
  BY <1>2, <1>3, BestTyped
<1>5. ms \in SUBSET (Nat \X Nat)
  BY <1>4, MatchTyped DEF IInv, Nested
<1>6. RefersTo(ss)
  <2>1. CASE ms = {}
    BY <2>1 DEF ReferencesTo, RefersTo
  <2>2. CASE ms # {}
    <3>1. AroundHere \in 1 .. Len(classes)
      BY <1>1, <1>3, <2>2, ProcessIsInside DEF UnitKinds
    <3>2. QED
      BY <1>4, <3>1, MatchesTyped
  <2>3. QED
    BY <2>1, <2>2
<1>7. RefersTo(rs)
  <2>1. /\ RefersTo(Written(Stmt.reads, types, Here))
        /\ RefersTo(Written(<<Stmt.target>>, types, Here))
    BY <1>1, <1>2, WrittenTyped
  <2>2. QED
    BY <2>1, NoTypeIs DEF RefersTo
<1>8. Moves(Top, WithSignals(StmtDone(Top), ms))
  <2>1. Moves(Top, StmtDone(Top))
    BY <1>1, TopTyped
  <2> DEFINE f == StmtDone(Top)
  <2> HIDE DEF f
  <2>2. f \in Frames /\ WithSignals(f, ms) \in Frames
    BY <1>5, <2>1, SignalsTyped DEF Moves, f
  <2>3. /\ WithSignals(f, ms).id = f.id /\ WithSignals(f, ms).node = f.node
        /\ WithSignals(f, ms).decls = f.decls /\ WithSignals(f, ms).stmts = f.stmts
        /\ WithSignals(f, ms).instances = f.instances
    BY <2>2 DEF WithSignals, Frames
  <2> DEFINE g == WithSignals(f, ms)
  <2> HIDE DEF g
  <2>4. Moves(Top, f) /\ g \in Frames /\ g.id = f.id /\ g.node = f.node
        /\ g.decls = f.decls /\ g.stmts = f.stmts /\ g.instances = f.instances
    BY <2>1, <2>2, <2>3 DEF f, g
  <2>5. Moves(Top, g)
    BY <2>4 DEF Moves
  <2>6. QED
    BY <2>5 DEF f, g
<1>9. \E new : Executes(WithSignals(StmtDone(Top), ms), ss \cup rs, new)
  BY DEF Assignment
<1>10. RefersTo(ss \cup rs) /\ expected' \in AnyType
  BY <1>6, <1>7, NoTypeIs DEF RefersTo, Assignment
<1> HIDE DEF ms, rs, ss
<1>11. QED
  BY <1>1, <1>8, <1>9, <1>10, ExecutesTyped

LEMMA StatementTyped ==
  ASSUME IInv, Typed
  PROVE  /\ WaitStatement => TypedStep
         /\ ProcedureCall => TypedStep
         /\ ReturnStatement => TypedStep
         /\ AssignmentWithoutType => TypedStep
         /\ Condition => TypedStep
         /\ EnterLoop => TypedStep
<1>1. ASSUME AtStatement
      PROVE  /\ Stmt \in Statements /\ Stmt = Head(Top.stmts)
             /\ Top.stmts # <<>> /\ frames # <<>>
  BY <1>1, StmtIs
<1>2. ASSUME AtStatement PROVE Moves(Top, StmtDone(Top))
  BY <1>1, <1>2, TopTyped
<1>3. ASSUME AtStatement, Stmt.node \in {"condition", "for"}
      PROVE  Stmt.body \in Seq(Statements) /\ Moves(Top, Into(Top, Stmt.body))
  <2>1. Stmt.body \in Seq(Statements) /\ Top \in Frames /\ IsFrame(Top)
    BY <1>1, <1>3, StmtTyped, TopTyped, TopIs
  <2>2. Into(Top, Stmt.body) \in Frames
    BY <1>1, <1>3, <2>1, DoneTyped
  <2>3. QED
    BY <1>1, <1>3, <2>1, <2>2 DEF Moves, Into, IsFrame, FrameFields
<1>4. WaitStatement => TypedStep
  <2> SUFFICES ASSUME WaitStatement PROVE TypedStep
    OBVIOUS
  <2>1. AtStatement /\ Executes(StmtDone(Top), {WaitReference(classes, -2)}, {})
        /\ expected' \in AnyType
    BY NoTypeIs DEF WaitStatement, AtStmt
  <2>2. RefersTo({WaitReference(classes, -2)})
    <3>1. /\ Len(frames) \in Nat \ {0} /\ 1 \in 1 .. Len(frames)
          /\ Len(frames) \in 1 .. Len(frames)
      BY <1>1, <2>1, TopIs
    <3>2. classes[Here].path[1] = frames[1].id /\ frames[1].id \in 1 .. Len(classes)
      BY <3>1, OpenPaths, FramesHave DEF IInv, Here, Top
    <3>3. Here \in 1 .. Len(classes)
      BY <1>1, <2>1, TopIs
    <3> DEFINE r == WaitReference(classes, -2)
    <3>4. r.at = Here /\ r.to[1] = classes[Here].path[1]
      BY DEF WaitReference
    <3> HIDE DEF r
    <3>5. RefersTo({r})
      BY <3>2, <3>3, <3>4 DEF RefersTo
    <3>6. QED
      BY <3>5 DEF r
  <2>3. QED
    BY <1>1, <1>2, <2>1, <2>2, ExecutesTyped
<1>5. ProcedureCall => TypedStep
  <2> SUFFICES ASSUME ProcedureCall PROVE TypedStep
    OBVIOUS
  <2>1. AtStatement /\ Stmt.node = "call" /\ expected' \in AnyType
    BY NoTypeIs DEF ProcedureCall, AtStmt
  <2>2. Stmt.reads \in Reads /\ frames # <<>>
    BY <1>1, <2>1, StmtTyped
  <2> DEFINE found == Procedures(Stmt.name) # {} /\ AllFound(Stmt.reads, AnyType)
             ws == Written(Stmt.reads, AnyType, Here)
             ps == ReferencesTo({Best(Procedures(Stmt.name))}, Here, 0)
             rs == IF found THEN ws \cup ps ELSE {}
  <2>3. RefersTo(ws)
    BY <2>2, WrittenTyped
  <2>4. found => RefersTo(ps)
    <3>1. Here \in 1 .. Len(classes) /\ IsTree(classes)
      BY <2>2, TopIs DEF IInv, Nested
    <3>2. found => IsMatch(classes, Best(Procedures(Stmt.name)))
      <4> DEFINE ms == Procedures(Stmt.name)
      <4>1. \A m \in ms : IsFoundAs(classes, m, Stmt.name, {"FUNCTION"}, {NoType})
        BY <3>1, MatchesAre DEF Procedures
      <4> HIDE DEF ms
      <4>2. ms # {} => IsFoundAs(classes, BestMatch(classes, ms), Stmt.name, {"FUNCTION"}, {NoType})
        BY <3>1, <4>1, BestFound
      <4>3. QED
        BY <4>2 DEF ms, Best, IsFoundAs
    <3>3. QED
      BY <3>1, <3>2, MatchesTyped
  <2>5. RefersTo(rs)
    BY <2>3, <2>4 DEF RefersTo
  <2>6. \E new : Executes(StmtDone(Top), rs, new)
    BY DEF ProcedureCall
  <2> HIDE DEF rs
  <2>7. QED
    BY <1>2, <2>1, <2>2, <2>5, <2>6, ExecutesTyped
<1>6. ReturnStatement => TypedStep
  <2> SUFFICES ASSUME ReturnStatement PROVE TypedStep
    OBVIOUS
  <2>1. AtStatement /\ Stmt.node = "return" /\ expected' \in AnyType
    BY NoTypeIs DEF ReturnStatement, AtStmt, Typed
  <2>2. Stmt.reads \in Reads /\ frames # <<>>
    BY <1>1, <2>1, StmtTyped
  <2>3. RefersTo(WrittenIfFound(Stmt.reads, {returnType}))
    BY <2>2, WrittenTyped
  <2>4. QED
    BY <1>2, <2>1, <2>2, <2>3, ExecutesTyped DEF ReturnStatement
<1>7. AssignmentWithoutType => TypedStep
  BY <1>1, <1>2, ExecutesTyped, NoTypeIs DEF AssignmentWithoutType, AtStmt
<1>8. Condition => TypedStep
  <2> SUFFICES ASSUME Condition PROVE TypedStep
    OBVIOUS
  <2>1. AtStatement /\ Stmt.node = "condition" /\ expected' \in AnyType
    BY NoTypeIs DEF Condition, AtStmt
  <2>2. Stmt.reads \in Reads /\ frames # <<>>
    BY <1>1, <2>1, StmtTyped
  <2>3. RefersTo(WrittenIfFound(Stmt.reads, AnyType))
    BY <2>2, WrittenTyped
  <2>4. QED
    BY <1>3, <2>1, <2>2, <2>3, ExecutesTyped DEF Condition
<1>9. EnterLoop => TypedStep
  <2> SUFFICES ASSUME EnterLoop PROVE TypedStep
    OBVIOUS
  <2>1. AtStatement /\ Stmt.node = "for" /\ frames # <<>>
    BY <1>1 DEF EnterLoop, AtStmt
  <2>2. Stmt.name \in Names
    BY <1>1, <2>1, StmtTyped
  <2>3. <<Entry(Stmt.name, "VARIABLE", IterationType(Stmt))>> \in Seq(Entries)
    BY <2>2, IterationTyped, EntryTyped DEF ObjectKinds
  <2>4. Adds(classes')
    BY <2>1, <2>3 DEF EnterLoop, Adds
  <2>5. MovesTop(frames')
    BY <1>3, <2>1 DEF EnterLoop, MovesTop
  <2> DEFINE rs == ReferencesTo(IterationName(Stmt, Iterated(Stmt)), Here, 0)
  <2>6. RefersTo(rs)
    BY <2>1, TopIs, IterationIs, MatchesTyped DEF IsFoundAs
  <2>7. Writes(rs)
    BY DEF EnterLoop
  <2> HIDE DEF rs
  <2>8. QED
    BY <2>4, <2>5, <2>6, <2>7, NoTypeIs
       DEF EnterLoop, TypedStep, StaysTyped, Writes, file, flags, Typed
<1>10. QED
  BY <1>4, <1>5, <1>6, <1>7, <1>8, <1>9

LEMMA InstanceTyped ==
  ASSUME IInv, Typed
  PROVE  /\ PostponeInstance => TypedStep
         /\ Instantiate => TypedStep
<1>1. ASSUME frames # <<>>, UNCHANGED <<file, classes, flags, status>>,
             NEW is \in Seq(Concurrents), NEW f,
             (f = Top /\ Top.instances # <<>>) \/ (Top.conc # <<>> /\ f = ConcDone(Top)),
             frames' = ReplaceTop(frames, [f EXCEPT !.instances = is]),
             NEW rs, RefersTo(rs), Writes(rs)
      PROVE  TypedStep
  <2> DEFINE g == [f EXCEPT !.instances = is]
  <2>1. f \in Frames /\ f.id = Top.id /\ f.node = Top.node
        /\ f.decls = Top.decls /\ f.stmts = Top.stmts
    BY <1>1, TopTyped, DoneTyped, TopIs DEF Moves, ConcDone, IsFrame, FrameFields
  <2>2. g \in Frames
    BY <1>1, <2>1, InstancesTyped
  <2>3. g.id = f.id /\ g.node = f.node /\ g.decls = f.decls /\ g.stmts = f.stmts
    BY <2>1 DEF Frames
  <2> HIDE DEF g
  <2>4. Moves(Top, g)
    BY <1>1, <2>1, <2>2, <2>3 DEF Moves
  <2>5. StaysTyped
    BY <1>1, <2>4 DEF StaysTyped, Adds, MovesTop, g
  <2>6. QED
    BY <1>1, <2>5, NoTypeIs DEF TypedStep, Writes, file, flags, Typed
<1>2. PostponeInstance => TypedStep
  <2> SUFFICES ASSUME PostponeInstance PROVE TypedStep
    OBVIOUS
  <2>1. Conc \in Concurrents /\ Top.conc # <<>> /\ frames # <<>> /\ Top \in Frames
    BY ConcIs, TopTyped DEF PostponeInstance, AtConc
  <2>2. ConcDone(Top) \in Frames
    BY <2>1, DoneTyped
  <2>3. ConcDone(Top).instances \in Seq(Concurrents)
    BY <2>2 DEF Frames
  <2> DEFINE is == Append(ConcDone(Top).instances, Conc)
  <2>4. is \in Seq(Concurrents)
    BY <2>1, <2>3, AppendProperties
  <2>5. frames' = ReplaceTop(frames, [ConcDone(Top) EXCEPT !.instances = is])
    BY DEF PostponeInstance
  <2>6. UNCHANGED <<file, classes, flags, status>> /\ Writes({})
    BY DEF PostponeInstance
  <2> HIDE DEF is
  <2>7. QED
    BY <1>1, <2>1, <2>4, <2>5, <2>6, NoTypeIs
<1>3. Instantiate => TypedStep
  <2> SUFFICES ASSUME Instantiate PROVE TypedStep
    OBVIOUS
  <2>1. frames # <<>> /\ Top.instances # <<>> /\ Top \in Frames
    BY TopTyped DEF Instantiate, AtInstance
  <2> DEFINE is == Tail(Top.instances)
             rs == ReferencesTo({Best(Actuals(Instance, n)) : n \in Associated(Instance)}, Here, 0)
  <2>2. Top.instances \in Seq(Concurrents)
    BY <2>1 DEF Frames
  <2>3. is \in Seq(Concurrents)
    BY <2>1, <2>2, HeadTailProperties
  <2>4. RefersTo(rs)
    <3>1. Here \in 1 .. Len(classes)
      BY <2>1, TopIs
    <3>2. ASSUME NEW n \in Associated(Instance)
          PROVE  IsMatch(classes, Best(Actuals(Instance, n)))
      <4>1. Actuals(Instance, n) # {}
        BY DEF Instantiate
      <4>2. QED
        BY <4>1, BestValue DEF Actuals, IsFoundAs
    <3>3. QED
      BY <3>1, <3>2, MatchesTyped
  <2>5. /\ frames' = ReplaceTop(frames, [Top EXCEPT !.instances = is])
        /\ UNCHANGED <<file, classes, flags, status>> /\ Writes(rs)
    BY DEF Instantiate
  <2> HIDE DEF is, rs
  <2>6. QED
    BY <1>1, <2>1, <2>3, <2>4, <2>5
<1>4. QED
  BY <1>2, <1>3

\* Steps that open a class.
LEMMA OpensAre ==
  ASSUME IInv, Typed, NEW tree, NEW kind, NEW name, NEW base, NEW fs, NEW f,
         Define(tree, kind, name, base, fs, f),
         kind \in ClassKinds, name \in Names \cup {NoName}, base \in Names \cup {NoName},
         Adds(tree), kind = "GENERATE" => AddsSome(tree),
         MovesTop(fs), FitsNew(kind, f),
         UNCHANGED <<declarationsOnly, status>>, returnType' \in AnyType,
         NEW rs, RefersTo(rs), Writes(rs)
  PROVE  TypedStep
<1>1. AddsClass(tree, kind, name, base) /\ frames' = Append(fs, f)
  BY DEF Define, AddsClass
<1>2. OpensTyped
  BY <1>1 DEF OpensTyped
<1>3. QED
  BY <1>2, NoTypeIs DEF TypedStep, Writes

LEMMA FactoryTyped ==
  ASSUME IInv, Typed, frames # <<>>, NEW tree, Adds(tree), NEW node \in Nodes,
         node.reads \in Reads, node.node \in {"type", "subtype", "for", "generate"},
         DefineFactory(tree, node), UNCHANGED <<file, returnType, status>>, Writes({})
  PROVE  TypedStep
<1> DEFINE f == NewFrame(node, <<>>, <<>>, <<>>, {})
<1>1. f \in Frames
  BY EmptySeq, NewFrameTyped
<1>2. /\ f.id = Len(classes) + 1 /\ f.node = node /\ f.decls = <<>> /\ f.stmts = <<>>
      /\ f.phase = "declarations"
  BY DEF NewFrame
<1>3. Define(tree, "FACTORY", NoName, NoName, frames, f)
  BY DEF DefineFactory
<1> HIDE DEF f
<1>4. FitsNew("FACTORY", f)
  BY <1>1, <1>2 DEF FitsNew, NodeFits, UnitKinds
<1>5. MovesTop(frames) /\ "FACTORY" \in ClassKinds
  BY DEF MovesTop, ClassKinds
<1>6. UNCHANGED <<declarationsOnly, status>> /\ returnType' \in AnyType
  BY DEF file, Typed
<1>7. QED
  BY <1>3, <1>4, <1>5, <1>6, OpensAre, NoTypeIs

LEMMA LiteralsTyped ==
  ASSUME NEW d \in Declarations, d.node = "type"
  PROVE  LiteralEntries(d) \in Seq(Entries)
<1>1. d.literals \in Reads /\ d.name \in AnyType
  BY DeclTyped DEF AnyType
<1>2. PICK n \in Nat : DOMAIN d.literals = 1 .. n /\ \A k \in 1 .. n : d.literals[k] \in Names
  BY <1>1, EachIn DEF Reads
<1>3. \A k \in 1 .. n : Entry(d.literals[k], "ENUM", d.name) \in Entries
  BY <1>1, <1>2, EntryTyped DEF ObjectKinds
<1>4. LiteralEntries(d) \in [1 .. n -> Entries]
  BY <1>2, <1>3 DEF LiteralEntries
<1>5. QED
  BY <1>4, SeqDef

LEMMA OpenFactoryTyped ==
  ASSUME IInv, Typed
  PROVE  /\ OpenType => TypedStep
         /\ OpenSubtype => TypedStep
         /\ LoopRange => TypedStep
         /\ GenerateRange => TypedStep
<1>1. OpenType => TypedStep
  <2> SUFFICES ASSUME OpenType PROVE TypedStep
    OBVIOUS
  <2>1. Decl \in Declarations /\ Decl.node = "type" /\ frames # <<>>
    BY DeclIs DEF OpenType, At
  <2>2. Adds(AddEntries(classes, LiteralEntries(Decl)))
    BY <2>1, LiteralsTyped DEF Adds
  <2>3. Decl \in Nodes /\ Decl.reads \in Reads
    BY <2>1, DeclTyped DEF Nodes
  <2>4. QED
    BY <2>1, <2>2, <2>3, FactoryTyped DEF OpenType
<1>2. OpenSubtype => TypedStep
  <2> SUFFICES ASSUME OpenSubtype PROVE TypedStep
    OBVIOUS
  <2>1. Decl \in Declarations /\ Decl.node = "subtype" /\ frames # <<>>
        /\ TypesNamed(Decl.base) # {}
    BY DeclIs DEF OpenSubtype, At
  <2> DEFINE es == <<Entry(Decl.name, "TYPE", BestEntry(TypesNamed(Decl.base)).type)>>
  <2>2. es \in Seq(Entries)
    BY <2>1, DeclTyped, NamedTyped, EntryTyped
  <2>3. DefineFactory(AddEntries(classes, es), Decl)
    BY DEF OpenSubtype
  <2> HIDE DEF es
  <2>4. Adds(AddEntries(classes, es))
    BY <2>1, <2>2 DEF Adds
  <2>5. Decl \in Nodes /\ Decl.reads \in Reads
    BY <2>1, DeclTyped DEF Nodes
  <2>6. QED
    BY <2>1, <2>3, <2>4, <2>5, FactoryTyped DEF OpenSubtype
<1>3. LoopRange => TypedStep
  <2> SUFFICES ASSUME LoopRange PROVE TypedStep
    OBVIOUS
  <2>1. Stmt \in Statements /\ Stmt.node = "for" /\ frames # <<>>
    BY StmtIs DEF LoopRange, AtStmt
  <2>2. Stmt \in Nodes /\ Stmt.reads \in Reads /\ Adds(classes)
    BY <2>1, StmtTyped DEF Nodes, Adds
  <2>3. QED
    BY <2>1, <2>2, FactoryTyped DEF LoopRange, DefineRange
<1>4. GenerateRange => TypedStep
  <2> SUFFICES ASSUME GenerateRange PROVE TypedStep
    OBVIOUS
  <2>1. Conc \in Concurrents /\ Conc.node = "generate" /\ frames # <<>>
    BY ConcIs DEF GenerateRange, AtConc
  <2>2. Conc \in Nodes /\ Conc.reads \in Reads /\ Adds(classes)
    BY <2>1, ConcTyped DEF Nodes, Adds
  <2>3. QED
    BY <2>1, <2>2, FactoryTyped DEF GenerateRange, DefineRange
<1>5. QED
  BY <1>1, <1>2, <1>3, <1>4

LEMMA OpenFunctionTyped ==
  ASSUME IInv, Typed
  PROVE  OpenFunction => TypedStep
<1> SUFFICES ASSUME OpenFunction PROVE TypedStep
  OBVIOUS
<1>1. Decl \in Declarations /\ Decl.node = "function" /\ frames # <<>> /\ Top.decls # <<>>
  BY DeclIs DEF OpenFunction, At
<1>2. /\ FunctionType(Decl) \in AnyType /\ Decl.name \in Names
      /\ Decl.parameters \in Seq(Declarations) /\ Decl.decls \in Seq(Declarations)
      /\ Decl.stmts \in Seq(Statements)
  BY <1>1, DeclTyped, NamedTyped, NoTypeIs DEF FunctionType
<1>3. <<Entry(Decl.name, "FUNCTION", FunctionType(Decl))>> \in Seq(Entries)
  BY <1>2, EntryTyped DEF ObjectKinds
<1>4. Adds(WithFunction(Decl))
  BY <1>1, <1>3 DEF WithFunction, Adds
<1> DEFINE ds == Decl.parameters \o Decl.decls
           f == NewFrame(Decl, ds, Decl.stmts, <<>>, {})
<1>5. ds \in Seq(Declarations)
  BY <1>2, JoinedIn
<1>6. f \in Frames
  BY <1>1, <1>2, <1>5, EmptySeq, NewFrameTyped DEF Nodes
<1>7. f.id = Len(classes) + 1 /\ f.node = Decl /\ f.decls = Decl.parameters \o Decl.decls
      /\ f.phase = "declarations"
  BY DEF NewFrame
<1>8. Define(WithFunction(Decl), "FUNCTION", NoName, NoName, ReplaceTop(frames, DeclDone(Top)), f)
  BY DEF OpenFunction
<1> HIDE DEF f
<1>9. FitsNew("FUNCTION", f)
  BY <1>1, <1>6, <1>7 DEF FitsNew, NodeFits, UnitKinds
<1>10. MovesTop(ReplaceTop(frames, DeclDone(Top))) /\ "FUNCTION" \in ClassKinds
  BY <1>1, TopTyped DEF MovesTop, ClassKinds
<1>11. UNCHANGED <<declarationsOnly, status>> /\ returnType' \in AnyType /\ Writes({})
  BY <1>2 DEF OpenFunction, file
<1>12. QED
  BY <1>4, <1>8, <1>9, <1>10, <1>11, OpensAre, NoTypeIs

LEMMA OpenUnitTyped ==
  ASSUME IInv, Typed
  PROVE  OpenUnit => TypedStep
<1> SUFFICES ASSUME OpenUnit PROVE TypedStep
  OBVIOUS
<1> DEFINE u == Head(todo)
           f == NewFrame(u, u.decls, <<>>, u.conc, {})
<1>1. u \in Units /\ frames = <<>>
  BY HeadTailProperties DEF OpenUnit, NextUnit, IInv
<1>2. /\ u.node \in UnitKinds /\ u.name \in Names /\ u.base \in Names \cup {NoName}
      /\ u.decls \in Seq(Declarations) /\ u.conc \in Seq(Concurrents)
  BY <1>1, UnitTyped
<1>3. f \in Frames
  BY <1>1, <1>2, EmptySeq, NewFrameTyped DEF Nodes
<1>4. f.id = Len(classes) + 1 /\ f.node = u /\ f.phase = "declarations"
  BY DEF NewFrame
<1>5. Define(classes, u.node, u.name, u.base, <<>>, f)
  BY DEF OpenUnit
<1>6. UNCHANGED <<declarationsOnly, status>> /\ returnType' \in AnyType /\ Writes({})
  BY DEF OpenUnit, Typed
<1> HIDE DEF f, u
<1>7. u.node \notin {"FUNCTION", "PROCESS", "FACTORY", "GENERATE", "BLOCK"}
  BY <1>2 DEF UnitKinds
<1>8. FitsNew(u.node, f)
  BY <1>1, <1>3, <1>4, <1>7 DEF FitsNew, NodeFits
<1>9. MovesTop(<<>>) /\ u.node \in ClassKinds /\ Adds(classes)
  BY <1>1, <1>2 DEF MovesTop, ClassKinds, Adds
<1>10. QED
  BY <1>2, <1>5, <1>6, <1>7, <1>8, <1>9, OpensAre, NoTypeIs

LEMMA ListedTyped ==
  ASSUME IInv, NEW p \in Concurrents
  PROVE  \A m \in Listed(p) : IsMatch(classes, m)
BY BestValue DEF Listed, IsFoundAs

LEMMA OpenProcessTyped ==
  ASSUME IInv, Typed
  PROVE  OpenProcess => TypedStep
<1> SUFFICES ASSUME OpenProcess PROVE TypedStep
  OBVIOUS
<1>1. Conc \in Concurrents /\ Conc.node = "process" /\ frames # <<>> /\ Top.conc # <<>>
  BY ConcIs DEF OpenProcess, AtConc
<1>2. Conc.decls \in Seq(Declarations) /\ Conc.stmts \in Seq(Statements)
  BY <1>1, ConcTyped
<1> DEFINE ms == Listed(Conc)
           f == NewFrame(Conc, Conc.decls, Conc.stmts, <<>>, ms)
           rs == ReferencesTo(ms, Here, 0)
<1>3. \A m \in ms : IsMatch(classes, m)
  BY <1>1, ListedTyped
<1>4. ms \in SUBSET (Nat \X Nat)
  BY <1>3, MatchTyped DEF IInv, Nested
<1>5. f \in Frames
  BY <1>1, <1>2, <1>4, EmptySeq, NewFrameTyped DEF Nodes
<1>6. /\ f.id = Len(classes) + 1
      /\ f.node = Conc
      /\ f.decls = Conc.decls
      /\ f.stmts = Conc.stmts
      /\ f.instances = <<>>
      /\ f.phase = "declarations"
  BY DEF NewFrame
<1>7. RefersTo(rs)
  BY <1>1, <1>3, TopIs, MatchesTyped
<1>8. Define(classes, "PROCESS", NoName, NoName, ReplaceTop(frames, ConcDone(Top)), f)
  BY DEF OpenProcess
<1>9. UNCHANGED <<declarationsOnly, status>> /\ returnType' \in AnyType /\ Writes(rs)
  BY DEF OpenProcess, file, Typed
<1> HIDE DEF f, ms, rs
<1>10. FitsNew("PROCESS", f)
  BY <1>1, <1>5, <1>6 DEF FitsNew, NodeFits, UnitKinds
<1>11. MovesTop(ReplaceTop(frames, ConcDone(Top))) /\ "PROCESS" \in ClassKinds /\ Adds(classes)
  BY <1>1, TopTyped DEF MovesTop, ClassKinds, Adds
<1>12. QED
  BY <1>7, <1>8, <1>9, <1>10, <1>11, OpensAre

LEMMA OpenPartTyped ==
  ASSUME IInv, Typed
  PROVE  /\ OpenBlock => TypedStep
         /\ OpenGenerate => TypedStep
<1>1. ASSUME AtConcurrent,
             NEW tree, NEW kind, NEW rs, DefinePart(tree, kind, rs), Adds(tree), RefersTo(rs),
             \/ kind = "BLOCK" /\ Conc.node = "block"
             \/ kind = "GENERATE" /\ Conc.node = "generate" /\ AddsSome(tree)
      PROVE  TypedStep
  <2>1. Conc \in Concurrents /\ frames # <<>> /\ Top.conc # <<>>
    BY <1>1, ConcIs
  <2>2. Conc.decls \in Seq(Declarations) /\ Conc.conc \in Seq(Concurrents)
    BY <1>1, <2>1, ConcTyped
  <2> DEFINE f == NewFrame(Conc, Conc.decls, <<>>, Conc.conc, {})
  <2>3. f \in Frames
    BY <2>1, <2>2, EmptySeq, NewFrameTyped DEF Nodes
  <2>4. f.id = Len(classes) + 1 /\ f.node = Conc /\ f.phase = "declarations"
    BY DEF NewFrame
  <2>5. Define(tree, kind, NoName, NoName, ReplaceTop(frames, ConcDone(Top)), f)
    BY <1>1 DEF DefinePart
  <2>6. UNCHANGED <<declarationsOnly, status>> /\ returnType' \in AnyType /\ Writes(rs)
    BY <1>1 DEF DefinePart, file, Typed
  <2> HIDE DEF f
  <2>7. FitsNew(kind, f)
    <3>1. CASE kind = "BLOCK"
      BY <1>1, <2>1, <2>3, <2>4, <3>1 DEF FitsNew, NodeFits, UnitKinds
    <3>2. CASE kind = "GENERATE"
      BY <1>1, <2>1, <2>3, <2>4, <3>2 DEF FitsNew, NodeFits, UnitKinds
    <3>3. QED
      BY <1>1, <3>1, <3>2
  <2>8. MovesTop(ReplaceTop(frames, ConcDone(Top))) /\ kind \in ClassKinds
    BY <1>1, <2>1, TopTyped DEF MovesTop, ClassKinds
  <2>9. kind = "GENERATE" => AddsSome(tree)
    BY <1>1
  <2>10. QED
    BY <1>1, <2>5, <2>6, <2>7, <2>8, <2>9, OpensAre
<1>2. OpenBlock => TypedStep
  BY <1>1, NoTypeIs DEF OpenBlock, AtConc, Adds
<1>3. OpenGenerate => TypedStep
  <2> SUFFICES ASSUME OpenGenerate PROVE TypedStep
    OBVIOUS
  <2>1. AtConcurrent /\ Conc \in Concurrents /\ Conc.node = "generate" /\ frames # <<>>
    BY ConcIs DEF OpenGenerate, AtConc
  <2> DEFINE es == <<Entry(Conc.name, "ITERATOR", IterationType(Conc))>>
  <2>2. es \in Seq(Entries) /\ es # <<>>
    BY <2>1, ConcTyped, IterationTyped, EntryTyped DEF ObjectKinds
  <2> DEFINE rs == ReferencesTo(IterationName(Conc, Iterated(Conc)), Here, 0)
  <2>3. DefinePart(AddEntries(classes, es), "GENERATE", rs)
    BY DEF OpenGenerate
  <2>4. RefersTo(rs)
    BY <2>1, TopIs, IterationIs, MatchesTyped DEF IsFoundAs
  <2> HIDE DEF es, rs
  <2>5. Adds(AddEntries(classes, es)) /\ AddsSome(AddEntries(classes, es))
    BY <2>1, <2>2 DEF Adds, AddsSome
  <2>6. QED
    BY <1>1, <2>1, <2>3, <2>4, <2>5
<1>4. QED
  BY <1>2, <1>3

\* Steps that close a class.
LEMMA CloseTyped ==
  ASSUME IInv, Typed
  PROVE  CloseClass => TypedStep
<1>1. ASSUME NEW kinds, NEW fs, Closes(kinds, fs),
             \/ fs = <<>> \/ fs = PopFrame
             \/ Len(frames) > 1 /\ fs = ReplaceTop(PopFrame, Ready(frames[Len(frames) - 1])),
             NEW rs, RefersTo(rs), Writes(rs)
      PROVE  TypedStep
  <2>1. ClosesTyped
    BY <1>1 DEF Closes, ClosesTyped
  <2>2. QED
    BY <1>1, <2>1, NoTypeIs DEF TypedStep, Closes, Writes, file, flags, Typed
<1>2. CloseUnit => TypedStep
  BY <1>1, NoTypeIs DEF CloseUnit
<1>3. ClosePart => TypedStep
  BY <1>1, NoTypeIs DEF ClosePart
<1>4. CloseFunction => TypedStep
  BY <1>1, NoTypeIs DEF CloseFunction
<1>5. CloseFactory => TypedStep
  <2> SUFFICES ASSUME CloseFactory PROVE TypedStep
    OBVIOUS
  <2>1. frames # <<>> /\ Kind \notin UnitKinds
    BY DEF CloseFactory, Closes, UnitKinds
  <2>2. Len(frames) > 1
    BY <2>1, ProcessIsInside
  <2>3. QED
    BY <1>1, <2>2, NoTypeIs DEF CloseFactory
<1>6. CloseProcess => TypedStep
  <2> SUFFICES ASSUME CloseProcess PROVE TypedStep
    OBVIOUS
  <2>1. frames # <<>>
    BY DEF CloseProcess, Closes
  <2> DEFINE r == WaitReference(EndClass(classes), -1)
             rs == IF containsWait /\ Top.signals # {} THEN {r} ELSE {}
  <2>2. RefersTo(rs)
    <3>1. /\ Len(frames) \in Nat \ {0} /\ 1 \in 1 .. Len(frames)
          /\ Len(frames) \in 1 .. Len(frames)
      BY <2>1, TopIs
    <3>2. classes[Here].path[1] = frames[1].id /\ frames[1].id \in 1 .. Len(classes)
      BY <3>1, OpenPaths, FramesHave DEF IInv, Here, Top
    <3>3. Here \in 1 .. Len(classes)
      BY <2>1, TopIs
    <3>4. r.at = Here /\ r.to[1] = classes[Here].path[1]
      BY DEF WaitReference
    <3> HIDE DEF r
    <3>5. QED
      BY <3>2, <3>3, <3>4 DEF RefersTo
  <2>3. Closes({"PROCESS"}, PopFrame) /\ Writes(rs)
    BY DEF CloseProcess
  <2> HIDE DEF rs
  <2>4. QED
    BY <1>1, <2>2, <2>3
<1>7. QED
  BY <1>2, <1>3, <1>4, <1>5, <1>6 DEF CloseClass

LEMMA RestTyped ==
  ASSUME IInv, Typed
  PROVE  /\ Abort => TypedStep
         /\ SkipUnit => TypedStep
         /\ Finish => TypedStep
<1>1. ASSUME UNCHANGED <<declarationsOnly, classes, frames, returnType>>, Writes({}),
             status' \in {status, "done", "aborted"}
      PROVE  TypedStep
  BY <1>1, NoTypeIs DEF TypedStep, StaysTyped, Adds, MovesTop, Writes, Typed
<1>2. Abort => TypedStep
  BY <1>1 DEF Abort, file, flags
<1>3. SkipUnit => TypedStep
  BY <1>1 DEF SkipUnit, flags
<1>4. Finish => TypedStep
  BY <1>1 DEF Finish, file, flags
<1>5. QED
  BY <1>2, <1>3, <1>4

LEMMA StepTyped == IInv /\ GrowInv /\ [Next]_vars => TypedStep \/ UNCHANGED vars
<1> SUFFICES ASSUME IInv, GrowInv, [Next]_vars PROVE TypedStep \/ UNCHANGED vars
  OBVIOUS
<1>1. Typed
  BY DEF GrowInv
<1>2. Declaration => TypedStep
  BY <1>1, DeclarationTyped, OpenFactoryTyped, OpenFunctionTyped, RestTyped
     DEF Declaration, RangeIsLost, ObjectRangeIsLost, InitialValueIsLost, AliasIsLost
<1>3. Body => TypedStep
  BY BodyTyped DEF Body
<1>4. Statement => TypedStep
  BY <1>1, StatementTyped, AssignmentTyped, OpenFactoryTyped, RestTyped
     DEF Statement, LoopRangeIsLost
<1>5. ConcurrentStatement => TypedStep
  BY <1>1, InstanceTyped, OpenProcessTyped, OpenPartTyped, OpenFactoryTyped, RestTyped
     DEF ConcurrentStatement, GenerateRangeIsLost, ActualIsLost
<1>6. CASE Step
  BY <1>1, <1>2, <1>3, <1>4, <1>5, <1>6, CloseTyped, OpenUnitTyped, RestTyped DEF Step
<1>7. QED
  BY <1>6 DEF Next, Stopped

-----------------------------------------------------------------------------
(* Types: the invariant.                                                   *)

LEMMA AddsGrows ==
  ASSUME IInv, Typed, NEW tree, Adds(tree)
  PROVE  /\ tree \in Seq(Classes) /\ Nested(tree, frames)
         /\ Len(tree) = Len(classes) /\ Grows(classes, tree)
<1>1. CASE tree = classes
  BY <1>1, FramesHave DEF Typed, IInv, Grows, ClassStays, EntriesStay
<1>2. CASE tree # classes
  <2>1. PICK es \in Seq(Entries) : tree = AddEntries(classes, es)
    BY <1>2 DEF Adds
  <2>2. frames # <<>> /\ IsSequence(es) /\ Nested(classes, frames) /\ classes \in Seq(Classes)
    BY <1>2, SequenceIs DEF Adds, IInv, Typed
  <2>3. tree \in Seq(Classes)
    BY <2>1, <2>2, AddTyped
  <2>4. Nested(tree, frames)
    BY <2>1, <2>2, AddKeeps
  <2> DEFINE i == frames[Len(frames)].id
  <2> HIDE DEF i
  <2>5. i = frames[Len(frames)].id
    BY DEF i
  <2>6. Len(tree) = Len(classes) /\ Grows(classes, tree)
    BY <2>1, <2>2, <2>5, AddGrows
  <2>7. QED
    BY <2>3, <2>4, <2>6
<1>3. QED
  BY <1>1, <1>2

\* A declaration that adds something leaves something.
LEMMA AddsSomething ==
  ASSUME IInv, Typed, NEW tree, AddsSome(tree)
  PROVE  1 \in DOMAIN tree[Here].names
<1>1. PICK es \in Seq(Entries) : es # <<>> /\ tree = AddEntries(classes, es)
  BY DEF AddsSome
<1>2. frames # <<>> /\ IsSequence(es) /\ Nested(classes, frames)
  BY SequenceIs DEF AddsSome, IInv
<1> DEFINE i == frames[Len(frames)].id
<1>3. i = Here
  BY DEF Here, Top
<1> HIDE DEF i
<1>4. i = frames[Len(frames)].id
  BY DEF i
<1>5. i \in 1 .. Len(classes) /\ Joins(tree[i].names, classes[i].names, es)
  BY <1>1, <1>2, <1>4, AddGrows
<1>6. IsSequence(classes[i].names)
  BY <1>2, <1>5, NamesHave DEF Nested
<1> DEFINE r == classes[i].names
           s == tree[i].names
<1> HIDE DEF r, s
<1>7. IsSequence(r) /\ Joins(s, r, es)
  BY <1>5, <1>6 DEF r, s
<1>8. DOMAIN s = 1 .. Len(r) + Len(es) /\ Len(r) \in Nat /\ Len(es) \in Nat
  BY <1>2, <1>7, JoinedIs
<1>9. Len(es) # 0
  BY <1>1, EmptySeq
<1>10. 1 \in DOMAIN s
  BY <1>8, <1>9
<1>11. QED
  BY <1>3, <1>10 DEF s

LEMMA MovedTop ==
  ASSUME IInv, Typed, NEW fs, MovesTop(fs)
  PROVE  /\ fs \in Seq(Frames) /\ IsSequence(fs) /\ Len(fs) = Len(frames)
         /\ \A k \in 1 .. Len(frames) :
              /\ fs[k].id = frames[k].id /\ fs[k].node = frames[k].node
              /\ Moves(frames[k], fs[k])
<1>0. \A k \in 1 .. Len(frames) : Moves(frames[k], frames[k])
  BY ElementOfSeq DEF Moves, Typed
<1>1. CASE fs = frames
  BY <1>0, <1>1, FramesHave DEF Typed
<1>2. CASE fs # frames
  <2>1. PICK g : Moves(Top, g) /\ fs = ReplaceTop(frames, g)
    BY <1>2 DEF MovesTop
  <2>2. frames # <<>> /\ g \in Frames
    BY <1>2, <2>1 DEF MovesTop, Moves
  <2>3. /\ IsSequence(fs) /\ Len(fs) = Len(frames)
        /\ \A k \in 1 .. Len(frames) : fs[k] = IF k = Len(frames) THEN g ELSE frames[k]
    BY <2>1, <2>2, ReplacedFrames, FramesHave
  <2>4. fs \in Seq(Frames)
    BY <2>1, <2>2, ReplacedTyped DEF Typed
  <2>5. \A k \in 1 .. Len(frames) : Moves(frames[k], fs[k])
    BY <1>0, <2>1, <2>3 DEF Top
  <2>6. QED
    BY <2>3, <2>4, <2>5 DEF Moves
<1>3. QED
  BY <1>1, <1>2

\* What was called before stays what it is.
SameCalls(fs, gs, n) == \A k \in 1 .. n : gs[k].id = fs[k].id /\ gs[k].node = fs[k].node

CallFits(t, fs, k) ==
  /\ NodeFits(KindOf(t, fs, k), fs[k].node)
  /\ k # 1 /\ KindOf(t, fs, k) = "GENERATE" => 1 \in DOMAIN t[fs[k - 1].id].names

LEMMA CallsKept ==
  ASSUME IInv, GrowInv, NEW u, Grows(classes, u), NEW gs, NEW n \in Nat, n <= Len(frames),
         SameCalls(frames, gs, n), NEW k \in 1 .. n
  PROVE  CallFits(u, gs, k)
<1>1. k \in 1 .. Len(frames) /\ gs[k].id = frames[k].id /\ gs[k].node = frames[k].node
  BY FramesHave DEF SameCalls
<1>2. frames[k].id \in 1 .. Len(classes) /\ NodeFits(KindOf(classes, frames, k), frames[k].node)
  BY <1>1, FramesHave DEF GrowInv, NodesFit
<1>3. KindOf(u, gs, k) = KindOf(classes, frames, k)
  BY <1>1, <1>2 DEF KindOf, Grows, ClassStays
<1>4. ASSUME k # 1, KindOf(u, gs, k) = "GENERATE"
      PROVE  1 \in DOMAIN u[gs[k - 1].id].names
  <2>1. k - 1 \in 1 .. n /\ k \in 2 .. Len(frames) /\ k - 1 \in 1 .. Len(frames)
    BY <1>1, <1>4, FramesHave
  <2>2. gs[k - 1].id = frames[k - 1].id /\ frames[k - 1].id \in 1 .. Len(classes)
    BY <2>1, FramesHave DEF SameCalls
  <2>3. 1 \in DOMAIN classes[frames[k - 1].id].names
    BY <1>3, <1>4, <2>1 DEF GrowInv, VariablesKnown, KindOf
  <2>4. QED
    BY <2>2, <2>3 DEF Grows, ClassStays, EntriesStay
<1>5. QED
  BY <1>1, <1>2, <1>3, <1>4 DEF CallFits

LEMMA CallsFit ==
  ASSUME NEW t, NEW fs, Len(fs) \in Nat, \A k \in 1 .. Len(fs) : CallFits(t, fs, k)
  PROVE  VariablesKnown(t, fs) /\ NodesFit(t, fs)
<1>1. ASSUME NEW k \in 2 .. Len(fs), t[fs[k].id].kind = "GENERATE"
      PROVE  1 \in DOMAIN t[fs[k - 1].id].names
  <2>1. k \in 1 .. Len(fs) /\ k # 1
    OBVIOUS
  <2>2. QED
    BY <1>1, <2>1 DEF CallFits, KindOf
<1>2. QED
  BY <1>1 DEF CallFits, VariablesKnown, NodesFit

LEMMA StaysKeeps ==
  ASSUME IInv, GrowInv, StaysTyped
  PROVE  /\ classes' \in Seq(Classes) /\ frames' \in Seq(Frames)
         /\ Grows(classes, classes') /\ Len(classes') \in Nat
         /\ VariablesKnown(classes', frames') /\ NodesFit(classes', frames')
<1>1. Typed /\ Len(frames) \in Nat /\ Len(classes) \in Nat
  BY FramesHave DEF GrowInv
<1>2. classes' \in Seq(Classes) /\ Grows(classes, classes') /\ Len(classes') = Len(classes)
  BY <1>1, AddsGrows DEF StaysTyped
<1>3. frames' \in Seq(Frames) /\ Len(frames') = Len(frames)
      /\ SameCalls(frames, frames', Len(frames))
  BY <1>1, MovedTop DEF StaysTyped, SameCalls
<1>4. \A k \in 1 .. Len(frames') : CallFits(classes', frames', k)
  BY <1>1, <1>2, <1>3, CallsKept
<1>5. QED
  BY <1>1, <1>2, <1>3, <1>4, CallsFit

LEMMA ClosesKeeps ==
  ASSUME IInv, GrowInv, ClosesTyped
  PROVE  /\ classes' \in Seq(Classes) /\ frames' \in Seq(Frames)
         /\ Grows(classes, classes') /\ Len(classes') \in Nat
         /\ VariablesKnown(classes', frames') /\ NodesFit(classes', frames')
<1>1. Typed /\ Len(frames) \in Nat /\ Len(classes) \in Nat /\ frames # <<>>
      /\ IsSequence(frames) /\ Nested(classes, frames)
  BY FramesHave DEF GrowInv, ClosesTyped, IInv
<1>2. classes' = EndClass(classes) /\ classes \in Seq(Classes) /\ frames \in Seq(Frames)
  BY <1>1 DEF ClosesTyped, Typed
<1>3. classes' \in Seq(Classes) /\ Grows(classes, classes') /\ Len(classes') = Len(classes)
  BY <1>1, <1>2, EndTyped, EndGrows
<1>4. PopFrame \in Seq(Frames) /\ IsSequence(PopFrame) /\ Len(PopFrame) = Len(frames) - 1
      /\ \A k \in 1 .. Len(frames) - 1 : PopFrame[k] = frames[k]
  BY <1>1, <1>2, PoppedTyped, FrontIs DEF PopFrame
<1> DEFINE n == Len(frames')
<1>5. /\ frames' \in Seq(Frames) /\ n \in Nat /\ n <= Len(frames)
      /\ SameCalls(frames, frames', n)
  <2>1. CASE frames' = <<>>
    <3>1. n = 0 /\ frames' \in Seq(Frames)
      BY <2>1, EmptySeq
    <3> HIDE DEF n
    <3>2. QED
      BY <1>1, <3>1 DEF SameCalls
  <2>2. CASE frames' = PopFrame
    <3>1. n = Len(frames) - 1
      BY <1>4, <2>2
    <3> HIDE DEF n
    <3>2. n \in Nat /\ n <= Len(frames)
      <4>1. Len(frames) \in Nat \ {0}
        BY <1>1, FrontIs
      <4>2. QED
        BY <3>1, <4>1
    <3>3. QED
      BY <1>4, <2>2, <3>1, <3>2 DEF SameCalls
  <2>3. CASE Len(frames) > 1 /\ frames' = ReplaceTop(PopFrame, Ready(frames[Len(frames) - 1]))
    <3> DEFINE m == Len(frames) - 1
               g == Ready(frames[m])
    <3>1. m \in 1 .. Len(frames) /\ m \in Nat /\ m # 0
      <4> HIDE DEF g, n
      <4>1. Len(frames) \in Nat /\ Len(frames) > 1 /\ m = Len(frames) - 1
        BY <1>1, <2>3 DEF m
      <4> HIDE DEF m
      <4>2. QED
        BY <4>1
    <3>2. frames[m] \in Frames /\ Len(PopFrame) = m
      BY <1>2, <1>4, <3>1, ElementOfSeq
    <3>3. g \in Frames /\ g.id = frames[m].id /\ g.node = frames[m].node
      BY <3>2, DoneTyped DEF Ready, Frames
    <3>4. PopFrame # <<>>
      BY <3>1, <3>2, EmptySeq
    <3>5. frames' = ReplaceTop(PopFrame, g)
      BY <2>3
    <3> HIDE DEF m, g
    <3>6. /\ Len(frames') = Len(PopFrame)
          /\ \A k \in 1 .. Len(PopFrame) : frames'[k] = IF k = Len(PopFrame) THEN g ELSE PopFrame[k]
      BY <1>4, <3>4, <3>5, ReplacedFrames
    <3>7. frames' \in Seq(Frames)
      BY <1>4, <3>3, <3>4, <3>5, ReplacedTyped
    <3>8. n = m /\ m \in Nat /\ m <= Len(frames)
      BY <1>1, <3>1, <3>2, <3>6
    <3>9. \A k \in 1 .. m : frames'[k] = IF k = m THEN g ELSE frames[k]
      BY <1>4, <3>2, <3>6 DEF m
    <3> HIDE DEF n
    <3>10. QED
      BY <3>3, <3>7, <3>8, <3>9 DEF SameCalls
  <2>4. QED
    BY <2>1, <2>2, <2>3 DEF ClosesTyped
<1>6. \A k \in 1 .. n : CallFits(classes', frames', k)
  <2> HIDE DEF n
  <2>1. QED
    BY <1>3, <1>5, CallsKept
<1>7. QED
  BY <1>1, <1>3, <1>5, <1>6, CallsFit

LEMMA OpensKeeps ==
  ASSUME IInv, GrowInv, OpensTyped
  PROVE  /\ classes' \in Seq(Classes) /\ frames' \in Seq(Frames)
         /\ Grows(classes, classes') /\ Len(classes') \in Nat
         /\ VariablesKnown(classes', frames') /\ NodesFit(classes', frames')
<1>1. Typed /\ Len(frames) \in Nat /\ Len(classes) \in Nat
  BY FramesHave DEF GrowInv
<1>2. PICK tree, kind, name, base, fs, f :
        /\ AddsClass(tree, kind, name, base) /\ FitsNew(kind, f)
        /\ MovesTop(fs) /\ frames' = Append(fs, f)
  BY DEF OpensTyped
<1>3. /\ tree \in Seq(Classes) /\ Nested(tree, frames) /\ IsTree(tree)
      /\ Len(tree) = Len(classes) /\ Grows(classes, tree)
  BY <1>1, <1>2, AddsGrows DEF AddsClass, Nested
<1>4. classes' = NewClass(tree, kind, name, base) /\ kind \in ClassKinds
      /\ name \in Names \cup {NoName} /\ base \in Names \cup {NoName}
  BY <1>2 DEF AddsClass
<1>5. classes' \in Seq(Classes)
  BY <1>3, <1>4, NewTyped
<1>6. /\ Grows(tree, classes') /\ Len(classes') = Len(tree) + 1
      /\ classes'[Len(tree) + 1].kind = kind
  BY <1>3, <1>4, NewGrows
<1>7. Grows(classes, classes') /\ Len(classes') \in Nat
  BY <1>1, <1>3, <1>6, GrowsOn
<1>8. /\ fs \in Seq(Frames) /\ IsSequence(fs) /\ Len(fs) = Len(frames)
      /\ \A k \in 1 .. Len(frames) :
           fs[k].id = frames[k].id /\ fs[k].node = frames[k].node
  BY <1>1, <1>2, MovedTop
<1>9. f \in Frames /\ f.id = Len(classes) + 1 /\ NodeFits(kind, f.node)
  BY <1>2 DEF FitsNew
<1>10. frames' \in Seq(Frames)
  BY <1>2, <1>8, <1>9, AppendProperties
<1>11. /\ Len(frames') = Len(frames) + 1 /\ frames'[Len(frames) + 1] = f
       /\ \A k \in 1 .. Len(frames) : frames'[k] = fs[k]
  BY <1>2, <1>8, AppendedIs
<1>12. SameCalls(frames, frames', Len(frames))
  BY <1>8, <1>11 DEF SameCalls
<1> DEFINE n == Len(frames)
<1>13. \A k \in 1 .. n : CallFits(classes', frames', k)
  BY <1>1, <1>7, <1>12, CallsKept
<1>14. CallFits(classes', frames', n + 1)
  <2>1. KindOf(classes', frames', n + 1) = kind
    BY <1>3, <1>6, <1>9, <1>11 DEF KindOf
  <2>2. ASSUME n + 1 # 1, kind = "GENERATE"
        PROVE  1 \in DOMAIN classes'[frames'[n + 1 - 1].id].names
    <3>1. n \in 1 .. n /\ n + 1 - 1 = n
      BY <1>1, <2>2
    <3>2. frames'[n + 1 - 1].id = Here /\ Here \in 1 .. Len(classes)
      BY <1>8, <1>11, <3>1, FramesHave DEF Here, Top
    <3>3. 1 \in DOMAIN tree[Here].names
      BY <1>1, <1>2, <2>2, AddsSomething DEF AddsClass
    <3>4. QED
      BY <1>3, <1>6, <3>2, <3>3 DEF Grows, ClassStays, EntriesStay
  <2>3. frames'[n + 1].node = f.node
    BY <1>11
  <2>4. QED
    BY <1>9, <2>1, <2>2, <2>3 DEF CallFits
<1>15. \A k \in 1 .. Len(frames') : CallFits(classes', frames', k)
  <2>1. Len(frames') = n + 1 /\ n \in Nat
    BY <1>1, <1>11
  <2> HIDE DEF n
  <2>2. QED
    BY <1>13, <1>14, <2>1
<1>16. Len(frames') \in Nat
  BY <1>1, <1>11
<1>17. QED
  BY <1>5, <1>7, <1>10, <1>15, <1>16, CallsFit

LEMMA GrowStep == IInv /\ GrowInv /\ [Next]_vars => GrowInv' /\ Grows(classes, classes')
<1> SUFFICES ASSUME IInv, GrowInv, [Next]_vars PROVE GrowInv' /\ Grows(classes, classes')
  OBVIOUS
<1>1. CASE TypedStep
  <2>1. /\ classes' \in Seq(Classes) /\ frames' \in Seq(Frames)
        /\ Grows(classes, classes')
        /\ VariablesKnown(classes', frames') /\ NodesFit(classes', frames')
    BY <1>1, StaysKeeps, OpensKeeps, ClosesKeeps DEF TypedStep
  <2>2. declarationsOnly' \in BOOLEAN /\ returnType' \in AnyType
    BY <1>1 DEF TypedStep, GrowInv, Typed
  <2>3. QED
    BY <2>1, <2>2 DEF GrowInv, Typed, VariablesKnown, NodesFit, KindOf
<1>2. CASE UNCHANGED vars
  <2>1. Grows(classes, classes')
    BY <1>2, FramesHave DEF vars, Grows, ClassStays, EntriesStay
  <2>2. GrowInv'
    BY <1>2 DEF vars, GrowInv, Typed, VariablesKnown, NodesFit, KindOf
  <2>3. QED
    BY <2>1, <2>2
<1>3. QED
  BY <1>1, <1>2, StepTyped

LEMMA GrowStart == Init => GrowInv
<1> SUFFICES ASSUME Init PROVE GrowInv
  OBVIOUS
<1>1. frames = <<>> /\ Len(frames) = 0 /\ frames \in Seq(Frames)
  BY EmptySeq DEF Init
<1>2. Typed
  BY <1>1, FilesAssumption, NoTypeIs DEF Init, Typed
<1>3. QED
  BY <1>1, <1>2 DEF GrowInv, VariablesKnown, NodesFit

-----------------------------------------------------------------------------
(* Types: the theorem.                                                     *)

IsPair(p) == p = <<p[1], p[2]>>

ArePairs(made) == \A n \in DOMAIN made : IsPair(made[n])

OutputInv ==
  /\ expected \in AnyType /\ status \in {"running", "done", "aborted"}
  /\ RefersTo(references)
  /\ IsSequence(constructed) /\ ArePairs(constructed)

LEMMA PairAppended ==
  ASSUME NEW made, IsSequence(made), ArePairs(made), NEW pair, IsPair(pair),
         NEW new, new = Append(made, pair)
  PROVE  IsSequence(new) /\ ArePairs(new)
<1>1. /\ IsSequence(new) /\ Len(new) = Len(made) + 1 /\ new[Len(made) + 1] = pair
      /\ \A n \in 1 .. Len(made) : new[n] = made[n]
  BY AppendIs
<1>2. Len(made) \in Nat /\ DOMAIN made = 1 .. Len(made) /\ DOMAIN new = 1 .. Len(made) + 1
  BY <1>1, SequenceHas
<1>3. \A n \in DOMAIN new : n \in DOMAIN made \/ n = Len(made) + 1
  BY <1>2
<1>4. QED
  BY <1>1, <1>2, <1>3 DEF ArePairs

LEMMA StepMakes ==
  ASSUME IInv, OutputInv, [Next]_vars
  PROVE  \/ UNCHANGED constructed
         \/ \E pair : IsPair(pair) /\ constructed' = Append(constructed, pair)
<1>1. StepKind
  BY StepIsKind
<1>2. \A a, b : IsPair(<<a, b>>)
  BY DEF IsPair
<1>3. QED
  BY <1>1, <1>2 DEF StepKind, Rests, Works, BeginsBody, BeginsParts, EndsStatements, StaysInClass,
     Enters, Leaves

LEMMA OutputStep == IInv /\ GrowInv /\ OutputInv /\ [Next]_vars => OutputInv'
<1> SUFFICES ASSUME IInv, GrowInv, OutputInv, [Next]_vars PROVE OutputInv'
  OBVIOUS
<1>1. (IsSequence(constructed) /\ ArePairs(constructed))'
  <2>1. CASE UNCHANGED constructed
    BY <2>1 DEF OutputInv, ArePairs
  <2>2. CASE \E pair : IsPair(pair) /\ constructed' = Append(constructed, pair)
    BY <2>2, PairAppended DEF OutputInv
  <2>3. QED
    BY <2>1, <2>2, StepMakes
<1>2. Grows(classes, classes')
  BY GrowStep
<1>3. expected' \in AnyType /\ status' \in {"running", "done", "aborted"}
  BY StepTyped DEF OutputInv, TypedStep, vars
<1>4. \E rs : RefersTo(rs) /\ references' = rs
  BY StepTyped DEF OutputInv, TypedStep, vars
<1>5. Len(classes) \in Nat /\ Len(classes') \in Nat /\ Len(classes) <= Len(classes')
  <2>1. IInv'
    BY StepKeepsInv
  <2>2. Len(classes) \in Nat /\ Len(classes') \in Nat
    BY <2>1, SequenceHas DEF IInv, Nested, IsTree
  <2>3. QED
    BY <1>2, <2>2 DEF Grows
<1>6. RefersTo(references)'
  BY <1>4, <1>5 DEF RefersTo
<1>7. QED
  BY <1>1, <1>3, <1>6 DEF OutputInv

LEMMA OutputStart == Init => OutputInv
<1> SUFFICES ASSUME Init PROVE OutputInv
  OBVIOUS
<1>1. constructed = <<>> /\ IsSequence(constructed) /\ DOMAIN constructed = {}
  BY EntriesAreSequences DEF Init
<1>2. QED
  BY <1>1, NoTypeIs DEF Init, OutputInv, RefersTo, ArePairs

AllInv == IInv /\ BodyInv /\ PartInv /\ FlagInv /\ GrowInv /\ OutputInv

LEMMA AllAlways == Spec => []AllInv
<1>1. Init => BodyInv /\ PartInv /\ FlagInv /\ GrowInv /\ OutputInv
  BY BodiesStart, PartsStart, FlagStart, GrowStart, OutputStart
<1>2. IInv /\ BodyInv /\ PartInv /\ FlagInv /\ GrowInv /\ OutputInv /\ [Next]_vars
      => (BodyInv /\ PartInv /\ FlagInv /\ GrowInv /\ OutputInv)'
  BY StepKeepsBodies, StepKeepsParts, StepKeepsFlag, GrowStep, OutputStep
<1>3. IInv /\ BodyInv /\ PartInv /\ FlagInv /\ GrowInv /\ OutputInv => AllInv
  BY DEF AllInv
<1>4. QED
  BY <1>1, <1>2, <1>3, InvAlways, PTL DEF Spec

\* Every variable keeps a value of its type, for every set of syntax trees: the
\* frames are those of defineObject's arguments, and what the output refers to
\* are classes that exist.
THEOREM TypesAlwaysOK == Spec => []TypeOK
<1>1. AllInv => TypeOK
  <2> SUFFICES ASSUME AllInv PROVE TypeOK
    OBVIOUS
  <2>1. \A k \in DOMAIN frames : frames[k].id \in Positions
    BY FramesHave, SequenceHas DEF AllInv, Positions
  <2>2. bodies \in Seq(Positions)
    <3>1. CASE bodies = <<>>
      BY <3>1, EmptySeq
    <3>2. CASE \E k \in 1 .. Len(frames) : bodies = <<frames[k].id>>
      <4>1. PICK i \in Positions : bodies = <<i>>
        BY <3>2, FramesHave DEF AllInv, Positions
      <4>2. QED
        BY <4>1
    <3>3. QED
      BY <3>1, <3>2 DEF AllInv, BodyInv, Owned
  <2>3. constructed \in Seq(Positions \X Positions)
    <3>1. ASSUME NEW n \in DOMAIN constructed
          PROVE  constructed[n] \in Positions \X Positions
      <4>1. constructed[n] = <<constructed[n][1], constructed[n][2]>>
        BY DEF AllInv, OutputInv, ArePairs, IsPair
      <4>2. constructed[n][1] \in Positions /\ constructed[n][2] \in Positions
        BY DEF AllInv, PartInv, MakesInside, Positions
      <4>3. QED
        BY <4>1, <4>2
    <3>2. IsSequence(constructed)
      BY DEF AllInv, OutputInv
    <3>3. QED
      BY <3>1, <3>2 DEF IsSequence
  <2>4. \A s \in spawned : s.process \in Positions
    BY DEF AllInv, FlagInv, SpawnsAre, SpawnIs, Positions
  <2>5. QED
    BY <2>1, <2>2, <2>3, <2>4
       DEF AllInv, IInv, GrowInv, Typed, OutputInv, FlagInv, RefersTo, Positions, TypeOK
<1>2. QED
  BY <1>1, AllAlways, PTL
-----------------------------------------------------------------------------
(* Returns: the frames of a step.                                          *)

\* A frame that is there before and after a step goes on with what it has.
FramesMove ==
  /\ Len(frames') <= Len(frames) + 1
  /\ \A k \in 1 .. Len(frames) : k \in 1 .. Len(frames') => Moves(frames[k], frames'[k])

\* The frame that a step adds is made from the node of its class.
FrameAdded ==
  LET n == Len(frames) + 1
  IN  /\ n \in 1 .. Len(frames') /\ Len(classes') = Len(classes) + 1
      /\ FitsNew(KindOf(classes', frames', n), frames'[n])

LEMMA OpensMove ==
  ASSUME IInv, Typed, OpensTyped
  PROVE  FramesMove /\ FrameAdded
<1>1. PICK tree, kind, name, base, fs, f :
        /\ AddsClass(tree, kind, name, base) /\ FitsNew(kind, f)
        /\ MovesTop(fs) /\ frames' = Append(fs, f)
  BY DEF OpensTyped
<1>2. /\ Len(tree) = Len(classes) /\ Len(classes) \in Nat /\ IsTree(tree)
      /\ classes' = NewClass(tree, kind, name, base)
  BY <1>1, AddsGrows, FramesHave DEF AddsClass, Nested
<1>3. Len(classes') = Len(classes) + 1 /\ classes'[Len(classes) + 1].kind = kind
  BY <1>2, NewGrows
<1>4. /\ IsSequence(fs) /\ Len(fs) = Len(frames) /\ Len(frames) \in Nat
      /\ \A k \in 1 .. Len(frames) : Moves(frames[k], fs[k])
  BY <1>1, MovedTop, FramesHave
<1>5. /\ Len(frames') = Len(frames) + 1 /\ frames'[Len(frames) + 1] = f
      /\ \A k \in 1 .. Len(frames) : frames'[k] = fs[k]
  BY <1>1, <1>4, AppendedIs
<1>6. KindOf(classes', frames', Len(frames) + 1) = kind
  BY <1>1, <1>3, <1>5 DEF FitsNew, KindOf
<1>7. FramesMove
  BY <1>4, <1>5 DEF FramesMove
<1>8. Len(frames) + 1 \in 1 .. Len(frames')
  BY <1>4, <1>5
<1>9. FrameAdded
  BY <1>1, <1>3, <1>5, <1>6, <1>8 DEF FrameAdded
<1>10. QED
  BY <1>7, <1>9

LEMMA ClosesMove ==
  ASSUME IInv, Typed, ClosesTyped
  PROVE  FramesMove /\ Len(frames') <= Len(frames) - 1 /\ Len(frames) \in Nat
<1>1. Len(frames) \in Nat \ {0} /\ frames # <<>> /\ frames \in Seq(Frames)
      /\ IsSequence(frames)
  BY FramesHave, FrontIs DEF ClosesTyped, Typed
<1>2. IsSequence(PopFrame) /\ Len(PopFrame) = Len(frames) - 1
      /\ \A k \in 1 .. Len(frames) - 1 : PopFrame[k] = frames[k]
  BY <1>1, FrontIs DEF PopFrame
<1>3. \A k \in 1 .. Len(frames) : Moves(frames[k], frames[k])
  BY <1>1, ElementOfSeq DEF Moves
<1>4. CASE frames' = <<>>
  <2>1. Len(frames') = 0
    BY <1>4, EmptySeq
  <2>2. QED
    BY <1>1, <2>1 DEF FramesMove
<1>5. CASE frames' = PopFrame
  <2>1. Len(frames') = Len(frames) - 1
    BY <1>2, <1>5
  <2>2. \A k \in 1 .. Len(frames) - 1 : Moves(frames[k], frames'[k])
    BY <1>1, <1>2, <1>3, <1>5
  <2>3. QED
    BY <1>1, <2>1, <2>2 DEF FramesMove
<1>6. CASE Len(frames) > 1 /\ frames' = ReplaceTop(PopFrame, Ready(frames[Len(frames) - 1]))
  <2>1. PICK n \in Nat \ {0} : n = Len(frames) - 1
    BY <1>1, <1>6
  <2>2. n \in 1 .. Len(frames) /\ Len(PopFrame) = n /\ Len(frames) = n + 1
    BY <1>1, <1>2, <2>1
  <2> DEFINE g == Ready(frames[n])
  <2>3. frames[n] \in Frames
    BY <1>1, <2>2, ElementOfSeq
  <2>4. Moves(frames[n], g)
    BY <2>3, DoneTyped DEF Moves, Ready, Frames
  <2>5. frames' = ReplaceTop(PopFrame, g) /\ PopFrame # <<>>
    BY <1>2, <1>6, <2>1, <2>2, EmptySeq
  <2> HIDE DEF g
  <2>6. /\ Len(frames') = n
        /\ \A k \in 1 .. n : frames'[k] = IF k = n THEN g ELSE PopFrame[k]
    BY <1>2, <2>2, <2>5, ReplacedFrames
  <2>7. \A k \in 1 .. n : Moves(frames[k], frames'[k])
    BY <1>2, <1>3, <2>2, <2>4, <2>6
  <2>8. QED
    BY <1>1, <2>2, <2>6, <2>7 DEF FramesMove
<1>7. QED
  BY <1>4, <1>5, <1>6 DEF ClosesTyped

LEMMA StepLength ==
  ASSUME IInv, [Next]_vars
  PROVE  Len(frames') \in Nat /\ IInv'
<1>1. IInv'
  BY StepKeepsInv
<1>2. QED
  BY <1>1, SequenceHas DEF IInv, Nested, IsStack

LEMMA StepMoves ==
  ASSUME IInv, GrowInv, [Next]_vars
  PROVE  /\ FramesMove /\ Len(frames) \in Nat /\ Len(frames') \in Nat
         /\ FrameAdded \/ Len(frames') <= Len(frames)
<1>1. Typed /\ Len(frames) \in Nat
  BY FramesHave DEF GrowInv
<1>2. CASE TypedStep
  <2>1. CASE StaysTyped
    <3>1. /\ Len(frames') = Len(frames)
          /\ \A k \in 1 .. Len(frames) : Moves(frames[k], frames'[k])
      BY <1>1, <2>1, MovedTop DEF StaysTyped
    <3>2. QED
      BY <1>1, <3>1 DEF FramesMove
  <2>2. CASE OpensTyped
    BY <1>1, <2>2, OpensMove, StepLength
  <2>3. CASE ClosesTyped
    BY <1>1, <2>3, ClosesMove, StepLength
  <2>4. QED
    BY <1>2, <2>1, <2>2, <2>3 DEF TypedStep
<1>3. CASE UNCHANGED vars
  <2>1. \A k \in 1 .. Len(frames) : Moves(frames[k], frames[k])
    BY <1>1, ElementOfSeq DEF Moves, Typed
  <2>2. QED
    BY <1>1, <1>3, <2>1 DEF FramesMove, vars
<1>4. QED
  BY <1>2, <1>3, StepTyped
-----------------------------------------------------------------------------
(* Returns: the invariant.                                                 *)

\* No declaration of a function is left.
NoFunctionIn(ds) == \A n \in 1 .. Len(ds) : ds[n].node # "function"

\* A function that declares no function itself.
IsPlain(t, fs, k) == KindOf(t, fs, k) = "FUNCTION" /\ ~DeclaresFunction(fs[k].node)

\* The class around knows the function by the type that is stored.
TypeStored(t, fs, k, type) ==
  /\ k > 1
  /\ \E n \in DOMAIN t[fs[k - 1].id].names :
       t[fs[k - 1].id].names[n] = Entry(fs[k].node.name, "FUNCTION", type)

PlainKept(t, fs, k, type) ==
  NoFunctionIn(fs[k].decls) /\ IsOwner(t, fs, k) /\ TypeStored(t, fs, k, type)

ReturnInv ==
  /\ \A k \in 1 .. Len(frames) :
       IsPlain(classes, frames, k) => PlainKept(classes, frames, k, returnType)
  /\ expected # NoType =>
       frames # <<>> /\ Top.phase = "statements" /\ expected = returnType

LEMMA StepReturns ==
  ASSUME [Next]_vars
  PROVE  UNCHANGED returnType \/ DeclareFunction \/ OpenFunction
<1>1. Declaration => UNCHANGED returnType \/ DeclareFunction \/ OpenFunction
  BY DEF Declaration, OpenType, CloseType, TypeWithoutBase, OpenSubtype, CloseSubtype,
     SubtypeWithoutBase, RangeIsLost, DeclareObject, ObjectRangeIsLost, InitialiseObject,
     InitialValueIsLost, ObjectWithoutType, DeclareAlias, AliasIsLost, Abort, flags
<1>2. Body => UNCHANGED returnType
  BY DEF Body, StartRun, WriteFactory, StartGenerate, StartOther, EndStatements, Turns, flags
<1>3. Statement => UNCHANGED returnType
  BY DEF Statement, WaitStatement, ProcedureCall, ReturnStatement, Assignment,
     AssignmentWithoutType, Condition, Executes, LoopRange, DefineRange, EnterLoop,
     LoopRangeIsLost, Abort, flags
<1>4. ConcurrentStatement => UNCHANGED returnType
  BY DEF ConcurrentStatement, OpenProcess, OpenBlock, GenerateRange, DefineRange,
     OpenGenerate, DefinePart, GenerateRangeIsLost, PostponeInstance, Instantiate,
     ActualIsLost, Abort, flags
<1>5. CloseClass => UNCHANGED returnType
  BY DEF CloseClass, CloseUnit, ClosePart, CloseFunction, CloseFactory, CloseProcess,
     Closes, flags
<1>6. OpenUnit \/ SkipUnit \/ Finish => UNCHANGED returnType
  BY DEF OpenUnit, SkipUnit, Finish, flags
<1>7. QED
  BY <1>1, <1>2, <1>3, <1>4, <1>5, <1>6 DEF Next, Step, Stopped, vars

LEMMA StepExpects ==
  ASSUME [Next]_vars
  PROVE  expected' = NoType \/ ReturnStatement \/ UNCHANGED vars
<1>1. Declaration => expected' = NoType
  BY DEF Declaration, OpenType, CloseType, TypeWithoutBase, OpenSubtype, CloseSubtype,
     SubtypeWithoutBase, RangeIsLost, DeclareObject, ObjectRangeIsLost, InitialiseObject,
     InitialValueIsLost, ObjectWithoutType, DeclareAlias, AliasIsLost, DeclareFunction, OpenFunction, Abort,
     Writes
<1>2. Body => expected' = NoType
  BY DEF Body, StartRun, WriteFactory, StartGenerate, StartOther, EndStatements, Turns, Writes
<1>3. Statement => expected' = NoType \/ ReturnStatement
  BY DEF Statement, WaitStatement, ProcedureCall, Assignment, AssignmentWithoutType,
     Condition, LoopRange, DefineRange, EnterLoop, LoopRangeIsLost, Abort, Writes
<1>4. ConcurrentStatement => expected' = NoType
  BY DEF ConcurrentStatement, OpenProcess, OpenBlock, GenerateRange, DefineRange,
     OpenGenerate, DefinePart, GenerateRangeIsLost, PostponeInstance, Instantiate,
     ActualIsLost, Abort, Writes
<1>5. CloseClass => expected' = NoType
  BY DEF CloseClass, CloseUnit, ClosePart, CloseFunction, CloseFactory, CloseProcess, Writes
<1>6. OpenUnit \/ SkipUnit \/ Finish => expected' = NoType
  BY DEF OpenUnit, SkipUnit, Finish, Writes
<1>7. QED
  BY <1>1, <1>2, <1>3, <1>4, <1>5, <1>6 DEF Next, Step, Stopped

\* A class that is opened among declarations is a function or a factory.
LEMMA DeclarationOpens ==
  ASSUME IInv, [Next]_vars, frames # <<>>, Top.phase # "concurrent",
         NEW kind, Enters(kind)
  PROVE  OpenFunction \/ kind = "FACTORY"
<1> SUFFICES ASSUME ~OpenFunction PROVE kind = "FACTORY"
  OBVIOUS
<1>1. classes'[Len(classes) + 1].kind = kind /\ Len(classes') = Len(classes) + 1
      /\ Len(classes) \in Nat
  BY FramesHave DEF Enters, Gains
<1>2. ASSUME Enters("FACTORY") PROVE kind = "FACTORY"
  BY <1>1, <1>2 DEF Enters, Gains
<1>3. Len(classes') # Len(classes)
  BY <1>1
<1>4. \A es : Len(AddEntries(classes, es)) = Len(classes) /\ Len(EndClass(classes)) = Len(classes)
  BY LengthsKept
<1>5. ~Abort /\ ~(UNCHANGED classes)
  BY <1>3 DEF Abort
<1>6. Declaration => kind = "FACTORY"
  BY <1>2, <1>3, <1>4, <1>5, FactoriesEnter
     DEF Declaration, CloseType, TypeWithoutBase, CloseSubtype,
     SubtypeWithoutBase, RangeIsLost, DeclareObject, ObjectRangeIsLost, InitialiseObject,
     InitialValueIsLost, ObjectWithoutType, DeclareAlias, AliasIsLost, DeclareFunction, WithFunction, Declares
<1>7. ~Body
  BY <1>3, <1>4, <1>5 DEF Body, StartRun, WriteFactory, StartGenerate, StartOther,
     EndStatements, Turns
<1>8. Statement => kind = "FACTORY"
  BY <1>2, <1>3, <1>4, <1>5, FactoriesEnter
     DEF Statement, WaitStatement, ProcedureCall, ReturnStatement, Assignment,
     AssignmentWithoutType, Condition, Executes, EnterLoop, LoopRangeIsLost
<1>9. ~ConcurrentStatement
  BY DEF ConcurrentStatement, OpenProcess, OpenBlock, GenerateRange, AtConc, AtConcurrent,
     OpenGenerate, GenerateRangeIsLost, PostponeInstance, Instantiate, ActualIsLost, AtInstance
<1>10. ~CloseClass /\ ~OpenUnit /\ ~SkipUnit /\ ~Finish
  BY <1>3, <1>4 DEF CloseClass, CloseUnit, ClosePart, CloseFunction, CloseFactory,
     CloseProcess, Closes, OpenUnit, NextUnit, SkipUnit, Finish
<1>11. ~(UNCHANGED vars)
  BY <1>5 DEF vars
<1>12. QED
  BY <1>6, <1>7, <1>8, <1>9, <1>10, <1>11 DEF Next, Step, Stopped
\* The declarations that are left are among those that were.
LEMMA NoFunctionLeft ==
  ASSUME NEW f, NEW g, f \in Frames, Moves(f, g), NoFunctionIn(f.decls)
  PROVE  NoFunctionIn(g.decls)
<1>1. f.decls \in Seq(Declarations)
  BY DEF Frames
<1>2. CASE g.decls = f.decls
  BY <1>2
<1>3. CASE f.decls # <<>> /\ g.decls = Tail(f.decls)
  <2> DEFINE ds == f.decls
             es == g.decls
  <2>1. /\ Len(ds) \in Nat \ {0} /\ Len(es) = Len(ds) - 1
        /\ \A i \in 1 .. Len(es) : es[i] = ds[i + 1]
    BY <1>1, <1>3, EmptySeq, HeadTailProperties
  <2>2. \A i \in 1 .. Len(ds) : ds[i].node # "function"
    BY DEF NoFunctionIn
  <2> HIDE DEF ds, es
  <2>3. \A i \in 1 .. Len(es) : i + 1 \in 1 .. Len(ds)
    BY <2>1
  <2>4. \A i \in 1 .. Len(es) : es[i].node # "function"
    BY <2>1, <2>2, <2>3
  <2>5. QED
    BY <2>4 DEF es, NoFunctionIn
<1>4. QED
  BY <1>2, <1>3 DEF Moves

\* What a step that neither stores a type nor opens a class above keeps.
LEMMA PlainStays ==
  ASSUME IInv, GrowInv, [Next]_vars, UNCHANGED returnType,
         NEW k \in 1 .. Len(frames), k \in 1 .. Len(frames'),
         PlainKept(classes, frames, k, returnType), IsOwner(classes', frames', k)
  PROVE  PlainKept(classes', frames', k, returnType')
<1>1. Moves(frames[k], frames'[k]) /\ frames[k] \in Frames
  BY StepMoves, ElementOfSeq DEF FramesMove, GrowInv, Typed
<1>2. NoFunctionIn(frames'[k].decls)
  BY <1>1, NoFunctionLeft DEF PlainKept
<1>3. TypeStored(classes', frames', k, returnType')
  <2>1. k > 1 /\ Len(frames) \in Nat /\ Len(frames') \in Nat
    BY StepMoves DEF PlainKept, TypeStored
  <2>2. k - 1 \in 1 .. Len(frames) /\ k - 1 \in 1 .. Len(frames')
    BY <2>1
  <2>3. frames'[k - 1].id = frames[k - 1].id /\ frames'[k].node = frames[k].node
    BY <1>1, <2>2, StepMoves DEF FramesMove, Moves
  <2>4. frames[k - 1].id \in 1 .. Len(classes)
    BY <2>2, FramesHave
  <2>5. EntriesStay(classes, classes', frames[k - 1].id)
    BY <2>4, GrowStep DEF Grows, ClassStays
  <2>6. QED
    BY <2>1, <2>3, <2>5 DEF PlainKept, TypeStored, EntriesStay
<1>4. QED
  BY <1>2, <1>3 DEF PlainKept

\* A class keeps its kind, and a frame what it was called for.
LEMMA PlainBefore ==
  ASSUME IInv, GrowInv, [Next]_vars,
         NEW k \in 1 .. Len(frames), k \in 1 .. Len(frames')
  PROVE  /\ KindOf(classes', frames', k) = KindOf(classes, frames, k)
         /\ IsPlain(classes', frames', k) => IsPlain(classes, frames, k)
<1>1. frames'[k].id = frames[k].id /\ frames'[k].node = frames[k].node
  BY StepMoves DEF FramesMove, Moves
<1>2. frames[k].id \in 1 .. Len(classes)
  BY FramesHave
<1>3. classes'[frames[k].id].kind = classes[frames[k].id].kind
  BY <1>2, GrowStep DEF Grows, ClassStays
<1>4. QED
  BY <1>1, <1>3 DEF KindOf, IsPlain

\* Nothing is declared or opened in a factory, and in a plain function no function.
LEMMA NothingAbove ==
  ASSUME IInv, BodyInv, GrowInv, ReturnInv, frames # <<>>,
         NEW k \in 1 .. Len(frames), IsPlain(classes, frames, k)
  PROVE  /\ ~(AtDeclaration /\ Decl.node = "function")
         /\ \A kind : MayOpen(kind) => k = Len(frames) /\ Top.phase # "concurrent"
<1>1. PlainKept(classes, frames, k, returnType)
  BY DEF ReturnInv
<1>2. CASE k = Len(frames)
  <2>1. Kind = "FUNCTION" /\ NoFunctionIn(Top.decls) /\ Top \in Frames
    BY <1>1, <1>2, ElementOfSeq DEF PlainKept, IsPlain, KindOf, Kind, Here, Top, GrowInv, Typed
  <2>2. Top.conc = <<>>
    BY <2>1, TopFits DEF FrameFits, CreatedLast
  <2>3. Top.decls # <<>> => Decl.node # "function"
    <3>1. Top.decls \in Seq(Declarations)
      BY <2>1 DEF Frames
    <3>2. Top.decls # <<>> => Decl = Top.decls[1] /\ 1 \in 1 .. Len(Top.decls)
      BY <3>1, EmptySeq DEF Decl
    <3>3. QED
      BY <2>1, <3>2 DEF NoFunctionIn
  <2>4. QED
    BY <1>2, <2>2, <2>3 DEF AtDeclaration, MayOpen
<1>3. CASE k = Len(frames) - 1 /\ KindOf(classes, frames, Len(frames)) = "FACTORY"
  <2>1. Kind = "FACTORY"
    BY <1>3 DEF KindOf, Kind, Here, Top
  <2>2. FrameFits(Kind, Top)
    BY TopFits
  <2>3. Top.decls = <<>> /\ Top.conc = <<>> /\ Top.phase # "statements"
    BY <2>1, <2>2 DEF FrameFits, CreatedLast, BodyKinds
  <2>4. QED
    BY <2>3 DEF AtDeclaration, MayOpen
<1>4. QED
  BY <1>1, <1>2, <1>3 DEF PlainKept, IsOwner
LEMMA NoneJoined ==
  ASSUME NEW ps \in Seq(Declarations), NEW bs \in Seq(Declarations),
         NoFunctionIn(ps), NoFunctionIn(bs), NEW ds, ds = ps \o bs
  PROVE  NoFunctionIn(ds)
<1>1. /\ Len(ps) \in Nat /\ Len(bs) \in Nat /\ Len(ds) = Len(ps) + Len(bs)
      /\ \A n \in 1 .. Len(ps) + Len(bs) :
           ds[n] = IF n <= Len(ps) THEN ps[n] ELSE bs[n - Len(ps)]
  BY LenProperties, ConcatProperties
<1>2. ASSUME NEW n \in 1 .. Len(ds) PROVE ds[n].node # "function"
  <2>1. CASE n <= Len(ps)
    <3>1. n \in 1 .. Len(ps) /\ ds[n] = ps[n]
      BY <1>1, <2>1
    <3>2. QED
      BY <3>1 DEF NoFunctionIn
  <2>2. CASE ~(n <= Len(ps))
    <3>1. n - Len(ps) \in 1 .. Len(bs) /\ ds[n] = bs[n - Len(ps)]
      BY <1>1, <2>2
    <3>2. QED
      BY <3>1 DEF NoFunctionIn
  <2>3. QED
    BY <2>1, <2>2
<1>3. QED
  BY <1>2 DEF NoFunctionIn

\* A function without functions starts with none, known by the type just stored.
LEMMA FunctionStored ==
  ASSUME IInv, GrowInv, OpenFunction, ~DeclaresFunction(Decl)
  PROVE  PlainKept(classes', frames', Len(frames) + 1, returnType')
<1> DEFINE es == <<Entry(Decl.name, "FUNCTION", FunctionType(Decl))>>
           ds == Decl.parameters \o Decl.decls
           f  == NewFrame(Decl, ds, Decl.stmts, <<>>, {})
           fs == ReplaceTop(frames, DeclDone(Top))
           u  == AddEntries(classes, es)
           i  == frames[Len(frames)].id
<1>1. Decl \in Declarations /\ Decl.node = "function" /\ frames # <<>> /\ Top.decls # <<>>
  BY DeclIs DEF OpenFunction, At
<1>2. /\ classes' = NewClass(u, "FUNCTION", NoName, NoName)
      /\ frames' = Append(fs, f) /\ returnType' = FunctionType(Decl)
  BY DEF OpenFunction, Define, WithFunction
<1>3. f.node = Decl /\ f.decls = ds
  BY DEF NewFrame
<1>4. IsSequence(es) /\ DOMAIN es = {1} /\ es[1] = Entry(Decl.name, "FUNCTION", returnType')
  BY <1>2, EntriesAreSequences
<1>5. Len(frames) \in Nat \ {0} /\ IsSequence(frames)
      /\ Len(frames) \in 1 .. Len(frames)
  BY <1>1, FramesHave, FrontIs
<1>6. NoFunctionIn(ds)
  <2>1. Decl.parameters \in Seq(Declarations) /\ Decl.decls \in Seq(Declarations)
    BY <1>1, DeclTyped
  <2>2. \A n \in 1 .. Len(Decl.parameters) : Decl.parameters[n].node # "function"
    <3>1. DOMAIN Decl.parameters = 1 .. Len(Decl.parameters)
      BY <2>1, LenProperties
    <3>2. \A n \in DOMAIN Decl.parameters : Decl.parameters[n].node = "object"
      BY <1>1, NodesAssumption
    <3>3. QED
      BY <3>1, <3>2
  <2>3. \A n \in 1 .. Len(Decl.decls) : Decl.decls[n].node # "function"
    BY <2>1 DEF DeclaresFunction
  <2>4. NoFunctionIn(Decl.parameters) /\ NoFunctionIn(Decl.decls)
    BY <2>2, <2>3 DEF NoFunctionIn
  <2> HIDE DEF f
  <2>5. QED
    BY <2>1, <2>4, NoneJoined
<1> HIDE DEF es, f, ds, u, i
<1>7. /\ IsSequence(fs) /\ Len(fs) = Len(frames) /\ fs[Len(frames)].id = i
  <2>1. IsSequence(fs) /\ Len(fs) = Len(frames) /\ fs[Len(frames)] = DeclDone(Top)
    BY <1>1, <1>5, ReplacedFrames
  <2>2. DeclDone(Top).id = Top.id
    BY <1>1, TopIs, DeclDoneIs
  <2>3. QED
    BY <2>1, <2>2 DEF Top, i
<1> HIDE DEF fs
<1>8. /\ Len(frames') = Len(frames) + 1 /\ frames'[Len(frames) + 1] = f
      /\ frames'[Len(frames)].id = i
  BY <1>2, <1>5, <1>7, AppendedIs
<1>9. Nested(classes, frames) /\ i = frames[Len(frames)].id /\ u = AddEntries(classes, es)
  BY DEF IInv, i, u
<1>10. /\ Len(u) = Len(classes) /\ i \in 1 .. Len(classes)
       /\ Joins(u[i].names, classes[i].names, es)
  BY <1>1, <1>4, <1>9, AddGrows
<1>11. IsTree(u)
  BY <1>1, <1>4, <1>9, AddKeeps DEF Nested
<1>12. Grows(u, classes')
  BY <1>2, <1>11, NewGrows
<1>13. \E n \in DOMAIN u[i].names : u[i].names[n] = es[1]
  <2>1. IsSequence(classes[i].names)
    BY <1>10, NamesHave DEF IInv, Nested
  <2> DEFINE r == classes[i].names
             s == u[i].names
  <2> HIDE DEF r, s
  <2>2. IsSequence(r) /\ Joins(s, r, es)
    BY <1>10, <2>1 DEF r, s
  <2>3. /\ DOMAIN s = 1 .. Len(r) + Len(es) /\ Len(r) \in Nat /\ Len(es) \in Nat
        /\ \A n \in 1 .. Len(es) : s[Len(r) + n] = es[n]
    BY <1>4, <2>2, JoinedIs
  <2>4. 1 \in 1 .. Len(es)
    BY <1>4, SequenceHas
  <2>5. Len(r) + 1 \in DOMAIN s /\ s[Len(r) + 1] = es[1]
    BY <2>3, <2>4
  <2>6. QED
    BY <2>5 DEF s
<1>14. EntriesStay(u, classes', i)
  BY <1>10, <1>12 DEF Grows, ClassStays
<1>15. TypeStored(classes', frames', Len(frames) + 1, returnType')
  <2>1. Len(frames) + 1 > 1 /\ Len(frames) + 1 - 1 = Len(frames)
    BY <1>5
  <2>2. \E n \in DOMAIN classes'[i].names :
          classes'[i].names[n] = Entry(Decl.name, "FUNCTION", returnType')
    BY <1>4, <1>13, <1>14 DEF EntriesStay
  <2>3. QED
    BY <1>3, <1>8, <2>1, <2>2 DEF TypeStored
<1>16. QED
  BY <1>3, <1>6, <1>8, <1>15 DEF PlainKept, IsOwner
LEMMA FunctionFrame ==
  ASSUME IInv, frames # <<>>, OpenFunction
  PROVE  frames'[Len(frames) + 1].node = Decl
<1> DEFINE f  == NewFrame(Decl, Decl.parameters \o Decl.decls, Decl.stmts, <<>>, {})
           fs == ReplaceTop(frames, DeclDone(Top))
<1>1. frames' = Append(fs, f) /\ f.node = Decl
  BY DEF OpenFunction, Define, NewFrame
<1> HIDE DEF f
<1>2. IsSequence(fs) /\ Len(fs) = Len(frames)
  BY FramesHave, ReplacedFrames
<1> HIDE DEF fs
<1>3. frames'[Len(frames) + 1] = f
  BY <1>1, <1>2, AppendedIs
<1>4. QED
  BY <1>1, <1>3

\* Among concurrent statements no function is opened.
LEMMA PartOpens ==
  ASSUME IInv, [Next]_vars, frames # <<>>, Top.phase = "concurrent"
  PROVE  ~Enters("FUNCTION")
<1> SUFFICES ASSUME Enters("FUNCTION") PROVE FALSE
  OBVIOUS
<1>1. classes'[Len(classes) + 1].kind = "FUNCTION" /\ Len(classes') = Len(classes) + 1
      /\ Len(classes) \in Nat
  BY FramesHave DEF Enters, Gains
<1>2. ~Enters("FACTORY") /\ ~Enters("PROCESS") /\ ~Enters("BLOCK") /\ ~Enters("GENERATE")
  BY <1>1 DEF Enters, Gains
<1>3. Len(classes') # Len(classes)
  BY <1>1
<1>4. Len(EndClass(classes)) = Len(classes) /\ ~(UNCHANGED classes) /\ ~Abort
  BY <1>3, LengthsKept DEF Abort
<1>5. ~Declaration /\ ~Statement
  BY DEF Declaration, OpenType, CloseType, TypeWithoutBase, OpenSubtype, CloseSubtype,
     SubtypeWithoutBase, RangeIsLost, DeclareObject, ObjectRangeIsLost, InitialiseObject,
     InitialValueIsLost, ObjectWithoutType, DeclareAlias, AliasIsLost, DeclareFunction, OpenFunction, At,
     AtDeclaration, Statement, WaitStatement, ProcedureCall, ReturnStatement, Assignment,
     AssignmentWithoutType, Condition, LoopRange, EnterLoop, LoopRangeIsLost, AtStmt,
     AtStatement
<1>6. ~Body
  BY <1>3, <1>4 DEF Body, StartRun, WriteFactory, StartGenerate, StartOther, EndStatements,
     AtBody, Turns
<1>7. ~ConcurrentStatement
  BY <1>2, <1>4, FactoriesEnter, ConcurrentEnters
     DEF ConcurrentStatement, GenerateRangeIsLost, PostponeInstance, Instantiate, ActualIsLost
<1>8. ~CloseClass /\ ~OpenUnit /\ ~SkipUnit /\ ~Finish
  BY <1>3, <1>4 DEF CloseClass, CloseUnit, ClosePart, CloseFunction, CloseFactory,
     CloseProcess, Closes, OpenUnit, NextUnit, SkipUnit, Finish
<1>9. QED
  BY <1>4, <1>5, <1>6, <1>7, <1>8 DEF Next, Step, Stopped, vars

LEMMA PlainStep ==
  ASSUME IInv, BodyInv, GrowInv, ReturnInv, [Next]_vars,
         NEW k \in 1 .. Len(frames'), IsPlain(classes', frames', k)
  PROVE  PlainKept(classes', frames', k, returnType')
<1>1. /\ Len(frames) \in Nat /\ Len(frames') \in Nat /\ Len(frames') <= Len(frames) + 1
      /\ FrameAdded \/ Len(frames') <= Len(frames)
  BY StepMoves DEF FramesMove
<1>2. ASSUME k \in 1 .. Len(frames)
      PROVE  /\ IsPlain(classes, frames, k) /\ PlainKept(classes, frames, k, returnType)
             /\ frames # <<>>
  <2>1. IsPlain(classes, frames, k)
    BY <1>2, PlainBefore
  <2>2. frames # <<>>
    BY <1>1, <1>2, EmptySeq
  <2>3. QED
    BY <1>2, <2>1, <2>2 DEF ReturnInv
<1>3. CASE k \in 1 .. Len(frames) /\ Len(frames') <= Len(frames)
  <2>1. UNCHANGED returnType
    <3>1. ~(AtDeclaration /\ Decl.node = "function")
      BY <1>2, <1>3, NothingAbove
    <3>2. QED
      BY <3>1, StepReturns DEF DeclareFunction, OpenFunction, At
  <2>2. IsOwner(classes', frames', k)
    <3>1. IsOwner(classes, frames, k)
      BY <1>2, <1>3 DEF PlainKept
    <3>2. CASE k = Len(frames)
      <4>1. k = Len(frames')
        BY <1>1, <1>3, <3>2
      <4>2. QED
        BY <4>1 DEF IsOwner
    <3>3. CASE k = Len(frames) - 1 /\ KindOf(classes, frames, Len(frames)) = "FACTORY"
      <4>1. k = Len(frames') \/ (k = Len(frames') - 1 /\ Len(frames') = Len(frames))
        BY <1>1, <1>3, <3>3
      <4>2. CASE Len(frames') = Len(frames)
        <5>1. Len(frames) \in 1 .. Len(frames) /\ Len(frames) \in 1 .. Len(frames')
          BY <1>1, <1>3, <4>2
        <5>2. KindOf(classes', frames', Len(frames)) = "FACTORY"
          BY <3>3, <5>1, PlainBefore
        <5>3. QED
          BY <3>3, <4>2, <5>2 DEF IsOwner
      <4>3. QED
        BY <4>1, <4>2 DEF IsOwner
    <3>4. QED
      BY <3>1, <3>2, <3>3 DEF IsOwner
  <2>3. QED
    BY <1>2, <1>3, <2>1, <2>2, PlainStays
<1>4. CASE Len(frames') > Len(frames)
  <2>1. FrameAdded /\ Len(frames') = Len(frames) + 1
    BY <1>1, <1>4
  <2>2. \E kind \in ClassKinds : Enters(kind)
    <3>1. Len(classes') = Len(classes) + 1 /\ Len(classes) \in Nat
      BY <2>1, FramesHave DEF FrameAdded
    <3>2. Len(classes') # Len(classes) /\ ~(UNCHANGED classes)
      BY <3>1
    <3>3. QED
      BY <3>2, StepIsKind DEF StepKind, Rests, Works, BeginsBody, BeginsParts, EndsStatements,
         StaysInClass, Leaves
  <2>3. PICK kind \in ClassKinds : Enters(kind)
    BY <2>2
  <2>4. MayOpen(kind) /\ classes'[Len(classes) + 1].kind = kind
    BY <2>3 DEF Enters, Gains
  <2>5. frames'[Len(frames) + 1].id = Len(classes) + 1
    BY <2>1 DEF FrameAdded, FitsNew
  <2>6. KindOf(classes', frames', Len(frames) + 1) = kind
    BY <2>4, <2>5 DEF KindOf
  <2>7. CASE k \in 1 .. Len(frames)
    <3>1. k = Len(frames) /\ Top.phase # "concurrent" /\ ~OpenFunction /\ ~DeclareFunction
      BY <1>2, <2>4, <2>7, NothingAbove DEF OpenFunction, DeclareFunction, At
    <3>2. kind = "FACTORY"
      BY <1>2, <2>3, <2>7, <3>1, DeclarationOpens
    <3>3. UNCHANGED returnType
      BY <3>1, StepReturns
    <3>4. k = Len(frames') - 1 /\ Len(frames') = Len(frames) + 1
      BY <1>1, <2>1, <3>1
    <3>5. IsOwner(classes', frames', k)
      BY <2>6, <3>2, <3>4 DEF IsOwner
    <3>6. QED
      BY <1>2, <2>7, <3>3, <3>5, PlainStays
  <2>8. CASE k = Len(frames) + 1
    <3>1. kind = "FUNCTION" /\ ~DeclaresFunction(frames'[k].node)
      BY <2>6, <2>8 DEF IsPlain
    <3>2. frames # <<>> /\ FrameFits(Kind, Top)
      BY <2>4, <3>1, TopFits DEF MayOpen, UnitKinds
    <3>3. CASE OpenFunction
      <4>1. frames'[k].node = Decl
        BY <2>8, <3>2, <3>3, FunctionFrame
      <4>2. QED
        BY <2>8, <3>1, <3>3, <4>1, FunctionStored
    <3>4. CASE ~OpenFunction
      <4>1. Top.phase = "concurrent"
        BY <2>3, <3>1, <3>2, <3>4, DeclarationOpens
      <4>2. FALSE
        BY <2>3, <3>1, <3>2, <4>1, PartOpens
      <4>3. QED
        BY <4>2
    <3>5. QED
      BY <3>3, <3>4
  <2>9. QED
    BY <1>1, <2>1, <2>7, <2>8
<1>5. QED
  BY <1>1, <1>3, <1>4

LEMMA ReturnsStep == IInv /\ BodyInv /\ GrowInv /\ ReturnInv /\ [Next]_vars => ReturnInv'
<1> SUFFICES ASSUME IInv, BodyInv, GrowInv, ReturnInv, [Next]_vars PROVE ReturnInv'
  OBVIOUS
<1>1. \A k \in 1 .. Len(frames') :
        IsPlain(classes', frames', k) => PlainKept(classes', frames', k, returnType')
  BY PlainStep
<1>2. ASSUME expected' # NoType
      PROVE  (frames # <<>> /\ Top.phase = "statements" /\ expected = returnType)'
  <2>1. CASE ReturnStatement
    <3>1. /\ frames # <<>> /\ Top.phase = "statements" /\ Top.stmts # <<>>
          /\ frames' = ReplaceTop(frames, StmtDone(Top)) /\ UNCHANGED returnType
      BY <2>1 DEF ReturnStatement, AtStmt, AtStatement, Executes
    <3>2. expected' = returnType
      BY <1>2, <2>1 DEF ReturnStatement
    <3>3. /\ IsSequence(frames) /\ Len(frames') = Len(frames)
          /\ \A k \in 1 .. Len(frames) :
               frames'[k] = IF k = Len(frames) THEN StmtDone(Top) ELSE frames[k]
      BY <3>1, FramesHave, ReplacedFrames
    <3>4. Len(frames) \in 1 .. Len(frames) /\ Len(frames') # 0
      BY <3>1, <3>3, FrontIs
    <3>5. frames'[Len(frames')] = StmtDone(Top) /\ frames' # <<>>
      BY <3>3, <3>4, EmptySeq
    <3>6. StmtDone(Top).phase = Top.phase
      BY <3>1, TopIs DEF StmtDone, IsFrame, FrameFields
    <3>7. QED
      BY <3>1, <3>2, <3>5, <3>6 DEF Top
  <2>2. CASE UNCHANGED vars
    BY <1>2, <2>2 DEF ReturnInv, vars, Top
  <2>3. QED
    BY <1>2, <2>1, <2>2, StepExpects
<1>3. QED
  BY <1>1, <1>2 DEF ReturnInv, IsPlain, KindOf, PlainKept, IsOwner, TypeStored

LEMMA ReturnsStart == Init => ReturnInv
<1> SUFFICES ASSUME Init PROVE ReturnInv
  OBVIOUS
<1>1. frames = <<>> /\ Len(frames) = 0 /\ expected = NoType
  BY EmptySeq DEF Init
<1>2. QED
  BY <1>1 DEF ReturnInv

\* parameters::returnType is one variable for all functions. The value of a return
\* statement has the type of the function around it, as the class around knows the
\* function, unless a function was declared in this function after its type was
\* stored (functionDeclaration in declarations.cpp).
THEOREM ReturnsAlwaysTyped == Spec => []ReturnsAreTyped
<1>1. AllInv /\ ReturnInv => ReturnsAreTyped
  <2> SUFFICES ASSUME AllInv, ReturnInv, expected # NoType, Top.node.node = "function",
                      ~DeclaresFunction(Top.node)
               PROVE  \E n \in DOMAIN classes[AroundHere].names :
                        classes[AroundHere].names[n] = Entry(Top.node.name, "FUNCTION", expected)
    BY DEF ReturnsAreTyped
  <2>1. frames # <<>> /\ Top.phase = "statements" /\ expected = returnType
    BY DEF ReturnInv
  <2>2. Len(frames) \in 1 .. Len(frames)
    BY <2>1, FramesHave, FrontIs DEF AllInv
  <2>3. Kind = KindOf(classes, frames, Len(frames)) /\ Top = frames[Len(frames)]
    BY DEF Kind, Here, Top, KindOf
  <2>4. NodeFits(Kind, Top.node)
    BY <2>2, <2>3 DEF AllInv, GrowInv, NodesFit
  <2>5. Kind \in {"PROCESS", "FUNCTION"}
    BY <2>1, TopFits DEF AllInv, FrameFits, BodyKinds
  <2>6. Kind = "FUNCTION"
    BY <2>4, <2>5 DEF NodeFits
  <2>7. TypeStored(classes, frames, Len(frames), returnType)
    BY <2>2, <2>3, <2>6 DEF ReturnInv, IsPlain, PlainKept
  <2>8. QED
    BY <2>1, <2>3, <2>7 DEF TypeStored, AroundHere
<1>2. Spec => []ReturnInv
  <2>1. AllInv => IInv /\ BodyInv /\ GrowInv
    BY DEF AllInv
  <2>2. QED
    BY <2>1, AllAlways, ReturnsStart, ReturnsStep, PTL DEF Spec
<1>3. QED
  BY <1>1, <1>2, AllAlways, PTL
-----------------------------------------------------------------------------
(* Sensitivity.                                                            *)

\* The process that a concurrent signal assignment becomes, and what is left of it.
IsSolo(t, fs, k) == KindOf(t, fs, k) = "PROCESS" /\ fs[k].node.concurrent

SoloKept(f) ==
  f.decls = <<>> /\ (f.stmts = f.node.stmts \/ f.stmts = <<>>) /\ f.instances = <<>>

SoloInv ==
  \A k \in 1 .. Len(frames) : IsSolo(classes, frames, k) => SoloKept(frames[k])

LEMMA SoloNode ==
  ASSUME NEW p \in Concurrents, p.node = "process", p.concurrent
  PROVE  /\ p.all /\ p.decls = <<>>
         /\ \E s \in Statements : s.node = "assignment" /\ s.signal /\ p.stmts = <<s>>
BY NodesAssumption

\* Of the one statement nothing is left when it is done.
LEMMA SoloMoves ==
  ASSUME NEW f, NEW g, Moves(f, g), SoloKept(f), f.conc = <<>>,
         f.node \in Concurrents, f.node.node = "process", f.node.concurrent
  PROVE  SoloKept(g)
<1>1. PICK s \in Statements : s.node = "assignment" /\ f.node.stmts = <<s>>
  BY SoloNode
<1>2. g.node = f.node /\ g.decls = <<>> /\ g.instances = <<>>
  BY DEF Moves, SoloKept
<1>3. f.stmts # <<>> => f.stmts = <<s>>
  BY <1>1 DEF SoloKept
<1>4. Head(<<s>>) = s /\ Tail(<<s>>) = <<>>
  OBVIOUS
<1>5. f.stmts # <<>> => Head(f.stmts).node = "assignment" /\ Tail(f.stmts) = <<>>
  BY <1>1, <1>3, <1>4
<1>6. g.stmts = f.stmts \/ g.stmts = <<>>
  BY <1>5 DEF Moves
<1>7. QED
  BY <1>2, <1>6 DEF SoloKept

\* A process that has run to its top frame is what it was called for.
LEMMA SoloFrame ==
  ASSUME IInv, BodyInv, GrowInv, SoloInv, NEW k \in 1 .. Len(frames),
         IsSolo(classes, frames, k)
  PROVE  /\ SoloKept(frames[k]) /\ frames[k].conc = <<>>
         /\ frames[k].node \in Concurrents /\ frames[k].node.node = "process"
<1>1. KindOf(classes, frames, k) = "PROCESS"
  BY DEF IsSolo
<1>2. NodeFits("PROCESS", frames[k].node) /\ FrameFits("PROCESS", frames[k])
  BY <1>1 DEF GrowInv, NodesFit, BodyInv, Fitting
<1>3. QED
  BY <1>2 DEF SoloInv, NodeFits, FrameFits, CreatedLast

LEMMA SoloStep ==
  ASSUME IInv, BodyInv, GrowInv, SoloInv, [Next]_vars
  PROVE  SoloInv'
<1>1. ASSUME NEW k \in 1 .. Len(frames'), IsSolo(classes', frames', k)
      PROVE  SoloKept(frames'[k])
  <2>1. /\ Len(frames) \in Nat /\ Len(frames') \in Nat /\ Len(frames') <= Len(frames) + 1
        /\ FrameAdded \/ Len(frames') <= Len(frames)
    BY StepMoves DEF FramesMove
  <2>2. CASE k \in 1 .. Len(frames)
    <3>1. Moves(frames[k], frames'[k])
      BY <2>2, StepMoves DEF FramesMove
    <3>2. KindOf(classes', frames', k) = KindOf(classes, frames, k)
      BY <2>2, PlainBefore
    <3>3. IsSolo(classes, frames, k)
      BY <1>1, <3>1, <3>2 DEF IsSolo, Moves
    <3>4. QED
      BY <2>2, <3>1, <3>3, SoloFrame, SoloMoves DEF IsSolo
  <2>3. CASE ~(k \in 1 .. Len(frames))
    <3>1. k = Len(frames) + 1 /\ FrameAdded
      BY <2>1, <2>3
    <3>2. FitsNew("PROCESS", frames'[k])
      BY <1>1, <3>1 DEF FrameAdded, IsSolo
    <3>3. frames'[k].node \in Concurrents /\ frames'[k].node.node = "process"
      BY <3>2 DEF FitsNew, NodeFits
    <3>4. QED
      BY <1>1, <3>2, <3>3, SoloNode DEF FitsNew, SoloKept, IsSolo
  <2>4. QED
    BY <2>2, <2>3
<1>2. QED
  BY <1>1 DEF SoloInv, IsSolo, KindOf, SoloKept

\* The steps that write references.
LEMMA StepWrites ==
  ASSUME [Next]_vars
  PROVE  \/ references' = {} \/ UNCHANGED vars
         \/ DeclareObject \/ InitialiseObject \/ DeclareAlias
         \/ WriteFactory \/ StartGenerate
         \/ WaitStatement \/ ProcedureCall \/ ReturnStatement \/ Assignment \/ Condition
         \/ EnterLoop \/ OpenProcess \/ OpenGenerate \/ Instantiate \/ CloseProcess
<1>1. Declaration => references' = {} \/ DeclareObject \/ InitialiseObject \/ DeclareAlias
  BY DEF Declaration, OpenType, CloseType, TypeWithoutBase, OpenSubtype, CloseSubtype,
     SubtypeWithoutBase, RangeIsLost, ObjectRangeIsLost, InitialValueIsLost,
     ObjectWithoutType, AliasIsLost, DeclareFunction, OpenFunction, Abort, Writes
<1>2. Body => references' = {} \/ WriteFactory \/ StartGenerate
  BY DEF Body, StartRun, StartOther, EndStatements, Turns, Writes
<1>3. Statement => \/ references' = {} \/ WaitStatement \/ ProcedureCall \/ ReturnStatement
                   \/ Assignment \/ Condition \/ EnterLoop
  BY DEF Statement, AssignmentWithoutType, Executes, LoopRange, DefineRange,
     LoopRangeIsLost, Abort, Writes
<1>4. ConcurrentStatement =>
        references' = {} \/ OpenProcess \/ OpenGenerate \/ Instantiate
  BY DEF ConcurrentStatement, OpenBlock, GenerateRange, DefineRange, DefinePart,
     GenerateRangeIsLost, PostponeInstance, ActualIsLost, Abort, Writes
<1>5. CloseClass => references' = {} \/ CloseProcess
  BY DEF CloseClass, CloseUnit, ClosePart, CloseFunction, CloseFactory, Writes
<1>6. OpenUnit \/ SkipUnit \/ Finish => references' = {}
  BY DEF OpenUnit, SkipUnit, Finish, Writes
<1>7. QED
  BY <1>1, <1>2, <1>3, <1>4, <1>5, <1>6 DEF Next, Step, Stopped

\* What counts for the sensitivity of a process.
IsRead(t, r, at, target) ==
  /\ r.at = at /\ r.to[2] # 0
  /\ EntryOf(t, r.to).kind \in {"SIGNAL", "PORT"} /\ EntryOf(t, r.to).name # target

LEMMA SensitiveIs ==
  ConcurrentIsSensitive <=>
    (frames # <<>> /\ Top.node.node = "process" /\ Top.node.concurrent =>
       \A r \in references :
         IsRead(classes, r, Here, Top.node.stmts[1].target) => r.to \in Top.signals)
BY DEF ConcurrentIsSensitive, IsRead

\* The target of the assignment, and what it reads.
LEMMA AssignmentReads ==
  ASSUME IInv, Typed, Assignment, Kind = "PROCESS", Top.node.all, Stmt.signal,
         Here # AroundHere,
         NEW r \in references', IsRead(classes, r, Here, Stmt.target)
  PROVE  r.to \in Collected(Stmt.reads, TargetTypes(Stmt.target))
<1> DEFINE types == TargetTypes(Stmt.target)
           ms == Collected(Stmt.reads, types)
<1>1. Stmt \in Statements /\ Stmt.node = "assignment" /\ Top.stmts # <<>> /\ frames # <<>>
  <2>1. AtStatement /\ Stmt.node = "assignment"
    BY DEF Assignment, AtStmt
  <2>2. QED
    BY <2>1, StmtIs
<1>2. Stmt.reads \in Reads /\ <<Stmt.target>> \in Reads
  BY <1>1, StmtTyped DEF Reads
<1>3. \/ r \in ReferencesTo(ms, AroundHere, -1)
      \/ r \in Written(Stmt.reads, types, Here) \/ r \in Written(<<Stmt.target>>, types, Here)
  <2> DEFINE ws == Written(Stmt.reads, types, Here)
             vs == Written(<<Stmt.target>>, types, Here)
             ss == ReferencesTo(ms, AroundHere, -1)
  <2>1. references' = ss \cup (IF AllFound(Stmt.reads, types) THEN ws \cup vs ELSE {})
    BY DEF Assignment, Executes
  <2> HIDE DEF ws, vs, ss
  <2>2. r \in ss \/ r \in ws \/ r \in vs
    BY <2>1
  <2>3. QED
    BY <2>2 DEF ws, vs, ss
<1>4. r \notin ReferencesTo(ms, AroundHere, -1)
  BY DEF ReferencesTo, Reference, IsRead
<1>5. r \notin Written(<<Stmt.target>>, types, Here)
  <2> SUFFICES ASSUME r \in Written(<<Stmt.target>>, types, Here) PROVE FALSE
    OBVIOUS
  <2>1. r.to \in BestOf(<<Stmt.target>>, types)
    BY DEF Written, ReferencesTo, Reference
  <2>2. PICK n \in DOMAIN <<Stmt.target>> :
          IsFoundAs(classes, r.to, <<Stmt.target>>[n], ObjectKinds, types)
    BY <1>2, <2>1, ReadsAre
  <2>3. <<Stmt.target>>[n] = Stmt.target
    OBVIOUS
  <2>4. QED
    BY <2>2, <2>3 DEF IsFoundAs, IsRead
<1>6. r.to \in BestOf(Stmt.reads, types)
  BY <1>3, <1>4, <1>5 DEF Written, ReferencesTo, Reference
<1>7. QED
  BY <1>6 DEF Collected, SignalsOf, IsRead
\* A frame with the node of a process is that of the class of a process.
LEMMA ProcessFrame ==
  ASSUME NEW t \in Seq(Classes), NEW fs, NodesFit(t, fs), NEW k \in 1 .. Len(fs),
         fs[k].id \in 1 .. Len(t), fs[k].node.node = "process"
  PROVE  KindOf(t, fs, k) = "PROCESS"
<1>1. t[fs[k].id] \in Classes
  BY ElementOfSeq
<1>2. KindOf(t, fs, k) \in ClassKinds /\ NodeFits(KindOf(t, fs, k), fs[k].node)
  BY <1>1 DEF KindOf, Classes, NodesFit
<1>3. fs[k].node \notin Units
  BY UnitTyped DEF UnitKinds
<1>4. QED
  BY <1>2, <1>3 DEF NodeFits, ClassKinds

\* What the frame of such a process can do: run its assignment.
LEMMA SoloTop ==
  ASSUME IInv, BodyInv, GrowInv, SoloInv, frames # <<>>, Kind = "PROCESS",
         Top.node.concurrent
  PROVE  /\ ~AtDeclaration /\ ~AtInstance /\ ~WriteFactory /\ ~StartGenerate
         /\ Top.node.all
         /\ AtStatement =>
              /\ Stmt.node = "assignment" /\ Stmt.signal
              /\ Stmt.target = Top.node.stmts[1].target
<1>1. Len(frames) \in 1 .. Len(frames)
  BY FramesHave, FrontIs
<1>2. IsSolo(classes, frames, Len(frames))
  BY DEF IsSolo, KindOf, Kind, Here, Top
<1>3. SoloKept(Top) /\ Top.node \in Concurrents /\ Top.node.node = "process"
  BY <1>1, <1>2, SoloFrame DEF Top
<1>4. PICK s \in Statements : s.node = "assignment" /\ s.signal /\ Top.node.stmts = <<s>>
  BY <1>3, SoloNode
<1>5. Head(<<s>>) = s /\ <<s>>[1] = s
  OBVIOUS
<1>6. Top.node.all
  BY <1>3, SoloNode
<1>7. AtStatement => Stmt = s
  BY <1>3, <1>4, <1>5 DEF AtStatement, Stmt, SoloKept
<1>8. QED
  BY <1>3, <1>4, <1>5, <1>6, <1>7
     DEF AtDeclaration, AtInstance, WriteFactory, StartGenerate, SoloKept

\* The frame on top goes on.
LEMMA TopGoesOn ==
  ASSUME IInv, frames # <<>>, NEW g, frames' = ReplaceTop(frames, g)
  PROVE  Len(frames') = Len(frames) /\ frames'[Len(frames')] = g /\ frames' # <<>>
         /\ Len(frames) \in 1 .. Len(frames)
<1>1. /\ IsSequence(frames) /\ Len(frames') = Len(frames)
      /\ \A k \in 1 .. Len(frames) : frames'[k] = IF k = Len(frames) THEN g ELSE frames[k]
  BY FramesHave, ReplacedFrames
<1>2. Len(frames) \in 1 .. Len(frames) /\ Len(frames) # 0
  BY FramesHave, FrontIs
<1>3. QED
  BY <1>1, <1>2, EmptySeq

\* The steps that stay in the frame on top and write references.
LEMMA StepOnTop ==
  ASSUME \/ DeclareObject \/ InitialiseObject \/ DeclareAlias
         \/ WriteFactory \/ StartGenerate
         \/ WaitStatement \/ ProcedureCall \/ ReturnStatement \/ Assignment \/ Condition
         \/ EnterLoop \/ Instantiate
  PROVE  /\ frames # <<>> /\ \E g : frames' = ReplaceTop(frames, g)
         /\ \/ AtDeclaration \/ WriteFactory \/ StartGenerate \/ AtInstance
            \/ Assignment
            \/ AtStatement /\ Stmt.node # "assignment"
BY DEF DeclareObject, InitialiseObject, DeclareAlias, At, AtDeclaration, Declares,
   WriteFactory, StartGenerate, AtBody, Turns, WaitStatement, ProcedureCall,
   ReturnStatement, Assignment, Condition, EnterLoop, AtStmt, AtStatement, Executes,
   Instantiate, AtInstance

LEMMA SensitiveTop ==
  ASSUME IInv, BodyInv, GrowInv, SoloInv, [Next]_vars,
         frames # <<>>, NEW g, frames' = ReplaceTop(frames, g),
         \/ AtDeclaration \/ WriteFactory \/ StartGenerate \/ AtInstance
         \/ Assignment
         \/ AtStatement /\ Stmt.node # "assignment",
         KindOf(classes', frames', Len(frames')) = "PROCESS", Top'.node.concurrent,
         NEW r \in references', IsRead(classes', r, Here', Top'.node.stmts[1].target)
  PROVE  r.to \in Top'.signals
<1>1. Len(frames') = Len(frames) /\ frames'[Len(frames)] = g
      /\ Len(frames) \in 1 .. Len(frames) /\ Len(frames) \in 1 .. Len(frames')
  BY TopGoesOn
<1>2. Top' = g /\ g.node = Top.node /\ g.id = Top.id /\ Here' = Here
  BY <1>1, StepMoves DEF FramesMove, Moves, Top, Here
<1>3. Kind = "PROCESS"
  BY <1>1, PlainBefore DEF KindOf, Kind, Here, Top
<1>4. Assignment /\ AtStatement
  BY <1>2, <1>3, SoloTop DEF Assignment, AtStmt
<1>5. Stmt.signal /\ Top.node.all /\ Stmt.target = Top.node.stmts[1].target
  BY <1>2, <1>3, <1>4, SoloTop
<1> DEFINE ms == Collected(Stmt.reads, TargetTypes(Stmt.target))
<1>6. UNCHANGED classes /\ frames' = ReplaceTop(frames, WithSignals(StmtDone(Top), ms))
  BY <1>4 DEF Assignment, Executes
<1>7. Here # AroundHere
  <2>1. Kind \notin UnitKinds
    BY <1>3 DEF UnitKinds
  <2>2. Len(frames) - 1 \in 1 .. Len(frames) /\ Len(frames) - 1 # Len(frames)
    BY <2>1, ProcessIsInside
  <2>3. frames[Len(frames)].id # frames[Len(frames) - 1].id
    BY <1>1, <2>2, OpenPaths DEF IInv
  <2>4. QED
    BY <2>3 DEF Here, Top, AroundHere
<1>8. r.to \in ms
  BY <1>2, <1>3, <1>4, <1>5, <1>6, <1>7, AssignmentReads DEF GrowInv
<1>9. Top' = WithSignals(StmtDone(Top), ms)
  BY <1>6, TopGoesOn DEF Top
<1>10. WithSignals(StmtDone(Top), ms).signals = StmtDone(Top).signals \cup ms
  BY TopIs DEF WithSignals, StmtDone, IsFrame, FrameFields
<1>11. QED
  BY <1>8, <1>9, <1>10

LEMMA SensitiveStep ==
  ASSUME IInv, BodyInv, GrowInv, SoloInv, ConcurrentIsSensitive, [Next]_vars
  PROVE  ConcurrentIsSensitive'
<1> SUFFICES ASSUME frames' # <<>>, Top'.node.node = "process", Top'.node.concurrent,
                    NEW r \in references', IsRead(classes', r, Here', Top'.node.stmts[1].target)
             PROVE  r.to \in Top'.signals
  BY DEF ConcurrentIsSensitive, IsRead
<1>1. GrowInv' /\ IInv'
  BY GrowStep, StepKeepsInv
<1>2. KindOf(classes', frames', Len(frames')) = "PROCESS"
  <2>1. Len(frames') \in 1 .. Len(frames')
    BY <1>1, FrontIs DEF IInv, Nested, IsStack
  <2>2. frames'[Len(frames')].id \in 1 .. Len(classes')
    BY <1>1, <2>1 DEF IInv, Nested, IsOpen
  <2>3. NodesFit(classes', frames') /\ classes' \in Seq(Classes)
    BY <1>1 DEF GrowInv, Typed, NodesFit, KindOf
  <2>4. QED
    BY <2>1, <2>2, <2>3, ProcessFrame DEF Top
<1>3. CASE references' = {}
  BY <1>3
<1>4. CASE UNCHANGED vars
  BY <1>4 DEF ConcurrentIsSensitive, IsRead, vars, Top, Here
<1>5. CASE OpenProcess \/ OpenGenerate
  <2>1. \A m \in references' : m.at = Here
    BY <1>5 DEF OpenProcess, OpenGenerate, DefinePart, Writes, ReferencesTo, Reference
  <2>2. frames # <<>> /\ \E kind \in ClassKinds : Enters(kind)
    BY <1>5, ConcurrentEnters
       DEF OpenProcess, OpenGenerate, AtConc, AtConcurrent, ClassKinds
  <2>3. Here' = Len(classes) + 1
    BY <2>2, EnteredFrames DEF IsNewFrame, Here, Top
  <2>4. Here \in 1 .. Len(classes) /\ Len(classes) \in Nat
    BY <2>2, TopIs, FramesHave
  <2>5. Here' # Here
    BY <2>3, <2>4
  <2>6. QED
    BY <2>1, <2>5 DEF IsRead
<1>6. CASE CloseProcess
  <2>1. \A m \in references' : m.to[2] = 0
    BY <1>6 DEF CloseProcess, Writes, WaitReference
  <2>2. QED
    BY <2>1 DEF IsRead
<1>7. CASE \/ DeclareObject \/ InitialiseObject \/ DeclareAlias
           \/ WriteFactory \/ StartGenerate
           \/ WaitStatement \/ ProcedureCall \/ ReturnStatement \/ Assignment \/ Condition
           \/ EnterLoop \/ Instantiate
  BY <1>2, <1>7, StepOnTop, SensitiveTop
<1>8. QED
  BY <1>3, <1>4, <1>5, <1>6, <1>7, StepWrites

LEMMA SensitiveStart == Init => SoloInv /\ ConcurrentIsSensitive
<1> SUFFICES ASSUME Init PROVE SoloInv /\ ConcurrentIsSensitive
  OBVIOUS
<1>1. frames = <<>> /\ Len(frames) = 0
  BY EmptySeq DEF Init
<1>2. QED
  BY <1>1 DEF SoloInv, ConcurrentIsSensitive

\* A concurrent signal assignment runs again whenever a signal or a port changes that
\* its run() reads: the callback of createProcess has put all of them into the list
\* that the constructor around makes the process sensitive to.
THEOREM ConcurrentAlwaysSensitive == Spec => []ConcurrentIsSensitive
<1>1. AllInv => IInv /\ BodyInv /\ GrowInv
  BY DEF AllInv
<1>2. IInv /\ BodyInv /\ GrowInv /\ SoloInv /\ ConcurrentIsSensitive /\ [Next]_vars
      => SoloInv' /\ ConcurrentIsSensitive'
  BY SoloStep, SensitiveStep
<1>3. QED
  BY <1>1, <1>2, AllAlways, SensitiveStart, PTL DEF Spec
-----------------------------------------------------------------------------
(***************************************************************************)
(* Where the "p->" of a name lead to.                                      *)
(*                                                                         *)
(* A prefix is a difference of two levels: that of the class at hand and   *)
(* that of the class that has the name.  Both are counted on the same      *)
(* chain, of which the invariant says that it is the stack of the calls,   *)
(* so that for a name of the chain the difference leads back to the very   *)
(* class.  A global name has the level of a unit, and leads to the unit at *)
(* hand, which is right only if the unit inherits from the global one: so  *)
(* isLocal compares their names, and this goes wrong when the names say    *)
(* something else.                                                         *)
(***************************************************************************)

\* isLocal takes a name of the global unit j for one of the unit i by the name of
\* the unit alone, although i neither is j nor implements it.
OnlyNamedAlike(t, i, j) ==
  /\ t[j].kind \in {"PACKAGE", "ENTITY"} /\ t[j].name \in {t[i].name, t[i].base}
  /\ i # j /\ ~Inherits(t, i, j)

\* The name is that of a signal of a process, and the constructor around has it.
NamedFromAround(t, r) ==
  /\ t[r.to[1]].kind = "PROCESS" /\ Around(t, r.to[1]) = t[r.at].path
  /\ r.to[2] \in DOMAIN t[r.to[1]].names /\ EntryOf(t, r.to).kind \in {"SIGNAL", "PORT"}

Explained(t, r) ==
  /\ r.at \in 1 .. Len(t) /\ r.to[1] \in 1 .. Len(t) /\ r.hops \in Nat
  /\ r.how = "here" =>
       \/ Reaches(t, r)
       \/ OnlyNamedAlike(t, t[r.at].path[1], r.to[1])
       \/ NamedFromAround(t, r)

UnitsOutermost(t) == \A i \in 1 .. Len(t) : t[i].kind \in UnitKinds => Depth(t, i) = 1

ReachInv ==
  UnitsOutermost(classes) /\ \A r \in references : Explained(classes, r)

\* What was explained once stays so: the tree only grows.
LEMMA ExplainedStays ==
  ASSUME NEW t, IsTree(t), NEW u, Len(u) \in Nat, Grows(t, u), NEW r, Explained(t, r)
  PROVE  Explained(u, r)
<1>1. Len(t) \in Nat /\ 1 .. Len(t) \subseteq 1 .. Len(u)
  <2>1. Len(t) \in Nat
    BY SequenceHas DEF IsTree
  <2>2. QED
    BY <2>1 DEF Grows
<1>2. r.at \in 1 .. Len(t) /\ r.to[1] \in 1 .. Len(t) /\ r.hops \in Nat
  BY DEF Explained
<1>3. \A i \in 1 .. Len(t) :
        /\ u[i].kind = t[i].kind /\ u[i].name = t[i].name /\ u[i].base = t[i].base
        /\ u[i].path = t[i].path
  BY DEF Grows, ClassStays
<1>4. \A i \in 1 .. Len(t) :
        /\ Depth(t, i) \in Nat \ {0} /\ DOMAIN t[i].path = 1 .. Depth(t, i)
        /\ \A n \in 1 .. Depth(t, i) : t[i].path[n] \in 1 .. Len(t)
  <2> SUFFICES ASSUME NEW i \in 1 .. Len(t)
               PROVE  /\ Depth(t, i) \in Nat \ {0} /\ DOMAIN t[i].path = 1 .. Depth(t, i)
                      /\ \A n \in 1 .. Depth(t, i) : t[i].path[n] \in 1 .. Len(t)
    OBVIOUS
  <2>1. t[i].path \in Seq(1 .. i) /\ t[i].path # <<>>
    BY DEF IsTree, ClassOK
  <2>2. /\ Len(t[i].path) \in Nat \ {0} /\ DOMAIN t[i].path = 1 .. Len(t[i].path)
        /\ \A n \in 1 .. Len(t[i].path) : t[i].path[n] \in 1 .. i
    BY <2>1, LenProperties, EmptySeq
  <2>3. 1 .. i \subseteq 1 .. Len(t)
    BY <1>1
  <2>4. QED
    BY <2>2, <2>3 DEF Depth
<1>5. \A i, j \in 1 .. Len(t) :
        /\ Inherits(t, i, j) <=> Inherits(u, i, j)
        /\ OnlyNamedAlike(t, i, j) <=> OnlyNamedAlike(u, i, j)
  BY <1>3 DEF Inherits, OnlyNamedAlike
<1>6. Reaches(t, r) => Reaches(u, r)
  <2> SUFFICES ASSUME Reaches(t, r) PROVE Reaches(u, r)
    OBVIOUS
  <2>1. Ancestor(u, r.at, r.hops) = Ancestor(t, r.at, r.hops)
    BY <1>2, <1>3 DEF Ancestor, Depth
  <2> DEFINE a == Ancestor(t, r.at, r.hops)
  <2>2. a # NoClass /\ (a = r.to[1] \/ Inherits(t, a, r.to[1]))
    BY DEF Reaches
  <2> HIDE DEF a
  <2>3. CASE a = r.to[1]
    BY <2>1, <2>2, <2>3 DEF Reaches, a
  <2>4. CASE Inherits(t, a, r.to[1])
    <3>1. a \in 1 .. Len(t)
      <4>1. PICK d \in Nat \ {0} : d = Depth(t, r.at)
        BY <1>2, <1>4
      <4>2. r.hops < d /\ a = t[r.at].path[d - r.hops]
        BY <1>2, <2>2, <4>1 DEF Ancestor, a, NoClass
      <4>3. d - r.hops \in 1 .. d
        BY <1>2, <4>2
      <4>4. QED
        BY <1>2, <1>4, <4>1, <4>2, <4>3
    <3>2. QED
      BY <1>2, <1>5, <2>1, <2>2, <2>4, <3>1 DEF Reaches, a
  <2>5. QED
    BY <2>2, <2>3, <2>4
<1>7. NamedFromAround(t, r) => NamedFromAround(u, r)
  BY <1>2, <1>3 DEF NamedFromAround, Around, EntryOf, Grows, ClassStays, EntriesStay
<1>8. t[r.at].path[1] \in 1 .. Len(t) /\ u[r.at].path = t[r.at].path
  <2>1. Depth(t, r.at) \in Nat \ {0} /\ u[r.at].path = t[r.at].path
    BY <1>2, <1>3, <1>4
  <2>2. 1 \in 1 .. Depth(t, r.at)
    BY <2>1
  <2>3. QED
    BY <1>2, <1>4, <2>1, <2>2
<1>9. OnlyNamedAlike(t, t[r.at].path[1], r.to[1]) => OnlyNamedAlike(u, u[r.at].path[1], r.to[1])
  BY <1>2, <1>5, <1>8
<1>10. QED
  BY <1>1, <1>2, <1>6, <1>7, <1>9 DEF Explained

-----------------------------------------------------------------------------
(* The levels.                                                             *)

\* Where the class on top and those around it are.
LEMMA LevelsAre ==
  ASSUME NEW t, NEW fs, Nested(t, fs), NEW k, k = Len(fs), fs # <<>>
  PROVE  /\ k \in Nat \ {0} /\ HierarchyLevel(t) = k + 1
         /\ CurrentPath(t)[1] = fs[1].id /\ fs[1].id \in 1 .. Len(t)
         /\ \A j \in 1 .. k, n \in 0 .. k - 1 :
              n < j => Ancestor(t, fs[j].id, n) = fs[j - n].id
         /\ \A j \in 1 .. k : fs[j].id \in 1 .. Len(t) /\ t[fs[j].id].path[1] = fs[1].id
<1>1. k \in Nat \ {0} /\ Current(t) = fs[k].id /\ CurrentPath(t) = t[fs[k].id].path
  BY CurrentIsTop
<1>2. \A j \in 1 .. k :
        /\ Depth(t, fs[j].id) = j
        /\ \A n \in 1 .. j : t[fs[j].id].path[n] = fs[n].id
        /\ fs[j].id \in 1 .. Len(t)
  <2>1. \A j \in 1 .. Len(fs) : fs[j].id \in 1 .. Len(t)
    BY DEF Nested, IsOpen
  <2>2. \A j \in 1 .. Len(fs) :
          /\ Depth(t, fs[j].id) = j
          /\ \A n \in 1 .. j : t[fs[j].id].path[n] = fs[n].id
    BY OpenPaths
  <2>3. QED
    BY <2>1, <2>2
<1>3. Chain(t) # {}
  <2>1. fs[k].id \in Chain(t)
    BY <1>1, ChainIsOpen
  <2>2. QED
    BY <2>1
<1>4. HierarchyLevel(t) = k + 1
  BY <1>1, <1>2, <1>3 DEF HierarchyLevel
<1>5. ASSUME NEW j \in 1 .. k, NEW n \in 0 .. k - 1, n < j
      PROVE  Ancestor(t, fs[j].id, n) = fs[j - n].id
  <2>1. j - n \in 1 .. j
    BY <1>1, <1>5
  <2>2. QED
    BY <1>2, <1>5, <2>1 DEF Ancestor
<1>6. QED
  BY <1>1, <1>2, <1>4, <1>5

LEMMA PrefixIs ==
  ASSUME NEW t, NEW k \in Nat, HierarchyLevel(t) = k, NEW o \in Int
  PROVE  /\ ParentPrefix(t, o) \in Nat
         /\ k + o >= 0 => ParentPrefix(t, o) = k + o
         /\ k + o <= 0 => ParentPrefix(t, o) = 0
BY DEF ParentPrefix

\* What is found can be told by where it is: in the chain, or in a unit.
LEMMA FoundWhere ==
  ASSUME IInv, UnitsOutermost(classes), NEW m, IsMatch(classes, m),
         IsGlobal(classes, m[1]) \/ m[1] \in Chain(classes)
  PROVE  /\ m[1] \in 1 .. Len(classes)
         /\ \/ \E j \in 1 .. Len(frames) :
                  m[1] = frames[j].id /\ HierarchySize(classes, m) = j + 1
            \/ /\ m[1] \notin Chain(classes)
               /\ HierarchySize(classes, m) = 2
               /\ classes[m[1]].kind \in {"PACKAGE", "ENTITY"}
<1>1. m[1] \in 1 .. Len(classes)
  BY DEF IsMatch
<1>2. CASE m[1] \in Chain(classes)
  <2>1. PICK j \in 1 .. Len(frames) : m[1] = frames[j].id
    BY <1>2, ChainIsOpen DEF IInv
  <2>2. Depth(classes, m[1]) = j
    BY <2>1, OpenPaths DEF IInv
  <2>3. QED
    BY <1>1, <2>1, <2>2 DEF HierarchySize
<1>3. CASE m[1] \notin Chain(classes)
  <2>1. classes[m[1]].kind \in {"PACKAGE", "ENTITY"}
    BY <1>3 DEF IsGlobal
  <2>2. Depth(classes, m[1]) = 1
    BY <1>1, <2>1 DEF UnitsOutermost, UnitKinds
  <2>3. QED
    BY <1>1, <1>3, <2>1, <2>2 DEF HierarchySize
<1>4. QED
  BY <1>2, <1>3

\* A name that is written into the class at hand.
LEMMA HereExplained ==
  ASSUME IInv, UnitsOutermost(classes), frames # <<>>, NEW m, IsMatch(classes, m),
         IsGlobal(classes, m[1]) \/ m[1] \in Chain(classes), IsLocal(classes, m)
  PROVE  Explained(classes, Reference(classes, Here, m, 0))
<1> DEFINE k == Len(frames)
           r == Reference(classes, Here, m, 0)
           s == HierarchySize(classes, m)
<1>1. /\ k \in Nat \ {0} /\ HierarchyLevel(classes) = k + 1
      /\ CurrentPath(classes)[1] = frames[1].id
      /\ \A n \in 0 .. k - 1 : Ancestor(classes, frames[k].id, n) = frames[k - n].id
      /\ classes[frames[k].id].path[1] = frames[1].id
  BY LevelsAre DEF IInv
<1>2. Here = frames[k].id /\ Here \in 1 .. Len(classes)
  BY TopIs DEF Here, Top
<1> HIDE DEF k
<1>3. r.at = Here /\ r.to = m /\ r.how = "here" /\ r.hops = ParentPrefix(classes, 0 - s)
  BY DEF Reference
<1> HIDE DEF r, s
<1>4. ASSUME NEW j \in 1 .. k, s = j + 1
      PROVE  r.hops \in Nat /\ Ancestor(classes, Here, r.hops) = frames[j].id
  <2>1. j \in Nat /\ j <= k /\ 0 - s \in Int /\ k + 1 + (0 - s) = k - j /\ k - j >= 0
        /\ k - j \in 0 .. k - 1 /\ k - (k - j) = j
    BY <1>1, <1>4
  <2>2. r.hops = k - j
    BY <1>1, <1>3, <2>1, PrefixIs
  <2>3. QED
    BY <1>1, <1>2, <2>1, <2>2
<1>5. CASE \E j \in 1 .. k : m[1] = frames[j].id /\ s = j + 1
  <2>1. PICK j \in 1 .. k : m[1] = frames[j].id /\ s = j + 1
    BY <1>5
  <2>2. m[1] \in 1 .. Len(classes) /\ m[1] # NoClass
    BY FoundWhere DEF NoClass
  <2>3. r.hops \in Nat /\ Ancestor(classes, Here, r.hops) = m[1]
    BY <1>4, <2>1
  <2>4. Reaches(classes, r)
    BY <1>3, <2>2, <2>3 DEF Reaches
  <2>5. QED
    BY <1>2, <1>3, <2>2, <2>3, <2>4 DEF Explained, r
<1>6. CASE m[1] \notin Chain(classes) /\ s = 2 /\ classes[m[1]].kind \in {"PACKAGE", "ENTITY"}
  <2>1. 1 \in 1 .. k /\ s = 1 + 1
    BY <1>1, <1>6
  <2>2. r.hops \in Nat /\ Ancestor(classes, Here, r.hops) = frames[1].id
    BY <1>4, <2>1
  <2>3. frames[1].id \in 1 .. Len(classes) /\ frames[1].id # NoClass
    BY FramesHave, <2>1 DEF k, NoClass
  <2>4. classes[m[1]].name \in {classes[frames[1].id].name, classes[frames[1].id].base}
    BY <1>1, <1>6 DEF IsLocal
  <2>5. classes[Here].path[1] = frames[1].id
    BY <1>1, <1>2
  <2>6. m[1] \in 1 .. Len(classes)
    BY FoundWhere
  <2>7. Reaches(classes, r) \/ OnlyNamedAlike(classes, frames[1].id, m[1])
    BY <1>3, <1>6, <2>2, <2>3, <2>4 DEF Reaches, OnlyNamedAlike
  <2>8. QED
    BY <1>2, <1>3, <2>2, <2>5, <2>6, <2>7 DEF Explained, r
<1>7. QED
  BY <1>5, <1>6, FoundWhere DEF r, s, k

\* A name that a process writes into the constructor around it.
LEMMA AroundExplained ==
  ASSUME IInv, UnitsOutermost(classes), frames # <<>>, Kind = "PROCESS",
         NEW m, IsMatch(classes, m),
         IsGlobal(classes, m[1]) \/ m[1] \in Chain(classes), IsLocal(classes, m),
         EntryOf(classes, m).kind \in {"SIGNAL", "PORT"}
  PROVE  Explained(classes, Reference(classes, AroundHere, m, -1))
<1> DEFINE k == Len(frames)
           r == Reference(classes, AroundHere, m, -1)
           s == HierarchySize(classes, m)
<1>1. /\ k \in Nat \ {0} /\ HierarchyLevel(classes) = k + 1
      /\ CurrentPath(classes)[1] = frames[1].id
      /\ \A j \in 1 .. k, n \in 0 .. k - 1 :
           n < j => Ancestor(classes, frames[j].id, n) = frames[j - n].id
      /\ \A j \in 1 .. k : classes[frames[j].id].path[1] = frames[1].id
  BY LevelsAre DEF IInv
<1>2. k > 1 /\ k - 1 \in 1 .. k /\ AroundHere \in 1 .. Len(classes)
      /\ AroundHere = frames[k - 1].id /\ Here = frames[k].id
  BY ProcessIsInside DEF UnitKinds, AroundHere, Here, Top
<1>3. Around(classes, Here) = classes[AroundHere].path
  <2>1. k \in 1 .. k /\ k = (k - 1) + 1
    BY <1>1
  <2>2. QED
    BY <1>2, <2>1, OpenAround DEF IInv
<1> HIDE DEF k
<1>4. r.at = AroundHere /\ r.to = m /\ r.how = "here" /\ r.hops = ParentPrefix(classes, -1 - s)
  BY DEF Reference
<1> HIDE DEF r, s
<1>5. ASSUME NEW j \in 1 .. k, s = j + 1
      PROVE  /\ r.hops \in Nat
             /\ j # k => Ancestor(classes, AroundHere, r.hops) = frames[j].id
  <2>1. j \in Nat /\ j <= k /\ -1 - s \in Int /\ k + 1 + (-1 - s) = k - 1 - j
    BY <1>1, <1>5
  <2>2. r.hops \in Nat /\ (k - 1 - j >= 0 => r.hops = k - 1 - j)
    BY <1>1, <1>4, <2>1, PrefixIs
  <2>3. ASSUME j # k PROVE Ancestor(classes, AroundHere, r.hops) = frames[j].id
    <3>1. k - 1 - j >= 0 /\ k - 1 - j \in 0 .. k - 1 /\ k - 1 - j < k - 1
          /\ (k - 1) - (k - 1 - j) = j
      BY <1>1, <2>1, <2>3
    <3>2. Ancestor(classes, frames[k - 1].id, k - 1 - j) = frames[(k - 1) - (k - 1 - j)].id
      BY <1>1, <1>2, <3>1
    <3>3. QED
      BY <1>2, <2>2, <3>1, <3>2
  <2>4. QED
    BY <2>2, <2>3
<1>6. CASE \E j \in 1 .. k : m[1] = frames[j].id /\ s = j + 1
  <2>1. PICK j \in 1 .. k : m[1] = frames[j].id /\ s = j + 1
    BY <1>6
  <2>2. m[1] \in 1 .. Len(classes) /\ m[1] # NoClass
    BY FoundWhere DEF NoClass
  <2>3. CASE j # k
    <3>1. r.hops \in Nat /\ Ancestor(classes, AroundHere, r.hops) = m[1]
      BY <1>5, <2>1, <2>3
    <3>2. Reaches(classes, r)
      BY <1>4, <2>2, <3>1 DEF Reaches
    <3>3. QED
      BY <1>2, <1>4, <2>2, <3>1, <3>2 DEF Explained, r
  <2>4. CASE j = k
    <3>1. classes[m[1]].kind = "PROCESS" /\ m[1] = Here
      BY <1>2, <2>1, <2>4 DEF Kind
    <3>2. NamedFromAround(classes, r)
      BY <1>3, <1>4, <3>1 DEF NamedFromAround, IsMatch
    <3>3. r.hops \in Nat
      BY <1>5, <2>1
    <3>4. QED
      BY <1>2, <1>4, <2>2, <3>2, <3>3 DEF Explained, r
  <2>5. QED
    BY <2>3, <2>4
<1>7. CASE m[1] \notin Chain(classes) /\ s = 2 /\ classes[m[1]].kind \in {"PACKAGE", "ENTITY"}
  <2>1. 1 \in 1 .. k /\ s = 1 + 1 /\ 1 # k
    BY <1>1, <1>2, <1>7
  <2>2. r.hops \in Nat /\ Ancestor(classes, AroundHere, r.hops) = frames[1].id
    BY <1>5, <2>1
  <2>3. frames[1].id \in 1 .. Len(classes) /\ frames[1].id # NoClass
    BY FramesHave, <2>1 DEF k, NoClass
  <2>4. classes[m[1]].name \in {classes[frames[1].id].name, classes[frames[1].id].base}
    BY <1>1, <1>7 DEF IsLocal
  <2>5. classes[AroundHere].path[1] = frames[1].id
    BY <1>1, <1>2
  <2>6. m[1] \in 1 .. Len(classes)
    BY FoundWhere
  <2>7. Reaches(classes, r) \/ OnlyNamedAlike(classes, frames[1].id, m[1])
    BY <1>4, <1>7, <2>2, <2>3, <2>4 DEF Reaches, OnlyNamedAlike
  <2>8. QED
    BY <1>2, <1>4, <2>2, <2>5, <2>6, <2>7 DEF Explained, r
<1>8. QED
  BY <1>6, <1>7, FoundWhere DEF r, s, k

-----------------------------------------------------------------------------
(* What each step writes.                                                  *)

Located(m) == IsMatch(classes, m) /\ (IsGlobal(classes, m[1]) \/ m[1] \in Chain(classes))

AllExplained(rs) == \A r \in rs : Explained(classes, r)

LEMMA ReadsLocated ==
  ASSUME IInv, NEW reads \in Reads, NEW types
  PROVE  \A m \in BestOf(reads, types) : Located(m)
BY ReadsAre DEF IsFoundAs, Located

LEMMA WrittenExplained ==
  ASSUME IInv, UnitsOutermost(classes), frames # <<>>, NEW ms, \A m \in ms : Located(m)
  PROVE  AllExplained(ReferencesTo(ms, Here, 0))
<1> SUFFICES ASSUME NEW m \in ms, HasPrefix(classes, m)
             PROVE  Explained(classes, Reference(classes, Here, m, 0))
  BY DEF AllExplained, ReferencesTo
<1>1. IsLocal(classes, m)
  BY DEF HasPrefix
<1>2. QED
  BY <1>1, HereExplained DEF Located

LEMMA ReadsExplained ==
  ASSUME IInv, UnitsOutermost(classes), frames # <<>>, NEW reads \in Reads, NEW types
  PROVE  AllExplained(Written(reads, types, Here)) /\ AllExplained(WrittenIfFound(reads, types))
<1>1. AllExplained(Written(reads, types, Here))
  BY ReadsLocated, WrittenExplained DEF Written
<1>2. QED
  BY <1>1 DEF WrittenIfFound, AllExplained

\* The name of what a loop runs over.
LEMMA LoopExplained ==
  ASSUME IInv, UnitsOutermost(classes), frames # <<>>, NEW item
  PROVE  AllExplained(ReferencesTo(IterationName(item, Iterated(item)), Here, 0))
<1>1. \A m \in IterationName(item, Iterated(item)) : Located(m)
  BY IterationIs DEF IsFoundAs, Located
<1>2. QED
  BY <1>1, WrittenExplained

\* A text that was made in the class around.
LEMMA OutsideExplained ==
  ASSUME IInv, frames # <<>>, NEW m, IsMatch(classes, m)
  PROVE  Explained(classes, Outside(classes, Here, m))
<1>1. m[1] \in 1 .. Len(classes) /\ Here \in 1 .. Len(classes)
  BY TopIs DEF IsMatch
<1>2. HierarchyLevel(classes) = Len(frames) + 1 /\ Len(frames) \in Nat
  BY LevelsAre DEF IInv
<1>3. PICK s \in Nat : s = HierarchySize(classes, m)
  BY <1>1, NamesHave DEF HierarchySize, IInv, Nested
<1>4. ParentPrefix(classes, -1 - HierarchySize(classes, m)) \in Nat
  <2>1. -1 - s \in Int /\ Len(frames) + 1 \in Nat
    BY <1>2
  <2>2. ParentPrefix(classes, -1 - s) \in Nat
    BY <1>2, <2>1, PrefixIs
  <2>3. QED
    BY <1>3, <2>2
<1>5. QED
  BY <1>1, <1>4 DEF Explained, Outside

LEMMA WaitExplained ==
  ASSUME IInv, frames # <<>>, NEW r, r.at = Here, r.to[1] = classes[Here].path[1],
         r.hops = Len(frames) - 1
  PROVE  Explained(classes, r)
<1> DEFINE k == Len(frames)
<1>1. /\ k \in Nat \ {0}
      /\ \A n \in 0 .. k - 1 : Ancestor(classes, frames[k].id, n) = frames[k - n].id
      /\ \A j \in 1 .. k : frames[j].id \in 1 .. Len(classes)
      /\ classes[frames[k].id].path[1] = frames[1].id
  BY LevelsAre DEF IInv
<1>2. Here = frames[k].id
  BY DEF Here, Top
<1>3. Here \in 1 .. Len(classes) /\ r.to[1] \in 1 .. Len(classes) /\ r.to[1] = frames[1].id
  BY <1>1, <1>2
<1>4. r.hops \in 0 .. k - 1 /\ k - r.hops = 1
  BY <1>1
<1>5. Ancestor(classes, r.at, r.hops) = r.to[1] /\ r.to[1] # NoClass
  BY <1>1, <1>2, <1>3, <1>4 DEF NoClass
<1>6. Reaches(classes, r)
  BY <1>5 DEF Reaches
<1>7. QED
  BY <1>3, <1>4, <1>6 DEF Explained

LEMMA DeclarationExplained ==
  ASSUME IInv, UnitsOutermost(classes)
  PROVE  /\ DeclareObject => AllExplained(references')
         /\ InitialiseObject => AllExplained(references')
         /\ DeclareAlias => AllExplained(references')
<1>1. ASSUME DeclareObject PROVE AllExplained(references')
  <2>1. Decl \in Declarations /\ Decl.node = "object" /\ frames # <<>>
        /\ TypesNamed(Decl.type) # {}
        /\ references' = FactoryReference(Decl.kind, TypesNamed(Decl.type))
                         \cup FactoryArguments(Decl)
    BY <1>1, DeclIs DEF DeclareObject, At, AtDeclaration, Writes
  <2> DEFINE m == Best(TypesNamed(Decl.type))
  <2>2. Located(m)
    BY <2>1, BestType DEF IsFoundAs, Located
  <2> HIDE DEF m
  <2> DEFINE rs == FactoryReference(Decl.kind, TypesNamed(Decl.type))
             ws == FactoryArguments(Decl)
  <2>3. rs = {} \/ (IsLocal(classes, m) /\ rs = {Reference(classes, Here, m, 0)})
    BY DEF FactoryReference, m
  <2>4. ws = {} \/ ws = Written(Decl.range, AnyType, Here)
    BY DEF FactoryArguments
  <2>5. references' = rs \cup ws /\ Decl.range \in Reads
    BY <2>1, DeclTyped
  <2> HIDE DEF rs, ws
  <2>6. AllExplained(rs)
    BY <2>1, <2>2, <2>3, HereExplained DEF AllExplained, Located
  <2>7. AllExplained(ws)
    BY <2>1, <2>4, <2>5, ReadsExplained DEF AllExplained
  <2>8. QED
    BY <2>5, <2>6, <2>7 DEF AllExplained
<1>2. ASSUME InitialiseObject PROVE AllExplained(references')
  <2>1. Decl \in Declarations /\ Decl.node = "object" /\ frames # <<>>
        /\ references' = Written(Decl.reads, InitialType, Here)
    BY <1>2, DeclIs DEF InitialiseObject, At, Writes
  <2>2. Decl.reads \in Reads
    BY <2>1, DeclTyped
  <2>3. QED
    BY <2>1, <2>2, ReadsExplained
<1>3. ASSUME DeclareAlias PROVE AllExplained(references')
  <2>1. Decl \in Declarations /\ Decl.node = "alias" /\ frames # <<>>
        /\ references' = Written(Decl.reads, AnyType, Here) \cup
                         {Plain(Here, m) : m \in BestOf(<<Decl.of>>, AnyType)}
    BY <1>3, DeclIs DEF DeclareAlias, At, Writes
  <2>2. Decl.reads \in Reads /\ <<Decl.of>> \in Reads
    BY <2>1, DeclTyped DEF Reads
  <2>3. AllExplained(Written(Decl.reads, AnyType, Here))
    BY <2>1, <2>2, ReadsExplained
  <2>4. ASSUME NEW m \in BestOf(<<Decl.of>>, AnyType) PROVE Explained(classes, Plain(Here, m))
    <3>1. m[1] \in 1 .. Len(classes)
      BY <2>2, ReadsLocated DEF Located, IsMatch
    <3>2. Here \in 1 .. Len(classes)
      BY <2>1, TopIs
    <3>3. QED
      BY <3>1, <3>2 DEF Explained, Plain
  <2>5. QED
    BY <2>1, <2>3, <2>4 DEF AllExplained
<1>4. QED
  BY <1>1, <1>2, <1>3

LEMMA FactoryExplained ==
  ASSUME IInv, GrowInv, UnitsOutermost(classes), WriteFactory
  PROVE  AllExplained(references')
<1>1. frames # <<>> /\ Kind = "FACTORY" /\ references' = FactoryRange(Top.node)
  BY DEF WriteFactory, AtBody, Turns, Writes
<1> DEFINE d == Top.node
           ms == {m \in BestOf(d.reads, AnyType) : HasPrefix(classes, m)}
<1>2. d.reads \in Reads
  BY <1>1, NodeOfTop DEF NodeFits
<1>3. \A m \in ms : Located(m) /\ HasPrefix(classes, m)
  BY <1>2, ReadsLocated
<1> HIDE DEF d
<1>4. CASE IsPhysical(d)
  <2>1. references' = {Outside(classes, Here, m) : m \in ms}
    BY <1>1, <1>4 DEF FactoryRange, d
  <2>2. ASSUME NEW m \in ms PROVE Explained(classes, Outside(classes, Here, m))
    BY <1>1, <1>3, OutsideExplained DEF Located
  <2>3. QED
    BY <2>1, <2>2 DEF AllExplained
<1>5. CASE ~IsPhysical(d)
  <2>1. references' = {Reference(classes, Here, m, 0) : m \in ms}
    BY <1>1, <1>5 DEF FactoryRange, d
  <2>2. ASSUME NEW m \in ms PROVE Explained(classes, Reference(classes, Here, m, 0))
    BY <1>1, <1>3, HereExplained DEF Located, HasPrefix
  <2>3. QED
    BY <2>1, <2>2 DEF AllExplained
<1>6. QED
  BY <1>4, <1>5

\* The variable of a generate loop is a member of its class, with the type that the
\* loop in the constructor around has.
LEMMA GenerateExplained ==
  ASSUME IInv, UnitsOutermost(classes), StartGenerate
  PROVE  AllExplained(references')
<1> DEFINE ms == IterationName(Top.node, IteratedBefore(Top.node))
<1>1. frames # <<>> /\ references' = MadeOutside(ms, Here)
  BY DEF StartGenerate, AtBody, Turns, Writes
<1>2. \A m \in ms : IsMatch(classes, m)
  BY IterationIs DEF IsFoundAs, IteratedBefore
<1> HIDE DEF ms
<1>3. QED
  BY <1>1, <1>2, OutsideExplained DEF AllExplained, MadeOutside

LEMMA StatementExplained ==
  ASSUME IInv, Typed, UnitsOutermost(classes)
  PROVE  /\ WaitStatement => AllExplained(references')
         /\ ProcedureCall => AllExplained(references')
         /\ ReturnStatement => AllExplained(references')
         /\ Condition => AllExplained(references')
         /\ EnterLoop => AllExplained(references')
<1>1. ASSUME WaitStatement PROVE AllExplained(references')
  <2>1. frames # <<>> /\ references' = {WaitReference(classes, -2)}
    BY <1>1 DEF WaitStatement, AtStmt, AtStatement, Executes
  <2>2. HierarchyLevel(classes) = Len(frames) + 1 /\ Len(frames) \in Nat \ {0}
    BY <2>1, LevelsAre DEF IInv
  <2>3. ParentPrefix(classes, -2) = Len(frames) - 1
    <3>1. PICK n \in Nat \ {0} : n = Len(frames)
      BY <2>2
    <3>2. n + 1 \in Nat /\ -2 \in Int /\ n + 1 + (-2) = n - 1 /\ n - 1 >= 0
      OBVIOUS
    <3>3. ParentPrefix(classes, -2) = n - 1
      BY <2>2, <3>1, <3>2, PrefixIs
    <3>4. QED
      BY <3>1, <3>3
  <2> DEFINE r == WaitReference(classes, -2)
  <2>4. r.at = Here /\ r.to[1] = classes[Here].path[1] /\ r.hops = Len(frames) - 1
    BY <2>3 DEF WaitReference
  <2> HIDE DEF r
  <2>5. Explained(classes, r)
    BY <2>1, <2>4, WaitExplained
  <2>6. QED
    BY <2>1, <2>5 DEF AllExplained, r
<1>2. ASSUME ProcedureCall PROVE AllExplained(references')
  <2>1. Stmt \in Statements /\ Stmt.node = "call" /\ frames # <<>>
    <3>1. AtStmt("call")
      BY <1>2, ZenonT(30) DEF ProcedureCall
    <3>2. QED
      BY <3>1, StmtIs DEF AtStmt
  <2>2. Stmt.reads \in Reads
    BY <2>1, StmtTyped
  <2> DEFINE found == Procedures(Stmt.name) # {} /\ AllFound(Stmt.reads, AnyType)
             ws == Written(Stmt.reads, AnyType, Here)
             ps == ReferencesTo({Best(Procedures(Stmt.name))}, Here, 0)
  <2>3. references' = IF found THEN ws \cup ps ELSE {}
    <3>1. \E f, new : Executes(f, IF found THEN ws \cup ps ELSE {}, new)
      BY <1>2, ZenonT(30) DEF ProcedureCall
    <3> HIDE DEF found, ws, ps
    <3>2. QED
      BY <3>1 DEF Executes
  <2>4. AllExplained(ws)
    BY <2>1, <2>2, ReadsExplained
  <2>5. ASSUME found PROVE AllExplained(ps)
    <3>1. IsTree(classes)
      BY DEF IInv, Nested
    <3>2. \A m \in Procedures(Stmt.name) :
            IsFoundAs(classes, m, Stmt.name, {"FUNCTION"}, {NoType})
      BY <3>1, MatchesAre DEF Procedures
    <3>3. IsFoundAs(classes, Best(Procedures(Stmt.name)), Stmt.name, {"FUNCTION"}, {NoType})
      BY <2>5, <3>1, <3>2, BestFound DEF Best
    <3>4. Located(Best(Procedures(Stmt.name)))
      BY <3>3 DEF IsFoundAs, Located
    <3>5. QED
      BY <2>1, <3>4, WrittenExplained
  <2> HIDE DEF found, ws, ps
  <2>6. QED
    BY <2>3, <2>4, <2>5 DEF AllExplained
<1>3. ASSUME ReturnStatement PROVE AllExplained(references')
  <2>1. Stmt \in Statements /\ Stmt.node = "return" /\ frames # <<>>
        /\ references' = WrittenIfFound(Stmt.reads, {returnType})
    BY <1>3, StmtIs DEF ReturnStatement, AtStmt, Executes
  <2>2. QED
    BY <2>1, StmtTyped, ReadsExplained
<1>4. ASSUME Condition PROVE AllExplained(references')
  <2>1. Stmt \in Statements /\ Stmt.node = "condition" /\ frames # <<>>
        /\ references' = WrittenIfFound(Stmt.reads, AnyType)
    BY <1>4, StmtIs DEF Condition, AtStmt, Executes
  <2>2. QED
    BY <2>1, StmtTyped, ReadsExplained
<1>5. ASSUME EnterLoop PROVE AllExplained(references')
  BY <1>5, LoopExplained DEF EnterLoop, AtStmt, AtStatement, Writes
<1>6. QED
  BY <1>1, <1>2, <1>3, <1>4, <1>5

\* An assignment also writes the signals that a process (all) reads, into the
\* constructor around.
LEMMA AssignmentExplained ==
  ASSUME IInv, Typed, UnitsOutermost(classes), Assignment
  PROVE  AllExplained(references')
<1>1. Stmt \in Statements /\ Stmt.node = "assignment" /\ frames # <<>>
  BY StmtIs DEF Assignment, AtStmt
<1>2. Stmt.reads \in Reads /\ <<Stmt.target>> \in Reads
  BY <1>1, StmtTyped DEF Reads
<1> DEFINE types == TargetTypes(Stmt.target)
           ms == Collected(Stmt.reads, types)
           rs == IF AllFound(Stmt.reads, types)
                 THEN Written(Stmt.reads, types, Here) \cup Written(<<Stmt.target>>, types, Here)
                 ELSE {}
           ss == ReferencesTo(ms, AroundHere, -1)
<1>3. references' = ss \cup rs
  BY DEF Assignment, Executes
<1>4. AllExplained(rs)
  BY <1>1, <1>2, ReadsExplained DEF AllExplained
<1>5. AllExplained(ss)
  <2> SUFFICES ASSUME NEW m \in ms, HasPrefix(classes, m)
               PROVE  Explained(classes, Reference(classes, AroundHere, m, -1))
    BY DEF AllExplained, ReferencesTo
  <2>1. /\ m \in BestOf(Stmt.reads, types) /\ Kind = "PROCESS"
        /\ EntryOf(classes, m).kind \in {"SIGNAL", "PORT"}
    BY DEF Collected, SignalsOf
  <2>2. Located(m)
    BY <1>2, <2>1, ReadsLocated
  <2>3. QED
    BY <1>1, <2>1, <2>2, AroundExplained DEF Located, HasPrefix
<1>6. QED
  BY <1>3, <1>4, <1>5 DEF AllExplained

LEMMA ConcurrentExplained ==
  ASSUME IInv, Typed, UnitsOutermost(classes)
  PROVE  /\ OpenProcess => AllExplained(references')
         /\ OpenGenerate => AllExplained(references')
         /\ Instantiate => AllExplained(references')
<1>1. ASSUME OpenProcess PROVE AllExplained(references')
  <2>1. Conc \in Concurrents /\ frames # <<>>
        /\ references' = ReferencesTo(Listed(Conc), Here, 0)
    BY <1>1, ConcIs DEF OpenProcess, AtConc, Writes
  <2>2. \A m \in Listed(Conc) : Located(m)
    BY BestValue DEF Listed, IsFoundAs, Located
  <2>3. QED
    BY <2>1, <2>2, WrittenExplained
<1>2. ASSUME Instantiate PROVE AllExplained(references')
  <2> DEFINE ms == {Best(Actuals(Instance, n)) : n \in Associated(Instance)}
  <2>1. frames # <<>> /\ references' = ReferencesTo(ms, Here, 0)
        /\ \A n \in Associated(Instance) : Actuals(Instance, n) # {}
    <3>1. AtInstance /\ Writes(ReferencesTo(ms, Here, 0))
          /\ \A n \in Associated(Instance) : Actuals(Instance, n) # {}
      BY <1>2, ZenonT(30) DEF Instantiate
    <3> HIDE DEF ms
    <3>2. QED
      BY <3>1 DEF AtInstance, Writes
  <2>2. \A m \in ms : Located(m)
    BY <2>1, BestValue DEF Actuals, IsFoundAs, Located
  <2>3. QED
    BY <2>1, <2>2, WrittenExplained
<1>3. ASSUME OpenGenerate PROVE AllExplained(references')
  BY <1>3, LoopExplained DEF OpenGenerate, DefinePart, AtConc, AtConcurrent, Writes
<1>4. QED
  BY <1>1, <1>2, <1>3

\* The thread with a sensitivity list calls the wait() of its unit. The class is
\* closed by then: one level less, and one less is taken off.
LEMMA CloseExplained ==
  ASSUME IInv, IInv', Typed, CloseProcess
  PROVE  AllExplained(references')
<1>1. frames # <<>> /\ Kind = "PROCESS" /\ classes' = EndClass(classes) /\ frames' = PopFrame
  BY DEF CloseProcess, Closes
<1>2. references' = {} \/ references' = {WaitReference(classes', -1)}
  BY <1>1 DEF CloseProcess, Writes
<1>3. Len(frames) \in Nat /\ Len(frames) > 1 /\ Len(frames') = Len(frames) - 1
  <2>1. Len(frames) \in Nat /\ Len(frames) > 1
    BY <1>1, ProcessIsInside DEF UnitKinds
  <2>2. Len(PopFrame) = Len(frames) - 1
    BY <1>1, FramesHave, FrontIs DEF PopFrame
  <2>3. QED
    BY <1>1, <2>1, <2>2
<1>4. PICK n \in Nat : n = Len(frames') /\ n > 0 /\ Len(frames) = n + 1
  BY <1>3
<1>5. frames' # <<>>
  BY <1>4
<1>6. HierarchyLevel(classes') = n + 1
  BY <1>4, <1>5, LevelsAre DEF IInv
<1>7. ParentPrefix(classes', -1) = n
  <2>1. n + 1 \in Nat /\ -1 \in Int /\ n + 1 + (-1) = n /\ n >= 0
    OBVIOUS
  <2>2. QED
    BY <1>6, <2>1, PrefixIs
<1> DEFINE r == WaitReference(classes', -1)
<1>8. r.at = Here /\ r.to[1] = classes[Here].path[1] /\ r.hops = Len(frames) - 1
  BY <1>4, <1>7 DEF WaitReference
<1> HIDE DEF r
<1>9. Explained(classes, r)
  BY <1>1, <1>8, WaitExplained
<1>10. QED
  BY <1>2, <1>9 DEF AllExplained, r

-----------------------------------------------------------------------------
(* References: the theorems.                                               *)

LEMMA OutermostStep ==
  ASSUME IInv, GrowInv, UnitsOutermost(classes), [Next]_vars
  PROVE  UnitsOutermost(classes')
<1>1. IInv' /\ Grows(classes, classes')
  BY StepKeepsInv, GrowStep
<1>2. /\ Len(classes) \in Nat /\ Len(classes') \in Nat
      /\ \A i \in 1 .. Len(classes) :
           classes'[i].kind = classes[i].kind /\ Depth(classes', i) = Depth(classes, i)
  BY <1>1, SequenceHas DEF IInv, Nested, IsTree, Grows, ClassStays, Depth
<1>3. Len(classes') = Len(classes) \/ FrameAdded
  <2>1. CASE StaysTyped
    BY <2>1, AddsGrows DEF StaysTyped, GrowInv
  <2>2. CASE OpensTyped
    BY <2>2, OpensMove DEF GrowInv
  <2>3. CASE ClosesTyped
    BY <2>3, EndGrows DEF ClosesTyped, IInv
  <2>4. CASE UNCHANGED vars
    BY <2>4 DEF vars
  <2>5. QED
    BY <2>1, <2>2, <2>3, <2>4, StepTyped DEF TypedStep
<1>4. SUFFICES ASSUME NEW i \in 1 .. Len(classes'), classes'[i].kind \in UnitKinds
               PROVE  Depth(classes', i) = 1
  BY DEF UnitsOutermost
<1>5. CASE i \in 1 .. Len(classes)
  BY <1>2, <1>4, <1>5 DEF UnitsOutermost
<1>6. CASE i \notin 1 .. Len(classes)
  <2>1. FrameAdded /\ i = Len(classes) + 1
    BY <1>2, <1>3, <1>6 DEF FrameAdded
  <2> DEFINE n == Len(frames) + 1
  <2>2. n \in 1 .. Len(frames') /\ frames'[n].id = i
    BY <2>1 DEF FrameAdded, FitsNew
  <2>3. classes'[frames'[n].id].kind \in UnitKinds <=> n = 1
    BY <1>1, <2>2 DEF IInv, Nested, IsOpen
  <2>4. n = 1 /\ Depth(classes', i) = n
    BY <1>1, <1>4, <2>2, <2>3, OpenPaths DEF IInv
  <2>5. QED
    BY <2>4
<1>7. QED
  BY <1>5, <1>6

LEMMA ReachStep ==
  ASSUME IInv, GrowInv, ReachInv, [Next]_vars
  PROVE  ReachInv'
<1>1. IInv' /\ Grows(classes, classes') /\ Typed /\ UnitsOutermost(classes)
  BY StepKeepsInv, GrowStep DEF GrowInv, ReachInv
<1>2. AllExplained(references')
  <2>1. CASE references' = {}
    BY <2>1 DEF AllExplained
  <2>2. CASE UNCHANGED vars
    BY <2>2 DEF vars, ReachInv, AllExplained
  <2>3. QED
    BY <1>1, <2>1, <2>2, StepWrites, DeclarationExplained, FactoryExplained,
       GenerateExplained, StatementExplained, AssignmentExplained, ConcurrentExplained,
       CloseExplained
<1>3. \A r \in references' : Explained(classes', r)
  <2>1. IsTree(classes) /\ Len(classes') \in Nat
    BY <1>1, SequenceHas DEF IInv, Nested, IsTree
  <2>2. QED
    BY <1>1, <1>2, <2>1, ExplainedStays DEF AllExplained
<1>4. QED
  BY <1>1, <1>3, OutermostStep DEF ReachInv

LEMMA ReachStart == Init => ReachInv
<1> SUFFICES ASSUME Init PROVE ReachInv
  OBVIOUS
<1>1. classes = Loaded /\ references = {}
  BY DEF Init
<1>2. \A i \in 1 .. Len(Loaded) : Loaded[i].path = <<i>>
  <2>1. DOMAIN Loaded = 1 .. Len(Loaded)
    BY FilesAssumption, LenProperties
  <2>2. QED
    BY <2>1, FilesAssumption
<1>3. \A i : Len(<<i>>) = 1
  OBVIOUS
<1>4. QED
  BY <1>1, <1>2, <1>3 DEF ReachInv, UnitsOutermost, Depth

LEMMA ReachAlways == Spec => []ReachInv
<1>1. AllInv => IInv /\ GrowInv
  BY DEF AllInv
<1>2. IInv /\ GrowInv /\ ReachInv /\ [Next]_vars => ReachInv'
  BY ReachStep
<1>3. QED
  BY <1>1, <1>2, AllAlways, ReachStart, PTL DEF Spec

\* For every set of syntax trees: the prefix of a name that is written into the
\* class at hand, or by a process into the constructor around it, leads to the
\* class that has the name or to one that inherits from it.  There are two
\* exceptions, and no other: isLocal compared a global unit by its name alone, or
\* the process declares the signal itself, as an alias for example.
THEOREM ReferencesAlwaysExplained ==
  Spec => [](\A r \in references : r.how = "here" =>
               \/ Reaches(classes, r)
               \/ OnlyNamedAlike(classes, classes[r.at].path[1], r.to[1])
               \/ NamedFromAround(classes, r))
<1>1. ReachInv => \A r \in references : r.how = "here" =>
                    \/ Reaches(classes, r)
                    \/ OnlyNamedAlike(classes, classes[r.at].path[1], r.to[1])
                    \/ NamedFromAround(classes, r)
  BY DEF ReachInv, Explained
<1>2. QED
  BY <1>1, ReachAlways, PTL

\* The names of the units say what they are: none has the name of a package or an
\* entity that it neither is nor implements.
NamesApart == \A i, j \in Positions : ~OnlyNamedAlike(classes, i, j)

\* Signals are declared outside of processes, and so are their aliases.
SignalsOutside ==
  \A i \in Positions : classes[i].kind = "PROCESS" =>
    \A n \in DOMAIN classes[i].names : classes[i].names[n].kind \notin {"SIGNAL", "PORT"}

\* What is left without the exceptions is ReferencesReach: getParentPrefix is right
\* for every name of every file in which neither of them happens.
THEOREM ReferencesAlwaysReach ==
  Spec => [](NamesApart /\ SignalsOutside => ReferencesReach)
<1>1. ASSUME IInv, ReachInv, NamesApart, SignalsOutside, NEW r \in references, r.how = "here"
      PROVE  Reaches(classes, r)
  <2>1. Explained(classes, r)
    BY <1>1 DEF ReachInv
  <2>2. r.at \in Positions /\ r.to[1] \in Positions
    BY <2>1 DEF Explained, Positions
  <2>3. classes[r.at].path[1] \in Positions
    <3>1. /\ classes[r.at].path \in Seq(1 .. r.at) /\ classes[r.at].path # <<>>
      BY <1>1, <2>2 DEF IInv, Nested, IsTree, ClassOK, Positions
    <3>2. PICK p \in Seq(1 .. r.at) : p = classes[r.at].path /\ p # <<>>
      BY <3>1
    <3>3. Len(p) \in Nat \ {0} /\ \A n \in 1 .. Len(p) : p[n] \in 1 .. r.at
      BY <3>2, LenProperties, EmptySeq
    <3>4. p[1] \in 1 .. r.at
      BY <3>3
    <3>5. 1 .. r.at \subseteq Positions
      BY <1>1, <2>2, FramesHave DEF Positions
    <3>6. QED
      BY <3>2, <3>4, <3>5
  <2>4. ~OnlyNamedAlike(classes, classes[r.at].path[1], r.to[1])
    BY <1>1, <2>2, <2>3 DEF NamesApart
  <2>5. ~NamedFromAround(classes, r)
    BY <1>1, <2>2 DEF SignalsOutside, NamedFromAround, EntryOf
  <2>6. QED
    BY <1>1, <2>1, <2>4, <2>5 DEF Explained
<1>2. IInv /\ ReachInv => (NamesApart /\ SignalsOutside => ReferencesReach)
  BY <1>1 DEF ReferencesReach
<1>3. QED
  BY <1>2, InvAlways, ReachAlways, PTL
=============================================================================
