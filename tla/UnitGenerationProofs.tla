------------------------ MODULE UnitGenerationProofs ------------------------
(***************************************************************************)
(* Proofs about UnitGeneration, for every set of syntax trees.             *)
(*                                                                         *)
(* The class tree and the stack of calls are tied together by the relation *)
(* Nested.  Each step does one of three things to them: it keeps the open  *)
(* classes, opens a class in the innermost of them, or closes that one.    *)
(***************************************************************************)
EXTENDS UnitGeneration, SequenceFacts

-----------------------------------------------------------------------------
(* The class tree and the stack of calls.                                  *)

FrameFields == {"id", "node", "phase", "decls", "stmts", "conc", "ready",
                "instances", "signals"}
IsFrame(f)  == /\ f = [x \in FrameFields |-> f[x]]
               /\ f.decls \in Seq(Declarations) /\ f.conc \in Seq(Concurrents)
IsStack(fs) == IsSequence(fs) /\ \A k \in 1 .. Len(fs) : IsFrame(fs[k])

ClassOK(t, i) ==
  /\ t[i].active \in BOOLEAN
  /\ t[i].path \in Seq(1 .. i) /\ t[i].path # <<>>
  /\ t[i].path[Len(t[i].path)] = i
  /\ IsSequence(t[i].names)

IsTree(t) == IsSequence(t) /\ \A i \in 1 .. Len(t) : ClassOK(t, i)

\* The class of the frame k is open, below those of the frames before it, and
\* the last child there.
IsOpen(t, fs, k) ==
  /\ fs[k].id \in 1 .. Len(t)
  /\ t[fs[k].id].path = [j \in 1 .. k |-> fs[j].id]
  /\ t[fs[k].id].active
  /\ t[fs[k].id].kind \in UnitKinds <=> k = 1
  /\ IsLastChild(t, fs[k].id)

Nested(t, fs) ==
  /\ IsTree(t) /\ IsStack(fs)
  /\ \A k \in 1 .. Len(fs) : IsOpen(t, fs, k)
  /\ \A i \in 1 .. Len(t) : t[i].active => \E k \in 1 .. Len(fs) : fs[k].id = i

\* The path of an open class, and that no class is opened twice.
LEMMA OpenPaths ==
  ASSUME NEW t, NEW fs, Nested(t, fs)
  PROVE  /\ Len(fs) \in Nat /\ Len(t) \in Nat /\ DOMAIN t = 1 .. Len(t)
         /\ \A k \in 1 .. Len(fs) :
              /\ Depth(t, fs[k].id) = k
              /\ DOMAIN t[fs[k].id].path = 1 .. k
              /\ \A j \in 1 .. k : t[fs[k].id].path[j] = fs[j].id
         /\ \A k, l \in 1 .. Len(fs) : fs[k].id = fs[l].id => k = l
<1>1. Len(fs) \in Nat /\ Len(t) \in Nat /\ DOMAIN t = 1 .. Len(t)
  BY SequenceHas DEF Nested, IsTree, IsStack
<1>2. ASSUME NEW k \in 1 .. Len(fs)
      PROVE  /\ Depth(t, fs[k].id) = k
             /\ DOMAIN t[fs[k].id].path = 1 .. k
             /\ \A j \in 1 .. k : t[fs[k].id].path[j] = fs[j].id
  <2> DEFINE p == t[fs[k].id].path
  <2>1. p = [j \in 1 .. k |-> fs[j].id] /\ fs[k].id \in 1 .. Len(t)
    BY DEF Nested, IsOpen
  <2>2. p \in Seq(1 .. fs[k].id)
    BY <2>1 DEF Nested, IsTree, ClassOK
  <2>3. DOMAIN p = 1 .. Len(p) /\ Len(p) \in Nat
    BY <2>2, LenProperties
  <2>4. DOMAIN p = 1 .. k /\ k \in Nat
    BY <1>1, <2>1
  <2>5. Len(p) = k
    BY <2>3, <2>4, UpToEqual
  <2>6. QED
    BY <2>1, <2>4, <2>5 DEF Depth
<1>3. QED
  BY <1>1, <1>2

LEMMA ChainIsOpen ==
  ASSUME NEW t, NEW fs, Nested(t, fs)
  PROVE  Chain(t) = {fs[k].id : k \in 1 .. Len(fs)}
<1>1. ASSUME NEW i \in Chain(t)
      PROVE  \E k \in 1 .. Len(fs) : fs[k].id = i
  <2>1. i \in 1 .. Len(t)
    BY OpenPaths DEF Chain
  <2>2. Len(t[i].path) \in DOMAIN t[i].path /\ t[i].path[Len(t[i].path)] = i
    BY <2>1, EmptySeq, LenProperties DEF Nested, IsTree, ClassOK
  <2>3. t[i].active
    BY <2>2 DEF Chain
  <2>4. QED
    BY <2>1, <2>3 DEF Nested
<1>2. ASSUME NEW k \in 1 .. Len(fs)
      PROVE  fs[k].id \in Chain(t)
  <2>1. fs[k].id \in DOMAIN t
    BY OpenPaths DEF Nested, IsOpen
  <2>2. ASSUME NEW j \in DOMAIN t[fs[k].id].path
        PROVE  t[t[fs[k].id].path[j]].active /\ IsLastChild(t, t[fs[k].id].path[j])
    <3>1. j \in 1 .. k /\ t[fs[k].id].path[j] = fs[j].id /\ j \in 1 .. Len(fs)
      BY OpenPaths
    <3>2. QED
      BY <3>1 DEF Nested, IsOpen
  <2>3. QED
    BY <2>1, <2>2 DEF Chain
<1>3. QED
  BY <1>1, <1>2

LEMMA CurrentIsTop ==
  ASSUME NEW t, NEW fs, Nested(t, fs), fs # <<>>
  PROVE  /\ Len(fs) \in Nat \ {0}
         /\ Current(t) = fs[Len(fs)].id
         /\ CurrentPath(t) = t[fs[Len(fs)].id].path
<1> DEFINE n == Len(fs)
           top == fs[n].id
           Deepest(i) == \A j \in Chain(t) : Depth(t, j) <= Depth(t, i)
<1>1. n \in Nat \ {0}
  BY FrontIs DEF Nested, IsStack
<1>2. Chain(t) = {fs[k].id : k \in 1 .. n}
  BY ChainIsOpen
<1>3. \A k \in 1 .. n : Depth(t, fs[k].id) = k
  BY OpenPaths
<1>4. top \in Chain(t) /\ Deepest(top)
  BY <1>1, <1>2, <1>3
<1>5. \A i \in Chain(t) : Deepest(i) => i = top
  <2>1. SUFFICES ASSUME NEW k \in 1 .. n, Deepest(fs[k].id)
                 PROVE  fs[k].id = top
    BY <1>2
  <2>2. Depth(t, top) <= Depth(t, fs[k].id)
    BY <1>4, <2>1
  <2>3. n <= k
    BY <1>1, <1>3, <2>2
  <2>4. QED
    BY <1>1, <2>3
<1>6. Current(t) = CHOOSE i \in Chain(t) : Deepest(i)
  BY <1>4 DEF Current
<1>7. Current(t) = top
  BY <1>4, <1>5, <1>6
<1>8. QED
  BY <1>1, <1>4, <1>7 DEF CurrentPath

LEMMA NothingOpen ==
  ASSUME NEW t, NEW fs, Nested(t, fs), fs = <<>>
  PROVE  Chain(t) = {} /\ CurrentPath(t) = <<>>
<1>1. Len(fs) = 0
  BY EmptySeq
<1>2. Chain(t) = {}
  BY <1>1, ChainIsOpen
<1>3. QED
  BY <1>2 DEF CurrentPath
-----------------------------------------------------------------------------
(* The three things that a step does to the classes.                       *)

\* A change of names and activity leaves the shape of the tree.
SameShape(t, u) ==
  /\ IsSequence(u) /\ Len(u) = Len(t)
  /\ \A i \in 1 .. Len(t) :
       /\ u[i].path = t[i].path /\ u[i].kind = t[i].kind
       /\ u[i].active \in BOOLEAN /\ IsSequence(u[i].names)

LEMMA ShapeKeepsTree ==
  ASSUME NEW t, NEW u, IsTree(t), SameShape(t, u)
  PROVE  /\ IsTree(u)
         /\ \A i \in 1 .. Len(t) : IsLastChild(t, i) => IsLastChild(u, i)
<1>1. IsTree(u)
  BY DEF IsTree, SameShape, ClassOK
<1>2. DOMAIN t = 1 .. Len(t) /\ DOMAIN u = 1 .. Len(t)
  BY SequenceHas DEF IsTree, SameShape
<1>3. \A i \in 1 .. Len(t) : Around(u, i) = Around(t, i)
  BY DEF Around, SameShape
<1>4. QED
  BY <1>1, <1>2, <1>3 DEF IsLastChild

LEMMA ConcatIs ==
  ASSUME NEW s, NEW r, IsSequence(s), IsSequence(r)
  PROVE  /\ IsSequence(s \o r)
         /\ {s[n] : n \in DOMAIN s} \subseteq {(s \o r)[n] : n \in DOMAIN (s \o r)}
<1> DEFINE R == {s[i] : i \in DOMAIN s} \cup {r[i] : i \in DOMAIN r}
<1>1. s \in Seq(R) /\ r \in Seq(R)
  BY SeqMonotonic DEF IsSequence
<1> HIDE DEF R
<1>2. /\ s \o r \in Seq(R) /\ Len(s \o r) = Len(s) + Len(r)
      /\ \A i \in 1 .. Len(s) + Len(r) :
           (s \o r)[i] = IF i <= Len(s) THEN s[i] ELSE r[i - Len(s)]
  BY <1>1, ConcatProperties
<1>3. IsSequence(s \o r)
  BY <1>2, SequenceIs
<1>4. /\ DOMAIN s = 1 .. Len(s) /\ Len(s) \in Nat /\ Len(r) \in Nat
      /\ DOMAIN (s \o r) = 1 .. Len(s \o r)
  BY <1>3, SequenceHas
<1>5. \A n \in DOMAIN s : n \in DOMAIN (s \o r) /\ (s \o r)[n] = s[n]
  BY <1>2, <1>4
<1>6. QED
  BY <1>3, <1>5

\* What WithNames makes of a class.
LEMMA WithNamesIs ==
  ASSUME NEW c, NEW active \in BOOLEAN, NEW es, IsSequence(es), IsSequence(c.names)
  PROVE  LET d == WithNames(c, active, es)
         IN  /\ d.path = c.path /\ d.kind = c.kind /\ d.active = active
             /\ d.names = c.names \o es /\ IsSequence(d.names)
BY ConcatIs DEF WithNames

\* The innermost open class gets more names, and nothing else changes.
LEMMA AddKeeps ==
  ASSUME NEW t, NEW fs, Nested(t, fs), fs # <<>>, NEW es, IsSequence(es)
  PROVE  /\ Nested(AddEntries(t, es), fs)
         /\ Len(AddEntries(t, es)) = Len(t)
         /\ \A i \in 1 .. Len(t) :
              AddEntries(t, es)[i].names =
                IF i = fs[Len(fs)].id THEN t[i].names \o es ELSE t[i].names
<1> DEFINE top == fs[Len(fs)].id
           u   == AddEntries(t, es)
           d   == WithNames(t[top], TRUE, es)
<1>1. /\ Current(t) = top /\ Len(fs) \in 1 .. Len(fs)
      /\ top \in 1 .. Len(t) /\ t[top].active
  <2>1. Current(t) = top /\ Len(fs) \in 1 .. Len(fs)
    BY CurrentIsTop
  <2>2. QED
    BY <2>1 DEF Nested, IsOpen
<1>2. IsTree(t) /\ IsSequence(t) /\ \A i \in 1 .. Len(t) : ClassOK(t, i)
  BY DEF Nested, IsTree
<1>3. /\ d.path = t[top].path /\ d.kind = t[top].kind /\ d.active = TRUE
      /\ d.names = t[top].names \o es /\ IsSequence(d.names)
  BY <1>1, <1>2, WithNamesIs DEF ClassOK
<1>4. u = [t EXCEPT ![top] = d]
  BY <1>1 DEF AddEntries
<1> HIDE DEF d, u, top
<1>5. /\ IsSequence(u) /\ Len(u) = Len(t)
      /\ \A j \in 1 .. Len(t) : u[j] = IF j = top THEN d ELSE t[j]
  <2>1. top \in 1 .. Len(t) /\ IsSequence(t)
    BY <1>1, <1>2
  <2>2. /\ IsSequence([t EXCEPT ![top] = d]) /\ Len([t EXCEPT ![top] = d]) = Len(t)
        /\ \A j \in 1 .. Len(t) : [t EXCEPT ![top] = d][j] = IF j = top THEN d ELSE t[j]
    BY <2>1, ExceptIs
  <2>3. QED
    BY <1>4, <2>2
<1>6. SameShape(t, u)
  BY <1>2, <1>3, <1>5 DEF SameShape, ClassOK
<1>7. \A i \in 1 .. Len(t) : u[i].active = t[i].active
  BY <1>1, <1>2, <1>3, <1>5 DEF ClassOK
<1>8. Nested(u, fs)
  <2>1. IsTree(u) /\ IsStack(fs)
    BY <1>2, <1>6, ShapeKeepsTree DEF Nested
  <2>2. \A k \in 1 .. Len(fs) : IsOpen(u, fs, k)
    BY <1>2, <1>5, <1>6, <1>7, ShapeKeepsTree DEF Nested, IsOpen, SameShape
  <2>3. QED
    BY <1>5, <1>7, <2>1, <2>2 DEF Nested
<1>9. QED
  BY <1>3, <1>5, <1>8 DEF u, top

\* A frame is replaced by one of the same class.
LEMMA ReplaceKeeps ==
  ASSUME NEW t, NEW fs, Nested(t, fs), fs # <<>>, NEW f, IsFrame(f),
         f.id = fs[Len(fs)].id
  PROVE  /\ Nested(t, ReplaceTop(fs, f)) /\ ReplaceTop(fs, f) # <<>>
         /\ Len(ReplaceTop(fs, f)) = Len(fs)
         /\ \A k \in 1 .. Len(fs) : ReplaceTop(fs, f)[k] = IF k = Len(fs) THEN f ELSE fs[k]
         /\ \A k \in 1 .. Len(fs) : ReplaceTop(fs, f)[k].id = fs[k].id
<1> DEFINE gs == ReplaceTop(fs, f)
<1>1. Len(fs) \in Nat \ {0} /\ Len(fs) \in 1 .. Len(fs) /\ IsSequence(fs)
  BY CurrentIsTop DEF Nested, IsStack
<1>2. /\ IsSequence(gs) /\ Len(gs) = Len(fs)
      /\ \A k \in 1 .. Len(fs) : gs[k] = IF k = Len(fs) THEN f ELSE fs[k]
  BY <1>1, ExceptIs DEF ReplaceTop
<1> HIDE DEF gs
<1>3. \A k \in 1 .. Len(fs) : gs[k].id = fs[k].id
  BY <1>2
<1>4. gs # <<>>
  BY <1>1, <1>2, EmptySeq
<1>5. IsStack(gs)
  BY <1>2 DEF IsStack, Nested
<1>6. \A k \in 1 .. Len(fs) :
        [j \in 1 .. k |-> gs[j].id] = [j \in 1 .. k |-> fs[j].id]
  BY <1>1, <1>3
<1>7. \A k \in 1 .. Len(fs) : IsOpen(t, gs, k)
  BY <1>3, <1>6 DEF Nested, IsOpen
<1>8. Nested(t, gs)
  BY <1>2, <1>3, <1>5, <1>7 DEF Nested
<1>9. QED
  BY <1>2, <1>3, <1>4, <1>8 DEF gs

LEMMA PathOfCurrent ==
  ASSUME NEW t, NEW fs, Nested(t, fs)
  PROVE  /\ CurrentPath(t) \in Seq(1 .. Len(t))
         /\ Len(CurrentPath(t)) = Len(fs)
         /\ \A j \in 1 .. Len(fs) : CurrentPath(t)[j] = fs[j].id
<1>0. Len(t) \in Nat
  BY OpenPaths
<1>1. CASE fs = <<>>
  <2>1. CurrentPath(t) = <<>> /\ Len(fs) = 0
    BY <1>1, NothingOpen, EmptySeq
  <2>2. QED
    BY <2>1, EmptySeq
<1>2. CASE fs # <<>>
  <2> DEFINE n == Len(fs)
             p == t[fs[n].id].path
  <2>1. CurrentPath(t) = p /\ n \in 1 .. n
    BY <1>2, CurrentIsTop
  <2>2. Len(p) = n /\ \A j \in 1 .. n : p[j] = fs[j].id
    BY <2>1, OpenPaths DEF Depth
  <2>3. fs[n].id \in 1 .. Len(t)
    BY <2>1 DEF Nested, IsOpen
  <2>4. p \in Seq(1 .. fs[n].id)
    BY <2>3 DEF Nested, IsTree, ClassOK
  <2>5. 1 .. fs[n].id \subseteq 1 .. Len(t)
    BY <1>0, <2>3
  <2>6. p \in Seq(1 .. Len(t))
    BY <2>4, <2>5, SeqMonotonic
  <2>7. QED
    BY <2>1, <2>2, <2>6
<1>3. QED
  BY <1>1, <1>2

LEMMA AroundLength ==
  ASSUME NEW S, NEW p \in Seq(S), p # <<>>
  PROVE  Len(SubSeq(p, 1, Len(p) - 1)) = Len(p) - 1 /\ Len(p) \in Nat \ {0}
BY SequenceIs, FrontIs

\* A new class is opened in the innermost of the open ones.
LEMMA OpenNests ==
  ASSUME NEW t, NEW fs, Nested(t, fs), NEW kind, NEW name, NEW base,
         NEW f, IsFrame(f), f.id = Len(t) + 1,
         kind \in UnitKinds <=> fs = <<>>
  PROVE  LET u == NewClass(t, kind, name, base)
         IN  /\ Nested(u, Append(fs, f))
             /\ Len(u) = Len(t) + 1 /\ \A i \in 1 .. Len(t) : u[i] = t[i]
             /\ u[Len(t) + 1].kind = kind /\ u[Len(t) + 1].names = <<>>
<1> DEFINE u  == NewClass(t, kind, name, base)
           gs == Append(fs, f)
           p  == CurrentPath(t)
           n  == Len(fs)
           N  == Len(t)
           q  == Append(p, N + 1)
           c  == [kind |-> kind, name |-> name, base |-> base, path |-> q,
                  active |-> TRUE, names |-> <<>>]
<1>1. n \in Nat /\ N \in Nat /\ IsSequence(t) /\ IsStack(fs) /\ IsSequence(fs)
  BY OpenPaths DEF Nested, IsTree, IsStack
<1>2. p \in Seq(1 .. N) /\ Len(p) = n /\ \A j \in 1 .. n : p[j] = fs[j].id
  BY PathOfCurrent
<1>3. u = Append(t, c)
  BY DEF NewClass
<1> HIDE DEF p
<1>4. /\ q \in Seq(1 .. N + 1) /\ q # <<>> /\ Len(q) = n + 1 /\ q[n + 1] = N + 1
      /\ \A j \in 1 .. n : q[j] = fs[j].id
  <2>1. p \in Seq(1 .. N + 1) /\ N + 1 \in 1 .. N + 1
    <3>1. 1 .. N \subseteq 1 .. N + 1 /\ N + 1 \in 1 .. N + 1
      BY <1>1
    <3>2. QED
      BY <1>2, <3>1, SeqMonotonic
  <2>2. QED
    BY <1>2, <2>1, AppendProperties
<1> HIDE DEF q
<1>5. /\ c.kind = kind /\ c.path = q /\ c.active = TRUE /\ c.names = <<>>
  OBVIOUS
<1> HIDE DEF c, u
<1>6. /\ IsSequence(u) /\ Len(u) = N + 1 /\ u[N + 1] = c
      /\ \A i \in 1 .. N : u[i] = t[i]
  BY <1>1, <1>3, AppendIs
<1>7. /\ IsSequence(gs) /\ Len(gs) = n + 1 /\ gs[n + 1] = f
      /\ \A k \in 1 .. n : gs[k] = fs[k]
  BY <1>1, AppendIs
<1> HIDE DEF gs
<1>8. IsTree(u)
  <2>1. ASSUME NEW i \in 1 .. N
        PROVE  ClassOK(u, i)
    BY <1>6 DEF Nested, IsTree, ClassOK
  <2>2. ClassOK(u, N + 1)
    <3>1. IsSequence(<<>>)
      BY EmptySeq, SequenceIs
    <3>2. QED
      BY <1>4, <1>5, <1>6, <3>1 DEF ClassOK
  <2>3. \A i \in 1 .. Len(u) : i \in 1 .. N \/ i = N + 1
    BY <1>1, <1>6
  <2>4. QED
    BY <1>6, <2>1, <2>2, <2>3 DEF IsTree
<1>9. IsStack(gs)
  <2>1. \A k \in 1 .. Len(gs) : k \in 1 .. n \/ k = n + 1
    BY <1>1, <1>7
  <2>2. QED
    BY <1>1, <1>7, <2>1 DEF IsStack
<1>10. DOMAIN u = 1 .. N + 1 /\ DOMAIN t = 1 .. N
  BY <1>1, <1>6, SequenceHas
<1>11. ASSUME NEW k \in 1 .. n
       PROVE  IsOpen(u, gs, k)
  <2> DEFINE i == fs[k].id
  <2>1. i \in 1 .. N /\ gs[k].id = i /\ u[i] = t[i] /\ IsOpen(t, fs, k)
    BY <1>6, <1>7 DEF Nested, IsOpen
  <2>2. [j \in 1 .. k |-> gs[j].id] = [j \in 1 .. k |-> fs[j].id]
    BY <1>1, <1>7
  <2>3. Len(Around(u, i)) = k - 1
    <3>1. Len(t[i].path) = k
      BY OpenPaths DEF Depth
    <3>2. t[i].path \in Seq(1 .. i) /\ t[i].path # <<>>
      BY <2>1 DEF Nested, IsTree, ClassOK
    <3>3. QED
      BY <2>1, <3>1, <3>2, AroundLength DEF Around
  <2>4. Len(Around(u, N + 1)) = n
    <3>1. Len(SubSeq(q, 1, Len(q) - 1)) = Len(q) - 1
      BY <1>4, AroundLength
    <3>2. QED
      BY <1>1, <1>4, <1>5, <1>6, <3>1 DEF Around
  <2>5. Around(u, N + 1) # Around(u, i)
    BY <1>1, <2>3, <2>4
  <2>6. IsLastChild(u, i)
    <3>1. \A j \in 1 .. N : Around(u, j) = Around(t, j)
      BY <1>6 DEF Around
    <3>2. \A j \in DOMAIN u : j \in 1 .. N \/ j = N + 1
      BY <1>1, <1>10
    <3>3. IsLastChild(t, i)
      BY <2>1 DEF IsOpen
    <3>4. QED
      BY <1>10, <2>1, <2>5, <3>1, <3>2, <3>3 DEF IsLastChild
  <2>7. i \in 1 .. Len(u)
    BY <1>1, <1>6, <2>1
  <2> HIDE DEF i
  <2>8. QED
    BY <2>1, <2>2, <2>6, <2>7 DEF IsOpen, i
<1>12. IsOpen(u, gs, n + 1)
  <2>1. gs[n + 1].id = N + 1 /\ N + 1 \in 1 .. Len(u)
    BY <1>1, <1>6, <1>7
  <2>2. u[N + 1].path = [j \in 1 .. n + 1 |-> gs[j].id]
    <3>1. DOMAIN q = 1 .. n + 1 /\ q = [j \in 1 .. n + 1 |-> q[j]]
      BY <1>4, LenProperties
    <3>2. \A j \in 1 .. n + 1 : q[j] = gs[j].id
      <4>1. \A j \in 1 .. n + 1 : j \in 1 .. n \/ j = n + 1
        BY <1>1
      <4>2. QED
        BY <1>4, <1>7, <4>1
    <3>3. QED
      BY <1>5, <1>6, <3>1, <3>2
  <2>3. IsLastChild(u, N + 1)
    BY <1>1, <1>10 DEF IsLastChild
  <2>4. n + 1 = 1 <=> fs = <<>>
    BY <1>1, EmptySeq DEF IsSequence
  <2>5. QED
    BY <1>5, <1>6, <2>1, <2>2, <2>3, <2>4 DEF IsOpen
<1>13. \A i \in 1 .. Len(u) : u[i].active => \E k \in 1 .. Len(gs) : gs[k].id = i
  <2>1. ASSUME NEW i \in 1 .. N, u[i].active
        PROVE  \E k \in 1 .. n : gs[k].id = i
    BY <1>6, <1>7, <2>1 DEF Nested
  <2>2. \A i \in 1 .. Len(u) : i \in 1 .. N \/ i = N + 1
    BY <1>1, <1>6
  <2>3. n + 1 \in 1 .. Len(gs) /\ \A k \in 1 .. n : k \in 1 .. Len(gs)
    BY <1>1, <1>7
  <2>4. QED
    BY <1>7, <2>1, <2>2, <2>3
<1>14. Nested(u, gs)
  <2>1. \A k \in 1 .. Len(gs) : k \in 1 .. n \/ k = n + 1
    BY <1>1, <1>7
  <2>2. QED
    BY <1>8, <1>9, <1>11, <1>12, <1>13, <2>1 DEF Nested
<1>15. QED
  BY <1>5, <1>6, <1>14 DEF u, gs

\* The innermost open class is closed.
LEMMA CloseNests ==
  ASSUME NEW t, NEW fs, Nested(t, fs), fs # <<>>
  PROVE  LET gs == SubSeq(fs, 1, Len(fs) - 1)
         IN  /\ Nested(EndClass(t), gs)
             /\ Len(EndClass(t)) = Len(t)
             /\ \A i \in 1 .. Len(t) : /\ EndClass(t)[i].names = t[i].names
                                       /\ EndClass(t)[i].kind = t[i].kind
             /\ Len(gs) = Len(fs) - 1
             /\ \A k \in 1 .. Len(fs) - 1 : gs[k] = fs[k]
<1> DEFINE n   == Len(fs)
           top == fs[n].id
           u   == EndClass(t)
           gs  == SubSeq(fs, 1, n - 1)
           d   == WithNames(t[top], FALSE, <<>>)
<1>1. /\ Current(t) = top /\ n \in Nat \ {0} /\ n \in 1 .. n
      /\ top \in 1 .. Len(t)
  <2>1. Current(t) = top /\ n \in Nat \ {0} /\ n \in 1 .. n
    BY CurrentIsTop
  <2>2. QED
    BY <2>1 DEF Nested, IsOpen
<1>2. IsTree(t) /\ IsSequence(t) /\ (\A i \in 1 .. Len(t) : ClassOK(t, i)) /\ IsStack(fs)
  BY DEF Nested, IsTree
<1>3. d.path = t[top].path /\ d.kind = t[top].kind /\ d.active = FALSE
  BY DEF WithNames
<1>4. d.names = t[top].names
  <2>1. d.names = t[top].names \o <<>>
    BY DEF WithNames
  <2>2. IsSequence(t[top].names)
    BY <1>1, <1>2 DEF ClassOK
  <2>3. QED
    BY <2>1, <2>2, ConcatEmptySeq DEF IsSequence
<1>5. u = [t EXCEPT ![top] = d]
  BY <1>1 DEF EndClass
<1> HIDE DEF d, u, top
<1>6. /\ IsSequence(u) /\ Len(u) = Len(t)
      /\ \A j \in 1 .. Len(t) : u[j] = IF j = top THEN d ELSE t[j]
  <2>1. top \in 1 .. Len(t) /\ IsSequence(t)
    BY <1>1, <1>2
  <2>2. /\ IsSequence([t EXCEPT ![top] = d]) /\ Len([t EXCEPT ![top] = d]) = Len(t)
        /\ \A j \in 1 .. Len(t) : [t EXCEPT ![top] = d][j] = IF j = top THEN d ELSE t[j]
    BY <2>1, ExceptIs
  <2>3. QED
    BY <1>5, <2>2
<1>7. SameShape(t, u)
  <2>1. ASSUME NEW i \in 1 .. Len(t)
        PROVE  /\ u[i].path = t[i].path /\ u[i].kind = t[i].kind
               /\ u[i].active \in BOOLEAN /\ IsSequence(u[i].names)
    BY <1>2, <1>3, <1>4, <1>6 DEF ClassOK
  <2>2. QED
    BY <1>6, <2>1 DEF SameShape
<1>8. \A i \in 1 .. Len(t) : u[i].active <=> t[i].active /\ i # top
  BY <1>2, <1>3, <1>6 DEF ClassOK
<1>9. /\ IsSequence(gs) /\ Len(gs) = n - 1 /\ \A k \in 1 .. n - 1 : gs[k] = fs[k]
  <2>1. IsSequence(fs)
    BY <1>2 DEF IsStack
  <2>2. QED
    BY <2>1, FrontIs
<1> HIDE DEF gs
<1>10. IsTree(u) /\ IsStack(gs)
  <2>1. IsTree(u)
    BY <1>2, <1>7, ShapeKeepsTree
  <2>2. \A k \in 1 .. n - 1 : k \in 1 .. n
    BY <1>1
  <2>3. QED
    BY <1>2, <1>9, <2>1, <2>2 DEF IsStack
<1>11. ASSUME NEW k \in 1 .. n - 1
       PROVE  IsOpen(u, gs, k)
  <2>1. k \in 1 .. n /\ k # n /\ IsOpen(t, fs, k) /\ gs[k].id = fs[k].id
    BY <1>1, <1>9 DEF Nested
  <2>2. fs[k].id # top
    BY <1>1, <2>1, OpenPaths DEF top
  <2>3. [j \in 1 .. k |-> gs[j].id] = [j \in 1 .. k |-> fs[j].id]
    BY <1>1, <1>9
  <2>4. IsLastChild(u, fs[k].id)
    BY <1>2, <1>7, <2>1, ShapeKeepsTree DEF IsOpen
  <2>5. QED
    BY <1>6, <1>7, <1>8, <2>1, <2>2, <2>3, <2>4 DEF IsOpen, SameShape
<1>12. \A i \in 1 .. Len(u) : u[i].active => \E k \in 1 .. Len(gs) : gs[k].id = i
  <2>1. ASSUME NEW i \in 1 .. Len(t), t[i].active, i # top
        PROVE  \E k \in 1 .. n - 1 : gs[k].id = i
    <3>1. PICK k \in 1 .. n : fs[k].id = i
      BY <2>1 DEF Nested
    <3>2. k # n
      BY <2>1, <3>1 DEF top
    <3>3. k \in 1 .. n - 1
      BY <1>1, <3>2
    <3>4. QED
      BY <1>9, <3>1, <3>3
  <2>2. QED
    BY <1>6, <1>8, <1>9, <2>1
<1>13. Nested(u, gs)
  BY <1>9, <1>10, <1>11, <1>12 DEF Nested
<1>14. QED
  BY <1>3, <1>4, <1>6, <1>9, <1>13 DEF u, gs
-----------------------------------------------------------------------------
(* What is left of a frame after its item at hand.                         *)

LEMMA DeclDoneIs ==
  ASSUME NEW f, IsFrame(f), f.decls # <<>>
  PROVE  IsFrame(DeclDone(f)) /\ DeclDone(f).id = f.id
<1>1. Tail(f.decls) \in Seq(Declarations)
  BY HeadTailProperties DEF IsFrame
<1>2. QED
  BY <1>1 DEF IsFrame, FrameFields, DeclDone

LEMMA ConcDoneIs ==
  ASSUME NEW f, IsFrame(f), f.conc # <<>>
  PROVE  IsFrame(ConcDone(f)) /\ ConcDone(f).id = f.id
<1>1. Tail(f.conc) \in Seq(Concurrents)
  BY HeadTailProperties DEF IsFrame
<1>2. QED
  BY <1>1 DEF IsFrame, FrameFields, ConcDone

LEMMA StmtDoneIs ==
  ASSUME NEW f, IsFrame(f)
  PROVE  IsFrame(StmtDone(f)) /\ StmtDone(f).id = f.id
BY DEF IsFrame, FrameFields, StmtDone

LEMMA IntoIs ==
  ASSUME NEW f, IsFrame(f), NEW body
  PROVE  IsFrame(Into(f, body)) /\ Into(f, body).id = f.id
BY DEF IsFrame, FrameFields, Into

LEMMA ReadyIs ==
  ASSUME NEW f, IsFrame(f)
  PROVE  IsFrame(Ready(f)) /\ Ready(f).id = f.id
BY DEF IsFrame, FrameFields, Ready

LEMMA EnterIs ==
  ASSUME NEW f, IsFrame(f), NEW phase
  PROVE  IsFrame(Enter(f, phase)) /\ Enter(f, phase).id = f.id
BY DEF IsFrame, FrameFields, Enter

LEMMA WithSignalsIs ==
  ASSUME NEW f, IsFrame(f), NEW ms
  PROVE  IsFrame(WithSignals(f, ms)) /\ WithSignals(f, ms).id = f.id
BY DEF IsFrame, FrameFields, WithSignals

LEMMA InstancesIs ==
  ASSUME NEW f, IsFrame(f), NEW is
  PROVE  /\ IsFrame([f EXCEPT !.instances = is])
         /\ [f EXCEPT !.instances = is].id = f.id
BY DEF IsFrame, FrameFields

LEMMA NewFrameIs ==
  ASSUME NEW node, NEW decls \in Seq(Declarations), NEW stmts,
         NEW conc \in Seq(Concurrents), NEW signals
  PROVE  /\ IsFrame(NewFrame(node, decls, stmts, conc, signals))
         /\ NewFrame(node, decls, stmts, conc, signals).id = Len(classes) + 1
BY DEF IsFrame, FrameFields, NewFrame
-----------------------------------------------------------------------------
(* The same three things with the scopes of the open classes.              *)

Declared(t, i) == {t[i].names[n] : n \in DOMAIN t[i].names}

\* The classes that stay open keep what is declared in them, but for the
\* innermost one, which may get more.
ScopesKept(t, fs, u, gs) ==
  /\ Nested(u, gs)
  /\ \A k \in 1 .. Len(fs) :
       /\ gs[k].id = fs[k].id
       /\ k # Len(fs) => Declared(u, fs[k].id) = Declared(t, fs[k].id)
       /\ Declared(t, fs[k].id) \subseteq Declared(u, fs[k].id)

Keeps(t, fs, u, gs) ==
  /\ ScopesKept(t, fs, u, gs) /\ Len(gs) = Len(fs) /\ Len(u) = Len(t)

Opens(t, fs, u, gs) ==
  /\ ScopesKept(t, fs, u, gs) /\ Len(gs) = Len(fs) + 1
  /\ Declared(u, gs[Len(gs)].id) = {}

Shuts(t, fs, u, gs) ==
  /\ fs # <<>> /\ Len(gs) = Len(fs) - 1
  /\ Nested(u, gs)
  /\ \A k \in 1 .. Len(gs) :
       gs[k].id = fs[k].id /\ Declared(u, fs[k].id) = Declared(t, fs[k].id)

LEMMA KeepsNothing ==
  ASSUME NEW t, NEW fs, Nested(t, fs)
  PROVE  Keeps(t, fs, t, fs)
BY OpenPaths DEF Keeps, ScopesKept

LEMMA KeepsReplaced ==
  ASSUME NEW t, NEW fs, NEW u, Keeps(t, fs, u, fs), fs # <<>>,
         NEW f, IsFrame(f), f.id = fs[Len(fs)].id
  PROVE  Keeps(t, fs, u, ReplaceTop(fs, f)) /\ ReplaceTop(fs, f) # <<>>
<1>1. Nested(u, fs)
  BY DEF Keeps, ScopesKept
<1> DEFINE gs == ReplaceTop(fs, f)
<1>2. /\ Nested(u, gs) /\ gs # <<>> /\ Len(gs) = Len(fs)
      /\ \A k \in 1 .. Len(fs) : gs[k].id = fs[k].id
  BY <1>1, ReplaceKeeps
<1> HIDE DEF gs
<1>3. Keeps(t, fs, u, gs)
  BY <1>2 DEF Keeps, ScopesKept
<1>4. QED
  BY <1>2, <1>3 DEF gs

LEMMA KeepsAdded ==
  ASSUME NEW t, NEW fs, Nested(t, fs), fs # <<>>, NEW es, IsSequence(es)
  PROVE  Keeps(t, fs, AddEntries(t, es), fs)
<1> DEFINE u == AddEntries(t, es)
<1>1. /\ Nested(u, fs) /\ Len(u) = Len(t)
      /\ \A i \in 1 .. Len(t) :
           u[i].names = IF i = fs[Len(fs)].id THEN t[i].names \o es ELSE t[i].names
  BY AddKeeps
<1> HIDE DEF u
<1>2. Len(fs) \in Nat \ {0}
  BY CurrentIsTop
<1>3. ASSUME NEW k \in 1 .. Len(fs)
      PROVE  /\ k # Len(fs) => Declared(u, fs[k].id) = Declared(t, fs[k].id)
             /\ Declared(t, fs[k].id) \subseteq Declared(u, fs[k].id)
  <2>1. fs[k].id \in 1 .. Len(t)
    BY DEF Nested, IsOpen
  <2>2. CASE k # Len(fs)
    <3>1. fs[k].id # fs[Len(fs)].id
      BY <1>2, <2>2, OpenPaths
    <3>2. QED
      BY <1>1, <2>1, <3>1 DEF Declared
  <2>3. CASE k = Len(fs)
    <3>1. u[fs[k].id].names = t[fs[k].id].names \o es
      BY <1>1, <2>1, <2>3
    <3>2. IsSequence(t[fs[k].id].names)
      BY <2>1 DEF Nested, IsTree, ClassOK
    <3>3. {t[fs[k].id].names[n] : n \in DOMAIN t[fs[k].id].names} \subseteq
            {(t[fs[k].id].names \o es)[n] : n \in DOMAIN (t[fs[k].id].names \o es)}
      BY <3>2, ConcatIs
    <3>4. Declared(t, fs[k].id) \subseteq Declared(u, fs[k].id)
      BY <3>1, <3>3 DEF Declared
    <3>5. QED
      BY <2>3, <3>4
  <2>4. QED
    BY <2>2, <2>3
<1>4. Keeps(t, fs, u, fs)
  BY <1>1, <1>3 DEF Keeps, ScopesKept
<1>5. QED
  BY <1>4 DEF u

LEMMA OpensAfter ==
  ASSUME NEW t, NEW fs, NEW u, NEW gs, Nested(t, fs), Keeps(t, fs, u, gs),
         NEW kind, NEW name, NEW base, NEW f, IsFrame(f), f.id = Len(t) + 1,
         kind \in UnitKinds <=> gs = <<>>
  PROVE  Opens(t, fs, NewClass(u, kind, name, base), Append(gs, f))
<1> DEFINE v  == NewClass(u, kind, name, base)
           hs == Append(gs, f)
           n  == Len(fs)
<1>1. Nested(u, gs) /\ Len(u) = Len(t) /\ Len(gs) = n /\ n \in Nat /\ IsSequence(gs)
  BY OpenPaths DEF Keeps, ScopesKept, Nested, IsStack
<1>2. /\ Nested(v, hs) /\ Len(v) = Len(u) + 1
      /\ \A i \in 1 .. Len(u) : v[i] = u[i]
      /\ v[Len(u) + 1].names = <<>>
  BY <1>1, OpenNests
<1>3. Len(hs) = n + 1 /\ hs[n + 1] = f /\ \A k \in 1 .. n : hs[k] = gs[k]
  BY <1>1, AppendIs
<1> HIDE DEF v, hs
<1>4. ASSUME NEW k \in 1 .. n
      PROVE  /\ hs[k].id = fs[k].id
             /\ Declared(v, fs[k].id) = Declared(u, fs[k].id)
  <2>1. gs[k].id = fs[k].id /\ gs[k].id \in 1 .. Len(u)
    BY <1>1 DEF Keeps, ScopesKept, Nested, IsOpen
  <2>2. QED
    BY <1>2, <1>3, <2>1 DEF Declared
<1>5. Declared(v, hs[Len(hs)].id) = {}
  <2>1. v[hs[Len(hs)].id].names = <<>>
    BY <1>1, <1>2, <1>3
  <2>2. DOMAIN <<>> = {}
    OBVIOUS
  <2>3. QED
    BY <2>1, <2>2 DEF Declared
<1>6. Opens(t, fs, v, hs)
  <2>1. ASSUME NEW k \in 1 .. n
        PROVE  /\ hs[k].id = fs[k].id
               /\ k # n => Declared(v, fs[k].id) = Declared(t, fs[k].id)
               /\ Declared(t, fs[k].id) \subseteq Declared(v, fs[k].id)
    BY <1>4 DEF Keeps, ScopesKept
  <2>2. QED
    BY <1>1, <1>2, <1>3, <1>5, <2>1 DEF Opens, ScopesKept
<1>7. QED
  BY <1>6 DEF v, hs

LEMMA ShutsTop ==
  ASSUME NEW t, NEW fs, Nested(t, fs), fs # <<>>
  PROVE  Shuts(t, fs, EndClass(t), SubSeq(fs, 1, Len(fs) - 1))
<1> DEFINE u  == EndClass(t)
           gs == SubSeq(fs, 1, Len(fs) - 1)
<1>1. /\ Nested(u, gs)
      /\ \A i \in 1 .. Len(t) : u[i].names = t[i].names
      /\ Len(gs) = Len(fs) - 1
      /\ \A k \in 1 .. Len(fs) - 1 : gs[k] = fs[k]
  BY CloseNests
<1> HIDE DEF u, gs
<1>2. ASSUME NEW k \in 1 .. Len(gs)
      PROVE  gs[k].id = fs[k].id /\ Declared(u, fs[k].id) = Declared(t, fs[k].id)
  <2>1. Len(fs) \in Nat \ {0}
    BY CurrentIsTop
  <2>2. k \in 1 .. Len(fs) /\ gs[k] = fs[k]
    BY <1>1, <2>1
  <2>3. fs[k].id \in 1 .. Len(t)
    BY <2>2 DEF Nested, IsOpen
  <2>4. QED
    BY <1>1, <2>2, <2>3 DEF Declared
<1>3. QED
  BY <1>1, <1>2 DEF Shuts, u, gs

LEMMA KeepsEntering ==
  ASSUME NEW t, NEW fs, Nested(t, fs), fs # <<>>,
         NEW f, IsFrame(f), f.id = fs[Len(fs)].id, NEW es, IsSequence(es)
  PROVE  /\ Keeps(t, fs, t, ReplaceTop(fs, f))
         /\ Keeps(t, fs, AddEntries(t, es), fs)
         /\ Keeps(t, fs, AddEntries(t, es), ReplaceTop(fs, f))
         /\ ReplaceTop(fs, f) # <<>>
BY KeepsNothing, KeepsAdded, KeepsReplaced
-----------------------------------------------------------------------------
(* The invariant, and what every step does.                                *)

IInv == todo \in Seq(Units) /\ Nested(classes, frames)

ScopeStep ==
  \/ Keeps(classes, frames, classes', frames')
  \/ Opens(classes, frames, classes', frames')
  \/ Shuts(classes, frames, classes', frames')

StepOK == todo' \in Seq(Units) /\ ScopeStep

LEMMA TopIs ==
  ASSUME IInv, frames # <<>>
  PROVE  /\ Top = frames[Len(frames)] /\ IsFrame(Top)
         /\ Len(frames) \in Nat \ {0}
         /\ Here \in 1 .. Len(classes)
         /\ Kind \in UnitKinds <=> Len(frames) = 1
<1>1. Len(frames) \in Nat \ {0} /\ Len(frames) \in 1 .. Len(frames)
  BY CurrentIsTop DEF IInv
<1>2. IsFrame(frames[Len(frames)]) /\ IsOpen(classes, frames, Len(frames))
  BY <1>1 DEF IInv, Nested, IsStack
<1>3. QED
  BY <1>1, <1>2 DEF Top, Here, Kind, IsOpen

LEMMA EntriesAreSequences ==
  /\ IsSequence(<<>>)
  /\ \A e : IsSequence(<<e>>)
<1>1. IsSequence(<<>>)
  BY EmptySeq, SequenceIs
<1>2. ASSUME NEW e PROVE IsSequence(<<e>>)
  <2>1. <<e>> \in Seq({e})
    OBVIOUS
  <2>2. QED
    BY <2>1, SequenceIs
<1>3. QED
  BY <1>1, <1>2

\* What the item at hand is, and what it is made of.
LEMMA DeclIs ==
  ASSUME IInv, AtDeclaration
  PROVE  /\ Decl \in Declarations /\ Top.decls # <<>> /\ frames # <<>>
         /\ Decl.node = "function" =>
              Decl.parameters \o Decl.decls \in Seq(Declarations)
         /\ Decl.node = "type" => IsSequence(LiteralEntries(Decl))
<1>1. frames # <<>> /\ Top.decls # <<>> /\ Decl = Head(Top.decls)
  BY DEF AtDeclaration, Decl
<1>2. Decl \in Declarations
  <2>1. IsFrame(Top)
    BY <1>1, TopIs
  <2>2. QED
    BY <1>1, <2>1, HeadTailProperties DEF IsFrame
<1>3. Decl \in DeclarationNodes
  BY <1>2, NodesAssumption
<1>4. Decl.node = "function" =>
        Decl.parameters \in Seq(Declarations) /\ Decl.decls \in Seq(Declarations)
  BY <1>3 DEF DeclarationNodes
<1>5. Decl.node = "type" => Decl.literals \in Seq(Names)
  BY <1>3 DEF DeclarationNodes, Reads
<1>6. ASSUME Decl.node = "type"
      PROVE  IsSequence(LiteralEntries(Decl))
  <2> DEFINE es == LiteralEntries(Decl)
             n  == Len(Decl.literals)
             R  == {Entry(Decl.literals[k], "ENUM", Decl.name) : k \in 1 .. n}
  <2>1. n \in Nat /\ DOMAIN Decl.literals = 1 .. n
    BY <1>5, <1>6, LenProperties
  <2>2. es = [k \in 1 .. n |-> Entry(Decl.literals[k], "ENUM", Decl.name)]
    BY <2>1 DEF LiteralEntries
  <2>3. es \in [1 .. n -> R]
    BY <2>2
  <2>4. es \in Seq(R)
    BY <2>1, <2>3, SeqDef
  <2>5. QED
    BY <2>4, SequenceIs
<1>7. QED
  BY <1>1, <1>2, <1>4, <1>6, ConcatProperties

LEMMA ConcIs ==
  ASSUME IInv, AtConcurrent
  PROVE  /\ Conc \in Concurrents /\ Top.conc # <<>> /\ frames # <<>>
         /\ Conc.node \in {"process", "block", "generate"} => Conc.decls \in Seq(Declarations)
         /\ Conc.node \in {"block", "generate"} => Conc.conc \in Seq(Concurrents)
<1>1. frames # <<>> /\ Top.conc # <<>> /\ Conc = Head(Top.conc)
  BY DEF AtConcurrent, Conc
<1>2. Conc \in Concurrents
  <2>1. IsFrame(Top)
    BY <1>1, TopIs
  <2>2. QED
    BY <1>1, <2>1, HeadTailProperties DEF IsFrame
<1>3. Conc \in ConcurrentNodes
  BY <1>2, NodesAssumption
<1>4. QED
  BY <1>1, <1>2, <1>3 DEF ConcurrentNodes
-----------------------------------------------------------------------------
(* Steps that keep the open classes.                                       *)

LEMMA StayOK ==
  ASSUME IInv, UNCHANGED <<classes, frames>>, todo' \in Seq(Units)
  PROVE  StepOK
<1>1. Keeps(classes, frames, classes', frames')
  BY KeepsNothing DEF IInv
<1>2. QED
  BY <1>1 DEF StepOK, ScopeStep

LEMMA TodoStays ==
  ASSUME IInv, UNCHANGED file
  PROVE  todo' \in Seq(Units)
BY DEF IInv, file

LEMMA AbortOK ==
  ASSUME IInv, Abort
  PROVE  StepOK
BY StayOK, TodoStays DEF Abort

\* The frame on top is replaced, and its class may get more names.
LEMMA ReplaceOK ==
  ASSUME IInv, frames # <<>>, UNCHANGED file,
         NEW f, IsFrame(f), f.id = Top.id, frames' = ReplaceTop(frames, f),
         NEW es, IsSequence(es),
         classes' = classes \/ classes' = AddEntries(classes, es)
  PROVE  StepOK
<1>1. f.id = frames[Len(frames)].id
  BY DEF Top
<1>2. /\ Keeps(classes, frames, classes, ReplaceTop(frames, f))
      /\ Keeps(classes, frames, AddEntries(classes, es), ReplaceTop(frames, f))
  BY <1>1, KeepsEntering DEF IInv
<1>3. Keeps(classes, frames, classes', frames')
  BY <1>2
<1>4. QED
  BY <1>3, TodoStays DEF StepOK, ScopeStep

LEMMA DeclarationOK ==
  ASSUME IInv
  PROVE  /\ CloseType => StepOK
         /\ TypeWithoutBase => StepOK
         /\ CloseSubtype => StepOK
         /\ SubtypeWithoutBase => StepOK
         /\ DeclareObject => StepOK
         /\ InitialiseObject => StepOK
         /\ ObjectWithoutType => StepOK
         /\ DeclareAlias => StepOK
         /\ DeclareFunction => StepOK
<1>1. ASSUME AtDeclaration
      PROVE  /\ frames # <<>>
             /\ IsFrame(DeclDone(Top)) /\ DeclDone(Top).id = Top.id
             /\ IsFrame(Ready(Top)) /\ Ready(Top).id = Top.id
  BY <1>1, DeclIs, TopIs, DeclDoneIs, ReadyIs
<1>2. ASSUME AtDeclaration, NEW f, f = DeclDone(Top) \/ f = Ready(Top),
             NEW es, IsSequence(es), Declares(f, es)
      PROVE  StepOK
  BY <1>1, <1>2, ReplaceOK DEF Declares
<1>3. IsSequence(<<>>) /\ \A e : IsSequence(<<e>>)
  BY EntriesAreSequences
<1>4. CloseType => StepOK
  BY <1>2, <1>3 DEF CloseType, At
<1>5. TypeWithoutBase => StepOK
  BY <1>2, <1>3 DEF TypeWithoutBase, At
<1>6. CloseSubtype => StepOK
  BY <1>2, <1>3 DEF CloseSubtype, At
<1>7. SubtypeWithoutBase => StepOK
  BY <1>2, <1>3 DEF SubtypeWithoutBase, At
<1>8. DeclareObject => StepOK
  BY <1>2, <1>3 DEF DeclareObject, At
<1>9. InitialiseObject => StepOK
  BY <1>2, <1>3 DEF InitialiseObject, At
<1>10. ObjectWithoutType => StepOK
  BY <1>2, <1>3 DEF ObjectWithoutType, At
<1>11. DeclareAlias => StepOK
  <2>1. IsSequence(AliasEntries(Decl))
    BY <1>3 DEF AliasEntries
  <2>2. QED
    BY <1>2, <2>1 DEF DeclareAlias, At
<1>12. DeclareFunction => StepOK
  BY <1>1, <1>3, ReplaceOK DEF DeclareFunction, At, WithFunction
<1>13. QED
  BY <1>4, <1>5, <1>6, <1>7, <1>8, <1>9, <1>10, <1>11, <1>12

LEMMA BodyOK ==
  ASSUME IInv
  PROVE  /\ StartRun => StepOK
         /\ WriteFactory => StepOK
         /\ StartGenerate => StepOK
         /\ StartOther => StepOK
         /\ EndStatements => StepOK
<1>1. ASSUME frames # <<>>, NEW phase
      PROVE  IsFrame(Enter(Top, phase)) /\ Enter(Top, phase).id = Top.id
  BY <1>1, TopIs, EnterIs
<1>2. ASSUME frames # <<>>, NEW phase, NEW tree, NEW rs, NEW es, IsSequence(es),
             tree = classes \/ tree = AddEntries(classes, es),
             Turns(ReplaceTop(frames, Enter(Top, phase)), tree, rs)
      PROVE  StepOK
  BY <1>1, <1>2, ReplaceOK DEF Turns
<1>3. IsSequence(<<>>) /\ \A e : IsSequence(<<e>>)
  BY EntriesAreSequences
<1>4. StartRun => StepOK
  BY <1>2, <1>3 DEF StartRun, AtBody
<1>5. WriteFactory => StepOK
  BY <1>2, <1>3 DEF WriteFactory, AtBody
<1>6. StartGenerate => StepOK
  <2> DEFINE variable == LastEntry(AroundHere)
             es == <<Entry(variable.name, "VARIABLE", variable.type)>>
             rs == MadeOutside(IterationName(Top.node, IteratedBefore(Top.node)), Here)
  <2>1. IsSequence(es)
    BY <1>3
  <2>2. StartGenerate =>
          /\ frames # <<>>
          /\ Turns(ReplaceTop(frames, Enter(Top, "concurrent")), AddEntries(classes, es), rs)
    BY DEF StartGenerate, AtBody
  <2> HIDE DEF es, rs
  <2>3. QED
    BY <1>2, <2>1, <2>2
<1>7. StartOther => StepOK
  BY <1>2, <1>3 DEF StartOther, AtBody
<1>8. EndStatements => StepOK
  BY <1>2, <1>3 DEF EndStatements
<1>9. QED
  BY <1>4, <1>5, <1>6, <1>7, <1>8

LEMMA StatementOK ==
  ASSUME IInv
  PROVE  /\ WaitStatement => StepOK
         /\ ProcedureCall => StepOK
         /\ ReturnStatement => StepOK
         /\ Assignment => StepOK
         /\ AssignmentWithoutType => StepOK
         /\ Condition => StepOK
         /\ EnterLoop => StepOK
<1>1. ASSUME frames # <<>>, NEW f, IsFrame(f), f.id = Top.id, NEW rs, NEW new,
             Executes(f, rs, new)
      PROVE  StepOK
  BY <1>1, ReplaceOK, EntriesAreSequences DEF Executes
<1>2. ASSUME frames # <<>>
      PROVE  /\ IsFrame(StmtDone(Top)) /\ StmtDone(Top).id = Top.id
             /\ \A ms : /\ IsFrame(WithSignals(StmtDone(Top), ms))
                        /\ WithSignals(StmtDone(Top), ms).id = Top.id
             /\ \A body : IsFrame(Into(Top, body)) /\ Into(Top, body).id = Top.id
  BY <1>2, TopIs, StmtDoneIs, WithSignalsIs, IntoIs
<1>3. WaitStatement => StepOK
  BY <1>1, <1>2 DEF WaitStatement, AtStmt, AtStatement
<1>4. ProcedureCall => StepOK
  BY <1>1, <1>2 DEF ProcedureCall, AtStmt, AtStatement
<1>5. ReturnStatement => StepOK
  BY <1>1, <1>2 DEF ReturnStatement, AtStmt, AtStatement
<1>6. Assignment => StepOK
  BY <1>1, <1>2 DEF Assignment, AtStmt, AtStatement
<1>7. AssignmentWithoutType => StepOK
  BY <1>1, <1>2 DEF AssignmentWithoutType, AtStmt, AtStatement
<1>8. Condition => StepOK
  BY <1>1, <1>2 DEF Condition, AtStmt, AtStatement
<1>9. EnterLoop => StepOK
  BY <1>2, EntriesAreSequences, ReplaceOK DEF EnterLoop, AtStmt, AtStatement
<1>10. QED
  BY <1>3, <1>4, <1>5, <1>6, <1>7, <1>8, <1>9

LEMMA InstanceOK ==
  ASSUME IInv
  PROVE  /\ PostponeInstance => StepOK
         /\ Instantiate => StepOK
<1>1. ASSUME AtConcurrent, NEW is
      PROVE  /\ frames # <<>>
             /\ IsFrame([ConcDone(Top) EXCEPT !.instances = is])
             /\ [ConcDone(Top) EXCEPT !.instances = is].id = Top.id
  BY <1>1, ConcIs, TopIs, ConcDoneIs, InstancesIs
<1>2. PostponeInstance => StepOK
  BY <1>1, EntriesAreSequences, ReplaceOK DEF PostponeInstance, AtConc
<1>3. ASSUME frames # <<>>, NEW is
      PROVE  /\ IsFrame([Top EXCEPT !.instances = is])
             /\ [Top EXCEPT !.instances = is].id = Top.id
  BY <1>3, TopIs, InstancesIs
<1>4. Instantiate => StepOK
  BY <1>3, EntriesAreSequences, ReplaceOK DEF Instantiate, AtInstance
<1>5. QED
  BY <1>2, <1>4
-----------------------------------------------------------------------------
(* Steps that open a class.                                                *)

\* A part of a unit opens in the class on top, whose frame may have been
\* replaced and whose class may have got more names.
LEMMA OpenOK ==
  ASSUME IInv, todo' \in Seq(Units), NEW tree, NEW fs, Keeps(classes, frames, tree, fs),
         NEW kind, NEW name, NEW base, kind \in UnitKinds <=> fs = <<>>,
         NEW f, IsFrame(f), f.id = Len(classes) + 1,
         classes' = NewClass(tree, kind, name, base), frames' = Append(fs, f)
  PROVE  StepOK
<1>1. Opens(classes, frames, classes', frames')
  BY OpensAfter DEF IInv
<1>2. QED
  BY <1>1 DEF StepOK, ScopeStep

LEMMA FactoryOK ==
  ASSUME IInv, frames # <<>>, UNCHANGED file, NEW tree, NEW node,
         NEW es, IsSequence(es), tree = classes \/ tree = AddEntries(classes, es),
         DefineFactory(tree, node)
  PROVE  StepOK
<1> DEFINE f == NewFrame(node, <<>>, <<>>, <<>>, {})
<1>1. IsFrame(f) /\ f.id = Len(classes) + 1
  BY EmptySeq, NewFrameIs
<1> HIDE DEF f
<1>2. Keeps(classes, frames, tree, frames)
  BY KeepsNothing, KeepsAdded DEF IInv
<1>3. /\ classes' = NewClass(tree, "FACTORY", NoName, NoName)
      /\ frames' = Append(frames, f)
  BY DEF DefineFactory, Define, f
<1>4. "FACTORY" \notin UnitKinds
  BY DEF UnitKinds
<1>5. QED
  BY <1>1, <1>2, <1>3, <1>4, OpenOK, TodoStays

LEMMA OpenFactoryOK ==
  ASSUME IInv
  PROVE  /\ OpenType => StepOK
         /\ OpenSubtype => StepOK
         /\ LoopRange => StepOK
         /\ GenerateRange => StepOK
<1>1. OpenType => StepOK
  BY DeclIs, FactoryOK DEF OpenType, At
<1>2. OpenSubtype => StepOK
  BY DeclIs, FactoryOK, EntriesAreSequences DEF OpenSubtype, At
<1>3. LoopRange => StepOK
  BY FactoryOK, EntriesAreSequences DEF LoopRange, DefineRange, AtStmt, AtStatement
<1>4. GenerateRange => StepOK
  BY FactoryOK, EntriesAreSequences DEF GenerateRange, DefineRange, AtConc, AtConcurrent
<1>5. QED
  BY <1>1, <1>2, <1>3, <1>4

LEMMA OpenFunctionOK ==
  ASSUME IInv, OpenFunction
  PROVE  StepOK
<1> DEFINE es == <<Entry(Decl.name, "FUNCTION", FunctionType(Decl))>>
           f  == NewFrame(Decl, Decl.parameters \o Decl.decls, Decl.stmts, <<>>, {})
           fs == ReplaceTop(frames, DeclDone(Top))
<1>1. AtDeclaration /\ Decl.node = "function"
  BY DEF OpenFunction, At
<1>2. /\ frames # <<>> /\ IsFrame(DeclDone(Top)) /\ DeclDone(Top).id = Top.id
      /\ Decl.parameters \o Decl.decls \in Seq(Declarations)
  BY <1>1, DeclIs, TopIs, DeclDoneIs
<1>3. IsFrame(f) /\ f.id = Len(classes) + 1
  BY <1>2, EmptySeq, NewFrameIs
<1>4. IsSequence(es)
  BY EntriesAreSequences
<1>5. /\ classes' = NewClass(AddEntries(classes, es), "FUNCTION", NoName, NoName)
      /\ frames' = Append(fs, f)
      /\ UNCHANGED file
  BY DEF OpenFunction, Define, WithFunction
<1> HIDE DEF es, f
<1>6. Keeps(classes, frames, AddEntries(classes, es), fs) /\ fs # <<>>
  BY <1>2, <1>4, KeepsEntering DEF IInv, Top
<1>7. "FUNCTION" \notin UnitKinds
  BY DEF UnitKinds
<1>8. QED
  BY <1>3, <1>5, <1>6, <1>7, OpenOK, TodoStays

LEMMA OpenUnitOK ==
  ASSUME IInv, OpenUnit
  PROVE  StepOK
<1> DEFINE u == Head(todo)
           f == NewFrame(u, u.decls, <<>>, u.conc, {})
<1>1. frames = <<>> /\ todo # <<>> /\ todo' = Tail(todo)
  BY DEF OpenUnit, NextUnit
<1>2. u \in Units /\ todo' \in Seq(Units)
  BY <1>1, HeadTailProperties DEF IInv
<1>3. u.node \in UnitKinds /\ u.decls \in Seq(Declarations) /\ u.conc \in Seq(Concurrents)
  BY <1>2, NodesAssumption DEF UnitNodes
<1>4. IsFrame(f) /\ f.id = Len(classes) + 1
  BY <1>3, NewFrameIs
<1>5. /\ classes' = NewClass(classes, u.node, u.name, u.base)
      /\ frames' = Append(frames, f)
  BY <1>1 DEF OpenUnit, Define
<1> HIDE DEF f, u
<1>6. Keeps(classes, frames, classes, frames)
  BY KeepsNothing DEF IInv
<1>7. QED
  BY <1>1, <1>2, <1>3, <1>4, <1>5, <1>6, OpenOK

LEMMA OpenConcurrentOK ==
  ASSUME IInv
  PROVE  /\ OpenProcess => StepOK
         /\ OpenBlock => StepOK
         /\ OpenGenerate => StepOK
<1> DEFINE fs == ReplaceTop(frames, ConcDone(Top))
<1>1. ASSUME AtConcurrent, NEW es, IsSequence(es)
      PROVE  /\ Keeps(classes, frames, classes, fs)
             /\ Keeps(classes, frames, AddEntries(classes, es), fs)
             /\ fs # <<>>
  <2>1. frames # <<>> /\ IsFrame(ConcDone(Top)) /\ ConcDone(Top).id = Top.id
    BY <1>1, ConcIs, TopIs, ConcDoneIs
  <2>2. QED
    BY <1>1, <2>1, KeepsEntering DEF IInv, Top
<1>2. UnitKinds \cap {"PROCESS", "BLOCK", "GENERATE"} = {}
  BY DEF UnitKinds
<1>3. IsSequence(<<>>) /\ \A e : IsSequence(<<e>>)
  BY EntriesAreSequences
<1>4. OpenProcess => StepOK
  <2> DEFINE f == NewFrame(Conc, Conc.decls, Conc.stmts, <<>>, Listed(Conc))
  <2>1. SUFFICES ASSUME OpenProcess PROVE StepOK
    OBVIOUS
  <2>2. AtConcurrent /\ Conc.node = "process"
    BY <2>1 DEF OpenProcess, AtConc
  <2>3. IsFrame(f) /\ f.id = Len(classes) + 1
    <3>1. Conc.decls \in Seq(Declarations) /\ <<>> \in Seq(Concurrents)
      BY <2>2, ConcIs, EmptySeq
    <3>2. QED
      BY <3>1, NewFrameIs
  <2>4. /\ classes' = NewClass(classes, "PROCESS", NoName, NoName)
        /\ frames' = Append(fs, f) /\ UNCHANGED file
    BY <2>1 DEF OpenProcess, Define
  <2> HIDE DEF f, fs
  <2>5. QED
    BY <1>1, <1>2, <1>3, <2>2, <2>3, <2>4, OpenOK, TodoStays
<1>5. ASSUME AtConcurrent, Conc.node \in {"block", "generate"},
             NEW es, IsSequence(es), NEW tree,
             tree = classes \/ tree = AddEntries(classes, es),
             NEW kind \in {"BLOCK", "GENERATE"}, NEW rs, DefinePart(tree, kind, rs)
      PROVE  StepOK
  <2> DEFINE f == NewFrame(Conc, Conc.decls, <<>>, Conc.conc, {})
  <2>1. IsFrame(f) /\ f.id = Len(classes) + 1
    BY <1>5, ConcIs, NewFrameIs
  <2>2. /\ classes' = NewClass(tree, kind, NoName, NoName)
        /\ frames' = Append(fs, f) /\ UNCHANGED file
    BY <1>5 DEF DefinePart, Define
  <2> HIDE DEF f, fs
  <2>3. Keeps(classes, frames, tree, fs) /\ fs # <<>>
    BY <1>1, <1>5
  <2>4. QED
    BY <1>2, <1>5, <2>1, <2>2, <2>3, OpenOK, TodoStays
<1>6. OpenBlock => StepOK
  BY <1>3, <1>5 DEF OpenBlock, AtConc
<1>7. OpenGenerate => StepOK
  BY <1>3, <1>5 DEF OpenGenerate, AtConc
<1>8. QED
  BY <1>4, <1>6, <1>7
-----------------------------------------------------------------------------
(* Steps that close a class.                                               *)

LEMMA ShutsReplaced ==
  ASSUME NEW t, NEW fs, NEW u, NEW gs, Shuts(t, fs, u, gs), gs # <<>>,
         NEW f, IsFrame(f), f.id = gs[Len(gs)].id
  PROVE  Shuts(t, fs, u, ReplaceTop(gs, f))
<1> DEFINE hs == ReplaceTop(gs, f)
<1>1. Nested(u, gs)
  BY DEF Shuts
<1>2. /\ Nested(u, hs) /\ Len(hs) = Len(gs)
      /\ \A k \in 1 .. Len(gs) : hs[k].id = gs[k].id
  BY <1>1, ReplaceKeeps
<1> HIDE DEF hs
<1>3. Shuts(t, fs, u, hs)
  BY <1>2 DEF Shuts
<1>4. QED
  BY <1>3 DEF hs

LEMMA CloseOK ==
  ASSUME IInv
  PROVE  /\ CloseUnit => StepOK
         /\ ClosePart => StepOK
         /\ CloseFunction => StepOK
         /\ CloseFactory => StepOK
         /\ CloseProcess => StepOK
<1>1. ASSUME frames # <<>>
      PROVE  Shuts(classes, frames, EndClass(classes), PopFrame)
  BY <1>1, ShutsTop DEF IInv, PopFrame
<1>2. ASSUME NEW kinds, Closes(kinds, PopFrame)
      PROVE  StepOK
  BY <1>1, <1>2, TodoStays DEF Closes, StepOK, ScopeStep
<1>3. CloseUnit => StepOK
  <2>1. SUFFICES ASSUME CloseUnit PROVE StepOK
    OBVIOUS
  <2>2. frames # <<>> /\ Kind \in UnitKinds /\ UNCHANGED file
        /\ classes' = EndClass(classes) /\ frames' = <<>>
    BY <2>1 DEF CloseUnit, Closes
  <2>3. Len(frames) = 1
    BY <2>2, TopIs
  <2>4. PopFrame = <<>>
    BY <2>3, SubSeqEmpty DEF PopFrame
  <2>5. QED
    BY <1>1, <2>2, <2>4, TodoStays DEF StepOK, ScopeStep
<1>4. ClosePart => StepOK
  BY <1>2 DEF ClosePart
<1>5. CloseFunction => StepOK
  BY <1>2 DEF CloseFunction
<1>6. CloseProcess => StepOK
  BY <1>2 DEF CloseProcess
<1>7. CloseFactory => StepOK
  <2> DEFINE n == Len(frames)
             f == Ready(frames[n - 1])
  <2>1. SUFFICES ASSUME CloseFactory PROVE StepOK
    OBVIOUS
  <2>2. frames # <<>> /\ Kind = "FACTORY" /\ UNCHANGED file
        /\ classes' = EndClass(classes) /\ frames' = ReplaceTop(PopFrame, f)
    BY <2>1 DEF CloseFactory, Closes
  <2>3. n \in Nat \ {0} /\ n # 1
    BY <2>2, TopIs DEF UnitKinds
  <2>4. /\ Shuts(classes, frames, EndClass(classes), PopFrame)
        /\ Len(PopFrame) = n - 1 /\ PopFrame[n - 1] = frames[n - 1]
    <3>1. IsSequence(frames)
      BY DEF IInv, Nested, IsStack
    <3>2. n - 1 \in 1 .. n - 1
      BY <2>3
    <3>3. QED
      BY <1>1, <2>2, <3>1, <3>2, FrontIs DEF PopFrame
  <2>5. PopFrame # <<>>
    BY <2>3, <2>4, EmptySeq
  <2>6. IsFrame(f) /\ f.id = frames[n - 1].id
    <3>1. n - 1 \in 1 .. n
      BY <2>3
    <3>2. IsFrame(frames[n - 1])
      BY <3>1 DEF IInv, Nested, IsStack
    <3>3. QED
      BY <3>2, ReadyIs
  <2> HIDE DEF f, n
  <2>7. Shuts(classes, frames, EndClass(classes), ReplaceTop(PopFrame, f))
    BY <2>4, <2>5, <2>6, ShutsReplaced
  <2>8. QED
    BY <2>2, <2>7, TodoStays DEF StepOK, ScopeStep
<1>8. QED
  BY <1>3, <1>4, <1>5, <1>6, <1>7
-----------------------------------------------------------------------------
(* The theorems.                                                           *)

LEMMA InitIs == Init => IInv
<1> SUFFICES ASSUME Init PROVE IInv
  OBVIOUS
<1>1. classes = Loaded /\ frames = <<>> /\ todo \in Seq(Units)
  BY FilesAssumption DEF Init
<1>2. /\ Loaded \in Seq(Classes)
      /\ \A i \in DOMAIN Loaded : ~Loaded[i].active /\ Loaded[i].path = <<i>>
  BY FilesAssumption
<1>3. Len(Loaded) \in Nat /\ DOMAIN Loaded = 1 .. Len(Loaded)
  BY <1>2, LenProperties
<1>4. ASSUME NEW i \in 1 .. Len(Loaded)
      PROVE  ClassOK(Loaded, i)
  <2>1. Loaded[i] \in Classes /\ Loaded[i].path = <<i>>
    BY <1>2, <1>3, ElementOfSeq
  <2>2. Loaded[i].active \in BOOLEAN /\ Loaded[i].names \in Seq(Entries)
    BY <2>1 DEF Classes
  <2>3. <<i>> \in Seq(1 .. i) /\ <<i>> # <<>> /\ <<i>>[Len(<<i>>)] = i
    BY <1>3
  <2>4. QED
    BY <2>1, <2>2, <2>3, SequenceIs DEF ClassOK
<1>5. IsTree(Loaded)
  BY <1>2, <1>4, SequenceIs DEF IsTree
<1>6. IsStack(<<>>) /\ Len(<<>>) = 0
  BY EntriesAreSequences, EmptySeq DEF IsStack
<1>7. Nested(Loaded, <<>>)
  BY <1>2, <1>3, <1>5, <1>6 DEF Nested
<1>8. QED
  BY <1>1, <1>7 DEF IInv

LEMMA StepIs == IInv /\ Step => StepOK
<1> SUFFICES ASSUME IInv, Step PROVE StepOK
  OBVIOUS
<1>1. CASE OpenUnit
  BY <1>1, OpenUnitOK
<1>2. CASE SkipUnit
  <2>1. todo' \in Seq(Units)
    BY <1>2, HeadTailProperties DEF IInv, SkipUnit, NextUnit
  <2>2. QED
    BY <1>2, <2>1, StayOK DEF SkipUnit
<1>3. CASE Finish
  BY <1>3, StayOK, TodoStays DEF Finish
<1>4. CASE Declaration
  <2>1. RangeIsLost \/ ObjectRangeIsLost \/ InitialValueIsLost \/ AliasIsLost => StepOK
    BY AbortOK DEF RangeIsLost, ObjectRangeIsLost, InitialValueIsLost, AliasIsLost
  <2>2. QED
    BY <1>4, <2>1, DeclarationOK, OpenFactoryOK, OpenFunctionOK DEF Declaration
<1>5. CASE Body
  BY <1>5, BodyOK DEF Body
<1>6. CASE Statement
  <2>1. LoopRangeIsLost => StepOK
    BY AbortOK DEF LoopRangeIsLost
  <2>2. QED
    BY <1>6, <2>1, StatementOK, OpenFactoryOK DEF Statement
<1>7. CASE ConcurrentStatement
  <2>1. GenerateRangeIsLost \/ ActualIsLost => StepOK
    BY AbortOK DEF GenerateRangeIsLost, ActualIsLost
  <2>2. QED
    BY <1>7, <2>1, OpenConcurrentOK, OpenFactoryOK, InstanceOK DEF ConcurrentStatement
<1>8. CASE CloseClass
  BY <1>8, CloseOK DEF CloseClass
<1>9. QED
  BY <1>1, <1>2, <1>3, <1>4, <1>5, <1>6, <1>7, <1>8 DEF Step

LEMMA StepAlways == IInv /\ [Next]_vars => StepOK
<1> SUFFICES ASSUME IInv, [Next]_vars PROVE StepOK
  OBVIOUS
<1>1. CASE Step
  BY <1>1, StepIs
<1>2. CASE UNCHANGED vars
  BY <1>2, StayOK, TodoStays DEF vars, file
<1>3. QED
  BY <1>1, <1>2 DEF Next, Stopped

LEMMA StepKeepsInv == IInv /\ [Next]_vars => IInv'
<1> SUFFICES ASSUME IInv, [Next]_vars PROVE IInv'
  OBVIOUS
<1>1. todo' \in Seq(Units) /\ ScopeStep
  BY StepAlways DEF StepOK
<1>2. Nested(classes', frames')
  BY <1>1 DEF ScopeStep, Keeps, Opens, Shuts, ScopesKept
<1>3. QED
  BY <1>1, <1>2 DEF IInv

LEMMA InvAlways == Spec => []IInv
<1>1. QED
  BY InitIs, StepKeepsInv, PTL DEF Spec

\* The class that text and declarations go into is found anew whenever it is
\* needed, along the last active children; it is always the class of the
\* innermost call of defineObject (FileContainer::traverseClassContainerHierarchy).
THEOREM ChainIsStack == Spec => []ChainIsCallStack
<1>1. IInv => ChainIsCallStack
  <2> SUFFICES ASSUME IInv PROVE ChainIsCallStack
    OBVIOUS
  <2>1. Nested(classes, frames)
    BY DEF IInv
  <2>2. DOMAIN frames = 1 .. Len(frames)
    BY <2>1, SequenceHas DEF Nested, IsStack
  <2>3. Chain(classes) = {frames[k].id : k \in 1 .. Len(frames)}
    BY <2>1, ChainIsOpen
  <2>4. \A k \in 1 .. Len(frames) :
          classes[frames[k].id].path = [j \in 1 .. k |-> frames[j].id]
    BY <2>1 DEF Nested, IsOpen
  <2>5. QED
    BY <2>2, <2>3, <2>4 DEF ChainIsCallStack
<1>2. QED
  BY <1>1, InvAlways, PTL

-----------------------------------------------------------------------------
(* The lexical scopes.                                                     *)

ScopesOf(t, fs) == [k \in 1 .. Len(fs) |-> Declared(t, fs[k].id)]

LEMMA ScopesAre ==
  ASSUME NEW t, NEW fs, Nested(t, fs)
  PROVE  /\ [k \in 1 .. Len(CurrentPath(t)) |->
              LET c == t[CurrentPath(t)[k]]
              IN  {c.names[n] : n \in DOMAIN c.names}] = ScopesOf(t, fs)
         /\ Len(fs) \in Nat
         /\ IsSequence(ScopesOf(t, fs)) /\ Len(ScopesOf(t, fs)) = Len(fs)
         /\ \A k \in 1 .. Len(fs) : ScopesOf(t, fs)[k] = Declared(t, fs[k].id)
<1> DEFINE s == ScopesOf(t, fs)
           n == Len(fs)
           R == {s[k] : k \in 1 .. n}
<1>1. n \in Nat
  BY OpenPaths
<1>2. \A k \in 1 .. n : s[k] = Declared(t, fs[k].id)
  BY DEF ScopesOf
<1>3. s \in [1 .. n -> R]
  BY DEF ScopesOf
<1>4. s \in Seq(R) /\ Len(s) = n
  <2>1. s \in Seq(R)
    BY <1>1, <1>3, SeqDef
  <2>2. DOMAIN s = 1 .. Len(s) /\ Len(s) \in Nat
    BY <2>1, LenProperties
  <2>3. DOMAIN s = 1 .. n
    BY <1>3
  <2>4. QED
    BY <1>1, <2>1, <2>2, <2>3, UpToEqual
<1>5. /\ Len(CurrentPath(t)) = n
      /\ \A j \in 1 .. n : CurrentPath(t)[j] = fs[j].id
  BY PathOfCurrent
<1>6. [k \in 1 .. Len(CurrentPath(t)) |->
        LET c == t[CurrentPath(t)[k]]
        IN  {c.names[m] : m \in DOMAIN c.names}] = s
  BY <1>5 DEF ScopesOf, Declared
<1>7. QED
  BY <1>1, <1>2, <1>4, <1>6, SequenceIs

\* A class opens or closes, or neither, as a scope does.
LEMMA ScopesStep ==
  ASSUME NEW t, NEW fs, NEW u, NEW gs, Nested(t, fs), Nested(u, gs),
         NEW s, s = ScopesOf(t, fs), NEW r, r = ScopesOf(u, gs)
  PROVE  /\ Keeps(t, fs, u, gs) \/ Opens(t, fs, u, gs) =>
              /\ \A k \in 1 .. Len(s) - 1 : r[k] = s[k]
              /\ s # <<>> => s[Len(s)] \subseteq r[Len(s)]
         /\ Keeps(t, fs, u, gs) => Len(r) = Len(s)
         /\ Opens(t, fs, u, gs) => Len(r) = Len(s) + 1 /\ r[Len(r)] = {}
         /\ Shuts(t, fs, u, gs) => s # <<>> /\ r = SubSeq(s, 1, Len(s) - 1)
<1> DEFINE n == Len(fs)
           m == Len(gs)
<1>1. /\ n \in Nat /\ Len(s) = n /\ IsSequence(s)
      /\ \A k \in 1 .. n : s[k] = Declared(t, fs[k].id)
  BY ScopesAre
<1>2. /\ m \in Nat /\ Len(r) = m /\ IsSequence(r)
      /\ \A k \in 1 .. m : r[k] = Declared(u, gs[k].id)
  BY ScopesAre
<1>3. s # <<>> => n \in 1 .. n
  BY <1>1, EmptySeq, SequenceHas
<1>4. ASSUME ScopesKept(t, fs, u, gs), m >= n
      PROVE  /\ \A k \in 1 .. Len(s) - 1 : r[k] = s[k]
             /\ s # <<>> => s[Len(s)] \subseteq r[Len(s)]
  <2>1. ASSUME NEW k \in 1 .. n
        PROVE  /\ k # n => r[k] = s[k]
               /\ s[k] \subseteq r[k]
    <3>1. k \in 1 .. m
      BY <1>1, <1>2, <1>4
    <3>2. s[k] = Declared(t, fs[k].id) /\ r[k] = Declared(u, fs[k].id)
      BY <1>1, <1>2, <1>4, <3>1 DEF ScopesKept
    <3>3. QED
      BY <1>4, <3>2 DEF ScopesKept
  <2>2. ASSUME NEW k \in 1 .. Len(s) - 1
        PROVE  r[k] = s[k]
    <3>1. k \in 1 .. n /\ k # n
      BY <1>1
    <3>2. QED
      BY <2>1, <3>1
  <2>3. QED
    BY <1>1, <1>3, <2>1, <2>2
<1>5. Keeps(t, fs, u, gs) => ScopesKept(t, fs, u, gs) /\ m = n
  BY DEF Keeps
<1>6. Opens(t, fs, u, gs) => ScopesKept(t, fs, u, gs) /\ m = n + 1
  BY DEF Opens
<1>7. ASSUME Opens(t, fs, u, gs)
      PROVE  r[Len(r)] = {}
  <2>1. m \in 1 .. m
    BY <1>1, <1>6, <1>7
  <2>2. QED
    BY <1>2, <1>7, <2>1 DEF Opens
<1>8. ASSUME Shuts(t, fs, u, gs)
      PROVE  s # <<>> /\ r = SubSeq(s, 1, Len(s) - 1)
  <2>1. fs # <<>> /\ m = n - 1
    BY <1>8 DEF Shuts
  <2>2. n \in Nat \ {0}
    BY <1>1, <1>2, <2>1
  <2>3. s # <<>>
    BY <1>1, <2>2, EmptySeq
  <2> DEFINE q == SubSeq(s, 1, Len(s) - 1)
  <2>4. /\ IsSequence(q) /\ Len(q) = n - 1
        /\ \A k \in 1 .. n - 1 : q[k] = s[k]
    BY <1>1, <2>3, FrontIs
  <2> HIDE DEF q
  <2>5. ASSUME NEW k \in 1 .. m
        PROVE  r[k] = q[k]
    <3>1. k \in 1 .. n /\ k \in 1 .. n - 1
      BY <1>1, <2>1
    <3>2. s[k] = Declared(t, fs[k].id) /\ r[k] = Declared(u, fs[k].id)
      BY <1>1, <1>2, <1>8, <3>1 DEF Shuts
    <3>3. Declared(u, fs[k].id) = Declared(t, fs[k].id)
      BY <1>8 DEF Shuts
    <3>4. QED
      BY <2>4, <3>1, <3>2, <3>3
  <2>6. DOMAIN r = 1 .. m /\ DOMAIN q = 1 .. m
    BY <1>2, <2>1, <2>4, SequenceHas
  <2>7. r = [k \in 1 .. m |-> r[k]] /\ q = [k \in 1 .. m |-> q[k]]
    BY <1>2, <2>4, <2>6 DEF IsSequence
  <2>8. r = q
    BY <2>5, <2>7
  <2>9. QED
    BY <2>3, <2>8 DEF q
<1>9. QED
  BY <1>1, <1>2, <1>4, <1>5, <1>6, <1>7, <1>8

\* What is declared in the chain of open classes is a stack of lexical scopes
\* (newClass, endClass, addObjectValueContainer): UnitGeneration implements
\* LexicalScopes, whatever the units are.
THEOREM ScopesRefined == Spec => ImplementsScopes
<1>1. Init => Lexical!Init
  <2> SUFFICES ASSUME Init PROVE Scopes = <<>>
    BY DEF Lexical!Init
  <2>1. Nested(classes, frames) /\ frames = <<>>
    BY InitIs DEF IInv, Init
  <2>2. Scopes = ScopesOf(classes, frames) /\ IsSequence(Scopes) /\ Len(Scopes) = Len(<<>>)
    BY <2>1, ScopesAre DEF Scopes
  <2>3. Len(Scopes) = 0
    BY <2>2, EmptySeq
  <2>4. QED
    BY <2>2, <2>3, EmptySeq DEF IsSequence
<1>2. IInv /\ [Next]_vars => [Lexical!Next]_Scopes
  <2> SUFFICES ASSUME IInv, [Next]_vars PROVE Lexical!Next
    OBVIOUS
  <2>1. ScopeStep
    BY StepAlways DEF StepOK
  <2>2. Nested(classes, frames) /\ Nested(classes', frames')
    BY StepKeepsInv DEF IInv
  <2> DEFINE s == ScopesOf(classes, frames)
             r == ScopesOf(classes', frames')
  <2>3. Scopes = s /\ Scopes' = r
    BY <2>2, ScopesAre DEF Scopes
  <2>4. /\ Keeps(classes, frames, classes', frames') \/ Opens(classes, frames, classes', frames') =>
             /\ \A k \in 1 .. Len(s) - 1 : r[k] = s[k]
             /\ s # <<>> => s[Len(s)] \subseteq r[Len(s)]
        /\ Keeps(classes, frames, classes', frames') => Len(r) = Len(s)
        /\ Opens(classes, frames, classes', frames') => Len(r) = Len(s) + 1 /\ r[Len(r)] = {}
        /\ Shuts(classes, frames, classes', frames') =>
             s # <<>> /\ r = SubSeq(s, 1, Len(s) - 1)
    BY <2>2, ScopesStep
  <2> HIDE DEF s, r
  <2>5. CASE Keeps(classes, frames, classes', frames')
    <3>1. Lexical!Declare
      BY <2>3, <2>4, <2>5 DEF Lexical!Declare, Lexical!OthersKept, Lexical!Grown
    <3>2. QED
      BY <3>1 DEF Lexical!Next
  <2>6. CASE Opens(classes, frames, classes', frames')
    <3>1. Lexical!Open
      BY <2>3, <2>4, <2>6 DEF Lexical!Open, Lexical!OthersKept, Lexical!Grown
    <3>2. QED
      BY <3>1 DEF Lexical!Next
  <2>7. CASE Shuts(classes, frames, classes', frames')
    <3>1. Lexical!Close
      BY <2>3, <2>4, <2>7 DEF Lexical!Close
    <3>2. QED
      BY <3>1 DEF Lexical!Next
  <2>8. QED
    BY <2>1, <2>5, <2>6, <2>7 DEF ScopeStep
<1>3. QED
  BY <1>1, <1>2, InvAlways, PTL DEF Spec, ImplementsScopes, Lexical!Spec
=============================================================================
