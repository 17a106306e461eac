----------------------------- MODULE KernelProofs -----------------------------
(***************************************************************************)
(* Proofs about Kernel, for every element type, every set of units and     *)
(* every process: its arrays have the elements their ranges speak of, and  *)
(* what its statements do is what ArrayValues promises.                    *)
(*                                                                         *)
(* One inductive invariant serves both (IInv): arrays are well formed, an  *)
(* alias names one of them, the process's statements fit the kinds of its  *)
(* arrays.  What the operations of Array leave as it is comes first.  A    *)
(* second one (LoopInv) says how far a for loop has come, and gives what   *)
(* it has visited and assigned when it is left.                            *)
(***************************************************************************)
EXTENDS Kernel, SequenceFacts

-----------------------------------------------------------------------------
(* What the constructors of arrays make. *)

LEMMA LengthIs ==
  ASSUME NEW r, r.left \in Int, r.right \in Int
  PROVE  /\ LENGTH(r) = IF r.right >= r.left THEN r.right - r.left + 1 ELSE r.left - r.right + 1
         /\ LENGTH(r) \in Nat \ {0}
<1>1. HIGH(r) = IF r.right >= r.left THEN r.right ELSE r.left
  BY DEF HIGH, Max
<1>2. LOW(r) = IF r.right >= r.left THEN r.left ELSE r.right
  BY DEF LOW, Min
<1>3. QED
  BY <1>1, <1>2 DEF LENGTH

Elements(sub) == [value : Int, left : {sub.left}, right : {sub.right}]

\* What an array has even while its elements are not made yet.
HasHead(a) ==
  /\ DOMAIN a = {"range", "sub", "content"}
  /\ DOMAIN a.range = {"left", "right", "ascending", "byType"}
  /\ a.range.left \in Int
  /\ a.range.right \in Int
  /\ a.range.ascending \in BOOLEAN
  /\ a.range.byType \in BOOLEAN
  /\ a.range.byType => a.range.left = 0 /\ a.range.right = SIZE - 1
  /\ a.sub.left \in Int
  /\ a.sub.right \in Int

IsArray(a) == HasHead(a) /\ a.content \in [1 .. Size(a) -> Elements(a.sub)]

\* The bounds of the range are these.
Spans(a, l, r, up) == a.range.left = l /\ a.range.right = r /\ a.range.ascending = up

LEMMA SizeIs ==
  ASSUME NEW a, HasHead(a)
  PROVE  /\ Size(a) = IF a.range.right >= a.range.left THEN a.range.right - a.range.left + 1
                                                       ELSE a.range.left - a.range.right + 1
         /\ Size(a) \in Nat \ {0}
BY LengthIs DEF HasHead, Size

LEMMA SIZEIs ==
  /\ SIZE \in Nat \ {0}
  /\ DOMAIN LITERALS = 1 .. SIZE
  /\ Whole.left = 0 /\ Whole.right = SIZE - 1 /\ Whole.left \in Int /\ Whole.right \in Int
BY LiteralsAssumption, LenProperties, EmptySeq DEF SIZE, Whole

LEMMA ResizeIs ==
  ASSUME NEW a, HasHead(a)
  PROVE  /\ IsArray(Resize(a, Size(a)))
         /\ Resize(a, Size(a)).range = a.range
         /\ Resize(a, Size(a)).sub = a.sub
<1> DEFINE b == Resize(a, Size(a))
<1>1. /\ DOMAIN b = DOMAIN a /\ b.range = a.range /\ b.sub = a.sub
      /\ b.content = [i \in 1 .. Size(a) |-> Enumeration(a.sub)]
  BY DEF Resize, HasHead
<1>2. Size(b) = Size(a)
  BY <1>1 DEF Size
<1>3. Enumeration(a.sub) \in Elements(a.sub)
  BY DEF Enumeration, Elements
<1> HIDE DEF b
<1>4. HasHead(b)
  BY <1>1 DEF HasHead
<1>5. b.content \in [1 .. Size(b) -> Elements(b.sub)]
  BY <1>1, <1>2, <1>3
<1>6. QED
  BY <1>1, <1>4, <1>5 DEF IsArray, b

LEMMA NewIs ==
  ASSUME NEW t \in BOOLEAN
  PROVE  HasHead(NewArray(t)) /\ NewArray(t).range.byType = t
BY SIZEIs DEF NewArray, HasHead

LEMMA ConstrainAgainIs ==
  ASSUME NEW a, HasHead(a)
  PROVE  HasHead(ConstrainAgain(a)) /\ ConstrainAgain(a).range.byType = a.range.byType
BY SIZEIs DEF ConstrainAgain, HasHead

LEMMA ConstrainElementsIs ==
  ASSUME NEW a, HasHead(a), NEW sub, sub.left \in Int, sub.right \in Int
  PROVE  /\ HasHead(ConstrainElements(a, sub))
         /\ ConstrainElements(a, sub).range.byType = a.range.byType
<1> DEFINE b == ConstrainAgain(a)
<1>1. HasHead(b) /\ b.range.byType = a.range.byType
  BY ConstrainAgainIs
<1> HIDE DEF b
<1>2. HasHead([b EXCEPT !.sub = sub]) /\ [b EXCEPT !.sub = sub].range.byType = a.range.byType
  BY <1>1 DEF HasHead
<1>3. QED
  BY <1>2 DEF ConstrainElements, b

LEMMA WithRangeIs ==
  ASSUME NEW a, HasHead(a), a.range.byType = FALSE,
         NEW l \in Int, NEW r \in Int, NEW up \in BOOLEAN
  PROVE  /\ HasHead(WithRange(a, l, r, up))
         /\ Spans(WithRange(a, l, r, up), l, r, up)
         /\ WithRange(a, l, r, up).range.byType = FALSE
BY SIZEIs DEF WithRange, HasHead, Spans

LEMMA ConstrainToIs ==
  ASSUME NEW a, HasHead(a), a.range.byType = FALSE,
         NEW l \in Int, NEW r \in Int, NEW up \in BOOLEAN
  PROVE  /\ IsArray(ConstrainTo(a, l, r, up))
         /\ Spans(ConstrainTo(a, l, r, up), l, r, up)
         /\ ConstrainTo(a, l, r, up).range.byType = FALSE
<1> DEFINE b == WithRange(a, l, r, up)
<1>1. HasHead(b) /\ Spans(b, l, r, up) /\ b.range.byType = FALSE
  BY WithRangeIs
<1>2. ConstrainTo(a, l, r, up) = Resize(b, Size(b))
  BY DEF ConstrainTo
<1> HIDE DEF b
<1>3. QED
  BY <1>1, <1>2, ResizeIs DEF Spans

LEMMA ConstrainLikeIs ==
  ASSUME NEW a, HasHead(a), NEW b, HasHead(b), a.range.byType = b.range.byType
  PROVE  /\ IsArray(ConstrainLike(a, b))
         /\ ConstrainLike(a, b).range.byType = b.range.byType
<1> DEFINE c == [a EXCEPT !.range.left = b.range.left, !.range.right = b.range.right,
                          !.range.ascending = b.range.ascending, !.sub = b.sub]
<1>1. HasHead(c) /\ c.range.byType = b.range.byType
  BY DEF HasHead
<1>2. ConstrainLike(a, b) = Resize(c, Size(c))
  BY DEF ConstrainLike
<1> HIDE DEF c
<1>3. QED
  BY <1>1, <1>2, ResizeIs

LEMMA CreateIs ==
  ASSUME NEW t \in ArrayTypes
  PROVE  HasHead(Create(t)) /\ Create(t).range.byType = t.byType
<1>1. /\ t.byType \in BOOLEAN /\ t.range \in Ranges
      /\ t.sub # Absent => t.sub.left \in Int /\ t.sub.right \in Int
      /\ t.byType => t.range = Absent
  <2>1. CASE t \in [byType : {FALSE}, range : Ranges, sub : {Absent} \cup [left : Int, right : Int]]
    BY <2>1
  <2>2. CASE t \in [byType : {TRUE}, range : {Absent}, sub : {Absent} \cup [left : Int, right : Int]]
    <3>1. Absent \in Ranges
      BY DEF Ranges, Absent
    <3>2. QED
      BY <2>2, <3>1
  <2>3. QED
    BY <2>1, <2>2 DEF ArrayTypes
<1> DEFINE x == NewArray(t.byType)
<1>2. HasHead(x) /\ x.range.byType = t.byType
  BY <1>1, NewIs
<1> HIDE DEF x
<1>3. CASE t.range = Absent /\ t.sub = Absent
  <2>1. Create(t) = ConstrainAgain(x)
    BY <1>3 DEF Create, x
  <2>2. QED
    BY <1>2, <2>1, ConstrainAgainIs
<1>4. CASE t.range = Absent /\ t.sub # Absent
  <2>1. Create(t) = ConstrainElements(x, t.sub)
    BY <1>4 DEF Create, x
  <2>2. QED
    BY <1>1, <1>2, <1>4, <2>1, ConstrainElementsIs
<1>5. CASE t.range # Absent
  <2>1. \/ Create(t) = ConstrainTo(x, t.range.left, t.range.right, t.range.ascending)
        \/ Create(t) = WithRange(x, t.range.left, t.range.right, t.range.ascending)
    BY <1>5 DEF Create, ConstrainBoth, x
  <2>2. t.range.left \in Int /\ t.range.right \in Int /\ t.range.ascending \in BOOLEAN
    BY <1>1 DEF Ranges
  <2>3. x.range.byType = FALSE /\ t.byType = FALSE
    BY <1>1, <1>2, <1>5
  <2>3a. HasHead(ConstrainTo(x, t.range.left, t.range.right, t.range.ascending))
         /\ ConstrainTo(x, t.range.left, t.range.right, t.range.ascending).range.byType = FALSE
    BY <1>2, <2>2, <2>3, ConstrainToIs DEF IsArray
  <2>4. HasHead(WithRange(x, t.range.left, t.range.right, t.range.ascending))
         /\ WithRange(x, t.range.left, t.range.right, t.range.ascending).range.byType = FALSE
    BY <1>2, <2>2, <2>3, WithRangeIs
  <2>5. HasHead(Create(t)) /\ Create(t).range.byType = FALSE
    BY <2>1, <2>3a, <2>4
  <2>6. QED
    BY <2>3, <2>5
<1>6. QED
  BY <1>3, <1>4, <1>5

LEMMA DeclaredIs ==
  ASSUME NEW d \in Declarations
  PROVE  IsArray(Declared(d)) /\ Declared(d).range.byType = d.type.byType
<1>1. /\ d.type \in ArrayTypes /\ d.range \in Ranges /\ d.type.byType \in BOOLEAN
      /\ d.type.byType => d.range = Absent
  BY DEF Declarations, ArrayTypes
<1> DEFINE x == NewArray(d.type.byType)
           y == IF d.range = Absent THEN Create(d.type) ELSE CreateWith(d.type, d.range)
<1>2. HasHead(x) /\ x.range.byType = d.type.byType
  BY <1>1, NewIs
<1>3. HasHead(y) /\ y.range.byType = d.type.byType
  <2>1. CASE d.range = Absent
    BY <1>1, <2>1, CreateIs
  <2>2. CASE d.range # Absent
    <3>1. y = ConstrainTo(x, d.range.left, d.range.right, d.range.ascending)
      BY <2>2 DEF CreateWith
    <3>2. x.range.byType = FALSE /\ d.type.byType = FALSE
      BY <1>1, <1>2, <2>2
    <3>3. d.range.left \in Int /\ d.range.right \in Int /\ d.range.ascending \in BOOLEAN
      BY <1>1 DEF Ranges
    <3> HIDE DEF x, y
    <3>4. QED
      BY <1>2, <3>1, <3>2, <3>3, ConstrainToIs DEF IsArray
  <2>3. QED
    BY <2>1, <2>2
<1>4. Declared(d) = ConstrainLike(x, y)
  BY DEF Declared
<1> HIDE DEF x, y
<1>5. QED
  BY <1>2, <1>3, <1>4, ConstrainLikeIs

-----------------------------------------------------------------------------
(* What the operations on elements leave as it is.                         *)

LEMMA ContentIs ==
  ASSUME NEW a, IsArray(a)
  PROVE  DOMAIN a.content = 1 .. Size(a) /\ Len(a.content) = Size(a) /\ Size(a) \in Nat \ {0}
<1>1. Size(a) \in Nat \ {0}
  BY SizeIs DEF IsArray
<1>2. a.content \in [1 .. Size(a) -> Elements(a.sub)]
  BY DEF IsArray
<1>3. a.content \in Seq(Elements(a.sub))
  BY <1>1, <1>2, SeqDef
<1>4. Len(a.content) \in Nat /\ DOMAIN a.content = 1 .. Len(a.content) /\ DOMAIN a.content = 1 .. Size(a)
  BY <1>2, <1>3, LenProperties
<1>5. QED
  BY <1>1, <1>4

\* The same array with other elements.
SameButElements(a, b) == b.range = a.range /\ b.sub = a.sub /\ Size(b) = Size(a)

LEMMA RefilledIs ==
  ASSUME NEW a, IsArray(a), NEW c \in [1 .. Size(a) -> Elements(a.sub)],
         NEW b, b = [a EXCEPT !.content = c]
  PROVE  IsArray(b) /\ SameButElements(a, b) /\ b.content = c
<1>1. HasHead(a)
  BY DEF IsArray
<1>2. /\ DOMAIN b = DOMAIN a /\ b.range = a.range /\ b.sub = a.sub /\ b.content = c
  BY <1>1 DEF HasHead
<1>3. Size(b) = Size(a)
  BY <1>2 DEF Size
<1>4. HasHead(b)
  BY <1>1, <1>2 DEF HasHead
<1>5. QED
  BY <1>2, <1>3, <1>4 DEF IsArray, SameButElements

LEMMA SetValueIs ==
  ASSUME NEW sub, NEW e \in Elements(sub), NEW other, other.value \in Int
  PROVE  SetValue(e, other) \in Elements(sub) /\ SetValue(e, other).value = other.value
BY DEF SetValue, Elements

LEMMA CharPositionIs ==
  ASSUME NEW c
  PROVE  /\ CharPosition(c) \in Int
         /\ CharPosition(c) >= 0 <=> \E i \in 1 .. SIZE : LITERALS[i] = c
<1>1. SIZE \in Nat
  BY SIZEIs
<1>2. CASE \E i \in 1 .. SIZE : LITERALS[i] = c
  <2>1. CharPosition(c) = (CHOOSE i \in 1 .. SIZE : LITERALS[i] = c) - 1
    BY <1>2 DEF CharPosition
  <2>2. (CHOOSE i \in 1 .. SIZE : LITERALS[i] = c) \in 1 .. SIZE
    BY <1>2
  <2>3. QED
    BY <1>1, <1>2, <2>1, <2>2
<1>3. CASE ~ \E i \in 1 .. SIZE : LITERALS[i] = c
  BY <1>3 DEF CharPosition
<1>4. QED
  BY <1>2, <1>3

LEMMA SetCharIs ==
  ASSUME NEW sub, NEW e \in Elements(sub), NEW c
  PROVE  /\ SetChar(e, c) \in Elements(sub)
         /\ SetChar(e, c).value = IF CharPosition(c) < 0 THEN e.value ELSE CharPosition(c)
BY CharPositionIs DEF SetChar, Elements

LEMMA PutAtIs ==
  ASSUME NEW a, IsArray(a), NEW i \in Int, NEW e, e.value \in Int
  PROVE  /\ IsArray(PutAt(a, i, e)) /\ SameButElements(a, PutAt(a, i, e))
         /\ \A j \in 1 .. Size(a) :
                PutAt(a, i, e).content[j].value = IF j = i + 1 THEN e.value ELSE a.content[j].value
<1> DEFINE c == [a.content EXCEPT ![i + 1] = SetValue(@, e)]
<1>1. a.content \in [1 .. Size(a) -> Elements(a.sub)]
  BY DEF IsArray
<1>2. /\ DOMAIN c = 1 .. Size(a)
      /\ \A j \in 1 .. Size(a) : c[j] = IF j = i + 1 THEN SetValue(a.content[j], e) ELSE a.content[j]
  BY <1>1
<1>3. c = [j \in 1 .. Size(a) |-> c[j]]
  BY <1>1
<1>4. PutAt(a, i, e) = [a EXCEPT !.content = c]
  BY DEF PutAt
<1> HIDE DEF c
<1>5. ASSUME NEW j \in 1 .. Size(a) PROVE c[j] \in Elements(a.sub)
  <2>1. PICK x \in Elements(a.sub) : x = a.content[j]
    BY <1>1
  <2>2. SetValue(x, e) \in Elements(a.sub)
    BY SetValueIs
  <2>3. QED
    BY <1>2, <2>1, <2>2
<1>6. c \in [1 .. Size(a) -> Elements(a.sub)]
  BY <1>3, <1>5
<1>7. ASSUME NEW j \in 1 .. Size(a)
      PROVE  c[j].value = IF j = i + 1 THEN e.value ELSE a.content[j].value
  <2>1. a.content[j] \in Elements(a.sub)
    BY <1>1
  <2>2. SetValue(a.content[j], e).value = e.value
    BY <2>1, SetValueIs
  <2>3. QED
    BY <1>2, <2>2
<1>8. IsArray(PutAt(a, i, e)) /\ SameButElements(a, PutAt(a, i, e)) /\ PutAt(a, i, e).content = c
  BY <1>4, <1>6, RefilledIs
<1>9. QED
  BY <1>7, <1>8

LEMMA SetStringIs ==
  ASSUME NEW a, IsArray(a), NEW text, Len(text) \in Nat
  PROVE  /\ IsArray(SetString(a, text)) /\ SameButElements(a, SetString(a, text))
         /\ \A j \in 1 .. Size(a) : SetString(a, text).content[j].value =
                IF j <= Len(text) /\ ~(CharPosition(text[j]) < 0) THEN CharPosition(text[j])
                                                                 ELSE a.content[j].value
<1> DEFINE c == [i \in 1 .. Size(a) |-> IF i <= Len(text) THEN SetChar(a.content[i], text[i]) ELSE a.content[i]]
<1>1. a.content \in [1 .. Size(a) -> Elements(a.sub)] /\ Size(a) \in Nat
  BY ContentIs DEF IsArray
<1>2. \A i \in 1 .. Size(a) : c[i] \in Elements(a.sub)
  BY <1>1, SetCharIs
<1>3. c \in [1 .. Size(a) -> Elements(a.sub)]
  BY <1>2
<1>4. \A j \in 1 .. Size(a) : c[j].value =
          IF j <= Len(text) /\ ~(CharPosition(text[j]) < 0) THEN CharPosition(text[j]) ELSE a.content[j].value
  BY <1>1, SetCharIs
<1>5. SetString(a, text) = [a EXCEPT !.content = c]
  BY ContentIs DEF SetString
<1> HIDE DEF c
<1>6. IsArray(SetString(a, text)) /\ SameButElements(a, SetString(a, text)) /\ SetString(a, text).content = c
  BY <1>3, <1>5, RefilledIs
<1>7. QED
  BY <1>4, <1>6

LEMMA LengthOfIs ==
  ASSUME NEW a, IsArray(a), NEW o, IsArray(o), a.range.byType = o.range.byType
  PROVE  /\ IsArray(LengthOf(a, o))
         /\ Size(LengthOf(a, o)) = Size(o)
         /\ LengthOf(a, o).range.byType = a.range.byType
         /\ Size(a) = Size(o) => LengthOf(a, o) = a
         /\ Size(a) # Size(o) => Spans(LengthOf(a, o), 1, Size(o), TRUE) /\ a.range.byType = FALSE
<1>1. HasHead(a) /\ HasHead(o)
  BY DEF IsArray
<1>2. CASE Size(a) = Size(o)
  BY <1>2 DEF LengthOf
<1>3. CASE Size(a) # Size(o)
  <2>1. a.range.byType = FALSE
    BY <1>1, <1>3, SizeIs DEF HasHead
  <2>2. Size(o) \in Nat \ {0} /\ Size(o) \in Int /\ 1 \in Int /\ TRUE \in BOOLEAN
    BY <1>1, SizeIs
  <2>3. LengthOf(a, o) = ConstrainTo(a, 1, Size(o), TRUE)
    BY <1>3 DEF LengthOf
  <2>4. \A n \in Int : /\ IsArray(ConstrainTo(a, 1, n, TRUE)) /\ Spans(ConstrainTo(a, 1, n, TRUE), 1, n, TRUE)
                        /\ ConstrainTo(a, 1, n, TRUE).range.byType = FALSE
    <3>1. \A l, n \in Int, up \in BOOLEAN :
              /\ IsArray(ConstrainTo(a, l, n, up)) /\ Spans(ConstrainTo(a, l, n, up), l, n, up)
              /\ ConstrainTo(a, l, n, up).range.byType = FALSE
      BY <1>1, <2>1, ConstrainToIs
    <3>2. PICK up \in BOOLEAN : up = TRUE
      OBVIOUS
    <3>3. PICK l \in Int : l = 1
      OBVIOUS
    <3>4. \A n \in Int : /\ IsArray(ConstrainTo(a, l, n, up)) /\ Spans(ConstrainTo(a, l, n, up), l, n, up)
                          /\ ConstrainTo(a, l, n, up).range.byType = FALSE
      BY <3>1
    <3>5. QED
      BY <3>2, <3>3, <3>4
  <2>5. /\ IsArray(LengthOf(a, o)) /\ Spans(LengthOf(a, o), 1, Size(o), TRUE)
        /\ LengthOf(a, o).range.byType = FALSE
    BY <2>2, <2>3, <2>4
  <2>6. \A b : IsArray(b) /\ Spans(b, 1, Size(o), TRUE) => Size(b) = Size(o)
    BY <2>2, SizeIs DEF IsArray, Spans
  <2>7. QED
    BY <1>3, <2>1, <2>5, <2>6
<1>4. QED
  BY <1>2, <1>3

LEMMA SetArrayIs ==
  ASSUME NEW a, IsArray(a), NEW o, IsArray(o), Size(a) = Size(o)
  PROVE  /\ IsArray(SetArray(a, o)) /\ SameButElements(a, SetArray(a, o))
         /\ \A j \in 1 .. Size(a) : SetArray(a, o).content[j].value = o.content[j].value
         /\ Copied(a, o)
<1> DEFINE c == [i \in 1 .. Size(a) |->
                    IF i <= Size(a) /\ i <= Len(o.content) THEN SetValue(a.content[i], o.content[i])
                                                          ELSE a.content[i]]
<1>1. a.content \in [1 .. Size(a) -> Elements(a.sub)] /\ Size(a) \in Nat
  BY ContentIs DEF IsArray
<1>2. \A i \in 1 .. Size(a) : i <= Size(a) /\ i <= Len(o.content) /\ o.content[i].value \in Int
  <2>1. Len(o.content) = Size(a) /\ o.content \in [1 .. Size(a) -> Elements(o.sub)]
    BY ContentIs DEF IsArray
  <2>2. QED
    BY <1>1, <2>1 DEF Elements
<1>3. ASSUME NEW i \in 1 .. Size(a)
      PROVE  c[i] \in Elements(a.sub) /\ c[i].value = o.content[i].value
  <2>1. c[i] = SetValue(a.content[i], o.content[i])
    BY <1>2
  <2>2. PICK x \in Elements(a.sub) : x = a.content[i]
    BY <1>1
  <2>3. PICK y : y = o.content[i] /\ y.value \in Int
    BY <1>2
  <2>4. SetValue(x, y) \in Elements(a.sub) /\ SetValue(x, y).value = y.value
    BY <2>3, SetValueIs
  <2>5. QED
    BY <2>1, <2>2, <2>3, <2>4
<1>4. c \in [1 .. Size(a) -> Elements(a.sub)]
  BY <1>3
<1>5. SetArray(a, o) = [a EXCEPT !.content = c]
  BY ContentIs DEF SetArray
<1> HIDE DEF c
<1>6. IsArray(SetArray(a, o)) /\ SameButElements(a, SetArray(a, o)) /\ SetArray(a, o).content = c
  BY <1>4, <1>5, RefilledIs
<1>7. Copied(a, o)
  BY <1>1, ContentIs DEF Copied
<1>8. QED
  BY <1>3, <1>6, <1>7

LEMMA SetOthersIs ==
  ASSUME NEW a, IsArray(a), NEW e, e.value \in Int
  PROVE  /\ IsArray(SetOthers(a, e)) /\ SameButElements(a, SetOthers(a, e))
         /\ \A j \in 1 .. Size(a) :
                SetOthers(a, e).content[j].value = IF j = Size(a) THEN a.content[j].value ELSE e.value
<1> DEFINE c == [i \in 1 .. Size(a) |->
                    IF i <= Size(a) - 1 THEN SetValue(a.content[i], e) ELSE a.content[i]]
<1>1. a.content \in [1 .. Size(a) -> Elements(a.sub)] /\ Size(a) \in Nat
  BY ContentIs DEF IsArray
<1>2. \A i \in 1 .. Size(a) :
          c[i] \in Elements(a.sub) /\ c[i].value = IF i = Size(a) THEN a.content[i].value ELSE e.value
  BY <1>1, SetValueIs
<1>3. c \in [1 .. Size(a) -> Elements(a.sub)]
  BY <1>2
<1>4. SetOthers(a, e) = [a EXCEPT !.content = c]
  BY ContentIs DEF SetOthers
<1> HIDE DEF c
<1>5. IsArray(SetOthers(a, e)) /\ SameButElements(a, SetOthers(a, e)) /\ SetOthers(a, e).content = c
  BY <1>3, <1>4, RefilledIs
<1>6. QED
  BY <1>2, <1>5

LEMMA SetIndexIs ==
  ASSUME NEW a, IsArray(a), NEW p \in Int, NEW e, e.value \in Int
  PROVE  /\ IsArray(SetIndex(a, p, e)) /\ SameButElements(a, SetIndex(a, p, e))
         /\ \A j \in 1 .. Size(a) :
                SetIndex(a, p, e).content[j].value = IF j = p + 1 THEN e.value ELSE a.content[j].value
<1>1. Len(a.content) = Size(a) /\ Size(a) \in Nat
  BY ContentIs
<1>2. CASE p \in 0 .. Len(a.content) - 1
  <2>1. SetIndex(a, p, e) = PutAt(a, p, e)
    BY <1>2 DEF SetIndex
  <2>2. QED
    BY <2>1, PutAtIs
<1>3. CASE p \notin 0 .. Len(a.content) - 1
  <2>1. SetIndex(a, p, e) = a
    BY <1>3 DEF SetIndex
  <2>2. \A j \in 1 .. Size(a) : j # p + 1
    BY <1>1, <1>3
  <2>3. QED
    BY <2>1, <2>2 DEF SameButElements
<1>4. QED
  BY <1>2, <1>3

-----------------------------------------------------------------------------
(* Aggregates: a chain of calls, each on what the one before it has left.  *)

CallRecords == [number : Int, value : Int]

IsAggregate(s) == s.others \in Int /\ s.listed \in Seq(Int) /\ s.named \in Seq(CallRecords)

\* What the calls begin with, and the array after each of them.
Start(a, s) == IF s.others = -1 THEN a ELSE SetOthers(a, [value |-> s.others])

Trace(a, s, g) ==
  g = [k \in 0 .. Len(Calls(s)) |->
          IF k = 0 THEN Start(a, s) ELSE SetIndex(g[k - 1], Calls(s)[k].number, Calls(s)[k])]

LEMMA CallsAre ==
  ASSUME NEW s, IsAggregate(s)
  PROVE  /\ Calls(s) \in Seq(CallRecords)
         /\ Len(s.listed) \in Nat /\ Len(s.named) \in Nat
         /\ Len(Calls(s)) = Len(s.listed) + Len(s.named)
         /\ \A k \in 1 .. Len(s.listed) :
                Calls(s)[k].number = k - 1 /\ Calls(s)[k].value = s.listed[k]
         /\ \A k \in 1 .. Len(s.named) : Calls(s)[Len(s.listed) + k] = s.named[k]
<1> DEFINE n == Len(s.listed)
           q == [i \in 1 .. n |-> [number |-> i - 1, value |-> s.listed[i]]]
<1>1. n \in Nat /\ DOMAIN s.listed = 1 .. n /\ s.listed \in [1 .. n -> Int]
  BY LenProperties DEF IsAggregate
<1>2. ASSUME NEW i \in 1 .. n PROVE q[i] \in CallRecords
  <2>1. PICK v \in Int : v = s.listed[i]
    BY <1>1
  <2>2. q[i] = [number |-> i - 1, value |-> v] /\ i - 1 \in Int
    BY <1>1, <2>1
  <2>3. QED
    BY <2>2 DEF CallRecords
<1>3. q \in [1 .. n -> CallRecords]
  BY <1>2
<1>4. q \in Seq(CallRecords) /\ Len(q) = n
  <2> HIDE DEF q, n
  <2> QED
    BY <1>1, <1>3, FunctionIsSequence
<1>6. s.named \in Seq(CallRecords) /\ Len(s.named) \in Nat
  BY LenProperties DEF IsAggregate
<1>7. Calls(s) = q \o s.named
  BY <1>1 DEF Calls
<1>8. \A i \in 1 .. n : q[i].number = i - 1 /\ q[i].value = s.listed[i]
  OBVIOUS
<1> HIDE DEF q
<1>9. /\ q \o s.named \in Seq(CallRecords)
      /\ Len(q \o s.named) = Len(q) + Len(s.named)
      /\ \A i \in 1 .. Len(q) + Len(s.named) :
             (q \o s.named)[i] = IF i <= Len(q) THEN q[i] ELSE s.named[i - Len(q)]
  BY <1>4, <1>6, ConcatProperties
<1> HIDE DEF n
<1>10. \A i \in 1 .. n + Len(s.named) : Calls(s)[i] = IF i <= n THEN q[i] ELSE s.named[i - n]
  BY <1>4, <1>7, <1>9
<1>11. \A k \in 1 .. Len(s.named) : n + k \in 1 .. n + Len(s.named) /\ ~(n + k <= n) /\ n + k - n = k
  BY <1>1, <1>6
<1>12. \A k \in 1 .. n : k \in 1 .. n + Len(s.named) /\ k <= n
  BY <1>1, <1>6
<1>13. QED
  BY <1>1, <1>4, <1>6, <1>7, <1>8, <1>9, <1>10, <1>11, <1>12 DEF n

LEMMA TraceExists ==
  ASSUME NEW a, NEW s, IsAggregate(s)
  PROVE  \E g : Trace(a, s, g) /\ Aggregated(a, s) = g[Len(Calls(s))]
<1> DEFINE n == Len(Calls(s))
           At(g, k) == IF k = 0 THEN Start(a, s) ELSE SetIndex(g[k - 1], Calls(s)[k].number, Calls(s)[k])
           S == {k \in 0 .. n : \E g : g = [j \in 0 .. k |-> At(g, j)]}
<1>1. n \in Nat
  BY CallsAre, LenProperties
<1>2. 0 \in S
  <2>1. [j \in 0 .. 0 |-> Start(a, s)] = [j \in 0 .. 0 |-> At([i \in 0 .. 0 |-> Start(a, s)], j)]
    OBVIOUS
  <2>2. \E g : g = [j \in 0 .. 0 |-> At(g, j)]
    <3> HIDE DEF At
    <3> QED
      BY <2>1
  <2>3. QED
    BY <1>1, <2>2
<1>3. ASSUME NEW k \in 0 .. n - 1, k \in S PROVE k + 1 \in S
  <2>1. PICK g : g = [j \in 0 .. k |-> At(g, j)]
    BY <1>3
  <2> DEFINE h == [j \in 0 .. k + 1 |-> IF j = k + 1 THEN At(g, j) ELSE g[j]]
  <2>2. ASSUME NEW j \in 0 .. k + 1 PROVE h[j] = At(h, j)
    <3>1. CASE j = 0
      <4>1. h[j] = g[j] /\ j \in 0 .. k
        BY <1>1, <3>1
      <4>2. g[j] = At(g, j)
        BY <2>1, <4>1
      <4>3. QED
        BY <3>1, <4>1, <4>2
    <3>2. CASE j # 0
      <4>1. j - 1 \in 0 .. k + 1 /\ j - 1 # k + 1 /\ j - 1 \in 0 .. k
        BY <1>1, <3>2
      <4>2. h[j - 1] = g[j - 1]
        BY <4>1
      <4>3. At(h, j) = At(g, j)
        BY <3>2, <4>2
      <4>4. CASE j = k + 1
        BY <4>3, <4>4
      <4>5. CASE j # k + 1
        <5>1. j \in 0 .. k
          BY <1>1, <4>5
        <5>2. h[j] = g[j] /\ g[j] = At(g, j)
          BY <2>1, <4>5, <5>1
        <5>3. QED
          BY <4>3, <5>2
      <4>6. QED
        BY <4>4, <4>5
    <3>3. QED
      BY <3>1, <3>2
  <2>3. h = [j \in 0 .. k + 1 |-> h[j]]
    OBVIOUS
  <2>4. h = [j \in 0 .. k + 1 |-> At(h, j)]
    <3> HIDE DEF At
    <3> QED
      BY <2>2, <2>3
  <2>5. k + 1 \in 0 .. n
    BY <1>1
  <2> HIDE DEF h
  <2>6. QED
    BY <2>4, <2>5
<1>4. n \in S
  <2> HIDE DEF S, n
  <2>1. \A k \in 0 .. n - 1 : k \in S => k + 1 \in S
    BY <1>3
  <2>2. QED
    BY <1>1, <1>2, <2>1, RangeInduction
<1>5. \E g : Trace(a, s, g)
  BY <1>4 DEF Trace
<1>6. Aggregated(a, s) = (CHOOSE g : Trace(a, s, g))[n]
  BY DEF Aggregated, Trace, Start
<1>7. QED
  BY <1>5, <1>6

\* Each call leaves an array of the same range.
LEMMA TraceIs ==
  ASSUME NEW a, IsArray(a), NEW s, IsAggregate(s), NEW g, Trace(a, s, g)
  PROVE  /\ \A k \in 0 .. Len(Calls(s)) : IsArray(g[k]) /\ SameButElements(a, g[k])
         /\ g[0] = Start(a, s)
         /\ \A k \in 1 .. Len(Calls(s)) :
                g[k] = SetIndex(g[k - 1], Calls(s)[k].number, Calls(s)[k])
<1>1. PICK n \in Nat : n = Len(Calls(s))
  BY CallsAre, LenProperties
<1>2. \A k \in 1 .. n : Calls(s)[k].number \in Int /\ Calls(s)[k].value \in Int
  <2>1. Calls(s) \in [1 .. n -> CallRecords]
    BY <1>1, CallsAre, LenProperties
  <2>2. QED
    BY <2>1 DEF CallRecords
<1>3. g[0] = Start(a, s)
  BY <1>1 DEF Trace
<1>4. \A k \in 1 .. n : g[k] = SetIndex(g[k - 1], Calls(s)[k].number, Calls(s)[k])
  <2>1. \A k \in 1 .. n : k \in 0 .. n /\ k # 0
    BY <1>1
  <2>2. QED
    BY <1>1, <2>1 DEF Trace
<1> DEFINE S == {k \in 0 .. n : IsArray(g[k]) /\ SameButElements(a, g[k])}
<1>5. 0 \in S
  <2>1. IsArray(Start(a, s)) /\ SameButElements(a, Start(a, s))
    <3>1. CASE s.others = -1
      BY <3>1 DEF Start, SameButElements
    <3>2. CASE s.others # -1
      <4>1. Start(a, s) = SetOthers(a, [value |-> s.others])
        BY <3>2 DEF Start
      <4>2. [value |-> s.others].value \in Int
        BY DEF IsAggregate
      <4>3. QED
        BY <4>1, <4>2, SetOthersIs
    <3>3. QED
      BY <3>1, <3>2
  <2>2. QED
    BY <1>1, <1>3, <2>1
<1>6. ASSUME NEW k \in 0 .. n - 1, k \in S PROVE k + 1 \in S
  <2>1. k + 1 \in 1 .. n /\ k + 1 - 1 = k /\ k + 1 \in 0 .. n
    BY <1>1
  <2>2. PICK m \in 1 .. n : m = k + 1
    BY <2>1
  <2>3. g[m] = SetIndex(g[k], Calls(s)[m].number, Calls(s)[m])
    BY <1>4, <2>1, <2>2
  <2>4. IsArray(g[m]) /\ SameButElements(g[k], g[m])
    BY <1>2, <1>6, <2>3, SetIndexIs
  <2>5. SameButElements(a, g[m])
    BY <1>6, <2>4 DEF SameButElements
  <2>6. QED
    BY <2>1, <2>2, <2>4, <2>5
<1>7. 0 .. n \subseteq S
  <2> HIDE DEF S
  <2> QED
    BY <1>5, <1>6, RangeInduction
<1>8. QED
  BY <1>1, <1>3, <1>4, <1>7

LEMMA AggregatedIs ==
  ASSUME NEW a, IsArray(a), NEW s, IsAggregate(s)
  PROVE  IsArray(Aggregated(a, s)) /\ SameButElements(a, Aggregated(a, s))
<1>1. PICK g : Trace(a, s, g) /\ Aggregated(a, s) = g[Len(Calls(s))]
  BY TraceExists
<1>2. Len(Calls(s)) \in 0 .. Len(Calls(s))
  <2>1. Len(Calls(s)) \in Nat
    BY CallsAre, LenProperties
  <2>2. QED
    BY <2>1
<1>3. QED
  BY <1>1, <1>2, TraceIs

\* An element has the value of the last call for it, or what it had at the start.
LEMMA TraceValues ==
  ASSUME NEW a, IsArray(a), NEW s, IsAggregate(s), NEW j \in 1 .. Size(a)
  PROVE  LET c == Calls(s)
             v == Aggregated(a, s).content[j].value
         IN  \/ /\ \A i \in 1 .. Len(c) : c[i].number # j - 1
                /\ v = Start(a, s).content[j].value
             \/ \E i \in 1 .. Len(c) :
                    /\ c[i].number = j - 1
                    /\ \A m \in i + 1 .. Len(c) : c[m].number # j - 1
                    /\ v = c[i].value
<1>1. PICK g : Trace(a, s, g) /\ Aggregated(a, s) = g[Len(Calls(s))]
  BY TraceExists
<1>2. PICK n \in Nat : n = Len(Calls(s))
  BY CallsAre, LenProperties
<1>3. PICK c : c = Calls(s)
  OBVIOUS
<1>4. \A k \in 1 .. n : c[k].number \in Int /\ c[k].value \in Int
  <2>1. c \in [1 .. n -> CallRecords]
    BY <1>2, <1>3, CallsAre, LenProperties
  <2>2. QED
    BY <2>1 DEF CallRecords
<1>5. /\ \A k \in 0 .. n : IsArray(g[k]) /\ SameButElements(a, g[k])
      /\ g[0] = Start(a, s)
      /\ \A k \in 1 .. n : g[k] = SetIndex(g[k - 1], c[k].number, c[k])
  BY <1>1, <1>2, <1>3, TraceIs
<1> DEFINE Untouched(k) == /\ \A i \in 1 .. k : c[i].number # j - 1
                           /\ g[k].content[j].value = Start(a, s).content[j].value
           LastIs(k, i) == /\ c[i].number = j - 1
                           /\ \A m \in i + 1 .. k : c[m].number # j - 1
                           /\ g[k].content[j].value = c[i].value
           S == {k \in 0 .. n : Untouched(k) \/ \E i \in 1 .. k : LastIs(k, i)}
<1>6. 0 \in S
  BY <1>5
<1>7. ASSUME NEW k \in 0 .. n - 1, k \in S PROVE k + 1 \in S
  <2>1. PICK m \in 1 .. n : m = k + 1 /\ m - 1 = k /\ m \in 0 .. n /\ k \in 0 .. n
    BY <1>2
  <2>2. g[m] = SetIndex(g[k], c[m].number, c[m])
    BY <1>5, <2>1
  <2>3. IsArray(g[k]) /\ Size(g[k]) = Size(a)
    BY <1>5, <2>1 DEF SameButElements
  <2>4. g[m].content[j].value = IF j = c[m].number + 1 THEN c[m].value ELSE g[k].content[j].value
    BY <1>4, <2>2, <2>3, SetIndexIs
  <2>5. j \in Int /\ c[m].number \in Int
    BY <1>4, SizeIs DEF IsArray
  <2>6. CASE c[m].number = j - 1
    <3>1. g[m].content[j].value = c[m].value
      BY <2>4, <2>5, <2>6
    <3>2. \A x \in m + 1 .. m : c[x].number # j - 1
      BY <2>1
    <3>3. LastIs(m, m)
      BY <2>6, <3>1, <3>2
    <3>4. m \in 1 .. m
      BY <2>1
    <3> HIDE DEF LastIs
    <3>5. QED
      BY <2>1, <3>3, <3>4
  <2>7. CASE c[m].number # j - 1
    <3>1. g[m].content[j].value = g[k].content[j].value
      BY <2>4, <2>5, <2>7
    <3>2. CASE Untouched(k)
      <4>1. \A i \in 1 .. m : i \in 1 .. k \/ i = m
        BY <2>1
      <4>2. \A i \in 1 .. m : c[i].number # j - 1
        BY <2>7, <3>2, <4>1
      <4>3. Untouched(m)
        BY <3>1, <3>2, <4>2
      <4> HIDE DEF Untouched
      <4>4. QED
        BY <2>1, <4>3
    <3>3. CASE \E i \in 1 .. k : LastIs(k, i)
      <4>1. PICK i \in 1 .. k : LastIs(k, i)
        BY <3>3
      <4>2. \A x \in i + 1 .. m : x \in i + 1 .. k \/ x = m
        BY <2>1
      <4>3. \A x \in i + 1 .. m : c[x].number # j - 1
        BY <2>7, <4>1, <4>2
      <4>4. LastIs(m, i)
        BY <3>1, <4>1, <4>3
      <4>5. i \in 1 .. m
        BY <2>1
      <4> HIDE DEF LastIs
      <4>6. QED
        BY <2>1, <4>4, <4>5
    <3>4. QED
      BY <1>7, <3>2, <3>3
  <2>8. QED
    BY <2>1, <2>6, <2>7
<1>8. n \in S
  <2>1. 0 .. n \subseteq S
    <3> HIDE DEF S
    <3> QED
      BY <1>6, <1>7, RangeInduction
  <2>2. n \in 0 .. n
    OBVIOUS
  <2> HIDE DEF S
  <2>3. QED
    BY <2>1, <2>2
<1>9. Untouched(n) \/ \E i \in 1 .. n : LastIs(n, i)
  BY <1>8
<1>10. QED
  BY <1>1, <1>2, <1>3, <1>9

-----------------------------------------------------------------------------
(* The statements of a process, by their kinds.                            *)

Named(names, typed, aliased) == typed \subseteq names /\ aliased \in names

\* The fields of an aggregate.
HasFields(s) == DOMAIN s = {"kind", "to", "others", "listed", "named"}

IsIndex(i) == i.number \in Int /\ i.char \in BOOLEAN

LEMMA StatementIs ==
  ASSUME NEW names, NEW typed, NEW aliased, Named(names, typed, aliased),
         NEW s \in Statements(names, typed, aliased)
  PROVE  /\ s.kind = "element" => /\ s.to \in names /\ IsIndex(s.index) /\ s.value \in Int
                                  /\ s.index.char => s.to \in typed
         /\ s.kind = "alias" => /\ s.to = aliased /\ IsIndex(s.index) /\ s.value \in Int
                                /\ s.index.char = FALSE
         /\ s.kind = "array" => /\ s.to \in names /\ s.from \in names
                                /\ s.to \in typed <=> s.from \in typed
         /\ s.kind = "string" => s.to \in names /\ s.text \in Seq(STRING)
         /\ s.kind = "aggregate" => /\ s.to \in names /\ IsAggregate(s)
                                    /\ HasFields(s)
         /\ s.kind = "time" => s.amount \in Times
         /\ s.kind = "loop" => /\ s.to \in names /\ s.value \in Int /\ s.byType \in BOOLEAN
                               /\ s.range.left \in Int /\ s.range.right \in Int
<1>1. Positions \subseteq Int
  BY SIZEIs DEF Positions
<1>2. \A c \in {{FALSE}, {TRUE}} : \A i \in Indexes(c) : IsIndex(i) /\ i.char \in c
  BY DEF Indexes, IsIndex
<1>3. CASE s \in [kind : {"element"}, to : names, index : Indexes({FALSE}), value : Positions]
  BY <1>1, <1>2, <1>3
<1>4. CASE s \in [kind : {"element"}, to : typed, index : Indexes({TRUE}), value : Positions]
  BY <1>1, <1>2, <1>4 DEF Named
<1>5. CASE s \in [kind : {"alias"}, to : {aliased}, index : Indexes({FALSE}), value : Positions]
  BY <1>1, <1>2, <1>5
<1>6. CASE s \in [kind : {"array"}, to : typed, from : typed]
  BY <1>6 DEF Named
<1>7. CASE s \in [kind : {"array"}, to : names \ typed, from : names \ typed]
  BY <1>7
<1>8. CASE s \in [kind : {"string"}, to : names, text : Seq(STRING)]
  BY <1>8
<1>9. CASE s \in [kind : {"aggregate"}, to : names, others : {-1} \cup Positions, listed : Seq(Positions),
                  named : Seq([number : Int, value : Positions])]
  <2>1. [number : Int, value : Positions] \subseteq CallRecords
    BY <1>1 DEF CallRecords
  <2>2. /\ Seq(Positions) \subseteq Seq(Int)
        /\ Seq([number : Int, value : Positions]) \subseteq Seq(CallRecords)
    BY <1>1, <2>1, SeqMonotonic
  <2>3. {-1} \cup Positions \subseteq Int
    BY <1>1
  <2>4. QED
    BY <1>9, <2>2, <2>3 DEF IsAggregate, HasFields
<1>10. CASE s \in [kind : {"time"}, amount : Times]
  BY <1>10
<1>11. CASE s \in [kind : {"write"}, text : Seq(STRING)] \cup [kind : {"writeline"}]
  BY <1>11
<1>12. CASE s \in [kind : {"loop"}, to : names, range : Ranges, byType : BOOLEAN, value : Positions]
  BY <1>1, <1>12 DEF Ranges
<1>13. QED
  BY <1>3, <1>4, <1>5, <1>6, <1>7, <1>8, <1>9, <1>10, <1>11, <1>12 DEF Statements

-----------------------------------------------------------------------------
(* The inductive invariant.                                                *)

Typed(as) == {n \in DOMAIN as : as[n].range.byType}

ArraysAre(as) == as = [n \in DOMAIN as |-> as[n]] /\ \A n \in DOMAIN as : IsArray(as[n])

AliasIs(as, al) ==
  /\ al.to \in DOMAIN as
  /\ al.range.left \in Int
  /\ al.range.right \in Int
  /\ al.range.ascending \in BOOLEAN
  /\ al.range.byType = FALSE

LoopIs(l, p) ==
  /\ DOMAIN l = {"phase", "of", "var", "seen"}
  /\ l.phase = "running" => /\ l.of \in p /\ l.of.kind = "loop"
                            /\ l.var.value \in Int /\ "value" \in DOMAIN l.var

IInv ==
  /\ ArraysAre(arrays)
  /\ AliasIs(arrays, alias)
  /\ program \subseteq Statements(DOMAIN arrays, Typed(arrays), alias.to)
  /\ elapsed \in Times
  /\ LoopIs(loop, program)

\* What an assignment to one array does to the arrays.
OneChanged(as, bs, to) ==
  \E b : /\ to \in DOMAIN as /\ IsArray(b) /\ b.range.byType = as[to].range.byType
         /\ bs = [as EXCEPT ![to] = b]

LEMMA OneChangedIs ==
  ASSUME NEW as, ArraysAre(as), NEW bs, NEW to, OneChanged(as, bs, to)
  PROVE  ArraysAre(bs) /\ DOMAIN bs = DOMAIN as /\ Typed(bs) = Typed(as)
<1>1. PICK b : /\ to \in DOMAIN as /\ IsArray(b) /\ b.range.byType = as[to].range.byType
               /\ bs = [as EXCEPT ![to] = b]
  BY DEF OneChanged
<1>2. DOMAIN bs = DOMAIN as /\ \A n \in DOMAIN as : bs[n] = IF n = to THEN b ELSE as[n]
  BY <1>1
<1>3. bs = [n \in DOMAIN bs |-> bs[n]]
  BY <1>1
<1>4. \A n \in DOMAIN bs : IsArray(bs[n])
  BY <1>1, <1>2 DEF ArraysAre
<1>5. \A n \in DOMAIN as : bs[n].range.byType = as[n].range.byType
  BY <1>1, <1>2
<1>6. QED
  BY <1>2, <1>3, <1>4, <1>5 DEF ArraysAre, Typed

LEMMA PutIs ==
  ASSUME NEW as, ArraysAre(as), NEW to \in DOMAIN as, NEW i \in Int, NEW e, e.value \in Int
  PROVE  OneChanged(as, [as EXCEPT ![to] = PutAt(@, i, e)], to)
<1>1. IsArray(as[to])
  BY DEF ArraysAre
<1>2. IsArray(PutAt(as[to], i, e)) /\ PutAt(as[to], i, e).range = as[to].range
  <2>1. PICK a : a = as[to]
    OBVIOUS
  <2>2. IsArray(a)
    BY <1>1, <2>1
  <2>3. IsArray(PutAt(a, i, e)) /\ PutAt(a, i, e).range = a.range
    BY <2>2, PutAtIs DEF SameButElements
  <2>4. QED
    BY <2>1, <2>3
<1>3. QED
  BY <1>2 DEF OneChanged

LEMMA IndexIs ==
  ASSUME NEW r, r.left \in Int, NEW index, IsIndex(index)
  PROVE  AbsoluteIndex(r, index) \in Int
<1>1. IndexOf(r, index) \in Int
  BY DEF IndexOf, RelativePosition, IsIndex
<1>2. LeftPosition(r) \in Int
  BY DEF LeftPosition, RelativePosition
<1>3. QED
  BY <1>1, <1>2 DEF AbsoluteIndex, ConvertIndex

LEMMA InitInv == Init => IInv
<1> SUFFICES ASSUME Init PROVE IInv
  OBVIOUS
<1>1. PICK d \in DESIGNS :
        /\ program = d.statements
        /\ arrays = [n \in DOMAIN d.arrays |-> Declared(d.arrays[n])]
        /\ alias = Aliased(d.alias)
        /\ elapsed = d.elapsed
        /\ loop = NoLoop
  BY DEF Init
<1>2. /\ \A n \in DOMAIN d.arrays : d.arrays[n] \in Declarations
      /\ d.alias.to \in DOMAIN d.arrays
      /\ d.alias.range.left \in Int /\ d.alias.range.right \in Int /\ d.alias.range.ascending \in BOOLEAN
      /\ d.elapsed \in Times
      /\ d.statements \subseteq
             Statements(DOMAIN d.arrays, {n \in DOMAIN d.arrays : d.arrays[n].type.byType}, d.alias.to)
  <2>1. d.alias \in [to : DOMAIN d.arrays, range : Ranges]
    BY DesignsAssumption
  <2>2. d.alias.to \in DOMAIN d.arrays /\ d.alias.range \in Ranges
    BY <2>1
  <2>3. d.alias.range.left \in Int /\ d.alias.range.right \in Int /\ d.alias.range.ascending \in BOOLEAN
    BY <2>2 DEF Ranges
  <2>4. QED
    BY <2>2, <2>3, DesignsAssumption
<1>3. /\ DOMAIN arrays = DOMAIN d.arrays
      /\ \A n \in DOMAIN arrays : /\ IsArray(arrays[n])
                                  /\ arrays[n].range.byType = d.arrays[n].type.byType
  BY <1>1, <1>2, DeclaredIs
<1>4. arrays = [n \in DOMAIN arrays |-> arrays[n]]
  BY <1>1
<1>5. Typed(arrays) = {n \in DOMAIN d.arrays : d.arrays[n].type.byType}
  BY <1>3 DEF Typed
<1>6. alias.to = d.alias.to /\ AliasIs(arrays, alias)
  <2> DEFINE c == ConstrainTo(NewArray(FALSE), d.alias.range.left, d.alias.range.right,
                              d.alias.range.ascending)
  <2>1. alias.to = d.alias.to /\ alias.range = c.range
    BY <1>1 DEF Aliased
  <2>2. \A t \in BOOLEAN : t = FALSE => HasHead(NewArray(t)) /\ NewArray(t).range.byType = FALSE
    BY NewIs
  <2>3. HasHead(NewArray(FALSE)) /\ NewArray(FALSE).range.byType = FALSE
    BY <2>2
  <2>4. IsArray(c) /\ c.range.byType = FALSE
    BY <1>2, <2>3, ConstrainToIs
  <2> HIDE DEF c
  <2>5. QED
    BY <1>2, <1>3, <2>1, <2>4 DEF AliasIs, IsArray, HasHead
<1>7. LoopIs(loop, program)
  BY <1>1 DEF LoopIs, NoLoop
<1>8. QED
  BY <1>1, <1>2, <1>3, <1>4, <1>5, <1>6, <1>7 DEF IInv, ArraysAre

-----------------------------------------------------------------------------
(* Every step keeps it: it changes one array, or none.                     *)

ArraysStep == arrays' = arrays \/ \E to : OneChanged(arrays, arrays', to)

LEMMA KeepsInv ==
  ASSUME IInv, ArraysStep, UNCHANGED <<program, alias>>, elapsed' \in Times, LoopIs(loop', program)
  PROVE  IInv'
<1>1. ArraysAre(arrays') /\ DOMAIN arrays' = DOMAIN arrays /\ Typed(arrays') = Typed(arrays)
  <2>1. CASE arrays' = arrays
    BY <2>1 DEF IInv
  <2>2. CASE \E to : OneChanged(arrays, arrays', to)
    BY <2>2, OneChangedIs DEF IInv
  <2>3. QED
    BY <2>1, <2>2 DEF ArraysStep
<1>2. AliasIs(arrays', alias)
  BY <1>1 DEF IInv, AliasIs
<1>3. QED
  BY <1>1, <1>2 DEF IInv

\* The statement that is executed, and the parts of the state it works on.
LEMMA OfProgram ==
  ASSUME IInv, NEW s \in program
  PROVE  /\ s \in Statements(DOMAIN arrays, Typed(arrays), alias.to)
         /\ Named(DOMAIN arrays, Typed(arrays), alias.to)
BY DEF IInv, Named, Typed, AliasIs

LEMMA StepKeepsLoop ==
  ASSUME IInv, loop' = loop, UNCHANGED program
  PROVE  LoopIs(loop', program)
BY DEF IInv

LEMMA RangeIs ==
  ASSUME IInv, NEW n \in DOMAIN arrays
  PROVE  IsArray(arrays[n]) /\ arrays[n].range.left \in Int
BY DEF IInv, ArraysAre, IsArray, HasHead

LEMMA ElementStep ==
  ASSUME IInv, NEW s \in program, AssignElement(s)
  PROVE  ArraysStep /\ UNCHANGED <<elapsed, loop>>
<1>1. s.kind = "element"
  BY DEF AssignElement
<1>2. s.to \in DOMAIN arrays /\ IsIndex(s.index) /\ s.value \in Int
  BY <1>1, OfProgram, StatementIs
<1> DEFINE i == AbsoluteIndex(arrays[s.to].range, s.index)
<1>3. i \in Int
  BY <1>2, RangeIs, IndexIs
<1>4. arrays' = arrays \/ arrays' = [arrays EXCEPT ![s.to] = PutAt(@, i, s)]
  BY DEF AssignElement, Unless
<1> HIDE DEF i
<1>5. OneChanged(arrays, [arrays EXCEPT ![s.to] = PutAt(@, i, s)], s.to)
  BY <1>2, <1>3, PutIs DEF IInv
<1>6. QED
  BY <1>4, <1>5 DEF ArraysStep, AssignElement

LEMMA AliasStep ==
  ASSUME IInv, NEW s \in program, AssignAlias(s)
  PROVE  ArraysStep /\ UNCHANGED <<elapsed, loop>>
<1>1. s.kind = "alias"
  BY DEF AssignAlias
<1>2. alias.to \in DOMAIN arrays /\ alias.range.left \in Int /\ IsIndex(s.index) /\ s.value \in Int
  BY <1>1, OfProgram, StatementIs DEF IInv, AliasIs
<1> DEFINE i == AbsoluteIndex(alias.range, s.index)
<1>3. i \in Int
  BY <1>2, IndexIs
<1>4. arrays' = arrays \/ arrays' = [arrays EXCEPT ![alias.to] = PutAt(@, i, s)]
  BY DEF AssignAlias, Unless
<1> HIDE DEF i
<1>5. OneChanged(arrays, [arrays EXCEPT ![alias.to] = PutAt(@, i, s)], alias.to)
  BY <1>2, <1>3, PutIs DEF IInv
<1>6. QED
  BY <1>4, <1>5 DEF ArraysStep, AssignAlias

\* The kinds of arrays that are assigned to each other agree.
LEMMA SameKind ==
  ASSUME IInv, NEW s \in program, s.kind = "array"
  PROVE  /\ s.to \in DOMAIN arrays /\ s.from \in DOMAIN arrays
         /\ IsArray(arrays[s.to]) /\ IsArray(arrays[s.from])
         /\ arrays[s.to].range.byType = arrays[s.from].range.byType
<1>1. /\ s.to \in DOMAIN arrays /\ s.from \in DOMAIN arrays
      /\ s.to \in Typed(arrays) <=> s.from \in Typed(arrays)
  BY OfProgram, StatementIs
<1>2. IsArray(arrays[s.to]) /\ IsArray(arrays[s.from])
  BY <1>1 DEF IInv, ArraysAre
<1>3. arrays[s.to].range.byType \in BOOLEAN /\ arrays[s.from].range.byType \in BOOLEAN
  BY <1>2 DEF IsArray, HasHead
<1>4. arrays[s.to].range.byType <=> arrays[s.from].range.byType
  BY <1>1 DEF Typed
<1>5. QED
  BY <1>1, <1>2, <1>3, <1>4

LEMMA ArrayStep ==
  ASSUME IInv, NEW s \in program, AssignArray(s)
  PROVE  ArraysStep /\ UNCHANGED <<elapsed, loop>>
<1>1. s.kind = "array"
  BY DEF AssignArray
<1>2. PICK a, o : a = arrays[s.to] /\ o = arrays[s.from]
  OBVIOUS
<1>3. s.to \in DOMAIN arrays /\ IsArray(a) /\ IsArray(o) /\ a.range.byType = o.range.byType
  BY <1>1, <1>2, SameKind
<1> DEFINE b == LengthOf(a, o)
           c == SetArray(b, o)
<1>4. IsArray(b) /\ Size(b) = Size(o) /\ b.range.byType = a.range.byType
  BY <1>3, LengthOfIs
<1>5. IsArray(c) /\ c.range.byType = a.range.byType
  <2> HIDE DEF b
  <2> QED
    BY <1>3, <1>4, SetArrayIs DEF SameButElements
<1>6. arrays' = [arrays EXCEPT ![s.to] = c]
  BY <1>2 DEF AssignArray
<1> HIDE DEF c
<1>7. OneChanged(arrays, arrays', s.to)
  BY <1>2, <1>3, <1>5, <1>6 DEF OneChanged
<1>8. QED
  BY <1>7 DEF ArraysStep, AssignArray

LEMMA StringStep ==
  ASSUME IInv, NEW s \in program, AssignString(s)
  PROVE  ArraysStep /\ UNCHANGED <<elapsed, loop>>
<1>1. s.kind = "string"
  BY DEF AssignString
<1>2. s.to \in DOMAIN arrays /\ s.text \in Seq(STRING)
  BY <1>1, OfProgram, StatementIs
<1>3. PICK a : a = arrays[s.to]
  OBVIOUS
<1>4. IsArray(a) /\ Len(s.text) \in Nat
  BY <1>2, <1>3, RangeIs, LenProperties
<1>5. IsArray(SetString(a, s.text)) /\ SetString(a, s.text).range = a.range
  BY <1>4, SetStringIs DEF SameButElements
<1>6. arrays' = arrays \/ arrays' = [arrays EXCEPT ![s.to] = SetString(a, s.text)]
  BY <1>3 DEF AssignString, Unless
<1>7. arrays' = arrays \/ OneChanged(arrays, arrays', s.to)
  BY <1>2, <1>3, <1>5, <1>6 DEF OneChanged
<1>8. QED
  BY <1>7 DEF ArraysStep, AssignString

\* What is left of an aggregate when a call throws is an aggregate too.
LEMMA BeforeThrowIs ==
  ASSUME NEW a, NEW s, IsAggregate(s), HasFields(s),
         \E k \in DOMAIN Calls(s) : AtThrows(a, Calls(s)[k].number)
  PROVE  IsAggregate(BeforeThrow(a, s))
<1>1. PICK n \in Nat : n = Len(Calls(s))
  BY CallsAre, LenProperties
<1>2. Calls(s) \in [1 .. n -> CallRecords] /\ DOMAIN Calls(s) = 1 .. n
  BY <1>1, CallsAre, LenProperties
<1> DEFINE T == {k \in 1 .. n : AtThrows(a, Calls(s)[k].number)}
           first == CHOOSE k \in DOMAIN Calls(s) :
                        /\ AtThrows(a, Calls(s)[k].number)
                        /\ \A j \in 1 .. k - 1 : ~AtThrows(a, Calls(s)[j].number)
<1>3. first \in 1 .. n
  <2>1. T \in SUBSET Nat /\ T # {}
    BY <1>1, <1>2
  <2>2. PICK k \in T : \A j \in T : k <= j
    BY <2>1, LeastIs
  <2>3. k \in DOMAIN Calls(s) /\ AtThrows(a, Calls(s)[k].number)
    BY <1>2
  <2>4. \A j \in 1 .. k - 1 : j \in 1 .. n /\ ~(k <= j)
    BY <1>1
  <2>5. \A j \in 1 .. k - 1 : ~AtThrows(a, Calls(s)[j].number)
    BY <2>2, <2>4
  <2>6. first \in DOMAIN Calls(s)
    BY <2>3, <2>5
  <2>7. QED
    BY <1>2, <2>6
<1>4. BeforeThrow(a, s) = [s EXCEPT !.listed = <<>>, !.named = SubSeq(Calls(s), 1, first - 1)]
  BY DEF BeforeThrow
<1> HIDE DEF first
<1>5. SubSeq(Calls(s), 1, first - 1) \in Seq(CallRecords)
  <2>1. first - 1 \in Int /\ \A i \in 1 .. first - 1 : i \in 1 .. n
    BY <1>1, <1>3
  <2>2. \A i \in 1 .. first - 1 : Calls(s)[i] \in CallRecords
    BY <1>2, <2>1
  <2>3. QED
    BY <2>1, <2>2, SubSeqProperties
<1>6. /\ BeforeThrow(a, s).others = s.others
      /\ BeforeThrow(a, s).listed = <<>>
      /\ BeforeThrow(a, s).named = SubSeq(Calls(s), 1, first - 1)
  BY <1>4 DEF HasFields
<1>7. <<>> \in Seq(Int)
  BY EmptySeq
<1>8. QED
  BY <1>5, <1>6, <1>7 DEF IsAggregate

LEMMA AggregateStep ==
  ASSUME IInv, NEW s \in program, AssignAggregate(s)
  PROVE  /\ ArraysStep /\ UNCHANGED <<elapsed, loop>>
         /\ \E b : /\ IsArray(b) /\ SameButElements(arrays[s.to], b)
                   /\ arrays' = [arrays EXCEPT ![s.to] = b]
<1>1. s.kind = "aggregate"
  BY DEF AssignAggregate
<1>2. s.to \in DOMAIN arrays /\ IsAggregate(s) /\ HasFields(s)
  BY <1>1, OfProgram, StatementIs
<1>3. PICK a : a = arrays[s.to]
  OBVIOUS
<1>4. IsArray(a)
  BY <1>2, <1>3, RangeIs
<1> DEFINE throws == \E k \in DOMAIN Calls(s) : AtThrows(a, Calls(s)[k].number)
<1>5. PICK t : t = IF throws THEN BeforeThrow(a, s) ELSE s
  OBVIOUS
<1>6. IsAggregate(t)
  BY <1>2, <1>5, BeforeThrowIs
<1>7. arrays' = [arrays EXCEPT ![s.to] = Aggregated(a, t)]
  BY <1>3, <1>5 DEF AssignAggregate
<1>8. IsArray(Aggregated(a, t)) /\ SameButElements(a, Aggregated(a, t))
  BY <1>4, <1>6, AggregatedIs
<1>9. OneChanged(arrays, arrays', s.to)
  BY <1>2, <1>3, <1>7, <1>8 DEF OneChanged, SameButElements
<1>10. QED
  BY <1>3, <1>7, <1>8, <1>9 DEF ArraysStep, AssignAggregate

-----------------------------------------------------------------------------
(* Times: a sum exists when the units are the same.                        *)

LEMMA SameUnits ==
  ASSUME NEW p, NEW q, p.unit \in Int, q.unit \in Int
  PROVE  /\ Summable(p, q) <=> p.unit = q.unit
         /\ p.unit = q.unit => LowestUnit(p, q) = p.unit
<1>1. LowestUnit(p, q) = IF p.unit <= q.unit THEN p.unit ELSE q.unit
  BY DEF LowestUnit, Min
<1>2. QED
  BY <1>1 DEF Summable, Scalable

\* The product over no units is one.
LEMMA ScaleIs ==
  ASSUME NEW v \in Int, NEW u \in Nat \ {0}
  PROVE  Scale(v, u, u) = v
<1> DEFINE At(f, k) == IF k >= u THEN 1 ELSE UNITS[k] * f[k + 1]
           S == {k \in 0 .. u - 1 : \E f : f = [j \in u - k .. u |-> At(f, j)]}
<1>1. 0 \in S
  <2> DEFINE f == [j \in u .. u |-> 1]
  <2>1. f = [j \in u - 0 .. u |-> At(f, j)]
    OBVIOUS
  <2>2. \E g : g = [j \in u - 0 .. u |-> At(g, j)]
    <3> HIDE DEF At, f
    <3> QED
      BY <2>1
  <2>3. QED
    BY <2>2
<1>2. ASSUME NEW k \in 0 .. u - 2, k \in S PROVE k + 1 \in S
  <2>1. PICK f : f = [j \in u - k .. u |-> At(f, j)]
    BY <1>2
  <2> DEFINE first == u - (k + 1)
             h == [j \in first .. u |-> IF j = first THEN At(f, j) ELSE f[j]]
  <2>2. ASSUME NEW j \in first .. u PROVE h[j] = At(h, j)
    <3>1. j + 1 # first /\ (j + 1 <= u => j + 1 \in first .. u)
      OBVIOUS
    <3>2. j < u => h[j + 1] = f[j + 1]
      BY <3>1
    <3>3. At(h, j) = At(f, j)
      BY <3>2
    <3>4. CASE j = first
      BY <3>3, <3>4
    <3>5. CASE j # first
      <4>1. j \in u - k .. u
        BY <3>5
      <4>2. f[j] = At(f, j)
        BY <2>1, <4>1
      <4>3. QED
        BY <3>3, <3>5, <4>2
    <3>6. QED
      BY <3>4, <3>5
  <2>3. h = [j \in first .. u |-> h[j]]
    OBVIOUS
  <2>4. h = [j \in first .. u |-> At(h, j)]
    <3> HIDE DEF At
    <3> QED
      BY <2>2, <2>3
  <2>5. k + 1 \in 0 .. u - 1
    OBVIOUS
  <2> HIDE DEF h, At
  <2>6. QED
    BY <2>4, <2>5
<1>3. u - 1 \in S
  <2> HIDE DEF S
  <2>1. PICK n \in Nat : n = u - 1
    OBVIOUS
  <2>2. \A k \in 0 .. n - 1 : k \in S => k + 1 \in S
    BY <1>2, <2>1
  <2>3. 0 .. n \subseteq S
    BY <1>1, <2>2, RangeInduction
  <2>4. QED
    BY <2>1, <2>3
<1>4. u - (u - 1) = 1
  OBVIOUS
<1>5. \E f : f = [j \in 1 .. u |-> At(f, j)]
  BY <1>3, <1>4
<1> DEFINE factor == CHOOSE f : f = [j \in 1 .. u |-> At(f, j)]
<1>6. factor = [j \in 1 .. u |-> At(factor, j)]
  <2> HIDE DEF At
  <2> QED
    BY <1>5
<1>7. Scale(v, u, u) = v * factor[u]
  BY DEF Scale
<1> HIDE DEF factor
<1>8. factor[u] = 1
  BY <1>6
<1>9. QED
  BY <1>7, <1>8

LEMMA PlusIs ==
  ASSUME NEW p, NEW q, p.unit \in DOMAIN UNITS, q.unit = p.unit, p.value \in Int, q.value \in Int
  PROVE  Plus(p, q) = [value |-> p.value + q.value, unit |-> p.unit]
<1>1. p.unit \in Nat \ {0} /\ p.unit \in Int
  BY UnitsAssumption, LenProperties
<1>2. LowestUnit(p, q) = p.unit
  BY <1>1, SameUnits
<1>3. Scale(p.value, p.unit, p.unit) = p.value /\ Scale(q.value, p.unit, p.unit) = q.value
  BY <1>1, ScaleIs
<1>4. QED
  BY <1>2, <1>3 DEF Plus, Physical

-----------------------------------------------------------------------------
(* The remaining steps, and what all of them keep.                         *)

\* A time stays a number of one of the units.
LEMMA TimeStep ==
  ASSUME IInv, NEW s \in program, AddTime(s)
  PROVE  ArraysStep /\ elapsed' \in Times /\ UNCHANGED loop
<1>1. s.amount \in Times /\ elapsed \in Times
  BY OfProgram, StatementIs DEF IInv, AddTime
<1>2. CASE elapsed' = elapsed
  BY <1>1, <1>2 DEF AddTime, ArraysStep
<1>3. CASE Summable(elapsed, s.amount) /\ elapsed' = Plus(elapsed, s.amount)
  <2>1. elapsed.unit \in Int /\ s.amount.unit \in Int /\ elapsed.value \in Int /\ s.amount.value \in Int
    <3>1. DOMAIN UNITS \subseteq Int
      BY UnitsAssumption, LenProperties
    <3>2. QED
      BY <1>1, <3>1 DEF Times
  <2>2. elapsed.unit = s.amount.unit
    BY <1>3, <2>1, SameUnits
  <2>3. elapsed.unit \in DOMAIN UNITS
    BY <1>1 DEF Times
  <2>4. elapsed' = [value |-> elapsed.value + s.amount.value, unit |-> elapsed.unit]
    BY <1>3, <2>1, <2>2, <2>3, PlusIs
  <2>5. elapsed' \in Times
    BY <2>1, <2>3, <2>4 DEF Times
  <2>6. QED
    BY <2>5 DEF AddTime, ArraysStep
<1>4. QED
  BY <1>2, <1>3 DEF AddTime, Unless

LEMMA LoopStep ==
  ASSUME IInv, NEW s \in program, EnterLoop(s), UNCHANGED program
  PROVE  ArraysStep /\ UNCHANGED elapsed /\ LoopIs(loop', program)
<1> DEFINE v == LoopVariable(s)
<1>1. loop' = [phase |-> "running", of |-> s, var |-> [v EXCEPT !.value = v.left], seen |-> <<>>]
  BY DEF EnterLoop
<1>2. "value" \in DOMAIN v /\ v.left \in Int
  <2>1. CASE s.byType
    BY <2>1, SIZEIs DEF LoopVariable, Enumeration
  <2>2. CASE ~s.byType
    <3>1. v = RangeOf(s.range.left, s.range.right, s.range.ascending)
      BY <2>2 DEF LoopVariable
    <3>2. s.range.left \in Int
      BY OfProgram, StatementIs DEF EnterLoop
    <3>3. QED
      BY <3>1, <3>2 DEF RangeOf
  <2>3. QED
    BY <2>1, <2>2
<1> HIDE DEF v
<1>3. /\ DOMAIN loop' = {"phase", "of", "var", "seen"} /\ loop'.of = s
      /\ loop'.var.value = v.left /\ "value" \in DOMAIN loop'.var
  BY <1>1, <1>2
<1>4. QED
  BY <1>2, <1>3 DEF EnterLoop, LoopIs, ArraysStep

LEMMA StatementStep ==
  ASSUME IInv, Step
  PROVE  IInv'
<1>1. UNCHANGED <<program, alias>> /\ \E s \in program : Statement(s)
  BY DEF Step
<1>2. PICK s \in program : Statement(s)
  BY <1>1
<1>3. elapsed \in Times /\ LoopIs(loop, program)
  BY DEF IInv
<1>4. ArraysStep /\ elapsed' \in Times /\ LoopIs(loop', program)
  <2>1. CASE AssignElement(s)
    BY <1>3, <2>1, ElementStep
  <2>2. CASE AssignAlias(s)
    BY <1>3, <2>2, AliasStep
  <2>3. CASE AssignArray(s)
    BY <1>3, <2>3, ArrayStep
  <2>4. CASE AssignString(s)
    BY <1>3, <2>4, StringStep
  <2>5. CASE AssignAggregate(s)
    BY <1>3, <2>5, AggregateStep
  <2>6. CASE AddTime(s)
    BY <1>3, <2>6, TimeStep
  <2>7. CASE Write(s)
    BY <1>3, <2>7 DEF Write, ArraysStep
  <2>8. CASE WriteLine(s)
    BY <1>3, <2>8 DEF WriteLine, ArraysStep
  <2>9. CASE EnterLoop(s)
    BY <1>1, <1>3, <2>9, LoopStep
  <2>10. QED
    BY <1>2, <2>1, <2>2, <2>3, <2>4, <2>5, <2>6, <2>7, <2>8, <2>9 DEF Statement
<1>5. QED
  BY <1>1, <1>4, KeepsInv

LEMMA BodyStep ==
  ASSUME IInv, LoopBody
  PROVE  IInv'
<1>1. /\ loop.of \in program /\ loop.of.kind = "loop" /\ loop.var.value \in Int
      /\ "value" \in DOMAIN loop.var /\ DOMAIN loop = {"phase", "of", "var", "seen"}
  BY DEF IInv, LoopIs, LoopBody
<1>2. loop.of.to \in DOMAIN arrays /\ loop.of.value \in Int
  <2>1. PICK o \in program : o = loop.of
    BY <1>1
  <2>2. o.to \in DOMAIN arrays /\ o.value \in Int
    <3>1. /\ o \in Statements(DOMAIN arrays, Typed(arrays), alias.to)
          /\ Named(DOMAIN arrays, Typed(arrays), alias.to)
      BY OfProgram
    <3>2. o.kind = "loop"
      BY <1>1, <2>1
    <3>3. QED
      BY <3>1, <3>2, StatementIs
  <2>3. QED
    BY <2>1, <2>2
<1> DEFINE s == [kind |-> "element", to |-> loop.of.to, value |-> loop.of.value,
                 index |-> [number |-> loop.var.value, char |-> FALSE]]
           i == AbsoluteIndex(arrays[s.to].range, s.index)
<1>3. s.to = loop.of.to /\ s.value \in Int /\ IsIndex(s.index)
  BY <1>1, <1>2 DEF IsIndex
<1>4. arrays' = arrays \/ arrays' = [arrays EXCEPT ![s.to] = PutAt(@, i, s)]
  BY DEF LoopBody, Unless
<1> HIDE DEF s
<1>5. i \in Int
  BY <1>2, <1>3, RangeIs, IndexIs
<1> HIDE DEF i
<1>6. OneChanged(arrays, [arrays EXCEPT ![s.to] = PutAt(@, i, s)], s.to)
  BY <1>2, <1>3, <1>5, PutIs DEF IInv
<1>7. ArraysStep
  BY <1>4, <1>6 DEF ArraysStep
<1> DEFINE r == Right(loop.of.byType, loop.var)
<1>8. r \in Int
  BY <1>1 DEF Right, EnumerationRightOf, Enumeration, RIGHTOF
<1>9. loop' = [loop EXCEPT !.var.value = r, !.seen = Append(@, loop.var.value)]
  BY DEF LoopBody
<1> HIDE DEF r
<1>10. /\ DOMAIN loop' = {"phase", "of", "var", "seen"} /\ loop'.of = loop.of /\ loop'.phase = loop.phase
       /\ loop'.var.value = r /\ "value" \in DOMAIN loop'.var
  BY <1>1, <1>9
<1>11. LoopIs(loop', program)
  BY <1>1, <1>8, <1>10 DEF LoopIs
<1>12. UNCHANGED <<program, alias>> /\ elapsed' \in Times
  BY DEF LoopBody, IInv
<1>13. QED
  BY <1>7, <1>11, <1>12, KeepsInv

LEMMA LeaveStep ==
  ASSUME IInv, LeaveLoop
  PROVE  IInv'
<1>1. DOMAIN loop = {"phase", "of", "var", "seen"}
  BY DEF IInv, LoopIs
<1>2. loop' = [loop EXCEPT !.phase = "left"]
  BY DEF LeaveLoop
<1>3. LoopIs(loop', program)
  BY <1>1, <1>2 DEF LoopIs
<1>4. QED
  BY <1>3, KeepsInv DEF LeaveLoop, ArraysStep, IInv

LEMMA InvAlways == Spec => []IInv
<1>1. ASSUME IInv, [Next]_vars PROVE IInv'
  <2>1. CASE Step
    BY <1>1, <2>1, StatementStep
  <2>2. CASE LoopBody
    BY <1>1, <2>2, BodyStep
  <2>3. CASE LeaveLoop
    BY <1>1, <2>3, LeaveStep
  <2>4. CASE UNCHANGED vars
    BY <1>1, <2>4 DEF vars, IInv, ArraysAre, AliasIs, LoopIs, Typed
  <2>5. QED
    BY <1>1, <2>1, <2>2, <2>3, <2>4 DEF Next
<1>2. QED
  BY <1>1, InitInv, PTL DEF Spec

\* Whatever a process assigns to what, its arrays have the elements that their
\* ranges speak of, each with the bounds its array gives: an index that passes
\* IndexCheck is one of m_content (getAbsolute).
THEOREM ElementsAlwaysFit == Spec => []ElementsFitTheRange
<1>1. IInv => ElementsFitTheRange
  <2> SUFFICES ASSUME IInv, NEW n \in DOMAIN arrays
               PROVE  /\ Len(arrays[n].content) = Size(arrays[n])
                      /\ \A i \in DOMAIN arrays[n].content :
                             /\ arrays[n].content[i].left = arrays[n].sub.left
                             /\ arrays[n].content[i].right = arrays[n].sub.right
    BY DEF ElementsFitTheRange
  <2>1. PICK a : a = arrays[n]
    OBVIOUS
  <2>2. IsArray(a)
    BY <2>1, RangeIs
  <2>3. /\ Len(a.content) = Size(a)
        /\ \A i \in DOMAIN a.content : a.content[i] \in Elements(a.sub)
    BY <2>2, ContentIs DEF IsArray
  <2>4. QED
    BY <2>1, <2>3 DEF Elements
<1>2. QED
  BY <1>1, InvAlways, PTL

-----------------------------------------------------------------------------
(* Arrays as functions from their indexes to values.                       *)

LEMMA BoundsIs ==
  ASSUME NEW a, HasHead(a)
  PROVE  /\ Bounds(a).left = a.range.left /\ Bounds(a).right = a.range.right
         /\ Bounds(a).ascending = Ascending(a.range)
         /\ Bounds(a).left \in Int /\ Bounds(a).right \in Int /\ Bounds(a).ascending \in BOOLEAN
         /\ Values!Length(Bounds(a)) = Size(a)
         /\ LENGTH(Bounds(a)) = Size(a)
<1>1. /\ Bounds(a).left = a.range.left /\ Bounds(a).right = a.range.right
      /\ Bounds(a).ascending = Ascending(a.range)
  BY DEF Bounds
<1>2. a.range.left \in Int /\ a.range.right \in Int /\ Ascending(a.range) \in BOOLEAN
  BY DEF HasHead, Ascending
<1>3. Values!Length(Bounds(a)) = Size(a)
  BY <1>1, SizeIs DEF Values!Length
<1>4. LENGTH(Bounds(a)) = Size(a)
  BY <1>1, <1>2, LengthIs, SizeIs
<1>5. QED
  BY <1>1, <1>2, <1>3, <1>4

\* The places of an array, from the left, are those its indexes convert to.
LEMMA PlaceIs ==
  ASSUME NEW a, HasHead(a), NEW i \in Int
  PROVE  /\ ConvertIndex(a.range, i) = Values!Place(Bounds(a), i)
         /\ Values!Place(Bounds(a), i) \in Int
         /\ i \in Values!Indexes(Bounds(a)) <=> Values!Place(Bounds(a), i) \in 0 .. Size(a) - 1
<1>1. PICK n \in Nat : n = Size(a)
  BY SizeIs
<1>2. PICK b : b = Bounds(a)
  OBVIOUS
<1>3. /\ b.left = a.range.left /\ b.ascending = Ascending(a.range) /\ Values!Length(b) = n
      /\ b.left \in Int /\ b.ascending \in BOOLEAN
  BY <1>1, <1>2, BoundsIs
<1>4. LeftPosition(a.range) = b.left
  <2>1. CASE a.range.byType
    <3>1. a.range.left = 0
      BY <2>1 DEF HasHead
    <3>2. QED
      BY <1>3, <2>1, <3>1 DEF LeftPosition, RelativePosition
  <2>2. CASE ~a.range.byType
    BY <1>3, <2>2 DEF LeftPosition
  <2>3. QED
    BY <2>1, <2>2
<1>5. ConvertIndex(a.range, i) = IF b.ascending THEN i - b.left ELSE b.left - i
  BY <1>3, <1>4 DEF ConvertIndex
<1>6. Values!Place(b, i) = IF b.ascending THEN i - b.left ELSE b.left - i
  BY DEF Values!Place
<1>7. i \in Values!Indexes(b) <=> Values!Place(b, i) \in 0 .. n - 1
  BY <1>3, <1>6 DEF Values!Indexes
<1>8. QED
  BY <1>1, <1>2, <1>3, <1>5, <1>6, <1>7

LEMMA IndexAtIs ==
  ASSUME NEW a, HasHead(a), NEW p \in 0 .. Size(a) - 1
  PROVE  /\ Values!IndexAt(Bounds(a), p) \in Values!Indexes(Bounds(a))
         /\ Values!IndexAt(Bounds(a), p) \in Int
         /\ Values!Place(Bounds(a), Values!IndexAt(Bounds(a), p)) = p
<1>1. PICK n \in Nat : n = Size(a)
  BY SizeIs
<1>2. PICK b : b = Bounds(a)
  OBVIOUS
<1>3. Values!Length(b) = n /\ b.left \in Int /\ b.ascending \in BOOLEAN
  BY <1>1, <1>2, BoundsIs
<1>4. p \in 0 .. n - 1
  BY <1>1
<1>5. QED
  BY <1>2, <1>3, <1>4 DEF Values!IndexAt, Values!Indexes, Values!Place

LEMMA AsFunctionIs ==
  ASSUME NEW a, IsArray(a)
  PROVE  AsFunction(a) = [i \in Values!Indexes(Bounds(a)) |-> a.content[Values!Place(Bounds(a), i) + 1].value]
<1>1. HasHead(a) /\ Len(a.content) = Size(a)
  BY ContentIs DEF IsArray
<1>2. PICK n \in Nat : n = Size(a)
  BY <1>1, SizeIs
<1>3. PICK b : b = Bounds(a)
  OBVIOUS
<1>4. b.left \in Int /\ b.ascending \in BOOLEAN /\ Values!Length(b) = n /\ LENGTH(b) = n
  BY <1>1, <1>2, <1>3, BoundsIs
<1> DEFINE first == IF b.ascending THEN b.left ELSE b.left - n + 1
<1>5. AsFunction(a) = [i \in first .. first + n - 1 |-> Found(a, i)]
  BY <1>3, <1>4 DEF AsFunction
<1>6. first .. first + n - 1 = Values!Indexes(b)
  BY <1>4 DEF Values!Indexes
<1> HIDE DEF first
<1>7. Values!Indexes(b) \subseteq Int
  BY <1>4 DEF Values!Indexes
<1>8. ASSUME NEW i \in Values!Indexes(b)
      PROVE  Found(a, i) = a.content[Values!Place(b, i) + 1].value
  <2>1. ConvertIndex(a.range, i) = Values!Place(b, i) /\ Values!Place(b, i) \in 0 .. n - 1
    BY <1>1, <1>2, <1>3, <1>7, PlaceIs
  <2>2. Reached(a, ConvertIndex(a.range, i))
    BY <1>1, <1>2, <2>1 DEF Reached, IndexCheck
  <2>3. QED
    BY <2>1, <2>2 DEF Found
<1>9. QED
  BY <1>3, <1>5, <1>6, <1>8

\* Of two arrays with one range, the second as a function.
LEMMA SameBounds ==
  ASSUME NEW a, IsArray(a), NEW b, IsArray(b), b.range = a.range
  PROVE  /\ Bounds(b) = Bounds(a)
         /\ AsFunction(b) = [i \in Values!Indexes(Bounds(a)) |-> b.content[Values!Place(Bounds(a), i) + 1].value]
<1>1. Bounds(b) = Bounds(a)
  BY DEF Bounds
<1>2. QED
  BY <1>1, AsFunctionIs

Changed(f, i, v) == [f EXCEPT ![i] = v]

LEMMA PutFunction ==
  ASSUME NEW a, IsArray(a), NEW i \in Int, i \in Values!Indexes(Bounds(a)),
         NEW e, e.value \in Int, NEW p, p = Values!Place(Bounds(a), i)
  PROVE  /\ Bounds(PutAt(a, p, e)) = Bounds(a)
         /\ AsFunction(PutAt(a, p, e)) = Changed(AsFunction(a), i, e.value)
<1>1. HasHead(a)
  BY DEF IsArray
<1>2. PICK n \in Nat : n = Size(a)
  BY <1>1, SizeIs
<1>3. PICK b : b = Bounds(a)
  OBVIOUS
<1>4. p \in 0 .. n - 1 /\ p \in Int
  BY <1>1, <1>2, <1>3, PlaceIs
<1>5. PICK c : c = PutAt(a, p, e)
  OBVIOUS
<1>6. /\ IsArray(c) /\ c.range = a.range
      /\ \A j \in 1 .. n : c.content[j].value = IF j = p + 1 THEN e.value ELSE a.content[j].value
  BY <1>2, <1>3, <1>4, <1>5, PutAtIs DEF SameButElements
<1>7. /\ Bounds(c) = b
      /\ AsFunction(c) = [j \in Values!Indexes(b) |-> c.content[Values!Place(b, j) + 1].value]
      /\ AsFunction(a) = [j \in Values!Indexes(b) |-> a.content[Values!Place(b, j) + 1].value]
  BY <1>2, <1>3, <1>6, SameBounds, AsFunctionIs
<1>8. b.left \in Int /\ b.ascending \in BOOLEAN /\ Values!Indexes(b) \subseteq Int
  BY <1>1, <1>2, <1>3, BoundsIs DEF Values!Indexes
<1>9. ASSUME NEW j \in Values!Indexes(b)
      PROVE  c.content[Values!Place(b, j) + 1].value
               = IF j = i THEN e.value ELSE a.content[Values!Place(b, j) + 1].value
  <2>1. PICK q : q = Values!Place(b, j)
    OBVIOUS
  <2>2. j \in Int /\ q \in 0 .. n - 1
    BY <1>1, <1>2, <1>3, <1>8, <2>1, PlaceIs
  <2>3. q = p <=> j = i
    BY <1>2, <1>3, <1>4, <1>8, <2>1, <2>2 DEF Values!Place
  <2>4. q + 1 \in 1 .. n /\ (q + 1 = p + 1 <=> q = p)
    BY <1>4, <2>2
  <2>5. c.content[q + 1].value = IF q + 1 = p + 1 THEN e.value ELSE a.content[q + 1].value
    BY <1>6, <2>4
  <2>6. QED
    BY <2>1, <2>3, <2>4, <2>5
<1>10. i \in Values!Indexes(b)
  BY <1>2, <1>3
<1>11. AsFunction(c) = Changed(AsFunction(a), i, e.value)
  <2>1. PICK f : f = AsFunction(a)
    OBVIOUS
  <2>2. PICK g : g = AsFunction(c)
    OBVIOUS
  <2>3. DOMAIN f = Values!Indexes(b) /\ g = [j \in Values!Indexes(b) |-> g[j]]
    BY <1>7, <2>1, <2>2
  <2>4. \A j \in Values!Indexes(b) : g[j] = IF j = i THEN e.value ELSE f[j]
    BY <1>7, <1>9, <2>1, <2>2
  <2>5. g = Changed(f, i, e.value)
    BY <1>10, <2>3, <2>4 DEF Changed
  <2>6. QED
    BY <2>1, <2>2, <2>5
<1>12. QED
  BY <1>2, <1>3, <1>5, <1>7, <1>11

-----------------------------------------------------------------------------
(* The variables of ArrayValues, as they follow from the arrays.           *)

BoundsOf(as)    == [n \in DOMAIN as |-> Bounds(as[n])]
FunctionsOf(as) == [n \in DOMAIN as |-> AsFunction(as[n])]

\* One array of several is assigned, and one value of one function of several.
With(as, to, b)            == [as EXCEPT ![to] = b]
Overwritten(fs, to, i, v)  == [fs EXCEPT ![to][i] = v]

LEMMA WithIs ==
  ASSUME NEW as, NEW to \in DOMAIN as, NEW b
  PROVE  DOMAIN With(as, to, b) = DOMAIN as /\ \A n \in DOMAIN as : With(as, to, b)[n] = IF n = to THEN b ELSE as[n]
BY DEF With

\* What the abstract statement sees of one array that was assigned.
LEMMA Assigned ==
  ASSUME NEW as, NEW to \in DOMAIN as, NEW b
  PROVE  /\ BoundsOf(With(as, to, b)) = With(BoundsOf(as), to, Bounds(b))
         /\ Bounds(b) = Bounds(as[to]) => BoundsOf(With(as, to, b)) = BoundsOf(as)
         /\ FunctionsOf(With(as, to, b)) = With(FunctionsOf(as), to, AsFunction(b))
<1>1. PICK bs : bs = With(as, to, b)
  OBVIOUS
<1>2. DOMAIN bs = DOMAIN as /\ \A n \in DOMAIN as : bs[n] = IF n = to THEN b ELSE as[n]
  BY <1>1 DEF With
<1>3. BoundsOf(bs) = [BoundsOf(as) EXCEPT ![to] = Bounds(b)]
  BY <1>2 DEF BoundsOf
<1>4. Bounds(b) = Bounds(as[to]) => BoundsOf(bs) = BoundsOf(as)
  BY <1>2 DEF BoundsOf
<1>5. FunctionsOf(bs) = [FunctionsOf(as) EXCEPT ![to] = AsFunction(b)]
  BY <1>2 DEF FunctionsOf
<1>6. QED
  BY <1>1, <1>3, <1>4, <1>5 DEF With

Holds(as, to, a) == to \in DOMAIN as /\ a = as[to]

\* An element is assigned.
LEMMA PutOne ==
  ASSUME NEW as, NEW to, NEW a, Holds(as, to, a), IsArray(a),
         NEW i \in Int, i \in Values!Indexes(Bounds(a)),
         NEW e, e.value \in Int, NEW p, p = Values!Place(Bounds(a), i)
  PROVE  /\ BoundsOf(With(as, to, PutAt(a, p, e))) = BoundsOf(as)
         /\ FunctionsOf(With(as, to, PutAt(a, p, e))) = Overwritten(FunctionsOf(as), to, i, e.value)
<1>1. /\ Bounds(PutAt(a, p, e)) = Bounds(a)
      /\ AsFunction(PutAt(a, p, e)) = Changed(AsFunction(a), i, e.value)
  BY PutFunction
<1>2. PICK b : b = PutAt(a, p, e)
  OBVIOUS
<1>3. /\ Bounds(b) = Bounds(as[to]) => BoundsOf(With(as, to, b)) = BoundsOf(as)
      /\ FunctionsOf(With(as, to, b)) = With(FunctionsOf(as), to, AsFunction(b))
  BY Assigned DEF Holds
<1>4. FunctionsOf(as)[to] = AsFunction(a)
  BY DEF FunctionsOf, Holds
<1>5. With(FunctionsOf(as), to, Changed(AsFunction(a), i, e.value))
        = Overwritten(FunctionsOf(as), to, i, e.value)
  BY <1>4 DEF With, Overwritten, Changed
<1>6. Bounds(b) = Bounds(as[to])
  BY <1>1, <1>2 DEF Holds
<1>7. QED
  BY <1>1, <1>2, <1>3, <1>5, <1>6

\* The index that getIndex and ConvertIndex find is the place of the number.
LEMMA AbsoluteIs ==
  ASSUME NEW a, HasHead(a), NEW index, IsIndex(index), index.char => a.range.byType
  PROVE  AbsoluteIndex(a.range, index) = Values!Place(Bounds(a), index.number)
<1>1. IndexOf(a.range, index) = index.number
  <2>1. CASE index.char
    BY <2>1 DEF HasHead, IndexOf, RelativePosition, IsIndex
  <2>2. CASE ~index.char
    BY <2>2 DEF IndexOf
  <2>3. QED
    BY <2>1, <2>2
<1>2. index.number \in Int
  BY DEF IsIndex
<1>3. QED
  BY <1>1, <1>2, PlaceIs DEF AbsoluteIndex

LEMMA ReachedIs ==
  ASSUME NEW a, IsArray(a), NEW i \in Int
  PROVE  Reached(a, i) <=> i \in 0 .. Size(a) - 1
BY ContentIs DEF Reached, IndexCheck

View == [left |-> alias.range.left, right |-> alias.range.right, ascending |-> alias.range.ascending]

\* Element assignments, whether of a statement or of the body of a loop.
LEMMA ElementValues ==
  ASSUME IInv, status = "running", NEW s, s.kind = "element",
         s.to \in DOMAIN arrays, IsIndex(s.index), s.value \in Int, s.index.char => s.to \in Typed(arrays),
         NEW i, i = AbsoluteIndex(arrays[s.to].range, s.index),
         Unless(~Reached(arrays[s.to], i), "assert",
                arrays' = [arrays EXCEPT ![s.to] = PutAt(@, i, s)], UNCHANGED arrays),
         UNCHANGED <<alias, elapsed>>, last' = s
  PROVE  Values!Next
<1>1. PICK a : a = arrays[s.to]
  OBVIOUS
<1>2. IsArray(a) /\ HasHead(a)
  BY <1>1, RangeIs DEF IsArray
<1>3. i = AbsoluteIndex(a.range, s.index)
  BY <1>1
<1>4. s.index.number \in Int /\ i \in Int
  BY <1>1, <1>2, <1>3, RangeIs, IndexIs DEF IsIndex
<1>5. i = Values!Place(Bounds(a), s.index.number)
  BY <1>1, <1>2, <1>3, AbsoluteIs DEF Typed
<1>6. s.index.number \in Values!Indexes(Bounds(a)) <=> Reached(a, i)
  BY <1>2, <1>4, <1>5, PlaceIs, ReachedIs
<1>7. CASE Reached(a, i)
  <2>1. status' = "running" /\ arrays' = With(arrays, s.to, PutAt(a, i, s))
    BY <1>1, <1>3, <1>7 DEF Unless, Proceed, With
  <2>2. /\ BoundsOf(arrays') = BoundsOf(arrays)
        /\ FunctionsOf(arrays') = Overwritten(FunctionsOf(arrays), s.to, s.index.number, s.value)
    <3>1. PICK j : j = s.index.number
      OBVIOUS
    <3>2. j \in Int /\ j \in Values!Indexes(Bounds(a)) /\ i = Values!Place(Bounds(a), j)
      BY <1>4, <1>5, <1>6, <1>7, <3>1
    <3>3. /\ BoundsOf(With(arrays, s.to, PutAt(a, i, s))) = BoundsOf(arrays)
          /\ FunctionsOf(With(arrays, s.to, PutAt(a, i, s))) = Overwritten(FunctionsOf(arrays), s.to, j, s.value)
      BY <1>1, <1>2, <3>2, PutOne DEF Holds
    <3>4. QED
      BY <2>1, <3>1, <3>3
  <2>3. Values!Legal(s)
    BY <1>1, <1>6, <1>7 DEF Values!Legal
  <2>4. Values!Execute(s)
    BY <2>1, <2>2, <2>3 DEF Values!Execute, Values!Put, BoundsOf, FunctionsOf, Overwritten
  <2>5. QED
    BY <2>4 DEF Values!Next
<1>8. CASE ~Reached(a, i)
  <2>1. status' = "assert" /\ arrays' = arrays
    BY <1>1, <1>3, <1>8 DEF Unless, Fail
  <2>2. ~Values!Legal(s)
    BY <1>1, <1>6, <1>8 DEF Values!Legal
  <2>3. Values!Stop(s)
    BY <2>1, <2>2 DEF Values!Stop, Values!Names
  <2>4. QED
    BY <2>3 DEF Values!Next
<1>9. QED
  BY <1>7, <1>8

LEMMA AliasValues ==
  ASSUME IInv, status = "running", NEW s \in program, AssignAlias(s), UNCHANGED alias, last' = s
  PROVE  Values!Next
<1>1. s.kind = "alias"
  BY DEF AssignAlias
<1>2. /\ s.to = alias.to /\ s.to \in DOMAIN arrays /\ IsIndex(s.index) /\ s.index.char = FALSE
      /\ s.value \in Int
  <2>1. s.to = alias.to /\ IsIndex(s.index) /\ s.index.char = FALSE /\ s.value \in Int
    <3>1. PICK names, typed, aliased : names = DOMAIN arrays /\ typed = Typed(arrays) /\ aliased = alias.to
      OBVIOUS
    <3>2. s \in Statements(names, typed, aliased) /\ Named(names, typed, aliased)
      BY <3>1, OfProgram
    <3>3. IsIndex(s.index) /\ s.value \in Int
      BY <1>1, <3>2, StatementIs
    <3>4. s.index.char = FALSE
      BY <1>1, <3>2, StatementIs
    <3>5. s.to = aliased
      BY <1>1, <3>2 DEF Statements
    <3>6. QED
      BY <3>1, <3>3, <3>4, <3>5
  <2>2. alias.to \in DOMAIN arrays
    BY DEF IInv, AliasIs
  <2>3. QED
    BY <2>1, <2>2
<1>3. PICK a : a = arrays[s.to]
  OBVIOUS
<1>4. IsArray(a) /\ HasHead(a)
  BY <1>2, <1>3, RangeIs DEF IsArray
<1>5. PICK p : p = AbsoluteIndex(alias.range, s.index)
  OBVIOUS
<1>6. p = Values!AliasPlace(s) /\ p \in Int /\ s.index.number \in Int
  <2>1. alias.range.left \in Int /\ alias.range.byType = FALSE /\ alias.range.ascending \in BOOLEAN
    BY DEF IInv, AliasIs
  <2>2. s.index.number \in Int
    BY <1>2 DEF IsIndex
  <2>3. p = IF alias.range.ascending THEN s.index.number - alias.range.left
                                     ELSE alias.range.left - s.index.number
    BY <1>2, <1>5, <2>1 DEF AbsoluteIndex, ConvertIndex, IndexOf, LeftPosition, Ascending
  <2>4. QED
    BY <2>1, <2>2, <2>3 DEF Values!AliasPlace, Values!Place
<1>7. Values!Length(Bounds(a)) = Size(a)
  BY <1>4, BoundsIs
<1>8. Reached(a, p) <=> p \in 0 .. Values!Length(Bounds(a)) - 1
  BY <1>4, <1>6, <1>7, ReachedIs
<1>9. UNCHANGED <<elapsed, loop>>
  BY DEF AssignAlias
<1>10. CASE Reached(a, p)
  <2>1. status' = "running" /\ arrays' = With(arrays, s.to, PutAt(a, p, s))
    BY <1>2, <1>3, <1>5, <1>10 DEF AssignAlias, Unless, Proceed, With
  <2>2. PICK i : i = Values!IndexAt(Bounds(a), p)
    OBVIOUS
  <2>3. i \in Int /\ i \in Values!Indexes(Bounds(a)) /\ p = Values!Place(Bounds(a), i)
    BY <1>4, <1>7, <1>8, <1>10, <2>2, IndexAtIs
  <2>4. /\ BoundsOf(arrays') = BoundsOf(arrays)
        /\ FunctionsOf(arrays') = Overwritten(FunctionsOf(arrays), s.to, i, s.value)
    BY <1>2, <1>3, <1>4, <2>1, <2>3, PutOne DEF Holds
  <2>5. Values!Legal(s)
    BY <1>1, <1>2, <1>3, <1>6, <1>8, <1>10 DEF Values!Legal
  <2>6. Values!Execute(s)
    BY <1>1, <1>2, <1>3, <1>6, <1>9, <2>1, <2>2, <2>4, <2>5
    DEF Values!Execute, Values!Put, BoundsOf, FunctionsOf, Overwritten
  <2>7. QED
    BY <2>6 DEF Values!Next
<1>11. CASE ~Reached(a, p)
  <2>1. status' = "assert" /\ arrays' = arrays
    BY <1>2, <1>3, <1>5, <1>11 DEF AssignAlias, Unless, Fail
  <2>2. ~Values!Legal(s)
    BY <1>1, <1>2, <1>3, <1>6, <1>8, <1>11 DEF Values!Legal
  <2>3. Values!Stop(s)
    BY <1>9, <2>1, <2>2 DEF Values!Stop, Values!Names
  <2>4. QED
    BY <2>3 DEF Values!Next
<1>12. QED
  BY <1>10, <1>11

-----------------------------------------------------------------------------
(* Whole arrays and strings.                                               *)

\* The value at a place, for the array as a function.
LEMMA FoundAt ==
  ASSUME NEW a, IsArray(a), NEW p \in 0 .. Size(a) - 1
  PROVE  AsFunction(a)[Values!IndexAt(Bounds(a), p)] = a.content[p + 1].value
<1>1. PICK b : b = Bounds(a)
  OBVIOUS
<1>2. PICK i : i = Values!IndexAt(b, p)
  OBVIOUS
<1>3. i \in Values!Indexes(b) /\ Values!Place(b, i) = p
  BY <1>1, <1>2, IndexAtIs DEF IsArray
<1>4. AsFunction(a) = [k \in Values!Indexes(b) |-> a.content[Values!Place(b, k) + 1].value]
  BY <1>1, AsFunctionIs
<1>5. QED
  BY <1>1, <1>2, <1>3, <1>4

\* The places of the indexes of an array.
LEMMA PlacesAre ==
  ASSUME NEW a, IsArray(a), NEW i \in Values!Indexes(Bounds(a))
  PROVE  i \in Int /\ Values!Place(Bounds(a), i) \in 0 .. Size(a) - 1
<1>1. HasHead(a)
  BY DEF IsArray
<1>2. Bounds(a).left \in Int /\ Bounds(a).ascending \in BOOLEAN /\ Values!Length(Bounds(a)) \in Int
  BY <1>1, BoundsIs, SizeIs
<1>3. i \in Int
  BY <1>2 DEF Values!Indexes
<1>4. QED
  BY <1>1, <1>3, PlaceIs

\* The bounds that the target of an assignment has afterwards.
TakenOver(a, o) ==
  IF Size(a) = Size(o) THEN Bounds(a) ELSE [left |-> 1, right |-> Size(o), ascending |-> TRUE]

LEMMA CopyIs ==
  ASSUME NEW a, IsArray(a), NEW o, IsArray(o), a.range.byType = o.range.byType,
         NEW c, c = SetArray(LengthOf(a, o), o)
  PROVE  /\ Copied(LengthOf(a, o), o)
         /\ Bounds(c) = TakenOver(a, o)
         /\ AsFunction(c) = [i \in Values!Indexes(TakenOver(a, o)) |->
                AsFunction(o)[Values!IndexAt(Bounds(o), Values!Place(TakenOver(a, o), i))]]
<1>1. PICK b : b = LengthOf(a, o)
  OBVIOUS
<1>2. /\ IsArray(b) /\ Size(b) = Size(o)
      /\ b.range.byType = a.range.byType
      /\ Size(a) = Size(o) => b = a
      /\ Size(a) # Size(o) => Spans(b, 1, Size(o), TRUE) /\ a.range.byType = FALSE
  BY <1>1, LengthOfIs
<1>3. /\ IsArray(c) /\ c.range = b.range /\ Size(c) = Size(o)
      /\ \A j \in 1 .. Size(o) : c.content[j].value = o.content[j].value
      /\ Copied(b, o)
  BY <1>1, <1>2, SetArrayIs DEF SameButElements
<1>4. Bounds(c) = TakenOver(a, o)
  <2>1. Bounds(c) = Bounds(b)
    BY <1>3 DEF Bounds
  <2>2. CASE Size(a) = Size(o)
    BY <1>2, <2>1, <2>2 DEF TakenOver
  <2>3. CASE Size(a) # Size(o)
    BY <1>2, <2>1, <2>3 DEF TakenOver, Bounds, Spans, Ascending
  <2>4. QED
    BY <2>2, <2>3
<1>5. PICK d : d = Bounds(c)
  OBVIOUS
<1>6. AsFunction(c) = [i \in Values!Indexes(d) |-> c.content[Values!Place(d, i) + 1].value]
  BY <1>3, <1>5, AsFunctionIs
<1>7. ASSUME NEW i \in Values!Indexes(d)
      PROVE  c.content[Values!Place(d, i) + 1].value
               = AsFunction(o)[Values!IndexAt(Bounds(o), Values!Place(d, i))]
  <2>1. PICK p : p = Values!Place(d, i)
    OBVIOUS
  <2>2. p \in 0 .. Size(o) - 1
    BY <1>3, <1>5, <2>1, PlacesAre
  <2>3. p + 1 \in 1 .. Size(o)
    BY <1>2, <2>2, ContentIs
  <2>4. AsFunction(o)[Values!IndexAt(Bounds(o), p)] = o.content[p + 1].value
    BY <2>2, FoundAt
  <2>5. QED
    BY <1>3, <2>1, <2>3, <2>4
<1>8. QED
  BY <1>1, <1>3, <1>4, <1>5, <1>6, <1>7

LEMMA ArrayValues ==
  ASSUME IInv, status = "running", NEW s \in program, AssignArray(s), UNCHANGED alias, last' = s
  PROVE  Values!Next
<1>1. s.kind = "array"
  BY DEF AssignArray
<1>2. PICK a, o : a = arrays[s.to] /\ o = arrays[s.from]
  OBVIOUS
<1>3. /\ s.to \in DOMAIN arrays /\ s.from \in DOMAIN arrays
      /\ IsArray(a) /\ IsArray(o) /\ a.range.byType = o.range.byType
  BY <1>1, <1>2, SameKind
<1>4. PICK c : c = SetArray(LengthOf(a, o), o)
  OBVIOUS
<1>5. PICK b : b = TakenOver(a, o)
  OBVIOUS
<1>6. /\ Copied(LengthOf(a, o), o)
      /\ Bounds(c) = b
      /\ AsFunction(c) = [i \in Values!Indexes(b) |->
                             AsFunction(o)[Values!IndexAt(Bounds(o), Values!Place(b, i))]]
  BY <1>3, <1>4, <1>5, CopyIs
<1>7. arrays' = With(arrays, s.to, c) /\ status' = "running" /\ UNCHANGED <<elapsed, loop>>
  BY <1>2, <1>4, <1>6 DEF AssignArray, With, Proceed
<1>8. /\ BoundsOf(arrays') = With(BoundsOf(arrays), s.to, b)
      /\ FunctionsOf(arrays') = With(FunctionsOf(arrays), s.to, AsFunction(c))
  BY <1>3, <1>6, <1>7, Assigned
<1>9. /\ Values!Length(Bounds(a)) = Size(a) /\ Values!Length(Bounds(o)) = Size(o)
      /\ b = IF Values!Length(Bounds(a)) = Values!Length(Bounds(o)) THEN Bounds(a)
             ELSE [left |-> 1, right |-> Values!Length(Bounds(o)), ascending |-> TRUE]
  BY <1>3, <1>5, BoundsIs DEF TakenOver, IsArray
<1>10. /\ BoundsOf(arrays)[s.to] = Bounds(a) /\ BoundsOf(arrays)[s.from] = Bounds(o)
       /\ FunctionsOf(arrays)[s.from] = AsFunction(o)
  BY <1>2, <1>3 DEF BoundsOf, FunctionsOf
<1>11. Values!TakeOver(s)
  <2>1. BoundsOf(arrays') = [BoundsOf(arrays) EXCEPT ![s.to] = b]
    BY <1>8 DEF With
  <2>2. FunctionsOf(arrays') = [FunctionsOf(arrays) EXCEPT ![s.to] =
            [i \in Values!Indexes(b) |->
                FunctionsOf(arrays)[s.from][Values!IndexAt(BoundsOf(arrays)[s.from], Values!Place(b, i))]]]
    BY <1>6, <1>8, <1>10 DEF With
  <2>3. b = IF Values!Length(BoundsOf(arrays)[s.to]) = Values!Length(BoundsOf(arrays)[s.from])
            THEN BoundsOf(arrays)[s.to]
            ELSE [left |-> 1, right |-> Values!Length(BoundsOf(arrays)[s.from]), ascending |-> TRUE]
    BY <1>9, <1>10
  <2>4. elapsed' = elapsed
    BY <1>7
  <2>5. QED
    BY <2>1, <2>2, <2>3, <2>4 DEF Values!TakeOver, Values!FromLeft, BoundsOf, FunctionsOf
<1>12. Values!Execute(s)
  BY <1>1, <1>7, <1>11 DEF Values!Execute, Values!Legal
<1>13. QED
  BY <1>12 DEF Values!Next

LEMMA PositionIs ==
  ASSUME NEW c, NEW v
  PROVE  Values!PositionOf(c, v) = IF CharPosition(c) < 0 THEN v ELSE CharPosition(c)
<1>1. DOMAIN LITERALS = 1 .. SIZE
  BY SIZEIs
<1>2. CharPosition(c) \in Int /\ (CharPosition(c) >= 0 <=> \E i \in 1 .. SIZE : LITERALS[i] = c)
  BY CharPositionIs
<1>3. CASE \E i \in 1 .. SIZE : LITERALS[i] = c
  <2>1. CharPosition(c) = (CHOOSE i \in 1 .. SIZE : LITERALS[i] = c) - 1
    BY <1>3 DEF CharPosition
  <2>2. Values!PositionOf(c, v) = (CHOOSE i \in 1 .. SIZE : LITERALS[i] = c) - 1
    BY <1>1, <1>3 DEF Values!PositionOf
  <2>3. ~(CharPosition(c) < 0)
    BY <1>2, <1>3
  <2>4. QED
    BY <2>1, <2>2, <2>3
<1>4. CASE ~ \E i \in 1 .. SIZE : LITERALS[i] = c
  <2>1. Values!PositionOf(c, v) = v
    BY <1>1, <1>4 DEF Values!PositionOf
  <2>2. CharPosition(c) < 0
    BY <1>2, <1>4
  <2>3. QED
    BY <2>1, <2>2
<1>5. QED
  BY <1>3, <1>4

LEMMA SpelledIs ==
  ASSUME NEW a, IsArray(a), NEW text, Len(text) \in Nat, StringFits(a, text)
  PROVE  /\ Bounds(SetString(a, text)) = Bounds(a)
         /\ AsFunction(SetString(a, text)) = [i \in Values!Indexes(Bounds(a)) |->
                Values!PositionOf(text[Values!Place(Bounds(a), i) + 1],
                                  AsFunction(a)[Values!IndexAt(Bounds(a), Values!Place(Bounds(a), i))])]
<1>1. PICK c : c = SetString(a, text)
  OBVIOUS
<1>2. PICK b : b = Bounds(a)
  OBVIOUS
<1>3. /\ IsArray(c) /\ c.range = a.range
      /\ \A j \in 1 .. Size(a) : c.content[j].value =
             IF j <= Len(text) /\ ~(CharPosition(text[j]) < 0) THEN CharPosition(text[j])
                                                              ELSE a.content[j].value
  BY <1>1, SetStringIs DEF SameButElements
<1>4. Bounds(c) = b /\ AsFunction(c) = [i \in Values!Indexes(b) |-> c.content[Values!Place(b, i) + 1].value]
  BY <1>2, <1>3, SameBounds
<1>5. ASSUME NEW i \in Values!Indexes(b)
      PROVE  c.content[Values!Place(b, i) + 1].value
               = Values!PositionOf(text[Values!Place(b, i) + 1],
                                   AsFunction(a)[Values!IndexAt(b, Values!Place(b, i))])
  <2>1. PICK p : p = Values!Place(b, i)
    OBVIOUS
  <2>2. p \in 0 .. Size(a) - 1
    BY <1>2, <2>1, PlacesAre
  <2>3. p + 1 \in 1 .. Size(a) /\ p + 1 <= Len(text)
    BY <2>2, ContentIs DEF StringFits
  <2>4. AsFunction(a)[Values!IndexAt(b, p)] = a.content[p + 1].value
    BY <1>2, <2>2, FoundAt
  <2>5. PICK v : v = a.content[p + 1].value
    OBVIOUS
  <2>6. Values!PositionOf(text[p + 1], v)
          = IF CharPosition(text[p + 1]) < 0 THEN v ELSE CharPosition(text[p + 1])
    BY PositionIs
  <2>7. c.content[p + 1].value = IF CharPosition(text[p + 1]) < 0 THEN v ELSE CharPosition(text[p + 1])
    BY <1>3, <2>3, <2>5
  <2>8. QED
    BY <2>1, <2>4, <2>5, <2>6, <2>7
<1>6. QED
  BY <1>1, <1>2, <1>4, <1>5

LEMMA StringValues ==
  ASSUME IInv, status = "running", NEW s \in program, AssignString(s), UNCHANGED alias, last' = s
  PROVE  Values!Next
<1>1. s.kind = "string"
  BY DEF AssignString
<1>2. s.to \in DOMAIN arrays /\ s.text \in Seq(STRING)
  BY <1>1, OfProgram, StatementIs
<1>3. PICK a : a = arrays[s.to]
  OBVIOUS
<1>4. IsArray(a) /\ Len(s.text) \in Nat
  BY <1>2, <1>3, RangeIs, LenProperties
<1>5. BoundsOf(arrays)[s.to] = Bounds(a) /\ FunctionsOf(arrays)[s.to] = AsFunction(a)
  BY <1>2, <1>3 DEF BoundsOf, FunctionsOf
<1>6. StringFits(a, s.text) <=> Len(s.text) = Values!Length(BoundsOf(arrays)[s.to])
  <2>1. Values!Length(Bounds(a)) = Size(a)
    BY <1>4, BoundsIs DEF IsArray
  <2>2. QED
    BY <1>5, <2>1 DEF StringFits
<1>7. Values!Legal(s) <=> StringFits(a, s.text)
  BY <1>1, <1>6 DEF Values!Legal, BoundsOf
<1>8. elapsed' = elapsed
  BY DEF AssignString
<1>9. CASE StringFits(a, s.text)
  <2>1. PICK c : c = SetString(a, s.text)
    OBVIOUS
  <2>2. arrays' = With(arrays, s.to, c) /\ status' = "running"
    BY <1>3, <1>9, <2>1 DEF AssignString, Unless, Proceed, With
  <2>3. PICK b, f : b = Bounds(a) /\ f = AsFunction(a)
    OBVIOUS
  <2>4. /\ Bounds(c) = b
        /\ AsFunction(c) = [i \in Values!Indexes(b) |->
               Values!PositionOf(s.text[Values!Place(b, i) + 1], f[Values!IndexAt(b, Values!Place(b, i))])]
    BY <1>4, <1>9, <2>1, <2>3, SpelledIs
  <2>5. /\ BoundsOf(arrays') = BoundsOf(arrays)
        /\ FunctionsOf(arrays') = With(FunctionsOf(arrays), s.to, AsFunction(c))
    BY <1>2, <1>3, <2>2, <2>3, <2>4, Assigned
  <2>6. FunctionsOf(arrays') = [FunctionsOf(arrays) EXCEPT ![s.to] =
            [i \in Values!Indexes(BoundsOf(arrays)[s.to]) |->
               Values!PositionOf(s.text[Values!Place(BoundsOf(arrays)[s.to], i) + 1],
                   FunctionsOf(arrays)[s.to][Values!IndexAt(BoundsOf(arrays)[s.to],
                                                 Values!Place(BoundsOf(arrays)[s.to], i))])]]
    BY <1>5, <2>3, <2>4, <2>5 DEF With
  <2>7. Values!Spell(s)
    BY <1>8, <2>5, <2>6 DEF Values!Spell, Values!FromLeft, BoundsOf, FunctionsOf
  <2>8. Values!Execute(s)
    BY <1>1, <1>7, <1>9, <2>2, <2>7 DEF Values!Execute
  <2>9. QED
    BY <2>8 DEF Values!Next
<1>10. CASE ~StringFits(a, s.text)
  <2>1. status' = "RuntimeError" /\ arrays' = arrays
    BY <1>3, <1>10 DEF AssignString, Unless, Fail
  <2>2. Values!Stop(s)
    BY <1>7, <1>8, <1>10, <2>1 DEF Values!Stop, Values!Names
  <2>3. QED
    BY <2>2 DEF Values!Next
<1>11. QED
  BY <1>9, <1>10

-----------------------------------------------------------------------------
(* Lines and loops: they do not touch the arrays, but for the body.        *)

Kinds == {"element", "alias", "array", "string", "aggregate", "time"}

Apart(s) ==
  /\ s.kind \notin Kinds
  /\ UNCHANGED <<arrays, elapsed, alias>>
  /\ last' = s
  /\ status' = "running" \/ s.kind = "writeline"

LEMMA OtherValues ==
  ASSUME status = "running", NEW s, Apart(s)
  PROVE  Values!Next
<1>1. CASE status' = "running"
  <2>1. Values!Execute(s)
    BY <1>1 DEF Values!Execute, Values!Legal, Kinds, Apart
  <2>2. QED
    BY <2>1 DEF Values!Next, Apart
<1>2. CASE s.kind = "writeline" /\ status' # "running"
  <2>1. Values!Stop(s)
    BY <1>2 DEF Values!Stop, Values!Names, Apart
  <2>2. QED
    BY <2>1 DEF Values!Next, Apart
<1>3. QED
  BY <1>1, <1>2 DEF Apart

LEMMA BodyValues ==
  ASSUME IInv, LoopBody
  PROVE  Values!Next
<1>1. loop.of \in program /\ loop.of.kind = "loop" /\ loop.var.value \in Int
  BY DEF IInv, LoopIs, LoopBody
<1>2. loop.of.to \in DOMAIN arrays /\ loop.of.value \in Int
  BY <1>1, OfProgram, StatementIs
<1>3. PICK s : s = [kind |-> "element", to |-> loop.of.to, value |-> loop.of.value,
                    index |-> [number |-> loop.var.value, char |-> FALSE]]
  OBVIOUS
<1>4. /\ s.kind = "element" /\ s.to \in DOMAIN arrays /\ s.value \in Int
      /\ IsIndex(s.index) /\ ~s.index.char
  BY <1>1, <1>2, <1>3 DEF IsIndex
<1>5. PICK i : i = AbsoluteIndex(arrays[s.to].range, s.index)
  OBVIOUS
<1>6. /\ status = "running" /\ last' = s /\ UNCHANGED <<alias, elapsed>>
      /\ Unless(~Reached(arrays[s.to], i), "assert",
                arrays' = [arrays EXCEPT ![s.to] = PutAt(@, i, s)], UNCHANGED arrays)
  BY <1>3, <1>5 DEF LoopBody
<1>7. QED
  BY <1>4, <1>5, <1>6, ElementValues

-----------------------------------------------------------------------------
(* Aggregates.                                                             *)

LEMMA ThrowsIs ==
  ASSUME NEW a, IsArray(a), NEW s, IsAggregate(s)
  PROVE  (\E k \in DOMAIN Calls(s) : AtThrows(a, Calls(s)[k].number))
           <=> ~ /\ Len(s.listed) <= Size(a)
                 /\ \A k \in DOMAIN s.named : s.named[k].number \in 0 .. Size(a) - 1
<1>1. PICK n, l, m \in Nat : n = Size(a) /\ l = Len(s.listed) /\ m = Len(s.named)
  BY ContentIs, CallsAre
<1>2. PICK c : c = Calls(s)
  OBVIOUS
<1>3. /\ DOMAIN c = 1 .. l + m
      /\ \A k \in 1 .. l : c[k].number = k - 1
      /\ \A k \in 1 .. m : c[l + k] = s.named[k]
      /\ DOMAIN s.named = 1 .. m
  <2>1. c \in Seq(CallRecords) /\ Len(c) = l + m /\ s.named \in Seq(CallRecords)
    BY <1>1, <1>2, CallsAre DEF IsAggregate
  <2>2. DOMAIN c = 1 .. l + m /\ DOMAIN s.named = 1 .. m
    BY <1>1, <2>1, LenProperties
  <2>3. QED
    BY <1>1, <1>2, <2>2, CallsAre
<1>4. \A p : AtThrows(a, p) <=> p \notin 0 .. n - 1
  BY <1>1, ContentIs DEF AtThrows
<1>5. ASSUME NEW k \in 1 .. l + m, AtThrows(a, c[k].number)
      PROVE  ~(l <= n) \/ \E j \in 1 .. m : s.named[j].number \notin 0 .. n - 1
  <2>1. c[k].number \notin 0 .. n - 1
    BY <1>4, <1>5
  <2>2. CASE k <= l
    <3>1. k \in 1 .. l
      BY <2>2
    <3>2. c[k].number = k - 1
      BY <1>3, <3>1
    <3>3. QED
      BY <2>1, <3>1, <3>2
  <2>3. CASE ~(k <= l)
    <3>1. PICK j \in 1 .. m : k = l + j
      <4>1. k - l \in 1 .. m /\ k = l + (k - l)
        BY <2>3
      <4>2. QED
        BY <4>1
    <3>2. QED
      BY <1>3, <2>1, <3>1
  <2>4. QED
    BY <2>2, <2>3
<1>6. ASSUME ~(l <= n) \/ \E j \in 1 .. m : s.named[j].number \notin 0 .. n - 1
      PROVE  \E k \in 1 .. l + m : AtThrows(a, c[k].number)
  <2>1. CASE ~(l <= n)
    <3>1. n + 1 \in 1 .. l /\ n + 1 \in 1 .. l + m
      BY <2>1
    <3>2. c[n + 1].number = n
      BY <1>3, <3>1
    <3>3. AtThrows(a, c[n + 1].number)
      BY <1>4, <3>2
    <3>4. QED
      BY <3>1, <3>3
  <2>2. CASE \E j \in 1 .. m : s.named[j].number \notin 0 .. n - 1
    <3>1. PICK j \in 1 .. m : s.named[j].number \notin 0 .. n - 1
      BY <2>2
    <3>2. l + j \in 1 .. l + m /\ c[l + j] = s.named[j]
      BY <1>3
    <3>3. AtThrows(a, c[l + j].number)
      BY <1>4, <3>1, <3>2
    <3>4. QED
      BY <3>2, <3>3
  <2>3. QED
    BY <1>6, <2>1, <2>2
<1>7. QED
  BY <1>1, <1>2, <1>3, <1>5, <1>6

\* What an aggregate gives the element at a place.
Given(s, p, old) ==
  IF Values!Named(s, p) # {}
    THEN s.named[CHOOSE k \in Values!Named(s, p) : \A j \in Values!Named(s, p) : k >= j].value
  ELSE IF p < Len(s.listed) THEN s.listed[p + 1]
  ELSE IF s.others # -1 THEN s.others
  ELSE old

\* All elements are given: none is left that others should have, and did not, reach.
Complete(a, s) ==
  \/ s.others = -1
  \/ Size(a) - 1 \in 0 .. Len(s.listed) - 1
  \/ Values!Named(s, Size(a) - 1) # {}

LEMMA GivenIs ==
  ASSUME NEW a, IsArray(a), NEW s, IsAggregate(s), Complete(a, s), NEW p \in 0 .. Size(a) - 1
  PROVE  Aggregated(a, s).content[p + 1].value = Given(s, p, a.content[p + 1].value)
<1>1. PICK n, l, m \in Nat : n = Size(a) /\ l = Len(s.listed) /\ m = Len(s.named)
  BY ContentIs, CallsAre
<1>2. PICK c : c = Calls(s)
  OBVIOUS
<1>3. PICK N : N = Values!Named(s, p)
  OBVIOUS
<1>4. /\ Len(c) = l + m
      /\ \A k \in 1 .. l : c[k].number = k - 1 /\ c[k].value = s.listed[k]
      /\ \A k \in 1 .. m : c[l + k] = s.named[k]
      /\ N = {k \in 1 .. m : s.named[k].number = p}
  <2>1. DOMAIN s.named = 1 .. m
    BY <1>1, LenProperties DEF IsAggregate
  <2>2. QED
    BY <1>1, <1>2, <1>3, <2>1, CallsAre DEF Values!Named
<1>5. PICK j \in 1 .. n : j = p + 1 /\ j - 1 = p
  BY <1>1
<1>6. PICK v : v = Aggregated(a, s).content[j].value
  OBVIOUS
<1>7. \/ /\ \A i \in 1 .. l + m : c[i].number # p
         /\ v = Start(a, s).content[j].value
      \/ \E i \in 1 .. l + m :
             /\ c[i].number = p
             /\ \A k \in i + 1 .. l + m : c[k].number # p
             /\ v = c[i].value
  <2>1. j \in 1 .. Size(a)
    BY <1>1
  <2>2. \/ /\ \A i \in 1 .. Len(c) : c[i].number # j - 1
           /\ v = Start(a, s).content[j].value
        \/ \E i \in 1 .. Len(c) :
               /\ c[i].number = j - 1
               /\ \A k \in i + 1 .. Len(c) : c[k].number # j - 1
               /\ v = c[i].value
    BY <1>2, <1>6, <2>1, TraceValues
  <2>3. QED
    BY <1>4, <1>5, <2>2
<1>8. CASE /\ \A i \in 1 .. l + m : c[i].number # p
           /\ v = Start(a, s).content[j].value
  <2>1. N = {}
    <3>1. \A k \in 1 .. m : l + k \in 1 .. l + m
      OBVIOUS
    <3>2. \A k \in 1 .. m : s.named[k].number # p
      BY <1>4, <1>8, <3>1
    <3>3. QED
      BY <1>4, <3>2
  <2>2. ~(p < l)
    <3>1. SUFFICES ASSUME p < l PROVE FALSE
      OBVIOUS
    <3>2. j \in 1 .. l /\ j \in 1 .. l + m
      BY <1>5, <3>1
    <3>3. QED
      BY <1>4, <1>5, <1>8, <3>2
  <2>3. CASE s.others = -1
    <3>1. v = a.content[j].value
      BY <1>8, <2>3 DEF Start
    <3>2. QED
      BY <1>1, <1>3, <1>5, <1>6, <2>1, <2>2, <2>3, <3>1 DEF Given
  <2>4. CASE s.others # -1
    <3>1. j # n
      <4>1. SUFFICES ASSUME j = n PROVE FALSE
        OBVIOUS
      <4>2. Size(a) - 1 = p
        BY <1>1, <1>5, <4>1
      <4>3. p \in 0 .. l - 1 \/ N # {}
        BY <1>1, <1>3, <2>4, <4>2 DEF Complete
      <4>4. QED
        BY <2>1, <2>2, <4>3
    <3>2. s.others \in Int /\ Start(a, s) = SetOthers(a, [value |-> s.others])
      BY <2>4 DEF Start, IsAggregate
    <3>3. v = s.others
      <4>1. PICK e : e = [value |-> s.others]
        OBVIOUS
      <4>2. e.value = s.others
        BY <4>1
      <4>3. SetOthers(a, e).content[j].value = IF j = n THEN a.content[j].value ELSE e.value
        BY <1>1, <3>2, <4>2, SetOthersIs
      <4>4. QED
        BY <1>8, <3>1, <3>2, <4>1, <4>2, <4>3
    <3>4. QED
      BY <1>1, <1>3, <1>5, <1>6, <2>1, <2>2, <2>4, <3>3 DEF Given
  <2>5. QED
    BY <2>3, <2>4
<1>9. CASE \E i \in 1 .. l + m :
             /\ c[i].number = p
             /\ \A k \in i + 1 .. l + m : c[k].number # p
             /\ v = c[i].value
  <2>1. PICK i \in 1 .. l + m :
             /\ c[i].number = p
             /\ \A k \in i + 1 .. l + m : c[k].number # p
             /\ v = c[i].value
    BY <1>9
  <2>2. CASE i <= l
    <3>1. i \in 1 .. l
      BY <2>2
    <3>2. i = j /\ v = s.listed[j] /\ p < l
      BY <1>4, <1>5, <2>1, <3>1
    <3>3. N = {}
      <4>1. \A k \in 1 .. m : l + k \in i + 1 .. l + m
        BY <2>2
      <4>2. QED
        BY <1>4, <2>1, <4>1
    <3>4. QED
      BY <1>1, <1>3, <1>5, <1>6, <3>2, <3>3 DEF Given
  <2>3. CASE ~(i <= l)
    <3>1. PICK k \in 1 .. m : i = l + k
      <4>1. i - l \in 1 .. m /\ i = l + (i - l)
        BY <2>3
      <4>2. QED
        BY <4>1
    <3>2. s.named[k].number = p /\ v = s.named[k].value /\ k \in N
      BY <1>4, <2>1, <3>1
    <3>3. \A x \in N : k >= x
      <4>1. SUFFICES ASSUME NEW x \in N, ~(k >= x) PROVE FALSE
        OBVIOUS
      <4>2. x \in 1 .. m /\ s.named[x].number = p
        BY <1>4, <4>1
      <4>3. l + x \in i + 1 .. l + m
        BY <3>1, <4>1, <4>2
      <4>4. QED
        BY <1>4, <2>1, <4>2, <4>3
    <3>4. (CHOOSE x \in N : \A y \in N : x >= y) = k
      <4>1. N \subseteq Int
        BY <1>4
      <4>2. \A x \in N : (\A y \in N : x >= y) => x = k
        BY <3>2, <3>3, <4>1
      <4>3. QED
        BY <3>2, <3>3, <4>2
    <3>5. QED
      BY <1>3, <1>5, <1>6, <3>2, <3>4 DEF Given
  <2>4. QED
    BY <2>2, <2>3
<1>10. QED
  BY <1>7, <1>8, <1>9

\* A complete aggregate, as a function of the places.
LEMMA ComposedIs ==
  ASSUME NEW a, IsArray(a), NEW s, IsAggregate(s), Complete(a, s)
  PROVE  /\ Bounds(Aggregated(a, s)) = Bounds(a)
         /\ AsFunction(Aggregated(a, s)) = [i \in Values!Indexes(Bounds(a)) |->
                Given(s, Values!Place(Bounds(a), i),
                      AsFunction(a)[Values!IndexAt(Bounds(a), Values!Place(Bounds(a), i))])]
<1>1. PICK c : c = Aggregated(a, s)
  OBVIOUS
<1>2. PICK b : b = Bounds(a)
  OBVIOUS
<1>3. IsArray(c) /\ c.range = a.range
  BY <1>1, AggregatedIs DEF SameButElements
<1>4. Bounds(c) = b /\ AsFunction(c) = [i \in Values!Indexes(b) |-> c.content[Values!Place(b, i) + 1].value]
  BY <1>2, <1>3, SameBounds
<1>5. ASSUME NEW i \in Values!Indexes(b)
      PROVE  c.content[Values!Place(b, i) + 1].value
               = Given(s, Values!Place(b, i), AsFunction(a)[Values!IndexAt(b, Values!Place(b, i))])
  <2>1. PICK p : p = Values!Place(b, i)
    OBVIOUS
  <2>2. p \in 0 .. Size(a) - 1
    BY <1>2, <2>1, PlacesAre
  <2>3. AsFunction(a)[Values!IndexAt(b, p)] = a.content[p + 1].value
    BY <1>2, <2>2, FoundAt
  <2>4. c.content[p + 1].value = Given(s, p, a.content[p + 1].value)
    BY <1>1, <2>2, GivenIs
  <2>5. QED
    BY <2>1, <2>3, <2>4
<1>6. QED
  BY <1>1, <1>2, <1>4, <1>5

LEMMA AggregateValues ==
  ASSUME IInv, status = "running", NEW s \in program, AssignAggregate(s), UNCHANGED alias, last' = s
  PROVE  Values!Next
<1>1. s.kind = "aggregate"
  BY DEF AssignAggregate
<1>2. s.to \in DOMAIN arrays /\ IsAggregate(s)
  BY <1>1, OfProgram, StatementIs
<1>3. PICK a : a = arrays[s.to]
  OBVIOUS
<1>4. IsArray(a) /\ Values!Length(Bounds(a)) = Size(a)
  BY <1>2, <1>3, RangeIs, BoundsIs DEF IsArray
<1>5. BoundsOf(arrays)[s.to] = Bounds(a) /\ FunctionsOf(arrays)[s.to] = AsFunction(a)
  BY <1>2, <1>3 DEF BoundsOf, FunctionsOf
<1>6. PICK throws \in BOOLEAN : throws <=> \E k \in DOMAIN Calls(s) : AtThrows(a, Calls(s)[k].number)
  OBVIOUS
<1>7. Values!Legal(s) <=> ~throws
  <2>1. Values!Legal(s) <=> /\ Len(s.listed) <= Values!Length(BoundsOf(arrays)[s.to])
                            /\ \A k \in DOMAIN s.named :
                                   s.named[k].number \in 0 .. Values!Length(BoundsOf(arrays)[s.to]) - 1
    BY <1>1 DEF Values!Legal, BoundsOf
  <2>2. throws <=> ~ /\ Len(s.listed) <= Size(a)
                     /\ \A k \in DOMAIN s.named : s.named[k].number \in 0 .. Size(a) - 1
    BY <1>2, <1>4, <1>6, ThrowsIs
  <2>3. QED
    BY <1>4, <1>5, <2>1, <2>2
<1>8. elapsed' = elapsed
  BY DEF AssignAggregate
<1>9. PICK c : IsArray(c) /\ SameButElements(a, c) /\ arrays' = [arrays EXCEPT ![s.to] = c]
  BY <1>3, AggregateStep
<1>10. arrays' = With(arrays, s.to, c) /\ Bounds(c) = Bounds(a)
  BY <1>9 DEF With, SameButElements, Bounds
<1>11. /\ BoundsOf(arrays') = BoundsOf(arrays)
       /\ FunctionsOf(arrays') = With(FunctionsOf(arrays), s.to, AsFunction(c))
  BY <1>2, <1>3, <1>10, Assigned
<1>12. /\ DOMAIN FunctionsOf(arrays') = DOMAIN FunctionsOf(arrays)
       /\ \A n \in DOMAIN FunctionsOf(arrays) \ {s.to} : FunctionsOf(arrays')[n] = FunctionsOf(arrays)[n]
  BY <1>11 DEF With
<1>13. CASE throws
  <2>1. status' = "out_of_range"
    BY <1>3, <1>6, <1>13 DEF AssignAggregate, Fail
  <2>2. Values!Stop(s)
    BY <1>1, <1>7, <1>8, <1>11, <1>12, <1>13, <2>1 DEF Values!Stop, Values!Names, BoundsOf, FunctionsOf
  <2>3. QED
    BY <2>2 DEF Values!Next
<1>14. CASE ~throws
  <2>1. status' = "running" /\ arrays' = [arrays EXCEPT ![s.to] = Aggregated(a, s)]
    BY <1>3, <1>6, <1>14 DEF AssignAggregate, Proceed
  <2>2. ASSUME Values!Promised(s) PROVE Values!Compose(s)
    <3>1. Complete(a, s)
      <4>1. \/ s.others = -1
            \/ Values!Length(BoundsOf(arrays)[s.to]) - 1 \in 0 .. Len(s.listed) - 1
            \/ Values!Named(s, Values!Length(BoundsOf(arrays)[s.to]) - 1) # {}
        BY <2>2 DEF Values!Promised, BoundsOf
      <4>2. QED
        BY <1>4, <1>5, <4>1 DEF Complete
    <3>2. PICK d : d = Aggregated(a, s)
      OBVIOUS
    <3>3. PICK b, f : b = Bounds(a) /\ f = AsFunction(a)
      OBVIOUS
    <3>4. AsFunction(d) = [i \in Values!Indexes(b) |->
               Given(s, Values!Place(b, i), f[Values!IndexAt(b, Values!Place(b, i))])]
      BY <1>2, <1>4, <3>1, <3>2, <3>3, ComposedIs
    <3>5. arrays' = With(arrays, s.to, d)
      BY <2>1, <3>2 DEF With
    <3>6. FunctionsOf(arrays') = With(FunctionsOf(arrays), s.to, AsFunction(d))
      BY <1>2, <3>5, Assigned
    <3>7. FunctionsOf(arrays') = [FunctionsOf(arrays) EXCEPT ![s.to] =
              [i \in Values!Indexes(BoundsOf(arrays)[s.to]) |->
                 Given(s, Values!Place(BoundsOf(arrays)[s.to], i),
                     FunctionsOf(arrays)[s.to][Values!IndexAt(BoundsOf(arrays)[s.to],
                                                   Values!Place(BoundsOf(arrays)[s.to], i))])]]
      BY <1>5, <3>3, <3>4, <3>6 DEF With
    <3>8. Values!Compose(s)
      BY <1>8, <1>11, <2>2, <3>7 DEF Values!Compose, Values!FromLeft, Given, BoundsOf, FunctionsOf
    <3>9. QED
      BY <3>8
  <2>3. ASSUME ~Values!Promised(s) PROVE Values!Compose(s)
    <3>1. Values!Compose(s)
      BY <1>8, <1>11, <1>12, <2>3 DEF Values!Compose, Values!Names, BoundsOf, FunctionsOf
    <3>2. QED
      BY <3>1
  <2>4. Values!Compose(s)
    BY <2>2, <2>3
  <2>5. Values!Execute(s)
    BY <1>1, <1>7, <1>14, <2>1, <2>4 DEF Values!Execute
  <2>6. QED
    BY <2>5 DEF Values!Next
<1>15. QED
  BY <1>13, <1>14

-----------------------------------------------------------------------------
(* Times.                                                                  *)

\* A value, in each of the units below its own.
Expansion(v, n, f) == f = [u \in 0 .. n |-> IF u = 0 THEN v ELSE UNITS[u] * f[u - 1]]

LEMMA ExpansionExists ==
  ASSUME NEW v, NEW n \in Nat
  PROVE  \E f : Expansion(v, n, f)
<1> DEFINE At(f, j) == IF j = 0 THEN v ELSE UNITS[j] * f[j - 1]
           S == {k \in 0 .. n : \E f : f = [j \in 0 .. k |-> At(f, j)]}
<1>1. 0 \in S
  <2> DEFINE f == [j \in 0 .. 0 |-> v]
  <2>1. f = [j \in 0 .. 0 |-> At(f, j)]
    OBVIOUS
  <2>2. \E g : g = [j \in 0 .. 0 |-> At(g, j)]
    <3> HIDE DEF At, f
    <3> QED
      BY <2>1
  <2>3. QED
    BY <2>2
<1>2. ASSUME NEW k \in 0 .. n - 1, k \in S PROVE k + 1 \in S
  <2>1. PICK f : f = [j \in 0 .. k |-> At(f, j)]
    BY <1>2
  <2> DEFINE h == [j \in 0 .. k + 1 |-> IF j = k + 1 THEN At(f, j) ELSE f[j]]
  <2>2. ASSUME NEW j \in 0 .. k + 1 PROVE h[j] = At(h, j)
    <3>1. j # 0 => j - 1 \in 0 .. k + 1 /\ j - 1 # k + 1
      OBVIOUS
    <3>2. j # 0 => h[j - 1] = f[j - 1]
      BY <3>1
    <3>3. At(h, j) = At(f, j)
      BY <3>2
    <3>4. CASE j = k + 1
      BY <3>3, <3>4
    <3>5. CASE j # k + 1
      <4>1. j \in 0 .. k
        BY <3>5
      <4>2. f[j] = At(f, j)
        BY <2>1, <4>1
      <4>3. QED
        BY <3>3, <3>5, <4>2
    <3>6. QED
      BY <3>4, <3>5
  <2>3. h = [j \in 0 .. k + 1 |-> h[j]]
    OBVIOUS
  <2>4. h = [j \in 0 .. k + 1 |-> At(h, j)]
    <3> HIDE DEF At
    <3> QED
      BY <2>2, <2>3
  <2>5. k + 1 \in 0 .. n
    OBVIOUS
  <2> HIDE DEF h, At
  <2>6. QED
    BY <2>4, <2>5
<1>3. n \in S
  <2> HIDE DEF S
  <2>1. \A k \in 0 .. n - 1 : k \in S => k + 1 \in S
    BY <1>2
  <2>2. 0 .. n \subseteq S
    BY <1>1, <2>1, RangeInduction
  <2>3. QED
    BY <2>2
<1>4. QED
  BY <1>3 DEF Expansion

LEMMA BaseIs ==
  ASSUME NEW p, p.unit \in Nat
  PROVE  \E f : Expansion(p.value, p.unit, f) /\ Base(p) = f[p.unit]
<1>1. Base(p) = (CHOOSE f : Expansion(p.value, p.unit, f))[p.unit]
  BY DEF Base, Expansion
<1>2. \E f : Expansion(p.value, p.unit, f)
  BY ExpansionExists
<1>3. QED
  BY <1>1, <1>2

\* The expansion of a sum is the sum of the expansions.
LEMMA ExpansionAdds ==
  ASSUME NEW v \in Int, NEW w \in Int, NEW n \in DOMAIN UNITS,
         NEW f, Expansion(v, n, f), NEW g, Expansion(w, n, g), NEW h, Expansion(v + w, n, h)
  PROVE  h[n] = f[n] + g[n]
<1>1. n \in Nat /\ \A u \in 1 .. n : UNITS[u] \in Int
  BY UnitsAssumption, LenProperties
<1>2. /\ f[0] = v /\ \A u \in 1 .. n : f[u] = UNITS[u] * f[u - 1]
      /\ g[0] = w /\ \A u \in 1 .. n : g[u] = UNITS[u] * g[u - 1]
      /\ h[0] = v + w /\ \A u \in 1 .. n : h[u] = UNITS[u] * h[u - 1]
  <2>1. 0 \in 0 .. n /\ \A u \in 1 .. n : u \in 0 .. n /\ u # 0
    BY <1>1
  <2>2. QED
    BY <2>1 DEF Expansion
<1> DEFINE S == {k \in 0 .. n : f[k] \in Int /\ g[k] \in Int /\ h[k] = f[k] + g[k]}
<1>3. 0 \in S
  BY <1>1, <1>2
<1>4. ASSUME NEW k \in 0 .. n - 1, k \in S PROVE k + 1 \in S
  <2>1. PICK m \in 1 .. n : m = k + 1 /\ m - 1 = k /\ m \in 0 .. n
    BY <1>1
  <2>2. PICK c \in Int : c = UNITS[m]
    BY <1>1
  <2>3. PICK x, y \in Int : x = f[k] /\ y = g[k] /\ h[k] = x + y
    BY <1>4
  <2>4. f[m] = c * x /\ g[m] = c * y /\ h[m] = c * (x + y)
    BY <1>2, <2>1, <2>2, <2>3
  <2>5. c * x \in Int /\ c * y \in Int /\ c * (x + y) = c * x + c * y
    OBVIOUS
  <2>6. f[m] \in Int /\ g[m] \in Int /\ h[m] = f[m] + g[m]
    BY <2>4, <2>5
  <2>7. QED
    BY <2>1, <2>6
<1>5. n \in S
  <2> HIDE DEF S
  <2>1. \A k \in 0 .. n - 1 : k \in S => k + 1 \in S
    BY <1>4
  <2>2. 0 .. n \subseteq S
    BY <1>1, <1>3, <2>1, RangeInduction
  <2>3. n \in 0 .. n
    BY <1>1
  <2>4. QED
    BY <2>2, <2>3
<1>6. QED
  BY <1>5

LEMMA BaseAdds ==
  ASSUME NEW p \in Times, NEW q \in Times, p.unit = q.unit
  PROVE  Plus(p, q).unit = p.unit /\ Base(Plus(p, q)) = Base(p) + Base(q)
<1>1. p.unit \in DOMAIN UNITS /\ p.value \in Int /\ q.value \in Int /\ p.unit \in Nat
  <2>1. DOMAIN UNITS \subseteq Nat
    BY UnitsAssumption, LenProperties
  <2>2. QED
    BY <2>1 DEF Times
<1>2. PICK r : r = Plus(p, q)
  OBVIOUS
<1>3. r.value = p.value + q.value /\ r.unit = p.unit
  BY <1>1, <1>2, PlusIs
<1>4. PICK f : Expansion(p.value, p.unit, f) /\ Base(p) = f[p.unit]
  BY <1>1, BaseIs
<1>5. PICK g : Expansion(q.value, p.unit, g) /\ Base(q) = g[p.unit]
  BY <1>1, BaseIs
<1>6. PICK h : Expansion(p.value + q.value, p.unit, h) /\ Base(r) = h[p.unit]
  BY <1>1, <1>3, BaseIs
<1>7. h[p.unit] = f[p.unit] + g[p.unit]
  BY <1>1, <1>4, <1>5, <1>6, ExpansionAdds
<1>8. QED
  BY <1>2, <1>3, <1>4, <1>5, <1>6, <1>7

LEMMA TimeValues ==
  ASSUME IInv, status = "running", NEW s \in program, AddTime(s), UNCHANGED alias, last' = s
  PROVE  Values!Next
<1>1. s.kind = "time" /\ arrays' = arrays
  BY DEF AddTime
<1>2. s.amount \in Times /\ elapsed \in Times
  BY <1>1, OfProgram, StatementIs DEF IInv
<1>3. Summable(elapsed, s.amount) <=> s.amount.unit = elapsed.unit
  <2>1. elapsed.unit \in Int /\ s.amount.unit \in Int
    <3>1. DOMAIN UNITS \subseteq Int
      BY UnitsAssumption, LenProperties
    <3>2. QED
      BY <1>2, <3>1 DEF Times
  <2>2. QED
    BY <2>1, SameUnits
<1>4. Values!Legal(s) <=> Summable(elapsed, s.amount)
  BY <1>1, <1>3 DEF Values!Legal
<1>5. CASE Summable(elapsed, s.amount)
  <2>1. status' = "running" /\ elapsed' = Plus(elapsed, s.amount)
    BY <1>5 DEF AddTime, Unless, Proceed
  <2>2. elapsed'.unit = elapsed.unit /\ Base(elapsed') = Base(elapsed) + Base(s.amount)
    BY <1>2, <1>3, <1>5, <2>1, BaseAdds
  <2>3. Values!Add(s)
    BY <1>1, <2>2 DEF Values!Add
  <2>4. Values!Execute(s)
    BY <1>1, <1>4, <1>5, <2>1, <2>3 DEF Values!Execute
  <2>5. QED
    BY <2>4 DEF Values!Next
<1>6. CASE ~Summable(elapsed, s.amount)
  <2>1. status' = "assert" /\ elapsed' = elapsed
    BY <1>6 DEF AddTime, Unless, Fail
  <2>2. Values!Stop(s)
    BY <1>1, <1>4, <1>6, <2>1 DEF Values!Stop, Values!Names
  <2>3. QED
    BY <2>2 DEF Values!Next
<1>7. QED
  BY <1>5, <1>6

-----------------------------------------------------------------------------
(* Every step of the process is one of ArrayValues, or none.               *)

LEMMA StatementValues ==
  ASSUME IInv, Step
  PROVE  Values!Next
<1>1. status = "running" /\ UNCHANGED alias /\ \E s \in program : Statement(s) /\ last' = s
  BY DEF Step
<1>2. PICK s \in program : Statement(s) /\ last' = s
  BY <1>1
<1>3. CASE AssignElement(s)
  <2>1. s.kind = "element" /\ UNCHANGED elapsed
    BY <1>3, ElementStep DEF AssignElement
  <2>2. PICK names, typed, aliased : names = DOMAIN arrays /\ typed = Typed(arrays) /\ aliased = alias.to
    OBVIOUS
  <2>3. s \in Statements(names, typed, aliased) /\ Named(names, typed, aliased)
    BY <2>2, OfProgram
  <2>4. s.to \in names /\ IsIndex(s.index) /\ s.value \in Int
    BY <2>1, <2>3, StatementIs
  <2>5. s.index.char => s.to \in typed
    BY <2>1, <2>3, StatementIs
  <2>6. PICK i : i = AbsoluteIndex(arrays[s.to].range, s.index)
    OBVIOUS
  <2>7. Unless(~Reached(arrays[s.to], i), "assert",
               arrays' = [arrays EXCEPT ![s.to] = PutAt(@, i, s)], UNCHANGED arrays)
    BY <1>3, <2>6 DEF AssignElement
  <2>8. QED
    BY <1>1, <1>2, <2>1, <2>2, <2>4, <2>5, <2>6, <2>7, ElementValues
<1>4. CASE AssignAlias(s)
  BY <1>1, <1>2, <1>4, AliasValues
<1>5. CASE AssignArray(s)
  BY <1>1, <1>2, <1>5, ArrayValues
<1>6. CASE AssignString(s)
  BY <1>1, <1>2, <1>6, StringValues
<1>7. CASE AssignAggregate(s)
  BY <1>1, <1>2, <1>7, AggregateValues
<1>8. CASE AddTime(s)
  BY <1>1, <1>2, <1>8, TimeValues
<1>9. CASE Write(s)
  <2>1. Apart(s)
    BY <1>1, <1>2, <1>9 DEF Write, Proceed, Kinds, Apart
  <2>2. QED
    BY <1>1, <2>1, OtherValues
<1>10. CASE WriteLine(s)
  <2>1. Apart(s)
    BY <1>1, <1>2, <1>10 DEF WriteLine, Kinds, Apart
  <2>2. QED
    BY <1>1, <2>1, OtherValues
<1>11. CASE EnterLoop(s)
  <2>1. Apart(s)
    BY <1>1, <1>2, <1>11 DEF EnterLoop, Proceed, Kinds, Apart
  <2>2. QED
    BY <1>1, <2>1, OtherValues
<1>12. QED
  BY <1>2, <1>3, <1>4, <1>5, <1>6, <1>7, <1>8, <1>9, <1>10, <1>11 DEF Statement

LEMMA InitValues == IInv /\ Init => Values!Init
<1> SUFFICES ASSUME IInv, Init PROVE Values!Init
  OBVIOUS
<1>1. status = "running"
  BY DEF Init
<1>2. ASSUME NEW n \in DOMAIN arrays
      PROVE  DOMAIN AsFunction(arrays[n]) = Values!Indexes(Bounds(arrays[n]))
  <2>1. PICK a : a = arrays[n]
    OBVIOUS
  <2>2. AsFunction(a) = [i \in Values!Indexes(Bounds(a)) |-> a.content[Values!Place(Bounds(a), i) + 1].value]
    BY <2>1, RangeIs, AsFunctionIs
  <2>3. QED
    BY <2>1, <2>2
<1>3. QED
  BY <1>1, <1>2 DEF Values!Init, Values!Names

\* A process on the kernel's arrays, its alias, its strings, aggregates and
\* times does what ArrayValues says of a statement, and ends where the statement
\* is illegal (Array, Enumeration, PhysicalType).
THEOREM KernelImplementsArrayValues == Spec => ImplementsArrayValues
<1>1. ASSUME IInv, [Next]_vars PROVE [Values!Next]_(Values!vars)
  <2>1. CASE Step
    BY <1>1, <2>1, StatementValues
  <2>2. CASE LoopBody
    BY <1>1, <2>2, BodyValues
  <2>3. CASE LeaveLoop
    BY <2>3 DEF LeaveLoop, Values!vars
  <2>4. CASE UNCHANGED vars
    BY <2>4 DEF vars, Values!vars
  <2>5. QED
    BY <1>1, <2>1, <2>2, <2>3, <2>4 DEF Next
<1>2. Init => Values!Init
  BY InitInv, InitValues
<1>3. QED
  BY <1>1, <1>2, InvAlways, PTL DEF Spec, ImplementsArrayValues, Values!Spec

-----------------------------------------------------------------------------
(* What a for loop has visited, and assigned, when it is left.             *)

\* The numbers from one to another, in order.
Run(from, to) == [k \in 1 .. to - from + 1 |-> from + k - 1]

\* RIGHTOF takes the direction from the bounds: of a range, or of a whole type.
Upward(l) == l.of.byType \/ l.var.left < l.var.right

Visited(l) ==
  IF Upward(l)
  THEN l.var.left <= l.var.value /\ l.var.value <= l.var.right + 1 /\ l.seen = Run(l.var.left, l.var.value - 1)
  ELSE l.var.value <= l.var.left /\ (l.var.left > l.var.right => l.var.value = l.var.left /\ l.seen = <<>>)

\* A loop is on its way through left .. right; where it has been the elements
\* are assigned, until another statement is executed.
OnItsWay(l, as, s) ==
  /\ {"value", "left", "right"} \subseteq DOMAIN l.var
  /\ l.of.byType \in BOOLEAN
  /\ l.var.value \in Int /\ l.var.left \in Int /\ l.var.right \in Int
  /\ l.of.byType => l.var.left <= l.var.right
  /\ Visited(l)
  /\ l.phase = "left" => l.var.right < l.var.value
  /\ l.phase = "running" /\ s = "running" /\ Upward(l) =>
         \A i \in l.var.left .. l.var.value - 1 : Found(as[l.of.to], i) = l.of.value

LoopInv == loop.phase # "none" => OnItsWay(loop, arrays, status)

\* A loop that is left has visited every value from its left to its right bound,
\* once and in order, whatever direction its range was given (sequential.hpp): none
\* of a range that descends, all of a null range written downto.  A range of one
\* value it never leaves, as RIGHTOF takes it downwards.
LoopsLeftHaveVisited ==
  loop.phase = "left" => /\ loop.seen = Run(loop.var.left, loop.var.right)
                         /\ loop.of.byType \/ loop.var.left # loop.var.right

\* When a loop is left its array has the value it assigned at every one of them.
LoopsLeaveTheirValue ==
  [][LeaveLoop => \A i \in loop.var.left .. loop.var.right :
                      Found(arrays[loop.of.to], i) = loop.of.value]_vars

LEMMA EmptyRun ==
  ASSUME NEW from \in Int, NEW to \in Int, to < from
  PROVE  Run(from, to) = <<>>
<1>1. 1 .. to - from + 1 = {}
  OBVIOUS
<1>2. Run(from, to) = [k \in {} |-> from + k - 1]
  BY <1>1 DEF Run
<1>3. <<>> = [k \in {} |-> from + k - 1]
  OBVIOUS
<1>4. QED
  BY <1>2, <1>3

LEMMA LongerRun ==
  ASSUME NEW from \in Int, NEW to \in Int, from <= to + 1
  PROVE  Append(Run(from, to), to + 1) = Run(from, to + 1)
<1>1. PICK n \in Nat : n = to - from + 1
  OBVIOUS
<1>2. Run(from, to) = [k \in 1 .. n |-> from + k - 1]
  BY <1>1 DEF Run
<1>3. Run(from, to) \in Seq(Int) /\ Len(Run(from, to)) = n
  BY <1>1, <1>2, FunctionIsSequence
<1>4. PICK s : s = Append(Run(from, to), to + 1)
  OBVIOUS
<1>5. /\ s \in Seq(Int) /\ Len(s) = n + 1 /\ s[n + 1] = to + 1
      /\ \A k \in 1 .. n : s[k] = from + k - 1
  BY <1>2, <1>3, <1>4, AppendProperties
<1>6. s = [k \in 1 .. n + 1 |-> s[k]]
  <2>1. s \in [1 .. Len(s) -> Int]
    BY <1>5, LenProperties
  <2>2. QED
    BY <1>5, <2>1
<1>7. \A k \in 1 .. n + 1 : s[k] = from + k - 1
  BY <1>1, <1>5
<1>8. s = [k \in 1 .. n + 1 |-> from + k - 1]
  BY <1>6, <1>7
<1>9. n + 1 = (to + 1) - from + 1
  BY <1>1
<1>10. QED
  BY <1>4, <1>8, <1>9 DEF Run

LEMMA LoopVariableIs ==
  ASSUME IInv, NEW s \in program, s.kind = "loop", NEW v, v = LoopVariable(s)
  PROVE  /\ {"value", "left", "right"} \subseteq DOMAIN v
         /\ s.byType \in BOOLEAN
         /\ v.left \in Int /\ v.right \in Int
         /\ s.byType => v.left <= v.right
<1>1. /\ s.byType \in BOOLEAN /\ s.range.left \in Int /\ s.range.right \in Int
  BY OfProgram, StatementIs
<1>2. CASE s.byType
  <2>1. v = [value |-> 0, left |-> 0, right |-> SIZE - 1]
    BY <1>2, SIZEIs DEF LoopVariable, Enumeration, Whole
  <2>2. QED
    BY <1>2, <2>1, SIZEIs
<1>3. CASE ~s.byType
  <2>1. v = [value |-> 0, left |-> s.range.left, right |-> s.range.right, ascending |-> s.range.ascending]
    BY <1>3 DEF LoopVariable, RangeOf
  <2>2. QED
    BY <1>1, <1>3, <2>1
<1>4. QED
  BY <1>1, <1>2, <1>3

\* A loop starts out before the left bound.
LEMMA Enters ==
  ASSUME IInv, NEW s \in program, EnterLoop(s)
  PROVE  OnItsWay(loop', arrays', status')
<1>1. PICK v : v = LoopVariable(s)
  OBVIOUS
<1>2. /\ {"value", "left", "right"} \subseteq DOMAIN v
      /\ s.byType \in BOOLEAN
      /\ v.left \in Int /\ v.right \in Int
      /\ s.byType => v.left <= v.right
  BY <1>1, LoopVariableIs DEF EnterLoop
<1>3. loop' = [phase |-> "running", of |-> s, var |-> [v EXCEPT !.value = v.left], seen |-> <<>>]
  BY <1>1 DEF EnterLoop
<1>4. PICK w : w = [v EXCEPT !.value = v.left]
  OBVIOUS
<1>5. /\ DOMAIN w = DOMAIN v /\ w.value = v.left /\ w.left = v.left /\ w.right = v.right
  BY <1>2, <1>4
<1>6. PICK l : l = loop'
  OBVIOUS
<1>7. l.phase = "running" /\ l.of = s /\ l.var = w /\ l.seen = <<>>
  BY <1>3, <1>4, <1>6
<1>8. Run(w.left, w.value - 1) = <<>>
  BY <1>2, <1>5, EmptyRun
<1>9. Visited(l)
  BY <1>2, <1>5, <1>7, <1>8 DEF Visited, Upward
<1>10. \A i \in w.left .. w.value - 1 : FALSE
  BY <1>2, <1>5
<1>11. OnItsWay(l, arrays', status')
  BY <1>2, <1>5, <1>7, <1>9, <1>10 DEF OnItsWay
<1>12. QED
  BY <1>6, <1>11

\* A value that is assigned is found; the others are found as they were.
LEMMA FoundIs ==
  ASSUME NEW a, IsArray(a), NEW i \in Int, NEW e, e.value \in Int,
         NEW p, p = ConvertIndex(a.range, i), Reached(a, p), NEW j \in Int
  PROVE  Found(PutAt(a, p, e), j) = IF j = i THEN e.value ELSE Found(a, j)
<1>1. HasHead(a) /\ DOMAIN a.content = 1 .. Size(a) /\ Len(a.content) = Size(a)
  BY ContentIs DEF IsArray
<1>2. PICK n \in Nat : n = Size(a)
  BY <1>1, SizeIs
<1>3. PICK b : b = Bounds(a)
  OBVIOUS
<1>4. b.left \in Int /\ b.ascending \in BOOLEAN
  BY <1>1, <1>3, BoundsIs
<1>5. PICK q : q = ConvertIndex(a.range, j)
  OBVIOUS
<1>6. p = Values!Place(b, i) /\ q = Values!Place(b, j) /\ p \in Int /\ q \in Int
  BY <1>1, <1>3, <1>5, PlaceIs
<1>7. p = q <=> i = j
  BY <1>4, <1>6 DEF Values!Place
<1>8. PICK c : c = PutAt(a, p, e)
  OBVIOUS
<1>9. /\ IsArray(c) /\ c.range = a.range /\ Size(c) = n
      /\ \A k \in 1 .. n : c.content[k].value = IF k = p + 1 THEN e.value ELSE a.content[k].value
  BY <1>2, <1>6, <1>8, PutAtIs DEF SameButElements
<1>10. Len(c.content) = n /\ Len(a.content) = n
  BY <1>1, <1>2, <1>9, ContentIs
<1>11. Reached(c, q) <=> Reached(a, q)
  BY <1>2, <1>9, <1>10 DEF Reached, IndexCheck
<1>12. Reached(a, q) => q + 1 \in 1 .. n
  BY <1>2, <1>6 DEF Reached, IndexCheck
<1>13. Reached(a, q) => c.content[q + 1].value = IF q = p THEN e.value ELSE a.content[q + 1].value
  BY <1>6, <1>9, <1>12
<1>14. Found(a, j) = IF Reached(a, q) THEN a.content[q + 1].value ELSE -1
  BY <1>5 DEF Found
<1>15. Found(c, j) = IF Reached(c, q) THEN c.content[q + 1].value ELSE -1
  BY <1>5, <1>9 DEF Found
<1>16. Found(c, j) = IF j = i THEN e.value ELSE Found(a, j)
  BY <1>7, <1>11, <1>13, <1>14, <1>15
<1>17. QED
  BY <1>8, <1>16

\* Each round of a loop assigns one element more, the next to the right.
LEMMA GoesRound ==
  ASSUME IInv, LoopBody, OnItsWay(loop, arrays, status)
  PROVE  OnItsWay(loop', arrays', status')
<1>1. /\ loop.of \in program /\ loop.of.kind = "loop" /\ loop.phase = "running" /\ status = "running"
      /\ DOMAIN loop = {"phase", "of", "var", "seen"}
  BY DEF IInv, LoopIs, LoopBody
<1>2. /\ {"value", "left", "right"} \subseteq DOMAIN loop.var
      /\ loop.of.byType \in BOOLEAN
      /\ loop.var.value \in Int /\ loop.var.left \in Int /\ loop.var.right \in Int
      /\ loop.of.byType => loop.var.left <= loop.var.right
  BY DEF OnItsWay
<1>3. PICK at \in Int : at = loop.var.value
  BY <1>2
<1>4. at <= loop.var.right
  BY <1>3 DEF LoopBody, Continues
<1> DEFINE next == Right(loop.of.byType, loop.var)
<1>5. next = IF Upward(loop) THEN at + 1 ELSE at - 1
  BY <1>2, <1>3 DEF Right, EnumerationRightOf, Enumeration, RIGHTOF, Upward
<1>6. loop' = [loop EXCEPT !.var.value = next, !.seen = Append(@, loop.var.value)]
  BY DEF LoopBody
<1> HIDE DEF next
<1>7. /\ loop'.phase = loop.phase /\ loop'.of = loop.of /\ DOMAIN loop'.var = DOMAIN loop.var
      /\ loop'.var.left = loop.var.left /\ loop'.var.right = loop.var.right
      /\ loop'.var.value = next /\ loop'.seen = Append(loop.seen, at)
  BY <1>1, <1>2, <1>3, <1>6
<1>8. Upward(loop') <=> Upward(loop)
  BY <1>7 DEF Upward
<1>9. Visited(loop')
  <2>1. CASE Upward(loop)
    <3>1. /\ loop.var.left <= at /\ loop.seen = Run(loop.var.left, at - 1)
      BY <1>3, <2>1 DEF OnItsWay, Visited
    <3>2. PICK before \in Int : before = at - 1
      OBVIOUS
    <3>3. loop'.seen = Run(loop.var.left, next - 1)
      <4>1. before + 1 = at /\ next - 1 = at
        BY <1>5, <2>1, <3>2
      <4>2. Append(Run(loop.var.left, before), before + 1) = Run(loop.var.left, before + 1)
        BY <1>2, <3>1, <4>1, LongerRun
      <4>3. QED
        BY <1>7, <3>1, <3>2, <4>1, <4>2
    <3>4. QED
      BY <1>2, <1>4, <1>5, <1>7, <1>8, <2>1, <3>1, <3>3 DEF Visited
  <2>2. CASE ~Upward(loop)
    <3>1. at <= loop.var.left
      BY <1>3, <2>2 DEF OnItsWay, Visited
    <3>2. loop.var.left <= loop.var.right
      \* A range that descends is not entered: its first value is past its right bound.
      BY <1>2, <1>3, <1>4, <2>2 DEF OnItsWay, Visited
    <3>3. QED
      BY <1>2, <1>5, <1>7, <1>8, <2>2, <3>1, <3>2 DEF Visited
  <2>3. QED
    BY <2>1, <2>2
<1>10. /\ loop.of.to \in DOMAIN arrays /\ loop.of.value \in Int
  <2>1. PICK o \in program : o = loop.of
    BY <1>1
  <2>2. o.kind = "loop"
    BY <1>1, <2>1
  <2>3. o.to \in DOMAIN arrays /\ o.value \in Int
    BY <2>2, OfProgram, StatementIs
  <2>4. QED
    BY <2>1, <2>3
<1>11. ASSUME status' = "running", Upward(loop), NEW i \in loop.var.left .. at
       PROVE  Found(arrays'[loop.of.to], i) = loop.of.value
  <2>1. PICK a : a = arrays[loop.of.to]
    OBVIOUS
  <2>2. IsArray(a) /\ HasHead(a)
    BY <1>10, <2>1, RangeIs DEF IsArray
  <2> DEFINE s == [kind |-> "element", to |-> loop.of.to, value |-> loop.of.value,
                   index |-> [number |-> at, char |-> FALSE]]
             p == AbsoluteIndex(a.range, s.index)
  <2>3. Reached(a, p) /\ arrays' = [arrays EXCEPT ![loop.of.to] = PutAt(a, p, s)]
    BY <1>3, <1>11, <2>1 DEF LoopBody, Unless, Fail
  <2>4. p = ConvertIndex(a.range, at)
    BY DEF AbsoluteIndex, IndexOf
  <2>5. arrays'[loop.of.to] = PutAt(a, p, s)
    BY <1>10, <2>3
  <2>6. s.value = loop.of.value
    OBVIOUS
  <2> HIDE DEF s, p
  <2>7. Found(PutAt(a, p, s), i) = IF i = at THEN loop.of.value ELSE Found(a, i)
    BY <1>10, <2>2, <2>3, <2>4, <2>6, <1>2, FoundIs
  <2>8. i # at => Found(a, i) = loop.of.value
    BY <1>1, <1>2, <1>3, <1>11, <2>1 DEF OnItsWay
  <2>9. QED
    BY <2>5, <2>7, <2>8
<1>12. status' = "running" /\ Upward(loop') =>
           \A i \in loop'.var.left .. loop'.var.value - 1 : Found(arrays'[loop'.of.to], i) = loop'.of.value
  <2>1. SUFFICES ASSUME status' = "running", Upward(loop')
                 PROVE  \A i \in loop'.var.left .. loop'.var.value - 1 :
                            Found(arrays'[loop'.of.to], i) = loop'.of.value
    OBVIOUS
  <2>2. loop'.var.value - 1 = at
    BY <1>5, <1>7, <1>8, <2>1
  <2>3. QED
    BY <1>7, <1>8, <1>11, <2>1, <2>2
<1>13. next \in Int
  BY <1>5
<1>14. QED
  BY <1>1, <1>2, <1>7, <1>9, <1>12, <1>13 DEF OnItsWay

LEMMA Leaves ==
  ASSUME IInv, LeaveLoop, OnItsWay(loop, arrays, status)
  PROVE  OnItsWay(loop', arrays', status')
<1>1. DOMAIN loop = {"phase", "of", "var", "seen"}
  BY DEF IInv, LoopIs
<1>2. loop' = [loop EXCEPT !.phase = "left"]
  BY DEF LeaveLoop
<1>3. loop'.phase = "left" /\ loop'.of = loop.of /\ loop'.var = loop.var /\ loop'.seen = loop.seen
  BY <1>1, <1>2
<1>4. loop.var.right < loop.var.value
  BY DEF LeaveLoop, Continues, OnItsWay
<1>5. Visited(loop')
  BY <1>3 DEF OnItsWay, Visited, Upward
<1>6. QED
  BY <1>3, <1>4, <1>5 DEF OnItsWay

\* The statements between loops leave a loop as it is, or enter one.
LEMMA StatementKeepsLoop ==
  ASSUME IInv, Step, LoopInv
  PROVE  LoopInv'
<1>1. PICK s \in program : Statement(s)
  BY DEF Step
<1>2. loop.phase # "running"
  BY DEF Step
<1>3. CASE loop' = loop
  <2>1. ASSUME loop.phase # "none" PROVE OnItsWay(loop, arrays', status')
    BY <1>2, <2>1 DEF LoopInv, OnItsWay
  <2>2. QED
    BY <1>3, <2>1 DEF LoopInv
<1>4. CASE EnterLoop(s)
  BY <1>4, Enters DEF LoopInv
<1>5. loop' = loop \/ EnterLoop(s)
  BY <1>1 DEF Statement, AssignElement, AssignAlias, AssignArray, AssignString, AssignAggregate,
              AddTime, Write, WriteLine
<1>6. QED
  BY <1>3, <1>4, <1>5

LEMMA LoopInvAlways == Spec => []LoopInv
<1>1. Init => LoopInv
  BY DEF Init, NoLoop, LoopInv
<1>2. ASSUME IInv, LoopInv, [Next]_vars PROVE LoopInv'
  <2>1. CASE Step
    BY <1>2, <2>1, StatementKeepsLoop
  <2>2. CASE LoopBody
    <3>1. OnItsWay(loop, arrays, status)
      BY <1>2, <2>2 DEF LoopInv, LoopBody
    <3>2. QED
      BY <1>2, <2>2, <3>1, GoesRound DEF LoopInv
  <2>3. CASE LeaveLoop
    <3>1. OnItsWay(loop, arrays, status)
      BY <1>2, <2>3 DEF LoopInv, LeaveLoop
    <3>2. QED
      BY <1>2, <2>3, <3>1, Leaves DEF LoopInv
  <2>4. CASE UNCHANGED vars
    BY <1>2, <2>4 DEF vars, LoopInv, OnItsWay, Visited, Upward
  <2>5. QED
    BY <1>2, <2>1, <2>2, <2>3, <2>4 DEF Next
<1>3. QED
  BY <1>1, <1>2, InvAlways, PTL DEF Spec

\* The loops that are left are those that have been through their range: this is
\* the safety half of LoopsVisitTheirRange, for every range.
THEOREM LoopsAlwaysVisit == Spec => []LoopsLeftHaveVisited
<1>1. ASSUME LoopInv, loop.phase = "left"
      PROVE  /\ loop.seen = Run(loop.var.left, loop.var.right)
             /\ loop.of.byType \/ loop.var.left # loop.var.right
  <2>1. OnItsWay(loop, arrays, status)
    BY <1>1 DEF LoopInv
  <2>2. /\ loop.var.value \in Int /\ loop.var.left \in Int /\ loop.var.right \in Int
        /\ loop.var.right < loop.var.value /\ Visited(loop)
    BY <1>1, <2>1 DEF OnItsWay
  <2>3. CASE Upward(loop)
    <3>1. loop.var.value - 1 = loop.var.right
      BY <2>2, <2>3 DEF Visited
    <3>2. loop.seen = Run(loop.var.left, loop.var.right)
      BY <2>2, <2>3, <3>1 DEF Visited
    <3>3. QED
      BY <2>2, <2>3, <3>2 DEF Upward
  <2>4. CASE ~Upward(loop)
    <3>1. loop.var.right < loop.var.left /\ loop.seen = <<>>
      BY <2>2, <2>4 DEF Visited
    <3>2. QED
      BY <2>2, <3>1, EmptyRun
  <2>5. QED
    BY <2>3, <2>4
<1>2. LoopInv => LoopsLeftHaveVisited
  BY <1>1 DEF LoopsLeftHaveVisited
<1>3. QED
  BY <1>2, LoopInvAlways, PTL

\* A loop that ends has assigned its value to every element it speaks of, and
\* none of the later rounds has undone an earlier one.
THEOREM LoopsAlwaysLeaveTheirValue == Spec => LoopsLeaveTheirValue
<1>1. ASSUME LoopInv, LeaveLoop, NEW i \in loop.var.left .. loop.var.right
      PROVE  Found(arrays[loop.of.to], i) = loop.of.value
  <2>1. loop.phase = "running" /\ status = "running" /\ OnItsWay(loop, arrays, status)
    BY <1>1 DEF LoopInv, LeaveLoop
  <2>2. /\ loop.var.value \in Int /\ loop.var.left \in Int /\ loop.var.right \in Int
        /\ loop.var.right < loop.var.value /\ Visited(loop)
    BY <1>1, <2>1 DEF OnItsWay, LeaveLoop, Continues
  <2>3. Upward(loop)
    BY <1>1, <2>2 DEF Visited
  <2>4. i \in loop.var.left .. loop.var.value - 1
    BY <1>1, <2>2
  <2>5. QED
    BY <2>1, <2>3, <2>4 DEF OnItsWay
<1>2. LoopInv => (LeaveLoop => \A i \in loop.var.left .. loop.var.right :
                                   Found(arrays[loop.of.to], i) = loop.of.value)
  BY <1>1
<1>3. QED
  BY <1>2, LoopInvAlways, PTL DEF LoopsLeaveTheirValue

=============================================================================
