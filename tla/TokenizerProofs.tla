--------------------------- MODULE TokenizerProofs ---------------------------
(***************************************************************************)
(* Proofs about Tokenizer, for every text and every set of keywords.       *)
(*                                                                         *)
(* tokenize passes over something blank, adds a token, stays where it is   *)
(* or has stopped.  Each kind of step keeps the inductive invariant IInv:  *)
(* the shape of the state and the first three properties.  What the        *)
(* recursive function Behind computes is proved by taking least elements,  *)
(* for the induction theorems of the library cannot be cited: where it     *)
(* ends, and that it ends at the delimiter that closes, from which the     *)
(* fourth property follows.                                                *)
(***************************************************************************)
EXTENDS Tokenizer, SequenceFacts, FiniteSetTheorems

-----------------------------------------------------------------------------
(* Where the scanner looks.                                                *)

LEMMA SizeIs ==
  ASSUME source \in Sources
  PROVE  Size \in Nat /\ source.language \in {"vhdl", "verilog"}
BY SourcesAssumption, LenProperties DEF Size

\* The first position with a property, or the size.
LEMMA FirstExists ==
  ASSUME NEW n \in Nat, NEW p \in 0 .. n, NEW Y
  PROVE  \E i \in p .. n : (i < n => i \in Y) /\ \A j \in p .. i - 1 : j \notin Y
<1> DEFINE S == {i \in p .. n : i = n \/ i \in Y}
<1>1. S \in SUBSET Nat /\ n \in S
  OBVIOUS
<1>2. PICK i \in S : \A m \in S : i <= m
  BY <1>1, LeastIs
<1>3. \A j \in p .. i - 1 : j \notin Y
  BY <1>2
<1>4. QED
  BY <1>2, <1>3

LEMMA FirstOfIs ==
  ASSUME Size \in Nat, NEW p \in 0 .. Size, NEW chars
  PROVE  /\ FirstOf(p, chars) \in p .. Size
         /\ FirstOf(p, chars) < Size => At(FirstOf(p, chars)) \in chars
         /\ \A j \in p .. FirstOf(p, chars) - 1 : At(j) \notin chars
<1> DEFINE Y == {j \in p .. Size : At(j) \in chars}
<1> DEFINE Q(i) == (i < Size => At(i) \in chars) /\ \A j \in p .. i - 1 : At(j) \notin chars
<1>1. PICK i \in p .. Size : (i < Size => i \in Y) /\ \A j \in p .. i - 1 : j \notin Y
  BY FirstExists
<1>2. Q(i)
  BY <1>1
<1>3. FirstOf(p, chars) = CHOOSE k \in p .. Size : Q(k)
  BY DEF FirstOf
<1> HIDE DEF Q
<1>4. FirstOf(p, chars) \in p .. Size /\ Q(FirstOf(p, chars))
  BY <1>2, <1>3
<1>5. QED
  BY <1>4 DEF Q

LEMMA FirstNotOfIs ==
  ASSUME Size \in Nat, NEW p \in 0 .. Size, NEW chars
  PROVE  /\ FirstNotOf(p, chars) \in p .. Size
         /\ FirstNotOf(p, chars) < Size => At(FirstNotOf(p, chars)) \notin chars
         /\ \A j \in p .. FirstNotOf(p, chars) - 1 : At(j) \in chars
<1> DEFINE Y == {j \in p .. Size : At(j) \notin chars}
<1> DEFINE Q(i) == (i < Size => At(i) \notin chars) /\ \A j \in p .. i - 1 : At(j) \in chars
<1>1. PICK i \in p .. Size : (i < Size => i \in Y) /\ \A j \in p .. i - 1 : j \notin Y
  BY FirstExists
<1>2. Q(i)
  BY <1>1
<1>3. FirstNotOf(p, chars) = CHOOSE k \in p .. Size : Q(k)
  BY DEF FirstNotOf
<1> HIDE DEF Q
<1>4. FirstNotOf(p, chars) \in p .. Size /\ Q(FirstNotOf(p, chars))
  BY <1>2, <1>3
<1>5. QED
  BY <1>4 DEF Q

-----------------------------------------------------------------------------
(* What Behind computes: from any position a position further on that is   *)
(* not the last, or none.                                                  *)

Closing(f, i, q) ==
  CASE i >= Size             -> Unclosed
    [] i < Size /\ At(i) # q -> f[i + 1]
    [] OTHER                 -> IF i + 1 >= Size THEN Unclosed
                                ELSE IF At(i + 1) = q THEN f[i + 2] ELSE i + 1

\* A function that satisfies the recursion from k on.
ClosesFrom(f, k, q) ==
  f = [i \in Nat |-> f[i]] /\ \A i \in Nat : i >= k => f[i] = Closing(f, i, q)

LEMMA ClosesFromSize ==
  ASSUME Size \in Nat, NEW q
  PROVE  \E f : ClosesFrom(f, Size, q)
<1> DEFINE f == [i \in Nat |-> Unclosed]
<1>1. \A i \in Nat : i >= Size => f[i] = Closing(f, i, q)
  BY DEF Closing
<1>2. f = [i \in Nat |-> f[i]]
  OBVIOUS
<1>3. QED
  BY <1>1, <1>2 DEF ClosesFrom

LEMMA ClosesFromBefore ==
  ASSUME Size \in Nat, NEW q, NEW k \in Nat, NEW f, ClosesFrom(f, k + 1, q)
  PROVE  \E g : ClosesFrom(g, k, q)
<1> DEFINE g == [i \in Nat |-> IF i = k THEN Closing(f, k, q) ELSE f[i]]
<1>1. g = [i \in Nat |-> g[i]]
  OBVIOUS
<1>2. \A i \in Nat : i # k => g[i] = f[i]
  OBVIOUS
<1>3. g[k] = Closing(f, k, q)
  OBVIOUS
<1> HIDE DEF g
<1>4. \A i \in Nat : i >= k => Closing(g, i, q) = Closing(f, i, q)
  BY <1>2 DEF Closing
<1>5. ASSUME NEW i \in Nat, i >= k PROVE g[i] = Closing(g, i, q)
  <2>1. CASE i = k
    BY <1>3, <1>4, <2>1
  <2>2. CASE i > k
    <3>1. i >= k + 1 /\ i # k
      BY <2>2
    <3>2. f[i] = Closing(f, i, q)
      BY <3>1 DEF ClosesFrom
    <3>3. g[i] = f[i] /\ Closing(g, i, q) = Closing(f, i, q)
      BY <1>2, <1>4, <1>5, <3>1
    <3>4. QED
      BY <3>2, <3>3
  <2>3. QED
    BY <1>5, <2>1, <2>2
<1>6. QED
  BY <1>1, <1>5 DEF ClosesFrom

LEMMA ClosesFromStart ==
  ASSUME Size \in Nat, NEW q
  PROVE  \E f : ClosesFrom(f, 0, q)
<1> DEFINE S == {k \in Nat : \E f : ClosesFrom(f, k, q)}
<1>1. S \in SUBSET Nat /\ S # {}
  BY ClosesFromSize
<1>2. PICK k \in S : \A m \in S : k <= m
  BY <1>1, LeastIs
<1>3. ASSUME k # 0 PROVE FALSE
  <2>1. k \in Nat /\ k - 1 \in Nat /\ k = (k - 1) + 1
    BY <1>3
  <2>2. PICK f : ClosesFrom(f, (k - 1) + 1, q)
    BY <2>1
  <2>3. k - 1 \in S
    BY <2>1, <2>2, ClosesFromBefore
  <2>4. QED
    BY <1>2, <2>1, <2>3
<1>4. QED
  BY <1>3

LEMMA BehindIs ==
  ASSUME Size \in Nat, NEW q, NEW i \in Nat
  PROVE  Behind(q)[i] = Closing(Behind(q), i, q)
<1> DEFINE P(g) == g = [j \in Nat |-> Closing(g, j, q)]
<1>1. Behind(q) = CHOOSE g : P(g)
  BY DEF Behind, Closing
<1>2. PICK f : ClosesFrom(f, 0, q)
  BY ClosesFromStart
<1>3. P(f)
  <2>1. f = [j \in Nat |-> f[j]] /\ \A j \in Nat : f[j] = Closing(f, j, q)
    BY <1>2 DEF ClosesFrom
  <2>2. QED
    BY <2>1
<1> HIDE DEF P
<1>4. P(Behind(q))
  BY <1>1, <1>3
<1>5. QED
  BY <1>4 DEF P

LEMMA BehindIsBehind ==
  ASSUME Size \in Nat, NEW q, NEW p \in Nat
  PROVE  Behind(q)[p] \in {Unclosed} \cup (p + 1 .. Size - 1)
<1> DEFINE B(i) == Behind(q)[i] \in {Unclosed} \cup (i + 1 .. Size - 1)
<1>1. ASSUME NEW i \in Nat, i >= Size PROVE B(i)
  BY <1>1, BehindIs DEF Closing
<1>2. ASSUME NEW i \in Nat, \A j \in Nat : j > i => B(j) PROVE B(i)
  <2>1. B(i + 1) /\ B(i + 2)
    BY <1>2
  <2>2. Behind(q)[i] = Closing(Behind(q), i, q)
    BY BehindIs
  <2>3. QED
    BY <2>1, <2>2 DEF Closing, Unclosed
<1> DEFINE S == {i \in Nat : ~ B(i)}
<1>3. ASSUME ~ B(p) PROVE FALSE
  <2> HIDE DEF B
  <2>1. S \in SUBSET Nat /\ S # {} /\ \A i \in S : i <= Size
    BY <1>1, <1>3
  <2>2. PICK i \in S : \A j \in S : j <= i
    BY <2>1, GreatestIs
  <2>3. \A j \in Nat : j > i => B(j)
    BY <2>2
  <2>4. QED
    BY <1>2, <2>3
<1>4. QED
  BY <1>3

-----------------------------------------------------------------------------
(* The inductive invariant.                                                *)

Shape ==
  /\ source \in Sources
  /\ position \in Nat /\ position <= Size
  /\ lineNumber \in Nat /\ lineStart \in Nat
  /\ IsSequence(tokens)
  /\ \A i \in 1 .. Len(tokens) : tokens[i].from \in Nat /\ tokens[i].to \in Nat
  /\ pc \in {"skip", "resume", "comment", "token", "stop"}
  /\ pc = "stop" <=> status # "reading"
  /\ pc # "stop" /\ (Size > 0 \/ pc \in {"comment", "token"}) => position < Size
  /\ pc = "token" => At(position) \notin WhiteSpace

IInv == Shape /\ TokensCoverTheText /\ EndedFilesAreRead /\ LinesAreCounted

-----------------------------------------------------------------------------
(* The kinds of steps.                                                     *)

\* A text whose last character is a newline.
Terminated == Size > 0 /\ At(Size - 1) = "\n"

\* Where reading may end before the end of such a text.
IsOpen ==
  \/ At(position) \in {"\"", "\\"}
  \/ At(position) \in Prefixes /\ At(position + 1) = "\""
  \/ At(position) = "'" /\ position + 2 >= Size

Skips ==
  /\ pc # "stop" /\ position < Size
  /\ \E to \in position .. Size : \E next \in {"resume", "comment", "token"} :
       /\ StepTo(to, next)
       /\ \A k \in position .. to - 1 : IsBlankFrom(position, k)
       /\ next = "token" /\ to < Size => At(to) \notin WhiteSpace
  /\ UNCHANGED <<source, tokens>>

Looks ==
  /\ pc = "comment" /\ position < Size
  /\ Stay /\ pc' = "resume" /\ UNCHANGED <<status, source, tokens>>

Stops ==
  /\ pc # "stop" /\ Stay /\ pc' = "stop"
  /\ \/ status' = "rejected"
     \/ status' = "ended" /\ (Terminated => position < Size /\ IsOpen)
  /\ UNCHANGED <<source, tokens>>

Adds ==
  /\ pc = "token" /\ position < Size
  /\ \E type : \E to \in position + 1 .. Size : Add(type, to) /\ (Terminated => to < Size)

StepOK == Skips \/ Looks \/ Stops \/ Adds \/ UNCHANGED vars

LEMMA ShapeIs ==
  ASSUME Shape
  PROVE  /\ Size \in Nat /\ position \in 0 .. Size
         /\ source.language \in {"vhdl", "verilog"}
         /\ pc \in {"comment", "token"} => position \in 0 .. Size - 1
BY SizeIs DEF Shape

\* The mark of a comment is no white space, a newline is.
LEMMA MarkIs ==
  ASSUME source.language \in {"vhdl", "verilog"}
  PROVE  CommentOf[source.language] \notin WhiteSpace
<1>1. CommentOf[source.language] \in {"-", "/"}
  BY DEF CommentOf
<1>2. "-" \notin WhiteSpace /\ "/" \notin WhiteSpace
  BY Zenon DEF WhiteSpace
<1>3. QED
  BY <1>1, <1>2

LEMMA NewlineIs == "\n" \in WhiteSpace
BY Zenon DEF WhiteSpace

LEMMA SkipWhiteSpaceIs == Shape /\ SkipWhiteSpace => StepOK
<1> SUFFICES ASSUME Shape, SkipWhiteSpace PROVE StepOK
  OBVIOUS
<1>1. Size \in Nat /\ position \in 0 .. Size /\ pc # "stop"
  BY ShapeIs DEF SkipWhiteSpace
<1>2. CASE Size = 0
  BY <1>1, <1>2 DEF SkipWhiteSpace, TextEof, StepOK, Stops, Terminated
<1>3. CASE Size # 0
  <2> DEFINE to == FirstNotOf(position, WhiteSpace)
  <2> DEFINE next == IF to > position \/ (pc = "skip" /\ Is("vhdl")) THEN "comment" ELSE "token"
  <2>1. position < Size
    BY <1>1, <1>3 DEF Shape
  <2>2. /\ to \in position .. Size
        /\ to < Size => At(to) \notin WhiteSpace
        /\ \A k \in position .. to - 1 : At(k) \in WhiteSpace
    BY <1>1, FirstNotOfIs
  <2>3. StepTo(to, next) /\ UNCHANGED <<source, tokens>>
    BY <1>3 DEF SkipWhiteSpace
  <2>4. \A k \in position .. to - 1 : IsBlankFrom(position, k)
    BY <2>2 DEF IsBlankFrom
  <2>5. next \in {"resume", "comment", "token"}
    OBVIOUS
  <2> HIDE DEF to, next
  <2>6. /\ StepTo(to, next)
        /\ \A k \in position .. to - 1 : IsBlankFrom(position, k)
        /\ next = "token" /\ to < Size => At(to) \notin WhiteSpace
    BY <2>2, <2>3, <2>4
  <2>7. to \in position .. Size
    BY <2>2
  <2>8. Skips
    BY <1>1, <2>1, <2>3, <2>5, <2>6, <2>7, Zenon DEF Skips
  <2>9. QED
    BY <2>8 DEF StepOK
<1>4. QED
  BY <1>2, <1>3

LEMMA SkipCommentIs == Shape /\ SkipComment => StepOK
<1> SUFFICES ASSUME Shape, SkipComment PROVE StepOK
  OBVIOUS
<1> DEFINE mark == CommentOf[source.language]
<1>1. /\ Size \in Nat /\ position \in 0 .. Size - 1 /\ pc = "comment"
      /\ mark \notin WhiteSpace /\ UNCHANGED <<source, tokens>>
  BY ShapeIs, MarkIs DEF SkipComment
<1> HIDE DEF mark
<1>2. CASE Stay /\ pc' = "resume" /\ UNCHANGED status
  BY <1>1, <1>2 DEF StepOK, Looks
<1>3. CASE TextEof /\ At(position) = mark /\ position + 1 >= Size
  <2>1. position = Size - 1 /\ ~Terminated
    BY <1>1, <1>3, NewlineIs DEF Terminated
  <2>2. QED
    BY <1>1, <1>3, <2>1 DEF StepOK, Stops, TextEof
<1>4. CASE TextEof /\ At(position + 1) = mark /\ position + 1 < Size /\ position + 2 >= Size
  <2>1. position + 1 = Size - 1 /\ ~Terminated
    BY <1>1, <1>4, NewlineIs DEF Terminated
  <2>2. QED
    BY <1>1, <1>4, <2>1 DEF StepOK, Stops, TextEof
<1>5. CASE /\ At(position) = mark /\ At(position + 1) = mark /\ position + 2 < Size
           /\ StepTo(FirstOf(position + 2, {"\n"}), "resume")
  <2> DEFINE to == FirstOf(position + 2, {"\n"})
  <2>1. position + 2 \in 0 .. Size
    BY <1>1, <1>5
  <2>2. to \in position + 2 .. Size /\ \A j \in position + 2 .. to - 1 : At(j) \notin {"\n"}
    BY <1>1, <2>1, FirstOfIs
  <2>3. StepTo(to, "resume")
    BY <1>5
  <2> HIDE DEF to
  <2>4. \A j \in position .. to - 1 : At(j) # "\n"
    <3>1. SUFFICES ASSUME NEW j \in position .. to - 1 PROVE At(j) # "\n"
      OBVIOUS
    <3>2. j = position \/ j = position + 1 \/ j \in position + 2 .. to - 1
      BY <1>1, <2>2
    <3>3. QED
      BY <1>1, <1>5, <2>2, <3>2, NewlineIs
  <2>5. ASSUME NEW k \in position .. to - 1 PROVE IsBlankFrom(position, k)
    <3>1. \A i \in position .. k - 1 : At(i) # "\n"
      BY <1>1, <2>2, <2>4
    <3>2. position \in position .. k /\ position + 1 < Size
      BY <1>1, <1>5, <2>2
    <3>3. QED
      BY <1>5, <3>1, <3>2 DEF IsBlankFrom, mark
  <2>6. to \in position .. Size /\ position < Size
    BY <1>1, <2>2
  <2>7. Skips
    BY <1>1, <2>3, <2>5, <2>6 DEF Skips
  <2>8. QED
    BY <2>7 DEF StepOK
<1>6. QED
  BY <1>1, <1>2, <1>3, <1>4, <1>5 DEF SkipComment, mark

\* Where no token is found in a text that ends in a newline, one is open.
LEMMA NoTokenIs ==
  ASSUME Shape, pc = "token", NoToken, Terminated => IsOpen
  PROVE  StepOK
BY ShapeIs DEF NoToken, TextEof, StepOK, Stops

LEMMA AddIs ==
  ASSUME Shape, pc = "token", NEW type, NEW to \in position + 1 .. Size, Add(type, to),
         Terminated => to < Size
  PROVE  StepOK
BY ShapeIs DEF StepOK, Adds

\* The last character of such a text starts no token.
LEMMA NotAtEnd ==
  ASSUME Shape, pc = "token", Terminated
  PROVE  position \in 0 .. Size - 2
<1>1. Size \in Nat /\ position \in 0 .. Size - 1
  BY ShapeIs
<1>2. position # Size - 1
  BY NewlineIs DEF Shape, Terminated
<1>3. QED
  BY <1>1, <1>2

LEMMA AcceptStringIs == Shape /\ AcceptString => StepOK
<1> SUFFICES ASSUME Shape, AcceptString PROVE StepOK
  OBVIOUS
<1> DEFINE from == position + (IF Quoted THEN 1 ELSE 2)
<1> DEFINE to == Behind("\"")[from]
<1>1. Size \in Nat /\ position \in 0 .. Size - 1 /\ pc = "token"
  BY ShapeIs DEF AcceptString
<1>2. from \in {position + 1, position + 2} /\ from \in Nat
  BY <1>1
<1>3. to \in {Unclosed} \cup (from + 1 .. Size - 1)
  <2> HIDE DEF from
  <2>1. QED
    BY <1>1, <1>2, BehindIsBehind
<1>4. IF LastOne \/ to = Unclosed THEN NoToken ELSE Add("STRING", to)
  BY DEF AcceptString
<1>5. CASE LastOne \/ to = Unclosed
  <2>1. Terminated => IsOpen
    <3> SUFFICES ASSUME Terminated PROVE IsOpen
      OBVIOUS
    <3>1. ~LastOne
      BY <1>1, NotAtEnd DEF LastOne
    <3>2. Quoted \/ Prefixed
      BY <3>1 DEF AcceptString, IsString
    <3>3. QED
      BY <3>2 DEF Quoted, Prefixed, IsOpen
  <2>2. QED
    BY <1>1, <1>4, <1>5, <2>1, NoTokenIs
<1>6. CASE ~(LastOne \/ to = Unclosed)
  <2> HIDE DEF to
  <2>1. to \in position + 1 .. Size /\ to < Size
    BY <1>1, <1>2, <1>3, <1>6
  <2>2. QED
    BY <1>1, <1>4, <1>6, <2>1, AddIs
<1>7. QED
  BY <1>5, <1>6

LEMMA AcceptCharacterIs == Shape /\ AcceptCharacter => StepOK
<1> SUFFICES ASSUME Shape, AcceptCharacter PROVE StepOK
  OBVIOUS
<1>1. Size \in Nat /\ position \in 0 .. Size - 1 /\ pc = "token" /\ At(position) = "'"
  BY ShapeIs DEF AcceptCharacter, IsTick
<1>2. CASE position + 2 >= Size /\ NoToken
  BY <1>1, <1>2, NoTokenIs DEF IsOpen
<1>3. CASE Between /\ Add("CHARACTER", position + 3)
  <2>1. position + 2 < Size /\ At(position + 2) = "'"
    BY <1>3 DEF Between
  <2>2. Terminated => position + 2 # Size - 1
    BY <2>1 DEF Terminated
  <2>3. position + 3 \in position + 1 .. Size /\ (Terminated => position + 3 < Size)
    BY <1>1, <2>1, <2>2
  <2>4. QED
    BY <1>1, <1>3, <2>3, AddIs
<1>4. QED
  BY <1>2, <1>3 DEF AcceptCharacter

LEMMA AcceptSpecialCharacterIs == Shape /\ AcceptSpecialCharacter => StepOK
<1> SUFFICES ASSUME Shape, AcceptSpecialCharacter PROVE StepOK
  OBVIOUS
<1>1. /\ Size \in Nat /\ position \in 0 .. Size - 1 /\ pc = "token"
      /\ Add("SPECIAL", position + 1)
  BY ShapeIs DEF AcceptSpecialCharacter
<1>2. position + 1 \in position + 1 .. Size /\ (Terminated => position + 1 < Size)
  BY <1>1, NotAtEnd
<1>3. QED
  BY <1>1, <1>2, AddIs

\* A word goes on over the characters of a set: a newline ends it.
LEMMA WordEnds ==
  ASSUME Shape, pc = "token", NEW chars, "\n" \notin chars
  PROVE  /\ FirstNotOf(position + 1, chars) \in position + 1 .. Size
         /\ Terminated => FirstNotOf(position + 1, chars) < Size
<1> DEFINE to == FirstNotOf(position + 1, chars)
<1>1. Size \in Nat /\ position \in 0 .. Size - 1 /\ position + 1 \in 0 .. Size
  BY ShapeIs
<1>2. to \in position + 1 .. Size /\ \A j \in position + 1 .. to - 1 : At(j) \in chars
  BY <1>1, FirstNotOfIs
<1> HIDE DEF to
<1>3. ASSUME Terminated, to = Size PROVE FALSE
  <2>1. Size - 1 \in position + 1 .. to - 1
    BY <1>1, <1>3, NotAtEnd
  <2>2. QED
    BY <1>2, <1>3, <2>1 DEF Terminated
<1>4. QED
  BY <1>1, <1>2, <1>3 DEF to

LEMMA WordChars == "\n" \notin IdentifierChars /\ "\n" \notin NumberChars
<1>1. "\n" \notin Letters /\ "\n" \notin Digits
  BY DEF Letters, Lower, Digits
<1>2. QED
  BY <1>1 DEF IdentifierChars, NumberChars

LEMMA AcceptIdentifierIs == Shape /\ AcceptIdentifier => StepOK
<1> SUFFICES ASSUME Shape, AcceptIdentifier PROVE StepOK
  OBVIOUS
<1> DEFINE to == IF At(position) = "\\" THEN Behind("\\")[position + 1]
                 ELSE FirstNotOf(position + 1, IdentifierChars)
<1>1. Size \in Nat /\ position \in 0 .. Size - 1 /\ pc = "token"
  BY ShapeIs DEF AcceptIdentifier
<1>2. IF to \in {Unclosed, Size} THEN NoToken
      ELSE Add(IF IsKeyword(position, to) THEN "KEYWORD" ELSE "IDENTIFIER", to)
  BY DEF AcceptIdentifier
<1>3. CASE At(position) = "\\"
  <2>1. to = Behind("\\")[position + 1]
    BY <1>3
  <2>2. to \in {Unclosed} \cup (position + 1 + 1 .. Size - 1)
    BY <1>1, <2>1, BehindIsBehind
  <2> HIDE DEF to
  <2>3. CASE to = Unclosed
    BY <1>1, <1>2, <1>3, <2>3, NoTokenIs DEF IsOpen
  <2>4. CASE to # Unclosed
    <3>1. to \in position + 1 .. Size /\ to < Size
      BY <1>1, <2>2, <2>4
    <3>2. QED
      BY <1>1, <1>2, <2>4, <3>1, AddIs
  <2>5. QED
    BY <2>3, <2>4
<1>4. CASE At(position) # "\\"
  <2>1. to = FirstNotOf(position + 1, IdentifierChars)
    BY <1>4
  <2>2. to \in position + 1 .. Size /\ (Terminated => to < Size)
    BY <1>1, <2>1, WordEnds, WordChars
  <2> HIDE DEF to
  <2>3. to # Unclosed
    BY <1>1, <2>2 DEF Unclosed
  <2>4. CASE to = Size
    BY <1>1, <1>2, <2>2, <2>4, NoTokenIs
  <2>5. CASE to # Size
    BY <1>1, <1>2, <2>2, <2>3, <2>5, AddIs
  <2>6. QED
    BY <2>4, <2>5
<1>5. QED
  BY <1>3, <1>4

LEMMA AcceptNumberIs == Shape /\ AcceptNumber => StepOK
<1> SUFFICES ASSUME Shape, AcceptNumber PROVE StepOK
  OBVIOUS
<1> DEFINE to == FirstNotOf(position + 1, NumberChars)
<1> DEFINE type == IF \E i \in position + 1 .. to - 1 : At(i) = "." THEN "REAL" ELSE "INTEGER"
<1>1. Size \in Nat /\ position \in 0 .. Size - 1 /\ pc = "token"
  BY ShapeIs DEF AcceptNumber
<1>2. IF to = Size THEN NoToken ELSE Add(type, to)
  BY DEF AcceptNumber
<1>3. to \in position + 1 .. Size /\ (Terminated => to < Size)
  BY <1>1, WordEnds, WordChars
<1> HIDE DEF to, type
<1>4. CASE to = Size
  BY <1>1, <1>2, <1>3, <1>4, NoTokenIs
<1>5. CASE to # Size
  BY <1>1, <1>2, <1>3, <1>5, AddIs
<1>6. QED
  BY <1>4, <1>5

LEMMA UnknownTokenIs == Shape /\ UnknownToken => StepOK
BY DEF UnknownToken, StepOK, Stops

LEMMA StepKind == Shape /\ [Next]_vars => StepOK
<1> SUFFICES ASSUME Shape, [Next]_vars PROVE StepOK
  OBVIOUS
<1>1. CASE Done \/ UNCHANGED vars
  BY <1>1 DEF Done, StepOK
<1>2. QED
  BY <1>1, SkipWhiteSpaceIs, SkipCommentIs, AcceptStringIs, AcceptCharacterIs,
     AcceptSpecialCharacterIs, AcceptIdentifierIs, AcceptNumberIs, UnknownTokenIs DEF Next

-----------------------------------------------------------------------------
(* Lines.                                                                  *)

LEMMA NewlinesAre ==
  ASSUME NEW a \in Nat, NEW b \in Nat, NEW c \in Nat, a <= b, b <= c
  PROVE  /\ Newlines(a, c) = Newlines(a, b) \cup Newlines(b, c)
         /\ Cardinality(Newlines(a, b)) \in Nat
         /\ Cardinality(Newlines(a, c)) = Cardinality(Newlines(a, b)) + Cardinality(Newlines(b, c))
<1>1. Newlines(a, c) = Newlines(a, b) \cup Newlines(b, c)
  BY DEF Newlines
<1>2. Newlines(a, b) \cap Newlines(b, c) = {}
  BY DEF Newlines
<1>3. IsFiniteSet(Newlines(a, b)) /\ IsFiniteSet(Newlines(b, c))
  <2>1. IsFiniteSet(a .. b - 1) /\ IsFiniteSet(b .. c - 1)
    BY FS_Interval
  <2>2. Newlines(a, b) \in SUBSET (a .. b - 1) /\ Newlines(b, c) \in SUBSET (b .. c - 1)
    BY DEF Newlines
  <2>3. QED
    BY <2>1, <2>2, FS_Subset
<1>4. Cardinality(Newlines(a, b)) \in Nat /\ Cardinality(Newlines(b, c)) \in Nat
  BY <1>3, FS_CardinalityType
<1>5. /\ Cardinality(Newlines(a, b) \cup Newlines(b, c))
           = Cardinality(Newlines(a, b)) + Cardinality(Newlines(b, c)) - Cardinality({})
  BY <1>2, <1>3, FS_Union
<1>6. QED
  BY <1>1, <1>4, <1>5, FS_EmptySet

\* The start of the line that a position is in, if the line is not the first
\* of what was passed over.
LEMMA LastNewlineIs ==
  ASSUME NEW a \in Nat, NEW c \in Nat, Newlines(a, c) # {},
         NEW i, i = CHOOSE n \in Newlines(a, c) : \A j \in Newlines(a, c) : j <= n
  PROVE  i \in a .. c - 1 /\ At(i) = "\n" /\ Newlines(i + 1, c) = {}
<1>1. Newlines(a, c) \in SUBSET Nat /\ \A n \in Newlines(a, c) : n <= c
  BY DEF Newlines
<1>2. \E n \in Newlines(a, c) : \A j \in Newlines(a, c) : j <= n
  BY <1>1, GreatestIs
<1>3. i \in Newlines(a, c) /\ \A j \in Newlines(a, c) : j <= i
  BY <1>2
<1>4. QED
  BY <1>3 DEF Newlines

LEMMA MoveToCounts ==
  ASSUME Shape, LinesAreCounted, NEW to \in position .. Size, MoveTo(to), source' = source
  PROVE  /\ position' = to /\ lineNumber' \in Nat /\ lineStart' \in Nat
         /\ LinesAreCounted'
<1>1. /\ position \in Nat /\ to \in Nat /\ position <= to /\ 0 <= position
      /\ lineNumber \in Nat /\ lineStart \in Nat /\ lineStart <= position
      /\ position' = to /\ 0 \in Nat
  BY SizeIs DEF Shape, LinesAreCounted, MoveTo
<1>2. lineNumber' = Cardinality(Newlines(0, to)) /\ lineNumber' \in Nat
  BY <1>1, NewlinesAre DEF LinesAreCounted, MoveTo
<1>3. /\ lineStart' \in Nat /\ lineStart' <= to /\ Newlines(lineStart', to) = {}
      /\ lineStart' > 0 => At(lineStart' - 1) = "\n"
  <2>1. CASE Newlines(position, to) = {}
    <3>1. lineStart' = lineStart
      BY <2>1 DEF MoveTo
    <3>2. Newlines(lineStart, to) = {}
      BY <1>1, <2>1 DEF LinesAreCounted, Newlines
    <3>3. QED
      BY <1>1, <3>1, <3>2 DEF LinesAreCounted
  <2>2. CASE Newlines(position, to) # {}
    <3>1. PICK i : i = CHOOSE n \in Newlines(position, to) : \A j \in Newlines(position, to) : j <= n
      OBVIOUS
    <3>2. i \in position .. to - 1 /\ At(i) = "\n" /\ Newlines(i + 1, to) = {}
      BY <1>1, <2>2, <3>1, LastNewlineIs
    <3>3. lineStart' = 1 + i
      BY <2>2, <3>1 DEF MoveTo
    <3>4. i \in Nat /\ 1 + i = i + 1 /\ (i + 1) - 1 = i
      BY <1>1, <3>2
    <3>5. QED
      BY <1>1, <3>2, <3>3, <3>4
  <2>3. QED
    BY <2>1, <2>2
<1>4. LinesAreCounted'
  BY <1>1, <1>2, <1>3 DEF LinesAreCounted, Newlines, At
<1>5. QED
  BY <1>1, <1>2, <1>3, <1>4

LEMMA StayCounts ==
  ASSUME LinesAreCounted, Stay, source' = source
  PROVE  LinesAreCounted'
BY DEF LinesAreCounted, Stay, Newlines, At

-----------------------------------------------------------------------------
(* What the tokens cover.                                                  *)

LEMMA ReachedIs ==
  ASSUME Shape
  PROVE  Reached \in Nat /\ Len(tokens) \in Nat
<1>1. Len(tokens) \in Nat /\ (tokens # <<>> => Len(tokens) \in Nat \ {0})
  BY SequenceHas, FrontIs DEF Shape
<1>2. tokens # <<>> => Len(tokens) \in 1 .. Len(tokens)
  BY <1>1
<1>3. QED
  BY <1>1, <1>2 DEF Shape, Reached

\* What is blank from a position on is so from an earlier one.
LEMMA BlankLater ==
  ASSUME NEW a \in Nat, NEW b \in Nat, a <= b, NEW k \in Nat, IsBlankFrom(b, k)
  PROVE  IsBlankFrom(a, k)
BY DEF IsBlankFrom

\* Everything up to a position is blank that is passed over.
LEMMA BlankOver ==
  ASSUME Shape, TokensCoverTheText, status = "reading", NEW to \in Nat, position <= to,
         \A k \in position .. to - 1 : IsBlankFrom(position, k)
  PROVE  \A k \in Reached .. to - 1 : IsBlankFrom(Reached, k)
<1>1. Reached \in Nat /\ position \in Nat /\ Reached <= position
  BY ReachedIs DEF Shape, TokensCoverTheText
<1>2. PICK r \in Nat : r = Reached
  BY <1>1
<1>3. ASSUME NEW k \in r .. to - 1 PROVE IsBlankFrom(r, k)
  <2>1. CASE k < position
    BY <1>1, <1>2, <2>1 DEF TokensCoverTheText
  <2>2. CASE k >= position
    <3>1. IsBlankFrom(position, k) /\ k \in Nat
      BY <1>1, <2>2
    <3>2. QED
      BY <1>1, <1>2, <3>1, BlankLater
  <2>3. QED
    BY <1>1, <2>1, <2>2
<1>4. QED
  BY <1>2, <1>3

\* The property without variables, so that it can be said of the next state.
BlankIn(src, from, k) ==
  LET at(i) == src.chars[i + 1]
      mark  == CommentOf[src.language]
  IN  \/ at(k) \in WhiteSpace
      \/ \E c \in from .. k :
            /\ c + 1 < Len(src.chars) /\ at(c) = mark /\ at(c + 1) = mark
            /\ \A i \in c .. k - 1 : at(i) # "\n"

BehindLast(ts) == IF ts = <<>> THEN 0 ELSE ts[Len(ts)].to
Before(ts, i)  == IF i = 1 THEN 0 ELSE ts[i - 1].to

Covered(src, ts, i) ==
  /\ Before(ts, i) <= ts[i].from
  /\ ts[i].from < ts[i].to
  /\ ts[i].to <= Len(src.chars)
  /\ \A k \in Before(ts, i) .. ts[i].from - 1 : BlankIn(src, Before(ts, i), k)

Covers(src, ts, p, s) ==
  /\ \A i \in 1 .. Len(ts) : Covered(src, ts, i)
  /\ \A k \in BehindLast(ts) .. p - 1 : BlankIn(src, BehindLast(ts), k)
  /\ s = "reading" => BehindLast(ts) <= p

LEMMA CoversIs ==
  /\ TokensCoverTheText <=> Covers(source, tokens, position, status)
  /\ TokensCoverTheText' <=> Covers(source', tokens', position', status')
BY DEF TokensCoverTheText, Covers, Covered, Before, BehindLast, Reached, BlankIn, IsBlankFrom, At, Size

LEMMA BlankIs ==
  ASSUME NEW a, NEW k
  PROVE  IsBlankFrom(a, k) <=> BlankIn(source, a, k)
BY DEF BlankIn, IsBlankFrom, At, Size

\* A step that adds no token and passes over what is blank.
LEMMA CoverSkips ==
  ASSUME Shape, TokensCoverTheText, UNCHANGED <<source, tokens>>, status = "reading",
         position' \in Nat, position <= position',
         \A k \in position .. position' - 1 : IsBlankFrom(position, k)
  PROVE  TokensCoverTheText'
<1>1. PICK r \in Nat : r = Reached
  BY ReachedIs
<1>2. PICK to \in Nat : to = position'
  OBVIOUS
<1>3. \A k \in r .. to - 1 : IsBlankFrom(r, k)
  BY <1>1, <1>2, BlankOver
<1>4. \A k \in r .. to - 1 : BlankIn(source, r, k)
  BY <1>3, BlankIs
<1>5. r = BehindLast(tokens) /\ r <= to
  BY <1>1, <1>2 DEF BehindLast, Reached, TokensCoverTheText, Shape
<1>6. Covers(source, tokens, to, status')
  BY <1>4, <1>5, CoversIs DEF Covers
<1>7. QED
  BY <1>2, <1>6, CoversIs

LEMMA CoverAdds ==
  ASSUME Shape, TokensCoverTheText, source' = source, status = "reading",
         NEW type, NEW to \in position + 1 .. Size,
         tokens' = Append(tokens, [type |-> type, from |-> position, to |-> to]),
         position' = to \/ (position' = position /\ status' = "ended")
  PROVE  TokensCoverTheText'
<1> DEFINE t == [type |-> type, from |-> position, to |-> to]
<1> DEFINE n == Len(tokens)
<1>1. /\ Size \in Nat /\ position \in Nat /\ to \in Nat
      /\ position < to /\ to <= Size
  BY ShapeIs
<1>2. IsSequence(tokens) /\ n \in Nat /\ Covers(source, tokens, position, "reading")
  BY CoversIs, SequenceHas DEF Shape
<1>3. tokens' = Append(tokens, t)
  OBVIOUS
<1>4. t.from = position /\ t.to = to
  OBVIOUS
<1> HIDE DEF t
<1>5. IsSequence(tokens')
  BY <1>2, <1>3, AppendedIs
<1>6. Len(tokens') = n + 1
  BY <1>2, <1>3, AppendedIs
<1>7. tokens'[n + 1] = t
  BY <1>2, <1>3, AppendedIs
<1>8. \A i \in 1 .. n : tokens'[i] = tokens[i]
  BY <1>2, <1>3, AppendedIs
<1> HIDE DEF n
<1>9. BehindLast(tokens') = to
  <2>1. tokens' # <<>>
    BY <1>2, <1>6, EmptySeq
  <2>2. QED
    BY <1>4, <1>6, <1>7, <2>1 DEF BehindLast
<1>10. BehindLast(tokens) = Before(tokens', n + 1)
  <2>1. tokens = <<>> <=> n = 0
    BY <1>2, EmptySeq, FrontIs DEF n
  <2>2. CASE n = 0
    BY <2>1, <2>2 DEF BehindLast, Before
  <2>3. CASE n # 0
    <3>1. n \in 1 .. n /\ n + 1 # 1 /\ (n + 1) - 1 = n
      BY <1>2, <2>3
    <3>2. QED
      BY <1>8, <2>1, <2>3, <3>1 DEF BehindLast, Before, n
  <2>4. QED
    BY <2>2, <2>3
<1>11. ASSUME NEW i \in 1 .. n + 1 PROVE Covered(source, tokens', i)
  <2>1. CASE i = n + 1
    <3>1. tokens'[i].from = position /\ tokens'[i].to = to /\ to <= Len(source.chars)
      BY <1>1, <1>4, <1>7, <2>1 DEF Size
    <3>2. /\ Before(tokens', i) <= position
          /\ \A k \in Before(tokens', i) .. position - 1 : BlankIn(source, Before(tokens', i), k)
      BY <1>2, <1>10, <2>1 DEF Covers
    <3>3. QED
      BY <1>1, <3>1, <3>2 DEF Covered
  <2>2. CASE i # n + 1
    <3>1. i \in 1 .. n /\ tokens'[i] = tokens[i] /\ Covered(source, tokens, i)
      BY <1>2, <1>8, <2>2 DEF Covers, n
    <3>2. i # 1 => i - 1 \in 1 .. n
      BY <1>2, <3>1
    <3>3. Before(tokens', i) = Before(tokens, i)
      BY <1>8, <3>2 DEF Before
    <3>4. QED
      BY <3>1, <3>3 DEF Covered
  <2>3. QED
    BY <2>1, <2>2
<1>12. position' \in Nat /\ position' <= to /\ (status' = "reading" => position' = to)
  BY <1>1
<1>13. Covers(source, tokens', position', status')
  <2>1. \A i \in 1 .. Len(tokens') : Covered(source, tokens', i)
    BY <1>6, <1>11
  <2>2. BehindLast(tokens') .. position' - 1 = {}
    BY <1>1, <1>9, <1>12
  <2>3. status' = "reading" => BehindLast(tokens') <= position'
    BY <1>1, <1>9, <1>12
  <2>4. QED
    BY <2>1, <2>2, <2>3 DEF Covers
<1>14. QED
  BY <1>13, CoversIs

-----------------------------------------------------------------------------
(* Every kind of step keeps the inductive invariant.                       *)

\* The property of a text that has ended, without variables.
Starts(src, k) ==
  \/ k = Len(src.chars)
  \/ src.chars[k + 1] \in {"\"", "\\"}
  \/ src.chars[k + 1] \in Prefixes /\ src.chars[k + 1 + 1] = "\""
  \/ src.chars[k + 1] = "'" /\ k + 2 >= Len(src.chars)

Read(src, ts) ==
  Len(src.chars) > 0 /\ src.chars[Len(src.chars) - 1 + 1] = "\n" =>
    \E k \in BehindLast(ts) .. Len(src.chars) :
      /\ \A j \in BehindLast(ts) .. k - 1 : BlankIn(src, BehindLast(ts), j)
      /\ Starts(src, k)

LEMMA ReadIs ==
  /\ EndedFilesAreRead <=> (status = "ended" => Read(source, tokens))
  /\ EndedFilesAreRead' <=> (status' = "ended" => Read(source', tokens'))
BY DEF EndedFilesAreRead, Read, Starts, BehindLast, Reached, BlankIn, IsBlankFrom, At, Size

LEMMA EndedAt ==
  ASSUME UNCHANGED <<source, tokens>>, Size \in Nat, NEW r \in Nat, r = Reached,
         NEW k \in r .. Size, \A j \in r .. k - 1 : IsBlankFrom(r, j),
         Terminated => Starts(source, k)
  PROVE  EndedFilesAreRead'
<1>1. r = BehindLast(tokens) /\ Size = Len(source.chars)
  BY DEF BehindLast, Reached, Size
<1>2. \A j \in r .. k - 1 : BlankIn(source, r, j)
  BY BlankIs
<1>3. Terminated <=> Len(source.chars) > 0 /\ source.chars[Len(source.chars) - 1 + 1] = "\n"
  BY DEF Terminated, Size, At
<1>4. Read(source, tokens)
  BY <1>1, <1>2, <1>3 DEF Read
<1>5. QED
  BY <1>4, ReadIs

LEMMA StepToIs ==
  ASSUME Shape, position < Size, NEW to \in position .. Size, NEW next, StepTo(to, next)
  PROVE  \/ to < Size /\ MoveTo(to) /\ pc' = next /\ status' = status
         \/ to = Size /\ MoveTo(Size - 1) /\ pc' = "stop" /\ status' = "ended"
BY ShapeIs DEF StepTo

LEMMA SkipsKeeps ==
  ASSUME IInv, Skips
  PROVE  IInv'
<1>1. Shape /\ TokensCoverTheText /\ LinesAreCounted /\ status = "reading"
  BY DEF IInv, Shape, Skips
<1>2. PICK to \in position .. Size, next \in {"resume", "comment", "token"} :
        /\ StepTo(to, next)
        /\ \A k \in position .. to - 1 : IsBlankFrom(position, k)
        /\ next = "token" /\ to < Size => At(to) \notin WhiteSpace
  BY DEF Skips
<1>3. Size \in Nat /\ position \in Nat /\ to \in Nat /\ position < Size /\ to <= Size /\ position <= to
  BY <1>1, ShapeIs DEF Skips
<1>4. UNCHANGED <<source, tokens>> /\ source' = source /\ tokens' = tokens /\ Size' = Size
  BY DEF Skips, Size
<1>5. \/ to < Size /\ MoveTo(to) /\ pc' = next /\ status' = status
      \/ to = Size /\ MoveTo(Size - 1) /\ pc' = "stop" /\ status' = "ended"
  BY <1>1, <1>2, <1>3, StepToIs
<1>6. PICK at \in position .. Size - 1 : MoveTo(at) /\ at <= to
  BY <1>3, <1>5
<1>7. position' = at /\ lineNumber' \in Nat /\ lineStart' \in Nat /\ LinesAreCounted'
  BY <1>1, <1>3, <1>4, <1>6, MoveToCounts
<1>8. Shape'
  <2>1. pc' = "token" => At(position)' \notin WhiteSpace
    BY <1>2, <1>3, <1>4, <1>5 DEF MoveTo, At
  <2>2. /\ source' \in Sources /\ IsSequence(tokens')
        /\ \A i \in 1 .. Len(tokens') : tokens'[i].from \in Nat /\ tokens'[i].to \in Nat
    BY <1>1, <1>4 DEF Shape
  <2>3. position' \in Nat /\ position' < Size' /\ position' <= Size'
    BY <1>3, <1>4, <1>6, <1>7
  <2>4. /\ pc' \in {"skip", "resume", "comment", "token", "stop"}
        /\ pc' = "stop" <=> status' # "reading"
    BY <1>1, <1>2, <1>5
  <2>5. QED
    BY <1>7, <2>1, <2>2, <2>3, <2>4 DEF Shape
<1>9. TokensCoverTheText'
  <2>1. position' \in Nat /\ position <= position'
    BY <1>3, <1>6, <1>7
  <2>2. \A k \in position .. position' - 1 : IsBlankFrom(position, k)
    BY <1>2, <1>3, <1>6, <1>7
  <2>3. QED
    BY <1>1, <1>4, <2>1, <2>2, CoverSkips
<1>10. EndedFilesAreRead'
  <2>1. CASE status' = status
    BY <1>1, <2>1 DEF EndedFilesAreRead
  <2>2. CASE to = Size
    <3>1. PICK r \in Nat : r = Reached
      BY <1>1, ReachedIs
    <3>2. \A k \in r .. Size - 1 : IsBlankFrom(r, k)
      BY <1>1, <1>2, <1>3, <2>2, <3>1, BlankOver
    <3>3. r <= Size
      BY <1>1, <1>3, <3>1 DEF TokensCoverTheText
    <3>4. Starts(source, Size) /\ Size \in r .. Size
      BY <1>3, <3>3 DEF Starts, Size
    <3>5. QED
      BY <1>3, <1>4, <3>1, <3>2, <3>4, EndedAt
  <2>3. QED
    BY <1>3, <1>5, <2>1, <2>2
<1>11. QED
  BY <1>7, <1>8, <1>9, <1>10 DEF IInv

LEMMA StaysShape ==
  ASSUME Shape, Stay, UNCHANGED <<source, tokens>>,
         pc' \in {"resume", "stop"}, pc' = "stop" <=> status' # "reading",
         pc' # "stop" => position < Size
  PROVE  Shape'
<1>1. UNCHANGED <<source, tokens, position, lineNumber, lineStart>> /\ Size' = Size
  BY DEF Stay, Size
<1>2. QED
  BY <1>1 DEF Shape

\* Staying passes over nothing.
LEMMA StaysCover ==
  ASSUME Shape, TokensCoverTheText, Stay, UNCHANGED <<source, tokens>>, status = "reading"
  PROVE  TokensCoverTheText'
<1>1. position' = position /\ position \in Nat /\ position .. position - 1 = {}
  BY DEF Stay, Shape
<1>2. QED
  BY <1>1, CoverSkips

LEMMA LooksKeeps ==
  ASSUME IInv, Looks
  PROVE  IInv'
<1>1. Shape /\ TokensCoverTheText /\ LinesAreCounted /\ status = "reading" /\ Stay
  BY DEF IInv, Shape, Looks
<1>2. UNCHANGED <<source, tokens, status>> /\ pc' = "resume" /\ position < Size
  BY DEF Looks
<1>3. Shape' /\ LinesAreCounted' /\ TokensCoverTheText'
  BY <1>1, <1>2, StaysShape, StaysCover, StayCounts
<1>4. EndedFilesAreRead'
  BY <1>1, <1>2 DEF EndedFilesAreRead
<1>5. QED
  BY <1>3, <1>4 DEF IInv

LEMMA StopsKeeps ==
  ASSUME IInv, Stops
  PROVE  IInv'
<1>1. Shape /\ TokensCoverTheText /\ LinesAreCounted /\ status = "reading" /\ Stay
  BY DEF IInv, Shape, Stops
<1>2. UNCHANGED <<source, tokens>> /\ pc' = "stop" /\ status' \in {"rejected", "ended"}
  BY DEF Stops
<1>3. Shape' /\ LinesAreCounted' /\ TokensCoverTheText'
  BY <1>1, <1>2, StaysShape, StaysCover, StayCounts
<1>4. EndedFilesAreRead'
  <2>1. CASE status' = "rejected"
    BY <2>1 DEF EndedFilesAreRead
  <2>2. CASE status' = "ended"
    <3>1. Terminated => position < Size /\ IsOpen
      BY <2>2 DEF Stops
    <3>2. Size \in Nat /\ position \in Nat /\ position <= Size
      BY <1>1, ShapeIs
    <3>3. PICK r \in Nat : r = Reached
      BY <1>1, ReachedIs
    <3>4. PICK p \in Nat : p = position
      BY <3>2
    <3>5. r <= p /\ \A j \in r .. p - 1 : IsBlankFrom(r, j)
      BY <1>1, <3>3, <3>4 DEF TokensCoverTheText
    <3>6. Terminated => Starts(source, p)
      BY <3>1, <3>4 DEF IsOpen, Starts, At, Size
    <3>7. p \in r .. Size
      BY <3>2, <3>3, <3>4, <3>5
    <3>8. QED
      BY <1>2, <3>2, <3>3, <3>5, <3>6, <3>7, EndedAt
  <2>3. QED
    BY <1>2, <2>1, <2>2
<1>5. QED
  BY <1>3, <1>4 DEF IInv

LEMMA AddsKeeps ==
  ASSUME IInv, Adds
  PROVE  IInv'
<1>1. /\ Shape /\ TokensCoverTheText /\ LinesAreCounted /\ status = "reading"
      /\ pc = "token" /\ position < Size
  BY DEF IInv, Shape, Adds
<1>2. PICK type : \E to \in position + 1 .. Size : Add(type, to) /\ (Terminated => to < Size)
  BY DEF Adds
<1>3. PICK to \in position + 1 .. Size : Add(type, to) /\ (Terminated => to < Size)
  BY <1>2
<1> DEFINE t == [type |-> type, from |-> position, to |-> to]
<1>4. source' = source /\ tokens' = Append(tokens, t) /\ Size' = Size
  BY <1>3 DEF Add, Size
<1>5. \/ to < Size /\ MoveTo(to) /\ pc' = "skip" /\ status' = status
      \/ ~(to < Size) /\ Stay /\ pc' = "stop" /\ status' = "ended"
  BY <1>3 DEF Add, TextEof
<1>6. /\ Size \in Nat /\ position \in Nat /\ to \in Nat /\ position < to /\ to <= Size
      /\ to \in position .. Size
  BY <1>1, ShapeIs
<1>7. /\ LinesAreCounted' /\ lineNumber' \in Nat /\ lineStart' \in Nat
      /\ position' = to \/ (position' = position /\ status' = "ended")
  <2>1. CASE MoveTo(to)
    BY <1>1, <1>4, <1>6, <2>1, MoveToCounts
  <2>2. CASE Stay /\ status' = "ended"
    <3>1. LinesAreCounted' /\ position' = position
      BY <1>1, <1>4, <2>2, StayCounts DEF Stay
    <3>2. lineNumber' \in Nat /\ lineStart' \in Nat
      BY <1>1, <2>2 DEF Stay, Shape
    <3>3. QED
      BY <2>2, <3>1, <3>2
  <2>3. QED
    BY <1>5, <2>1, <2>2
<1>8. TokensCoverTheText'
  BY <1>1, <1>3, <1>4, <1>7, CoverAdds
<1>9. Shape'
  <2>1. t.from \in Nat /\ t.to \in Nat /\ IsSequence(tokens) /\ Len(tokens) \in Nat
    BY <1>1, <1>6, SequenceHas DEF Shape
  <2>2. tokens' = Append(tokens, t)
    BY <1>4
  <2> HIDE DEF t
  <2>3. IsSequence(tokens')
    BY <2>1, <2>2, AppendedIs
  <2>4. Len(tokens') = Len(tokens) + 1
    BY <2>1, <2>2, AppendedIs
  <2>5. tokens'[Len(tokens) + 1] = t
    BY <2>1, <2>2, AppendedIs
  <2>6. \A i \in 1 .. Len(tokens) : tokens'[i] = tokens[i]
    BY <2>1, <2>2, AppendedIs
  <2>7. \A i \in 1 .. Len(tokens') : tokens'[i].from \in Nat /\ tokens'[i].to \in Nat
    <3>1. SUFFICES ASSUME NEW i \in 1 .. Len(tokens') PROVE tokens'[i].from \in Nat /\ tokens'[i].to \in Nat
      OBVIOUS
    <3>2. i = Len(tokens) + 1 \/ i \in 1 .. Len(tokens)
      BY <2>1, <2>4
    <3>3. QED
      BY <1>1, <2>1, <2>5, <2>6, <3>2 DEF Shape
  <2>8. /\ position' \in Nat /\ position' <= Size'
        /\ pc' # "stop" => position' < Size'
    BY <1>4, <1>5, <1>6, <1>7 DEF MoveTo
  <2>9. pc' \in {"skip", "stop"} /\ (pc' = "stop" <=> status' # "reading")
    BY <1>1, <1>5
  <2>10. source' \in Sources
    BY <1>1, <1>4 DEF Shape
  <2>11. QED
    BY <1>7, <2>3, <2>7, <2>8, <2>9, <2>10 DEF Shape
<1>10. EndedFilesAreRead'
  <2>1. CASE status' = status
    BY <1>1, <2>1 DEF EndedFilesAreRead
  <2>2. CASE ~(to < Size)
    <3>1. ~(Len(source.chars) > 0 /\ source.chars[Len(source.chars) - 1 + 1] = "\n")
      BY <1>3, <2>2 DEF Terminated, Size, At
    <3>2. QED
      BY <1>4, <3>1, ReadIs DEF Read
  <2>3. QED
    BY <1>5, <2>1, <2>2
<1>11. QED
  BY <1>7, <1>8, <1>9, <1>10 DEF IInv

LEMMA StutterKeeps ==
  ASSUME IInv, UNCHANGED vars
  PROVE  IInv'
<1>1. /\ Shape' /\ LinesAreCounted'
      /\ UNCHANGED <<source, tokens, position, status>>
  BY DEF IInv, vars, Shape, LinesAreCounted, Newlines, At, Size
<1>2. TokensCoverTheText' /\ EndedFilesAreRead'
  BY <1>1, CoversIs, ReadIs DEF IInv
<1>3. QED
  BY <1>1, <1>2 DEF IInv

LEMMA InitKeeps == Init => IInv
<1> SUFFICES ASSUME Init PROVE IInv
  OBVIOUS
<1>1. Size \in Nat /\ IsSequence(<<>>) /\ Len(tokens) = 0 /\ 1 .. Len(tokens) = {}
  <2>1. Size \in Nat /\ tokens = <<>>
    BY SizeIs DEF Init
  <2>2. IsSequence(<<>>) /\ Len(<<>>) = 0
    BY EmptySeq, SequenceIs
  <2>3. QED
    BY <2>1, <2>2
<1>2. Shape
  BY <1>1 DEF Init, Shape
<1>3. TokensCoverTheText
  BY <1>1 DEF Init, TokensCoverTheText, Reached
<1>4. EndedFilesAreRead
  BY DEF Init, EndedFilesAreRead
<1>5. LinesAreCounted
  <2>1. Newlines(0, 0) = {}
    BY DEF Newlines
  <2>2. QED
    BY <2>1, FS_EmptySet DEF Init, LinesAreCounted
<1>6. QED
  BY <1>2, <1>3, <1>4, <1>5 DEF IInv

LEMMA NextKeeps == IInv /\ [Next]_vars => IInv'
<1> SUFFICES ASSUME IInv, [Next]_vars PROVE IInv'
  OBVIOUS
<1>1. StepOK
  BY StepKind DEF IInv
<1>2. QED
  BY <1>1, SkipsKeeps, LooksKeeps, StopsKeeps, AddsKeeps, StutterKeeps DEF StepOK

LEMMA Invariance == Spec => []IInv
BY InitKeeps, NextKeeps, PTL DEF Spec

-----------------------------------------------------------------------------
(* Whole tokens.                                                           *)

\* Behind finds the closing delimiter: one stands before the position, none
\* on it, and every run of them in between is even.
Closes(q, i, to) ==
  /\ to \in i + 1 .. Size - 1
  /\ At(to - 1) = q
  /\ At(to) # q
  /\ \A r \in RunsOf(q, i, to - 1) : (r[2] - r[1]) % 2 = 0

EvenRuns(q, i, e) ==
  \A a \in i .. e - 1, b \in i .. e : IsRun(q, a, b, i, e) => (b - a) % 2 = 0

LEMMA RunsAreEven ==
  ASSUME NEW q, NEW i, NEW e
  PROVE  EvenRuns(q, i, e) <=> \A r \in RunsOf(q, i, e) : (r[2] - r[1]) % 2 = 0
<1>1. ASSUME EvenRuns(q, i, e), NEW r \in RunsOf(q, i, e) PROVE (r[2] - r[1]) % 2 = 0
  <2>1. r[1] \in i .. e - 1 /\ r[2] \in i .. e /\ IsRun(q, r[1], r[2], i, e)
    BY DEF RunsOf
  <2>2. QED
    BY <1>1, <2>1 DEF EvenRuns
<1>2. ASSUME \A r \in RunsOf(q, i, e) : (r[2] - r[1]) % 2 = 0,
             NEW a \in i .. e - 1, NEW b \in i .. e, IsRun(q, a, b, i, e)
      PROVE  (b - a) % 2 = 0
  <2>1. <<a, b>> \in RunsOf(q, i, e) /\ <<a, b>>[1] = a /\ <<a, b>>[2] = b
    BY <1>2 DEF RunsOf
  <2>2. QED
    BY <1>2, <2>1
<1>3. QED
  BY <1>1, <1>2 DEF EvenRuns

\* A character that is no delimiter adds no run to what follows it.
LEMMA EvenBefore ==
  ASSUME NEW q, NEW i \in Nat, NEW e \in Nat, At(i) # q, EvenRuns(q, i + 1, e)
  PROVE  EvenRuns(q, i, e)
<1>1. SUFFICES ASSUME NEW a \in i .. e - 1, NEW b \in i .. e, IsRun(q, a, b, i, e)
               PROVE  (b - a) % 2 = 0
  BY DEF EvenRuns
<1>2. a # i /\ a < b
  BY <1>1 DEF IsRun
<1>3. a \in i + 1 .. e - 1 /\ b \in i + 1 .. e
  BY <1>2
<1>4. IsRun(q, a, b, i + 1, e)
  BY <1>1, <1>2 DEF IsRun
<1>5. QED
  BY <1>3, <1>4 DEF EvenRuns

\* Two delimiters lengthen the run behind them or are a run.
LEMMA EvenDoubled ==
  ASSUME NEW q, NEW i \in Nat, NEW e \in Nat, At(i) = q, At(i + 1) = q, i + 2 <= e,
         EvenRuns(q, i + 2, e)
  PROVE  EvenRuns(q, i, e)
<1>1. SUFFICES ASSUME NEW a \in i .. e - 1, NEW b \in i .. e, IsRun(q, a, b, i, e)
               PROVE  (b - a) % 2 = 0
  BY DEF EvenRuns
<1>2. a \in Nat /\ b \in Nat /\ a < b /\ b <= e /\ i <= a
  BY <1>1 DEF IsRun
<1>3. a # i + 1 /\ a # i + 2
  <2>1. a # i => At(a - 1) # q
    BY <1>1 DEF IsRun
  <2>2. (i + 1) - 1 = i /\ (i + 2) - 1 = i + 1 /\ i + 1 # i /\ i + 2 # i
    OBVIOUS
  <2>3. QED
    BY <2>1, <2>2
<1>4. CASE a = i
  <2>1. b # i + 1
    BY <1>1, <1>4 DEF IsRun
  <2>2. CASE b = i + 2
    BY <1>2, <1>4, <2>2
  <2>3. CASE b > i + 2
    <3>1. IsRun(q, i + 2, b, i + 2, e)
      BY <1>1, <1>2, <1>4, <2>3 DEF IsRun
    <3>2. i + 2 \in i + 2 .. e - 1 /\ b \in i + 2 .. e
      BY <1>2, <2>3
    <3>3. (b - (i + 2)) % 2 = 0
      BY <3>1, <3>2 DEF EvenRuns
    <3>4. QED
      BY <1>2, <1>4, <3>3
  <2>4. QED
    BY <1>2, <1>4, <2>1, <2>2, <2>3
<1>5. CASE a > i + 2
  <2>1. IsRun(q, a, b, i + 2, e)
    BY <1>1, <1>2, <1>5 DEF IsRun
  <2>2. a \in i + 2 .. e - 1 /\ b \in i + 2 .. e
    BY <1>2, <1>5
  <2>3. QED
    BY <2>1, <2>2 DEF EvenRuns
<1>6. QED
  BY <1>2, <1>3, <1>4, <1>5

LEMMA ClosesIs ==
  ASSUME NEW q, NEW i, NEW to
  PROVE  Closes(q, i, to) <=> /\ to \in i + 1 .. Size - 1 /\ At(to - 1) = q /\ At(to) # q
                              /\ EvenRuns(q, i, to - 1)
BY RunsAreEven DEF Closes

LEMMA BehindCloses ==
  ASSUME Size \in Nat, NEW q, NEW p \in Nat, Behind(q)[p] # Unclosed
  PROVE  Closes(q, p, Behind(q)[p])
<1> DEFINE B(i) == Behind(q)[i] = Unclosed \/ Closes(q, i, Behind(q)[i])
<1>1. ASSUME NEW i \in Nat, i >= Size PROVE B(i)
  BY <1>1, BehindIs DEF Closing
<1>2. ASSUME NEW i \in Nat, i < Size, \A j \in Nat : j > i => B(j) PROVE B(i)
  <2>1. B(i + 1) /\ B(i + 2)
    BY <1>2
  <2>2. PICK to : to = Behind(q)[i]
    OBVIOUS
  <2>3. to = Closing(Behind(q), i, q)
    BY <2>2, BehindIs
  <2>4. CASE At(i) # q /\ to # Unclosed
    <3>1. Closes(q, i + 1, to)
      BY <1>2, <2>1, <2>3, <2>4 DEF Closing
    <3>2. to \in i + 1 + 1 .. Size - 1 /\ At(to - 1) = q /\ At(to) # q /\ EvenRuns(q, i + 1, to - 1)
      BY <3>1, ClosesIs
    <3>3. to \in i + 1 .. Size - 1 /\ to - 1 \in Nat
      BY <3>2
    <3>4. EvenRuns(q, i, to - 1)
      BY <2>4, <3>2, <3>3, EvenBefore
    <3>5. QED
      BY <2>2, <3>2, <3>3, <3>4, ClosesIs
  <2>5. CASE At(i) = q /\ i + 1 < Size /\ At(i + 1) = q /\ to # Unclosed
    <3>1. Closes(q, i + 2, to)
      BY <1>2, <2>1, <2>3, <2>5 DEF Closing
    <3>2. to \in i + 2 + 1 .. Size - 1 /\ At(to - 1) = q /\ At(to) # q /\ EvenRuns(q, i + 2, to - 1)
      BY <3>1, ClosesIs
    <3>3. to \in i + 1 .. Size - 1 /\ to - 1 \in Nat /\ i + 2 <= to - 1
      BY <3>2
    <3>4. EvenRuns(q, i, to - 1)
      BY <2>5, <3>2, <3>3, EvenDoubled
    <3>5. QED
      BY <2>2, <3>2, <3>3, <3>4, ClosesIs
  <2>6. CASE At(i) = q /\ i + 1 < Size /\ At(i + 1) # q
    <3>1. to = i + 1
      BY <1>2, <2>3, <2>6 DEF Closing
    <3>2. (i + 1) - 1 = i /\ i + 1 \in i + 1 .. Size - 1 /\ i .. i - 1 = {}
      BY <2>6
    <3>3. EvenRuns(q, i, i)
      BY <3>2 DEF EvenRuns
    <3>4. QED
      BY <2>2, <2>6, <3>1, <3>2, <3>3, ClosesIs
  <2>7. CASE to = Unclosed
    BY <2>2, <2>7
  <2>8. CASE At(i) = q /\ i + 1 >= Size
    BY <1>2, <2>2, <2>3, <2>8 DEF Closing
  <2>9. QED
    BY <2>4, <2>5, <2>6, <2>7, <2>8
<1> DEFINE S == {i \in Nat : ~ B(i)}
<1>3. ASSUME ~ B(p) PROVE FALSE
  <2> HIDE DEF B
  <2>1. S \in SUBSET Nat /\ S # {} /\ \A i \in S : i <= Size
    BY <1>1, <1>3
  <2>2. PICK i \in S : \A j \in S : j <= i
    BY <2>1, GreatestIs
  <2>3. \A j \in Nat : j > i => B(j)
    BY <2>2
  <2>4. i < Size
    BY <1>1, <2>2
  <2>5. QED
    BY <1>2, <2>3, <2>4
<1>4. QED
  BY <1>3

\* The property of one token, without variables.
ClosedIn(chars, q, open, to) ==
  /\ open < to - 1
  /\ chars[open + 1] = q
  /\ chars[to - 1 + 1] = q
  /\ chars[to + 1] # q
  /\ \A r \in {r \in (open + 1 .. to - 1 - 1) \X (open + 1 .. to - 1) :
                 /\ r[1] < r[2]
                 /\ \A i \in r[1] .. r[2] - 1 : chars[i + 1] = q
                 /\ r[1] = open + 1 \/ chars[r[1] - 1 + 1] # q
                 /\ r[2] = to - 1 \/ chars[r[2] + 1] # q} :
         (r[2] - r[1]) % 2 = 0

WholeIn(chars, t) ==
  LET first == chars[t.from + 1]
  IN  CASE t.type = "STRING" ->
              /\ t.to < Len(chars)
              /\ ClosedIn(chars, "\"", IF first = "\"" THEN t.from ELSE t.from + 1, t.to)
        [] t.type = "CHARACTER" ->
              t.to = t.from + 3 /\ chars[t.from + 1] = "'" /\ chars[t.from + 2 + 1] = "'"
        [] t.type = "SPECIAL" -> t.to = t.from + 1 /\ first \notin Letters \cup Digits
        [] t.type \in {"KEYWORD", "IDENTIFIER"} ->
              /\ t.to < Len(chars)
              /\ IF first = "\\" THEN ClosedIn(chars, "\\", t.from, t.to)
                 ELSE /\ \A k \in t.from + 1 .. t.to - 1 : chars[k + 1] \in IdentifierChars
                      /\ chars[t.to + 1] \notin IdentifierChars
        [] t.type \in {"INTEGER", "REAL"} ->
              /\ t.to < Len(chars)
              /\ \A k \in t.from + 1 .. t.to - 1 : chars[k + 1] \in NumberChars
              /\ chars[t.to + 1] \notin NumberChars

LEMMA ClosedIs ==
  ASSUME NEW q, NEW open, NEW to
  PROVE  Closed(q, open, to) <=> ClosedIn(source.chars, q, open, to)
BY DEF Closed, ClosedIn, RunsOf, IsRun, At

AllWhole(chars, ts) == \A i \in 1 .. Len(ts) : WholeIn(chars, ts[i])

LEMMA WholeIs ==
  /\ TokensAreWhole <=> AllWhole(source.chars, tokens)
  /\ TokensAreWhole' <=> AllWhole(source.chars', tokens')
BY DEF TokensAreWhole, AllWhole, WholeIn, ClosedIn, Closed, RunsOf, IsRun, At, Size

\* A step that adds a token adds a whole one.
AddsWhole ==
  \/ tokens' = tokens
  \/ \E t : tokens' = Append(tokens, t) /\ WholeIn(source.chars, t)

\* A delimiter and the characters up to what Behind finds.
LEMMA ClosedBehind ==
  ASSUME Size \in Nat, NEW q, NEW open \in Nat, At(open) = q,
         NEW to, to = Behind(q)[open + 1], to # Unclosed
  PROVE  to \in Nat /\ to < Size /\ ClosedIn(source.chars, q, open, to)
<1>1. Closes(q, open + 1, to)
  BY BehindCloses
<1>2. /\ to \in open + 1 + 1 .. Size - 1 /\ At(to - 1) = q /\ At(to) # q
      /\ \A r \in RunsOf(q, open + 1, to - 1) : (r[2] - r[1]) % 2 = 0
  BY <1>1 DEF Closes
<1>3. to \in Nat /\ to < Size /\ open < to - 1
  BY <1>2
<1>4. Closed(q, open, to)
  BY <1>2, <1>3 DEF Closed
<1>5. QED
  BY <1>3, <1>4, ClosedIs

LEMMA StringIsWhole ==
  ASSUME Shape, AcceptString
  PROVE  AddsWhole
<1> DEFINE open == position + (IF Quoted THEN 0 ELSE 1)
<1> DEFINE to == Behind("\"")[position + (IF Quoted THEN 1 ELSE 2)]
<1> DEFINE t == [type |-> "STRING", from |-> position, to |-> to]
<1>1. Size \in Nat /\ position \in 0 .. Size - 1 /\ pc = "token"
  BY ShapeIs DEF AcceptString
<1>2. CASE LastOne \/ to = Unclosed
  BY <1>2 DEF AcceptString, NoToken, AddsWhole
<1>3. CASE ~ (LastOne \/ to = Unclosed)
  <2>1. tokens' = Append(tokens, t)
    BY <1>3 DEF AcceptString, Add
  <2>2. open \in Nat /\ position + (IF Quoted THEN 1 ELSE 2) = open + 1
    BY <1>1
  <2>3. Quoted \/ (Prefixed /\ ~Quoted)
    BY <1>3 DEF AcceptString, IsString, Prefixed
  <2>4. At(open) = "\""
    <3>1. CASE Quoted
      <4>1. open = position
        BY <1>1, <3>1
      <4> HIDE DEF open
      <4>2. QED
        BY <3>1, <4>1 DEF Quoted
    <3>2. CASE Prefixed /\ ~Quoted
      <4>1. open = position + 1
        BY <3>2
      <4> HIDE DEF open
      <4>2. QED
        BY <3>2, <4>1 DEF Prefixed
    <3>3. QED
      BY <2>3, <3>1, <3>2
  <2>5. open = IF source.chars[position + 1] = "\"" THEN position ELSE position + 1
    BY <1>1 DEF Quoted, At
  <2> HIDE DEF open
  <2>6. to < Size /\ ClosedIn(source.chars, "\"", open, to)
    BY <1>1, <1>3, <2>2, <2>4, ClosedBehind
  <2> HIDE DEF to
  <2>7. WholeIn(source.chars, t)
    BY <2>5, <2>6 DEF WholeIn, Size
  <2>8. QED
    BY <2>1, <2>7 DEF AddsWhole
<1>4. QED
  BY <1>2, <1>3

LEMMA CharacterIsWhole ==
  ASSUME Shape, AcceptCharacter
  PROVE  AddsWhole
<1>1. CASE NoToken
  BY <1>1 DEF NoToken, AddsWhole
<1>2. CASE Between /\ Add("CHARACTER", position + 3)
  <2> DEFINE t == [type |-> "CHARACTER", from |-> position, to |-> position + 3]
  <2>1. tokens' = Append(tokens, t)
    BY <1>2 DEF Add
  <2>2. source.chars[position + 1] = "'" /\ source.chars[position + 2 + 1] = "'"
    BY <1>2 DEF AcceptCharacter, IsTick, Between, At
  <2>3. WholeIn(source.chars, t)
    BY <2>2 DEF WholeIn
  <2>4. QED
    BY <2>1, <2>3 DEF AddsWhole
<1>3. QED
  BY <1>1, <1>2 DEF AcceptCharacter

\* No special character starts a name or a number.
LEMMA SpecialsAre ==
  ASSUME NEW c, NEW l \in {"vhdl", "verilog"}, c \in SpecialCharacters[l]
  PROVE  c \notin Letters \cup Digits
<1>1. Letters = {"a", "b", "d", "e", "l", "m", "n", "o", "r", "u", "x", "A", "B", "E", "O", "R", "X"}
  BY DEF Letters, Lower
<1>2. c \in {"(", ")", "'", "=", ">", "<", ";", ".", ":", ",", "&", "+", "/", "-", "[", "]", "|", "*"}
  <2>1. CASE l = "vhdl"
    BY <2>1 DEF SpecialCharacters
  <2>2. CASE l = "verilog"
    BY <2>2 DEF SpecialCharacters
  <2>3. QED
    BY <2>1, <2>2
<1>3. c \notin Letters
  BY <1>1, <1>2
<1>4. c \notin Digits
  BY <1>2 DEF Digits
<1>5. QED
  BY <1>3, <1>4

LEMMA SpecialIsWhole ==
  ASSUME Shape, AcceptSpecialCharacter
  PROVE  AddsWhole
<1> DEFINE t == [type |-> "SPECIAL", from |-> position, to |-> position + 1]
<1>1. tokens' = Append(tokens, t)
  BY DEF AcceptSpecialCharacter, Add
<1>2. source.chars[position + 1] \notin Letters \cup Digits
  BY ShapeIs, SpecialsAre DEF AcceptSpecialCharacter, IsSpecial, At
<1>3. WholeIn(source.chars, t)
  BY <1>2 DEF WholeIn
<1>4. QED
  BY <1>1, <1>3 DEF AddsWhole

LEMMA IdentifierIsWhole ==
  ASSUME Shape, AcceptIdentifier
  PROVE  AddsWhole
<1> DEFINE to == IF At(position) = "\\" THEN Behind("\\")[position + 1]
                 ELSE FirstNotOf(position + 1, IdentifierChars)
<1> DEFINE type == IF IsKeyword(position, to) THEN "KEYWORD" ELSE "IDENTIFIER"
<1> DEFINE t == [type |-> type, from |-> position, to |-> to]
<1>1. Size \in Nat /\ position \in 0 .. Size - 1 /\ position \in Nat /\ position + 1 \in 0 .. Size
  BY ShapeIs DEF AcceptIdentifier
<1>2. CASE to \in {Unclosed, Size}
  BY <1>2 DEF AcceptIdentifier, NoToken, AddsWhole
<1>3. CASE to \notin {Unclosed, Size}
  <2>1. tokens' = Append(tokens, t)
    BY <1>3 DEF AcceptIdentifier, Add
  <2>2. type \in {"KEYWORD", "IDENTIFIER"}
    OBVIOUS
  <2>3. CASE At(position) = "\\"
    <3>1. to = Behind("\\")[position + 1]
      BY <2>3
    <3> HIDE DEF to
    <3>2. to < Size /\ ClosedIn(source.chars, "\\", position, to)
      BY <1>1, <1>3, <2>3, <3>1, ClosedBehind
    <3> HIDE DEF type
    <3>3. WholeIn(source.chars, t)
      BY <2>2, <2>3, <3>2 DEF WholeIn, Size, At
    <3>4. QED
      BY <2>1, <3>3 DEF AddsWhole
  <2>4. CASE At(position) # "\\"
    <3>1. to = FirstNotOf(position + 1, IdentifierChars)
      BY <2>4
    <3>2. /\ to \in position + 1 .. Size
          /\ to < Size => At(to) \notin IdentifierChars
          /\ \A k \in position + 1 .. to - 1 : At(k) \in IdentifierChars
      BY <1>1, <3>1, FirstNotOfIs
    <3> HIDE DEF to, type
    <3>3. to < Size
      BY <1>1, <1>3, <3>2
    <3>4. WholeIn(source.chars, t)
      BY <2>2, <2>4, <3>2, <3>3 DEF WholeIn, Size, At
    <3>5. QED
      BY <2>1, <3>4 DEF AddsWhole
  <2>5. QED
    BY <2>3, <2>4
<1>4. QED
  BY <1>2, <1>3

LEMMA NumberIsWhole ==
  ASSUME Shape, AcceptNumber
  PROVE  AddsWhole
<1> DEFINE to == FirstNotOf(position + 1, NumberChars)
<1> DEFINE type == IF \E i \in position + 1 .. to - 1 : At(i) = "." THEN "REAL" ELSE "INTEGER"
<1> DEFINE t == [type |-> type, from |-> position, to |-> to]
<1>1. Size \in Nat /\ position \in 0 .. Size - 1 /\ position + 1 \in 0 .. Size
  BY ShapeIs DEF AcceptNumber
<1>2. CASE to = Size
  BY <1>2 DEF AcceptNumber, NoToken, AddsWhole
<1>3. CASE to # Size
  <2>1. tokens' = Append(tokens, t)
    BY <1>3 DEF AcceptNumber, Add
  <2>2. type \in {"INTEGER", "REAL"}
    OBVIOUS
  <2>3. /\ to \in position + 1 .. Size
        /\ to < Size => At(to) \notin NumberChars
        /\ \A k \in position + 1 .. to - 1 : At(k) \in NumberChars
    BY <1>1, FirstNotOfIs
  <2> HIDE DEF to, type
  <2>4. to < Size
    BY <1>1, <1>3, <2>3
  <2>5. WholeIn(source.chars, t)
    BY <2>2, <2>3, <2>4 DEF WholeIn, Size, At
  <2>6. QED
    BY <2>1, <2>5 DEF AddsWhole
<1>4. QED
  BY <1>2, <1>3

LEMMA StepAddsWhole ==
  ASSUME Shape, [Next]_vars
  PROVE  AddsWhole /\ source' = source
<1>1. CASE SkipWhiteSpace \/ SkipComment \/ UnknownToken \/ Done \/ UNCHANGED vars
  BY <1>1 DEF SkipWhiteSpace, SkipComment, UnknownToken, Done, vars, AddsWhole
<1>2. CASE AcceptString \/ AcceptCharacter \/ AcceptSpecialCharacter \/ AcceptIdentifier \/ AcceptNumber
  <2>1. AddsWhole
    BY <1>2, StringIsWhole, CharacterIsWhole, SpecialIsWhole, IdentifierIsWhole, NumberIsWhole
  <2>2. source' = source
    BY <1>2 DEF AcceptString, AcceptCharacter, AcceptSpecialCharacter, AcceptIdentifier,
                AcceptNumber, Add, NoToken
  <2>3. QED
    BY <2>1, <2>2
<1>3. QED
  BY <1>1, <1>2 DEF Next

LEMMA WholeKeeps ==
  ASSUME Shape, TokensAreWhole, [Next]_vars
  PROVE  TokensAreWhole'
<1>1. AddsWhole /\ source' = source /\ AllWhole(source.chars, tokens) /\ IsSequence(tokens)
  BY StepAddsWhole, WholeIs DEF Shape
<1>2. CASE tokens' = tokens
  BY <1>1, <1>2, WholeIs
<1>3. CASE tokens' # tokens
  <2>1. PICK t : tokens' = Append(tokens, t) /\ WholeIn(source.chars, t)
    BY <1>1, <1>3 DEF AddsWhole
  <2>2. /\ Len(tokens) \in Nat /\ Len(tokens') = Len(tokens) + 1 /\ tokens'[Len(tokens) + 1] = t
        /\ \A i \in 1 .. Len(tokens) : tokens'[i] = tokens[i]
    BY <1>1, <2>1, AppendedIs, SequenceHas
  <2>3. ASSUME NEW i \in 1 .. Len(tokens') PROVE WholeIn(source.chars, tokens'[i])
    <3>1. i = Len(tokens) + 1 \/ i \in 1 .. Len(tokens)
      BY <2>2
    <3>2. QED
      BY <1>1, <2>1, <2>2, <3>1 DEF AllWhole
  <2>4. QED
    BY <1>1, <2>3, WholeIs DEF AllWhole
<1>4. QED
  BY <1>2, <1>3

LEMMA WholeStarts == Init => TokensAreWhole
<1> SUFFICES ASSUME Init PROVE TokensAreWhole
  OBVIOUS
<1>1. tokens = <<>> /\ Len(<<>>) = 0 /\ 1 .. 0 = {}
  BY EmptySeq DEF Init
<1>2. QED
  BY <1>1 DEF TokensAreWhole

-----------------------------------------------------------------------------
(* Theorems.                                                               *)

\* tokenize loses nothing and reads nothing twice, whatever the text: the
\* tokens are in order and only white space and comments are between them.
THEOREM TokensAlwaysCover == Spec => []TokensCoverTheText
BY Invariance, PTL DEF IInv

\* A text that ends in a newline is read to its end, or to a string, an
\* extended identifier or a tick that is open there: no other TextEof that
\* tokenize catches is thrown before the end.
THEOREM EndedFilesAlwaysRead == Spec => []EndedFilesAreRead
BY Invariance, PTL DEF IInv

\* The line and the start of the line that a report names are those of the
\* position, whatever was skipped or read at once.
THEOREM LinesAlwaysCounted == Spec => []LinesAreCounted
BY Invariance, PTL DEF IInv

\* Every token is a whole word of its kind, whatever the text: names and
\* numbers go on as long as they can, a string and an extended identifier end
\* at the delimiter that is not doubled.
THEOREM TokensAlwaysWhole == Spec => []TokensAreWhole
<1>1. Shape /\ TokensAreWhole /\ [Next]_vars => TokensAreWhole'
  BY WholeKeeps
<1>2. QED
  BY <1>1, WholeStarts, Invariance, PTL DEF Spec, IInv
==============================================================================
