------------------------------- MODULE Tokenizer -------------------------------
(***************************************************************************)
(* The scanner: TokenScanner::tokenize (src/src/ast/token_scanner.hpp)     *)
(* reads the text of a file into the list of tokens that the parsers work  *)
(* on.  The text is an ast::Text (src/src/ast/text.cpp): every look and    *)
(* every step beyond its last character throws TextEof, which tokenize     *)
(* takes for the end of the file, wherever it was thrown.  Characters are  *)
(* strings of length one; positions start at 0 as in the code.             *)
(***************************************************************************)
EXTENDS Integers, Sequences, FiniteSets

CONSTANTS
    Sources,        \* the files: [language, chars]
    KeywordsOf      \* language -> its keywords, in lower case, as characters

ASSUME SourcesAssumption ==
    \A s \in Sources : s.language \in {"vhdl", "verilog"} /\ s.chars \in Seq(STRING)

VARIABLES
    source,         \* the file being read
    position,       \* Text::position
    lineNumber,     \* Text::lineNumber
    lineStart,      \* Text::lineStart
    tokens,         \* tokenInfo.tokens: [type, from, to]
    pc,             \* where tokenize stands
    status          \* "reading", "ended" (TextEof) or "rejected" (SyntaxError)

vars == <<source, position, lineNumber, lineStart, tokens, pc, status>>

Size  == Len(source.chars)
At(i) == source.chars[i + 1]
Is(language) == source.language = language

---------------------------------------------------------------------------
(* Kinds of characters.                                                    *)

WhiteSpace == {" ", "\t", "\n", "\r"}

SpecialCharacters ==
    [vhdl    |-> {"(", ")", "'", "=", ">", "<", ";", ".", ":", ",", "&", "+", "/", "-",
                  "[", "]", "|", "*"},
     verilog |-> {"(", ")", "=", ">", "<", ",", ";"}]

Digits  == {"0", "1", "2", "3", "4", "5", "6", "7", "8", "9"}
Lower   == [A |-> "a", B |-> "b", E |-> "e", O |-> "o", R |-> "r", X |-> "x"]
Letters == {"a", "b", "d", "e", "l", "m", "n", "o", "r", "u", "x"} \cup DOMAIN Lower

\* A character outside ASCII is a negative index of the tables: what is read
\* before VALID_FIRST_CHAR may be anything, what is read before VALID_CHAR is
\* the unused half of VALID_FIRST_CHAR.
Foreign == {"~"}

IdentifierChars == Letters \cup Digits \cup {"_"}
NumberChars     == Digits \cup {".", "e", "E", "+"}
Prefixes        == {"x", "X", "b", "B", "o", "O"}

CommentOf == [vhdl |-> "-", verilog |-> "/"]

---------------------------------------------------------------------------
(* Positions.                                                              *)

\* The first position from p on that has a character of the set, or Size.
FirstOf(p, chars) ==
    CHOOSE i \in p .. Size :
        /\ i < Size => At(i) \in chars
        /\ \A j \in p .. i - 1 : At(j) \notin chars

FirstNotOf(p, chars) ==
    CHOOSE i \in p .. Size :
        /\ i < Size => At(i) \notin chars
        /\ \A j \in p .. i - 1 : At(j) \in chars

\* The position behind the delimiter that closes what p is inside of: a
\* delimiter that is doubled does not.  None is found at the end of the text,
\* where the character behind it cannot be seen.
Unclosed == -1

\* Faulty form: the first delimiter closes.
BehindFirst(q) ==
    [i \in Nat |-> LET to == FirstOf(i, {q}) IN IF to + 1 >= Size THEN Unclosed ELSE to + 1]

Behind(q) ==
    LET close[i \in Nat] ==
            CASE i >= Size     -> Unclosed
              [] i < Size /\ At(i) # q -> close[i + 1]
              [] OTHER         -> IF i + 1 >= Size THEN Unclosed
                                  ELSE IF At(i + 1) = q THEN close[i + 2] ELSE i + 1
    IN  close

\* Text::incrementPosition over the characters up to "to", which counts the
\* lines; it throws when nothing would be left.
Newlines(from, to) == {i \in from .. to - 1 : At(i) = "\n"}

\* Faulty form: only the first of the characters is looked at.
MoveOver(to) ==
    /\ position' = to
    /\ lineNumber' = lineNumber + (IF At(position) = "\n" THEN 1 ELSE 0)
    /\ lineStart' = IF At(position) = "\n" THEN position + 1 ELSE lineStart

MoveTo(to) ==
    /\ position' = to
    /\ lineNumber' = lineNumber + Cardinality(Newlines(position, to))
    /\ lineStart' = IF Newlines(position, to) = {} THEN lineStart
                    ELSE 1 + CHOOSE i \in Newlines(position, to) :
                                 \A j \in Newlines(position, to) : j <= i

Stay == UNCHANGED <<position, lineNumber, lineStart>>

\* One character after the other up to "to", or to the last one of the text.
StepTo(to, next) ==
    IF to < Size
    THEN MoveTo(to) /\ pc' = next /\ status' = status
    ELSE MoveTo(Size - 1) /\ pc' = "stop" /\ status' = "ended"

TextEof == Stay /\ pc' = "stop" /\ status' = "ended"

---------------------------------------------------------------------------
Init ==
    /\ source \in Sources
    /\ position = 0
    /\ lineNumber = 0
    /\ lineStart = 0
    /\ tokens = <<>>
    /\ pc = "skip"
    /\ status = "reading"

(* skipWhiteSpaceAndComments.  VHDL looks for a comment after white space  *)
(* and in any case once, Verilog only after white space.                   *)

SkipWhiteSpace ==
    /\ pc \in {"skip", "resume"}
    /\ IF Size = 0 THEN TextEof
       ELSE LET to == FirstNotOf(position, WhiteSpace)
            IN  StepTo(to, IF to > position \/ (pc = "skip" /\ Is("vhdl"))
                           THEN "comment" ELSE "token")
    /\ UNCHANGED <<source, tokens>>

\* Faulty form: one mark starts a comment.
SkipHalfComment ==
    /\ pc = "comment"
    /\ IF At(position) # CommentOf[source.language]
       THEN Stay /\ pc' = "resume" /\ UNCHANGED status
       ELSE StepTo(FirstOf(position + 1, {"\n"}), "resume")
    /\ UNCHANGED <<source, tokens>>

SkipComment ==
    /\ pc = "comment"
    /\ LET mark == CommentOf[source.language]
       IN  IF At(position) # mark
           THEN Stay /\ pc' = "resume" /\ UNCHANGED status
           ELSE IF position + 1 >= Size THEN TextEof
           ELSE IF At(position + 1) # mark
           THEN Stay /\ pc' = "resume" /\ UNCHANGED status
           ELSE IF position + 2 >= Size THEN TextEof
           ELSE StepTo(FirstOf(position + 2, {"\n"}), "resume")
    /\ UNCHANGED <<source, tokens>>

---------------------------------------------------------------------------
(* The tokens, in the order in which they are tried.                       *)

\* add(token): the token is in the list before the text moves on, so that a
\* token at the very end of the text stays.
Add(type, to) ==
    /\ tokens' = Append(tokens, [type |-> type, from |-> position, to |-> to])
    /\ IF to < Size THEN MoveTo(to) /\ pc' = "skip" /\ status' = status ELSE TextEof
    /\ UNCHANGED source

NoToken == TextEof /\ UNCHANGED <<source, tokens>>

\* A string starts with a quote or with a prefix and a quote.  To see the
\* latter the second character is looked at whatever the first one is.
Quoted   == At(position) = "\""
Prefixed == ~Quoted /\ position + 1 < Size /\ At(position) \in Prefixes /\ At(position + 1) = "\""
\* Faulty form: the character behind the next one is looked at as well.
LastTwo  == ~Quoted /\ position + 2 >= Size

LastOne  == ~Quoted /\ position + 1 >= Size
IsString == Quoted \/ Prefixed \/ LastOne

AcceptString ==
    /\ pc = "token"
    /\ IsString
    /\ LET to == Behind("\"")[position + (IF Quoted THEN 1 ELSE 2)]
       IN  IF LastOne \/ to = Unclosed THEN NoToken ELSE Add("STRING", to)

IsTick == ~IsString /\ At(position) = "'"
Between == position + 2 < Size /\ At(position + 2) = "'"

AcceptCharacter ==
    /\ pc = "token"
    /\ IsTick
    /\ \/ position + 2 >= Size /\ NoToken
       \/ Between /\ Add("CHARACTER", position + 3)

IsSpecial ==
    /\ ~IsString
    /\ ~(IsTick /\ (position + 2 >= Size \/ Between))
    /\ At(position) \in SpecialCharacters[source.language]

AcceptSpecialCharacter ==
    /\ pc = "token"
    /\ IsSpecial
    /\ Add("SPECIAL", position + 1)

Lowered(c) == IF c \in DOMAIN Lower /\ Is("vhdl") THEN Lower[c] ELSE c

IsKeyword(from, to) ==
    [i \in 1 .. to - from |-> Lowered(At(from + i - 1))] \in KeywordsOf[source.language]

Tried == ~IsString /\ ~IsTick /\ ~IsSpecial

\* What the other tables say of a foreign character is up to the build.
AcceptIdentifier ==
    /\ pc = "token"
    /\ Tried
    /\ At(position) \in Letters \cup Foreign \cup {"\\"}
    /\ LET to == IF At(position) = "\\" THEN Behind("\\")[position + 1]
                 ELSE FirstNotOf(position + 1, IdentifierChars)
       IN  IF to \in {Unclosed, Size} THEN NoToken
           ELSE Add(IF IsKeyword(position, to) THEN "KEYWORD" ELSE "IDENTIFIER", to)

AcceptNumber ==
    /\ pc = "token"
    /\ Tried
    /\ At(position) \in Digits \cup Foreign
    /\ LET to == FirstNotOf(position + 1, NumberChars)
       IN  IF to = Size THEN NoToken
           ELSE Add(IF \E i \in position + 1 .. to - 1 : At(i) = "." THEN "REAL" ELSE "INTEGER", to)

\* error("Unknown token")
UnknownToken ==
    /\ pc = "token"
    /\ ~IsString
    /\ ~IsSpecial
    /\ IsTick => position + 2 < Size /\ ~Between
    /\ At(position) \notin Letters \cup Digits \cup {"\\"}
    /\ Stay
    /\ pc' = "stop"
    /\ status' = "rejected"
    /\ UNCHANGED <<source, tokens>>

Done == pc = "stop" /\ UNCHANGED vars

Next ==
    \/ SkipWhiteSpace \/ SkipComment
    \/ AcceptString \/ AcceptCharacter \/ AcceptSpecialCharacter
    \/ AcceptIdentifier \/ AcceptNumber \/ UnknownToken
    \/ Done

Spec == Init /\ [][Next]_vars

---------------------------------------------------------------------------
(* Properties.                                                             *)

\* Where the last token ends.
Reached == IF tokens = <<>> THEN 0 ELSE tokens[Len(tokens)].to

\* A character that is white space, or in a comment that starts at or after
\* the position from.
IsBlankFrom(from, k) ==
    \/ At(k) \in WhiteSpace
    \/ \E c \in from .. k :
           /\ c + 1 < Size
           /\ At(c) = CommentOf[source.language]
           /\ At(c + 1) = CommentOf[source.language]
           /\ \A i \in c .. k - 1 : At(i) # "\n"

\* Nothing is lost between tokens and nothing is read twice: the tokens are in
\* order, not empty, and only white space and comments stand between them and
\* before the position (add and skipWhiteSpaceAndComments).
TokensCoverTheText ==
    LET start(i) == IF i = 1 THEN 0 ELSE tokens[i - 1].to
    IN  /\ \A i \in 1 .. Len(tokens) :
               /\ start(i) <= tokens[i].from
               /\ tokens[i].from < tokens[i].to
               /\ tokens[i].to <= Size
               /\ \A k \in start(i) .. tokens[i].from - 1 : IsBlankFrom(start(i), k)
        /\ \A k \in Reached .. position - 1 : IsBlankFrom(Reached, k)
        /\ status = "reading" => Reached <= position

\* The end of a file is its end: when a text whose last character is a
\* newline was read to the end, every character behind the last token is
\* blank, or the rest starts with a string or an extended identifier that is
\* not closed, or is a tick before the newline (the catch of TextEof in
\* tokenize).
EndedFilesAreRead ==
    (status = "ended" /\ Size > 0 /\ At(Size - 1) = "\n") =>
        \E k \in Reached .. Size :
            /\ \A j \in Reached .. k - 1 : IsBlankFrom(Reached, j)
            /\ \/ k = Size
               \/ At(k) \in {"\"", "\\"}
               \/ At(k) \in Prefixes /\ At(k + 1) = "\""
               \/ At(k) = "'" /\ k + 2 >= Size

\* Every token is a whole word of its kind: names and numbers go on as long as
\* they can, every quote in a string is doubled, a character literal has two
\* ticks around one character (the five accept functions, in the order in
\* which they are tried).
IsRun(q, a, b, from, to) ==
    /\ a < b
    /\ \A i \in a .. b - 1 : At(i) = q
    /\ a = from \/ At(a - 1) # q
    /\ b = to \/ At(b) # q

RunsOf(q, from, to) ==
    {r \in (from .. to - 1) \X (from .. to) : IsRun(q, r[1], r[2], from, to)}

Closed(q, open, to) ==
    /\ open < to - 1
    /\ At(open) = q
    /\ At(to - 1) = q
    /\ At(to) # q
    /\ \A r \in RunsOf(q, open + 1, to - 1) : (r[2] - r[1]) % 2 = 0

TokensAreWhole ==
    \A i \in 1 .. Len(tokens) :
        LET t == tokens[i]
            first == At(t.from)
        IN  CASE t.type = "STRING" ->
                    /\ t.to < Size
                    /\ Closed("\"", IF first = "\"" THEN t.from ELSE t.from + 1, t.to)
              [] t.type = "CHARACTER" -> t.to = t.from + 3 /\ At(t.from) = "'" /\ At(t.from + 2) = "'"
              [] t.type = "SPECIAL" -> t.to = t.from + 1 /\ first \notin Letters \cup Digits
              [] t.type \in {"KEYWORD", "IDENTIFIER"} ->
                    /\ t.to < Size
                    /\ IF first = "\\" THEN Closed("\\", t.from, t.to)
                       ELSE /\ \A k \in t.from + 1 .. t.to - 1 : At(k) \in IdentifierChars
                            /\ At(t.to) \notin IdentifierChars
              [] t.type \in {"INTEGER", "REAL"} ->
                    /\ t.to < Size
                    /\ \A k \in t.from + 1 .. t.to - 1 : At(k) \in NumberChars
                    /\ At(t.to) \notin NumberChars

\* An error report names the right line: lineNumber counts the newlines before
\* the position, and lineStart is behind the last of them
\* (Text::incrementPosition, whatever is skipped or read at once).
LinesAreCounted ==
    /\ lineNumber = Cardinality(Newlines(0, position))
    /\ lineStart <= position
    /\ Newlines(lineStart, position) = {}
    /\ lineStart > 0 => At(lineStart - 1) = "\n"

=============================================================================
