------------------------------- MODULE MCParser -------------------------------
(***************************************************************************)
(* Parser on files: tests of src/testsuite word by word, two files that    *)
(* use every rule of the grammar, and what is left of files that are cut   *)
(* short or miss a word.                                                   *)
(***************************************************************************)
EXTENDS Descent, Phrases, FiniteSetsExt

Vhdl     == INSTANCE VhdlGrammar
Verilog  == INSTANCE VerilogGrammar
Scanner  == INSTANCE VhdlScanner

MCRules  == [vhdl |-> Vhdl!Grammar, verilog |-> Verilog!Grammar]

---------------------------------------------------------------------------
(* Files are given as their words; what matters of a number, a string or a *)
(* character is its kind.                                                  *)

VerilogKeywords == {"module", "endmodule"}

KindOf(language, word) ==
    CASE language = "vhdl" /\ word \in Scanner!Keywords -> "KEYWORD"
      [] language = "verilog" /\ word \in VerilogKeywords -> "KEYWORD"
      [] word \in Scanner!SpecialCharacters             -> "SPECIAL"
      [] word \in {"0", "1", "3"}                       -> "INTEGER"
      [] word = "1.0"                                   -> "REAL"
      [] word = "STR"                                   -> "STRING"
      [] word = "CHAR"                                  -> "CHARACTER"
      [] OTHER                                          -> "IDENTIFIER"

File(language, words) ==
    [language |-> language,
     tokens |-> [i \in DOMAIN words |-> [type |-> KindOf(language, words[i]), text |-> words[i]]]]

---------------------------------------------------------------------------
(* src/testsuite: failure/vhdl and success/vhdl.                           *)

FirstTokenError ==
    <<"endtity", "test", "is", "end", "entity", "test", ";", "architecture",
      "rtl", "of", "test", "is", "begin", "end", "architecture", "rtl", ";">>

TokenError ==
    <<"entity", "test", "is", "end", "entfity", "test", ";">>

NameMismatch ==
    <<"entity", "test", "is", "end", "entity", "badname", ";">>

RangeMismatch ==
    <<"entity", "test", "is", "end", "entity", "test", ";", "architecture",
      "rtl", "of", "test", "is", "type", "range_t", "is", "range", "0", "to",
      "1.0", ";", "begin", "end", "architecture", "rtl", ";">>

UseClauses ==
    <<"package", "test_pkg", "is", "constant", "c", ":", "integer", ":", "=",
      "2", ";", "end", "package", "test_pkg", ";", "use", "work", ".",
      "test_pkg", ".", "all", ";", "entity", "test", "is", "end", "entity",
      "test", ";", "architecture", "rtl", "of", "test", "is", "begin", "end",
      "architecture", "rtl", ";">>

Procedures ==
    <<"package", "env", "is", "procedure", "stop", "(", "status", ":", "integer",
      ")", ";", "end", "package", "env", ";", "package", "body", "env", "is",
      "procedure", "stop", "(", "status", ":", "integer", ")", "is", "begin",
      "end", ";", "end", "package", "body", "env", ";">>

BlockStatements ==
    <<"entity", "test", "is", "end", "entity", "test", ";", "library", "std",
      ";", "use", "std", ".", "env", ".", "finish", ";", "architecture", "rtl",
      "of", "test", "is", "begin", "test_b", ":", "block", "is", "signal", "x",
      ":", "integer", ";", "begin", "process", "is", "begin", "x", "<", "=", "1",
      ";", "wait", "for", "1", "ns", ";", "report", "STR", "&", "integer", "'",
      "image", "(", "x", ")", "severity", "note", ";", "wait", "for", "1", "ns",
      ";", "finish", "(", "0", ")", ";", "end", "process", ";", "end", "block",
      "test_b", ";", "end", "architecture", "rtl", ";">>

GenerateLoop ==
    <<"entity", "test", "is", "end", "entity", "test", ";", "library", "std",
      ";", "use", "std", ".", "env", ".", "finish", ";", "architecture", "rtl",
      "of", "test", "is", "begin", "generate_loop", ":", "for", "x", "in", "0",
      "to", "3", "generate", "process", "is", "begin", "for", "i", "in", "0",
      "to", "3", "loop", "report", "STR", "&", "integer", "'", "image", "(", "x",
      ")", "&", "STR", "&", "integer", "'", "image", "(", "i", ")", "severity",
      "note", ";", "wait", "for", "1", "ns", ";", "end", "loop", ";", "finish",
      "(", "0", ")", ";", "end", "process", ";", "end", "generate",
      "generate_loop", ";", "end", "architecture", "rtl", ";">>

---------------------------------------------------------------------------
(* The rest of the grammar; and the end of a loop with a label it lacks.   *)

Declarations ==
    <<"package", "p", "is", "generic", "(", "n", ":", "t", ":", "=", "1", ")",
      ";", "type", "a", "is", "access", "b", ";", "type", "f", "is", "file",
      "of", "b", ";", "type", "r", "is", "record", "a", ",", "b", ":", "t", "(",
      "0", "to", "1", ")", ";", "end", "record", "r", ";", "type", "u", "is",
      "range", "0", "to", "1", "units", "fs", ";", "ps", "=", "1", "fs", ";",
      "end", "units", ";", "type", "e", "is", "(", "CHAR", ",", "x", ")", ";",
      "type", "m", "is", "array", "(", "e", ",", "t", "range", "<", ">", ",",
      "3", "downto", "0", ")", "of", "t", ";", "subtype", "s", "is", "resolve",
      "t", "range", "x", "'", "range", ";", "attribute", "foreign", ":", "t",
      ";", "attribute", "foreign", "of", "STR", "[", "a", ",", "b", "return",
      "c", "]", ":", "function", "is", "STR", ";", "alias", "n", ":", "t", "is",
      "m", "[", "a", "]", ";", "file", "f", ":", "t", "open", "w", "is", "STR",
      ";", "signal", "a", ",", "b", ":", "t", ";", "function", "STR", "(",
      "signal", "a", ":", "in", "t", ";", "b", ":", "t", ")", "return", "t",
      "is", "variable", "v", ":", "t", ";", "begin", "return", "-", "v", ";",
      "end", "function", "STR", ";", "procedure", "q", "(", "constant", "a", ":",
      "t", ")", ";", "end", "package", "p", ";", "package", "q", "is", "new",
      "l", ".", "p", "generic", "map", "(", "n", "=", ">", "1", ")", ";",
      "package", "body", "p", "is", "end", "body", "p", ";">>

Statements ==
    <<"architecture", "rtl", "of", "e", "is", "begin", "s", ":", "a", "<", "=",
      "b", "when", "c", "else", "d", ";", "i", ":", "entity", "l", ".", "e", "(",
      "rtl", ")", "generic", "map", "(", "1", ")", "port", "map", "(", "others",
      "=", ">", "x", ")", ";", "g", ":", "for", "i", "in", "0", "to", "3",
      "generate", "signal", "y", ":", "t", ";", "begin", "end", "generate", "g",
      ";", "process", "(", "all", ")", "begin", "v", ".", "f", "(", "1", "to",
      "3", ")", ":", "=", "new", "(", "0", "|", "1", "=", ">", "x", ",",
      "others", "=", ">", "not", "y", ")", ";", "assert", "(", "a", "=", "b",
      ")", "report", "STR", "&", "t", "'", "image", "(", "1.0", ")", "severity",
      "note", ";", "c", ":", "case", "x", "is", "when", "1", "|", "CHAR", "=",
      ">", "wait", "for", "1", "fs", ";", "when", "others", "=", ">", "end",
      "case", "c", ";", "l", ":", "loop", "exit", "l", "when", "a", "/", "=",
      "b", ";", "next", ";", "end", "loop", "l", ";", "while", "a", "loop",
      "return", ";", "end", "loop", ";", "if", "a", "then", "elsif", "b", "then",
      "f", "(", "a", ",", "n", "=", ">", "b", ")", ";", "else", "end", "if", ";",
      "for", "i", "in", "a", "'", "reverse_range", "loop", "end", "loop", ";",
      "end", "process", ";", "end", "architecture", "rtl", ";">>

Condition ==
    <<"architecture", "rtl", "of", "e", "is", "begin", "process", "begin", "if",
      "(", "(", "a", ")", "=", "b", ")", "then", "end", "if", ";", "end",
      "process", ";", "end", "architecture", "rtl", ";">>

Ports ==
    <<"library", "l", ";", "entity", "e", "is", "generic", "(", "constant", "n",
      ":", "t", ")", ";", "port", "(", "a", ",", "b", ":", "in", "t", ";",
      "signal", "c", ":", "out", "t", ":", "=", "0", ")", ";", "end", "e", ";">>

UnknownLabel ==
    <<"package", "p", "is", "procedure", "p", "is", "begin", "loop", "end",
      "loop", "l", ";", "end", "p", ";", "end", "p", ";">>

VerilogModule ==
    <<"module", "m", "(", "a", ",", "b", ")", ";", "endmodule">>

---------------------------------------------------------------------------
(* Words that are no longer in the file.                                   *)

CutAfter(words, i) == SubSeq(words, 1, i)
Without(words, i)  == SubSeq(words, 1, i - 1) \o SubSeq(words, i + 1, Len(words))

\* How the parse of the tests ends, and how many units they have: the tests
\* of success run to the end, of failure those that "analyse" rejects.
Verdicts ==
    { <<"vhdl", FirstTokenError, "rejected", 0>>, <<"vhdl", TokenError, "rejected", 0>>,
      <<"vhdl", NameMismatch, "rejected", 0>>, <<"vhdl", RangeMismatch, "ended", 2>>,
      <<"vhdl", UseClauses, "ended", 4>>, <<"vhdl", Procedures, "ended", 2>>,
      <<"vhdl", BlockStatements, "ended", 3>>, <<"vhdl", GenerateLoop, "ended", 3>>,
      <<"vhdl", Declarations, "ended", 3>>, <<"vhdl", Statements, "ended", 1>>,
      <<"vhdl", Condition, "ended", 1>>, <<"vhdl", Ports, "ended", 2>>,
      <<"vhdl", UnknownLabel, "crashed", 0>>, <<"verilog", VerilogModule, "ended", 1>> }

Whole == { File(v[1], v[2]) : v \in Verdicts }

MCFiles ==
    Whole
    \cup { File("vhdl", CutAfter(w, i)) : <<w, i>> \in
            ({Ports} \X (1 .. Len(Ports))) \cup ({Declarations, Statements} \X {20 * n : n \in 1 .. 8})
            \cup ({UseClauses} \X (1 .. Len(UseClauses))) }
    \cup { File("vhdl", Without(w, i)) : <<w, i>> \in
            ({Ports} \X (1 .. Len(Ports))) \cup ({BlockStatements} \X (30 .. Len(BlockStatements)))
            \cup ({Declarations, Statements} \X {15 * n : n \in 1 .. 10}) }
    \cup { File("verilog", CutAfter(VerilogModule, i)) : i \in 0 .. 8 }
    \cup { File("verilog", Without(VerilogModule, i)) : i \in 1 .. 9 }

---------------------------------------------------------------------------
(* Neither grammar is left recursive, whatever the file.                   *)

RECURSIVE Closure(_, _, _)
Closure(g, known, new) ==
    IF new = {} THEN known
    ELSE LET all  == known \cup new
             next == UNION { After(g, p) : p \in { q \in new : q.code # <<>> } }
         IN  Closure(g, all, next \ all)

MCPoints ==
    [l \in DOMAIN MCRules |->
        Closure(MCRules[l], {}, { Start(MCRules[l], rule) : rule \in DOMAIN MCRules[l] })]

\* What a rule may call before it has read a token.
CalledFirst(l, rule) ==
    { Head(p.code).what.of[1] : p \in
        { q \in MCPoints[l] : /\ q.rule = rule /\ ~q.read /\ q.code # <<>>
                              /\ Head(q.code).op \in {"test", "while"}
                              /\ Head(q.code).what.by = "rule" } }

MCRank ==
    [l \in DOMAIN MCRules |->
        LET rank[rule \in DOMAIN MCRules[l]] ==
                Max({0} \cup { rank[callee] + 1 : callee \in CalledFirst(l, rule) })
        IN  [rule \in DOMAIN MCRules[l] |-> rank[rule]]]

ASSUME GrammarsDescend == NoLeftRecursion(MCPoints, MCRank)

---------------------------------------------------------------------------
(* The grammar of VHDL closes its units, whatever the file.                *)

MCPromise ==
    [rule \in DOMAIN Vhdl!Grammar |->
        IF rule \in {"Entity", "Architecture", "Package"} THEN {"closed", "ends"}
        ELSE IF rule \in {"ContextClause", "LibraryClause", "UseClause", "NewPackageDeclaration"}
             THEN {"closed"}
        ELSE {}]

RECURSIVE Noted(_, _)
Noted(known, new) ==
    IF new = {} THEN known
    ELSE LET all  == known \cup new
             next == UNION { Later(Vhdl!Grammar, MCPromise, n) : n \in { m \in new : m.code # <<>> } }
         IN  Noted(all, next \ all)

MCNotes == Noted({}, { Begin(Vhdl!Grammar, rule) : rule \in DOMAIN Vhdl!Grammar })

ASSUME GrammarCloses == ClosesUnits(MCRules["vhdl"], MCNotes, MCPromise)

---------------------------------------------------------------------------
(* Properties of the parser of VHDL.                                       *)

Reference == INSTANCE ParserReference WITH Rules <- MCRules

\* The machine computes what the rules mean: the same units, the same phrases
\* in them, and the same end (all functions parse of the grammars, on every
\* file).
MatchesGrammar ==
    Finished => Reference!Meaning(file) = [units |-> units, status |-> status]

\* The tests of the repository end as their place in the test suite says, and
\* a file that parses to the end is read to its last token.
TestsEndAsExpected ==
    Finished =>
    \A v \in Verdicts :
        file = File(v[1], v[2]) =>
            /\ status = v[3]
            /\ Len(units) = v[4]
            /\ status = "ended" => UnitsEnd = Len(tokens)

===============================================================================
