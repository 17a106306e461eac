----------------------------- MODULE MCTokenizer -----------------------------
(***************************************************************************)
(* Tokenizer on every short text over the characters that tell the kinds   *)
(* of tokens apart, and on longer texts over the characters of strings and *)
(* comments.                                                               *)
(***************************************************************************)
EXTENDS Tokenizer

MCKeywordsOf ==
    [vhdl    |-> {<<"o", "r">>},
     verilog |-> {<<"m", "o", "d", "u", "l", "e">>}]

TextsUpTo(n, chars) == UNION {[1 .. k -> chars] : k \in 0 .. n}
WithNewline(texts)  == {Append(t, "\n") : t \in texts}

SourcesOf(language, texts) == {[language |-> language, chars |-> t] : t \in texts}

AllKinds == {"o", "R", "1", ".", "e", "'", "\"", "\\", "-", " ", ";", "~", "?", "_"}

Quotes   == TextsUpTo(5, {"x", "\"", " "}) \cup TextsUpTo(4, {"a", "\\", "-", "\""})
Comments == TextsUpTo(5, {"-", "\n", "a"})
Ticks    == TextsUpTo(4, {"'", "a", "(", "\n"})

Slashes  == TextsUpTo(5, {"/", "\n", "a"}) \cup TextsUpTo(3, {"/", " ", "(", "'", "1", "+"})
Module   == {<<"m", "o", "d", "u", "l", "e", ";", "M", "\n">>,
             <<" ", "m", "o", "d", "u", "l", "e", "\n">>}

MCSources ==
    SourcesOf("vhdl", TextsUpTo(3, AllKinds) \cup Comments \cup Ticks
                      \cup WithNewline(TextsUpTo(4, AllKinds) \cup Quotes \cup Comments \cup Ticks))
    \cup SourcesOf("verilog", Slashes \cup Module \cup WithNewline(Slashes))

===============================================================================
