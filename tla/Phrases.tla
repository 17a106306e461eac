------------------------------- MODULE Phrases -------------------------------
(***************************************************************************)
(* What a grammar of VHDL must be like for every design unit that Parser   *)
(* delivers to be whole, of a file that is cut short too.  That can be     *)
(* seen from the grammar alone: each parse function is followed through    *)
(* what it may find and miss, and what it has read by then is noted.       *)
(***************************************************************************)
EXTENDS Parser

---------------------------------------------------------------------------
(* What is known of the tokens ts read: that there are some ("read"),      *)
(* that the last one is a semicolon ("closed"), and that one is an "end"   *)
(* or a "new" ("ends").                                                    *)

Closers == {"end", "new"}

Closes(ts, to) == ts[to].text = ";"

Finishes(ts, from, to) ==
    \E k \in from + 1 .. to : ts[k].text \in Closers /\ ts[k].type = "KEYWORD"

Holds(fact, ts, from, to) ==
    \/ fact = "read"   /\ from < to
    \/ fact = "closed" /\ Closes(ts, to)
    \/ fact = "ends"   /\ Finishes(ts, from, to)

\* What a word says of itself, or a rule promises of what it reads.
Says(promise, w) ==
    IF w.by = "rule" THEN promise[w.of[1]]
    ELSE { fact \in {"closed", "ends"} :
             \/ fact = "closed" /\ w.by = "special" /\ w.of = <<";">>
             \/ fact = "ends" /\ w.by = "keyword" /\ w.of[1] \in Closers }

\* The last token is another one after every word.
Learned(promise, w, known) == {"read"} \cup (known \ {"closed"}) \cup Says(promise, w)

---------------------------------------------------------------------------
(* A note on a parse function: what is left of it, what is known of the    *)
(* tokens it has read, and the rule it has found first, if any.            *)

Note(rule, code, known, first) == [rule |-> rule, code |-> code, known |-> known, first |-> first]

Begin(g, rule) == Note(rule, g[rule], {}, {})

First(w, first) == IF w.by = "rule" /\ first = {} THEN {w.of[1]} ELSE first

Later(g, promise, n) ==
    LET i    == Head(n.code)
        rest == Tail(n.code)
    IN  CASE i.op \in {"test", "while"} ->
                 { Note(n.rule, Branch(i, rest, TRUE),
                        Learned(promise, i.what, n.known), First(i.what, n.first)),
                   Note(n.rule, Branch(i, rest, FALSE), n.known, n.first) }
          [] i.op = "ahead" ->
                 { Note(n.rule, Branch(i, rest, found), n.known, n.first) : found \in BOOLEAN }
          [] i.op \in {"label", "same", "here"} -> { Note(n.rule, rest, n.known, n.first) }
          [] i.op = "again" -> { Note(n.rule, g[n.rule], n.known, n.first) }
          [] OTHER -> {}

Complete(n) == n.code = <<>> /\ "read" \in n.known

\* Every rule keeps its promise, and a design unit is closed, and either a
\* context clause or has an "end" or a "new" in it.
ClosesUnits(g, notes, promise) ==
    /\ "DesignUnit" \in DOMAIN g
    /\ \A rule \in DOMAIN g : Begin(g, rule) \in notes
    /\ \A n \in notes :
           n.code # <<>> =>
               /\ Later(g, promise, n) \subseteq notes
               /\ Head(n.code).op \in {"test", "while"} /\ Head(n.code).what.by = "rule" =>
                      Head(n.code).what.of[1] \in DOMAIN g
    /\ \A n \in notes : Complete(n) => promise[n.rule] \subseteq n.known
    /\ \A n \in notes :
           Complete(n) /\ n.rule = "DesignUnit" =>
               "closed" \in n.known /\ ("ends" \in n.known \/ n.first = {"ContextClause"})

---------------------------------------------------------------------------
\* What is delivered of a file that is cut short or misses a word is whole:
\* every unit ends with its semicolon, and a package, an entity or an
\* architecture contains the "end" that closes it or is made of a "new" one
\* (the functions parse of the design units, and DesignFile::parse, which
\* takes the end of the tokens for the end of the file).
UnitsAreWhole ==
    file.language = "vhdl" =>
        \A i \in 1 .. Len(units) :
            /\ Closes(tokens, units[i].to)
            /\ \/ units[i].found[1].rule = "ContextClause"
               \/ Finishes(tokens, units[i].from, units[i].to)

=============================================================================
