------------------------------ MODULE Derivations ------------------------------
(***************************************************************************)
(* What the rules of a grammar mean, without a stack, and without a parser *)
(* that runs: how a parse function comes out, from what comes out of the   *)
(* functions it calls.  Derives is any relation that these rules close;    *)
(* the least one is the meaning of the grammar, which ParserReference      *)
(* computes.  In it a parse function starts where its caller is, and has   *)
(* no part in what else its caller has read, found or remembers.           *)
(***************************************************************************)
EXTENDS Parser

\* With so many tokens of the file consumed, the parse function comes out so.
CONSTANT Derives(_, _, _, _)

---------------------------------------------------------------------------
(* How a parse function comes out: it returns, with the tokens consumed    *)
(* and the sub-rules found by then, it throws TokenNotAccepted, or it      *)
(* throws what leaves DesignFile::parse.                                   *)

Returns(to, found) == <<"returns", to, found>>
Rejects            == <<"rejects">>
Throws(how)        == <<"throws", how>>

\* T::parse before its first instruction.
Begun(f, rule) ==
    [rule |-> rule, code |-> Rules[f.language][rule], label |-> "", found |-> <<>>]

\* optional<T> finds a T that has read something, and nothing else.
Finds(f, rule, at, node) ==
    /\ at < node.to
    /\ node = Node(rule, at, node.to, node.found)
    /\ Derives(f, Begun(f, rule), at, Returns(node.to, node.found))

Lacks(f, rule, at) ==
    \/ Derives(f, Begun(f, rule), at, Rejects)
    \/ \E found : Derives(f, Begun(f, rule), at, Returns(at, found))

---------------------------------------------------------------------------
(* Instructions that call nothing.                                         *)

\* The tokens behind the first "at" ones, up to "to", are what w asks for.
Spelt(ts, w, at, to) ==
    \/ /\ w.by = "keyword"
       /\ to = at + 1
       /\ ts[to] = [type |-> "KEYWORD", text |-> w.of[1]]
    \/ /\ w.by = "type"
       /\ to = at + 1
       /\ ts[to].type = w.of[1]
    \/ /\ w.by = "special"
       /\ to = at + Len(w.of)
       /\ \A i \in 1 .. Len(w.of) : ts[at + i] = [type |-> "SPECIAL", text |-> w.of[i]]

Beyond(ts, w, at) == w.by \in {"keyword", "type"} /\ at >= Len(ts)

\* A look ahead matches tokens of a type, and otherwise special characters.
Seen(ts, w, at) ==
    IF w.by = "type" THEN ts[at + 1].type = w.of[1]
    ELSE /\ at + Len(w.of) <= Len(ts)
         /\ \A i \in 1 .. Len(w.of) : ts[at + i] = [type |-> "SPECIAL", text |-> w.of[i]]

At(t, ops) == t.code # <<>> /\ Head(t.code).op \in ops

\* The parse function t goes on as u.
Advances(f, t, at, u, to) ==
    LET ts == f.tokens
        w  == Head(t.code).what
        ahead == at + Head(t.code).skip
    IN  \/ /\ At(t, {"test", "while"}) /\ w.by # "rule"
           /\ to \in at + 1 .. Len(ts) /\ Spelt(ts, w, at, to)
           /\ u = Continue(t, TRUE)
        \/ /\ At(t, {"test", "while"}) /\ w.by # "rule" /\ ~Beyond(ts, w, at)
           /\ to = at /\ \A k \in at + 1 .. Len(ts) : ~Spelt(ts, w, at, k)
           /\ u = Continue(t, FALSE)
        \/ /\ At(t, {"ahead"}) /\ ~Beyond(ts, w, ahead)
           /\ to = at /\ u = Continue(t, Seen(ts, w, ahead))
        \/ /\ At(t, {"label"})
           /\ to = at /\ u = [t EXCEPT !.code = Tail(@), !.label = ts[at].text]
        \/ /\ At(t, {"same"}) /\ t.label = ts[at].text
           /\ to = at /\ u = [t EXCEPT !.code = Tail(@)]
        \/ /\ At(t, {"here"}) /\ at # Len(ts)
           /\ to = at /\ u = [t EXCEPT !.code = Tail(@)]
        \/ /\ At(t, {"again"})
           /\ to = at /\ u = [t EXCEPT !.code = Rules[f.language][t.rule]]

\* What leaves DesignFile::parse.
LeavesAt(f, t, at, how) ==
    LET ts == f.tokens
        w  == Head(t.code).what
    IN  \/ /\ \/ At(t, {"fail"})
              \/ At(t, {"same"}) /\ t.label # "" /\ t.label # ts[at].text
           /\ how = IF at = Len(ts) THEN "ended" ELSE "rejected"
        \/ /\ \/ At(t, {"test", "while"}) /\ Beyond(ts, w, at)
              \/ At(t, {"ahead"}) /\ Beyond(ts, w, at + Head(t.code).skip)
              \/ At(t, {"here"}) /\ at = Len(ts)
           /\ how = "ended"
        \/ /\ \/ At(t, {"crash"})
              \/ At(t, {"same"}) /\ t.label = ""
           /\ how = "crashed"

---------------------------------------------------------------------------
(* The rules.                                                              *)

CallsRule(t, rule) ==
    At(t, {"test", "while"}) /\ Head(t.code).what.by = "rule" /\ Head(t.code).what.of[1] = rule

\* T::parse without the calls it makes.
ByItself(f, t, at) ==
    /\ t.code = <<>> => Derives(f, t, at, Returns(at, t.found))
    /\ At(t, {"reject"}) => Derives(f, t, at, Rejects)
    /\ \A how : LeavesAt(f, t, at, how) => Derives(f, t, at, Throws(how))
    /\ \A u, to, outcome :
           Advances(f, t, at, u, to) /\ Derives(f, u, to, outcome) => Derives(f, t, at, outcome)

\* A call of optional<T>: T is found, or it is missing, or it throws.
ByCalling(f, t, at) ==
    \A rule :
        CallsRule(t, rule) =>
            /\ \A node, outcome :
                   /\ Finds(f, rule, at, node)
                   /\ Derives(f, Continue([t EXCEPT !.found = Append(@, node)], TRUE), node.to, outcome)
                   => Derives(f, t, at, outcome)
            /\ \A outcome :
                   Lacks(f, rule, at) /\ Derives(f, Continue(t, FALSE), at, outcome)
                   => Derives(f, t, at, outcome)
            /\ \A how :
                   Derives(f, Begun(f, rule), at, Throws(how)) => Derives(f, t, at, Throws(how))

ClosedByRules == \A f, t, at : ByItself(f, t, at) /\ ByCalling(f, t, at)

---------------------------------------------------------------------------
\* The units that are delivered are phrases of the grammar, each of them where
\* the one before ends and with the phrases found in it; when the parse is over
\* what comes next is none, or is what threw the exception it ended with
\* (Scanner::optional, Scanner::expect and DesignFile::parse).
ParsesAsDerived ==
    /\ \A i \in 1 .. Len(units) :
           Finds(file, "DesignUnit", IF i = 1 THEN 0 ELSE units[i - 1].to, units[i])
    /\ Finished =>
           \/ /\ Lacks(file, "DesignUnit", UnitsEnd)
              /\ status = IF UnitsEnd = Len(tokens) THEN "ended" ELSE "rejected"
           \/ Derives(file, Begun(file, "DesignUnit"), UnitsEnd, Throws(status))

=============================================================================
