--------------------------- MODULE ParserReference ---------------------------
(***************************************************************************)
(* What the rules of a grammar mean, without a stack: the outcome of a     *)
(* rule at a position as a recursive definition, against which the machine *)
(* of Parser is checked.  An outcome is "ok", "reject" (TokenNotAccepted), *)
(* "error" (SyntaxError), "eof" (TokenEof) or "null" (a NULL is followed). *)
(***************************************************************************)
EXTENDS Integers, Sequences

CONSTANT Rules

LOCAL SpecialAt(toks, pos, chars) ==
    /\ pos + Len(chars) <= Len(toks)
    /\ \A i \in 1 .. Len(chars) : toks[pos + i] = [type |-> "SPECIAL", text |-> chars[i]]

LOCAL Outcome(how, found, pos, node) == [how |-> how, found |-> found, pos |-> pos, node |-> node]

\* A single token, or several special characters.
LOCAL Terminal(toks, w, pos) ==
    LET size == IF w.by = "special" THEN Len(w.of) ELSE 1
        here == CASE w.by = "special" -> SpecialAt(toks, pos, w.of)
                  [] w.by = "keyword" -> /\ toks[pos + 1].type = "KEYWORD"
                                         /\ toks[pos + 1].text = w.of[1]
                  [] w.by = "type"    -> toks[pos + 1].type = w.of[1]
    IN  IF w.by # "special" /\ pos >= Len(toks)
        THEN Outcome("eof", FALSE, pos, <<>>)
        ELSE Outcome("ok", here, IF here THEN pos + size ELSE pos, <<>>)

RECURSIVE Body(_, _, _, _)

\* optional<T>: T is missing when it rejects and when it is empty.
Phrase(f, rule, pos) ==
    LET s == Body(f, rule, Rules[f.language][rule],
                  [how |-> "ok", pos |-> pos, label |-> "", found |-> <<>>])
    IN  CASE s.how = "ok" /\ s.pos > pos ->
                 Outcome("ok", TRUE, s.pos,
                         [rule |-> rule, from |-> pos, to |-> s.pos, found |-> s.found])
          [] s.how = "reject" \/ s.how = "ok" -> Outcome("ok", FALSE, pos, <<>>)
          [] OTHER -> Outcome(s.how, FALSE, s.pos, <<>>)

\* A run of instructions.
Body(f, rule, code, s) ==
    IF code = <<>> \/ s.how # "ok" THEN s
    ELSE
    LET i    == Head(code)
        rest == Tail(code)
        stop(how) == [s EXCEPT !.how = how]
        text == f.tokens[s.pos].text
    IN
    CASE i.op \in {"test", "while"} ->
            LET r == IF i.what.by = "rule" THEN Phrase(f, i.what.of[1], s.pos)
                     ELSE Terminal(f.tokens, i.what, s.pos)
                t == [s EXCEPT !.pos = r.pos,
                               !.found = IF r.found /\ i.what.by = "rule"
                                         THEN Append(@, r.node) ELSE @]
            IN  IF r.how # "ok" THEN [stop(r.how) EXCEPT !.pos = r.pos]
                ELSE IF i.op = "test"
                THEN Body(f, rule, rest, Body(f, rule, IF r.found THEN i.then ELSE i.else, t))
                ELSE IF r.found THEN Body(f, rule, code, Body(f, rule, i.then, t))
                ELSE Body(f, rule, rest, t)
      [] i.op = "ahead" ->
            LET r == Terminal(f.tokens, i.what, s.pos + i.skip)
            IN  IF r.how # "ok" THEN stop(r.how)
                ELSE Body(f, rule, rest, Body(f, rule, IF r.found THEN i.then ELSE i.else, s))
      [] i.op = "label"  -> Body(f, rule, rest, [s EXCEPT !.label = text])
      [] i.op = "same"   -> IF s.label = "" THEN stop("null")
                            ELSE IF s.label # text THEN stop("error")
                            ELSE Body(f, rule, rest, s)
      [] i.op = "here"   -> IF s.pos = Len(f.tokens) THEN stop("eof") ELSE Body(f, rule, rest, s)
      [] i.op = "again"  -> Body(f, rule, Rules[f.language][rule], s)
      [] i.op = "reject" -> stop("reject")
      [] i.op = "fail"   -> stop("error")
      [] i.op = "crash"  -> stop("null")

\* The units of a file and how its parse ends.  An error is the end of the
\* file when no token is left to print.
RECURSIVE UnitsFrom(_, _, _)
UnitsFrom(f, pos, units) ==
    LET r == Phrase(f, "DesignUnit", pos)
    IN  IF r.how = "ok" /\ r.found THEN UnitsFrom(f, r.pos, Append(units, r.node))
        ELSE [units  |-> units,
              status |-> CASE r.how = "eof" -> "ended"
                           [] r.how = "null" -> "crashed"
                           [] OTHER -> IF r.pos = Len(f.tokens) THEN "ended" ELSE "rejected"]

Meaning(f) == UnitsFrom(f, 0, <<>>)

=============================================================================
