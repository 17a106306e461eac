------------------------------- MODULE Descent -------------------------------
(***************************************************************************)
(* What a grammar must be like for the recursive descent of Parser not to  *)
(* run in a circle: no rule is left recursive.  That can be seen from the  *)
(* grammar alone, by following each parse function through what it may     *)
(* find and miss, and is the same for every file.                          *)
(***************************************************************************)
EXTENDS Parser

---------------------------------------------------------------------------
(* A point of a parse function is what is left of it, and whether it has   *)
(* read a token: what optional(...) finds is never empty.                  *)

Point(rule, code, read) == [rule |-> rule, code |-> code, read |-> read]

Start(g, rule) == Point(rule, g[rule], FALSE)

\* Where a parse function may be after its next instruction.
After(g, p) ==
    LET i    == Head(p.code)
        rest == Tail(p.code)
    IN  CASE i.op \in {"test", "while"} ->
                 { Point(p.rule, Branch(i, rest, TRUE), TRUE),
                   Point(p.rule, Branch(i, rest, FALSE), p.read) }
          [] i.op = "ahead" ->
                 { Point(p.rule, Branch(i, rest, found), p.read) : found \in BOOLEAN }
          [] i.op \in {"label", "same", "here"} -> { Point(p.rule, rest, p.read) }
          [] i.op = "again" -> { Point(p.rule, g[p.rule], p.read) }
          [] OTHER -> {}

\* The points of a grammar, and a rank for each rule that becomes less with
\* every call before a token is read.
Descends(g, points, rank) ==
    /\ "DesignUnit" \in DOMAIN g
    /\ rank \in [DOMAIN g -> Nat]
    /\ \A rule \in DOMAIN g : Start(g, rule) \in points
    /\ \A p \in points :
           p.code # <<>> =>
               /\ After(g, p) \subseteq points
               /\ Head(p.code).op \in {"test", "while"} /\ Head(p.code).what.by = "rule" =>
                      LET callee == Head(p.code).what.of[1]
                      IN  /\ callee \in DOMAIN g
                          /\ ~p.read => rank[callee] < rank[p.rule]

NoLeftRecursion(points, rank) ==
    \A f \in Files : Descends(Rules[f.language], points[f.language], rank[f.language])

=============================================================================
