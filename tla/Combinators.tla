----------------------------- MODULE Combinators -----------------------------
(***************************************************************************)
(* The vocabulary of the parsers of hdlc (src/src/ast/scanner.hpp).  A     *)
(* rule of a grammar is the body of a function T::parse: a sequence of     *)
(* instructions over the methods of ast::Scanner.  The rules themselves    *)
(* are in VhdlGrammar and VerilogGrammar, and Parser executes them.        *)
(***************************************************************************)
EXTENDS Naturals, Sequences, SequencesExt

---------------------------------------------------------------------------
(* What a method of the scanner may look for.                              *)

Key(keyword)  == [by |-> "keyword", of |-> <<keyword>>]
Kind(type)    == [by |-> "type", of |-> <<type>>]
\* A string such as ":=" is a run of special characters, one token each.
Sym(chars)    == [by |-> "special", of |-> chars]
Rule(name)    == [by |-> "rule", of |-> <<name>>]

Nothing       == [by |-> "nothing", of |-> <<>>]

---------------------------------------------------------------------------
(* The instructions.  "test" is optional(...): it consumes what it finds.  *)
(* "while" repeats its test as long as it finds something; "ahead" looks   *)
(* skip tokens ahead and consumes nothing.  "reject" throws                *)
(* TokenNotAccepted, "fail" is error(...), "here" is                       *)
(* getCurrentTextPosition(), "label" keeps the identifier just read in the *)
(* object being parsed and "same" compares with it; "again" goes back to   *)
(* the start of the function and "crash" follows a NULL.                   *)

Instruction(op, what, skip, then, else) ==
    [op |-> op, what |-> what, skip |-> skip, then |-> then, else |-> else]

Plain(op)                    == Instruction(op, Nothing, 0, <<>>, <<>>)
Reject                       == <<Plain("reject")>>
Fail                         == <<Plain("fail")>>
Here                         == <<Plain("here")>>
Label                        == <<Plain("label")>>
SameLabel                    == <<Plain("same")>>
Again                        == <<Plain("again")>>
Crash                        == <<Plain("crash")>>

IfElse(what, then, else)     == <<Instruction("test", what, 0, then, else)>>
When(what, then)             == IfElse(what, then, <<>>)
While(what, body)            == <<Instruction("while", what, 0, body, <<>>)>>
Ahead(what, skip, then, else) == <<Instruction("ahead", what, skip, then, else)>>

Optional(what)               == When(what, <<>>)
Accept(what)                 == IfElse(what, <<>>, Reject)
Expect(what)                 == IfElse(what, <<>>, Fail)
\* while (list.add(scanner->optional<T>())) {}
Many(what)                   == While(what, <<>>)
\* do { body } while (scanner->optional(separator)), or body first and then
\* while (scanner->optional(separator)) { body }
Separated(body, separator)   == body \o While(separator, body)

\* (a = optional(A)) || (b = optional(B)) || ...
FirstOf(alternatives, then, else) ==
    FoldRight(LAMBDA what, rest : IfElse(what, then, rest), alternatives, else)

=============================================================================
