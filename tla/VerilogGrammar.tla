---------------------------- MODULE VerilogGrammar ----------------------------
(***************************************************************************)
(* The grammar of Verilog, src/src/verilog/parser: an empty module.        *)
(***************************************************************************)
EXTENDS Combinators

LOCAL Char(c)     == Sym(<<c>>)

\* A name that is missing is an error here, where the VHDL parser goes back.
SimpleIdentifier == Expect(Kind("IDENTIFIER"))

List(type) == Accept(Rule(type)) \o While(Char(","), Expect(Rule(type)))

Module ==
    Accept(Key("module")) \o Expect(Rule("SimpleIdentifier"))
    \o When(Char("("), Expect(Rule("ListSimpleIdentifier")) \o Expect(Char(")")))
    \o Expect(Char(";")) \o Expect(Key("endmodule"))

\* The result of the alternative is copied, also when it is NULL.
DesignUnit == IfElse(Rule("Module"), <<>>, Crash)

Grammar ==
    [DesignUnit |-> DesignUnit, Module |-> Module, SimpleIdentifier |-> SimpleIdentifier,
     ListSimpleIdentifier |-> List("SimpleIdentifier")]

=============================================================================
