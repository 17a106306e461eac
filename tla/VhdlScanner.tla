----------------------------- MODULE VhdlScanner -----------------------------
(***************************************************************************)
(* The words and characters of VHDL (src/src/vhdl/scanner/scanner.hpp).    *)
(***************************************************************************)

Keywords ==
    {"library", "use", "package", "body", "architecture", "of", "is", "begin",
     "end", "entity", "process", "type", "subtype", "access", "new", "array",
     "record", "range", "reverse_range", "to", "downto", "units", "variable",
     "assert", "report", "severity", "if", "then", "elsif", "else", "case",
     "when", "for", "while", "in", "out", "inout", "buffer", "loop", "exit",
     "next", "wait", "signal", "constant", "generate", "block", "function",
     "return", "generic", "port", "map", "attribute", "file", "open", "group",
     "configuration", "component", "procedure", "not", "or", "and", "nor",
     "nand", "xor", "xnor", "mod", "rem", "sll", "srl", "sla", "sra", "rol",
     "ror", "alias", "others", "all"}

SpecialCharacters ==
    {"(", ")", "'", "=", ">", "<", ";", ".", ":", ",", "&", "+", "/", "-", "[", "]", "|", "*"}

=============================================================================
