-------------------------------- MODULE Parser --------------------------------
(***************************************************************************)
(* The recursive descent of hdlc: DesignFile::parse reads one design unit  *)
(* after the other (src/src/parser/design_file.cpp), and every function    *)
(* T::parse of a grammar runs under Scanner::optional<T>, which remembers  *)
(* the position in the token list, goes back to it when T throws           *)
(* TokenNotAccepted and reports a T that read nothing as missing           *)
(* (src/src/ast/scanner.hpp).  Three exceptions leave a parse function:    *)
(* TokenNotAccepted goes to the nearest optional<T>; SyntaxError, thrown   *)
(* by error(), goes to main; TokenEof, thrown by a look past the last      *)
(* token, goes to DesignFile::parse, which takes it for the end of the     *)
(* file wherever it was thrown.                                            *)
(***************************************************************************)
EXTENDS Integers, Sequences

CONSTANTS
    Files,      \* the files: [language, tokens], a token is [type, text]
    Rules       \* language -> rule -> instructions (see Combinators)

\* Token lists are sequences; nothing is assumed of the rules.
ASSUME FilesAssumption == \A f \in Files : f.tokens \in Seq([type : STRING, text : STRING])

VARIABLES
    file,       \* the file being parsed
    position,   \* tokenInfo.position: the number of tokens consumed
    saved,      \* the local "position" of every optional<T> in progress
    frames,     \* the parse functions in progress, beside saved
    units,      \* designUnits, as the tokens they span
    status      \* "parsing", or how DesignFile::parse was left

vars == <<file, position, saved, frames, units, status>>

tokens == file.tokens
Depth  == Len(saved)
AtEnd  == position = Len(tokens)

\* What runs inside optional<T>: the rest of T::parse, the name T has read
\* to compare with, and the sub-rules T has found.
Frame(rule) ==
    [rule |-> rule, code |-> Rules[file.language][rule], label |-> "", found |-> <<>>]

Top      == frames[Depth]
Running  == status = "parsing" /\ Depth > 0
Fetch(op) == Running /\ Top.code # <<>> /\ Head(Top.code).op = op
Now      == Head(Top.code)

---------------------------------------------------------------------------
(* Tokens.                                                                 *)

\* The tokens after the position up to "to" are what w asks for.
Reads(w, to) ==
    \/ /\ w.by = "keyword"
       /\ to = position + 1
       /\ tokens[to] = [type |-> "KEYWORD", text |-> w.of[1]]
    \/ /\ w.by = "type"
       /\ to = position + 1
       /\ tokens[to].type = w.of[1]
    \/ /\ w.by = "special"
       /\ to = position + Len(w.of)
       /\ \A i \in 1 .. Len(w.of) :
              tokens[position + i] = [type |-> "SPECIAL", text |-> w.of[i]]

\* tokenLookAhead throws TokenEof past the last token, and only the match of
\* special characters catches it.
PastEnd(w, skip) == w.by \in {"keyword", "type"} /\ position + skip >= Len(tokens)

---------------------------------------------------------------------------
(* Where a parse function goes on after a test.                            *)

\* Faulty forms: a while whose body runs at most once, and one that does not
\* stop.
BranchOnce(i, rest, found) == (IF found THEN i.then ELSE i.else) \o rest

BranchForever(i, rest, found) ==
    IF i.op = "while" THEN (IF found THEN i.then ELSE <<>>) \o <<i>> \o rest
    ELSE (IF found THEN i.then ELSE i.else) \o rest

Branch(i, rest, found) ==
    CASE i.op = "while" /\ found  -> i.then \o <<i>> \o rest
      [] i.op = "while" /\ ~found -> rest
      [] i.op # "while" /\ found  -> i.then \o rest
      [] OTHER                    -> i.else \o rest

Continue(frame, found) ==
    [frame EXCEPT !.code = Branch(Head(@), Tail(@), found)]

WithTop(frame) == [frames EXCEPT ![Depth] = frame]

\* The object that optional<T> returns: the rule and the tokens it spans.
Node(rule, from, to, found) == [rule |-> rule, from |-> from, to |-> to, found |-> found]

---------------------------------------------------------------------------
Init ==
    /\ file \in Files
    /\ position = 0
    /\ saved = <<>>
    /\ frames = <<>>
    /\ units = <<>>
    /\ status = "parsing"

\* designUnits.add(scanner.expect<DesignUnit, ...>())
NextUnit ==
    /\ status = "parsing"
    /\ Depth = 0
    /\ saved' = <<position>>
    /\ frames' = <<Frame("DesignUnit")>>
    /\ UNCHANGED <<file, position, units, status>>

\* Faulty form: special characters that match are not read.
ConsumeUnread ==
    /\ Fetch("test") \/ Fetch("while")
    /\ Now.what.by # "rule"
    /\ \E to \in position + 1 .. Len(tokens) :
           /\ Reads(Now.what, to)
           /\ position' = IF Now.what.by = "special" THEN position ELSE to
    /\ frames' = WithTop(Continue(Top, TRUE))
    /\ UNCHANGED <<file, saved, units, status>>

\* scanner->optional of a keyword, a kind of token or special characters.
Consume ==
    /\ Fetch("test") \/ Fetch("while")
    /\ Now.what.by # "rule"
    /\ \E to \in position + 1 .. Len(tokens) :
           /\ Reads(Now.what, to)
           /\ position' = to
    /\ frames' = WithTop(Continue(Top, TRUE))
    /\ UNCHANGED <<file, saved, units, status>>

Miss ==
    /\ Fetch("test") \/ Fetch("while")
    /\ Now.what.by # "rule"
    /\ ~PastEnd(Now.what, 0)
    /\ \A to \in position + 1 .. Len(tokens) : ~Reads(Now.what, to)
    /\ frames' = WithTop(Continue(Top, FALSE))
    /\ UNCHANGED <<file, position, saved, units, status>>

\* scanner->lookAhead, LookAhead and match: nothing is consumed.
Look ==
    /\ Fetch("ahead")
    /\ ~PastEnd(Now.what, Now.skip)
    /\ LET ahead == position + Now.skip
           seen  == IF Now.what.by = "type"
                    THEN tokens[ahead + 1].type = Now.what.of[1]
                    ELSE /\ ahead + Len(Now.what.of) <= Len(tokens)
                         /\ \A i \in 1 .. Len(Now.what.of) :
                                tokens[ahead + i] = [type |-> "SPECIAL", text |-> Now.what.of[i]]
       IN  frames' = WithTop(Continue(Top, seen))
    /\ UNCHANGED <<file, position, saved, units, status>>

\* The text of the token just read is kept, or compared with the one kept
\* (without regard to case: equal names are one text here).  A parse
\* function without a label compares with NULL.
KeepLabel ==
    /\ Fetch("label")
    /\ frames' = WithTop([Top EXCEPT !.code = Tail(@), !.label = tokens[position].text])
    /\ UNCHANGED <<file, position, saved, units, status>>

SameLabel ==
    /\ Fetch("same")
    /\ Top.label = tokens[position].text
    /\ frames' = WithTop([Top EXCEPT !.code = Tail(@)])
    /\ UNCHANGED <<file, position, saved, units, status>>

Restart ==
    /\ Fetch("again")
    /\ frames' = WithTop([Top EXCEPT !.code = Rules[file.language][Top.rule]])
    /\ UNCHANGED <<file, position, saved, units, status>>

PositionKnown ==
    /\ Fetch("here")
    /\ ~AtEnd
    /\ frames' = WithTop([Top EXCEPT !.code = Tail(@)])
    /\ UNCHANGED <<file, position, saved, units, status>>

---------------------------------------------------------------------------
(* optional<T>.                                                            *)

\* Faulty form: the position is not remembered.
CallUnsaved ==
    /\ Fetch("test") \/ Fetch("while")
    /\ Now.what.by = "rule"
    /\ frames' = Append(frames, Frame(Now.what.of[1]))
    /\ UNCHANGED <<file, position, saved, units, status>>

Call ==
    /\ Fetch("test") \/ Fetch("while")
    /\ Now.what.by = "rule"
    /\ saved' = Append(saved, position)
    /\ frames' = Append(frames, Frame(Now.what.of[1]))
    /\ UNCHANGED <<file, position, units, status>>

\* The caller learns whether T was found; the caller of the first rule is
\* expect<DesignUnit>, for which a unit that is missing is an error.
Leave(found, node) ==
    /\ saved' = SubSeq(saved, 1, Depth - 1)
    /\ IF Depth > 1
       THEN LET caller == frames[Depth - 1]
                after  == Continue(IF found THEN [caller EXCEPT !.found = Append(@, node)]
                                            ELSE caller, found)
            IN  /\ frames' = [SubSeq(frames, 1, Depth - 1) EXCEPT ![Depth - 1] = after]
                /\ UNCHANGED <<units, status>>
       ELSE /\ frames' = <<>>
            /\ units' = IF found THEN Append(units, node) ELSE units
            /\ status' = IF found THEN status
                         ELSE IF position' = Len(tokens) THEN "ended" ELSE "rejected"

\* Faulty form: a T that read nothing is found.
ReturnEmpty ==
    /\ Running
    /\ Top.code = <<>>
    /\ position' = position
    /\ Leave(TRUE, Node(Top.rule, saved[Depth], position, Top.found))
    /\ UNCHANGED file

\* T::parse returned: T was found if it consumed a token.
Return ==
    /\ Running
    /\ Top.code = <<>>
    /\ position' = position
    /\ Leave(position > saved[Depth], Node(Top.rule, saved[Depth], position, Top.found))
    /\ UNCHANGED file

\* Faulty forms: what T has read stays read; the parser goes back to the
\* start of the design unit.
GoBackNowhere ==
    /\ Fetch("reject")
    /\ position' = position
    /\ Leave(FALSE, <<>>)
    /\ UNCHANGED file

GoBackToUnit ==
    /\ Fetch("reject")
    /\ position' = saved[1]
    /\ Leave(FALSE, <<>>)
    /\ UNCHANGED file

\* T::parse threw TokenNotAccepted.
GoBack ==
    /\ Fetch("reject")
    /\ position' = saved[Depth]
    /\ Leave(FALSE, <<>>)
    /\ UNCHANGED file

---------------------------------------------------------------------------
(* The ends of DesignFile::parse.                                          *)

LeaveParse(how) ==
    /\ status' = how
    /\ UNCHANGED <<file, position, saved, frames, units>>

\* error(): it prints the token at the position first, so that an error at
\* the end of the file becomes the end of the file.
ErrorReport ==
    /\ \/ Fetch("fail")
       \/ Fetch("same") /\ Top.label # "" /\ Top.label # tokens[position].text
    /\ LeaveParse(IF AtEnd THEN "ended" ELSE "rejected")

\* Faulty form: what has been read of the last unit is delivered.
EndOfTokensDelivers ==
    /\ \/ Fetch("test") /\ PastEnd(Now.what, 0)
       \/ Fetch("while") /\ PastEnd(Now.what, 0)
       \/ Fetch("ahead") /\ PastEnd(Now.what, Now.skip)
       \/ Fetch("here") /\ AtEnd
    /\ status' = "ended"
    /\ units' = IF position = saved[1] THEN units
                ELSE Append(units, Node("DesignUnit", saved[1], position, frames[1].found))
    /\ UNCHANGED <<file, position, saved, frames>>

EndOfTokens ==
    /\ \/ Fetch("test") /\ PastEnd(Now.what, 0)
       \/ Fetch("while") /\ PastEnd(Now.what, 0)
       \/ Fetch("ahead") /\ PastEnd(Now.what, Now.skip)
       \/ Fetch("here") /\ AtEnd
    /\ LeaveParse("ended")

FollowNull ==
    /\ \/ Fetch("crash")
       \/ Fetch("same") /\ Top.label = ""
    /\ LeaveParse("crashed")

Done ==
    /\ status # "parsing"
    /\ UNCHANGED vars

Next ==
    \/ NextUnit \/ Consume \/ Miss \/ Look \/ KeepLabel \/ SameLabel \/ Restart
    \/ PositionKnown \/ Call \/ Return \/ GoBack \/ ErrorReport \/ EndOfTokens \/ FollowNull
    \/ Done

Spec == Init /\ [][Next]_vars

\* The parser is sequential: it runs until it is done.
FairSpec == Spec /\ WF_vars(Next)

---------------------------------------------------------------------------
(* Properties.                                                             *)

Finished == status # "parsing"

TypeOK ==
    /\ position \in 0 .. Len(tokens)
    /\ saved \in Seq(0 .. Len(tokens))
    /\ status \in {"parsing", "ended", "rejected", "crashed"}
    /\ Len(frames) = Depth
    /\ \A i \in 1 .. Len(units) : units[i].from \in Nat /\ units[i].to \in Nat

\* The tokens fall into the units delivered, the parts that the calls in
\* progress have read, from the outermost inwards, and the rest: no token is
\* read for two units or skipped between them, whatever was tried and given
\* up before (Scanner::optional and DesignFile::parse).
UnitsEnd == IF units = <<>> THEN 0 ELSE units[Len(units)].to

PositionsNest ==
    /\ \A i \in 1 .. Len(units) : units[i].from < units[i].to
    /\ \A i \in 1 .. Len(units) : units[i].from = IF i = 1 THEN 0 ELSE units[i - 1].to
    /\ \A i \in 2 .. Depth : saved[i - 1] <= saved[i]
    /\ Depth > 0 => saved[1] = UnitsEnd /\ saved[Depth] <= position
    /\ Depth = 0 => position = UnitsEnd

\* No rule is called again at the position where it is already being
\* parsed: the descent of a grammar never runs in a circle without reading
\* a token.
NoCallWithoutProgress ==
    \A i, j \in 1 .. Depth :
        i < j /\ saved[i] = saved[j] => frames[i].rule # frames[j].rule

\* A call of optional<T> is all or nothing: when it is over, either its
\* caller has a T that spans the tokens from the position of the call to
\* the present one, or the position is that of the call and the caller has
\* what it had.
CallIsAtomic ==
    Depth' = Depth - 1 =>
        LET before == IF Depth = 1 THEN units ELSE frames[Depth - 1].found
            after  == IF Depth = 1 THEN units' ELSE frames'[Depth - 1].found
        IN  \/ after = before /\ position' = saved[Depth]
            \/ /\ Len(after) = Len(before) + 1
               /\ after[Len(after)].from = saved[Depth]
               /\ after[Len(after)].to = position'
               /\ position' > saved[Depth]

OptionalIsAtomic == [][CallIsAtomic]_vars

\* The units are delivered as UnitStream promises.
Stream ==
    INSTANCE UnitStream WITH
        size  <- Len(tokens),
        spans <- [i \in 1 .. Len(units) |-> <<units[i].from, units[i].to>>],
        done  <- Finished

ImplementsStream == Stream!Spec

\* Every parse ends: while (list.add(optional<T>())) stops because an empty
\* T is missing, and no rule calls itself without reading.
Terminates == <>Finished

=============================================================================
