--------------------------------- MODULE Kernel ---------------------------------
(***************************************************************************)
(* A generated process at work on the kernel (src/src/kernel): arrays and  *)
(* an alias of one of them, a line and what is written of it               *)
(* (vhdl_access.hpp, std/textio_foreign.cpp), a time, and for loops.  The  *)
(* declarations, statements and loops are those the generator writes       *)
(* (declarations.cpp, sequential.hpp, expression.hpp).                     *)
(***************************************************************************)
EXTENDS Arrays

CONSTANTS
    DESIGNS,        \* processes: their declarations and statements
    LOWEST,         \* bound: how far a loop that runs away is followed
    LONGEST         \* bound: elements of a line, lines written, additions to a time

VARIABLES
    program,        \* the statements of the process
    arrays,         \* its arrays
    alias,          \* its alias: which array, and the range of m_type
    line,           \* m_null and m_value of a LINE
    output,         \* the lines written
    elapsed,        \* a variable of type TIME
    loop,           \* the loop it is in: phase, variable, values seen so far
    last,           \* auxiliary: the statement executed last
    status          \* running, or what ended the simulation

vars == <<program, arrays, alias, line, output, elapsed, loop, last, status>>

Absent == [left |-> 0, right |-> -1, ascending |-> TRUE]

-------------------------------------------------------------------------------
(* What a process is made of.  A literal is given by its position.  Only a *)
(* type that integers index has a range of its own (the callback of        *)
(* printArrayType), and so have its objects; a character indexes an array  *)
(* of the other kind, and arrays are assigned to arrays of their C++ type. *)

Ranges     == [left : Int, right : Int, ascending : BOOLEAN]
Positions  == 0 .. SIZE - 1
Times      == [value : Int, unit : DOMAIN UNITS]
ArrayTypes == [byType : {FALSE}, range : Ranges, sub : {Absent} \cup [left : Int, right : Int]]
              \cup [byType : {TRUE}, range : {Absent}, sub : {Absent} \cup [left : Int, right : Int]]

Declarations == {d \in [type : ArrayTypes, range : Ranges] : d.type.byType => d.range = Absent}

Indexes(chars) == [number : Int, char : chars]

\* The statements of a process with these arrays, those an enumeration type
\* indexes among them, and an alias of one of them.
Statements(names, typed, aliased) ==
    [kind : {"element"}, to : names, index : Indexes({FALSE}), value : Positions]
    \cup [kind : {"element"}, to : typed, index : Indexes({TRUE}), value : Positions]
    \cup [kind : {"alias"}, to : {aliased}, index : Indexes({FALSE}), value : Positions]
    \cup [kind : {"array"}, to : typed, from : typed]
    \cup [kind : {"array"}, to : names \ typed, from : names \ typed]
    \cup [kind : {"string"}, to : names, text : Seq(STRING)]
    \cup [kind : {"aggregate"}, to : names, others : {-1} \cup Positions, listed : Seq(Positions),
           named : Seq([number : Int, value : Positions])]
    \cup [kind : {"time"}, amount : Times]
    \cup [kind : {"write"}, text : Seq(STRING)]
    \cup [kind : {"writeline"}]
    \cup [kind : {"loop"}, to : names, range : Ranges, byType : BOOLEAN, value : Positions]

ASSUME DesignsAssumption ==
    \A d \in DESIGNS :
        /\ \A n \in DOMAIN d.arrays : d.arrays[n] \in Declarations
        /\ d.alias \in [to : DOMAIN d.arrays, range : Ranges]
        /\ d.elapsed \in Times
        /\ d.statements \subseteq
               Statements(DOMAIN d.arrays, {n \in DOMAIN d.arrays : d.arrays[n].type.byType}, d.alias.to)

-------------------------------------------------------------------------------
(* Declarations. *)

\* create(): the factory of a type constrains by what the type definition gives.
Create(type) ==
    LET x == NewArray(type.byType)
    IN  CASE type.range = Absent /\ type.sub = Absent -> ConstrainAgain(x)
          [] type.range = Absent /\ type.sub # Absent -> ConstrainElements(x, type.sub)
          [] type.range # Absent /\ type.sub = Absent ->
                 ConstrainTo(x, type.range.left, type.range.right, type.range.ascending)
          [] OTHER -> ConstrainBoth(x, type.range.left, type.range.right, type.range.ascending, type.sub)

\* create(left, right, ascending): for an object with a range of its own.
CreateWith(type, range) ==
    ConstrainTo(NewArray(type.byType), range.left, range.right, range.ascending)

\* ObjectDeclarations: name.constrain(factory).
Declared(d) ==
    ConstrainLike(NewArray(d.type.byType),
                  IF d.range = Absent THEN Create(d.type) ELSE CreateWith(d.type, d.range))

\* AliasDeclaration: an array of the same type, constrained to the alias's range.
Aliased(a) == [to |-> a.to, range |-> ConstrainTo(NewArray(FALSE), a.range.left, a.range.right,
                                                  a.range.ascending).range]

NoLoop == [phase |-> "none", of |-> <<>>, var |-> <<>>, seen |-> <<>>]

Init ==
    \E d \in DESIGNS :
        /\ program = d.statements
        /\ arrays = [n \in DOMAIN d.arrays |-> Declared(d.arrays[n])]
        /\ alias = Aliased(d.alias)
        /\ line = [null |-> TRUE, value |-> ConstrainLike(NewArray(FALSE), ConstrainAgain(NewArray(FALSE)))]
        /\ output = <<>>
        /\ elapsed = d.elapsed
        /\ loop = NoLoop
        /\ last = [kind |-> "begin"]
        /\ status = "running"

-------------------------------------------------------------------------------
(* Statements.  One that fails ends the simulation. *)

Proceed  == status' = "running"
Fail(how) == status' = how

\* A statement with a failure leaves alone what it would have changed.
Unless(failed, how, effect, unchanged) ==
    IF failed THEN Fail(how) /\ unchanged ELSE Proceed /\ effect

\* array[index] = value
AssignElement(s) ==
    LET i == AbsoluteIndex(arrays[s.to].range, s.index)
    IN  /\ s.kind = "element"
        /\ Unless(~Reached(arrays[s.to], i), "assert",
                  arrays' = [arrays EXCEPT ![s.to] = PutAt(@, i, s)], UNCHANGED arrays)
        /\ UNCHANGED <<line, output, elapsed, loop>>

\* alias[index] = value: the index in the alias's range, the element by its place.
AssignAlias(s) ==
    LET i == AbsoluteIndex(alias.range, s.index)
    IN  /\ s.kind = "alias"
        /\ Unless(~Reached(arrays[alias.to], i), "assert",
                  arrays' = [arrays EXCEPT ![alias.to] = PutAt(@, i, s)], UNCHANGED arrays)
        /\ UNCHANGED <<line, output, elapsed, loop>>

\* array = array
AssignArray(s) ==
    LET a == LengthOf(arrays[s.to], arrays[s.from])
    IN  /\ s.kind = "array"
        /\ arrays' = [arrays EXCEPT ![s.to] = SetArray(a, arrays[s.from])]
        /\ IF Copied(a, arrays[s.from]) THEN Proceed ELSE Fail("out_of_range")
        /\ UNCHANGED <<line, output, elapsed, loop>>

\* array = "text"
AssignString(s) ==
    /\ s.kind = "string"
    /\ Unless(~StringFits(arrays[s.to], s.text), "RuntimeError",
              arrays' = [arrays EXCEPT ![s.to] = SetString(@, s.text)], UNCHANGED arrays)
    /\ UNCHANGED <<line, output, elapsed, loop>>

\* array = array.setOthers(..).setIndex(..).setElement(..): others first, the
\* rest in the order of the aggregate, each on the array itself; the
\* assignment of the array to itself changes nothing more.
Calls(s) == [i \in DOMAIN s.listed |-> [number |-> i - 1, value |-> s.listed[i]]] \o s.named

Aggregated(a, s) ==
    LET calls == Calls(s)
        made[k \in 0 .. Len(calls)] ==
            IF k = 0 THEN IF s.others = -1 THEN a ELSE SetOthers(a, [value |-> s.others])
                     ELSE SetIndex(made[k - 1], calls[k].number, calls[k])
    IN  made[Len(calls)]

\* The calls before the one that throws have been made.
BeforeThrow(a, s) ==
    LET calls == Calls(s)
        first == CHOOSE k \in DOMAIN calls :
                     /\ AtThrows(a, calls[k].number)
                     /\ \A j \in 1 .. k - 1 : ~AtThrows(a, calls[j].number)
    IN  [s EXCEPT !.listed = <<>>, !.named = SubSeq(calls, 1, first - 1)]

AssignAggregate(s) ==
    LET a == arrays[s.to]
        throws == \E k \in DOMAIN Calls(s) : AtThrows(a, Calls(s)[k].number)
    IN  /\ s.kind = "aggregate"
        /\ arrays' = [arrays EXCEPT ![s.to] = Aggregated(a, IF throws THEN BeforeThrow(a, s) ELSE s)]
        /\ IF throws THEN Fail("out_of_range") ELSE Proceed
        /\ UNCHANGED <<line, output, elapsed, loop>>

\* time = time + amount
AddTime(s) ==
    /\ s.kind = "time"
    /\ elapsed.value <= LONGEST
    /\ Unless(~Summable(elapsed, s.amount), "assert",
              elapsed' = Plus(elapsed, s.amount), UNCHANGED elapsed)
    /\ UNCHANGED <<arrays, line, output, loop>>

\* WRITE: push_back, to whatever the line held before.
Write(s) ==
    /\ s.kind = "write"
    /\ Len(line.value.content) + Len(s.text) <= LONGEST
    /\ line' = [null |-> FALSE, value |-> PushBack(line.value, s.text)]
    /\ Proceed
    /\ UNCHANGED <<arrays, output, elapsed, loop>>

\* WRITELINE: the image of the line; DEALLOCATE marks it null and keeps the text.
WriteLine(s) ==
    /\ s.kind = "writeline"
    /\ Len(output) < LONGEST
    /\ Unless(line.null, "RuntimeError",
              /\ output' = Append(output, Image(line.value))
              /\ line' = [line EXCEPT !.null = TRUE],
              UNCHANGED <<line, output>>)
    /\ UNCHANGED <<arrays, elapsed, loop>>

-------------------------------------------------------------------------------
(* for (v = v.LEFT(); v <= v.RIGHT(); v = v.RIGHTOF()) { array[v] = value; } *)

LoopVariable(s) ==
    IF s.byType THEN Enumeration(Whole)
                ELSE RangeOf(s.range.left, s.range.right, s.range.ascending)

EnterLoop(s) ==
    /\ s.kind = "loop"
    /\ loop.phase = "none"
    /\ LET v == LoopVariable(s)
       IN  loop' = [phase |-> "running", of |-> s, var |-> [v EXCEPT !.value = v.left], seen |-> <<>>]
    /\ Proceed
    /\ UNCHANGED <<arrays, line, output, elapsed>>

\* Faulty form, for the mutation check only: the last value is left out.
ContinuesBelow == loop.var.value < loop.var.right

Continues == loop.var.value <= loop.var.right

Right(byType, v) ==
    IF byType THEN EnumerationRightOf(v).value ELSE RIGHTOF(v)

LoopBody ==
    LET s == [kind |-> "element", to |-> loop.of.to, value |-> loop.of.value,
              index |-> [number |-> loop.var.value, char |-> FALSE]]
        i == AbsoluteIndex(arrays[s.to].range, s.index)
    IN  /\ status = "running"
        /\ loop.phase = "running"
        /\ Continues
        /\ loop.var.value >= LOWEST
        /\ last' = s
        /\ Unless(~Reached(arrays[s.to], i), "assert",
                  arrays' = [arrays EXCEPT ![s.to] = PutAt(@, i, s)], UNCHANGED arrays)
        /\ loop' = [loop EXCEPT !.var.value = Right(loop.of.byType, loop.var),
                                !.seen = Append(@, loop.var.value)]
        /\ UNCHANGED <<program, alias, line, output, elapsed>>

LeaveLoop ==
    /\ status = "running"
    /\ loop.phase = "running"
    /\ ~Continues
    /\ loop' = [loop EXCEPT !.phase = "left"]
    /\ UNCHANGED <<program, arrays, alias, line, output, elapsed, last, status>>

-------------------------------------------------------------------------------

Statement(s) ==
    \/ AssignElement(s)
    \/ AssignAlias(s)
    \/ AssignArray(s)
    \/ AssignString(s)
    \/ AssignAggregate(s)
    \/ AddTime(s)
    \/ Write(s)
    \/ WriteLine(s)
    \/ EnterLoop(s)

Step ==
    /\ status = "running"
    /\ loop.phase # "running"
    /\ \E s \in program : Statement(s) /\ last' = s
    /\ UNCHANGED <<program, alias>>

Next == Step \/ LoopBody \/ LeaveLoop

\* The thread of a process runs on until it waits: a loop it is in goes on.
Spec == Init /\ [][Next]_vars /\ WF_vars(LoopBody \/ LeaveLoop)

-------------------------------------------------------------------------------
(* Properties. *)

\* Whatever was assigned to what, an array has the elements its range speaks
\* of, so that no index that passes IndexCheck is outside m_content, and every
\* element is constrained to the bounds its array gives (resize, set).
ElementsFitTheRange ==
    \A n \in DOMAIN arrays :
        /\ Len(arrays[n].content) = Size(arrays[n])
        /\ \A i \in DOMAIN arrays[n].content :
               LET e == arrays[n].content[i]
               IN  e.left = arrays[n].sub.left /\ e.right = arrays[n].sub.right

\* An element as the kernel finds it; -1 where it would assert.
Found(a, i) ==
    LET p == ConvertIndex(a.range, i)
    IN  IF Reached(a, p) THEN a.content[p + 1].value ELSE -1

Bounds(a) == [left |-> a.range.left, right |-> a.range.right, ascending |-> Ascending(a.range)]

Base(p) == LET units[u \in 0 .. p.unit] == IF u = 0 THEN p.value ELSE UNITS[u] * units[u - 1]
           IN  units[p.unit]

\* An array as a function from its indexes to the values found at them.
AsFunction(a) ==
    LET b == Bounds(a)
        first == IF b.ascending THEN b.left ELSE b.left - LENGTH(b) + 1
    IN  [i \in first .. first + LENGTH(b) - 1 |-> Found(a, i)]

Values == INSTANCE ArrayValues WITH
    Literals    <- LITERALS,
    InBaseUnits <- Base,
    bounds      <- [n \in DOMAIN arrays |-> Bounds(arrays[n])],
    values      <- [n \in DOMAIN arrays |-> AsFunction(arrays[n])],
    view        <- [left |-> alias.range.left, right |-> alias.range.right,
                    ascending |-> alias.range.ascending],
    elapsed     <- [base |-> Base(elapsed), unit |-> elapsed.unit],
    running     <- status = "running"

\* The kernel's arrays, its alias, strings, aggregates and times are those of
\* VHDL within the limits ArrayValues names.
ImplementsArrayValues == Values!Spec

\* A loop that the generator writes for an enumeration type, or for an
\* ascending range of at least two values, assigns to every element once and
\* in order, and ends (sequential.hpp, RIGHTOF).
Upwards(s) ==
    /\ s.byType \/ (s.range.ascending /\ s.range.left < s.range.right)
    /\ \A i \in loop.var.left .. loop.var.right : WithinRange(arrays[s.to], i)

LoopsVisitTheirRange ==
    loop.phase = "running" /\ loop.seen = <<>> /\ Upwards(loop.of)
        ~> /\ loop.phase = "left"
           /\ loop.seen = [k \in 1 .. loop.var.right - loop.var.left + 1 |-> loop.var.left + k - 1]

===============================================================================
