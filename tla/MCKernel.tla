-------------------------------- MODULE MCKernel --------------------------------
(***************************************************************************)
(* Kernel on processes with two arrays that integers index, an alias of    *)
(* the first, arrays of constrained types, loops, a line and a time.       *)
(***************************************************************************)
EXTENDS Kernel

MCLiterals == <<"0", "1">>
MCUnits    == <<1, 10, 6>>
MCLowest   == -1

To(l, r)     == [left |-> l, right |-> r, ascending |-> TRUE]
Downto(l, r) == [left |-> l, right |-> r, ascending |-> FALSE]
Free          == Absent
Second       == [left |-> 1, right |-> 1]

TypeOf(byType, range, sub) == [byType |-> byType, range |-> range, sub |-> sub]
Object(type, range)        == [type |-> type, range |-> range]
Vector(range)              == Object(TypeOf(FALSE, Free, Free), range)

Index(i)  == [number |-> i, char |-> FALSE]
Letter(i) == [number |-> i, char |-> TRUE]

Elements(to, indexes, values) ==
    {[kind |-> "element", to |-> to, index |-> i, value |-> v] : i \in indexes, v \in values}
OfAlias(indexes, values) ==
    {[kind |-> "alias", to |-> "a", index |-> Index(i), value |-> v] : i \in indexes, v \in values}
Copy(to, from)  == [kind |-> "array", to |-> to, from |-> from]
Text(to, text)  == [kind |-> "string", to |-> to, text |-> text]
Aggregate(to, others, listed, named) ==
    [kind |-> "aggregate", to |-> to, others |-> others, listed |-> listed,
     named |-> [i \in DOMAIN named |-> [number |-> named[i][1], value |-> named[i][2]]]]
Loop(to, range, byType) ==
    [kind |-> "loop", to |-> to, range |-> range, byType |-> byType, value |-> 1]
Amount(v, u) == [kind |-> "time", amount |-> Physical(v, u)]

Design(declarations, range, time, statements) ==
    [arrays |-> declarations, alias |-> [to |-> "a", range |-> range],
     elapsed |-> time, statements |-> statements]

\* Arrays of different lengths and directions, a null range among them.
Vectors ==
    {Design([a |-> Vector(r), b |-> Vector(q)], p, Physical(0, 1),
            Elements("a", {Index(i) : i \in 0 .. 3}, {0, 1})
            \cup Elements("b", {Index(i) : i \in 1 .. 3}, {0, 1})
            \cup OfAlias({1, 3}, {0, 1})
            \cup {Copy("a", "b"), Copy("b", "a"), Text("a", <<"1", "0">>), Text("b", <<"1", "x", "0">>),
                  Text("a", <<"0">>)}) :
        r \in {To(0, 2), Downto(2, 0), Downto(2, 1), To(1, 1), To(2, 1), Free},
        q \in {To(1, 3), Downto(3, 2), To(0, 0), Free},
        p \in {Downto(3, 1), To(1, 3)}}

\* Types that constrain their elements, or that an enumeration type indexes.
Types ==
    {Design([a |-> Object(TypeOf(FALSE, To(0, 2), s), Free),
             b |-> Object(TypeOf(FALSE, r, s), Free),
             c |-> Object(TypeOf(TRUE, Free, s), Free)], Downto(3, 1), Physical(0, 1),
            Elements("c", {Index(0), Letter(1), Index(1)}, {0, 1})
            \cup OfAlias({2}, {1})
            \cup {Copy("a", "b"), Copy("b", "a"),
                  Aggregate("a", 1, <<>>, <<<<2, 0>>, <<0, 0>>>>),
                  Aggregate("a", 1, <<>>, <<<<0, 0>>>>),
                  Aggregate("a", -1, <<1, 0, 1>>, <<>>),
                  Aggregate("a", 0, <<>>, <<<<2, 0>>, <<1, 1>>, <<2, 1>>>>),
                  Aggregate("b", -1, <<1, 1, 0>>, <<>>),
                  Aggregate("b", -1, <<>>, <<<<1, 1>>, <<3, 1>>>>),
                  Aggregate("c", 1, <<>>, <<<<1, 0>>>>)}) :
        s \in {Free, Second},
        r \in {To(1, 3), Downto(1, 0)}}

Loops ==
    {Design([a |-> Vector(r), c |-> Object(TypeOf(TRUE, Free, Free), Free)], To(0, 0), Physical(0, 1),
            {Loop("c", Free, TRUE), Text("a", <<"0", "0">>)}
            \cup {Loop("a", q, FALSE) : q \in {To(0, 2), To(1, 2), To(0, 1), Downto(2, 0), Downto(0, 2),
                                               To(1, 1), To(2, 1)}}) :
        r \in {To(0, 2), Downto(2, 0), To(1, 2), To(-2, 1)}}

Lines ==
    {Design([a |-> Vector(To(0, 0))], To(0, 0), Physical(v, u),
            {[kind |-> "write", text |-> <<"1", "0">>], [kind |-> "write", text |-> <<"1">>],
             [kind |-> "writeline"], Amount(1, 1), Amount(2, 2), Amount(1, 3)}) :
        v \in {0, 1}, u \in 1 .. 3}

MCDesigns == Vectors \cup Types \cup Loops \cup Lines

===============================================================================
