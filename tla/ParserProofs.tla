---------------------------- MODULE ParserProofs ----------------------------
(***************************************************************************)
(* Proofs about Parser, for every grammar and every file.  Nothing is      *)
(* assumed of Rules but by two theorems: that no rule is left recursive    *)
(* (see Descent), and that the rules of VHDL close what they call a design *)
(* unit (see Phrases).  The last theorem is about every relation that the  *)
(* rules of derivation close (see Derivations).                            *)
(*                                                                         *)
(* A step stays within the innermost parse function, enters one, leaves    *)
(* it, or ends the parse.  Each kind keeps the inductive invariant IInv:   *)
(* the shape of the state, and the nesting of the positions.               *)
(***************************************************************************)
EXTENDS Descent, Phrases, Derivations, SequenceFacts

-----------------------------------------------------------------------------
(* The inductive invariant.                                                *)

FrameFields == {"rule", "code", "label", "found"}
IsFrame(f)  == f = [x \in FrameFields |-> f[x]] /\ IsSequence(f.found)

Places == 0 .. Len(tokens)

Shape ==
  /\ file \in Files
  /\ position \in Places
  /\ IsSequence(saved) /\ \A i \in 1 .. Len(saved) : saved[i] \in Places
  /\ IsSequence(frames) /\ Len(frames) = Len(saved)
  /\ \A i \in 1 .. Len(frames) : IsFrame(frames[i])
  /\ IsSequence(units)
  /\ \A i \in 1 .. Len(units) : units[i].from \in Nat /\ units[i].to \in Nat
  /\ status \in {"parsing", "ended", "rejected", "crashed"}

IInv == Shape /\ PositionsNest

LEMMA SizeIs ==
  ASSUME file \in Files
  PROVE  Len(tokens) \in Nat
BY FilesAssumption, LenProperties DEF tokens

LEMMA EmptyIs == IsSequence(<<>>) /\ Len(<<>>) = 0
BY EmptySeq, SequenceIs

\* A sequence of places is a sequence over the set of them.
LEMMA SequenceOf ==
  ASSUME NEW s, IsSequence(s), NEW S, \A i \in 1 .. Len(s) : s[i] \in S
  PROVE  s \in Seq(S)
<1>1. s \in Seq({s[i] : i \in DOMAIN s}) /\ Len(s) \in Nat
  BY SequenceHas DEF IsSequence
<1>2. s = SubSeq(s, 1, Len(s))
  BY <1>1, SubSeqFull
<1>3. SubSeq(s, 1, Len(s)) \in Seq(S)
  BY <1>1, SubSeqProperties
<1>4. QED
  BY <1>2, <1>3

LEMMA FrameIs ==
  ASSUME NEW r
  PROVE  IsFrame(Frame(r))
BY EmptyIs DEF IsFrame, FrameFields, Frame

LEMMA ContinueIs ==
  ASSUME NEW f, IsFrame(f), NEW b
  PROVE  IsFrame(Continue(f, b)) /\ Continue(f, b).found = f.found
BY DEF IsFrame, FrameFields, Continue

LEMMA FoundIs ==
  ASSUME NEW f, IsFrame(f), NEW n
  PROVE  /\ IsFrame([f EXCEPT !.found = Append(@, n)])
         /\ [f EXCEPT !.found = Append(@, n)].found = Append(f.found, n)
BY AppendIs DEF IsFrame, FrameFields

LEMMA CodeIs ==
  ASSUME NEW f, IsFrame(f), NEW c, NEW l
  PROVE  /\ IsFrame([f EXCEPT !.code = c]) /\ [f EXCEPT !.code = c].found = f.found
         /\ IsFrame([f EXCEPT !.code = c, !.label = l])
         /\ [f EXCEPT !.code = c, !.label = l].found = f.found
BY DEF IsFrame, FrameFields

-----------------------------------------------------------------------------
(* The kinds of steps.                                                     *)

Within ==
  /\ Depth > 0 /\ position' \in position .. Len(tokens)
  /\ \E f : IsFrame(f) /\ f.found = Top.found /\ frames' = WithTop(f)
  /\ UNCHANGED <<file, saved, units, status>>

Enters ==
  /\ saved' = Append(saved, position)
  /\ \E f : IsFrame(f) /\ frames' = Append(frames, f)
  /\ status = "parsing"
  /\ UNCHANGED <<file, position, units, status>>

Leaves ==
  /\ Running
  /\ \E found \in BOOLEAN : \E node :
       /\ Leave(found, node)
       /\ found => /\ saved[Depth] < position /\ position' = position
                   /\ node.from = saved[Depth] /\ node.to = position
       /\ ~found => position' = saved[Depth]
  /\ UNCHANGED file

Ends ==
  /\ status = "parsing" /\ status' \in {"ended", "rejected", "crashed"}
  /\ UNCHANGED <<file, position, saved, frames, units>>

StepOK == Within \/ Enters \/ Leaves \/ Ends \/ UNCHANGED vars

LEMMA TopIs ==
  ASSUME Shape, Depth > 0
  PROVE  Depth \in 1 .. Len(frames) /\ IsFrame(Top) /\ Depth \in Nat
<1>1. Depth \in Nat /\ Len(frames) = Depth
  BY SequenceHas DEF Shape, Depth
<1>2. QED
  BY <1>1 DEF Shape, Top

LEMMA StepKind == IInv /\ [Next]_vars => StepOK
<1> SUFFICES ASSUME IInv, [Next]_vars PROVE StepOK
  OBVIOUS
<1>0. /\ Shape /\ PositionsNest /\ Len(tokens) \in Nat /\ Depth \in Nat
      /\ position \in 0 .. Len(tokens) /\ IsSequence(saved)
      /\ Len(frames) = Depth /\ IsSequence(frames)
  BY SizeIs, SequenceHas DEF IInv, Shape, Places, Depth
<1>1. ASSUME Running PROVE IsFrame(Top) /\ Depth > 0 /\ status = "parsing"
  BY <1>0, <1>1, TopIs DEF Running
<1>2. CASE NextUnit
  <2>1. saved = <<>> /\ frames = <<>>
    BY <1>0, <1>2, EmptySeq DEF NextUnit, Depth, IsSequence
  <2>2. <<position>> = Append(saved, position) /\ <<Frame("DesignUnit")>> = Append(frames, Frame("DesignUnit"))
    BY <2>1
  <2>3. Enters
    BY <1>2, <2>2, FrameIs DEF NextUnit, Enters
  <2>4. QED
    BY <2>3 DEF StepOK
<1>3. CASE Consume
  <2>1. Running
    BY <1>3 DEF Consume, Fetch
  <2>2. position' \in position .. Len(tokens)
    BY <1>0, <1>3 DEF Consume
  <2>3. Within
    BY <1>1, <1>3, <2>1, <2>2, ContinueIs DEF Consume, Within
  <2>4. QED
    BY <2>3 DEF StepOK
<1>4. ASSUME Miss \/ Look \/ KeepLabel \/ SameLabel \/ Restart \/ PositionKnown
      PROVE  Within
  <2>1. Running
    BY <1>4 DEF Miss, Look, KeepLabel, SameLabel, Restart, PositionKnown, Fetch
  <2>2. position' = position /\ UNCHANGED <<file, saved, units, status>>
    BY <1>4 DEF Miss, Look, KeepLabel, SameLabel, Restart, PositionKnown
  <2>3. position \in position .. Len(tokens)
    BY <1>0
  <2>4. \E f : IsFrame(f) /\ f.found = Top.found /\ frames' = WithTop(f)
    <3>1. IsFrame(Top)
      BY <1>1, <2>1
    <3>2. CASE Miss
      BY <3>1, <3>2, ContinueIs DEF Miss
    <3>3. CASE Look
      <4> DEFINE seen == IF Now.what.by = "type"
                         THEN tokens[position + Now.skip + 1].type = Now.what.of[1]
                         ELSE /\ position + Now.skip + Len(Now.what.of) <= Len(tokens)
                              /\ \A i \in 1 .. Len(Now.what.of) :
                                   tokens[position + Now.skip + i] = [type |-> "SPECIAL", text |-> Now.what.of[i]]
      <4>1. frames' = WithTop(Continue(Top, seen))
        BY <3>3 DEF Look
      <4> HIDE DEF seen
      <4>2. QED
        BY <3>1, <4>1, ContinueIs
    <3>4. CASE KeepLabel
      BY <3>1, <3>4, CodeIs DEF KeepLabel
    <3>5. CASE SameLabel
      BY <3>1, <3>5, CodeIs DEF SameLabel
    <3>6. CASE Restart
      BY <3>1, <3>6, CodeIs DEF Restart
    <3>7. CASE PositionKnown
      BY <3>1, <3>7, CodeIs DEF PositionKnown
    <3>8. QED
      BY <1>4, <3>2, <3>3, <3>4, <3>5, <3>6, <3>7
  <2>5. QED
    BY <1>1, <2>1, <2>2, <2>3, <2>4 DEF Within
<1>5. CASE Call
  <2>1. Running /\ saved' = Append(saved, position)
    BY <1>5 DEF Call, Fetch
  <2>2. \E f : IsFrame(f) /\ frames' = Append(frames, f)
    BY <1>5, FrameIs DEF Call
  <2>3. Enters
    BY <1>1, <1>5, <2>1, <2>2 DEF Call, Enters
  <2>4. QED
    BY <2>3 DEF StepOK
<1>6. ASSUME Running PROVE saved[Depth] \in 0 .. Len(tokens) /\ saved[Depth] <= position
  BY <1>0, <1>1, <1>6 DEF Shape, Places, PositionsNest, Depth
<1>7. CASE Return
  <2> DEFINE node == Node(Top.rule, saved[Depth], position, Top.found)
  <2>1. Running /\ position' = position /\ file' = file /\ Leave(position > saved[Depth], node)
    BY <1>7 DEF Return
  <2>2. node.from = saved[Depth] /\ node.to = position
    BY DEF Node
  <2>3. ~(position > saved[Depth]) => position' = saved[Depth]
    BY <1>0, <1>6, <2>1
  <2>4. position > saved[Depth] => saved[Depth] < position
    BY <1>0, <1>6, <2>1
  <2>5. (position > saved[Depth]) \in BOOLEAN
    OBVIOUS
  <2> HIDE DEF node
  <2>6. Leaves
    BY <2>1, <2>2, <2>3, <2>4, <2>5 DEF Leaves
  <2>7. QED
    BY <2>6 DEF StepOK
<1>8. CASE GoBack
  <2>1. Running /\ file' = file /\ position' = saved[Depth] /\ Leave(FALSE, <<>>)
    BY <1>8 DEF GoBack, Fetch
  <2>2. Leaves
    BY <2>1 DEF Leaves
  <2>3. QED
    BY <2>2 DEF StepOK
<1>9. ASSUME ErrorReport \/ EndOfTokens \/ FollowNull
      PROVE  Ends
  <2>1. Running
    BY <1>9 DEF ErrorReport, EndOfTokens, FollowNull, Fetch
  <2>2. \E how \in {"ended", "rejected", "crashed"} : LeaveParse(how)
    BY <1>9 DEF ErrorReport, EndOfTokens, FollowNull
  <2>3. QED
    BY <2>1, <2>2 DEF Ends, LeaveParse, Running
<1>10. QED
  BY <1>2, <1>3, <1>4, <1>5, <1>7, <1>8, <1>9 DEF StepOK, Next, Done
-----------------------------------------------------------------------------
(* Each kind keeps the invariant.                                          *)

LEMMA WithinKeeps == IInv /\ Within => IInv'
<1> SUFFICES ASSUME IInv, Within PROVE IInv'
  OBVIOUS
<1>1. /\ Shape /\ PositionsNest /\ Len(tokens) \in Nat /\ Depth \in Nat /\ Depth > 0
      /\ Len(frames) = Depth /\ Depth \in 1 .. Len(frames) /\ Depth \in 1 .. Depth
  BY SizeIs, TopIs DEF IInv, Shape, Within, Depth
<1>2. file' = file /\ saved' = saved /\ units' = units /\ status' = status
  BY DEF Within
<1>3. tokens' = tokens /\ Depth' = Depth /\ UnitsEnd' = UnitsEnd
  BY <1>2 DEF tokens, Depth, UnitsEnd
<1>4. position' \in Places /\ position' >= position /\ position \in Nat /\ position' \in Nat
  BY <1>1 DEF Within, Shape, Places
<1>5. PICK f : IsFrame(f) /\ frames' = [frames EXCEPT ![Depth] = f]
  BY DEF Within, WithTop
<1>6. /\ IsSequence(frames') /\ Len(frames') = Len(frames)
      /\ \A i \in 1 .. Len(frames) : frames'[i] = IF i = Depth THEN f ELSE frames[i]
  <2>1. IsSequence(frames) /\ Depth \in 1 .. Len(frames) /\ frames' = [frames EXCEPT ![Depth] = f]
    BY <1>1, <1>5 DEF Shape
  <2>2. IsSequence(frames')
    BY <2>1, ReplacedIs
  <2>3. Len(frames') = Len(frames)
    BY <2>1, ReplacedIs
  <2>4. \A i \in 1 .. Len(frames) : frames'[i] = IF i = Depth THEN f ELSE frames[i]
    BY <2>1, ReplacedIs
  <2>5. QED
    BY <2>2, <2>3, <2>4
<1>7. \A i \in 1 .. Len(frames) : IsFrame(frames'[i])
  BY <1>1, <1>5, <1>6 DEF Shape
<1>8. Shape'
  BY <1>1, <1>2, <1>3, <1>4, <1>6, <1>7 DEF Shape, Places
<1>9. saved[Depth] \in Nat
  BY <1>1 DEF Shape, Places, Depth
<1>10. PositionsNest'
  BY <1>1, <1>2, <1>3, <1>4, <1>9 DEF PositionsNest
<1>11. QED
  BY <1>8, <1>10 DEF IInv

LEMMA EntersKeeps == IInv /\ Enters => IInv'
<1> SUFFICES ASSUME IInv, Enters PROVE IInv'
  OBVIOUS
<1>1. /\ Shape /\ PositionsNest /\ Len(tokens) \in Nat /\ Depth \in Nat
      /\ Len(frames) = Depth /\ position \in Places
  BY SizeIs, SequenceHas DEF IInv, Shape, Depth
<1>2. file' = file /\ position' = position /\ units' = units /\ status' = status
  BY DEF Enters
<1>3. tokens' = tokens /\ UnitsEnd' = UnitsEnd
  BY <1>2 DEF tokens, UnitsEnd
<1>4. /\ IsSequence(saved') /\ Len(saved') = Depth + 1 /\ saved'[Depth + 1] = position
      /\ \A i \in 1 .. Depth : saved'[i] = saved[i]
  BY <1>1, AppendIs DEF Enters, Shape, Depth
<1>5. PICK f : IsFrame(f) /\ frames' = Append(frames, f)
  BY DEF Enters
<1>6. /\ IsSequence(frames') /\ Len(frames') = Depth + 1 /\ frames'[Depth + 1] = f
      /\ \A i \in 1 .. Depth : frames'[i] = frames[i]
  BY <1>1, <1>5, AppendIs DEF Shape
<1>7. \A i \in 1 .. Depth + 1 : i \in 1 .. Depth \/ i = Depth + 1
  BY <1>1
<1>8. \A i \in 1 .. Depth + 1 : saved'[i] \in Places /\ IsFrame(frames'[i])
  BY <1>1, <1>4, <1>5, <1>6, <1>7 DEF Shape, Depth
<1>9. Shape'
  BY <1>1, <1>2, <1>3, <1>4, <1>6, <1>8 DEF Shape, Places
<1>10. \A i \in 2 .. Depth + 1 : saved'[i - 1] <= saved'[i]
  <2> SUFFICES ASSUME NEW i \in 2 .. Depth + 1 PROVE saved'[i - 1] <= saved'[i]
    OBVIOUS
  <2>1. CASE i \in 2 .. Depth
    <3>1. i \in 1 .. Depth /\ i - 1 \in 1 .. Depth /\ saved[i - 1] <= saved[i]
      BY <1>1, <2>1 DEF PositionsNest
    <3>2. QED
      BY <1>4, <3>1
  <2>2. CASE i = Depth + 1
    <3>1. i - 1 = Depth /\ Depth \in 1 .. Depth /\ saved[Depth] <= position
      BY <1>1, <2>2 DEF PositionsNest
    <3>2. QED
      BY <1>4, <2>2, <3>1
  <2>3. QED
    BY <1>1, <2>1, <2>2
<1>11. saved'[1] = UnitsEnd /\ saved'[Depth + 1] <= position
  <2>1. CASE Depth = 0
    BY <1>1, <1>4, <2>1 DEF PositionsNest, Places
  <2>2. CASE Depth > 0
    <3>1. 1 \in 1 .. Depth
      BY <1>1, <2>2
    <3>2. QED
      BY <1>1, <1>4, <2>2, <3>1 DEF PositionsNest, Places
  <2>3. QED
    BY <1>1, <2>1, <2>2
<1>12. Depth' = Depth + 1 /\ Depth + 1 > 0
  BY <1>1, <1>4 DEF Depth
<1>13. PositionsNest'
  BY <1>1, <1>2, <1>3, <1>10, <1>11, <1>12 DEF PositionsNest
<1>14. QED
  BY <1>9, <1>13 DEF IInv

\* What Leave does, where it is called: nothing to the units unless the call
\* is the outermost one, and to the frame around it no more than the object.
LEMMA LeavesTo ==
  ASSUME IInv, Leaves
  PROVE  /\ Depth \in Nat \ {0} /\ Len(frames) = Depth
         /\ IsSequence(saved') /\ Len(saved') = Depth - 1
         /\ \A i \in 1 .. Depth - 1 : saved'[i] = saved[i]
         /\ IsSequence(frames') /\ Len(frames') = Depth - 1
         /\ \A i \in 1 .. Depth - 1 : IsFrame(frames'[i])
         /\ saved[Depth] \in Places /\ position' \in Places
         /\ \E found, node :
              /\ found \in BOOLEAN
              /\ found => /\ saved[Depth] < position /\ position' = position
                          /\ node.from = saved[Depth] /\ node.to = position
              /\ ~found => position' = saved[Depth]
              /\ Depth > 1 =>
                   /\ UNCHANGED <<units, status>>
                   /\ frames'[Depth - 1].found =
                        IF found THEN Append(frames[Depth - 1].found, node)
                                 ELSE frames[Depth - 1].found
              /\ Depth = 1 =>
                   /\ units' = IF found THEN Append(units, node) ELSE units
                   /\ status' = IF found THEN "parsing"
                                ELSE IF position' = Len(tokens) THEN "ended" ELSE "rejected"
<1>1. /\ Shape /\ Len(tokens) \in Nat /\ Depth \in Nat \ {0} /\ Running
      /\ Len(frames) = Depth /\ IsSequence(saved) /\ IsSequence(frames)
      /\ status = "parsing" /\ Len(saved) = Depth /\ Depth \in 1 .. Depth
  BY SizeIs, TopIs DEF IInv, Shape, Depth, Leaves, Running
<1>2. saved # <<>> /\ frames # <<>>
  BY <1>1, EmptyIs
<1>3. PICK found, node :
        /\ found \in BOOLEAN
        /\ Leave(found, node)
        /\ found => /\ saved[Depth] < position /\ position' = position
                    /\ node.from = saved[Depth] /\ node.to = position
        /\ ~found => position' = saved[Depth]
  BY DEF Leaves
<1> DEFINE ss == SubSeq(saved, 1, Depth - 1)
           fs == SubSeq(frames, 1, Depth - 1)
<1>4. /\ IsSequence(ss) /\ Len(ss) = Depth - 1
      /\ \A i \in 1 .. Depth - 1 : ss[i] = saved[i]
  BY <1>1, <1>2, FrontIs
<1>5. /\ IsSequence(fs) /\ Len(fs) = Depth - 1
      /\ \A i \in 1 .. Depth - 1 : fs[i] = frames[i]
  BY <1>1, <1>2, FrontIs
<1>6. saved' = ss
  BY <1>3 DEF Leave
<1>7. saved[Depth] \in Places /\ position' \in Places
  BY <1>1, <1>3 DEF Shape
<1>8. \A i \in 1 .. Depth - 1 : IsFrame(fs[i])
  BY <1>1, <1>5 DEF Shape
<1>9. CASE Depth > 1
  <2> DEFINE caller == frames[Depth - 1]
             with == IF found THEN [caller EXCEPT !.found = Append(@, node)] ELSE caller
             after == Continue(with, found)
  <2>1. Depth - 1 \in 1 .. Depth - 1 /\ IsFrame(caller)
    BY <1>1, <1>5, <1>8, <1>9
  <2>2. IsFrame(with) /\ with.found = IF found THEN Append(caller.found, node) ELSE caller.found
    BY <2>1, FoundIs
  <2>3. frames' = [fs EXCEPT ![Depth - 1] = after] /\ UNCHANGED <<units, status>>
    BY <1>3, <1>9 DEF Leave
  <2> HIDE DEF with
  <2>4. IsFrame(after) /\ after.found = with.found
    BY <2>2, ContinueIs
  <2> HIDE DEF after, fs
  <2>5. /\ IsSequence(frames') /\ Len(frames') = Depth - 1
        /\ \A i \in 1 .. Depth - 1 : frames'[i] = IF i = Depth - 1 THEN after ELSE fs[i]
    <3>1. IsSequence(fs) /\ Depth - 1 \in 1 .. Len(fs) /\ Len(fs) = Depth - 1
      BY <1>5, <2>1
    <3>2. frames' = [fs EXCEPT ![Depth - 1] = after]
      BY <2>3
    <3>3. IsSequence(frames')
      BY <3>1, <3>2, ReplacedIs
    <3>4. Len(frames') = Len(fs)
      BY <3>1, <3>2, ReplacedIs
    <3>5. \A i \in 1 .. Len(fs) : frames'[i] = IF i = Depth - 1 THEN after ELSE fs[i]
      BY <3>1, <3>2, ReplacedIs
    <3>6. QED
      BY <3>1, <3>3, <3>4, <3>5
  <2>6. \A i \in 1 .. Depth - 1 : IsFrame(frames'[i])
    BY <1>8, <2>4, <2>5
  <2>7. frames'[Depth - 1].found = IF found THEN Append(caller.found, node) ELSE caller.found
    BY <2>1, <2>2, <2>4, <2>5
  <2>8. Depth # 1
    BY <1>9
  <2> HIDE DEF ss
  <2>9. QED
    BY <1>1, <1>3, <1>4, <1>6, <1>7, <2>3, <2>5, <2>6, <2>7, <2>8
<1>10. CASE Depth = 1
  <2>1. /\ frames' = <<>>
        /\ units' = IF found THEN Append(units, node) ELSE units
        /\ status' = IF found THEN "parsing"
                     ELSE IF position' = Len(tokens) THEN "ended" ELSE "rejected"
    BY <1>1, <1>3, <1>10 DEF Leave
  <2>2. /\ IsSequence(frames') /\ Len(frames') = Depth - 1
        /\ \A i \in 1 .. Depth - 1 : IsFrame(frames'[i])
    BY <1>10, <2>1, EmptyIs
  <2>3. ~(Depth > 1)
    BY <1>10
  <2> HIDE DEF ss, fs
  <2>4. QED
    BY <1>1, <1>3, <1>4, <1>6, <1>7, <2>1, <2>2, <2>3
<1>11. QED
  BY <1>1, <1>9, <1>10

LEMMA LeavesKeeps == IInv /\ Leaves => IInv'
<1> SUFFICES ASSUME IInv, Leaves PROVE IInv'
  OBVIOUS
<1>1. Shape /\ PositionsNest /\ Len(tokens) \in Nat /\ Len(units) \in Nat /\ status = "parsing"
  BY SizeIs, SequenceHas DEF IInv, Shape, Leaves, Running
<1>2. file' = file /\ tokens' = tokens
  BY DEF Leaves, tokens
<1>3. /\ Depth \in Nat \ {0} /\ Len(frames) = Depth
      /\ IsSequence(saved') /\ Len(saved') = Depth - 1
      /\ \A i \in 1 .. Depth - 1 : saved'[i] = saved[i]
      /\ IsSequence(frames') /\ Len(frames') = Depth - 1
      /\ \A i \in 1 .. Depth - 1 : IsFrame(frames'[i])
      /\ saved[Depth] \in Places /\ position' \in Places
  BY LeavesTo
<1>4. PICK found, node :
        /\ found \in BOOLEAN
        /\ found => /\ saved[Depth] < position /\ position' = position
                    /\ node.from = saved[Depth] /\ node.to = position
        /\ ~found => position' = saved[Depth]
        /\ Depth > 1 => UNCHANGED <<units, status>>
        /\ Depth = 1 =>
             /\ units' = IF found THEN Append(units, node) ELSE units
             /\ status' = IF found THEN "parsing"
                          ELSE IF position' = Len(tokens) THEN "ended" ELSE "rejected"
  BY LeavesTo
<1>5. Depth' = Depth - 1
  BY <1>3 DEF Depth
<1>6. \A i \in 1 .. Depth - 1 : saved'[i] \in Places
  BY <1>1, <1>3 DEF Shape, Depth
<1>7. saved[Depth] \in Nat /\ position' \in Nat /\ position \in Nat /\ saved[Depth] <= position'
  BY <1>1, <1>3, <1>4 DEF Places, Shape
<1>8. \A i \in 2 .. Depth - 1 : saved'[i - 1] <= saved'[i]
  <2> SUFFICES ASSUME NEW i \in 2 .. Depth - 1 PROVE saved'[i - 1] <= saved'[i]
    OBVIOUS
  <2>1. i \in 1 .. Depth - 1 /\ i - 1 \in 1 .. Depth - 1 /\ i \in 2 .. Depth
    BY <1>3
  <2>2. QED
    BY <1>1, <1>3, <2>1 DEF PositionsNest
<1>9. CASE Depth > 1
  <2>1. units' = units /\ status' = status /\ UnitsEnd' = UnitsEnd
    BY <1>4, <1>9 DEF UnitsEnd
  <2>2. Shape'
    BY <1>1, <1>2, <1>3, <1>6, <2>1 DEF Shape, Places
  <2>3. 1 \in 1 .. Depth - 1 /\ Depth - 1 \in 1 .. Depth - 1 /\ Depth \in 2 .. Depth
    BY <1>3, <1>9
  <2>4. saved'[1] = UnitsEnd
    BY <1>1, <1>3, <1>9, <2>3 DEF PositionsNest
  <2>5. saved'[Depth - 1] <= position'
    <3>1. saved[Depth - 1] <= saved[Depth] /\ saved'[Depth - 1] = saved[Depth - 1]
      BY <1>1, <1>3, <2>3 DEF PositionsNest
    <3>2. saved[Depth - 1] \in Nat
      BY <1>1, <1>3, <2>3 DEF Shape, Places, Depth
    <3>3. QED
      BY <1>7, <3>1, <3>2
  <2>6. Depth - 1 # 0
    BY <1>3, <1>9
  <2>7. PositionsNest'
    BY <1>1, <1>5, <1>8, <2>1, <2>4, <2>5, <2>6 DEF PositionsNest
  <2>8. QED
    BY <2>2, <2>7 DEF IInv
<1>10. CASE Depth = 1
  <2>1. saved[1] = UnitsEnd
    BY <1>1, <1>10 DEF PositionsNest
  <2>2. ~(Depth - 1 > 0) /\ Depth - 1 = 0
    BY <1>10
  <2>3. status' \in {"parsing", "ended", "rejected", "crashed"}
    BY <1>4, <1>10
  <2>4. CASE found
    <3>1. /\ IsSequence(units') /\ Len(units') = Len(units) + 1
          /\ units'[Len(units) + 1] = node
          /\ \A i \in 1 .. Len(units) : units'[i] = units[i]
      <4>1. IsSequence(units) /\ units' = Append(units, node)
        BY <1>1, <1>4, <1>10, <2>4 DEF Shape
      <4>2. IsSequence(units')
        BY <4>1, AppendedIs
      <4>3. Len(units') = Len(units) + 1
        BY <4>1, AppendedIs
      <4>4. units'[Len(units) + 1] = node
        BY <4>1, AppendedIs
      <4>5. \A i \in 1 .. Len(units) : units'[i] = units[i]
        BY <4>1, AppendedIs
      <4>6. QED
        BY <4>2, <4>3, <4>4, <4>5
    <3>2. node.from = UnitsEnd /\ node.to = position' /\ node.from < node.to /\ node.from \in Nat /\ node.to \in Nat
      BY <1>4, <1>7, <1>10, <2>1, <2>4
    <3>3. \A i \in 1 .. Len(units) + 1 : i \in 1 .. Len(units) \/ i = Len(units) + 1
      BY <1>1
    <3>4. \A i \in 1 .. Len(units) + 1 :
            /\ units'[i].from \in Nat /\ units'[i].to \in Nat
            /\ units'[i].from < units'[i].to
      BY <1>1, <3>1, <3>2, <3>3 DEF Shape, PositionsNest
    <3>5. \A i \in 1 .. Len(units) + 1 : units'[i].from = IF i = 1 THEN 0 ELSE units'[i - 1].to
      <4> SUFFICES ASSUME NEW i \in 1 .. Len(units) + 1
                   PROVE  units'[i].from = IF i = 1 THEN 0 ELSE units'[i - 1].to
        OBVIOUS
      <4>1. CASE i \in 1 .. Len(units)
        <5>1. i # 1 => i - 1 \in 1 .. Len(units)
          BY <1>1, <4>1
        <5>2. QED
          BY <1>1, <3>1, <4>1, <5>1 DEF PositionsNest
      <4>2. CASE i = Len(units) + 1
        <5>1. units = <<>> <=> i = 1
          BY <1>1, <4>2, EmptySeq DEF Shape, IsSequence
        <5>2. i # 1 => i - 1 = Len(units) /\ Len(units) \in 1 .. Len(units)
          BY <1>1, <4>2
        <5>3. QED
          BY <3>1, <3>2, <4>2, <5>1, <5>2 DEF UnitsEnd
      <4>3. QED
        BY <3>3, <4>1, <4>2
    <3>6. UnitsEnd' = position'
      <4>1. units' # <<>>
        BY <1>1, <3>1, EmptyIs
      <4>2. QED
        BY <3>1, <3>2, <4>1 DEF UnitsEnd
    <3>7. Shape'
      BY <1>1, <1>2, <1>3, <1>6, <2>3, <3>1, <3>4 DEF Shape, Places
    <3>8. PositionsNest'
      BY <1>5, <1>8, <2>2, <3>1, <3>4, <3>5, <3>6 DEF PositionsNest
    <3>9. QED
      BY <3>7, <3>8 DEF IInv
  <2>5. CASE ~found
    <3>1. units' = units /\ UnitsEnd' = UnitsEnd /\ position' = UnitsEnd
      BY <1>4, <1>10, <2>1, <2>5 DEF UnitsEnd
    <3>2. Shape'
      BY <1>1, <1>2, <1>3, <1>6, <2>3, <3>1 DEF Shape, Places
    <3>3. PositionsNest'
      BY <1>1, <1>5, <1>8, <2>2, <3>1 DEF PositionsNest
    <3>4. QED
      BY <3>2, <3>3 DEF IInv
  <2>6. QED
    BY <2>4, <2>5
<1>11. QED
  BY <1>3, <1>9, <1>10

LEMMA InitIs == Init => IInv
<1> SUFFICES ASSUME Init PROVE IInv
  OBVIOUS
<1>1. /\ saved = <<>> /\ frames = <<>> /\ units = <<>> /\ Len(<<>>) = 0 /\ IsSequence(<<>>)
      /\ Len(tokens) \in Nat
  BY EmptyIs, SizeIs DEF Init
<1>2. Shape
  BY <1>1 DEF Init, Shape, Places
<1>3. PositionsNest
  BY <1>1 DEF Init, PositionsNest, UnitsEnd, Depth
<1>4. QED
  BY <1>2, <1>3 DEF IInv

LEMMA StepKeepsInv == IInv /\ [Next]_vars => IInv'
<1> SUFFICES ASSUME IInv, [Next]_vars PROVE IInv'
  OBVIOUS
<1>1. CASE Ends
  <2>1. tokens' = tokens /\ Depth' = Depth /\ UnitsEnd' = UnitsEnd
    BY <1>1 DEF Ends, tokens, Depth, UnitsEnd
  <2>2. QED
    BY <1>1, <2>1 DEF Ends, IInv, Shape, Places, PositionsNest
<1>2. CASE UNCHANGED vars
  BY <1>2 DEF vars, IInv, Shape, Places, PositionsNest, UnitsEnd, Depth, tokens
<1>3. QED
  BY <1>1, <1>2, StepKind, WithinKeeps, EntersKeeps, LeavesKeeps DEF StepOK

LEMMA InvAlways == Spec => []IInv
BY InitIs, StepKeepsInv, PTL DEF Spec

-----------------------------------------------------------------------------
(* The theorems.                                                           *)

\* Types: the position never leaves the token list, there is one parse
\* function in progress for every position remembered, and the parse is
\* left in one of the three ways (Scanner::optional, DesignFile::parse).
THEOREM TypeCorrect == Spec => []TypeOK
<1>1. IInv => TypeOK
  <2> SUFFICES ASSUME IInv PROVE TypeOK
    OBVIOUS
  <2>1. Shape
    BY DEF IInv
  <2>2. saved \in Seq(0 .. Len(tokens))
    BY <2>1, SequenceOf DEF Shape, Places
  <2>3. QED
    BY <2>1, <2>2 DEF TypeOK, Shape, Places, Depth
<1>2. QED
  BY <1>1, InvAlways, PTL

\* Whatever the grammar tries and gives up, the units delivered, the parts
\* read by the calls in progress and the rest follow each other without a
\* gap or an overlap (Scanner::optional goes back to the position it
\* remembered, DesignFile::parse goes on where the last unit ended).
THEOREM PositionsAlwaysNest == Spec => []PositionsNest
<1>1. IInv => PositionsNest
  BY DEF IInv
<1>2. QED
  BY <1>1, InvAlways, PTL

LEMMA StepIsAtomic == IInv /\ [Next]_vars => CallIsAtomic
<1> SUFFICES ASSUME IInv, [Next]_vars, Depth' = Depth - 1 PROVE CallIsAtomic
  BY DEF CallIsAtomic
<1>1. Shape /\ Depth \in Nat /\ Len(units) \in Nat
  BY SequenceHas DEF IInv, Shape, Depth
<1>2. Depth' # Depth /\ Depth' # Depth + 1
  BY <1>1
<1>3. ~Within /\ ~Ends /\ ~UNCHANGED vars
  BY <1>2 DEF Within, Ends, vars, Depth
<1>4. ~Enters
  <2> SUFFICES ASSUME Enters PROVE FALSE
    OBVIOUS
  <2>1. IsSequence(saved) /\ saved' = Append(saved, position)
    BY <1>1 DEF Shape, Enters
  <2>2. Len(saved') = Len(saved) + 1
    BY <2>1, AppendedIs
  <2>3. QED
    BY <1>2, <2>2 DEF Depth
<1>5. Leaves
  BY <1>3, <1>4, StepKind DEF StepOK
<1>6. PICK found, node :
        /\ found \in BOOLEAN
        /\ found => /\ saved[Depth] < position /\ position' = position
                    /\ node.from = saved[Depth] /\ node.to = position
        /\ ~found => position' = saved[Depth]
        /\ Depth > 1 =>
             frames'[Depth - 1].found = IF found THEN Append(frames[Depth - 1].found, node)
                                        ELSE frames[Depth - 1].found
        /\ Depth = 1 => units' = IF found THEN Append(units, node) ELSE units
  BY <1>5, LeavesTo
<1> DEFINE before == IF Depth = 1 THEN units ELSE frames[Depth - 1].found
           after  == IF Depth = 1 THEN units' ELSE frames'[Depth - 1].found
<1>7. Depth \in Nat \ {0} /\ saved[Depth] \in Nat /\ position \in Nat
  BY <1>1, <1>5, LeavesTo DEF Places, Shape
<1>8. IsSequence(before)
  <2>1. CASE Depth = 1
    BY <1>1, <2>1 DEF Shape
  <2>2. CASE Depth # 1
    <3>1. Depth - 1 \in 1 .. Len(frames)
      BY <1>1, <1>7, <2>2 DEF Shape, Depth
    <3>2. QED
      BY <1>1, <2>2, <3>1 DEF Shape, IsFrame
  <2>3. QED
    BY <2>1, <2>2
<1>9. after = IF found THEN Append(before, node) ELSE before
  <2>1. CASE Depth = 1
    BY <1>6, <2>1
  <2>2. CASE Depth # 1
    <3>1. Depth > 1
      BY <1>7, <2>2
    <3>2. QED
      BY <1>6, <2>2, <3>1
  <2>3. QED
    BY <2>1, <2>2
<1> HIDE DEF before, after
<1>10. \/ after = before /\ position' = saved[Depth]
       \/ /\ Len(after) = Len(before) + 1
          /\ after[Len(after)].from = saved[Depth]
          /\ after[Len(after)].to = position'
          /\ position' > saved[Depth]
  <2>1. CASE found
    <3>1. IsSequence(before) /\ after = Append(before, node)
      BY <1>8, <1>9, <2>1
    <3>2. Len(after) = Len(before) + 1
      BY <3>1, AppendedIs
    <3>3. after[Len(before) + 1] = node
      BY <3>1, AppendedIs
    <3>4. QED
      BY <1>6, <1>7, <2>1, <3>2, <3>3
  <2>2. CASE ~found
    BY <1>6, <1>9, <2>2
  <2>3. QED
    BY <2>1, <2>2
<1>11. QED
  BY <1>10 DEF CallIsAtomic, before, after

\* A call of optional<T> that is over has either read a T that its caller
\* now has, or has left the position and the caller as they were, in every
\* grammar and however deep the calls it made and gave up went.
THEOREM OptionalAlwaysAtomic == Spec => OptionalIsAtomic
<1>1. IInv /\ [Next]_vars => [CallIsAtomic]_vars
  BY StepIsAtomic
<1>2. QED
  BY <1>1, InvAlways, PTL DEF Spec, OptionalIsAtomic

-----------------------------------------------------------------------------
(* The refinement.                                                         *)

LEMMA StreamInit == IInv /\ Init => Stream!Init
<1> SUFFICES ASSUME IInv, Init PROVE Stream!Init
  OBVIOUS
<1>1. Len(tokens) \in Nat /\ units = <<>> /\ ~Finished
  BY SizeIs DEF IInv, Shape, Init, Finished
<1>2. [i \in 1 .. Len(units) |-> <<units[i].from, units[i].to>>] = <<>>
  BY <1>1, EmptyIs
<1>3. QED
  BY <1>1, <1>2 DEF Stream!Init

LEMMA StreamStep == IInv /\ IInv' /\ [Next]_vars => [Stream!Next]_Stream!vars
<1> SUFFICES ASSUME IInv, IInv', [Next]_vars PROVE [Stream!Next]_Stream!vars
  OBVIOUS
<1>1. /\ Shape /\ Len(tokens) \in Nat /\ Len(units) \in Nat
      /\ Depth \in Nat /\ PositionsNest
  BY SizeIs, SequenceHas DEF IInv, Shape, Depth
<1> DEFINE spans == [i \in 1 .. Len(units) |-> <<units[i].from, units[i].to>>]
<1>2. CASE units' = units /\ file' = file /\ Finished' = Finished
  BY <1>2 DEF Stream!vars, tokens
<1>3. CASE Ends
  BY <1>3 DEF Ends, Stream!Next, Stream!Leave, tokens, Finished
<1>4. CASE Leaves
  <2>1. PICK found, node :
          /\ found \in BOOLEAN
          /\ found => /\ saved[Depth] < position /\ position' = position
                      /\ node.from = saved[Depth] /\ node.to = position
          /\ ~found => position' = saved[Depth]
          /\ Depth > 1 => UNCHANGED <<units, status>>
          /\ Depth = 1 =>
               /\ units' = IF found THEN Append(units, node) ELSE units
               /\ status' = IF found THEN "parsing"
                            ELSE IF position' = Len(tokens) THEN "ended" ELSE "rejected"
    BY <1>4, LeavesTo
  <2>2. file' = file /\ tokens' = tokens /\ status = "parsing" /\ Depth > 0
    BY <1>4 DEF Leaves, tokens, Running
  <2>3. CASE Depth > 1
    BY <1>2, <2>1, <2>2, <2>3 DEF Finished
  <2>4. CASE Depth = 1 /\ ~found
    <3>1. units' = units /\ ~Finished /\ Finished'
      BY <2>1, <2>2, <2>4 DEF Finished
    <3>2. QED
      BY <2>2, <3>1 DEF Stream!Next, Stream!Leave
  <2>5. CASE Depth = 1 /\ found
    <3>1. /\ IsSequence(units) /\ units' = Append(units, node)
          /\ ~Finished /\ ~Finished'
      BY <1>1, <2>1, <2>2, <2>5 DEF Finished, Shape
    <3>2. Len(units') = Len(units) + 1
      BY <3>1, AppendedIs
    <3>3. units'[Len(units) + 1] = node
      BY <3>1, AppendedIs
    <3>4. \A i \in 1 .. Len(units) : units'[i] = units[i]
      BY <3>1, AppendedIs
    <3>5. /\ saved[1] = UnitsEnd /\ node.from = UnitsEnd /\ node.to = position
          /\ UnitsEnd < position /\ position \in 0 .. Len(tokens)
      BY <1>1, <2>1, <2>5 DEF PositionsNest, Shape, Places
    <3>6. UnitsEnd = Stream!Reached /\ UnitsEnd \in Nat
      <4>1. CASE units = <<>>
        <5>1. spans = <<>>
          BY <4>1, EmptyIs
        <5>2. QED
          BY <4>1, <5>1 DEF Stream!Reached, UnitsEnd
      <4>2. CASE units # <<>>
        <5>1. Len(units) \in 1 .. Len(units)
          BY <1>1, <4>2, EmptySeq DEF Shape, IsSequence
        <5>2. spans # <<>> /\ Len(spans) = Len(units)
          BY <1>1, <5>1
        <5>3. spans[Len(units)][2] = units[Len(units)].to
          BY <5>1
        <5>4. units[Len(units)].to \in Nat
          BY <1>1, <5>1 DEF Shape
        <5>5. QED
          BY <4>2, <5>2, <5>3, <5>4 DEF Stream!Reached, UnitsEnd
      <4>3. QED
        BY <4>1, <4>2
    <3>7. spans' = Append(spans, <<UnitsEnd, position>>)
      <4>1. spans' = [i \in 1 .. Len(units) + 1 |-> <<units'[i].from, units'[i].to>>]
        BY <3>2
      <4>2. Append(spans, <<UnitsEnd, position>>)
              = [i \in 1 .. Len(units) + 1 |->
                   IF i = Len(units) + 1 THEN <<UnitsEnd, position>> ELSE spans[i]]
        OBVIOUS
      <4>3. \A i \in 1 .. Len(units) + 1 :
              <<units'[i].from, units'[i].to>>
                = IF i = Len(units) + 1 THEN <<UnitsEnd, position>> ELSE spans[i]
        BY <1>1, <3>3, <3>4, <3>5
      <4>4. QED
        BY <4>1, <4>2, <4>3
    <3>8. position \in UnitsEnd + 1 .. Len(tokens)
      BY <1>1, <3>5, <3>6
    <3> HIDE DEF spans
    <3>9. \E to \in Stream!Reached + 1 .. Len(tokens) :
             spans' = Append(spans, <<Stream!Reached, to>>)
      BY <3>6, <3>7, <3>8
    <3>10. UNCHANGED <<Len(tokens), Finished>>
      BY <2>2, <3>1 DEF Finished
    <3>11. Stream!Deliver
      BY <3>1, <3>9, <3>10 DEF Stream!Deliver, spans
    <3>12. QED
      BY <3>11 DEF Stream!Next
  <2>6. QED
    BY <1>1, <2>2, <2>3, <2>4, <2>5
<1>5. CASE Within
  BY <1>2, <1>5 DEF Within, Finished
<1>6. CASE Enters
  BY <1>2, <1>6 DEF Enters, Finished
<1>7. CASE UNCHANGED vars
  BY <1>2, <1>7 DEF vars, Finished
<1>8. QED
  BY <1>3, <1>4, <1>5, <1>6, <1>7, StepKind DEF StepOK

\* The parser implements UnitStream: every unit it delivers starts where the
\* one before ended and is not empty, none is taken back, and nothing is
\* delivered once the file has been left (DesignFile::parse).
THEOREM ParserImplementsStream == Spec => ImplementsStream
<1>1. IInv /\ Init => Stream!Init
  BY StreamInit
<1>2. IInv /\ IInv' /\ [Next]_vars => [Stream!Next]_Stream!vars
  BY StreamStep
<1>3. QED
  BY <1>1, <1>2, InvAlways, PTL DEF Spec, ImplementsStream, Stream!Spec
-----------------------------------------------------------------------------
(* The descent of a grammar that is not left recursive.                    *)

\* A parse function is at one of the points of its grammar.
AtPoint(g, points, f, read) == f.rule \in DOMAIN g /\ Point(f.rule, f.code, read) \in points

LEMMA ContinuesAt ==
  ASSUME NEW f, IsFrame(f), NEW b, NEW c, NEW l
  PROVE  /\ Continue(f, b).rule = f.rule
         /\ Continue(f, b).code = Branch(Head(f.code), Tail(f.code), b)
         /\ [f EXCEPT !.code = c].rule = f.rule /\ [f EXCEPT !.code = c].code = c
         /\ [f EXCEPT !.code = c, !.label = l].rule = f.rule
         /\ [f EXCEPT !.code = c, !.label = l].code = c
BY DEF IsFrame, FrameFields, Continue

LEMMA AfterStays ==
  ASSUME NEW g, NEW points, NEW rank, Descends(g, points, rank),
         NEW f, NEW read, AtPoint(g, points, f, read), f.code # <<>>
  PROVE  After(g, Point(f.rule, f.code, read)) \subseteq points
<1>1. Point(f.rule, f.code, read).code = f.code
  BY DEF Point
<1>2. QED
  BY <1>1 DEF Descends, AtPoint

LEMMA TestGoesOn ==
  ASSUME NEW g, NEW points, NEW rank, Descends(g, points, rank),
         NEW f, IsFrame(f), NEW read, AtPoint(g, points, f, read), f.code # <<>>,
         Head(f.code).op \in {"test", "while"}
  PROVE  /\ AtPoint(g, points, Continue(f, TRUE), TRUE)
         /\ AtPoint(g, points, Continue(f, FALSE), read)
<1> DEFINE p == Point(f.rule, f.code, read)
<1>1. p.rule = f.rule /\ p.code = f.code /\ p.read = read
  BY DEF Point
<1>2. After(g, p) = { Point(f.rule, Branch(Head(f.code), Tail(f.code), TRUE), TRUE),
                      Point(f.rule, Branch(Head(f.code), Tail(f.code), FALSE), read) }
  BY <1>1 DEF After
<1>3. After(g, p) \subseteq points
  BY AfterStays
<1>4. Point(f.rule, Branch(Head(f.code), Tail(f.code), TRUE), TRUE) \in points
      /\ Point(f.rule, Branch(Head(f.code), Tail(f.code), FALSE), read) \in points
  BY <1>2, <1>3
<1> HIDE DEF p
<1>5. /\ Continue(f, TRUE).rule = f.rule
      /\ Continue(f, TRUE).code = Branch(Head(f.code), Tail(f.code), TRUE)
  BY ContinuesAt, ZenonT(30)
<1>6. /\ Continue(f, FALSE).rule = f.rule
      /\ Continue(f, FALSE).code = Branch(Head(f.code), Tail(f.code), FALSE)
  BY ContinuesAt, ZenonT(30)
<1>7. AtPoint(g, points, Continue(f, TRUE), TRUE)
  BY <1>4, <1>5 DEF AtPoint
<1>8. AtPoint(g, points, Continue(f, FALSE), read)
  BY <1>4, <1>6 DEF AtPoint
<1>9. QED
  BY <1>7, <1>8

LEMMA LookGoesOn ==
  ASSUME NEW g, NEW points, NEW rank, Descends(g, points, rank),
         NEW f, IsFrame(f), NEW read, AtPoint(g, points, f, read), f.code # <<>>,
         Head(f.code).op = "ahead", NEW seen \in BOOLEAN
  PROVE  AtPoint(g, points, Continue(f, seen), read)
<1> DEFINE p == Point(f.rule, f.code, read)
<1>1. p.rule = f.rule /\ p.code = f.code /\ p.read = read
  BY DEF Point
<1>2. After(g, p) = { Point(f.rule, Branch(Head(f.code), Tail(f.code), b), read) : b \in BOOLEAN }
  BY <1>1 DEF After
<1>3. After(g, p) \subseteq points
  BY AfterStays
<1>4. QED
  BY <1>2, <1>3, ContinuesAt DEF AtPoint

LEMMA PlainGoesOn ==
  ASSUME NEW g, NEW points, NEW rank, Descends(g, points, rank),
         NEW f, IsFrame(f), NEW read, AtPoint(g, points, f, read), f.code # <<>>, NEW l
  PROVE  /\ Head(f.code).op \in {"label", "same", "here"} =>
              /\ AtPoint(g, points, [f EXCEPT !.code = Tail(f.code)], read)
              /\ AtPoint(g, points, [f EXCEPT !.code = Tail(f.code), !.label = l], read)
         /\ Head(f.code).op = "again" => AtPoint(g, points, [f EXCEPT !.code = g[f.rule]], read)
<1> DEFINE p == Point(f.rule, f.code, read)
<1>1. p.rule = f.rule /\ p.code = f.code /\ p.read = read
  BY DEF Point
<1>2. After(g, p) \subseteq points
  BY AfterStays
<1>3. CASE Head(f.code).op \in {"label", "same", "here"}
  <2>1. After(g, p) = { Point(f.rule, Tail(f.code), read) }
    BY <1>1, <1>3 DEF After
  <2>2. Point(f.rule, Tail(f.code), read) \in points
    BY <1>2, <2>1
  <2>3. PICK c : c = Tail(f.code)
    OBVIOUS
  <2>4. /\ AtPoint(g, points, [f EXCEPT !.code = c], read)
        /\ AtPoint(g, points, [f EXCEPT !.code = c, !.label = l], read)
    BY <2>2, <2>3, ContinuesAt DEF AtPoint
  <2>5. QED
    BY <1>3, <2>3, <2>4
<1>4. CASE Head(f.code).op = "again"
  <2>1. After(g, p) = { Point(f.rule, g[f.rule], read) }
    BY <1>1, <1>4 DEF After
  <2>2. Point(f.rule, g[f.rule], read) \in points
    BY <1>2, <2>1
  <2>3. PICK c : c = g[f.rule]
    OBVIOUS
  <2>4. AtPoint(g, points, [f EXCEPT !.code = c], read)
    BY <2>2, <2>3, ContinuesAt DEF AtPoint
  <2>5. QED
    BY <1>4, <2>3, <2>4
<1>5. QED
  BY <1>3, <1>4

LEMMA CallGoesDown ==
  ASSUME NEW g, NEW points, NEW rank, Descends(g, points, rank),
         NEW f, NEW read, AtPoint(g, points, f, read), f.code # <<>>,
         Head(f.code).op \in {"test", "while"}, Head(f.code).what.by = "rule",
         NEW q, q = Head(f.code).what.of[1]
  PROVE  /\ q \in DOMAIN g /\ Point(q, g[q], FALSE) \in points
         /\ read = FALSE => rank[q] < rank[f.rule]
<1>1. PICK p \in points : p = Point(f.rule, f.code, read)
  BY DEF AtPoint
<1>2. p.rule = f.rule /\ p.code = f.code /\ p.read = read
  BY <1>1 DEF Point
<1>3. q \in DOMAIN g /\ (read = FALSE => rank[q] < rank[f.rule])
  BY <1>2 DEF Descends
<1>4. QED
  BY <1>3 DEF Descends, Start

-----------------------------------------------------------------------------
(* The invariant of the descent, and the kinds of steps once more.         *)

Grammar == Rules[file.language]

\* How far a parse function in progress has read: to the call it is at.
Reached(k) == IF k = Depth THEN position ELSE saved[k + 1]

AtTest(f) == f.code # <<>> /\ Head(f.code).op \in {"test", "while"}

DescentInv(points, rank) ==
  /\ \A k \in 1 .. Depth :
       AtPoint(Grammar, points[file.language], frames[k], saved[k] < Reached(k))
  /\ \A k \in 1 .. Depth - 1 : AtTest(frames[k])
  /\ \A i, j \in 1 .. Depth :
       i < j /\ saved[i] = saved[j] =>
         rank[file.language][frames[j].rule] < rank[file.language][frames[i].rule]

GoesOn(points) ==
  /\ Depth > 0 /\ position' \in position .. Len(tokens)
  /\ \E f : /\ IsFrame(f) /\ f.rule = Top.rule
            /\ AtPoint(Grammar, points[file.language], f, saved[Depth] < position')
            /\ frames' = WithTop(f)
  /\ UNCHANGED <<file, saved>>

GoesDown(points, rank) ==
  /\ saved' = Append(saved, position)
  /\ Depth > 0 => AtTest(Top)
  /\ \E f : /\ AtPoint(Grammar, points[file.language], f, FALSE)
            /\ Depth > 0 /\ saved[Depth] = position =>
                 rank[file.language][f.rule] < rank[file.language][Top.rule]
            /\ frames' = Append(frames, f)
  /\ UNCHANGED <<file, position>>

GoesUp ==
  /\ Depth > 0 /\ Leaves
  /\ Depth > 1 =>
       \E found \in BOOLEAN : \E f :
         /\ found => saved[Depth] < position'
         /\ ~found => position' = saved[Depth]
         /\ f.rule = frames[Depth - 1].rule /\ f.code = Continue(frames[Depth - 1], found).code
         /\ frames'[Depth - 1] = f
         /\ \A i \in 1 .. Depth - 2 : frames'[i] = frames[i]

Waits == UNCHANGED <<file, position, saved, frames>>

LEMMA TopGoesOn ==
  ASSUME IInv, NEW points, NEW rank, NoLeftRecursion(points, rank), DescentInv(points, rank),
         Running
  PROVE  /\ Descends(Grammar, points[file.language], rank[file.language])
         /\ Depth > 0 /\ IsFrame(Top) /\ saved[Depth] \in Nat /\ position \in Nat
         /\ saved[Depth] <= position
         /\ AtPoint(Grammar, points[file.language], Top, saved[Depth] < position)
<1>1. Depth \in 1 .. Len(frames) /\ IsFrame(Top) /\ Depth \in Nat /\ Depth > 0 /\ file \in Files
  BY TopIs DEF IInv, Shape, Running
<1>2. Depth \in 1 .. Depth /\ Reached(Depth) = position
  BY <1>1 DEF Reached
<1>3. saved[Depth] \in Nat /\ position \in Nat /\ saved[Depth] <= position
  BY <1>1, <1>2 DEF IInv, Shape, Places, PositionsNest, Depth
<1>4. AtPoint(Grammar, points[file.language], Top, saved[Depth] < position)
  BY <1>2 DEF DescentInv, Top
<1>5. Descends(Grammar, points[file.language], rank[file.language])
  BY <1>1 DEF NoLeftRecursion, Grammar
<1>6. QED
  BY <1>1, <1>3, <1>4, <1>5

LEMMA StepGoesOn ==
  ASSUME IInv, NEW points, NEW rank, NoLeftRecursion(points, rank), DescentInv(points, rank),
         Consume \/ Miss \/ Look \/ KeepLabel \/ SameLabel \/ Restart \/ PositionKnown
  PROVE  GoesOn(points)
<1>1. Running /\ Top.code # <<>>
  BY DEF Consume, Miss, Look, KeepLabel, SameLabel, Restart, PositionKnown, Fetch
<1>2. /\ Descends(Grammar, points[file.language], rank[file.language])
      /\ Depth > 0 /\ IsFrame(Top) /\ saved[Depth] \in Nat /\ position \in Nat
      /\ saved[Depth] <= position
      /\ AtPoint(Grammar, points[file.language], Top, saved[Depth] < position)
  BY <1>1, TopGoesOn
<1>3. UNCHANGED <<file, saved>>
  BY DEF Consume, Miss, Look, KeepLabel, SameLabel, Restart, PositionKnown
<1>4. Len(tokens) \in Nat /\ position <= Len(tokens)
  BY <1>2, SizeIs DEF IInv, Shape, Places
<1>5. ASSUME position' = position,
             NEW f, IsFrame(f), f.rule = Top.rule, frames' = WithTop(f),
             AtPoint(Grammar, points[file.language], f, saved[Depth] < position)
      PROVE  GoesOn(points)
  <2>1. position' \in position .. Len(tokens)
    BY <1>2, <1>4, <1>5
  <2>2. AtPoint(Grammar, points[file.language], f, saved[Depth] < position')
    BY <1>5
  <2>3. QED
    BY <1>2, <1>3, <1>5, <2>1, <2>2 DEF GoesOn
<1>6. PICK r : r = (saved[Depth] < position)
  OBVIOUS
<1>7. AtPoint(Grammar, points[file.language], Top, r)
  BY <1>2, <1>6
<1>8. ASSUME NEW c, NEW l
      PROVE  /\ IsFrame([Top EXCEPT !.code = c]) /\ [Top EXCEPT !.code = c].rule = Top.rule
             /\ IsFrame([Top EXCEPT !.code = c, !.label = l])
             /\ [Top EXCEPT !.code = c, !.label = l].rule = Top.rule
  <2>1. PICK t : t = Top /\ IsFrame(t)
    BY <1>2
  <2>2. IsFrame([t EXCEPT !.code = c]) /\ IsFrame([t EXCEPT !.code = c, !.label = l])
    BY <2>1, CodeIs
  <2>3. [t EXCEPT !.code = c].rule = t.rule /\ [t EXCEPT !.code = c, !.label = l].rule = t.rule
    BY <2>1, ContinuesAt
  <2>4. QED
    BY <2>1, <2>2, <2>3
<1>9. ASSUME NEW b \in BOOLEAN
      PROVE  IsFrame(Continue(Top, b)) /\ Continue(Top, b).rule = Top.rule
  BY <1>2, ContinueIs, ContinuesAt
<1>10. CASE Consume
  <2>1. position' \in position + 1 .. Len(tokens) /\ frames' = WithTop(Continue(Top, TRUE))
    BY <1>10 DEF Consume
  <2>2. saved[Depth] < position' /\ position' \in position .. Len(tokens)
    BY <1>2, <1>4, <2>1
  <2>3. Head(Top.code).op \in {"test", "while"}
    BY <1>10 DEF Consume, Fetch
  <2>4. AtPoint(Grammar, points[file.language], Continue(Top, TRUE), TRUE)
    BY <1>1, <1>2, <1>7, <2>3, TestGoesOn
  <2>5. PICK f : f = Continue(Top, TRUE)
    OBVIOUS
  <2>6. AtPoint(Grammar, points[file.language], f, saved[Depth] < position')
    <3>1. (saved[Depth] < position') = TRUE
      BY <2>2
    <3>2. AtPoint(Grammar, points[file.language], f, TRUE)
      BY <2>4, <2>5
    <3>3. QED
      BY <3>1, <3>2
  <2>7. IsFrame(f) /\ f.rule = Top.rule /\ frames' = WithTop(f)
    BY <1>9, <2>1, <2>5
  <2>8. QED
    BY <1>2, <1>3, <2>2, <2>6, <2>7 DEF GoesOn
<1>11. CASE Miss
  <2>1. position' = position /\ frames' = WithTop(Continue(Top, FALSE))
    BY <1>11 DEF Miss
  <2>2. Head(Top.code).op \in {"test", "while"}
    BY <1>11 DEF Miss, Fetch
  <2>3. AtPoint(Grammar, points[file.language], Continue(Top, FALSE), r)
    BY <1>1, <1>2, <1>7, <2>2, TestGoesOn
  <2>4. PICK f : f = Continue(Top, FALSE)
    OBVIOUS
  <2>5. IsFrame(f) /\ f.rule = Top.rule /\ frames' = WithTop(f)
        /\ AtPoint(Grammar, points[file.language], f, saved[Depth] < position)
    BY <1>6, <1>9, <2>1, <2>3, <2>4
  <2>6. QED
    BY <1>5, <2>1, <2>5
<1>12. CASE Look
  <2> DEFINE seen == IF Now.what.by = "type"
                     THEN tokens[position + Now.skip + 1].type = Now.what.of[1]
                     ELSE /\ position + Now.skip + Len(Now.what.of) <= Len(tokens)
                          /\ \A i \in 1 .. Len(Now.what.of) :
                               tokens[position + Now.skip + i] = [type |-> "SPECIAL", text |-> Now.what.of[i]]
  <2>1. position' = position /\ frames' = WithTop(Continue(Top, seen))
    BY <1>12 DEF Look
  <2>2. seen \in BOOLEAN
    OBVIOUS
  <2> HIDE DEF seen
  <2>3. Head(Top.code).op = "ahead"
    BY <1>12 DEF Look, Fetch
  <2>4. AtPoint(Grammar, points[file.language], Continue(Top, seen), r)
    BY <1>1, <1>2, <1>7, <2>2, <2>3, LookGoesOn
  <2>5. PICK f : f = Continue(Top, seen)
    OBVIOUS
  <2>6. IsFrame(f) /\ f.rule = Top.rule /\ frames' = WithTop(f)
        /\ AtPoint(Grammar, points[file.language], f, saved[Depth] < position)
    BY <1>6, <1>9, <2>1, <2>2, <2>4, <2>5
  <2>7. QED
    BY <1>5, <2>1, <2>6
<1>13. CASE SameLabel \/ PositionKnown
  <2>1. position' = position /\ frames' = WithTop([Top EXCEPT !.code = Tail(Top.code)])
    BY <1>13 DEF SameLabel, PositionKnown
  <2>2. Head(Top.code).op \in {"label", "same", "here"}
    BY <1>13 DEF SameLabel, PositionKnown, Fetch
  <2>3. AtPoint(Grammar, points[file.language], [Top EXCEPT !.code = Tail(Top.code)], r)
    BY <1>1, <1>2, <1>7, <2>2, PlainGoesOn
  <2>4. PICK f : f = [Top EXCEPT !.code = Tail(Top.code)]
    OBVIOUS
  <2>5. IsFrame(f) /\ f.rule = Top.rule /\ frames' = WithTop(f)
        /\ AtPoint(Grammar, points[file.language], f, saved[Depth] < position)
    BY <1>6, <1>8, <2>1, <2>3, <2>4
  <2>6. QED
    BY <1>5, <2>1, <2>5
<1>14. CASE KeepLabel
  <2>0. PICK l : l = tokens[position].text
    OBVIOUS
  <2>1. position' = position /\ frames' = WithTop([Top EXCEPT !.code = Tail(Top.code), !.label = l])
    BY <1>14, <2>0 DEF KeepLabel
  <2>2. Head(Top.code).op \in {"label", "same", "here"}
    BY <1>14 DEF KeepLabel, Fetch
  <2>3. AtPoint(Grammar, points[file.language], [Top EXCEPT !.code = Tail(Top.code), !.label = l], r)
    BY <1>1, <1>2, <1>7, <2>2, PlainGoesOn
  <2>4. PICK f : f = [Top EXCEPT !.code = Tail(Top.code), !.label = l]
    OBVIOUS
  <2>5. IsFrame(f) /\ f.rule = Top.rule /\ frames' = WithTop(f)
        /\ AtPoint(Grammar, points[file.language], f, saved[Depth] < position)
    BY <1>6, <1>8, <2>1, <2>3, <2>4
  <2>6. QED
    BY <1>5, <2>1, <2>5
<1>15. CASE Restart
  <2>1. position' = position /\ frames' = WithTop([Top EXCEPT !.code = Grammar[Top.rule]])
    BY <1>15 DEF Restart, Grammar
  <2>2. Head(Top.code).op = "again"
    BY <1>15 DEF Restart, Fetch
  <2>3. AtPoint(Grammar, points[file.language], [Top EXCEPT !.code = Grammar[Top.rule]], r)
    BY <1>1, <1>2, <1>7, <2>2, PlainGoesOn
  <2>4. PICK f : f = [Top EXCEPT !.code = Grammar[Top.rule]]
    OBVIOUS
  <2>5. IsFrame(f) /\ f.rule = Top.rule /\ frames' = WithTop(f)
        /\ AtPoint(Grammar, points[file.language], f, saved[Depth] < position)
    BY <1>6, <1>8, <2>1, <2>3, <2>4
  <2>6. QED
    BY <1>5, <2>1, <2>5
<1>16. QED
  BY <1>10, <1>11, <1>12, <1>13, <1>14, <1>15

LEMMA FrameAt ==
  ASSUME NEW g, NEW q
  PROVE  LET f == [rule |-> q, code |-> g[q], label |-> "", found |-> <<>>]
         IN  f.rule = q /\ f.code = g[q]
OBVIOUS

LEMMA StepGoesDown ==
  ASSUME IInv, NEW points, NEW rank, NoLeftRecursion(points, rank), DescentInv(points, rank),
         NextUnit \/ Call
  PROVE  GoesDown(points, rank)
<1>1. IsSequence(saved) /\ IsSequence(frames) /\ Len(frames) = Depth /\ Depth \in Nat /\ file \in Files
  BY SequenceHas DEF IInv, Shape, Depth
<1>2. CASE NextUnit
  <2>1. saved = <<>> /\ frames = <<>> /\ Depth = 0
    BY <1>1, <1>2, EmptySeq DEF NextUnit, Depth, IsSequence
  <2>2. PICK f : f = Frame("DesignUnit")
    OBVIOUS
  <2>3. saved' = Append(saved, position) /\ frames' = Append(frames, f) /\ UNCHANGED <<file, position>>
    BY <1>2, <2>1, <2>2 DEF NextUnit
  <2>4. f.rule = "DesignUnit" /\ f.code = Grammar["DesignUnit"]
    BY <2>2 DEF Frame, Grammar
  <2>5. Descends(Grammar, points[file.language], rank[file.language])
    BY <1>1 DEF NoLeftRecursion, Grammar
  <2>6. AtPoint(Grammar, points[file.language], f, FALSE)
    BY <2>4, <2>5 DEF Descends, Start, AtPoint
  <2>7. ~(Depth > 0)
    BY <2>1
  <2>8. QED
    BY <2>3, <2>6, <2>7 DEF GoesDown
<1>3. CASE Call
  <2>1. Running /\ AtTest(Top) /\ Now = Head(Top.code) /\ Now.what.by = "rule"
    BY <1>3 DEF Call, Fetch, AtTest, Now
  <2>2. PICK q : q = Now.what.of[1]
    OBVIOUS
  <2>3. PICK f : f = Frame(q)
    OBVIOUS
  <2>4. saved' = Append(saved, position) /\ frames' = Append(frames, f) /\ UNCHANGED <<file, position>>
    BY <1>3, <2>2, <2>3 DEF Call
  <2>5. f.rule = q /\ f.code = Grammar[q]
    BY <2>3 DEF Frame, Grammar
  <2>6. /\ Descends(Grammar, points[file.language], rank[file.language])
        /\ Depth > 0 /\ saved[Depth] \in Nat /\ position \in Nat
        /\ AtPoint(Grammar, points[file.language], Top, saved[Depth] < position)
    BY <2>1, TopGoesOn
  <2>7. PICK r : r = (saved[Depth] < position)
    OBVIOUS
  <2>8. /\ q \in DOMAIN Grammar /\ Point(q, Grammar[q], FALSE) \in points[file.language]
        /\ r = FALSE => rank[file.language][q] < rank[file.language][Top.rule]
    <3>1. AtPoint(Grammar, points[file.language], Top, r)
      BY <2>6, <2>7
    <3>2. Top.code # <<>> /\ Head(Top.code).op \in {"test", "while"} /\ Head(Top.code).what.by = "rule"
          /\ q = Head(Top.code).what.of[1]
      BY <2>1, <2>2 DEF AtTest
    <3>3. PICK g, ps, rk, t : g = Grammar /\ ps = points[file.language] /\ rk = rank[file.language] /\ t = Top
      OBVIOUS
    <3>4. /\ Descends(g, ps, rk) /\ AtPoint(g, ps, t, r) /\ t.code # <<>>
          /\ Head(t.code).op \in {"test", "while"} /\ Head(t.code).what.by = "rule"
          /\ q = Head(t.code).what.of[1]
      BY <2>6, <3>1, <3>2, <3>3
    <3>5. q \in DOMAIN g /\ Point(q, g[q], FALSE) \in ps /\ (r = FALSE => rk[q] < rk[t.rule])
      BY <3>4, CallGoesDown
    <3>6. QED
      BY <3>3, <3>5
  <2>9. AtPoint(Grammar, points[file.language], f, FALSE)
    BY <2>5, <2>8 DEF AtPoint
  <2>10. ASSUME saved[Depth] = position PROVE r = FALSE
    <3>1. (saved[Depth] < position) = FALSE
      BY <2>6, <2>10
    <3>2. QED
      BY <2>7, <3>1
  <2>11. Depth > 0 /\ saved[Depth] = position
         => rank[file.language][f.rule] < rank[file.language][Top.rule]
    BY <2>5, <2>8, <2>10
  <2>12. QED
    BY <2>1, <2>4, <2>9, <2>11 DEF GoesDown
<1>4. QED
  BY <1>2, <1>3

LEMMA StepGoesUp ==
  ASSUME IInv, Return \/ GoBack
  PROVE  GoesUp
<1>1. /\ Running /\ Depth > 0 /\ saved[Depth] \in Nat /\ position \in Nat /\ saved[Depth] <= position
  <2>1. Running
    BY DEF Return, GoBack, Fetch
  <2>2. Depth \in 1 .. Len(frames) /\ Depth \in Nat /\ Depth > 0
    BY <2>1, TopIs DEF IInv, Shape, Running
  <2>3. Depth \in 1 .. Depth
    BY <2>2
  <2>4. QED
    BY <2>1, <2>2, <2>3 DEF IInv, Shape, Places, PositionsNest, Depth
<1>2. PICK found, node :
        /\ found \in BOOLEAN /\ Leave(found, node)
        /\ found => saved[Depth] < position'
        /\ ~found => position' = saved[Depth]
  <2>1. CASE Return
    <3> DEFINE node == Node(Top.rule, saved[Depth], position, Top.found)
    <3>1. position' = position /\ Leave(position > saved[Depth], node)
      BY <2>1 DEF Return
    <3> HIDE DEF node
    <3>2. PICK found : found = (position > saved[Depth])
      OBVIOUS
    <3>3. found \in BOOLEAN /\ Leave(found, node)
      BY <3>1, <3>2
    <3>4. found => saved[Depth] < position'
      BY <1>1, <3>1, <3>2
    <3>5. ~found => position' = saved[Depth]
      <4>1. ~found => ~(position > saved[Depth])
        BY <3>2
      <4>2. QED
        BY <1>1, <3>1, <4>1
    <3>6. QED
      BY <3>3, <3>4, <3>5
  <2>2. CASE GoBack
    BY <2>2 DEF GoBack
  <2>3. QED
    BY <2>1, <2>2
<1>3. Leaves
  <2>1. ~Within /\ ~Enters /\ ~Ends /\ ~UNCHANGED vars
    <3>1. saved' = SubSeq(saved, 1, Depth - 1) /\ IsSequence(saved) /\ Len(saved) = Depth /\ saved # <<>>
      BY <1>1, <1>2, EmptyIs DEF Leave, IInv, Shape, Depth
    <3>2. Len(saved') = Depth - 1 /\ Depth \in Nat
      BY <3>1, FrontIs
    <3>3. Len(Append(saved, position)) = Depth + 1
      BY <3>1, AppendIs
    <3>4. saved' # saved /\ saved' # Append(saved, position)
      BY <3>1, <3>2, <3>3
    <3>5. QED
      BY <3>4 DEF Within, Enters, Ends, vars
  <2>2. [Next]_vars
    BY DEF Next
  <2>3. QED
    BY <2>1, <2>2, StepKind DEF StepOK
<1>4. ASSUME Depth > 1
      PROVE  \E f : /\ f.rule = frames[Depth - 1].rule
                    /\ f.code = Continue(frames[Depth - 1], found).code
                    /\ frames'[Depth - 1] = f
                    /\ \A i \in 1 .. Depth - 2 : frames'[i] = frames[i]
  <2> DEFINE fs == SubSeq(frames, 1, Depth - 1)
  <2>1. IsSequence(frames) /\ Len(frames) = Depth /\ Depth \in Nat /\ frames # <<>>
    BY <1>1, EmptyIs, SequenceHas DEF IInv, Shape, Depth
  <2>2. IsSequence(fs) /\ Len(fs) = Depth - 1 /\ \A i \in 1 .. Depth - 1 : fs[i] = frames[i]
    BY <2>1, FrontIs
  <2>3. PICK caller : caller = frames[Depth - 1]
    OBVIOUS
  <2>4. IsFrame(caller)
    BY <1>4, <2>1, <2>3 DEF IInv, Shape
  <2>5. PICK with : with = IF found THEN [caller EXCEPT !.found = Append(@, node)] ELSE caller
    OBVIOUS
  <2>6. IsFrame(with) /\ with.rule = caller.rule /\ with.code = caller.code
    <3>1. CASE found
      BY <2>4, <2>5, <3>1, FoundIs DEF IsFrame, FrameFields
    <3>2. CASE ~found
      BY <2>4, <2>5, <3>2
    <3>3. QED
      BY <3>1, <3>2
  <2>7. PICK after : after = Continue(with, found)
    OBVIOUS
  <2>8. after.rule = caller.rule /\ after.code = Continue(caller, found).code
    BY <2>4, <2>6, <2>7, ContinuesAt
  <2>9. frames' = [fs EXCEPT ![Depth - 1] = after]
    BY <1>2, <1>4, <2>3, <2>5, <2>7 DEF Leave
  <2> HIDE DEF fs
  <2>10. \A i \in 1 .. Depth - 1 : frames'[i] = IF i = Depth - 1 THEN after ELSE fs[i]
    <3>1. Depth - 1 \in 1 .. Len(fs)
      BY <1>4, <2>1, <2>2
    <3>2. QED
      BY <2>2, <2>9, <3>1, ReplacedIs
  <2>11. frames'[Depth - 1] = after /\ \A i \in 1 .. Depth - 2 : frames'[i] = frames[i]
    <3>1. Depth - 1 \in 1 .. Depth - 1
      BY <1>4, <2>1
    <3>2. \A i \in 1 .. Depth - 2 : i \in 1 .. Depth - 1 /\ i # Depth - 1
      BY <2>1
    <3>3. QED
      BY <2>2, <2>10, <3>1, <3>2
  <2>12. QED
    BY <2>3, <2>8, <2>11
<1>5. QED
  BY <1>1, <1>2, <1>3, <1>4 DEF GoesUp

LEMMA StepGoes ==
  ASSUME IInv, NEW points, NEW rank, NoLeftRecursion(points, rank), DescentInv(points, rank),
         [Next]_vars
  PROVE  GoesOn(points) \/ GoesDown(points, rank) \/ GoesUp \/ Waits
<1>1. CASE Consume \/ Miss \/ Look \/ KeepLabel \/ SameLabel \/ Restart \/ PositionKnown
  BY <1>1, StepGoesOn
<1>2. CASE NextUnit \/ Call
  BY <1>2, StepGoesDown
<1>3. CASE Return \/ GoBack
  BY <1>3, StepGoesUp
<1>4. CASE ErrorReport \/ EndOfTokens \/ FollowNull \/ Done \/ UNCHANGED vars
  BY <1>4 DEF ErrorReport, EndOfTokens, FollowNull, LeaveParse, Done, vars, Waits
<1>5. QED
  BY <1>1, <1>2, <1>3, <1>4 DEF Next

\* What was remembered last lies behind what was remembered before.
LEMMA SavedRise ==
  ASSUME IInv, NEW i \in 1 .. Depth
  PROVE  saved[i] <= saved[Depth]
<1>1. /\ Depth \in Nat /\ PositionsNest /\ \A k \in 1 .. Depth : saved[k] \in Nat
  BY SizeIs, SequenceHas DEF IInv, Shape, Depth, Places
<1> DEFINE S == {n \in 0 .. Depth - i : saved[i] <= saved[i + n]}
<1>2. Depth - i \in Nat
  BY <1>1
<1>3. 0 \in S
  BY <1>1, <1>2
<1>4. ASSUME NEW n \in 0 .. Depth - i - 1, n \in S PROVE n + 1 \in S
  <2>1. i + n \in 1 .. Depth /\ i + (n + 1) \in 2 .. Depth /\ i + (n + 1) \in 1 .. Depth
        /\ (i + (n + 1)) - 1 = i + n /\ n + 1 \in 0 .. Depth - i
    BY <1>1, <1>2
  <2>2. saved[i + n] <= saved[i + (n + 1)]
    BY <1>1, <2>1 DEF PositionsNest
  <2>3. saved[i] <= saved[i + n]
    BY <1>4
  <2>4. saved[i] <= saved[i + (n + 1)]
    BY <1>1, <2>1, <2>2, <2>3
  <2>5. QED
    BY <2>1, <2>4
<1>5. 0 .. Depth - i \subseteq S
  <2>1. PICK m \in Nat : m = Depth - i
    BY <1>2
  <2> HIDE DEF S
  <2>2. \A n \in 0 .. m - 1 : n \in S => n + 1 \in S
    BY <1>4, <2>1
  <2>3. QED
    BY <1>3, <2>1, <2>2, RangeInduction
<1>6. Depth - i \in S
  BY <1>2, <1>5
<1>7. i + (Depth - i) = Depth
  BY <1>1
<1>8. QED
  BY <1>6, <1>7

-----------------------------------------------------------------------------
(* Each kind keeps the invariant.                                          *)

LEMMA GoesOnKeeps ==
  ASSUME IInv, NEW points, NEW rank, DescentInv(points, rank), GoesOn(points)
  PROVE  DescentInv(points, rank)'
<1>1. /\ IsSequence(frames) /\ Len(frames) = Depth /\ Depth \in Nat /\ Depth \in 1 .. Depth
      /\ file' = file /\ saved' = saved /\ position \in Nat /\ position' \in Nat /\ position <= position'
  BY SizeIs, SequenceHas DEF IInv, Shape, Depth, GoesOn, Places
<1>2. PICK f : /\ IsFrame(f) /\ f.rule = Top.rule
               /\ AtPoint(Grammar, points[file.language], f, saved[Depth] < position')
               /\ frames' = [frames EXCEPT ![Depth] = f]
  BY DEF GoesOn, WithTop
<1>3. \A k \in 1 .. Depth : frames'[k] = IF k = Depth THEN f ELSE frames[k]
  BY <1>1, <1>2, ReplacedIs
<1>4. Depth' = Depth /\ Grammar' = Grammar
  BY <1>1 DEF Depth, Grammar
<1>5. \A k \in 1 .. Depth : frames'[k].rule = frames[k].rule
  BY <1>1, <1>2, <1>3 DEF Top
<1>6. ASSUME NEW k \in 1 .. Depth
      PROVE  AtPoint(Grammar, points[file.language], frames'[k], saved[k] < Reached(k)')
  <2>1. CASE k = Depth
    <3>1. Reached(k)' = position' /\ frames'[k] = f
      BY <1>3, <1>4, <2>1 DEF Reached
    <3>2. QED
      BY <1>2, <2>1, <3>1
  <2>2. CASE k # Depth
    <3>1. Reached(k)' = Reached(k) /\ frames'[k] = frames[k]
      BY <1>1, <1>3, <1>4, <2>2 DEF Reached
    <3>2. QED
      BY <3>1 DEF DescentInv
  <2>3. QED
    BY <2>1, <2>2
<1>7. \A k \in 1 .. Depth - 1 : AtTest(frames'[k])
  <2>1. \A k \in 1 .. Depth - 1 : k \in 1 .. Depth /\ k # Depth
    BY <1>1
  <2>2. QED
    BY <1>3, <2>1 DEF DescentInv
<1>8. \A k \in 1 .. Depth : AtPoint(Grammar, points[file.language], frames[k], saved[k] < Reached(k))'
  BY <1>1, <1>4, <1>6
<1>9. \A i, j \in 1 .. Depth :
        i < j /\ saved'[i] = saved'[j] =>
          rank[file'.language][frames'[j].rule] < rank[file'.language][frames'[i].rule]
  BY <1>1, <1>5 DEF DescentInv
<1>10. \A k \in 1 .. Depth - 1 : AtTest(frames[k])'
  BY <1>7 DEF AtTest
<1>11. QED
  BY <1>4, <1>8, <1>9, <1>10 DEF DescentInv

LEMMA GoesDownKeeps ==
  ASSUME IInv, NEW points, NEW rank, NoLeftRecursion(points, rank), DescentInv(points, rank),
         GoesDown(points, rank)
  PROVE  DescentInv(points, rank)'
<1>1. /\ Shape /\ PositionsNest /\ IsSequence(saved) /\ IsSequence(frames) /\ Len(frames) = Depth
      /\ Depth \in Nat /\ Len(saved) = Depth /\ file' = file /\ position' = position
      /\ position \in Nat /\ \A k \in 1 .. Depth : saved[k] \in Nat
  BY SizeIs, SequenceHas DEF IInv, Shape, Depth, GoesDown, Places
<1>2. PICK f : /\ AtPoint(Grammar, points[file.language], f, FALSE)
               /\ Depth > 0 /\ saved[Depth] = position =>
                    rank[file.language][f.rule] < rank[file.language][Top.rule]
               /\ frames' = Append(frames, f)
  BY DEF GoesDown
<1>3. saved'[Depth + 1] = position /\ Len(saved') = Depth + 1 /\ \A k \in 1 .. Depth : saved'[k] = saved[k]
  BY <1>1, AppendIs DEF GoesDown
<1>4. frames'[Depth + 1] = f /\ \A k \in 1 .. Depth : frames'[k] = frames[k]
  BY <1>1, <1>2, AppendIs
<1>5. Depth' = Depth + 1 /\ Grammar' = Grammar
  BY <1>1, <1>3 DEF Depth, Grammar
<1>6. \A k \in 1 .. Depth + 1 : k \in 1 .. Depth \/ k = Depth + 1
  BY <1>1
<1>7. ASSUME NEW k \in 1 .. Depth + 1
      PROVE  AtPoint(Grammar, points[file.language], frames'[k], saved'[k] < Reached(k)')
  <2>1. CASE k = Depth + 1
    <3>1. Reached(k)' = position /\ saved'[k] = position
      BY <1>1, <1>3, <1>5, <2>1 DEF Reached
    <3>2. (saved'[k] < Reached(k)') = FALSE
      BY <1>1, <3>1
    <3>3. QED
      BY <1>2, <1>4, <2>1, <3>2
  <2>2. CASE k \in 1 .. Depth
    <3>1. Reached(k)' = Reached(k)
      <4>1. k # Depth + 1 /\ k + 1 \in 1 .. Depth + 1 /\ (k # Depth => k + 1 \in 1 .. Depth)
        BY <1>1, <2>2
      <4>2. Reached(k)' = saved'[k + 1]
        BY <1>5, <4>1 DEF Reached
      <4>3. QED
        BY <1>3, <4>1, <4>2 DEF Reached
    <3>2. frames'[k] = frames[k] /\ saved'[k] = saved[k]
      BY <1>3, <1>4, <2>2
    <3>3. QED
      BY <2>2, <3>1, <3>2 DEF DescentInv
  <2>3. QED
    BY <1>6, <2>1, <2>2
<1>8. ASSUME NEW k \in 1 .. Depth PROVE AtTest(frames'[k])
  <2>1. CASE k = Depth
    BY <1>1, <1>4, <2>1 DEF GoesDown, Top
  <2>2. CASE k # Depth
    <3>1. k \in 1 .. Depth - 1
      BY <1>1, <2>2
    <3>2. QED
      BY <1>4, <3>1 DEF DescentInv
  <2>3. QED
    BY <2>1, <2>2
<1>9. ASSUME NEW i \in 1 .. Depth + 1, NEW j \in 1 .. Depth + 1, i < j, saved'[i] = saved'[j]
      PROVE  rank[file.language][frames'[j].rule] < rank[file.language][frames'[i].rule]
  <2>1. i \in 1 .. Depth
    BY <1>1, <1>9
  <2>2. CASE j \in 1 .. Depth
    <3>1. saved[i] = saved[j] /\ frames'[i] = frames[i] /\ frames'[j] = frames[j]
      BY <1>3, <1>4, <1>9, <2>1, <2>2
    <3>2. QED
      BY <1>9, <2>1, <2>2, <3>1 DEF DescentInv
  <2>3. CASE j = Depth + 1
    <3>1. saved[i] = position /\ frames'[i] = frames[i] /\ frames'[j] = f
      BY <1>3, <1>4, <1>9, <2>1, <2>3
    <3>2. Depth > 0 /\ Depth \in 1 .. Depth
      BY <1>1, <2>1
    <3>3. saved[i] <= saved[Depth] /\ saved[Depth] <= position
      BY <1>1, <2>1, <3>2, SavedRise DEF PositionsNest
    <3>4. saved[Depth] = position /\ saved[i] = saved[Depth]
      BY <1>1, <2>1, <3>1, <3>2, <3>3
    <3>5. rank[file.language][f.rule] < rank[file.language][Top.rule]
      BY <1>2, <3>2, <3>4
    <3>6. CASE i = Depth
      BY <3>1, <3>5, <3>6 DEF Top
    <3>7. CASE i # Depth
      <4>1. i < Depth
        BY <1>1, <2>1, <3>7
      <4>2. rank[file.language][Top.rule] < rank[file.language][frames[i].rule]
        BY <2>1, <3>2, <3>4, <4>1 DEF DescentInv, Top
      <4>3. /\ rank[file.language][f.rule] \in Nat /\ rank[file.language][Top.rule] \in Nat
            /\ rank[file.language][frames[i].rule] \in Nat
        <5>1. /\ AtPoint(Grammar, points[file.language], frames[i], saved[i] < Reached(i))
              /\ AtPoint(Grammar, points[file.language], Top, saved[Depth] < Reached(Depth))
          BY <2>1, <3>2 DEF DescentInv, Top
        <5>2. f.rule \in DOMAIN Grammar /\ Top.rule \in DOMAIN Grammar /\ frames[i].rule \in DOMAIN Grammar
          BY <1>2, <5>1 DEF AtPoint
        <5>3. Descends(Grammar, points[file.language], rank[file.language])
          BY <1>1 DEF NoLeftRecursion, Grammar, Shape
        <5>4. rank[file.language] \in [DOMAIN Grammar -> Nat]
          BY <5>3 DEF Descends
        <5>5. QED
          BY <5>2, <5>4
      <4>4. rank[file.language][f.rule] < rank[file.language][frames[i].rule]
        BY <3>5, <4>2, <4>3
      <4>5. QED
        BY <3>1, <4>4
    <3>8. QED
      BY <3>6, <3>7
  <2>4. QED
    BY <1>6, <2>2, <2>3
<1>10. \A k \in 1 .. Depth + 1 : AtPoint(Grammar, points[file.language], frames[k], saved[k] < Reached(k))'
  BY <1>1, <1>5, <1>7
<1>11. \A k \in 1 .. Depth : AtTest(frames[k])'
  BY <1>8 DEF AtTest
<1>12. Depth' = Depth + 1 /\ Depth' - 1 = Depth /\ file' = file
  BY <1>1, <1>5
<1>13. QED
  BY <1>9, <1>10, <1>11, <1>12 DEF DescentInv

LEMMA GoesUpKeeps ==
  ASSUME IInv, NEW points, NEW rank, NoLeftRecursion(points, rank), DescentInv(points, rank), GoesUp
  PROVE  DescentInv(points, rank)'
<1>1. /\ Shape /\ PositionsNest /\ Depth \in Nat \ {0} /\ Leaves /\ file' = file /\ file \in Files
      /\ position \in Nat /\ \A k \in 1 .. Depth : saved[k] \in Nat /\ IsFrame(frames[k])
  BY SizeIs, SequenceHas DEF IInv, Shape, Depth, GoesUp, Leaves, Places
<1>2. Len(saved') = Depth - 1 /\ \A i \in 1 .. Depth - 1 : saved'[i] = saved[i]
  BY <1>1, LeavesTo
<1>3. Depth' = Depth - 1 /\ Grammar' = Grammar
  BY <1>1, <1>2 DEF Depth, Grammar
<1>4. CASE Depth = 1
  BY <1>3, <1>4 DEF DescentInv
<1>5. CASE Depth > 1
  <2>1. PICK found, f :
          /\ found \in BOOLEAN
          /\ found => saved[Depth] < position'
          /\ ~found => position' = saved[Depth]
          /\ f.rule = frames[Depth - 1].rule /\ f.code = Continue(frames[Depth - 1], found).code
          /\ frames'[Depth - 1] = f
          /\ \A i \in 1 .. Depth - 2 : frames'[i] = frames[i]
    BY <1>5 DEF GoesUp
  <2>2. PICK d \in Nat : d = Depth - 1 /\ d \in 1 .. Depth /\ d \in 1 .. d /\ d + 1 = Depth
    BY <1>1, <1>5
  <2>3. PICK caller : caller = frames[d]
    OBVIOUS
  <2>4. PICK r : r = (saved[d] < saved[Depth])
    OBVIOUS
  <2>5. /\ AtPoint(Grammar, points[file.language], caller, r)
        /\ caller.code # <<>> /\ Head(caller.code).op \in {"test", "while"} /\ IsFrame(caller)
    <3>1. Reached(d) = saved[Depth]
      BY <2>2 DEF Reached
    <3>2. AtTest(caller) /\ IsFrame(caller)
      BY <1>1, <2>2, <2>3 DEF DescentInv
    <3>3. QED
      BY <2>2, <2>3, <2>4, <3>1, <3>2 DEF DescentInv, AtTest
  <2>6. Descends(Grammar, points[file.language], rank[file.language])
    BY <1>1 DEF NoLeftRecursion, Grammar
  <2>7. /\ AtPoint(Grammar, points[file.language], Continue(caller, TRUE), TRUE)
        /\ AtPoint(Grammar, points[file.language], Continue(caller, FALSE), r)
    BY <2>5, <2>6, TestGoesOn
  <2>8. saved[d] <= saved[Depth] /\ saved[Depth] \in Nat /\ saved[d] \in Nat /\ position' \in Nat
    <3>1. Depth \in 2 .. Depth /\ Depth \in 1 .. Depth
      BY <1>1, <1>5
    <3>2. position' \in Places
      BY <1>1, LeavesTo
    <3>3. Len(tokens) \in Nat
      BY <1>1, SizeIs
    <3>4. QED
      BY <1>1, <2>2, <3>1, <3>2, <3>3 DEF PositionsNest, Places
  <2>9. AtPoint(Grammar, points[file.language], f, saved[d] < position')
    <3>1. CASE found
      <4>1. (saved[d] < position') = TRUE
        BY <2>1, <2>8, <3>1
      <4>2. PICK c : c = Continue(caller, TRUE)
        OBVIOUS
      <4>3. c.rule = caller.rule
        BY <2>5, <4>2, ContinuesAt
      <4>4. f.rule = c.rule /\ f.code = c.code
        BY <2>1, <2>2, <2>3, <3>1, <4>2, <4>3
      <4>5. AtPoint(Grammar, points[file.language], f, TRUE)
        BY <2>7, <4>2, <4>4 DEF AtPoint
      <4>6. QED
        BY <4>1, <4>5
    <3>2. CASE ~found
      <4>1. (saved[d] < position') = r
        BY <2>1, <2>4, <3>2
      <4>2. PICK c : c = Continue(caller, FALSE)
        OBVIOUS
      <4>3. c.rule = caller.rule
        BY <2>5, <4>2, ContinuesAt
      <4>4. f.rule = c.rule /\ f.code = c.code
        BY <2>1, <2>2, <2>3, <3>2, <4>2, <4>3
      <4>5. AtPoint(Grammar, points[file.language], f, r)
        BY <2>7, <4>2, <4>4 DEF AtPoint
      <4>6. QED
        BY <4>1, <4>5
    <3>3. QED
      BY <3>1, <3>2
  <2>10. \A k \in 1 .. d : k \in 1 .. Depth /\ (k = d \/ k \in 1 .. Depth - 2)
    BY <2>2
  <2>11. \A k \in 1 .. d : frames'[k].rule = frames[k].rule /\ saved'[k] = saved[k]
    BY <1>2, <2>1, <2>2, <2>10
  <2>12. ASSUME NEW k \in 1 .. d
         PROVE  AtPoint(Grammar, points[file.language], frames'[k], saved'[k] < Reached(k)')
    <3>1. CASE k = d
      <4>1. Reached(k)' = position'
        BY <1>3, <2>2, <3>1 DEF Reached
      <4>2. frames'[k] = f /\ saved'[k] = saved[d]
        BY <2>1, <2>2, <2>11, <3>1
      <4>3. QED
        BY <2>9, <4>1, <4>2
    <3>2. CASE k \in 1 .. Depth - 2
      <4>1. k # d /\ k # Depth /\ k + 1 \in 1 .. d /\ k \in 1 .. Depth
        BY <2>2, <3>2
      <4>2. Reached(k)' = saved'[k + 1] /\ Reached(k) = saved[k + 1]
        BY <1>3, <2>2, <4>1 DEF Reached
      <4>3. Reached(k)' = Reached(k) /\ saved'[k] = saved[k] /\ frames'[k] = frames[k]
        BY <2>1, <2>11, <3>2, <4>1, <4>2
      <4>4. QED
        BY <4>1, <4>3 DEF DescentInv
    <3>3. QED
      BY <2>10, <3>1, <3>2
  <2>13. \A k \in 1 .. d - 1 : AtTest(frames'[k])
    <3>1. \A k \in 1 .. d - 1 : k \in 1 .. Depth - 2 /\ k \in 1 .. Depth - 1
      BY <2>2
    <3>2. QED
      BY <2>1, <3>1 DEF DescentInv
  <2>14. \A i, j \in 1 .. d :
           i < j /\ saved'[i] = saved'[j] =>
             rank[file.language][frames'[j].rule] < rank[file.language][frames'[i].rule]
    BY <2>10, <2>11 DEF DescentInv
  <2>15. \A k \in 1 .. d : AtPoint(Grammar, points[file.language], frames[k], saved[k] < Reached(k))'
    BY <1>1, <1>3, <2>12
  <2>16. \A k \in 1 .. d - 1 : AtTest(frames[k])'
    BY <2>13 DEF AtTest
  <2>17. Depth' = d
    BY <1>3, <2>2
  <2>18. QED
    BY <1>1, <2>14, <2>15, <2>16, <2>17 DEF DescentInv
<1>6. QED
  BY <1>1, <1>4, <1>5

LEMMA DescentStep ==
  ASSUME NEW points, NEW rank, NoLeftRecursion(points, rank)
  PROVE  IInv /\ DescentInv(points, rank) /\ [Next]_vars => DescentInv(points, rank)'
<1> SUFFICES ASSUME IInv, DescentInv(points, rank), [Next]_vars PROVE DescentInv(points, rank)'
  OBVIOUS
<1>1. CASE Waits
  <2>1. Depth' = Depth /\ Grammar' = Grammar /\ \A k : Reached(k)' = Reached(k)
    BY <1>1 DEF Waits, Depth, Grammar, Reached
  <2>2. file' = file /\ frames' = frames /\ saved' = saved
    BY <1>1 DEF Waits
  <2>3. QED
    BY <2>1, <2>2 DEF DescentInv, AtTest
<1>2. QED
  BY <1>1, StepGoes, GoesOnKeeps, GoesDownKeeps, GoesUpKeeps

\* In a grammar that is not left recursive no rule is ever called again at the
\* token where it is being parsed, in no file and however deep it nests
\* (Scanner::optional and the functions T::parse); what "not left recursive"
\* asks of a grammar can be seen from its rules alone.
THEOREM NeverCalledWithoutProgress ==
  ASSUME NEW points, NEW rank, NoLeftRecursion(points, rank)
  PROVE  Spec => []NoCallWithoutProgress
<1>1. Init => DescentInv(points, rank)
  <2> SUFFICES ASSUME Init PROVE DescentInv(points, rank)
    OBVIOUS
  <2>1. Depth = 0
    BY EmptyIs DEF Init, Depth
  <2>2. QED
    BY <2>1 DEF DescentInv
<1>2. IInv /\ DescentInv(points, rank) => NoCallWithoutProgress
  <2> SUFFICES ASSUME IInv, DescentInv(points, rank),
                      NEW i \in 1 .. Depth, NEW j \in 1 .. Depth, i < j, saved[i] = saved[j]
               PROVE  frames[i].rule # frames[j].rule
    BY DEF NoCallWithoutProgress
  <2>1. rank[file.language][frames[j].rule] < rank[file.language][frames[i].rule]
    BY DEF DescentInv
  <2>2. frames[i].rule \in DOMAIN Grammar
    BY DEF DescentInv, AtPoint
  <2>3. rank[file.language] \in [DOMAIN Grammar -> Nat]
    BY DEF NoLeftRecursion, Descends, Grammar, IInv, Shape
  <2>4. rank[file.language][frames[i].rule] \in Nat
    BY <2>2, <2>3
  <2>5. QED
    BY <2>1, <2>4
<1>3. IInv /\ DescentInv(points, rank) /\ [Next]_vars => DescentInv(points, rank)'
  BY DescentStep
<1>4. QED
  BY <1>1, <1>2, <1>3, InvAlways, PTL DEF Spec
-----------------------------------------------------------------------------
(* The units of a grammar that closes them.                                *)

\* The tokens that a parse function has read are as noted.
TrueOf(n, ts, from, to) ==
  /\ \A fact \in n.known : Holds(fact, ts, from, to)
  /\ from = to \/ "read" \in n.known

FirstFound(n, found) ==
  IF n.first = {} THEN found = <<>>
  ELSE found # <<>> /\ n.first = {found[1].rule}

Noted(notes, ts, f, from, to) ==
  \E n \in notes :
    /\ n.rule = f.rule /\ n.code = f.code
    /\ TrueOf(n, ts, from, to) /\ FirstFound(n, f.found)

Calls(f, rule) == AtTest(f) /\ Head(f.code).what.by = "rule" /\ Head(f.code).what.of[1] = rule

Whole(ts, unit) ==
  /\ Closes(ts, unit.to)
  /\ unit.found[1].rule = "ContextClause" \/ Finishes(ts, unit.from, unit.to)

PhraseInv(notes) ==
  /\ \A k \in 1 .. Depth : Noted(notes, tokens, frames[k], saved[k], Reached(k))
  /\ \A k \in 1 .. Depth - 1 : Calls(frames[k], frames[k + 1].rule)
  /\ Depth > 0 => frames[1].rule = "DesignUnit"
  /\ \A i \in 1 .. Len(units) : Whole(tokens, units[i])

\* What is true of some tokens is true of more of them in front.
LEMMA HoldsBefore ==
  ASSUME NEW fact, NEW ts, NEW from \in Nat, NEW mid \in Nat, NEW to \in Nat, from <= mid,
         Holds(fact, ts, mid, to)
  PROVE  Holds(fact, ts, from, to)
BY DEF Holds, Finishes

LEMMA HoldsBehind ==
  ASSUME NEW fact, NEW ts, NEW from \in Nat, NEW mid \in Nat, NEW to \in Nat, mid <= to,
         Holds(fact, ts, from, mid), fact # "closed"
  PROVE  Holds(fact, ts, from, to)
BY DEF Holds, Finishes

LEMMA NoteIs ==
  ASSUME NEW r, NEW c, NEW kn, NEW fi
  PROVE  /\ Note(r, c, kn, fi).rule = r /\ Note(r, c, kn, fi).code = c
         /\ Note(r, c, kn, fi).known = kn /\ Note(r, c, kn, fi).first = fi
BY DEF Note

\* A word found.
LEMMA NoteFinds ==
  ASSUME NEW g, NEW notes, NEW promise, ClosesUnits(g, notes, promise),
         NEW ts, NEW from \in Nat, NEW mid \in Nat, NEW to \in Nat, from <= mid, mid < to,
         NEW f, IsFrame(f), Noted(notes, ts, f, from, mid), AtTest(f),
         NEW w, w = Head(f.code).what,
         \A fact \in Says(promise, w) : Holds(fact, ts, mid, to),
         NEW c, c.rule = f.rule, c.code = Branch(Head(f.code), Tail(f.code), TRUE),
         w.by # "rule" => c.found = f.found,
         w.by = "rule" => \E node : node.rule = w.of[1] /\ c.found = Append(f.found, node)
  PROVE  Noted(notes, ts, c, from, to)
<1>1. PICK n \in notes : /\ n.rule = f.rule /\ n.code = f.code
                         /\ TrueOf(n, ts, from, mid) /\ FirstFound(n, f.found)
  BY DEF Noted
<1>2. PICK kn, fi, m : /\ kn = Learned(promise, w, n.known) /\ fi = First(w, n.first)
                      /\ m = Note(n.rule, c.code, kn, fi)
  OBVIOUS
<1>3. m.rule = c.rule /\ m.code = c.code /\ m.known = Learned(promise, w, n.known) /\ m.first = First(w, n.first)
  <2>1. m.rule = n.rule /\ m.code = c.code /\ m.known = kn /\ m.first = fi
    BY <1>2 DEF Note
  <2>2. QED
    BY <1>1, <1>2, <2>1
<1>4. m \in notes
  <2>0. n.code # <<>>
    BY <1>1 DEF AtTest
  <2>1. Later(g, promise, n) \subseteq notes
    BY <2>0 DEF ClosesUnits
  <2>2. m \in Later(g, promise, n)
    <3>1. Head(n.code).op \in {"test", "while"}
      BY <1>1 DEF AtTest
    <3>2. Later(g, promise, n) =
            { Note(n.rule, Branch(Head(n.code), Tail(n.code), TRUE),
                   Learned(promise, Head(n.code).what, n.known), First(Head(n.code).what, n.first)),
              Note(n.rule, Branch(Head(n.code), Tail(n.code), FALSE), n.known, n.first) }
      BY <3>1 DEF Later
    <3>3. QED
      BY <1>1, <1>2, <3>2
  <2>3. QED
    BY <2>1, <2>2
<1>5. TrueOf(m, ts, from, to)
  <2>1. ASSUME NEW fact \in m.known PROVE Holds(fact, ts, from, to)
    <3>1. CASE fact = "read"
      BY <3>1 DEF Holds
    <3>2. CASE fact \in n.known /\ fact # "closed"
      <4>1. Holds(fact, ts, from, mid)
        BY <1>1, <3>2 DEF TrueOf
      <4>2. QED
        BY <3>2, <4>1, HoldsBehind
    <3>3. CASE fact \in Says(promise, w)
      <4>1. Holds(fact, ts, mid, to)
        BY <3>3
      <4>2. QED
        BY <4>1, HoldsBefore
    <3>4. QED
      BY <1>3, <3>1, <3>2, <3>3 DEF Learned
  <2>2. "read" \in m.known
    BY <1>3 DEF Learned
  <2>3. QED
    BY <2>1, <2>2 DEF TrueOf
<1>6. FirstFound(m, c.found)
  <2>1. CASE w.by # "rule"
    BY <1>1, <1>3, <2>1 DEF FirstFound, First
  <2>2. CASE w.by = "rule"
    <3>1. PICK node : node.rule = w.of[1] /\ c.found = Append(f.found, node)
      BY <2>2
    <3>2. PICK s : s = f.found /\ IsSequence(s)
      BY DEF IsFrame
    <3>3. /\ Len(c.found) = Len(s) + 1 /\ c.found[Len(s) + 1] = node
          /\ \A i \in 1 .. Len(s) : c.found[i] = s[i]
      BY <3>1, <3>2, AppendIs
    <3>4. Len(s) \in Nat /\ c.found # <<>>
      BY <3>2, <3>3, SequenceHas, EmptyIs
    <3>5. CASE n.first = {}
      <4>1. s = <<>>
        BY <1>1, <3>2, <3>5 DEF FirstFound
      <4>2. c.found[1] = node
        BY <3>3, <4>1, EmptyIs
      <4>3. m.first = {w.of[1]}
        BY <1>3, <2>2, <3>5 DEF First
      <4>4. QED
        BY <3>1, <3>4, <4>2, <4>3 DEF FirstFound
    <3>6. CASE n.first # {}
      <4>1. s # <<>> /\ n.first = {s[1].rule}
        BY <1>1, <3>2, <3>6 DEF FirstFound
      <4>2. Len(s) # 0
        BY <3>2, <4>1, EmptySeq DEF IsSequence
      <4>3. 1 \in 1 .. Len(s)
        BY <3>4, <4>2
      <4>4. c.found[1] = s[1]
        BY <3>3, <4>3
      <4>5. m.first = n.first
        BY <1>3, <3>6 DEF First
      <4>6. QED
        BY <3>4, <3>6, <4>1, <4>4, <4>5 DEF FirstFound
    <3>7. QED
      BY <3>5, <3>6
  <2>3. QED
    BY <2>1, <2>2
<1>7. QED
  BY <1>3, <1>4, <1>5, <1>6 DEF Noted

\* An instruction that reads nothing.
LEMMA NoteGoesOn ==
  ASSUME NEW g, NEW notes, NEW promise, ClosesUnits(g, notes, promise),
         NEW ts, NEW from, NEW to, NEW f, Noted(notes, ts, f, from, to), f.code # <<>>,
         NEW c, c.rule = f.rule, c.found = f.found,
         NEW i, i = Head(f.code), NEW rest, rest = Tail(f.code),
         \/ i.op \in {"test", "while"} /\ c.code = Branch(i, rest, FALSE)
         \/ i.op = "ahead" /\ \E b \in BOOLEAN : c.code = Branch(i, rest, b)
         \/ i.op \in {"label", "same", "here"} /\ c.code = rest
         \/ i.op = "again" /\ c.code = g[f.rule]
  PROVE  Noted(notes, ts, c, from, to)
<1>1. PICK n \in notes : /\ n.rule = f.rule /\ n.code = f.code
                         /\ TrueOf(n, ts, from, to) /\ FirstFound(n, f.found)
  BY DEF Noted
<1>2. PICK m : m = Note(n.rule, c.code, n.known, n.first)
  OBVIOUS
<1>3. m.rule = c.rule /\ m.code = c.code /\ m.known = n.known /\ m.first = n.first
  BY <1>1, <1>2, NoteIs
<1>4. Later(g, promise, n) \subseteq notes
  BY <1>1 DEF ClosesUnits
<1>5. m \in Later(g, promise, n)
  <2>0. i = Head(n.code) /\ rest = Tail(n.code)
    BY <1>1
  <2>1. CASE i.op \in {"test", "while"} /\ c.code = Branch(i, rest, FALSE)
    <3>1. Later(g, promise, n) =
            { Note(n.rule, Branch(i, rest, TRUE), Learned(promise, i.what, n.known), First(i.what, n.first)),
              Note(n.rule, Branch(i, rest, FALSE), n.known, n.first) }
      BY <2>0, <2>1 DEF Later
    <3>2. QED
      BY <1>2, <2>1, <3>1
  <2>2. CASE i.op = "ahead" /\ \E b \in BOOLEAN : c.code = Branch(i, rest, b)
    <3>1. Later(g, promise, n) = { Note(n.rule, Branch(i, rest, b), n.known, n.first) : b \in BOOLEAN }
      BY <2>0, <2>2 DEF Later
    <3>2. PICK b \in BOOLEAN : c.code = Branch(i, rest, b)
      BY <2>2
    <3>3. QED
      BY <1>2, <3>1, <3>2
  <2>3. CASE i.op \in {"label", "same", "here"} /\ c.code = rest
    <3>1. Later(g, promise, n) = { Note(n.rule, rest, n.known, n.first) }
      BY <2>0, <2>3 DEF Later
    <3>2. QED
      BY <1>2, <2>3, <3>1
  <2>4. CASE i.op = "again" /\ c.code = g[f.rule]
    <3>1. Later(g, promise, n) = { Note(n.rule, g[n.rule], n.known, n.first) }
      BY <2>0, <2>4 DEF Later
    <3>2. QED
      BY <1>1, <1>2, <2>4, <3>1
  <2>5. QED
    BY <2>1, <2>2, <2>3, <2>4
<1>6. TrueOf(m, ts, from, to) /\ FirstFound(m, c.found)
  BY <1>1, <1>3 DEF TrueOf, FirstFound
<1>7. QED
  BY <1>3, <1>4, <1>5, <1>6 DEF Noted

\* A rule that is complete has kept its promise.
LEMMA NoteKeeps ==
  ASSUME NEW g, NEW notes, NEW promise, ClosesUnits(g, notes, promise),
         NEW ts, NEW from \in Nat, NEW to \in Nat, from < to,
         NEW f, Noted(notes, ts, f, from, to), f.code = <<>>
  PROVE  /\ \A fact \in promise[f.rule] : Holds(fact, ts, from, to)
         /\ f.rule = "DesignUnit" =>
              Closes(ts, to) /\ (f.found[1].rule = "ContextClause" \/ Finishes(ts, from, to))
<1>1. PICK n \in notes : /\ n.rule = f.rule /\ n.code = f.code
                         /\ TrueOf(n, ts, from, to) /\ FirstFound(n, f.found)
  BY DEF Noted
<1>2. Complete(n)
  BY <1>1 DEF Complete, TrueOf
<1>3. \A fact \in n.known : Holds(fact, ts, from, to)
  BY <1>1 DEF TrueOf
<1>4. promise[f.rule] \subseteq n.known
  BY <1>1, <1>2 DEF ClosesUnits
<1>5. ASSUME f.rule = "DesignUnit"
      PROVE  Closes(ts, to) /\ (f.found[1].rule = "ContextClause" \/ Finishes(ts, from, to))
  <2>1. "closed" \in n.known /\ ("ends" \in n.known \/ n.first = {"ContextClause"})
    BY <1>1, <1>2, <1>5 DEF ClosesUnits
  <2>2. Closes(ts, to)
    BY <1>3, <2>1 DEF Holds
  <2>3. CASE "ends" \in n.known
    <3>1. Holds("ends", ts, from, to)
      BY <1>3, <2>3
    <3>2. QED
      BY <2>2, <3>1 DEF Holds
  <2>4. CASE n.first = {"ContextClause"}
    <3>1. n.first # {} /\ n.first = {f.found[1].rule}
      BY <1>1, <2>4 DEF FirstFound
    <3>2. QED
      BY <2>2, <2>4, <3>1
  <2>5. QED
    BY <2>1, <2>3, <2>4
<1>6. QED
  BY <1>3, <1>4, <1>5
-----------------------------------------------------------------------------
(* The steps of the parser, with the notes.                                *)

\* A step within the innermost parse function.
LEMMA NotedWithin ==
  ASSUME IInv, NEW notes, PhraseInv(notes), Depth > 0, IsSequence(frames),
         NEW c, c.rule = Top.rule, frames' = WithTop(c),
         Noted(notes, tokens, c, saved[Depth], position'),
         UNCHANGED <<file, saved, units>>
  PROVE  PhraseInv(notes)'
<1>1. IsSequence(frames) /\ Len(frames) = Depth /\ Depth \in Nat /\ Depth \in 1 .. Depth
  BY SequenceHas DEF IInv, Shape, Depth
<1>2. \A k \in 1 .. Depth : frames'[k] = IF k = Depth THEN c ELSE frames[k]
  BY <1>1, ReplacedIs DEF WithTop
<1>3. Depth' = Depth /\ tokens' = tokens
  BY DEF Depth, tokens
<1>4. \A k \in 1 .. Depth : frames'[k].rule = frames[k].rule
  BY <1>1, <1>2 DEF Top
<1>5. ASSUME NEW k \in 1 .. Depth
      PROVE  Noted(notes, tokens, frames'[k], saved[k], Reached(k)')
  <2>1. CASE k = Depth
    <3>1. Reached(k)' = position' /\ frames'[k] = c
      BY <1>2, <1>3, <2>1 DEF Reached
    <3>2. QED
      BY <2>1, <3>1
  <2>2. CASE k # Depth
    <3>1. Reached(k)' = Reached(k) /\ frames'[k] = frames[k]
      BY <1>2, <1>3, <2>2 DEF Reached
    <3>2. QED
      BY <3>1 DEF PhraseInv
  <2>3. QED
    BY <2>1, <2>2
<1>6. ASSUME NEW k \in 1 .. Depth - 1
      PROVE  Calls(frames'[k], frames'[k + 1].rule)
  <2>1. k \in 1 .. Depth /\ k + 1 \in 1 .. Depth /\ k # Depth
    BY <1>1
  <2>2. QED
    BY <1>2, <1>4, <2>1 DEF PhraseInv
<1>7. frames'[1].rule = "DesignUnit"
  BY <1>1, <1>4 DEF PhraseInv
<1>8. \A i \in 1 .. Len(units) : Whole(tokens, units[i])
  BY DEF PhraseInv
<1>9. QED
  BY <1>3, <1>5, <1>6, <1>7, <1>8 DEF PhraseInv

\* A parse function that begins.
LEMMA NotedCall ==
  ASSUME IInv, NEW notes, PhraseInv(notes), NEW g, NEW promise, ClosesUnits(g, notes, promise),
         NEW q \in DOMAIN g,
         NEW c, c.rule = q, c.code = g[q], c.found = <<>>,
         IF Depth = 0 THEN q = "DesignUnit" ELSE Calls(Top, q),
         frames' = Append(frames, c), saved' = Append(saved, position),
         UNCHANGED <<file, position, units>>
  PROVE  PhraseInv(notes)'
<1>1. /\ IsSequence(saved) /\ IsSequence(frames) /\ Len(frames) = Depth
      /\ Depth \in Nat /\ Len(saved) = Depth
  BY SequenceHas DEF IInv, Shape, Depth
<1>2. saved'[Depth + 1] = position /\ Len(saved') = Depth + 1 /\ \A k \in 1 .. Depth : saved'[k] = saved[k]
  BY <1>1, AppendIs
<1>3. frames'[Depth + 1] = c /\ \A k \in 1 .. Depth : frames'[k] = frames[k]
  BY <1>1, AppendIs
<1>4. Depth' = Depth + 1 /\ tokens' = tokens
  BY <1>2 DEF Depth, tokens
<1>5. Noted(notes, tokens, c, position, position)
  <2>1. Begin(g, q) \in notes
    BY DEF ClosesUnits
  <2>2. PICK n : n = Begin(g, q)
    OBVIOUS
  <2>3. n.rule = q /\ n.code = g[q] /\ n.known = {} /\ n.first = {}
    BY <2>2 DEF Begin, Note
  <2>4. TrueOf(n, tokens, position, position) /\ FirstFound(n, c.found)
    BY <2>3 DEF TrueOf, FirstFound
  <2>5. QED
    BY <2>1, <2>2, <2>3, <2>4 DEF Noted
<1>6. ASSUME NEW k \in 1 .. Depth + 1
      PROVE  Noted(notes, tokens, frames'[k], saved'[k], Reached(k)')
  <2>1. CASE k = Depth + 1
    <3>1. Reached(k)' = position /\ saved'[k] = position /\ frames'[k] = c
      BY <1>1, <1>2, <1>3, <1>4, <2>1 DEF Reached
    <3>2. QED
      BY <1>5, <3>1
  <2>2. CASE k \in 1 .. Depth
    <3>1. k # Depth + 1 /\ k + 1 \in 1 .. Depth + 1 /\ (k # Depth => k + 1 \in 1 .. Depth)
      BY <1>1, <2>2
    <3>2. Reached(k)' = saved'[k + 1]
      BY <1>4, <3>1 DEF Reached
    <3>3. Reached(k)' = Reached(k)
      BY <1>2, <3>1, <3>2 DEF Reached
    <3>4. frames'[k] = frames[k] /\ saved'[k] = saved[k]
      BY <1>2, <1>3, <2>2
    <3>5. QED
      BY <2>2, <3>3, <3>4 DEF PhraseInv
  <2>3. QED
    BY <1>1, <2>1, <2>2
<1>7. ASSUME NEW k \in 1 .. Depth
      PROVE  Calls(frames'[k], frames'[k + 1].rule)
  <2>1. CASE k = Depth
    <3>1. frames'[k] = Top /\ frames'[k + 1] = c /\ Depth # 0
      BY <1>1, <1>3, <2>1 DEF Top
    <3>2. QED
      BY <3>1
  <2>2. CASE k # Depth
    <3>1. k \in 1 .. Depth - 1 /\ k + 1 \in 1 .. Depth
      BY <1>1, <2>2
    <3>2. QED
      BY <1>3, <3>1 DEF PhraseInv
  <2>3. QED
    BY <2>1, <2>2
<1>8. frames'[1].rule = "DesignUnit"
  <2>1. CASE Depth = 0
    BY <1>3, <2>1
  <2>2. CASE Depth # 0
    <3>1. Depth > 0 /\ 1 \in 1 .. Depth
      BY <1>1, <2>2
    <3>2. QED
      BY <1>3, <3>1 DEF PhraseInv
  <2>3. QED
    BY <2>1, <2>2
<1>9. \A i \in 1 .. Len(units) : Whole(tokens, units[i])
  BY DEF PhraseInv
<1>10. Depth' - 1 = Depth
  BY <1>1, <1>4
<1>11. QED
  BY <1>4, <1>6, <1>7, <1>8, <1>9, <1>10 DEF PhraseInv

\* What Leave does to the calls in progress.
LEMMA LeaveIs ==
  ASSUME IInv, Running, NEW found \in BOOLEAN, NEW node, Leave(found, node)
  PROVE  /\ Depth \in Nat \ {0} /\ Depth' = Depth - 1
         /\ \A i \in 1 .. Depth - 1 : saved'[i] = saved[i]
         /\ Depth > 1 =>
              /\ units' = units
              /\ \A i \in 1 .. Depth - 2 : frames'[i] = frames[i]
              /\ frames'[Depth - 1].rule = frames[Depth - 1].rule
              /\ frames'[Depth - 1].code =
                   Branch(Head(frames[Depth - 1].code), Tail(frames[Depth - 1].code), found)
              /\ frames'[Depth - 1].found =
                   IF found THEN Append(frames[Depth - 1].found, node) ELSE frames[Depth - 1].found
              /\ frames'[Depth - 1] =
                   Continue(IF found THEN [frames[Depth - 1] EXCEPT !.found = Append(@, node)]
                            ELSE frames[Depth - 1], found)
         /\ Depth = 1 => units' = IF found THEN Append(units, node) ELSE units
<1>1. /\ Depth \in Nat \ {0} /\ IsSequence(saved) /\ Len(saved) = Depth /\ saved # <<>>
      /\ IsSequence(frames) /\ Len(frames) = Depth /\ frames # <<>>
  BY EmptyIs, SequenceHas DEF IInv, Shape, Depth, Running
<1>2. saved' = SubSeq(saved, 1, Depth - 1)
  BY DEF Leave
<1>3. Len(saved') = Depth - 1 /\ \A i \in 1 .. Depth - 1 : saved'[i] = saved[i]
  BY <1>1, <1>2, FrontIs
<1>4. Depth' = Depth - 1
  BY <1>3 DEF Depth
<1>5. CASE Depth = 1
  BY <1>1, <1>3, <1>4, <1>5 DEF Leave
<1>6. CASE Depth > 1
  <2> DEFINE fs == SubSeq(frames, 1, Depth - 1)
  <2>1. IsSequence(fs) /\ Len(fs) = Depth - 1 /\ \A i \in 1 .. Depth - 1 : fs[i] = frames[i]
    BY <1>1, FrontIs
  <2>2. PICK caller : caller = frames[Depth - 1]
    OBVIOUS
  <2>3. IsFrame(caller)
    BY <1>1, <1>6, <2>2 DEF IInv, Shape
  <2>4. PICK with : with = IF found THEN [caller EXCEPT !.found = Append(@, node)] ELSE caller
    OBVIOUS
  <2>5. /\ IsFrame(with) /\ with.rule = caller.rule /\ with.code = caller.code
        /\ with.found = IF found THEN Append(caller.found, node) ELSE caller.found
    <3>1. CASE found
      BY <2>3, <2>4, <3>1, FoundIs DEF IsFrame, FrameFields
    <3>2. CASE ~found
      BY <2>3, <2>4, <3>2
    <3>3. QED
      BY <3>1, <3>2
  <2>6. PICK after : after = Continue(with, found)
    OBVIOUS
  <2>7. /\ after.rule = caller.rule /\ after.found = with.found
        /\ after.code = Branch(Head(caller.code), Tail(caller.code), found)
    BY <2>5, <2>6, ContinueIs, ContinuesAt
  <2>8. frames' = [fs EXCEPT ![Depth - 1] = after] /\ units' = units
    BY <1>6, <2>2, <2>4, <2>6 DEF Leave
  <2> HIDE DEF fs
  <2>9. \A i \in 1 .. Depth - 1 : frames'[i] = IF i = Depth - 1 THEN after ELSE fs[i]
    <3>1. Depth - 1 \in 1 .. Len(fs)
      BY <1>1, <1>6, <2>1
    <3>2. QED
      BY <2>1, <2>8, <3>1, ReplacedIs
  <2>10. frames'[Depth - 1] = after /\ \A i \in 1 .. Depth - 2 : frames'[i] = frames[i]
    <3>1. Depth - 1 \in 1 .. Depth - 1
      BY <1>1, <1>6
    <3>2. \A i \in 1 .. Depth - 2 : i \in 1 .. Depth - 1 /\ i # Depth - 1
      BY <1>1
    <3>3. QED
      BY <2>1, <2>9, <3>1, <3>2
  <2>11. Depth # 1
    BY <1>6
  <2>12. QED
    BY <1>1, <1>3, <1>4, <2>2, <2>4, <2>5, <2>6, <2>7, <2>8, <2>10, <2>11
<1>7. QED
  BY <1>1, <1>5, <1>6

LEMMA SingleIs ==
  ASSUME NEW e, NEW s, s = <<e>>
  PROVE  Len(s) = 1 /\ s[1] = e
<1>1. Len(<<e>>) = 1 /\ <<e>>[1] = e
  OBVIOUS
<1>2. QED
  BY <1>1

\* What the words of the grammar say of themselves is true where they are read.
LEMMA ReadsSays ==
  ASSUME IInv, NEW promise, NEW w, w.by # "rule", NEW to \in position + 1 .. Len(tokens), Reads(w, to)
  PROVE  \A fact \in Says(promise, w) : Holds(fact, tokens, position, to)
<1>1. position \in Nat /\ Len(tokens) \in Nat /\ to \in Nat
  BY SizeIs DEF IInv, Shape, Places
<1>2. SUFFICES ASSUME NEW fact \in Says(promise, w)
               PROVE  Holds(fact, tokens, position, to)
  OBVIOUS
<1>3. \/ fact = "closed" /\ w.by = "special" /\ w.of = <<";">>
      \/ fact = "ends" /\ w.by = "keyword" /\ w.of[1] \in Closers
  BY <1>2 DEF Says
<1>4. CASE fact = "closed" /\ w.by = "special" /\ w.of = <<";">>
  <2>1. /\ to = position + Len(w.of)
        /\ \A i \in 1 .. Len(w.of) : tokens[position + i] = [type |-> "SPECIAL", text |-> w.of[i]]
    BY <1>4 DEF Reads
  <2>2. Len(w.of) = 1
    BY <1>4, SingleIs
  <2>3. w.of[1] = ";"
    BY <1>4, SingleIs
  <2>4. PICK o, n : o = w.of /\ n = Len(w.of)
    OBVIOUS
  <2>5. n = 1 /\ to = position + n /\ \A i \in 1 .. n : tokens[position + i] = [type |-> "SPECIAL", text |-> o[i]]
    BY <2>1, <2>2, <2>4
  <2>6. to = position + 1 /\ tokens[position + 1].text = o[1]
    BY <2>5
  <2>7. Closes(tokens, to)
    BY <2>3, <2>4, <2>6 DEF Closes
  <2>8. QED
    BY <1>4, <2>7 DEF Holds
<1>5. CASE fact = "ends" /\ w.by = "keyword" /\ w.of[1] \in Closers
  <2>1. to = position + 1 /\ tokens[to] = [type |-> "KEYWORD", text |-> w.of[1]]
    BY <1>5 DEF Reads
  <2>2. tokens[to].text \in Closers /\ tokens[to].type = "KEYWORD" /\ to \in position + 1 .. to
    BY <1>1, <1>5, <2>1
  <2>3. QED
    BY <1>5, <2>2 DEF Holds, Finishes
<1>6. QED
  BY <1>3, <1>4, <1>5

\* The innermost parse function, its rule and its place.
LEMMA TopNoted ==
  ASSUME IInv, NEW notes, PhraseInv(notes), Running
  PROVE  /\ Depth > 0 /\ Depth \in 1 .. Depth /\ IsFrame(Top)
         /\ saved[Depth] \in Nat /\ position \in Nat /\ saved[Depth] <= position
         /\ Noted(notes, tokens, Top, saved[Depth], position)
<1>1. Depth \in 1 .. Len(frames) /\ IsFrame(Top) /\ Depth \in Nat /\ Depth > 0 /\ file \in Files
  BY TopIs DEF IInv, Shape, Running
<1>2. Depth \in 1 .. Depth /\ Reached(Depth) = position
  BY <1>1 DEF Reached
<1>3. saved[Depth] \in Nat /\ position \in Nat /\ saved[Depth] <= position
  BY <1>1, <1>2 DEF IInv, Shape, Places, PositionsNest, Depth
<1>4. Noted(notes, tokens, Top, saved[Depth], position)
  BY <1>2 DEF PhraseInv, Top
<1>5. QED
  BY <1>1, <1>2, <1>3, <1>4

LEMMA PhraseWithin ==
  ASSUME IInv, NEW notes, PhraseInv(notes), NEW promise, ClosesUnits(Grammar, notes, promise),
         Consume \/ Miss \/ Look \/ KeepLabel \/ SameLabel \/ Restart \/ PositionKnown
  PROVE  PhraseInv(notes)'
<1>1. Running /\ Top.code # <<>>
  BY DEF Consume, Miss, Look, KeepLabel, SameLabel, Restart, PositionKnown, Fetch
<1>2. /\ Depth > 0 /\ IsFrame(Top) /\ saved[Depth] \in Nat /\ position \in Nat
      /\ saved[Depth] <= position /\ Noted(notes, tokens, Top, saved[Depth], position)
  BY <1>1, TopNoted
<1>3. UNCHANGED <<file, saved, units>> /\ IsSequence(frames)
  BY DEF Consume, Miss, Look, KeepLabel, SameLabel, Restart, PositionKnown, IInv, Shape
<1>4. PICK t, i, rest : t = Top /\ i = Head(t.code) /\ rest = Tail(t.code)
  OBVIOUS
<1>5. IsFrame(t) /\ t.code # <<>> /\ Now = i
  BY <1>1, <1>2, <1>4 DEF Now
<1>6. ASSUME NEW c, c.rule = t.rule, c.found = t.found,
             \/ i.op \in {"test", "while"} /\ c.code = Branch(i, rest, FALSE)
             \/ i.op = "ahead" /\ \E b \in BOOLEAN : c.code = Branch(i, rest, b)
             \/ i.op \in {"label", "same", "here"} /\ c.code = rest
             \/ i.op = "again" /\ c.code = Grammar[t.rule],
             position' = position, frames' = WithTop(c)
      PROVE  PhraseInv(notes)'
  <2>1. Noted(notes, tokens, t, saved[Depth], position)
    BY <1>2, <1>4
  <2>2. PICK g : g = Grammar /\ ClosesUnits(g, notes, promise)
    OBVIOUS
  <2>3. \/ i.op \in {"test", "while"} /\ c.code = Branch(i, rest, FALSE)
        \/ i.op = "ahead" /\ \E b \in BOOLEAN : c.code = Branch(i, rest, b)
        \/ i.op \in {"label", "same", "here"} /\ c.code = rest
        \/ i.op = "again" /\ c.code = g[t.rule]
    BY <1>6, <2>2
  <2>4. Noted(notes, tokens, c, saved[Depth], position)
    BY <1>4, <1>5, <1>6, <2>1, <2>2, <2>3, NoteGoesOn
  <2>5. QED
    BY <1>2, <1>3, <1>4, <1>6, <2>4, NotedWithin
<1>7. ASSUME NEW b
      PROVE  /\ Continue(t, b).rule = t.rule /\ Continue(t, b).found = t.found
             /\ Continue(t, b).code = Branch(i, rest, b)
  BY <1>4, <1>5, ContinueIs, ContinuesAt
<1>8. ASSUME NEW code, NEW l
      PROVE  /\ [t EXCEPT !.code = code].rule = t.rule /\ [t EXCEPT !.code = code].code = code
             /\ [t EXCEPT !.code = code].found = t.found
             /\ [t EXCEPT !.code = code, !.label = l].rule = t.rule
             /\ [t EXCEPT !.code = code, !.label = l].code = code
             /\ [t EXCEPT !.code = code, !.label = l].found = t.found
  <2>1. /\ [t EXCEPT !.code = code].found = t.found
        /\ [t EXCEPT !.code = code, !.label = l].found = t.found
    BY <1>5, CodeIs
  <2>2. /\ [t EXCEPT !.code = code].rule = t.rule /\ [t EXCEPT !.code = code].code = code
        /\ [t EXCEPT !.code = code, !.label = l].rule = t.rule
        /\ [t EXCEPT !.code = code, !.label = l].code = code
    BY <1>5, ContinuesAt
  <2>3. QED
    BY <2>1, <2>2
<1>9. CASE Consume
  <2>1. /\ i.op \in {"test", "while"} /\ i.what.by # "rule" /\ frames' = WithTop(Continue(t, TRUE))
        /\ position' \in position + 1 .. Len(tokens) /\ Reads(i.what, position')
    BY <1>4, <1>5, <1>9 DEF Consume, Fetch
  <2>2. PICK to : to = position' /\ to \in position + 1 .. Len(tokens) /\ Reads(i.what, to)
    BY <2>1
  <2>3. PICK w : w = i.what
    OBVIOUS
  <2>4. \A fact \in Says(promise, w) : Holds(fact, tokens, position, to)
    BY <2>1, <2>2, <2>3, ReadsSays
  <2>5. PICK c : c = Continue(t, TRUE)
    OBVIOUS
  <2>6. c.rule = t.rule /\ c.found = t.found /\ c.code = Branch(Head(t.code), Tail(t.code), TRUE)
    BY <1>4, <1>7, <2>5
  <2>7. PICK p, s, ts, g : p = position /\ s = saved[Depth] /\ ts = tokens /\ g = Grammar
    OBVIOUS
  <2>8. /\ ClosesUnits(g, notes, promise) /\ Noted(notes, ts, t, s, p)
        /\ \A fact \in Says(promise, w) : Holds(fact, ts, p, to)
    BY <1>2, <1>4, <2>4, <2>7
  <2>9. p \in Nat /\ s \in Nat /\ s <= p /\ to \in Nat /\ p < to
    BY <1>2, <2>2, <2>7
  <2>10. AtTest(t) /\ w = Head(t.code).what /\ w.by # "rule"
    BY <1>4, <1>5, <2>1, <2>3 DEF AtTest
  <2>11. Noted(notes, ts, c, s, to)
    BY <1>5, <2>6, <2>8, <2>9, <2>10, NoteFinds
  <2>12. Noted(notes, tokens, c, saved[Depth], position')
    BY <2>2, <2>7, <2>11
  <2>13. c.rule = Top.rule /\ frames' = WithTop(c)
    BY <1>4, <2>1, <2>5, <2>6
  <2>14. QED
    BY <1>2, <1>3, <2>12, <2>13, NotedWithin
<1>10. CASE Miss
  <2>1. PICK c : c = Continue(t, FALSE)
    OBVIOUS
  <2>2. position' = position /\ frames' = WithTop(c) /\ i.op \in {"test", "while"}
    BY <1>4, <1>5, <1>10, <2>1 DEF Miss, Fetch
  <2>3. QED
    BY <1>6, <1>7, <2>1, <2>2
<1>11. CASE Look
  <2> DEFINE seen == IF Now.what.by = "type"
                     THEN tokens[position + Now.skip + 1].type = Now.what.of[1]
                     ELSE /\ position + Now.skip + Len(Now.what.of) <= Len(tokens)
                          /\ \A j \in 1 .. Len(Now.what.of) :
                               tokens[position + Now.skip + j] = [type |-> "SPECIAL", text |-> Now.what.of[j]]
  <2>1. position' = position /\ frames' = WithTop(Continue(Top, seen))
    BY <1>11 DEF Look
  <2>2. seen \in BOOLEAN
    OBVIOUS
  <2>3. PICK b \in BOOLEAN : b = seen
    BY <2>2
  <2> HIDE DEF seen
  <2>4. PICK c : c = Continue(t, b)
    OBVIOUS
  <2>5. frames' = WithTop(c) /\ i.op = "ahead"
    BY <1>4, <1>5, <1>11, <2>1, <2>3, <2>4 DEF Look, Fetch
  <2>6. QED
    BY <1>6, <1>7, <2>1, <2>4, <2>5
<1>12. CASE SameLabel \/ PositionKnown
  <2>1. PICK c : c = [t EXCEPT !.code = rest]
    OBVIOUS
  <2>2. position' = position /\ frames' = WithTop(c) /\ i.op \in {"label", "same", "here"}
    BY <1>4, <1>5, <1>12, <2>1 DEF SameLabel, PositionKnown, Fetch
  <2>3. QED
    BY <1>6, <1>8, <2>1, <2>2
<1>13. CASE KeepLabel
  <2>0. PICK l : l = tokens[position].text
    OBVIOUS
  <2>1. PICK c : c = [t EXCEPT !.code = rest, !.label = l]
    OBVIOUS
  <2>2. position' = position /\ frames' = WithTop(c) /\ i.op \in {"label", "same", "here"}
    <3>1. position' = position /\ frames' = WithTop([Top EXCEPT !.code = Tail(Top.code), !.label = l])
      BY <1>13, <2>0 DEF KeepLabel
    <3>2. c = [Top EXCEPT !.code = Tail(Top.code), !.label = l]
      BY <1>4, <2>1
    <3>3. i.op \in {"label", "same", "here"}
      BY <1>4, <1>5, <1>13 DEF KeepLabel, Fetch
    <3>4. QED
      BY <3>1, <3>2, <3>3
  <2>3. c.rule = t.rule /\ c.found = t.found /\ c.code = rest
    BY <1>8, <2>1
  <2>4. QED
    BY <1>6, <2>2, <2>3
<1>14. CASE Restart
  <2>0. PICK code : code = Grammar[t.rule]
    OBVIOUS
  <2>1. PICK c : c = [t EXCEPT !.code = code]
    OBVIOUS
  <2>2. position' = position /\ frames' = WithTop(c) /\ i.op = "again"
    BY <1>4, <1>5, <1>14, <2>0, <2>1 DEF Restart, Fetch, Grammar
  <2>3. QED
    BY <1>6, <1>8, <2>0, <2>1, <2>2
<1>15. QED
  BY <1>9, <1>10, <1>11, <1>12, <1>13, <1>14

LEMMA PhraseEnters ==
  ASSUME IInv, NEW notes, PhraseInv(notes), NEW promise, ClosesUnits(Grammar, notes, promise),
         NextUnit \/ Call
  PROVE  PhraseInv(notes)'
<1>1. IsSequence(saved) /\ IsSequence(frames) /\ Len(frames) = Depth /\ Depth \in Nat
  BY SequenceHas DEF IInv, Shape, Depth
<1>2. ASSUME NEW q
      PROVE  Frame(q).rule = q /\ Frame(q).code = Grammar[q] /\ Frame(q).found = <<>>
  BY DEF Frame, Grammar
<1>3. PICK g : g = Grammar /\ ClosesUnits(g, notes, promise)
  OBVIOUS
<1>4. ASSUME NEW q \in DOMAIN g, IF Depth = 0 THEN q = "DesignUnit" ELSE Calls(Top, q),
             frames' = Append(frames, Frame(q)), saved' = Append(saved, position),
             UNCHANGED <<file, position, units>>
      PROVE  PhraseInv(notes)'
  <2>1. PICK c : c = Frame(q)
    OBVIOUS
  <2>2. c.rule = q /\ c.code = g[q] /\ c.found = <<>>
    BY <1>2, <1>3, <2>1
  <2>3. frames' = Append(frames, c)
    BY <1>4, <2>1
  <2>4. QED
    BY <1>3, <1>4, <2>2, <2>3, NotedCall
<1>5. CASE NextUnit
  <2>1. saved = <<>> /\ frames = <<>> /\ Depth = 0
    BY <1>1, <1>5, EmptySeq DEF NextUnit, Depth, IsSequence
  <2>2. saved' = Append(saved, position) /\ frames' = Append(frames, Frame("DesignUnit"))
        /\ UNCHANGED <<file, position, units>>
    BY <1>5, <2>1 DEF NextUnit
  <2>3. "DesignUnit" \in DOMAIN g
    BY <1>3 DEF ClosesUnits
  <2>4. QED
    BY <1>4, <2>1, <2>2, <2>3
<1>6. CASE Call
  <2>1. Running /\ AtTest(Top) /\ Now = Head(Top.code) /\ Now.what.by = "rule"
    BY <1>6 DEF Call, Fetch, AtTest, Now
  <2>2. PICK q : q = Now.what.of[1]
    OBVIOUS
  <2>3. saved' = Append(saved, position) /\ frames' = Append(frames, Frame(q)) /\ UNCHANGED <<file, position, units>>
    BY <1>6, <2>2 DEF Call
  <2>4. Calls(Top, q)
    BY <2>1, <2>2 DEF Calls
  <2>5. q \in DOMAIN g
    <3>1. Noted(notes, tokens, Top, saved[Depth], position)
      BY <2>1, TopNoted
    <3>2. PICK n \in notes : n.code = Top.code
      BY <3>1 DEF Noted
    <3>3. n.code # <<>> /\ Head(n.code).op \in {"test", "while"} /\ Head(n.code).what.by = "rule"
          /\ Head(n.code).what.of[1] = q
      BY <2>1, <2>2, <3>2 DEF AtTest
    <3>4. QED
      BY <1>3, <3>3 DEF ClosesUnits
  <2>6. Depth # 0
    BY <2>1 DEF Running
  <2>7. QED
    BY <1>4, <2>3, <2>4, <2>5, <2>6
<1>7. QED
  BY <1>5, <1>6

LEMMA PhraseLeaves ==
  ASSUME IInv, NEW notes, PhraseInv(notes), NEW promise, ClosesUnits(Grammar, notes, promise),
         Return \/ GoBack
  PROVE  PhraseInv(notes)'
<1>1. Running /\ file' = file
  BY DEF Return, GoBack, Fetch
<1>2. /\ Depth > 0 /\ Depth \in 1 .. Depth /\ IsFrame(Top)
      /\ saved[Depth] \in Nat /\ position \in Nat /\ saved[Depth] <= position
      /\ Noted(notes, tokens, Top, saved[Depth], position)
  BY <1>1, TopNoted
<1>3. PICK found \in BOOLEAN : \E node :
        /\ Leave(found, node)
        /\ found => /\ saved[Depth] < position /\ position' = position /\ Top.code = <<>>
                    /\ node = Node(Top.rule, saved[Depth], position, Top.found)
        /\ ~found => position' = saved[Depth]
  <2>1. CASE Return
    <3>1. PICK node : node = Node(Top.rule, saved[Depth], position, Top.found)
      OBVIOUS
    <3>2. position' = position /\ Leave(position > saved[Depth], node) /\ Top.code = <<>>
      BY <2>1, <3>1 DEF Return
    <3>3. PICK found : found = (position > saved[Depth])
      OBVIOUS
    <3>4. found \in BOOLEAN /\ Leave(found, node)
      BY <3>2, <3>3
    <3>5. found => saved[Depth] < position
      BY <1>2, <3>3
    <3>6. ~found => position' = saved[Depth]
      <4>1. ~found => ~(position > saved[Depth])
        BY <3>3
      <4>2. QED
        BY <1>2, <3>2, <4>1
    <3>7. QED
      BY <3>1, <3>2, <3>4, <3>5, <3>6
  <2>2. CASE GoBack
    BY <2>2 DEF GoBack
  <2>3. QED
    BY <2>1, <2>2
<1>4. PICK node :
        /\ Leave(found, node)
        /\ found => /\ saved[Depth] < position /\ position' = position /\ Top.code = <<>>
                    /\ node = Node(Top.rule, saved[Depth], position, Top.found)
        /\ ~found => position' = saved[Depth]
  BY <1>3
<1>5. /\ Depth \in Nat \ {0} /\ Depth' = Depth - 1
      /\ \A i \in 1 .. Depth - 1 : saved'[i] = saved[i]
      /\ Depth > 1 =>
           /\ units' = units
           /\ \A i \in 1 .. Depth - 2 : frames'[i] = frames[i]
           /\ frames'[Depth - 1].rule = frames[Depth - 1].rule
           /\ frames'[Depth - 1].code =
                Branch(Head(frames[Depth - 1].code), Tail(frames[Depth - 1].code), found)
           /\ frames'[Depth - 1].found =
                IF found THEN Append(frames[Depth - 1].found, node) ELSE frames[Depth - 1].found
      /\ Depth = 1 => units' = IF found THEN Append(units, node) ELSE units
  BY <1>1, <1>4, LeaveIs
<1>6. tokens' = tokens /\ \A i \in 1 .. Len(units) : Whole(tokens, units[i])
  BY <1>1 DEF tokens, PhraseInv
<1>7. PICK t, g, s, p, ts : t = Top /\ g = Grammar /\ s = saved[Depth] /\ p = position /\ ts = tokens
  OBVIOUS
<1>8. ASSUME found
      PROVE  /\ \A fact \in promise[t.rule] : Holds(fact, ts, s, p)
             /\ t.rule = "DesignUnit" =>
                  Closes(ts, p) /\ (t.found[1].rule = "ContextClause" \/ Finishes(ts, s, p))
  <2>1. ClosesUnits(g, notes, promise) /\ Noted(notes, ts, t, s, p) /\ t.code = <<>>
    BY <1>2, <1>4, <1>7, <1>8
  <2>2. s \in Nat /\ p \in Nat /\ s < p
    BY <1>2, <1>4, <1>7, <1>8
  <2>3. QED
    BY <2>1, <2>2, NoteKeeps
<1>9. CASE Depth = 1
  <2>1. ASSUME NEW i \in 1 .. Len(units') PROVE Whole(ts, units'[i])
    <3>1. CASE found
      <4>1. units' = Append(units, node) /\ IsSequence(units)
        BY <1>5, <1>9, <3>1 DEF IInv, Shape
      <4>2. /\ Len(units') = Len(units) + 1 /\ units'[Len(units) + 1] = node
            /\ \A j \in 1 .. Len(units) : units'[j] = units[j]
        BY <4>1, AppendIs
      <4>3. Len(units) \in Nat
        BY <4>1, SequenceHas
      <4>4. Whole(ts, node)
        <5>1. node.from = s /\ node.to = p /\ node.found = t.found
          BY <1>4, <1>7, <3>1 DEF Node
        <5>2. t.rule = "DesignUnit"
          BY <1>7, <1>9 DEF PhraseInv, Top
        <5>3. QED
          BY <1>8, <3>1, <5>1, <5>2 DEF Whole
      <4>5. i \in 1 .. Len(units) \/ i = Len(units) + 1
        BY <4>2, <4>3
      <4>6. QED
        BY <1>6, <1>7, <4>2, <4>4, <4>5
    <3>2. CASE ~found
      BY <1>5, <1>6, <1>7, <1>9, <3>2
    <3>3. QED
      BY <3>1, <3>2
  <2>2. Depth' = 0
    BY <1>5, <1>9
  <2>3. \A i \in 1 .. Len(units') : Whole(tokens', units'[i])
    BY <1>6, <1>7, <2>1
  <2>4. QED
    BY <2>2, <2>3 DEF PhraseInv
<1>10. CASE Depth > 1
  <2>1. PICK d \in Nat : d = Depth - 1 /\ d \in 1 .. Depth /\ d \in 1 .. d /\ d + 1 = Depth /\ d \in 1 .. Depth - 1
    BY <1>5, <1>10
  <2>2. PICK f, c, r, q : f = frames[d] /\ c = frames'[d] /\ r = saved[d] /\ q = position'
    OBVIOUS
  <2>3. /\ c.rule = f.rule /\ c.code = Branch(Head(f.code), Tail(f.code), found)
        /\ c.found = IF found THEN Append(f.found, node) ELSE f.found
    BY <1>5, <1>10, <2>1, <2>2
  <2>4. Noted(notes, ts, f, r, s)
    <3>1. Reached(d) = saved[Depth]
      BY <2>1 DEF Reached
    <3>2. QED
      BY <1>7, <2>1, <2>2, <3>1 DEF PhraseInv
  <2>5. IsFrame(f) /\ Calls(f, t.rule)
    BY <1>5, <1>7, <2>1, <2>2 DEF IInv, Shape, PhraseInv, Depth, Top
  <2>6. r \in Nat /\ r <= s /\ s \in Nat /\ p \in Nat
    <3>1. d \in 1 .. Len(saved) /\ Depth \in 2 .. Depth
      BY <1>5, <1>10, <2>1 DEF Depth
    <3>2. saved[d] \in Nat /\ saved[d] <= saved[Depth]
      BY <2>1, <3>1, SizeIs DEF IInv, Shape, Places, PositionsNest
    <3>3. QED
      BY <1>2, <1>7, <2>2, <3>2
  <2>7. Noted(notes, ts, c, r, q)
    <3>1. CASE found
      <4>1. q = p /\ s < p
        BY <1>4, <1>7, <2>2, <3>1
      <4>2. PICK w : w = Head(f.code).what
        OBVIOUS
      <4>3. AtTest(f) /\ w.by = "rule" /\ w.of[1] = t.rule
        BY <2>5, <4>2 DEF Calls
      <4>4. Says(promise, w) = promise[t.rule]
        BY <4>3 DEF Says
      <4>5. \A fact \in Says(promise, w) : Holds(fact, ts, s, p)
        BY <1>8, <3>1, <4>4
      <4>6. node.rule = w.of[1] /\ c.found = Append(f.found, node)
        BY <1>4, <1>7, <2>3, <3>1, <4>3 DEF Node
      <4>7. c.code = Branch(Head(f.code), Tail(f.code), TRUE)
        BY <2>3, <3>1
      <4>8. ClosesUnits(g, notes, promise) /\ IsFrame(f) /\ c.rule = f.rule
        BY <1>7, <2>3, <2>5
      <4>9. w.by = "rule" => \E n : n.rule = w.of[1] /\ c.found = Append(f.found, n)
        BY <4>6
      <4>10. w.by # "rule" => c.found = f.found
        BY <4>3
      <4>11. AtTest(f)
        BY <4>3
      <4>12. r <= s /\ s < p /\ r \in Nat /\ s \in Nat /\ p \in Nat
        BY <2>6, <4>1
      <4>13. Noted(notes, ts, c, r, p)
        BY <2>4, <4>2, <4>5, <4>7, <4>8, <4>9, <4>10, <4>11, <4>12, NoteFinds, ZenonT(60)
      <4>14. QED
        BY <4>1, <4>13
    <3>2. CASE ~found
      <4>1. q = s
        BY <1>4, <1>7, <2>2, <3>2
      <4>2. PICK i, rest : i = Head(f.code) /\ rest = Tail(f.code)
        OBVIOUS
      <4>3. i.op \in {"test", "while"} /\ f.code # <<>>
        BY <2>5, <4>2 DEF Calls, AtTest
      <4>4. c.code = Branch(i, rest, FALSE) /\ c.found = f.found
        BY <2>3, <3>2, <4>2
      <4>5. ClosesUnits(g, notes, promise)
        BY <1>7
      <4>6. Noted(notes, ts, c, r, s)
        BY <2>3, <2>4, <4>2, <4>3, <4>4, <4>5, NoteGoesOn
      <4>7. QED
        BY <4>1, <4>6
    <3>3. QED
      BY <3>1, <3>2
  <2>8. \A k \in 1 .. d : k \in 1 .. Depth /\ (k = d \/ k \in 1 .. Depth - 2)
    BY <2>1
  <2>9. \A k \in 1 .. d : frames'[k].rule = frames[k].rule /\ saved'[k] = saved[k]
    BY <1>5, <1>10, <2>1, <2>8
  <2>10. ASSUME NEW k \in 1 .. d
         PROVE  Noted(notes, tokens, frames'[k], saved'[k], Reached(k)')
    <3>1. CASE k = d
      <4>1. Reached(k)' = position'
        BY <1>5, <2>1, <3>1 DEF Reached
      <4>2. QED
        BY <1>7, <2>2, <2>7, <2>9, <3>1, <4>1
    <3>2. CASE k \in 1 .. Depth - 2
      <4>1. k # d /\ k # Depth /\ k + 1 \in 1 .. d /\ k \in 1 .. Depth
        BY <2>1, <3>2
      <4>2. Reached(k)' = saved'[k + 1] /\ Reached(k) = saved[k + 1]
        BY <1>5, <2>1, <4>1 DEF Reached
      <4>3. Reached(k)' = Reached(k) /\ saved'[k] = saved[k] /\ frames'[k] = frames[k]
        BY <1>5, <1>10, <2>9, <3>2, <4>1, <4>2
      <4>4. QED
        BY <4>1, <4>3 DEF PhraseInv
    <3>3. QED
      BY <2>8, <3>1, <3>2
  <2>11. ASSUME NEW k \in 1 .. d - 1
         PROVE  Calls(frames'[k], frames'[k + 1].rule)
    <3>1. k \in 1 .. Depth - 2 /\ k \in 1 .. Depth - 1 /\ k + 1 \in 1 .. d
      BY <2>1
    <3>2. frames'[k] = frames[k] /\ frames'[k + 1].rule = frames[k + 1].rule
      BY <1>5, <1>10, <2>9, <3>1
    <3>3. QED
      BY <3>1, <3>2 DEF PhraseInv
  <2>12. frames'[1].rule = "DesignUnit"
    <3>1. 1 \in 1 .. d
      BY <2>1
    <3>2. QED
      BY <1>2, <2>9, <3>1 DEF PhraseInv
  <2>13. Depth' = d /\ units' = units
    BY <1>5, <1>10, <2>1
  <2>14. QED
    BY <1>6, <2>10, <2>11, <2>12, <2>13 DEF PhraseInv
<1>11. QED
  BY <1>5, <1>9, <1>10

LEMMA PhraseStep ==
  ASSUME NEW notes, NEW promise, ClosesUnits(Rules["vhdl"], notes, promise)
  PROVE  IInv /\ (file.language = "vhdl" => PhraseInv(notes)) /\ [Next]_vars
           => (file.language = "vhdl" => PhraseInv(notes))'
<1> SUFFICES ASSUME IInv, file.language = "vhdl" => PhraseInv(notes), [Next]_vars,
                    file'.language = "vhdl"
             PROVE  PhraseInv(notes)'
  OBVIOUS
<1>1. file' = file
  BY DEF Next, NextUnit, Consume, Miss, Look, KeepLabel, SameLabel, Restart, PositionKnown, Call,
         Return, GoBack, ErrorReport, EndOfTokens, FollowNull, LeaveParse, Done, vars
<1>2. PhraseInv(notes) /\ ClosesUnits(Grammar, notes, promise)
  BY <1>1 DEF Grammar
<1>3. CASE Consume \/ Miss \/ Look \/ KeepLabel \/ SameLabel \/ Restart \/ PositionKnown
  BY <1>2, <1>3, PhraseWithin
<1>4. CASE NextUnit \/ Call
  BY <1>2, <1>4, PhraseEnters
<1>5. CASE Return \/ GoBack
  BY <1>2, <1>5, PhraseLeaves
<1>6. CASE ErrorReport \/ EndOfTokens \/ FollowNull \/ Done \/ UNCHANGED vars
  <2>1. UNCHANGED <<file, position, saved, frames, units>>
    BY <1>6 DEF ErrorReport, EndOfTokens, FollowNull, LeaveParse, Done, vars
  <2>2. Depth' = Depth /\ tokens' = tokens /\ \A k : Reached(k)' = Reached(k)
    BY <2>1 DEF Depth, tokens, Reached
  <2>3. QED
    BY <1>2, <2>1, <2>2 DEF PhraseInv
<1>7. QED
  BY <1>3, <1>4, <1>5, <1>6 DEF Next

\* Every unit delivered of a file of VHDL is whole, whatever the file, when
\* the grammar closes its units (the functions parse of the design units and
\* DesignFile::parse); what that asks of a grammar can be seen from its rules
\* alone, and MCParser lets TLC evaluate it for the grammar of hdlc.
THEOREM UnitsAlwaysWhole ==
  ASSUME NEW notes, NEW promise, ClosesUnits(Rules["vhdl"], notes, promise)
  PROVE  Spec => []UnitsAreWhole
<1>1. Init => (file.language = "vhdl" => PhraseInv(notes))
  <2> SUFFICES ASSUME Init PROVE PhraseInv(notes)
    OBVIOUS
  <2>1. Depth = 0 /\ Len(units) = 0
    BY EmptyIs DEF Init, Depth
  <2>2. QED
    BY <2>1 DEF PhraseInv
<1>2. (file.language = "vhdl" => PhraseInv(notes)) => UnitsAreWhole
  BY DEF PhraseInv, UnitsAreWhole, Whole
<1>3. IInv /\ (file.language = "vhdl" => PhraseInv(notes)) /\ [Next]_vars
        => (file.language = "vhdl" => PhraseInv(notes))'
  BY PhraseStep
<1>4. QED
  BY <1>1, <1>2, <1>3, InvAlways, PTL DEF Spec

-----------------------------------------------------------------------------
(* What is delivered is what the rules derive.                             *)

\* A parse function in progress comes out as what is left of it does, from
\* where it has come.
Traced(f, t, from, to) ==
  \A outcome : Derives(f, t, to, outcome) => Derives(f, Begun(f, t.rule), from, outcome)

Over ==
  \/ /\ Lacks(file, "DesignUnit", UnitsEnd)
     /\ status = IF UnitsEnd = Len(tokens) THEN "ended" ELSE "rejected"
  \/ Derives(file, Begun(file, "DesignUnit"), UnitsEnd, Throws(status))

DerivedUnits == \A i \in 1 .. Len(units) : Finds(file, "DesignUnit", units[i].from, units[i])

Stacked ==
  /\ \A k \in 1 .. Depth : Traced(file, frames[k], saved[k], Reached(k))
  /\ \A k \in 1 .. Depth - 1 : CallsRule(frames[k], frames[k + 1].rule)
  /\ Depth > 0 => frames[1].rule = "DesignUnit"

DerivedInv == Stacked /\ DerivedUnits /\ (Finished => Over)

\* The rules, one at a time.
LEMMA RulesAre ==
  ASSUME ClosedByRules, NEW f, NEW t, NEW at
  PROVE  ByItself(f, t, at) /\ ByCalling(f, t, at)
BY DEF ClosedByRules

LEMMA TopTraced ==
  ASSUME IInv, DerivedInv, Running
  PROVE  /\ Depth > 0 /\ Depth \in Nat \ {0} /\ Depth \in 1 .. Depth /\ IsFrame(Top)
         /\ saved[Depth] \in Nat /\ position \in Nat /\ saved[Depth] <= position
         /\ Traced(file, Top, saved[Depth], position)
<1>1. Depth \in 1 .. Len(frames) /\ IsFrame(Top) /\ Depth \in Nat /\ Depth > 0 /\ file \in Files
  BY TopIs DEF IInv, Shape, Running
<1>2. Depth \in 1 .. Depth /\ Reached(Depth) = position
  BY <1>1 DEF Reached
<1>3. saved[Depth] \in Nat /\ position \in Nat /\ saved[Depth] <= position
  BY <1>1, <1>2 DEF IInv, Shape, Places, PositionsNest, Depth
<1>4. Traced(file, Top, saved[Depth], position)
  BY <1>2 DEF DerivedInv, Stacked, Top
<1>5. QED
  BY <1>1, <1>2, <1>3, <1>4

\* What an instruction that calls nothing does to its parse function.
LEMMA StepAdvances ==
  ASSUME IInv, Running,
         Consume \/ Miss \/ Look \/ KeepLabel \/ SameLabel \/ Restart \/ PositionKnown
  PROVE  \E u : /\ Advances(file, Top, position, u, position')
                /\ u.rule = Top.rule /\ frames' = WithTop(u)
<1>1. PICK t, ts : t = Top /\ ts = file.tokens /\ IsFrame(t) /\ ts = tokens
  BY TopIs DEF IInv, Running, tokens
<1>2. PICK w, p : w = Head(t.code).what /\ p = position
  OBVIOUS
<1>3. Now.what = w /\ Now = Head(t.code)
  BY <1>1, <1>2 DEF Now
<1>4. ASSUME NEW op, Fetch(op) PROVE t.code # <<>> /\ Head(t.code).op = op
  BY <1>1, <1>4 DEF Fetch, Now
<1>5. ASSUME NEW b PROVE Continue(t, b).rule = t.rule
  BY <1>1, ContinuesAt
<1>6. ASSUME NEW c, NEW l
      PROVE  [t EXCEPT !.code = c].rule = t.rule /\ [t EXCEPT !.code = c, !.label = l].rule = t.rule
  BY <1>1, ContinuesAt
<1>7. ASSUME NEW to PROVE Reads(w, to) <=> Spelt(ts, w, p, to)
  BY <1>1, <1>2 DEF Reads, Spelt
<1>8. ASSUME NEW k PROVE PastEnd(w, k) <=> Beyond(ts, w, p + k)
  BY <1>1, <1>2 DEF PastEnd, Beyond
<1>9. p + 0 = p
  BY <1>2 DEF IInv, Shape, Places
<1>10. CASE Consume
  <2>1. At(t, {"test", "while"}) /\ w.by # "rule"
    BY <1>3, <1>4, <1>10 DEF Consume, At
  <2>2. position' \in p + 1 .. Len(ts) /\ Reads(w, position') /\ frames' = WithTop(Continue(t, TRUE))
    BY <1>1, <1>2, <1>3, <1>10 DEF Consume
  <2>3. Spelt(ts, w, p, position')
    BY <1>7, <2>2
  <2>4. Advances(file, t, p, Continue(t, TRUE), position')
    BY <1>1, <1>2, <2>1, <2>2, <2>3 DEF Advances
  <2>5. QED
    BY <1>1, <1>2, <1>5, <2>2, <2>4
<1>11. CASE Miss
  <2>1. At(t, {"test", "while"}) /\ w.by # "rule"
    BY <1>3, <1>4, <1>11 DEF Miss, At
  <2>2. /\ position' = p /\ ~PastEnd(w, 0) /\ \A to \in p + 1 .. Len(ts) : ~Reads(w, to)
        /\ frames' = WithTop(Continue(t, FALSE))
    BY <1>1, <1>2, <1>3, <1>11 DEF Miss
  <2>3. ~Beyond(ts, w, p) /\ \A to \in p + 1 .. Len(ts) : ~Spelt(ts, w, p, to)
    BY <1>7, <1>8, <1>9, <2>2
  <2>4. Advances(file, t, p, Continue(t, FALSE), position')
    BY <1>1, <1>2, <2>1, <2>2, <2>3 DEF Advances
  <2>5. QED
    BY <1>1, <1>2, <1>5, <2>2, <2>4
<1>12. CASE Look
  <2>1. At(t, {"ahead"})
    BY <1>4, <1>12 DEF Look, At
  <2>2. PICK skip : skip = Head(t.code).skip
    OBVIOUS
  <2>3. ~Beyond(ts, w, p + skip)
    BY <1>3, <1>8, <1>12, <2>2 DEF Look
  <2>4. position' = p /\ frames' = WithTop(Continue(t, Seen(ts, w, p + skip)))
    BY <1>1, <1>2, <1>3, <1>12, <2>2 DEF Look, Seen
  <2>5. Advances(file, t, p, Continue(t, Seen(ts, w, p + skip)), position')
    BY <1>1, <1>2, <2>1, <2>2, <2>3, <2>4 DEF Advances
  <2>6. QED
    BY <1>1, <1>2, <1>5, <2>4, <2>5
<1>13. CASE KeepLabel
  <2>1. At(t, {"label"})
    BY <1>4, <1>13 DEF KeepLabel, At
  <2>2. PICK u : u = [t EXCEPT !.code = Tail(@), !.label = ts[p].text]
    OBVIOUS
  <2>3. position' = p /\ frames' = WithTop(u)
    BY <1>1, <1>2, <1>13, <2>2 DEF KeepLabel
  <2>4. Advances(file, t, p, u, position')
    BY <1>1, <1>2, <2>1, <2>2, <2>3 DEF Advances
  <2>5. u.rule = t.rule
    BY <1>6, <2>2
  <2>6. QED
    BY <1>1, <1>2, <2>3, <2>4, <2>5
<1>14. CASE SameLabel
  <2>1. At(t, {"same"})
    BY <1>4, <1>14 DEF SameLabel, At
  <2>2. PICK u : u = [t EXCEPT !.code = Tail(@)]
    OBVIOUS
  <2>3. position' = p /\ frames' = WithTop(u) /\ t.label = ts[p].text
    BY <1>1, <1>2, <1>14, <2>2 DEF SameLabel
  <2>4. Advances(file, t, p, u, position')
    BY <1>1, <1>2, <2>1, <2>2, <2>3 DEF Advances
  <2>5. u.rule = t.rule
    BY <1>6, <2>2
  <2>6. QED
    BY <1>1, <1>2, <2>3, <2>4, <2>5
<1>15. CASE PositionKnown
  <2>1. At(t, {"here"})
    BY <1>4, <1>15 DEF PositionKnown, At
  <2>2. PICK u : u = [t EXCEPT !.code = Tail(@)]
    OBVIOUS
  <2>3. position' = p /\ frames' = WithTop(u) /\ p # Len(ts)
    BY <1>1, <1>2, <1>15, <2>2 DEF PositionKnown, AtEnd
  <2>4. Advances(file, t, p, u, position')
    BY <1>1, <1>2, <2>1, <2>2, <2>3 DEF Advances
  <2>5. u.rule = t.rule
    BY <1>6, <2>2
  <2>6. QED
    BY <1>1, <1>2, <2>3, <2>4, <2>5
<1>16. CASE Restart
  <2>1. At(t, {"again"})
    BY <1>4, <1>16 DEF Restart, At
  <2>2. PICK u : u = [t EXCEPT !.code = Rules[file.language][t.rule]]
    OBVIOUS
  <2>3. position' = p /\ frames' = WithTop(u)
    BY <1>1, <1>2, <1>16, <2>2 DEF Restart
  <2>4. Advances(file, t, p, u, position')
    BY <1>1, <1>2, <2>1, <2>2, <2>3 DEF Advances
  <2>5. u.rule = t.rule
    BY <1>6, <2>2
  <2>6. QED
    BY <1>1, <1>2, <2>3, <2>4, <2>5
<1>17. QED
  BY <1>10, <1>11, <1>12, <1>13, <1>14, <1>15, <1>16

\* A parse function that goes on.
LEMMA TracedWithin ==
  ASSUME ClosedByRules, IInv, DerivedInv, Running,
         NEW u, Advances(file, Top, position, u, position'), u.rule = Top.rule,
         frames' = WithTop(u), UNCHANGED <<file, saved, units, status>>
  PROVE  DerivedInv'
<1>1. IsSequence(frames) /\ Len(frames) = Depth /\ Depth \in Nat /\ Depth \in 1 .. Depth /\ Depth > 0
  BY TopTraced DEF IInv, Shape, Depth
<1>2. \A k \in 1 .. Depth : frames'[k] = IF k = Depth THEN u ELSE frames[k]
  BY <1>1, ReplacedIs DEF WithTop
<1>3. Depth' = Depth /\ tokens' = tokens /\ status' = "parsing"
  BY DEF Depth, tokens, Running
<1>4. \A k \in 1 .. Depth : frames'[k].rule = frames[k].rule
  BY <1>1, <1>2 DEF Top
<1>5. Traced(file, u, saved[Depth], position')
  <2>1. PICK t, s, p, q, f : t = Top /\ s = saved[Depth] /\ p = position /\ q = position' /\ f = file
    OBVIOUS
  <2>2. Traced(f, t, s, p) /\ Advances(f, t, p, u, q) /\ u.rule = t.rule
    BY <2>1, TopTraced
  <2>3. ASSUME NEW outcome, Derives(f, u, q, outcome)
        PROVE  Derives(f, Begun(f, u.rule), s, outcome)
    <3>1. Derives(f, t, p, outcome)
      BY <2>2, <2>3, RulesAre DEF ByItself
    <3>2. QED
      BY <2>2, <3>1 DEF Traced
  <2>4. QED
    BY <2>1, <2>3 DEF Traced
<1>6. ASSUME NEW k \in 1 .. Depth
      PROVE  Traced(file, frames'[k], saved[k], Reached(k)')
  <2>1. CASE k = Depth
    <3>1. Reached(k)' = position' /\ frames'[k] = u
      BY <1>2, <1>3, <2>1 DEF Reached
    <3>2. QED
      BY <1>5, <2>1, <3>1
  <2>2. CASE k # Depth
    <3>1. Reached(k)' = Reached(k) /\ frames'[k] = frames[k]
      BY <1>2, <1>3, <2>2 DEF Reached
    <3>2. QED
      BY <3>1 DEF DerivedInv, Stacked
  <2>3. QED
    BY <2>1, <2>2
<1>7. ASSUME NEW k \in 1 .. Depth - 1
      PROVE  CallsRule(frames'[k], frames'[k + 1].rule)
  <2>1. k \in 1 .. Depth /\ k + 1 \in 1 .. Depth /\ k # Depth
    BY <1>1
  <2>2. QED
    BY <1>2, <1>4, <2>1 DEF DerivedInv, Stacked
<1>8. frames'[1].rule = "DesignUnit"
  BY <1>1, <1>4 DEF DerivedInv, Stacked
<1>9. Stacked'
  BY <1>3, <1>6, <1>7, <1>8 DEF Stacked
<1>10. DerivedUnits'
  BY DEF DerivedInv, DerivedUnits
<1>11. ~Finished'
  BY <1>3 DEF Finished
<1>12. QED
  BY <1>9, <1>10, <1>11 DEF DerivedInv

\* A parse function that begins.
LEMMA TracedEnters ==
  ASSUME ClosedByRules, IInv, DerivedInv, NextUnit \/ Call
  PROVE  DerivedInv'
<1>1. /\ IsSequence(saved) /\ IsSequence(frames) /\ Len(frames) = Depth
      /\ Depth \in Nat /\ Len(saved) = Depth
  BY SequenceHas DEF IInv, Shape, Depth
<1>2. PICK q : /\ IF Depth = 0 THEN q = "DesignUnit" ELSE CallsRule(Top, q)
               /\ frames' = Append(frames, Frame(q)) /\ saved' = Append(saved, position)
  <2>1. CASE NextUnit
    <3>1. saved = <<>> /\ frames = <<>> /\ Depth = 0
      BY <1>1, <2>1, EmptySeq DEF NextUnit, Depth, IsSequence
    <3>2. QED
      BY <2>1, <3>1 DEF NextUnit
  <2>2. CASE Call
    <3>1. /\ Running /\ Top.code # <<>> /\ Head(Top.code).op \in {"test", "while"}
          /\ Now = Head(Top.code) /\ Now.what.by = "rule"
      BY <2>2 DEF Call, Fetch, Now
    <3>2. Depth # 0 /\ CallsRule(Top, Now.what.of[1])
      BY <3>1 DEF Running, CallsRule, At
    <3>3. QED
      BY <2>2, <3>2 DEF Call
  <2>3. QED
    BY <2>1, <2>2
<1>3. UNCHANGED <<file, position, units, status>> /\ status = "parsing"
  BY DEF NextUnit, Call, Fetch, Running
<1>4. PICK c : c = Frame(q)
  OBVIOUS
<1>5. c = Begun(file, q) /\ c.rule = q
  BY <1>4 DEF Frame, Begun
<1>6. saved'[Depth + 1] = position /\ Len(saved') = Depth + 1 /\ \A k \in 1 .. Depth : saved'[k] = saved[k]
  BY <1>1, <1>2, AppendIs
<1>7. frames'[Depth + 1] = c /\ \A k \in 1 .. Depth : frames'[k] = frames[k]
  BY <1>1, <1>2, <1>4, AppendIs
<1>8. Depth' = Depth + 1 /\ tokens' = tokens
  BY <1>3, <1>6 DEF Depth, tokens
<1>9. ASSUME NEW k \in 1 .. Depth + 1
      PROVE  Traced(file, frames'[k], saved'[k], Reached(k)')
  <2>1. CASE k = Depth + 1
    <3>1. Reached(k)' = position /\ saved'[k] = position /\ frames'[k] = c
      BY <1>3, <1>6, <1>7, <1>8, <2>1 DEF Reached
    <3>2. Traced(file, c, position, position)
      BY <1>5 DEF Traced
    <3>3. QED
      BY <3>1, <3>2
  <2>2. CASE k \in 1 .. Depth
    <3>1. k # Depth + 1 /\ k + 1 \in 1 .. Depth + 1 /\ (k # Depth => k + 1 \in 1 .. Depth)
      BY <1>1, <2>2
    <3>2. Reached(k)' = saved'[k + 1]
      BY <1>8, <3>1 DEF Reached
    <3>3. Reached(k)' = Reached(k)
      BY <1>6, <3>1, <3>2 DEF Reached
    <3>4. frames'[k] = frames[k] /\ saved'[k] = saved[k]
      BY <1>6, <1>7, <2>2
    <3>5. QED
      BY <2>2, <3>3, <3>4 DEF DerivedInv, Stacked
  <2>3. QED
    BY <1>1, <2>1, <2>2
<1>10. ASSUME NEW k \in 1 .. Depth
       PROVE  CallsRule(frames'[k], frames'[k + 1].rule)
  <2>1. CASE k = Depth
    <3>1. frames'[k] = Top /\ frames'[k + 1] = c /\ Depth # 0
      BY <1>1, <1>7, <2>1 DEF Top
    <3>2. QED
      BY <1>2, <1>5, <3>1
  <2>2. CASE k # Depth
    <3>1. k \in 1 .. Depth - 1 /\ k + 1 \in 1 .. Depth
      BY <1>1, <2>2
    <3>2. QED
      BY <1>7, <3>1 DEF DerivedInv, Stacked
  <2>3. QED
    BY <2>1, <2>2
<1>11. frames'[1].rule = "DesignUnit"
  <2>1. CASE Depth = 0
    BY <1>2, <1>5, <1>7, <2>1
  <2>2. CASE Depth # 0
    <3>1. Depth > 0 /\ 1 \in 1 .. Depth
      BY <1>1, <2>2
    <3>2. QED
      BY <1>7, <3>1 DEF DerivedInv, Stacked
  <2>3. QED
    BY <2>1, <2>2
<1>12. Stacked'
  <2>1. \A k \in 1 .. Depth' : Traced(file, frames'[k], saved'[k], Reached(k)')
    BY <1>8, <1>9
  <2>2. \A k \in 1 .. Depth' - 1 : CallsRule(frames'[k], frames'[k + 1].rule)
    <3>1. Depth' - 1 = Depth
      BY <1>1, <1>8
    <3>2. \A k \in 1 .. Depth : CallsRule(frames'[k], frames'[k + 1].rule)
      BY <1>10
    <3>3. QED
      BY <3>1, <3>2
  <2>3. QED
    BY <1>3, <1>11, <2>1, <2>2 DEF Stacked
<1>13. DerivedUnits' /\ ~Finished'
  BY <1>3 DEF DerivedInv, DerivedUnits, Finished
<1>14. QED
  BY <1>12, <1>13 DEF DerivedInv

\* What a call of optional<T> brings is what the rules derive of T.
LEMMA CallComesOut ==
  ASSUME ClosedByRules, IInv, DerivedInv, Return \/ GoBack
  PROVE  \E found \in BOOLEAN : \E node :
           /\ Leave(found, node)
           /\ found => /\ Finds(file, Top.rule, saved[Depth], node)
                       /\ node.from = saved[Depth] /\ node.to = position'
           /\ ~found => position' = saved[Depth] /\ Lacks(file, Top.rule, saved[Depth])
<1>1. Running
  BY DEF Return, GoBack, Fetch
<1>2. PICK t, s, p, f : t = Top /\ s = saved[Depth] /\ p = position /\ f = file
  OBVIOUS
<1>3. s \in Nat /\ p \in Nat /\ s <= p /\ Traced(f, t, s, p)
  BY <1>1, <1>2, TopTraced
<1>4. CASE Return
  <2>1. t.code = <<>> /\ position' = p
    BY <1>2, <1>4 DEF Return
  <2>2. PICK node : node = Node(t.rule, s, p, t.found)
    OBVIOUS
  <2>3. node.from = s /\ node.to = p /\ node.found = t.found
    BY <2>2 DEF Node
  <2>4. Derives(f, t, p, Returns(p, t.found))
    BY <2>1, RulesAre DEF ByItself
  <2>5. Derives(f, Begun(f, t.rule), s, Returns(p, t.found))
    BY <1>3, <2>4 DEF Traced
  <2>6. PICK found : found = (position > saved[Depth])
    OBVIOUS
  <2>7. found \in BOOLEAN /\ Leave(found, node)
    BY <1>2, <1>4, <2>2, <2>6 DEF Return
  <2>8. found => s < p
    BY <1>2, <1>3, <2>6
  <2>9. ~found => p = s
    <3>1. ~found => ~(p > s)
      BY <1>2, <2>6
    <3>2. QED
      BY <1>3, <3>1
  <2>10. found => Finds(f, t.rule, s, node)
    BY <2>2, <2>3, <2>5, <2>8 DEF Finds
  <2>11. ~found => Lacks(f, t.rule, s)
    BY <2>5, <2>9 DEF Lacks
  <2>12. QED
    BY <1>2, <2>1, <2>3, <2>7, <2>9, <2>10, <2>11
<1>5. CASE GoBack
  <2>1. At(t, {"reject"})
    BY <1>2, <1>5 DEF GoBack, Fetch, Now, At
  <2>2. Derives(f, t, p, Rejects)
    BY <2>1, RulesAre DEF ByItself
  <2>3. Derives(f, Begun(f, t.rule), s, Rejects)
    BY <1>3, <2>2 DEF Traced
  <2>4. Lacks(f, t.rule, s)
    BY <2>3 DEF Lacks
  <2>5. position' = s /\ Leave(FALSE, <<>>)
    BY <1>2, <1>5 DEF GoBack
  <2>6. QED
    BY <1>2, <2>4, <2>5
<1>6. QED
  BY <1>4, <1>5

\* The caller of a call that comes out so.
LEMMA CallerTraced ==
  ASSUME ClosedByRules, NEW f, NEW t, NEW r, NEW s, Traced(f, t, r, s), NEW rule, CallsRule(t, rule),
         NEW found \in BOOLEAN, NEW node, NEW to, NEW c, c.rule = t.rule,
         c = Continue(IF found THEN [t EXCEPT !.found = Append(@, node)] ELSE t, found),
         found => Finds(f, rule, s, node) /\ node.to = to,
         ~found => to = s /\ Lacks(f, rule, s)
  PROVE  Traced(f, c, r, to)
<1>1. ByCalling(f, t, s)
  BY RulesAre
<1>2. SUFFICES ASSUME NEW outcome, Derives(f, c, to, outcome)
               PROVE  Derives(f, t, s, outcome)
  BY DEF Traced
<1>3. CASE found
  <2>1. c = Continue([t EXCEPT !.found = Append(@, node)], TRUE) /\ node.to = to
    BY <1>3
  <2>2. Derives(f, Continue([t EXCEPT !.found = Append(@, node)], TRUE), node.to, outcome)
    BY <1>2, <2>1
  <2>3. QED
    BY <1>1, <1>3, <2>2 DEF ByCalling
<1>4. CASE ~found
  <2>1. c = Continue(t, FALSE) /\ to = s
    BY <1>4
  <2>2. Derives(f, Continue(t, FALSE), s, outcome)
    BY <1>2, <2>1
  <2>3. QED
    BY <1>1, <1>4, <2>2 DEF ByCalling
<1>5. QED
  BY <1>3, <1>4

\* A parse function that comes out.
LEMMA TracedLeaves ==
  ASSUME ClosedByRules, IInv, DerivedInv, Return \/ GoBack
  PROVE  DerivedInv'
<1>1. Running /\ file' = file /\ tokens' = tokens
  BY DEF Return, GoBack, Fetch, tokens
<1>2. PICK found \in BOOLEAN : \E node :
        /\ Leave(found, node)
        /\ found => /\ Finds(file, Top.rule, saved[Depth], node)
                    /\ node.from = saved[Depth] /\ node.to = position'
        /\ ~found => position' = saved[Depth] /\ Lacks(file, Top.rule, saved[Depth])
  BY CallComesOut
<1>3. PICK node :
        /\ Leave(found, node)
        /\ found => /\ Finds(file, Top.rule, saved[Depth], node)
                    /\ node.from = saved[Depth] /\ node.to = position'
        /\ ~found => position' = saved[Depth] /\ Lacks(file, Top.rule, saved[Depth])
  BY <1>2
<1>4. /\ Depth \in Nat \ {0} /\ Depth' = Depth - 1
      /\ \A i \in 1 .. Depth - 1 : saved'[i] = saved[i]
      /\ Depth > 1 =>
           /\ units' = units
           /\ \A i \in 1 .. Depth - 2 : frames'[i] = frames[i]
           /\ frames'[Depth - 1].rule = frames[Depth - 1].rule
           /\ frames'[Depth - 1] =
                Continue(IF found THEN [frames[Depth - 1] EXCEPT !.found = Append(@, node)]
                         ELSE frames[Depth - 1], found)
      /\ Depth = 1 => units' = IF found THEN Append(units, node) ELSE units
  BY <1>1, <1>3, LeaveIs
<1>5. status' = IF Depth > 1 THEN status
                ELSE IF found THEN status ELSE IF position' = Len(tokens) THEN "ended" ELSE "rejected"
  <2>1. CASE Depth > 1
    BY <1>1, <1>3, <2>1 DEF Leave
  <2>2. CASE ~(Depth > 1)
    BY <1>3, <2>2 DEF Leave
  <2>3. QED
    BY <2>1, <2>2
<1>6. status = "parsing" /\ DerivedUnits /\ Stacked /\ Depth > 0
  BY <1>1 DEF Running, Finished, DerivedInv
<1>7. CASE Depth = 1
  <2>1. Top.rule = "DesignUnit" /\ saved[1] = UnitsEnd /\ saved[Depth] = saved[1]
    BY <1>6, <1>7 DEF Stacked, Top, IInv, PositionsNest
  <2>2. CASE found
    <3>1. units' = Append(units, node) /\ IsSequence(units)
      BY <1>4, <1>7, <2>2 DEF IInv, Shape
    <3>2. /\ Len(units') = Len(units) + 1 /\ units'[Len(units) + 1] = node
          /\ \A j \in 1 .. Len(units) : units'[j] = units[j]
      BY <3>1, AppendIs
    <3>3. Len(units) \in Nat
      BY <3>1, SequenceHas
    <3>4. Finds(file, "DesignUnit", node.from, node)
      BY <1>3, <2>1, <2>2
    <3>5. ASSUME NEW i \in 1 .. Len(units')
          PROVE  Finds(file, "DesignUnit", units'[i].from, units'[i])
      <4>1. i \in 1 .. Len(units) \/ i = Len(units) + 1
        BY <3>2, <3>3
      <4>2. CASE i \in 1 .. Len(units)
        BY <1>6, <3>2, <4>2 DEF DerivedUnits
      <4>3. CASE i = Len(units) + 1
        BY <3>2, <3>4, <4>3
      <4>4. QED
        BY <4>1, <4>2, <4>3
    <3>6. DerivedUnits'
      BY <1>1, <3>5 DEF DerivedUnits
    <3>7. Depth' = 0 /\ ~Finished'
      BY <1>4, <1>5, <1>6, <1>7, <2>2 DEF Finished
    <3>8. QED
      BY <3>6, <3>7 DEF DerivedInv, Stacked
  <2>3. CASE ~found
    <3>1. units' = units /\ UnitsEnd' = UnitsEnd
      BY <1>4, <1>7, <2>3 DEF UnitsEnd
    <3>2. position' = UnitsEnd /\ Lacks(file, "DesignUnit", UnitsEnd)
      BY <1>3, <2>1, <2>3
    <3>3. status' = IF UnitsEnd = Len(tokens) THEN "ended" ELSE "rejected"
      BY <1>5, <1>7, <2>3, <3>2
    <3>4. Over'
      BY <1>1, <3>1, <3>2, <3>3 DEF Over
    <3>5. DerivedUnits' /\ Depth' = 0
      BY <1>1, <1>4, <1>6, <1>7, <3>1 DEF DerivedUnits
    <3>6. QED
      BY <3>4, <3>5 DEF DerivedInv, Stacked
  <2>4. QED
    BY <2>2, <2>3
<1>8. CASE Depth > 1
  <2>1. PICK d \in Nat : d = Depth - 1 /\ d \in 1 .. Depth /\ d \in 1 .. d /\ d + 1 = Depth /\ d \in 1 .. Depth - 1
    BY <1>4, <1>8
  <2>2. PICK t, c, r, to : t = frames[d] /\ c = frames'[d] /\ r = saved[d] /\ to = position'
    OBVIOUS
  <2>3. /\ c.rule = t.rule
        /\ c = Continue(IF found THEN [t EXCEPT !.found = Append(@, node)] ELSE t, found)
    BY <1>4, <1>8, <2>1, <2>2
  <2>4. PICK rule, s, f : rule = Top.rule /\ s = saved[Depth] /\ f = file
    OBVIOUS
  <2>5. Traced(f, t, r, s)
    <3>1. Reached(d) = saved[Depth]
      BY <2>1 DEF Reached
    <3>2. QED
      BY <1>6, <2>1, <2>2, <2>4, <3>1 DEF Stacked
  <2>6. CallsRule(t, rule)
    BY <1>6, <2>1, <2>2, <2>4 DEF Stacked, Top
  <2>7. found => Finds(f, rule, s, node) /\ node.to = to
    BY <1>3, <2>2, <2>4
  <2>8. ~found => to = s /\ Lacks(f, rule, s)
    BY <1>3, <2>2, <2>4
  <2>9. Traced(f, c, r, to)
    BY <2>3, <2>5, <2>6, <2>7, <2>8, CallerTraced
  <2>10. \A k \in 1 .. d : k \in 1 .. Depth /\ (k = d \/ k \in 1 .. Depth - 2)
    BY <2>1
  <2>11. \A k \in 1 .. d : frames'[k].rule = frames[k].rule /\ saved'[k] = saved[k]
    BY <1>4, <1>8, <2>1, <2>10
  <2>12. ASSUME NEW k \in 1 .. d
         PROVE  Traced(file, frames'[k], saved'[k], Reached(k)')
    <3>1. CASE k = d
      <4>1. Reached(k)' = position'
        BY <1>4, <2>1, <3>1 DEF Reached
      <4>2. QED
        BY <2>2, <2>4, <2>9, <2>11, <3>1, <4>1
    <3>2. CASE k \in 1 .. Depth - 2
      <4>1. k # d /\ k # Depth /\ k + 1 \in 1 .. d /\ k \in 1 .. Depth
        BY <2>1, <3>2
      <4>2. Reached(k)' = saved'[k + 1] /\ Reached(k) = saved[k + 1]
        BY <1>4, <2>1, <4>1 DEF Reached
      <4>3. Reached(k)' = Reached(k) /\ saved'[k] = saved[k] /\ frames'[k] = frames[k]
        BY <1>4, <1>8, <2>11, <3>2, <4>1, <4>2
      <4>4. QED
        BY <1>6, <4>1, <4>3 DEF Stacked
    <3>3. QED
      BY <2>10, <3>1, <3>2
  <2>13. ASSUME NEW k \in 1 .. d - 1
         PROVE  CallsRule(frames'[k], frames'[k + 1].rule)
    <3>1. k \in 1 .. Depth - 2 /\ k \in 1 .. Depth - 1 /\ k + 1 \in 1 .. d
      BY <2>1
    <3>2. frames'[k] = frames[k] /\ frames'[k + 1].rule = frames[k + 1].rule
      BY <1>4, <1>8, <2>11, <3>1
    <3>3. QED
      BY <1>6, <3>1, <3>2 DEF Stacked
  <2>14. frames'[1].rule = "DesignUnit"
    <3>1. 1 \in 1 .. d
      BY <2>1
    <3>2. QED
      BY <1>6, <2>11, <3>1 DEF Stacked
  <2>15. Depth' = d /\ units' = units /\ ~Finished'
    BY <1>4, <1>5, <1>6, <1>8, <2>1 DEF Finished
  <2>16. Stacked'
    BY <1>1, <2>12, <2>13, <2>14, <2>15 DEF Stacked
  <2>17. DerivedUnits'
    BY <1>1, <1>6, <2>15 DEF DerivedUnits
  <2>18. QED
    BY <2>15, <2>16, <2>17 DEF DerivedInv
<1>9. QED
  BY <1>4, <1>7, <1>8

\* What leaves the innermost parse function leaves all of them.
LEMMA ThrownThrough ==
  ASSUME ClosedByRules, IInv, DerivedInv, Running, NEW how, LeavesAt(file, Top, position, how)
  PROVE  Derives(file, Begun(file, "DesignUnit"), UnitsEnd, Throws(how))
<1>1. PICK f, n, out : f = file /\ n = Depth - 1 /\ out = Throws(how)
  OBVIOUS
<1>2. /\ Depth \in Nat \ {0} /\ n \in Nat /\ Depth \in 1 .. Depth /\ Depth > 0
      /\ Traced(f, Top, saved[Depth], position)
  BY <1>1, TopTraced
<1> DEFINE Comes(k) == Derives(f, Begun(f, frames[k].rule), saved[k], out)
           S == {k \in 0 .. n : Comes(Depth - k)}
<1>3. 0 \in S
  <2>1. Derives(f, Top, position, out)
    BY <1>1, RulesAre DEF ByItself
  <2>2. Derives(f, Begun(f, Top.rule), saved[Depth], out)
    BY <1>2, <2>1 DEF Traced
  <2>3. Depth - 0 = Depth /\ 0 \in 0 .. n
    BY <1>2
  <2>4. Comes(Depth)
    BY <2>2 DEF Top
  <2>5. QED
    BY <2>3, <2>4
<1>4. ASSUME NEW k \in 0 .. n - 1, k \in S
      PROVE  k + 1 \in S
  <2>1. PICK d : d = Depth - (k + 1)
    OBVIOUS
  <2>2. d \in 1 .. Depth - 1 /\ d \in 1 .. Depth /\ d + 1 = Depth - k /\ d # Depth /\ k + 1 \in 0 .. n
    BY <1>1, <1>2, <2>1
  <2>3. Comes(d + 1)
    BY <1>4, <2>2
  <2>4. PICK t, rule, s : t = frames[d] /\ rule = frames[d + 1].rule /\ s = saved[d + 1]
    OBVIOUS
  <2>5. Derives(f, Begun(f, rule), s, Throws(how))
    BY <1>1, <2>3, <2>4
  <2>6. CallsRule(t, rule)
    BY <2>2, <2>4 DEF DerivedInv, Stacked
  <2>7. Derives(f, t, s, Throws(how))
    BY <2>5, <2>6, RulesAre DEF ByCalling
  <2>8. Traced(f, t, saved[d], s)
    BY <1>1, <2>2, <2>4 DEF DerivedInv, Stacked, Reached
  <2>9. Comes(d)
    BY <1>1, <2>4, <2>7, <2>8 DEF Traced
  <2>10. QED
    BY <2>1, <2>2, <2>9
<1>5. n \in S
  <2> HIDE DEF S
  <2>1. 0 .. n \subseteq S
    BY <1>2, <1>3, <1>4, RangeInduction
  <2>2. QED
    BY <1>2, <2>1
<1>6. Depth - n = 1 /\ frames[1].rule = "DesignUnit" /\ saved[1] = UnitsEnd
  BY <1>1, <1>2 DEF DerivedInv, Stacked, IInv, PositionsNest
<1>7. Comes(Depth - n)
  BY <1>5
<1>8. QED
  BY <1>1, <1>6, <1>7

\* The ends of DesignFile::parse.
LEMMA TracedEnds ==
  ASSUME ClosedByRules, IInv, DerivedInv, ErrorReport \/ EndOfTokens \/ FollowNull
  PROVE  DerivedInv'
<1>1. Running /\ UNCHANGED <<file, position, saved, frames, units>>
  BY DEF ErrorReport, EndOfTokens, FollowNull, LeaveParse, Fetch
<1>2. PICK t, p, ts : t = Top /\ p = position /\ ts = file.tokens /\ ts = tokens
  BY DEF tokens
<1>3. PICK w : w = Head(t.code).what /\ w = Now.what /\ Now = Head(t.code)
  BY <1>2 DEF Now
<1>4. ASSUME NEW op, Fetch(op) PROVE t.code # <<>> /\ Head(t.code).op = op
  BY <1>2, <1>4 DEF Fetch, Now
<1>5. ASSUME NEW k PROVE PastEnd(w, k) <=> Beyond(ts, w, p + k)
  BY <1>2 DEF PastEnd, Beyond
<1>6. p + 0 = p
  BY <1>2 DEF IInv, Shape, Places
<1>7. LeavesAt(file, t, p, status')
  <2>1. CASE ErrorReport
    <3>1. status' = IF p = Len(ts) THEN "ended" ELSE "rejected"
      BY <1>2, <2>1 DEF ErrorReport, LeaveParse, AtEnd
    <3>2. At(t, {"fail"}) \/ (At(t, {"same"}) /\ t.label # "" /\ t.label # ts[p].text)
      BY <1>2, <1>4, <2>1 DEF ErrorReport, At
    <3>3. QED
      BY <1>2, <3>1, <3>2 DEF LeavesAt
  <2>2. CASE EndOfTokens
    <3>1. status' = "ended"
      BY <2>2 DEF EndOfTokens, LeaveParse
    <3>2. PICK skip : skip = Head(t.code).skip
      OBVIOUS
    <3>3. \/ At(t, {"test", "while"}) /\ Beyond(ts, w, p)
          \/ At(t, {"ahead"}) /\ Beyond(ts, w, p + skip)
          \/ At(t, {"here"}) /\ p = Len(ts)
      <4>1. CASE Fetch("test") /\ PastEnd(Now.what, 0)
        BY <1>3, <1>4, <1>5, <1>6, <4>1 DEF At
      <4>2. CASE Fetch("while") /\ PastEnd(Now.what, 0)
        BY <1>3, <1>4, <1>5, <1>6, <4>2 DEF At
      <4>3. CASE Fetch("ahead") /\ PastEnd(Now.what, Now.skip)
        BY <1>3, <1>4, <1>5, <3>2, <4>3 DEF At
      <4>4. CASE Fetch("here") /\ AtEnd
        BY <1>2, <1>4, <4>4 DEF At, AtEnd
      <4>5. QED
        BY <2>2, <4>1, <4>2, <4>3, <4>4 DEF EndOfTokens
    <3>4. QED
      BY <1>2, <1>3, <3>1, <3>2, <3>3 DEF LeavesAt
  <2>3. CASE FollowNull
    <3>1. status' = "crashed"
      BY <2>3 DEF FollowNull, LeaveParse
    <3>2. At(t, {"crash"}) \/ (At(t, {"same"}) /\ t.label = "")
      BY <1>2, <1>4, <2>3 DEF FollowNull, At
    <3>3. QED
      BY <3>1, <3>2 DEF LeavesAt
  <2>4. QED
    BY <2>1, <2>2, <2>3
<1>8. PICK how : how = status' /\ LeavesAt(file, Top, position, how)
  BY <1>2, <1>7
<1>9. Derives(file, Begun(file, "DesignUnit"), UnitsEnd, Throws(how))
  BY <1>1, <1>8, ThrownThrough
<1>10. UnitsEnd' = UnitsEnd /\ Depth' = Depth /\ \A k : Reached(k)' = Reached(k)
  BY <1>1 DEF UnitsEnd, Depth, Reached
<1>11. Over'
  BY <1>1, <1>8, <1>9, <1>10 DEF Over
<1>12. Stacked' /\ DerivedUnits'
  BY <1>1, <1>10 DEF DerivedInv, Stacked, DerivedUnits
<1>13. QED
  BY <1>11, <1>12 DEF DerivedInv

LEMMA DerivedStep ==
  ASSUME ClosedByRules
  PROVE  IInv /\ DerivedInv /\ [Next]_vars => DerivedInv'
<1> SUFFICES ASSUME IInv, DerivedInv, [Next]_vars PROVE DerivedInv'
  OBVIOUS
<1>1. CASE Consume \/ Miss \/ Look \/ KeepLabel \/ SameLabel \/ Restart \/ PositionKnown
  <2>1. Running /\ UNCHANGED <<file, saved, units, status>>
    BY <1>1 DEF Consume, Miss, Look, KeepLabel, SameLabel, Restart, PositionKnown, Fetch
  <2>2. PICK u : /\ Advances(file, Top, position, u, position')
                 /\ u.rule = Top.rule /\ frames' = WithTop(u)
    BY <1>1, <2>1, StepAdvances
  <2>3. QED
    BY <2>1, <2>2, TracedWithin
<1>2. CASE NextUnit \/ Call
  BY <1>2, TracedEnters
<1>3. CASE Return \/ GoBack
  BY <1>3, TracedLeaves
<1>4. CASE ErrorReport \/ EndOfTokens \/ FollowNull
  BY <1>4, TracedEnds
<1>5. CASE Done \/ UNCHANGED vars
  <2>1. UNCHANGED <<file, position, saved, frames, units, status>>
    BY <1>5 DEF Done, vars
  <2>2. Depth' = Depth /\ tokens' = tokens /\ UnitsEnd' = UnitsEnd /\ \A k : Reached(k)' = Reached(k)
    BY <2>1 DEF Depth, tokens, UnitsEnd, Reached
  <2>3. Stacked' /\ DerivedUnits'
    BY <2>1, <2>2 DEF DerivedInv, Stacked, DerivedUnits
  <2>4. (Finished => Over)'
    BY <2>1, <2>2 DEF DerivedInv, Finished, Over
  <2>5. QED
    BY <2>3, <2>4 DEF DerivedInv
<1>6. QED
  BY <1>1, <1>2, <1>3, <1>4, <1>5 DEF Next

\* Whatever the grammar and the file, every unit delivered is a phrase of the
\* grammar, with the phrases found in it, and starts where the one before
\* ends; and when DesignFile::parse is over, no phrase comes next, or what
\* ended it is what the next one throws.  It holds of every relation that the
\* rules close, and so of the least one, the meaning of the grammar: the stack
\* of optional<T>, the positions it remembers and goes back to, and what was
\* tried before leave no mark on what is delivered (Scanner::optional and
\* DesignFile::parse).
THEOREM ParsesAlwaysDerived ==
  ASSUME ClosedByRules
  PROVE  Spec => []ParsesAsDerived
<1>1. Init => DerivedInv
  <2> SUFFICES ASSUME Init PROVE DerivedInv
    OBVIOUS
  <2>1. Depth = 0 /\ Len(units) = 0 /\ ~Finished
    BY EmptyIs DEF Init, Depth, Finished
  <2>2. QED
    BY <2>1 DEF DerivedInv, Stacked, DerivedUnits
<1>2. IInv /\ DerivedInv => ParsesAsDerived
  <2> SUFFICES ASSUME IInv, DerivedInv PROVE ParsesAsDerived
    OBVIOUS
  <2>1. ASSUME NEW i \in 1 .. Len(units)
        PROVE  Finds(file, "DesignUnit", IF i = 1 THEN 0 ELSE units[i - 1].to, units[i])
    <3>1. units[i].from = IF i = 1 THEN 0 ELSE units[i - 1].to
      BY DEF IInv, PositionsNest
    <3>2. Finds(file, "DesignUnit", units[i].from, units[i])
      BY DEF DerivedInv, DerivedUnits
    <3>3. QED
      BY <3>1, <3>2
  <2>2. QED
    BY <2>1 DEF ParsesAsDerived, DerivedInv, Over
<1>3. IInv /\ DerivedInv /\ [Next]_vars => DerivedInv'
  BY DerivedStep
<1>4. QED
  BY <1>1, <1>2, <1>3, InvAlways, PTL DEF Spec

=============================================================================
