---------------------------- MODULE SequenceFacts ----------------------------
(***************************************************************************)
(* What the proofs need of sequences whose elements have no set to be      *)
(* taken from: syntax trees, frames and classes are records of any kind.   *)
(* And the least and the greatest elements that stand in for induction.    *)
(***************************************************************************)
EXTENDS Integers, Sequences, SequenceTheorems, WellFoundedInduction, TLAPS

IsSequence(s) == s \in Seq({s[i] : i \in DOMAIN s})

LEMMA SequenceIs ==
  ASSUME NEW S, NEW s \in Seq(S)
  PROVE  IsSequence(s)
<1> DEFINE R == {s[i] : i \in DOMAIN s}
<1>1. Len(s) \in Nat /\ DOMAIN s = 1 .. Len(s) /\ s \in [1 .. Len(s) -> S]
  BY LenProperties
<1>2. s = SubSeq(s, 1, Len(s))
  BY SubSeqFull
<1>3. \A i \in 1 .. Len(s) : s[i] \in R
  BY <1>1
<1>4. SubSeq(s, 1, Len(s)) \in Seq(R)
  BY <1>1, <1>3, SubSeqProperties
<1>5. QED
  BY <1>2, <1>4 DEF IsSequence

LEMMA SequenceHas ==
  ASSUME NEW s, IsSequence(s)
  PROVE  Len(s) \in Nat /\ DOMAIN s = 1 .. Len(s)
BY LenProperties DEF IsSequence

LEMMA AppendIs ==
  ASSUME NEW s, IsSequence(s), NEW e
  PROVE  /\ IsSequence(Append(s, e))
         /\ Len(Append(s, e)) = Len(s) + 1
         /\ Append(s, e)[Len(s) + 1] = e
         /\ \A i \in 1 .. Len(s) : Append(s, e)[i] = s[i]
<1> DEFINE R == {s[i] : i \in DOMAIN s} \cup {e}
<1>1. s \in Seq(R)
  BY SeqMonotonic DEF IsSequence
<1>2. e \in R
  OBVIOUS
<1> HIDE DEF R
<1>3. /\ Append(s, e) \in Seq(R) /\ Len(Append(s, e)) = Len(s) + 1
      /\ Append(s, e)[Len(s) + 1] = e
      /\ \A i \in 1 .. Len(s) : Append(s, e)[i] = s[i]
  BY <1>1, <1>2, AppendProperties
<1>4. IsSequence(Append(s, e))
  BY <1>3, SequenceIs
<1>5. QED
  BY <1>3, <1>4

LEMMA AppendedIs ==
  ASSUME NEW s, IsSequence(s), NEW e, NEW r, r = Append(s, e)
  PROVE  /\ IsSequence(r) /\ Len(r) = Len(s) + 1 /\ r[Len(s) + 1] = e
         /\ \A i \in 1 .. Len(s) : r[i] = s[i]
BY AppendIs

LEMMA ExceptIs ==
  ASSUME NEW s, IsSequence(s), NEW i \in 1 .. Len(s), NEW e
  PROVE  /\ IsSequence([s EXCEPT ![i] = e])
         /\ Len([s EXCEPT ![i] = e]) = Len(s)
         /\ \A j \in 1 .. Len(s) : [s EXCEPT ![i] = e][j] = IF j = i THEN e ELSE s[j]
<1> DEFINE R == {s[j] : j \in DOMAIN s} \cup {e}
<1>1. s \in Seq(R)
  BY SeqMonotonic DEF IsSequence
<1>2. e \in R
  OBVIOUS
<1> HIDE DEF R
<1>3. /\ [s EXCEPT ![i] = e] \in Seq(R)
      /\ Len([s EXCEPT ![i] = e]) = Len(s)
      /\ \A j \in 1 .. Len(s) : [s EXCEPT ![i] = e][j] = IF j = i THEN e ELSE s[j]
  BY <1>1, <1>2, ExceptSeq
<1>4. IsSequence([s EXCEPT ![i] = e])
  BY <1>3, SequenceIs
<1>5. QED
  BY <1>3, <1>4

\* The same of a sequence that is given by an equation.
LEMMA ReplacedIs ==
  ASSUME NEW s, IsSequence(s), NEW i \in 1 .. Len(s), NEW e,
         NEW r, r = [s EXCEPT ![i] = e]
  PROVE  /\ IsSequence(r) /\ Len(r) = Len(s)
         /\ \A j \in 1 .. Len(s) : r[j] = IF j = i THEN e ELSE s[j]
<1> DEFINE R == {s[j] : j \in DOMAIN s} \cup {e}
<1>1. s \in Seq(R)
  BY SeqMonotonic DEF IsSequence
<1>2. e \in R
  OBVIOUS
<1> HIDE DEF R
<1>3. /\ r \in Seq(R) /\ Len(r) = Len(s)
      /\ \A j \in 1 .. Len(s) : r[j] = IF j = i THEN e ELSE s[j]
  BY <1>1, <1>2, ExceptSeq
<1>4. QED
  BY <1>3, SequenceIs

LEMMA FrontIs ==
  ASSUME NEW s, IsSequence(s), s # <<>>
  PROVE  /\ Len(s) \in Nat \ {0}
         /\ IsSequence(SubSeq(s, 1, Len(s) - 1))
         /\ Len(SubSeq(s, 1, Len(s) - 1)) = Len(s) - 1
         /\ \A i \in 1 .. Len(s) - 1 : SubSeq(s, 1, Len(s) - 1)[i] = s[i]
<1> DEFINE R == {s[j] : j \in DOMAIN s}
<1>1. s \in Seq(R)
  BY DEF IsSequence
<1> HIDE DEF R
<1>2. Len(s) \in Nat \ {0}
  BY <1>1, EmptySeq
<1>3. \A i \in 1 .. Len(s) - 1 : s[i] \in R
  BY <1>1, <1>2, ElementOfSeq
<1> DEFINE n == Len(s) - 1
<1>4. /\ SubSeq(s, 1, n) \in Seq(R)
      /\ Len(SubSeq(s, 1, n)) = n
      /\ \A i \in 1 .. n : SubSeq(s, 1, n)[i] = s[i]
  <2>1. n \in Nat /\ \A i \in 1 .. n : s[i] \in R
    BY <1>2, <1>3
  <2> HIDE DEF n
  <2>2. /\ SubSeq(s, 1, n) \in Seq(R)
        /\ Len(SubSeq(s, 1, n)) = IF 1 <= n THEN n - 1 + 1 ELSE 0
        /\ \A i \in 1 .. n - 1 + 1 : SubSeq(s, 1, n)[i] = s[1 + i - 1]
    BY <2>1, SubSeqProperties
  <2>3. n - 1 + 1 = n /\ \A i \in 1 .. n : 1 + i - 1 = i
    BY <2>1
  <2>4. QED
    BY <2>1, <2>2, <2>3
<1>5. IsSequence(SubSeq(s, 1, Len(s) - 1))
  BY <1>4, SequenceIs
<1>6. QED
  BY <1>2, <1>4, <1>5

LEMMA UpToEqual ==
  ASSUME NEW a \in Nat, NEW b \in Nat, 1 .. a = 1 .. b
  PROVE  a = b
<1>1. a >= 1 => a \in 1 .. b
  OBVIOUS
<1>2. b >= 1 => b \in 1 .. a
  OBVIOUS
<1>3. QED
  BY <1>1, <1>2

-----------------------------------------------------------------------------
(* Least elements.                                                         *)

LEMMA LeastIs ==
  ASSUME NEW S \in SUBSET Nat, S # {}
  PROVE  \E n \in S : \A m \in S : n <= m
<1> DEFINE R == OpToRel(<, Nat)
<1>1. IsWellFoundedOn(R, Nat)
  BY NatLessThanWellFounded
<1>2. \A x, y \in Nat : <<x, y>> \in R <=> x < y
  BY DEF OpToRel
<1> HIDE DEF R
<1>3. PICK n \in S : \A m \in S : ~ (<<m, n>> \in R)
  BY <1>1, WFMin
<1>4. ASSUME NEW m \in S PROVE n <= m
  <2>1. n \in Nat /\ m \in Nat
    OBVIOUS
  <2>2. ~ (m < n)
    BY <1>2, <1>3, <2>1
  <2>3. QED
    BY <2>1, <2>2
<1>5. QED
  BY <1>4

LEMMA GreatestIs ==
  ASSUME NEW S \in SUBSET Nat, S # {}, NEW b \in Nat, \A n \in S : n <= b
  PROVE  \E n \in S : \A m \in S : m <= n
<1> DEFINE D == {d \in Nat : d <= b /\ b - d \in S}
<1>1. PICK s \in S : TRUE
  OBVIOUS
<1>2. s \in Nat /\ b - s \in Nat /\ b - s <= b /\ b - (b - s) = s
  OBVIOUS
<1>3. D \in SUBSET Nat /\ D # {}
  BY <1>2
<1>4. PICK d \in D : \A e \in D : d <= e
  BY <1>3, LeastIs
<1>5. ASSUME NEW m \in S PROVE m <= b - d
  <2>1. m \in Nat /\ b - m \in Nat /\ b - m <= b /\ b - (b - m) = m
    OBVIOUS
  <2>2. b - m \in D
    BY <2>1
  <2>3. d <= b - m
    BY <1>4, <2>2
  <2>4. QED
    BY <2>1, <2>3
<1>6. QED
  BY <1>5


\* What holds of 0 and is passed on by every number below n holds up to n.
LEMMA RangeInduction ==
  ASSUME NEW n \in Nat, NEW S, 0 \in S, \A k \in 0 .. n - 1 : k \in S => k + 1 \in S
  PROVE  0 .. n \subseteq S
<1> DEFINE T == {k \in 0 .. n : k \notin S}
<1>1. SUFFICES ASSUME T # {} PROVE FALSE
  OBVIOUS
<1>2. T \in SUBSET Nat
  OBVIOUS
<1>3. PICK k \in T : \A j \in T : k <= j
  BY <1>1, <1>2, LeastIs
<1>4. k \in 1 .. n
  OBVIOUS
<1>5. k - 1 \in 0 .. n - 1 /\ k - 1 \notin T /\ k - 1 \in 0 .. n
  BY <1>3, <1>4
<1>6. k - 1 + 1 \in S
  BY <1>5
<1>7. QED
  BY <1>4, <1>6

\* A function on the first numbers is a sequence.
LEMMA FunctionIsSequence ==
  ASSUME NEW n \in Nat, NEW S, NEW f \in [1 .. n -> S]
  PROVE  f \in Seq(S) /\ Len(f) = n /\ DOMAIN f = 1 .. n
<1>1. f \in Seq(S) /\ DOMAIN f = 1 .. n
  BY SeqDef
<1>2. Len(f) \in Nat /\ DOMAIN f = 1 .. Len(f)
  BY <1>1, LenProperties
<1>3. QED
  BY <1>1, <1>2

==============================================================================
