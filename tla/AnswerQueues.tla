---------------------------- MODULE AnswerQueues ----------------------------
(***************************************************************************)
(* Calls of the page are answered in any order: KindTable, AccessMap,       *)
(* PortForwards, ReadOnlySwitch and CustomResources keep the answers (or    *)
(* the calls) under way as a sequence, in the order they were made, and     *)
(* take any one of them out.  What is left of such a sequence.              *)
(***************************************************************************)
EXTENDS Naturals, Sequences, SequencesExt, SequenceTheorems, TLAPS

\* RemoveAt leaves the other elements, in their order.
LEMMA RemoveAtFacts ==
    ASSUME NEW S, NEW s \in Seq(S), NEW i \in 1..Len(s)
    PROVE  /\ RemoveAt(s, i) \in Seq(S)
           /\ Len(RemoveAt(s, i)) = Len(s) - 1
           /\ \A j \in 1..(Len(s) - 1) : RemoveAt(s, i)[j] = IF j < i THEN s[j] ELSE s[j + 1]
<1> DEFINE left == SubSeq(s, 1, i - 1)
           right == SubSeq(s, i + 1, Len(s))
<1>1. Len(s) \in Nat /\ i \in Nat /\ 1 <= i /\ i <= Len(s)
  BY LenProperties
<1>2. \A j \in 1..Len(s) : s[j] \in S
  BY ElementOfSeq
<1>3. left \in Seq(S) /\ Len(left) = i - 1 /\ \A j \in 1..(i - 1) : left[j] = s[j]
  BY <1>1, <1>2
<1>4. /\ right \in Seq(S) /\ Len(right) = Len(s) - i
      /\ \A j \in 1..(Len(s) - i) : right[j] = s[i + j]
  BY <1>1, <1>2
<1>5. RemoveAt(s, i) = left \o right
  BY DEF RemoveAt
<1> HIDE DEF left, right
<1>6. /\ left \o right \in Seq(S) /\ Len(left \o right) = Len(left) + Len(right)
      /\ \A j \in 1..(Len(left) + Len(right)) :
            (left \o right)[j] = IF j <= Len(left) THEN left[j] ELSE right[j - Len(left)]
  BY <1>3, <1>4, ConcatProperties
<1>7. Len(left) + Len(right) = Len(s) - 1
  BY <1>1, <1>3, <1>4
<1>8. ASSUME NEW j \in 1..(Len(s) - 1)
      PROVE  (left \o right)[j] = IF j < i THEN s[j] ELSE s[j + 1]
  <2>1. CASE j < i
    BY <1>1, <1>3, <1>6, <1>7, <2>1
  <2>2. CASE ~(j < i)
    <3>1. j - (i - 1) \in 1..(Len(s) - i) /\ i + (j - (i - 1)) = j + 1 /\ ~(j <= i - 1)
      BY <1>1, <2>2
    <3>2. (left \o right)[j] = right[j - (i - 1)]
      BY <1>3, <1>6, <1>7, <3>1
    <3> QED BY <1>4, <2>2, <3>1, <3>2
  <2> QED BY <2>1, <2>2
<1> QED BY <1>5, <1>6, <1>7, <1>8

-----------------------------------------------------------------------------
\* The elements of s when the i-th is taken: each may be marked on that
\* occasion.  What is left has the marked elements, and the last of them is
\* the last there was, unless that is the one taken.
LEMMA TakenFacts ==
    ASSUME NEW S, NEW s \in Seq(S), NEW i \in 1..Len(s), NEW marked \in [1..Len(s) -> S],
           NEW rest, rest = RemoveAt(marked, i)
    PROVE  /\ Len(s) \in Nat /\ i \in Nat
           /\ rest \in Seq(S) /\ Len(rest) = Len(s) - 1
           /\ \A j \in 1..Len(rest) : /\ j < i => rest[j] = marked[j]
                                      /\ j >= i => rest[j] = marked[j + 1]
           /\ i < Len(s) => Len(rest) # 0 /\ rest[Len(rest)] = marked[Len(s)]
<1>1. Len(s) \in Nat /\ i \in Nat /\ 1 <= i /\ i <= Len(s)
  BY LenProperties
<1>2. marked \in Seq(S) /\ Len(marked) = Len(s)
  BY <1>1
<1>3. /\ rest \in Seq(S) /\ Len(rest) = Len(s) - 1
      /\ \A j \in 1..(Len(s) - 1) : rest[j] = IF j < i THEN marked[j] ELSE marked[j + 1]
  BY <1>2, RemoveAtFacts
<1>4. \A j \in 1..Len(rest) : /\ j < i => rest[j] = marked[j]
                              /\ j >= i => rest[j] = marked[j + 1]
  BY <1>1, <1>3
<1>5. ASSUME i < Len(s) PROVE Len(rest) # 0 /\ rest[Len(rest)] = marked[Len(s)]
  <2>1. Len(rest) \in 1..(Len(s) - 1) /\ ~(Len(rest) < i) /\ Len(rest) + 1 = Len(s)
    BY <1>1, <1>3, <1>5
  <2> QED BY <1>3, <2>1
<1> QED BY <1>1, <1>3, <1>4, <1>5

\* One more element is the last one.
LEMMA AppendFacts ==
    ASSUME NEW S, NEW s \in Seq(S), NEW e \in S
    PROVE  /\ Append(s, e) \in Seq(S)
           /\ Len(s) \in Nat /\ Len(Append(s, e)) = Len(s) + 1
           /\ Append(s, e)[Len(Append(s, e))] = e
BY AppendProperties, LenProperties
=============================================================================
