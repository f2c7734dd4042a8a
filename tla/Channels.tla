------------------------------ MODULE Channels ------------------------------
(***************************************************************************)
(* Facts about Go channels modelled as sequences, which the proofs about   *)
(* the hub and about the assignment of its labs share.                     *)
(***************************************************************************)
EXTENDS Integers, Sequences, SequenceTheorems, TLAPS

(* l is in the channel s. *)
InChan(s, l) == \E i \in 1..Len(s) : s[i] = l

(* No lab is in the channel s twice. *)
Once(s) == \A i, j \in 1..Len(s) : s[i] = s[j] => i = j

(* Receiving from a non-empty channel. *)
LEMMA ReceiveFacts ==
  ASSUME NEW S, NEW s \in Seq(S), s # <<>>
  PROVE  /\ Head(s) \in S
         /\ Head(s) = s[1]
         /\ Len(s) >= 1
         /\ Tail(s) \in Seq(S)
         /\ Len(Tail(s)) = Len(s) - 1
         /\ \A i \in 1..Len(Tail(s)) : Tail(s)[i] = s[i + 1]
BY HeadTailProperties

(* Sending to a channel. *)
LEMMA SendFacts ==
  ASSUME NEW S, NEW s \in Seq(S), NEW e \in S
  PROVE  /\ Append(s, e) \in Seq(S)
         /\ Len(Append(s, e)) = Len(s) + 1
         /\ \A i \in 1..Len(s) : Append(s, e)[i] = s[i]
         /\ Append(s, e)[Len(s) + 1] = e
BY AppendProperties

(* A channel of labs stays one when a lab is added to the known labs. *)
LEMMA SeqGrows ==
  ASSUME NEW m \in Nat, NEW s \in Seq(1..m)
  PROVE  s \in Seq(1..(m + 1))
<1>1. 1..m \subseteq 1..(m + 1)
  OBVIOUS
<1> QED
  BY <1>1

(* What is in a channel after receiving from it, *)
LEMMA InTail ==
    ASSUME NEW S, NEW s \in Seq(S), s # <<>>, Once(s)
    PROVE  /\ InChan(s, Head(s)) /\ ~InChan(Tail(s), Head(s))
           /\ \A l : l # Head(s) => (InChan(Tail(s), l) <=> InChan(s, l))
           /\ Once(Tail(s))
<1>1. /\ Head(s) = s[1] /\ Len(s) \in Nat /\ Len(s) >= 1
      /\ Len(Tail(s)) = Len(s) - 1
      /\ \A i \in 1..Len(Tail(s)) : Tail(s)[i] = s[i + 1]
  BY ReceiveFacts
<1>2. \A i \in 1..Len(Tail(s)) : i + 1 \in 1..Len(s) /\ i + 1 # 1 /\ Tail(s)[i] = s[i + 1]
  BY <1>1
<1>3. \A i \in 1..Len(s) : i # 1 => i - 1 \in 1..Len(Tail(s)) /\ Tail(s)[i - 1] = s[i]
  BY <1>1
<1>4. 1 \in 1..Len(s)
  BY <1>1
<1>5. InChan(s, Head(s)) /\ ~InChan(Tail(s), Head(s))
  BY <1>1, <1>2, <1>4 DEF InChan, Once
<1>6. ASSUME NEW l, l # Head(s) PROVE InChan(Tail(s), l) <=> InChan(s, l)
  BY <1>1, <1>2, <1>3, <1>6 DEF InChan
<1>7. ASSUME NEW i \in 1..Len(Tail(s)), NEW j \in 1..Len(Tail(s)), Tail(s)[i] = Tail(s)[j]
      PROVE  i = j
  <2>1. i + 1 = j + 1
    BY <1>2, <1>7 DEF Once
  <2> QED
    BY <2>1
<1> QED
  BY <1>5, <1>6, <1>7 DEF Once

(* and sending to it. *)
LEMMA InAppend ==
    ASSUME NEW S, NEW s \in Seq(S), NEW e \in S
    PROVE  /\ InChan(Append(s, e), e)
           /\ \A l : l # e => (InChan(Append(s, e), l) <=> InChan(s, l))
           /\ Once(s) /\ ~InChan(s, e) => Once(Append(s, e))
<1>1. /\ Len(s) \in Nat /\ Len(Append(s, e)) = Len(s) + 1
      /\ \A i \in 1..Len(s) : Append(s, e)[i] = s[i]
      /\ Append(s, e)[Len(s) + 1] = e
  BY SendFacts
<1>2. \A i \in 1..Len(Append(s, e)) : i \in 1..Len(s) \/ i = Len(s) + 1
  BY <1>1
<1>3. Len(s) + 1 \in 1..Len(Append(s, e)) /\ \A i \in 1..Len(s) : i \in 1..Len(Append(s, e))
  BY <1>1
<1>4. InChan(Append(s, e), e)
  BY <1>1, <1>3 DEF InChan
<1>5. ASSUME NEW l, l # e PROVE InChan(Append(s, e), l) <=> InChan(s, l)
  BY <1>1, <1>2, <1>3, <1>5 DEF InChan
<1>6. Once(s) /\ ~InChan(s, e) => Once(Append(s, e))
  BY <1>1, <1>2 DEF Once, InChan
<1> QED
  BY <1>4, <1>5, <1>6

=============================================================================
