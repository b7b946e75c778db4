----------------------------- MODULE DataLemmas -----------------------------
(***************************************************************************)
(* Facts about numbers and sequences that the proofs of the refinements    *)
(* need and that speak of no module of the driver.                         *)
(***************************************************************************)
EXTENDS Integers, Sequences, FiniteSetsExt,
        NaturalsInduction, WellFoundedInduction, SequenceTheorems, TLAPS

-----------------------------------------------------------------------------
(* The least element of a set of numbers.                                   *)

LessThan == {ss \in Nat \X Nat : ss[1] < ss[2]}

\* The order of the natural numbers is well-founded.
LEMMA LessThanWellFounded == IsWellFoundedOn(LessThan, Nat)
BY NatLessThanWellFounded, Zenon DEF OpToRel, LessThan

\* A set of natural numbers that is not empty has a least element: the form of
\* induction that needs no operator for its hypothesis.
LEMMA LeastNatural ==
  ASSUME NEW T \in SUBSET Nat, NEW x \in T
  PROVE  \E n \in T : \A k \in T : n <= k
<1>1. PICK n \in T : \A k \in T : ~(<<k, n>> \in LessThan)
  BY LessThanWellFounded, WFMin
<1>2. ASSUME NEW k \in T  PROVE n <= k
  <2>1. k \in Nat /\ n \in Nat
    OBVIOUS
  <2>2. k < n => <<k, n>> \in LessThan
    BY <2>1 DEF LessThan
  <2>. QED  BY <1>1, <2>1, <2>2
<1>. QED  BY <1>2

\* Min picks the least element.
LEMMA MinLeast ==
  ASSUME NEW T \in SUBSET Nat, NEW x \in T
  PROVE  Min(T) \in T /\ \A k \in T : Min(T) <= k
<1>1. \E n \in T : \A k \in T : n <= k
  BY LeastNatural
<1>. QED  BY <1>1, Zenon DEF Min

\* An element below all others is what Min picks.
LEMMA MinIs ==
  ASSUME NEW T \in SUBSET Nat, NEW n \in T, \A k \in T : n <= k
  PROVE  Min(T) = n
<1>1. Min(T) \in T /\ Min(T) <= n
  BY MinLeast
<1>2. n <= Min(T) /\ n \in Nat /\ Min(T) \in Nat
  BY <1>1
<1>. QED  BY <1>1, <1>2

-----------------------------------------------------------------------------
(* Queues with a packet in hand before them.                                *)

\* Hand(h) \o q, with Nil for no packet in hand.
Hand(h, nil) == IF h = nil THEN <<>> ELSE <<h>>

\* A queue with a packet in hand before it is a sequence of packets.
LEMMA HandType ==
  ASSUME NEW S, NEW nil, NEW h \in S \cup {nil}, NEW q \in Seq(S)
  PROVE  /\ Hand(h, nil) \in Seq(S)
         /\ Hand(h, nil) \o q \in Seq(S)
         /\ h = nil => Hand(h, nil) \o q = q
BY DEF Hand

\* Appending to the queue appends to the whole.
LEMMA HandAppend ==
  ASSUME NEW S, NEW nil, NEW h \in S \cup {nil}, NEW q \in Seq(S), NEW e \in S
  PROVE  Hand(h, nil) \o Append(q, e) = Append(Hand(h, nil) \o q, e)
<1>1. Hand(h, nil) \in Seq(S) /\ <<e>> \in Seq(S)
  BY HandType
<1>2. Hand(h, nil) \o q \in Seq(S)
  BY <1>1, ConcatProperties
<1>3. /\ Append(q, e) = q \o <<e>>
      /\ Append(Hand(h, nil) \o q, e) = (Hand(h, nil) \o q) \o <<e>>
  BY <1>2, AppendIsConcat
<1>. QED  BY <1>1, <1>3, ConcatAssociative

\* What is neither in hand nor in the queue is not in the whole.
LEMMA HandHolds ==
  ASSUME NEW S, NEW nil, NEW h \in S \cup {nil}, NEW q \in Seq(S), NEW e,
         e # h, \A i \in 1 .. Len(q) : q[i] # e
  PROVE  \A i \in 1 .. Len(Hand(h, nil) \o q) : (Hand(h, nil) \o q)[i] # e
<1>. DEFINE f == Hand(h, nil)
<1>1. f \in Seq(S) /\ \A i \in 1 .. Len(f) : f[i] # e
  BY DEF Hand
<1>. HIDE DEF f
<1>2. /\ Len(f \o q) = Len(f) + Len(q)
      /\ \A i \in 1 .. Len(f) + Len(q) :
           (f \o q)[i] = IF i <= Len(f) THEN f[i] ELSE q[i - Len(f)]
  BY <1>1, ConcatProperties
<1>3. Len(f) \in Nat /\ Len(q) \in Nat
  BY <1>1
<1>4. \A i \in 1 .. Len(f \o q) : (f \o q)[i] # e
  BY <1>1, <1>2, <1>3
<1>. QED  BY <1>4 DEF f

\* The packet in hand is the head of the whole, the queue its tail.
LEMMA HandHead ==
  ASSUME NEW S, NEW nil, NEW h \in S, h # nil, NEW q \in Seq(S)
  PROVE  /\ Hand(h, nil) \o q # <<>>
         /\ Head(Hand(h, nil) \o q) = h
         /\ Tail(Hand(h, nil) \o q) = q
<1>1. <<h>> \in Seq(S) /\ Hand(h, nil) = <<h>>
  BY DEF Hand
<1>2. /\ <<h>> \o q \in Seq(S) /\ Len(<<h>> \o q) = 1 + Len(q)
      /\ \A i \in 1 .. 1 + Len(q) :
           (<<h>> \o q)[i] = IF i <= 1 THEN <<h>>[i] ELSE q[i - 1]
  BY <1>1, ConcatProperties
<1>3. <<h>> \o q # <<>> /\ Head(<<h>> \o q) = h
  BY <1>2, EmptySeq
<1>4. /\ Tail(<<h>> \o q) \in Seq(S) /\ Len(Tail(<<h>> \o q)) = Len(q)
      /\ \A i \in 1 .. Len(q) : Tail(<<h>> \o q)[i] = (<<h>> \o q)[i + 1]
  BY <1>2, <1>3, HeadTailProperties
<1>5. \A i \in 1 .. Len(q) : Tail(<<h>> \o q)[i] = q[i]
  BY <1>2, <1>4
<1>. QED  BY <1>1, <1>3, <1>4, <1>5, SeqEqual

\* Taking the head of the queue in hand does not change the whole.
LEMMA HandTake ==
  ASSUME NEW S, NEW nil, nil \notin S, NEW q \in Seq(S), q # <<>>
  PROVE  Head(q) \in S /\ Hand(Head(q), nil) \o Tail(q) = q
<1>1. /\ Head(q) \in S /\ Tail(q) \in Seq(S) /\ Len(Tail(q)) = Len(q) - 1
      /\ \A i \in 1 .. Len(q) - 1 : Tail(q)[i] = q[i + 1]
      /\ Len(q) \in Nat \ {0}
  BY HeadTailProperties, EmptySeq
<1>2. Hand(Head(q), nil) = <<Head(q)>> /\ <<Head(q)>> \in Seq(S) /\ Head(q) = q[1]
  BY <1>1 DEF Hand
<1>3. /\ <<Head(q)>> \o Tail(q) \in Seq(S)
      /\ Len(<<Head(q)>> \o Tail(q)) = Len(q)
      /\ \A i \in 1 .. Len(q) : (<<Head(q)>> \o Tail(q))[i] =
           IF i <= 1 THEN <<Head(q)>>[i] ELSE Tail(q)[i - 1]
  BY <1>1, <1>2, ConcatProperties
<1>4. \A i \in 1 .. Len(q) : (<<Head(q)>> \o Tail(q))[i] = q[i]
  BY <1>1, <1>2, <1>3
<1>. QED  BY <1>1, <1>2, <1>3, <1>4, SeqEqual
=============================================================================
