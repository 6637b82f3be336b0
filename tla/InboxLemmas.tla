---------------------------- MODULE InboxLemmas -----------------------------
(***************************************************************************)
(* Counting: how often a message waits in an inbox (the buffered channels  *)
(* of bus.Bus), and how a finite set grows.                                *)
(***************************************************************************)
EXTENDS Naturals, Sequences, FiniteSets, SequenceTheorems, FiniteSetTheorems, TLAPS

(***************************************************************************)
(* How often m waits in box.                                               *)
(***************************************************************************)
Copies(box, m) == Cardinality({k \in 1..Len(box) : box[k] = m})

LEMMA CopiesType ==
    ASSUME NEW S, NEW box \in Seq(S), NEW m
    PROVE  IsFiniteSet({k \in 1..Len(box) : box[k] = m}) /\ Copies(box, m) \in Nat
<1>1. Len(box) \in Nat
  BY LenProperties
<1>2. IsFiniteSet(1..Len(box))
  BY <1>1, FS_Interval
<1>3. IsFiniteSet({k \in 1..Len(box) : box[k] = m})
  BY <1>2, FS_Subset
<1> QED BY <1>3, FS_CardinalityType DEF Copies

LEMMA CopiesEmpty == \A m : Copies(<<>>, m) = 0
<1> SUFFICES ASSUME NEW m PROVE Copies(<<>>, m) = 0
  OBVIOUS
<1>1. {k \in 1..Len(<<>>) : <<>>[k] = m} = {}
  BY EmptySeq
<1> QED BY <1>1, FS_EmptySet DEF Copies

LEMMA CopiesAppend ==
    ASSUME NEW S, NEW box \in Seq(S), NEW x \in S, NEW m
    PROVE  Copies(Append(box, x), m) = Copies(box, m) + (IF x = m THEN 1 ELSE 0)
<1> DEFINE n == Len(box)
           old == {k \in 1..n : box[k] = m}
           new == {k \in 1..Len(Append(box, x)) : Append(box, x)[k] = m}
<1>1. /\ n \in Nat /\ Len(Append(box, x)) = n + 1
      /\ \A k \in 1..n : Append(box, x)[k] = box[k]
      /\ Append(box, x)[n + 1] = x
  BY LenProperties, AppendProperties
<1>2. IsFiniteSet(old) /\ Cardinality(old) = Copies(box, m) /\ Copies(box, m) \in Nat
  BY CopiesType DEF Copies
<1>3. Cardinality(new) = Copies(Append(box, x), m)
  BY DEF Copies
<1> HIDE DEF n
<1>4. n + 1 \notin old
  BY <1>1
<1>5. x = m => new = old \cup {n + 1}
  BY <1>1
<1>6. x # m => new = old
  BY <1>1
<1>7. Cardinality(old \cup {n + 1}) = Cardinality(old) + 1
  BY <1>2, <1>4, FS_AddElement
<1> HIDE DEF old, new
<1>8. x = m => Copies(Append(box, x), m) = Copies(box, m) + 1
  BY <1>2, <1>3, <1>5, <1>7
<1>9. x # m => Copies(Append(box, x), m) = Copies(box, m)
  BY <1>2, <1>3, <1>6
<1> QED BY <1>2, <1>8, <1>9

LEMMA CopiesTail ==
    ASSUME NEW S, NEW box \in Seq(S), box # <<>>, NEW m
    PROVE  Copies(box, m) = Copies(Tail(box), m) + (IF Head(box) = m THEN 1 ELSE 0)
<1> DEFINE n == Len(box)
           rest == {k \in 2..n : box[k] = m}
           shifted == {k \in 1..Len(Tail(box)) : Tail(box)[k] = m}
           all == {k \in 1..n : box[k] = m}
           shift == [k \in shifted |-> k + 1]
<1>1. /\ n \in Nat /\ n # 0
      /\ Head(box) = box[1]
      /\ Tail(box) \in Seq(S) /\ Len(Tail(box)) = n - 1
      /\ \A k \in 1..(n - 1) : Tail(box)[k] = box[k + 1]
  BY LenProperties, HeadTailProperties, EmptySeq
<1>2. IsFiniteSet(shifted) /\ Cardinality(shifted) = Copies(Tail(box), m)
      /\ Copies(Tail(box), m) \in Nat
  BY <1>1, CopiesType DEF Copies
<1>3. Cardinality(all) = Copies(box, m)
  BY DEF Copies
<1> HIDE DEF n
<1>4. \A k \in shifted : k \in Nat /\ k + 1 \in rest
  BY <1>1
<1>5. shift \in [shifted -> rest]
  BY <1>4
<1>6. \A k \in rest : k - 1 \in shifted /\ shift[k - 1] = k
  BY <1>1
<1>7. \A j, k \in shifted : shift[j] = shift[k] => j = k
  BY <1>4
<1>8. shift \in Bijection(shifted, rest)
  BY <1>5, <1>6, <1>7 DEF Bijection, Injection, Surjection, IsInjective
<1>9. ExistsBijection(shifted, rest)
  BY <1>8 DEF ExistsBijection
<1>10. Head(box) = m => all = rest \cup {1}
  BY <1>1
<1>11. Head(box) # m => all = rest
  BY <1>1
<1>12. 1 \notin rest
  OBVIOUS
<1> HIDE DEF rest, shifted, all, shift
<1>13. IsFiniteSet(rest) /\ Cardinality(rest) = Copies(Tail(box), m)
  BY <1>2, <1>9, FS_Bijection
<1>14. Cardinality(rest \cup {1}) = Cardinality(rest) + 1
  BY <1>12, <1>13, FS_AddElement
<1>15. Head(box) = m => Copies(box, m) = Copies(Tail(box), m) + 1
  BY <1>2, <1>3, <1>10, <1>13, <1>14
<1>16. Head(box) # m => Copies(box, m) = Copies(Tail(box), m)
  BY <1>2, <1>3, <1>11, <1>13
<1> QED BY <1>2, <1>15, <1>16

(***************************************************************************)
(* A set that gains an element.                                            *)
(***************************************************************************)
LEMMA SetGrows ==
    ASSUME NEW A, NEW B, IsFiniteSet(B), A \subseteq B
    PROVE  /\ IsFiniteSet(A) /\ Cardinality(A) \in Nat /\ Cardinality(B) \in Nat
           /\ Cardinality(A) <= Cardinality(B)
           /\ A # B => Cardinality(A) + 1 <= Cardinality(B)
<1>1. /\ IsFiniteSet(A) /\ Cardinality(A) <= Cardinality(B)
      /\ Cardinality(A) \in Nat /\ Cardinality(B) \in Nat
  BY FS_Subset, FS_CardinalityType
<1>2. ASSUME A # B PROVE Cardinality(A) + 1 <= Cardinality(B)
  <2>1. PICK x \in B : x \notin A
    BY <1>2
  <2>2. IsFiniteSet(A \cup {x}) /\ Cardinality(A \cup {x}) = Cardinality(A) + 1
    BY <1>1, <2>1, FS_AddElement
  <2>3. A \cup {x} \subseteq B
    BY <2>1
  <2>4. Cardinality(A \cup {x}) <= Cardinality(B)
    BY <2>3, FS_Subset
  <2> QED BY <2>2, <2>4
<1> QED BY <1>1, <1>2
=============================================================================
