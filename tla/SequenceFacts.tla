---------------------------- MODULE SequenceFacts ----------------------------
(***************************************************************************)
(* Facts about the sequence operators the models are built from, used by   *)
(* the proofs about the queues, maps and rings of several components.       *)
(***************************************************************************)
EXTENDS Integers, Sequences, SequencesExt, FiniteSets, SequenceTheorems, FiniteSetTheorems,
        WellFoundedInduction, TLAPS
-----------------------------------------------------------------------------
\* Elements of a sequence.
LEMMA InToSet ==
    ASSUME NEW S, NEW s \in Seq(S)
    PROVE  /\ ToSet(s) \subseteq S
           /\ \A x : x \in ToSet(s) <=> \E i \in 1 .. Len(s) : s[i] = x
  BY DEF ToSet

\* A set of positions has a least element.
LEMMA LeastPosition ==
    ASSUME NEW I \in SUBSET Nat, I # {}
    PROVE  Min(I) \in I /\ \A y \in I : Min(I) <= y
<1>1. PICK x \in I : \A y \in I : ~(<<y, x>> \in OpToRel(<, Nat))
  BY NatLessThanWellFounded, WFMin
<1>2. ASSUME NEW y \in I PROVE x <= y
  <2>1. x \in Nat /\ y \in Nat /\ <<y, x>> \in Nat \X Nat
    OBVIOUS
  <2>2. y < x => <<y, x>> \in OpToRel(<, Nat)
    BY <2>1 DEF OpToRel
  <2>3. ~(y < x)
    BY <1>1, <2>2, Zenon
  <2>4. QED
    BY <2>1, <2>3
<1>3. QED
  BY <1>2 DEF Min

\* Taking the head off.
LEMMA TailElements ==
    ASSUME NEW S, NEW s \in Seq(S), s # <<>>
    PROVE  /\ Head(s) \in S /\ Head(s) = s[1] /\ Len(s) \in Nat \ {0}
           /\ Tail(s) \in Seq(S) /\ Len(Tail(s)) = Len(s) - 1
           /\ \A i \in 1 .. Len(s) - 1 : Tail(s)[i] = s[i + 1] /\ i + 1 \in 1 .. Len(s)
           /\ ToSet(s) = {Head(s)} \cup ToSet(Tail(s))
<1>1. /\ Head(s) \in S /\ Head(s) = s[1] /\ Len(s) \in Nat \ {0}
      /\ Tail(s) \in Seq(S) /\ Len(Tail(s)) = Len(s) - 1
      /\ \A i \in 1 .. Len(s) - 1 : Tail(s)[i] = s[i + 1] /\ i + 1 \in 1 .. Len(s)
  OBVIOUS
<1>2. PICK rest \in Seq(S) : rest = Tail(s)
  BY <1>1
<1>3. \A x : x \in ToSet(rest) <=> \E i \in 1 .. Len(rest) : rest[i] = x
  BY <1>2, InToSet
<1>4. \A x : x \in ToSet(s) <=> \E i \in 1 .. Len(s) : s[i] = x
  BY InToSet
<1>5. ASSUME NEW x PROVE x \in ToSet(s) <=> x = Head(s) \/ x \in ToSet(Tail(s))
  <2>1. ASSUME NEW i \in 1 .. Len(s), s[i] = x PROVE x = Head(s) \/ x \in ToSet(rest)
    <3>1. CASE i = 1
      BY <1>1, <2>1, <3>1
    <3>2. CASE i # 1
      <4>1. i - 1 \in 1 .. Len(rest) /\ rest[i - 1] = x
        BY <1>1, <1>2, <2>1, <3>2
      <4>2. QED
        BY <1>3, <4>1
    <3>3. QED
      BY <3>1, <3>2
  <2>2. Head(s) \in ToSet(s)
    BY <1>1, <1>4
  <2>3. ASSUME NEW i \in 1 .. Len(rest), rest[i] = x PROVE x \in ToSet(s)
    BY <1>1, <1>2, <1>4, <2>3
  <2>4. QED
    BY <1>2, <1>3, <1>4, <2>1, <2>2, <2>3
<1>6. QED
  BY <1>1, <1>5

\* Adding an element at the end.
LEMMA AppendElements ==
    ASSUME NEW S, NEW s \in Seq(S), NEW e \in S
    PROVE  /\ Append(s, e) \in Seq(S) /\ Len(Append(s, e)) = Len(s) + 1 /\ Len(s) \in Nat
           /\ \A i \in 1 .. Len(s) : Append(s, e)[i] = s[i]
           /\ Append(s, e)[Len(s) + 1] = e
           /\ ToSet(Append(s, e)) = ToSet(s) \cup {e}
<1>1. /\ Append(s, e) \in Seq(S) /\ Len(Append(s, e)) = Len(s) + 1
      /\ \A i \in 1 .. Len(s) : Append(s, e)[i] = s[i]
      /\ Append(s, e)[Len(s) + 1] = e
      /\ Len(s) \in Nat
  BY AppendProperties
<1>2. ASSUME NEW x PROVE x \in ToSet(Append(s, e)) <=> x \in ToSet(s) \/ x = e
  <2>1. x \in ToSet(Append(s, e)) <=> \E i \in 1 .. Len(s) + 1 : Append(s, e)[i] = x
    <3>1. PICK t \in Seq(S) : t = Append(s, e) /\ Len(t) = Len(s) + 1
      BY <1>1
    <3>2. x \in ToSet(t) <=> \E i \in 1 .. Len(t) : t[i] = x
      BY InToSet
    <3>3. QED
      BY <3>1, <3>2
  <2>2. x \in ToSet(s) <=> \E i \in 1 .. Len(s) : s[i] = x
    BY InToSet
  <2>3. \A i \in 1 .. Len(s) + 1 : i \in 1 .. Len(s) \/ i = Len(s) + 1
    BY <1>1
  <2>4. 1 .. Len(s) \subseteq 1 .. Len(s) + 1 /\ Len(s) + 1 \in 1 .. Len(s) + 1
    BY <1>1
  <2>5. QED
    BY <1>1, <2>1, <2>2, <2>3, <2>4, Zenon
<1>3. QED
  BY <1>1, <1>2

\* Taking the element at position p out.
LEMMA RemoveAtElements ==
    ASSUME NEW S, NEW s \in Seq(S), NEW p \in 1 .. Len(s)
    PROVE  /\ RemoveAt(s, p) \in Seq(S) /\ Len(RemoveAt(s, p)) = Len(s) - 1 /\ Len(s) \in Nat
           /\ \A i \in 1 .. Len(s) - 1 : RemoveAt(s, p)[i] = IF i < p THEN s[i] ELSE s[i + 1]
<1> DEFINE r == RemoveAt(s, p)
           a == SubSeq(s, 1, p - 1)
           b == SubSeq(s, p + 1, Len(s))
<1>1. /\ a \in Seq(S) /\ Len(a) = p - 1 /\ \A i \in 1 .. p - 1 : a[i] = s[i]
      /\ b \in Seq(S) /\ Len(b) = Len(s) - p /\ \A i \in 1 .. Len(s) - p : b[i] = s[p + i]
  OBVIOUS
<1>2. r = a \o b
  BY DEF RemoveAt
<1> HIDE DEF a, b, r
<1>3. /\ r \in Seq(S) /\ Len(r) = Len(a) + Len(b)
      /\ \A i \in 1 .. Len(a) + Len(b) : r[i] = IF i <= Len(a) THEN a[i] ELSE b[i - Len(a)]
  <2>1. a \in Seq(S) /\ b \in Seq(S)
    BY <1>1
  <2>2. QED
    BY <1>2, <2>1, ConcatProperties, Zenon
<1>4. \A i \in 1 .. Len(s) - 1 : r[i] = IF i <= p - 1 THEN a[i] ELSE b[i - (p - 1)]
  <2>1. Len(a) + Len(b) = Len(s) - 1
    BY <1>1
  <2>2. QED
    BY <1>1, <1>3, <2>1
<1>5. ASSUME NEW i \in 1 .. Len(s) - 1 PROVE r[i] = IF i < p THEN s[i] ELSE s[i + 1]
  <2>1. CASE i < p
    <3>1. i \in 1 .. p - 1 /\ i <= p - 1
      BY <2>1
    <3>2. QED
      BY <1>1, <1>4, <2>1, <3>1
  <2>2. CASE i >= p
    <3>1. i - (p - 1) \in 1 .. Len(s) - p /\ p + (i - (p - 1)) = i + 1
      BY <2>2
    <3>2. r[i] = b[i - (p - 1)]
      BY <1>4, <2>2
    <3>3. \A j \in 1 .. Len(s) - p : b[j] = s[p + j]
      BY <1>1
    <3>4. b[i - (p - 1)] = s[p + (i - (p - 1))]
      BY <3>1, <3>3, Zenon
    <3>5. ~(i < p)
      BY <2>2
    <3>6. QED
      BY <3>1, <3>2, <3>4, <3>5, Zenon
  <2>3. QED
    BY <2>1, <2>2
<1>6. QED
  BY <1>1, <1>3, <1>5 DEF r

\* Taking an element out of a list of distinct elements; the head stays in front.
LEMMA RemoveFirstElements ==
    ASSUME NEW S, NEW s \in Seq(S), NEW e, IsInjective(s)
    PROVE  /\ RemoveFirst(s, e) \in Seq(S) /\ Len(RemoveFirst(s, e)) <= Len(s)
           /\ ToSet(RemoveFirst(s, e)) = ToSet(s) \ {e} /\ IsInjective(RemoveFirst(s, e))
           /\ s # <<>> /\ e # Head(s) =>
                 RemoveFirst(s, e) # <<>> /\ Head(RemoveFirst(s, e)) = Head(s)
<1>1. CASE ~ \E i \in 1 .. Len(s) : s[i] = e
  <2>1. RemoveFirst(s, e) = s
    BY <1>1 DEF RemoveFirst
  <2>2. e \notin ToSet(s)
    BY <1>1, InToSet
  <2>3. QED
    BY <2>1, <2>2
<1>2. CASE \E i \in 1 .. Len(s) : s[i] = e
  <2> DEFINE I == {i \in 1 .. Len(s) : s[i] = e}
  <2>1. I \in SUBSET Nat /\ I # {}
    BY <1>2
  <2>2. PICK p \in I : p = Min(I)
    BY <2>1, LeastPosition
  <2>3. RemoveFirst(s, e) = RemoveAt(s, p)
    BY <1>2, <2>1, <2>2 DEF RemoveFirst, SelectInSeq
  <2>4. p \in 1 .. Len(s) /\ s[p] = e /\ Len(s) \in Nat
    BY <2>2
  <2>5. PICK r \in Seq(S) : /\ r = RemoveAt(s, p) /\ Len(r) = Len(s) - 1
                            /\ \A i \in 1 .. Len(s) - 1 : r[i] = IF i < p THEN s[i] ELSE s[i + 1]
    BY <2>4, RemoveAtElements
  <2> HIDE DEF I
  <2>6. \A i, j \in 1 .. Len(s) : s[i] = s[j] => i = j
    BY LenProperties DEF IsInjective
  <2>7. ASSUME NEW x PROVE x \in ToSet(r) <=> x \in ToSet(s) /\ x # e
    <3>1. ASSUME x \in ToSet(s), x # e PROVE x \in ToSet(r)
      <4>1. PICK i \in 1 .. Len(s) : s[i] = x
        BY <3>1, InToSet
      <4>2. PICK j \in 1 .. Len(s) - 1 : j = IF i < p THEN i ELSE i - 1
        BY <2>4, <3>1, <4>1
      <4>3. r[j] = x /\ j \in 1 .. Len(r)
        BY <2>4, <2>5, <3>1, <4>1, <4>2
      <4>4. QED
        BY <2>5, <4>3, InToSet
    <3>2. ASSUME x \in ToSet(r) PROVE x \in ToSet(s) /\ x # e
      <4>1. PICK j \in 1 .. Len(s) - 1 : r[j] = x
        BY <2>5, <3>2, InToSet
      <4>2. PICK i \in 1 .. Len(s) : i = IF j < p THEN j ELSE j + 1
        BY <2>4
      <4>3. s[i] = x /\ i # p
        BY <2>4, <2>5, <4>1, <4>2
      <4>4. QED
        BY <2>4, <2>6, <4>3, InToSet
    <3>3. QED
      BY <3>1, <3>2
  <2>8. IsInjective(r)
    <3>1. DOMAIN r = 1 .. Len(s) - 1
      BY <2>4, <2>5, LenProperties
    <3>2. ASSUME NEW i \in 1 .. Len(s) - 1, NEW j \in 1 .. Len(s) - 1, r[i] = r[j] PROVE i = j
      <4>1. PICK a \in 1 .. Len(s) : a = IF i < p THEN i ELSE i + 1
        BY <2>4
      <4>2. PICK b \in 1 .. Len(s) : b = IF j < p THEN j ELSE j + 1
        BY <2>4
      <4>3. s[a] = s[b]
        BY <2>4, <2>5, <3>2, <4>1, <4>2
      <4>4. a = b
        BY <2>6, <4>3
      <4>5. QED
        BY <2>4, <4>1, <4>2, <4>4
    <3>3. QED
      BY <3>1, <3>2 DEF IsInjective
  <2>9. ASSUME s # <<>>, e # Head(s) PROVE r # <<>> /\ Head(r) = Head(s)
    <3>1. Head(s) = s[1] /\ p # 1
      BY <2>4, <2>9, TailElements
    <3>2. Len(r) > 0 /\ r[1] = s[1]
      BY <2>4, <2>5, <3>1
    <3>3. QED
      BY <3>1, <3>2
  <2>10. Len(r) <= Len(s)
    BY <2>4, <2>5
  <2>11. ToSet(r) = ToSet(s) \ {e}
    BY <2>7
  <2>12. QED
    BY <2>3, <2>5, <2>8, <2>9, <2>10, <2>11
<1>3. QED
  BY <1>1, <1>2

\* Distinct elements stay distinct when a new one is added, or the head goes.
LEMMA StillDistinct ==
    ASSUME NEW S, NEW s \in Seq(S), IsInjective(s)
    PROVE  /\ \A e \in S : e \notin ToSet(s) => IsInjective(Append(s, e))
           /\ s # <<>> => IsInjective(Tail(s)) /\ Head(s) \notin ToSet(Tail(s))
<1>0. \A i, j \in 1 .. Len(s) : s[i] = s[j] => i = j
  BY LenProperties DEF IsInjective
<1>1. ASSUME NEW e \in S, e \notin ToSet(s) PROVE IsInjective(Append(s, e))
  <2>1. DOMAIN Append(s, e) = 1 .. Len(s) + 1 /\ Len(s) \in Nat
    BY AppendElements, LenProperties
  <2>2. \A i \in 1 .. Len(s) : s[i] # e
    BY <1>1, InToSet
  <2>3. QED
    BY <1>0, <2>1, <2>2, AppendElements DEF IsInjective
<1>2. ASSUME s # <<>> PROVE IsInjective(Tail(s)) /\ Head(s) \notin ToSet(Tail(s))
  <2>1. PICK t \in Seq(S) : /\ t = Tail(s) /\ Len(t) = Len(s) - 1 /\ Len(s) \in Nat \ {0}
                            /\ \A i \in 1 .. Len(s) - 1 : t[i] = s[i + 1] /\ i + 1 \in 1 .. Len(s)
                            /\ Head(s) = s[1]
    BY <1>2, TailElements
  <2>2. DOMAIN t = 1 .. Len(s) - 1
    BY <2>1, LenProperties
  <2>3. IsInjective(t)
    BY <1>0, <2>1, <2>2 DEF IsInjective
  <2>4. \A i \in 1 .. Len(t) : t[i] # Head(s)
    BY <1>0, <2>1
  <2>5. Head(s) \notin ToSet(t)
    BY <2>4, InToSet
  <2>6. QED
    BY <2>1, <2>3, <2>5
<1>3. QED
  BY <1>1, <1>2

\* Two lists of distinct elements that share none, one behind the other.
LEMMA JoinElements ==
    ASSUME NEW S, NEW s \in Seq(S), NEW t \in Seq(S), IsInjective(s), IsInjective(t),
           ToSet(s) \cap ToSet(t) = {}
    PROVE  /\ s \o t \in Seq(S) /\ Len(s \o t) = Len(s) + Len(t)
           /\ IsInjective(s \o t) /\ ToSet(s \o t) = ToSet(s) \cup ToSet(t)
           /\ s # <<>> => s \o t # <<>> /\ Head(s \o t) = Head(s)
<1>1. Len(s) \in Nat /\ Len(t) \in Nat
  BY LenProperties
<1>2. PICK r \in Seq(S) :
         /\ r = s \o t /\ Len(r) = Len(s) + Len(t)
         /\ \A i \in 1 .. Len(s) + Len(t) : r[i] = IF i <= Len(s) THEN s[i] ELSE t[i - Len(s)]
  <2>1. /\ s \o t \in Seq(S) /\ Len(s \o t) = Len(s) + Len(t)
        /\ \A i \in 1 .. Len(s) + Len(t) :
              (s \o t)[i] = IF i <= Len(s) THEN s[i] ELSE t[i - Len(s)]
    BY ConcatProperties, Zenon
  <2>2. QED
    BY <2>1
<1>3. /\ \A i \in 1 .. Len(s) : r[i] = s[i]
      /\ \A i \in 1 .. Len(t) : r[Len(s) + i] = t[i] /\ Len(s) + i \in 1 .. Len(r)
  <2>1. ASSUME NEW i \in 1 .. Len(t) PROVE r[Len(s) + i] = t[i] /\ Len(s) + i \in 1 .. Len(r)
    <3>1. Len(s) + i \in 1 .. Len(s) + Len(t) /\ ~(Len(s) + i <= Len(s)) /\ Len(s) + i - Len(s) = i
      BY <1>1
    <3>2. QED
      BY <1>2, <3>1
  <2>2. QED
    BY <1>1, <1>2, <2>1
<1>4. \A i \in 1 .. Len(r) : i \in 1 .. Len(s) \/ \E j \in 1 .. Len(t) : i = Len(s) + j
  <2>1. ASSUME NEW i \in 1 .. Len(r), i \notin 1 .. Len(s)
        PROVE  \E j \in 1 .. Len(t) : i = Len(s) + j
    <3>1. i - Len(s) \in 1 .. Len(t) /\ i = Len(s) + (i - Len(s))
      BY <1>1, <1>2, <2>1
    <3>2. QED
      BY <3>1
  <2>2. QED
    BY <2>1
<1>5. 1 .. Len(s) \subseteq 1 .. Len(r)
  BY <1>1, <1>2
<1>6. /\ \A x : x \in ToSet(r) <=> \E i \in 1 .. Len(r) : r[i] = x
      /\ \A x : x \in ToSet(s) <=> \E i \in 1 .. Len(s) : s[i] = x
      /\ \A x : x \in ToSet(t) <=> \E i \in 1 .. Len(t) : t[i] = x
  BY InToSet
<1>7. ToSet(r) = ToSet(s) \cup ToSet(t)
  <2>1. ASSUME NEW x \in ToSet(r) PROVE x \in ToSet(s) \cup ToSet(t)
    <3>1. PICK i \in 1 .. Len(r) : r[i] = x
      BY <1>6
    <3>2. CASE i \in 1 .. Len(s)
      BY <1>3, <1>6, <3>1, <3>2
    <3>3. ASSUME NEW j \in 1 .. Len(t), i = Len(s) + j PROVE x \in ToSet(t)
      BY <1>3, <1>6, <3>1, <3>3
    <3>4. QED
      BY <1>4, <3>2, <3>3
  <2>2. ASSUME NEW x \in ToSet(s) PROVE x \in ToSet(r)
    BY <1>3, <1>5, <1>6
  <2>3. ASSUME NEW x \in ToSet(t) PROVE x \in ToSet(r)
    BY <1>3, <1>6
  <2>4. QED
    BY <2>1, <2>2, <2>3
<1>8. IsInjective(r)
  <2>1. /\ \A i, j \in 1 .. Len(s) : s[i] = s[j] => i = j
        /\ \A i, j \in 1 .. Len(t) : t[i] = t[j] => i = j
    BY LenProperties DEF IsInjective
  <2>2. \A i \in 1 .. Len(s), j \in 1 .. Len(t) : s[i] # t[j]
    BY <1>6
  <2>3. ASSUME NEW i \in 1 .. Len(r), NEW j \in 1 .. Len(r), r[i] = r[j] PROVE i = j
    <3>1. CASE i \in 1 .. Len(s) /\ j \in 1 .. Len(s)
      BY <1>3, <2>1, <2>3, <3>1
    <3>2. ASSUME NEW k \in 1 .. Len(t), NEW l \in 1 .. Len(t), i = Len(s) + k, j = Len(s) + l
          PROVE  i = j
      BY <1>3, <2>1, <2>3, <3>2
    <3>3. ASSUME NEW k \in 1 .. Len(t), i = Len(s) + k, j \in 1 .. Len(s) PROVE FALSE
      BY <1>3, <2>2, <2>3, <3>3
    <3>4. ASSUME NEW k \in 1 .. Len(t), j = Len(s) + k, i \in 1 .. Len(s) PROVE FALSE
      BY <1>3, <2>2, <2>3, <3>4
    <3>5. QED
      BY <1>4, <3>1, <3>2, <3>3, <3>4
  <2>4. QED
    BY <2>3, LenProperties DEF IsInjective
<1>9. ASSUME s # <<>> PROVE r # <<>> /\ Head(r) = Head(s)
  <2>1. Len(s) > 0 /\ Head(s) = s[1]
    BY <1>9
  <2>2. Len(r) > 0 /\ r[1] = s[1]
    BY <1>1, <1>2, <1>3, <2>1
  <2>3. QED
    BY <2>1, <2>2
<1>10. QED
  BY <1>2, <1>7, <1>8, <1>9

\* RemoveFirst takes out one position that holds the element, or nothing.
LEMMA RemoveFirstAt ==
    ASSUME NEW S, NEW s \in Seq(S), NEW e
    PROVE  /\ e \notin ToSet(s) => RemoveFirst(s, e) = s
           /\ e \in ToSet(s) =>
                 \E p \in 1 .. Len(s) : s[p] = e /\ RemoveFirst(s, e) = RemoveAt(s, p)
<1>1. e \in ToSet(s) <=> \E i \in 1 .. Len(s) : s[i] = e
  BY InToSet
<1>2. ASSUME e \in ToSet(s)
      PROVE  \E p \in 1 .. Len(s) : s[p] = e /\ RemoveFirst(s, e) = RemoveAt(s, p)
  <2> DEFINE I == {i \in 1 .. Len(s) : s[i] = e}
  <2>1. I \in SUBSET Nat /\ I # {}
    BY <1>1, <1>2
  <2>2. PICK p \in I : p = Min(I)
    BY <2>1, LeastPosition
  <2>3. RemoveFirst(s, e) = RemoveAt(s, p)
    BY <1>1, <1>2, <2>1, <2>2 DEF RemoveFirst, SelectInSeq
  <2>4. QED
    BY <2>2, <2>3
<1>3. QED
  BY <1>1, <1>2 DEF RemoveFirst
=============================================================================
