----------------------------- MODULE ReplyProofs -----------------------------
(***************************************************************************)
(* Theorems about Retrieval and ConversationContext, for every finite set  *)
(* of facts and messages, every budget and every limit.                    *)
(***************************************************************************)
EXTENDS ConversationContext, FunctionTheorems, FiniteSetTheorems, SequenceTheorems, TLAPS

-----------------------------------------------------------------------------
\* Numbers, sequences and texts

\* A set of numbers has a least one.
LEMMA LeastExists ==
    ASSUME NEW T \in SUBSET Nat, T # {}
    PROVE  \E x \in T : \A y \in T : x <= y
  <1>1. PICK x \in T : \A y \in T : ~ (<<y, x>> \in OpToRel(<, Nat))
    BY NatLessThanWellFounded, WFMin
  <1>2. \A y \in T : ~ (y < x)
    BY <1>1 DEF OpToRel
  <1>3. x \in Nat /\ \A y \in T : y \in Nat
    BY <1>1
  <1>4. \A y \in T : x <= y
    BY <1>2, <1>3
  <1> QED
    BY <1>1, <1>4

\* A bounded one has a greatest.
LEMMA MaxIsGreatest ==
    ASSUME NEW S \in SUBSET Nat, S # {}, NEW n \in Nat, \A x \in S : x <= n
    PROVE  Max(S) \in S /\ \A x \in S : x <= Max(S)
  <1> DEFINE T == {n - x : x \in S}
  <1>1. T \in SUBSET Nat /\ T # {}
    <2>1. \A x \in S : x \in Nat /\ x <= n /\ n - x \in Nat
      OBVIOUS
    <2> QED
      BY <2>1
  <1>2. PICK d \in T : \A y \in T : d <= y
    BY <1>1, LeastExists
  <1>3. PICK top \in S : d = n - top
    BY <1>2
  <1>4. ASSUME NEW x \in S
        PROVE  top >= x
    <2>1. n - top <= n - x
      BY <1>2, <1>3
    <2>2. top \in Nat /\ x \in Nat
      BY <1>3
    <2> QED
      BY <2>1, <2>2
  <1> QED
    BY <1>3, <1>4 DEF Max

\* A prefix of a list of facts.
LEMMA PrefixDoes ==
    ASSUME NEW S, NEW s \in Seq(S), NEW n \in 0..Len(s)
    PROVE  /\ SubSeq(s, 1, n) \in Seq(S)
           /\ Len(SubSeq(s, 1, n)) = n
           /\ DOMAIN SubSeq(s, 1, n) = 1..n
           /\ \A i \in 1..n : SubSeq(s, 1, n)[i] = s[i]
  <1>1. \A i \in 1..n : s[i] \in S
    BY LenProperties, ElementOfSeq
  <1>2. n \in Int /\ 1 \in Int
    BY LenProperties
  <1> QED
    BY <1>1, <1>2, SubSeqProperties, LenProperties

\* trim cuts a list within both ceilings, and no shorter than it has to.
LEMMA TrimDoes ==
    ASSUME NEW s \in Seq(Facts)
    PROVE  \E n \in 0..Len(s) :
              /\ Trim(s) = SubSeq(s, 1, n)
              /\ Fits(SubSeq(s, 1, n))
              /\ n = Len(s) \/ ~Fits(SubSeq(s, 1, n + 1))
  <1> DEFINE Cut(n) == n = Len(s) \/ ~Fits(SubSeq(s, 1, n + 1))
             cuts == {n \in 0..Len(s) : Cut(n)}
  <1>1. Len(s) \in Nat
    BY LenProperties
  <1>2. PICK n \in cuts : \A m \in cuts : n <= m
    <2>1. cuts \in SUBSET Nat /\ Len(s) \in cuts
      BY <1>1
    <2> HIDE DEF cuts
    <2> QED
      BY <2>1, LeastExists
  <1>3. ASSUME NEW m \in 0..n
        PROVE  Fits(SubSeq(s, 1, m))
    <2>1. CASE m = 0
      BY <1>1, <2>1, PrefixDoes, RetrievalAssumption DEF Fits
    <2>2. CASE m # 0
      <3>1. m - 1 \in 0..Len(s) /\ m - 1 \notin cuts /\ (m - 1) + 1 = m
        <4>1. n \in 0..Len(s) /\ m \in 0..n
          BY <1>2
        <4>2. m - 1 \in 0..Len(s) /\ (m - 1) + 1 = m /\ ~ (n <= m - 1)
          BY <1>1, <2>2, <4>1
        <4> HIDE DEF cuts
        <4> QED
          BY <1>2, <4>2
      <3> QED
        BY <3>1
    <2> QED
      BY <2>1, <2>2
  <1> DEFINE Longest(k) == (\A m \in 0..k : Fits(SubSeq(s, 1, m))) /\ Cut(k)
  <1>4. Longest(n)
    BY <1>2, <1>3
  <1>5. PICK k : k = CHOOSE n0 \in 0..Len(s) : Longest(n0)
    OBVIOUS
  <1>6. k \in 0..Len(s) /\ Longest(k)
    BY <1>2, <1>4, <1>5
  <1>7. Trim(s) = SubSeq(s, 1, k)
    BY <1>5 DEF Trim
  <1>8. k \in 0..k
    BY <1>1, <1>6
  <1> QED
    BY <1>6, <1>7, <1>8

\* The characters of finitely many facts are finitely many, and another fact
\* adds its own.
LEMMA TextIsFinite ==
    ASSUME NEW S \in SUBSET Facts
    PROVE  IsFiniteSet(Text(S)) /\ Chars(S) \in Nat
  <1> DEFINE parts == {{f} \X (1..Size[f]) : f \in S}
             part == [f \in S |-> {f} \X (1..Size[f])]
  <1>1. IsFiniteSet(S)
    BY RetrievalAssumption, FS_Subset
  <1>2. part \in Surjection(S, parts)
    BY DEF Surjection
  <1>3. IsFiniteSet(parts)
    BY <1>1, <1>2, FS_Surjection
  <1>4. ASSUME NEW f \in S
        PROVE  IsFiniteSet({f} \X (1..Size[f]))
    <2>1. IsFiniteSet({f})
      BY FS_Singleton
    <2>2. Size[f] \in Nat
      BY RetrievalAssumption
    <2>3. IsFiniteSet(1..Size[f])
      BY <2>2, FS_Interval
    <2> QED
      BY <2>1, <2>3, FS_Product
  <1>5. IsFiniteSet(UNION parts)
    <2>1. \A T \in parts : IsFiniteSet(T)
      BY <1>4
    <2> HIDE DEF parts
    <2> QED
      BY <1>3, <2>1, FS_UNION
  <1>6. IsFiniteSet(Text(S))
    BY <1>5 DEF Text
  <1> QED
    BY <1>6, FS_CardinalityType DEF Chars

LEMMA TextGrows ==
    ASSUME NEW S \in SUBSET Facts, NEW g \in Facts \ S
    PROVE  Chars(S \union {g}) = Size[g] + Chars(S)
  <1> DEFINE own == {g} \X (1..Size[g])
  <1>1. Text(S \union {g}) = Text(S) \union own
    BY DEF Text
  <1>2. Text(S) \intersect own = {}
    BY DEF Text
  <1>3. Size[g] \in Nat
    BY RetrievalAssumption
  <1>4. /\ IsFiniteSet({g}) /\ Cardinality({g}) = 1
        /\ IsFiniteSet(1..Size[g]) /\ Cardinality(1..Size[g]) = Size[g]
    <2>1. IsFiniteSet({g}) /\ Cardinality({g}) = 1
      BY FS_Singleton
    <2>2. IsFiniteSet(1..Size[g]) /\ Cardinality(1..Size[g]) = Size[g]
      <3>1. PICK n \in Nat : n = Size[g]
        BY <1>3
      <3>2. IsFiniteSet(1..n) /\ Cardinality(1..n) = IF 1 > n THEN 0 ELSE n - 1 + 1
        BY FS_Interval
      <3> QED
        BY <3>1, <3>2
    <2> QED
      BY <2>1, <2>2
  <1>5. IsFiniteSet(own) /\ Cardinality(own) = Size[g]
    <2>1. IsFiniteSet(own) /\ Cardinality(own) = Cardinality({g}) * Cardinality(1..Size[g])
      BY <1>4, FS_Product
    <2>2. 1 * Size[g] = Size[g]
      BY <1>3
    <2> QED
      BY <1>4, <2>1, <2>2
  <1>6. IsFiniteSet(Text(S)) /\ Cardinality(Text(S)) \in Nat
    BY TextIsFinite DEF Chars
  <1>7. Cardinality(Text(S) \union own) = Cardinality(Text(S)) + Cardinality(own)
    <2>1. Cardinality({}) = 0
      BY FS_EmptySet
    <2> HIDE DEF own
    <2>2. Cardinality(Text(S) \union own)
             = Cardinality(Text(S)) + Cardinality(own) - Cardinality({})
      BY <1>2, <1>5, <1>6, FS_Union
    <2> QED
      BY <1>3, <1>5, <1>6, <2>1, <2>2
  <1>8. Cardinality(Text(S)) + Size[g] = Size[g] + Cardinality(Text(S))
    BY <1>3, <1>6
  <1>9. Cardinality(Text(S \union {g})) = Size[g] + Cardinality(Text(S))
    BY <1>1, <1>5, <1>7, <1>8
  <1> QED
    BY <1>9 DEF Chars

-----------------------------------------------------------------------------
\* Lists of facts

\* A function on 1..n is a list.
LEMMA ListFrom ==
    ASSUME NEW S, NEW n \in Nat, NEW s \in [1..n -> S]
    PROVE  s \in Seq(S) /\ Len(s) = n /\ DOMAIN s = 1..n /\ Range(s) \subseteq S
  <1>1. s \in Seq(S)
    BY SeqDef
  <1>2. DOMAIN s = 1..n
    OBVIOUS
  <1>3. Len(s) \in Nat /\ DOMAIN s = 1..Len(s)
    BY <1>1, LenProperties
  <1>4. Len(s) = n
    <2>1. CASE n = 0
      BY <1>2, <1>3, <2>1
    <2>2. CASE n # 0
      <3>1. n \in 1..Len(s) /\ Len(s) + 1 \notin 1..n
        BY <1>2, <1>3, <2>2
      <3> QED
        BY <1>3, <3>1
    <2> QED
      BY <2>1, <2>2
  <1> QED
    BY <1>1, <1>2, <1>4 DEF Range

\* What a search returns holds no fact twice.
LEMMA HitsAre ==
    ASSUME NEW S, NEW n \in Nat, NEW s \in Hits(S, n)
    PROVE  s \in Seq(S) /\ IsInjective(s) /\ Range(s) \subseteq S
  <1>1. CASE s = <<>>
    <2>1. <<>> \in Seq(S) /\ DOMAIN <<>> = {}
      BY EmptySeq
    <2> QED
      BY <1>1, <2>1 DEF IsInjective, Range
  <1>2. CASE s # <<>>
    <2>1. PICK k \in 1..n : s \in [1..k -> S] /\ IsInjective(s)
      BY <1>2 DEF Hits
    <2>2. k \in Nat
      OBVIOUS
    <2> QED
      BY <2>1, <2>2, ListFrom
  <1> QED
    BY <1>1, <1>2

\* A list of all of a finite set, each once, leaves nothing out.
LEMMA PermutationsCover ==
    ASSUME NEW S, IsFiniteSet(S), NEW s \in [1..Cardinality(S) -> S], IsInjective(s)
    PROVE  s \in Seq(S) /\ Len(s) = Cardinality(S) /\ Range(s) = S
  <1>1. Cardinality(S) \in Nat
    BY FS_CardinalityType
  <1>2. s \in Seq(S) /\ Len(s) = Cardinality(S) /\ Range(s) \subseteq S
    BY <1>1, ListFrom
  <1>3. IsFiniteSet(1..Cardinality(S)) /\ Cardinality(1..Cardinality(S)) = Cardinality(S)
    <2>1. PICK n \in Nat : n = Cardinality(S)
      BY <1>1
    <2>2. IsFiniteSet(1..n) /\ Cardinality(1..n) = IF 1 > n THEN 0 ELSE n - 1 + 1
      BY FS_Interval
    <2> QED
      BY <2>1, <2>2
  <1>4. s \in Injection(1..Cardinality(S), S)
    BY DEF Injection
  <1>5. s \in Surjection(1..Cardinality(S), S)
    BY <1>3, <1>4, FS_Injection
  <1>6. Range(s) = S
    BY <1>5, Fun_SurjectionProperties
  <1> QED
    BY <1>2, <1>6

\* A list without repetition is as long as the set of what it holds.
LEMMA LengthIsSize ==
    ASSUME NEW S, NEW s \in Seq(S), IsInjective(s)
    PROVE  IsFiniteSet(Range(s)) /\ Cardinality(Range(s)) = Len(s)
  <1>1. Len(s) \in Nat /\ s \in [1..Len(s) -> S] /\ DOMAIN s = 1..Len(s)
    BY LenProperties
  <1>2. s \in Surjection(1..Len(s), Range(s))
    BY <1>1, Fun_RangeProperties
  <1>3. s \in Injection(1..Len(s), Range(s))
    BY <1>1, <1>2 DEF Injection, Surjection
  <1>4. IsFiniteSet(1..Len(s)) /\ Cardinality(1..Len(s)) = Len(s)
    <2>1. PICK n \in Nat : n = Len(s)
      BY <1>1
    <2>2. IsFiniteSet(1..n) /\ Cardinality(1..n) = IF 1 > n THEN 0 ELSE n - 1 + 1
      BY FS_Interval
    <2> QED
      BY <2>1, <2>2
  <1> QED
    BY <1>2, <1>3, <1>4, FS_Surjection

\* A prefix of a list without repetition is one, and what follows is not in it.
LEMMA PrefixKeeps ==
    ASSUME NEW S, NEW s \in Seq(S), IsInjective(s), NEW n \in 0..Len(s)
    PROVE  /\ IsInjective(SubSeq(s, 1, n))
           /\ Range(SubSeq(s, 1, n)) = {s[i] : i \in 1..n}
           /\ \A i \in n + 1..Len(s) : s[i] \notin Range(SubSeq(s, 1, n))
  <1>1. Len(s) \in Nat /\ DOMAIN s = 1..Len(s)
    BY LenProperties
  <1>2. PICK p : p = SubSeq(s, 1, n)
    OBVIOUS
  <1>3. p \in Seq(S) /\ DOMAIN p = 1..n /\ \A i \in 1..n : p[i] = s[i]
    BY <1>2, PrefixDoes
  <1>4. 1..n \subseteq DOMAIN s
    BY <1>1
  <1>5. Range(p) = {s[i] : i \in 1..n}
    BY <1>3 DEF Range
  <1>6. IsInjective(p)
    BY <1>3, <1>4 DEF IsInjective
  <1>7. ASSUME NEW i \in n + 1..Len(s)
        PROVE  s[i] \notin Range(p)
    <2>1. i \in DOMAIN s /\ i \notin 1..n
      BY <1>1
    <2> QED
      BY <1>4, <1>5, <2>1 DEF IsInjective
  <1> QED
    BY <1>2, <1>5, <1>6, <1>7

\* The head in any order and the tail of a list without repetition are one.
LEMMA RejoinKeeps ==
    ASSUME NEW S, NEW s \in Seq(S), IsInjective(s), NEW n \in 0..Len(s),
           NEW head \in Seq(S), IsInjective(head),
           Range(head) \subseteq Range(SubSeq(s, 1, n))
    PROVE  /\ head \o SubSeq(s, n + 1, Len(s)) \in Seq(S)
           /\ IsInjective(head \o SubSeq(s, n + 1, Len(s)))
  <1>1. Len(s) \in Nat /\ DOMAIN s = 1..Len(s) /\ n \in Nat /\ n <= Len(s)
    BY LenProperties
  <1>2. \A i \in n + 1..Len(s) : s[i] \in S
    BY <1>1, ElementOfSeq
  <1>3. PICK tail : tail = SubSeq(s, n + 1, Len(s))
    OBVIOUS
  <1>4. /\ tail \in Seq(S)
        /\ Len(tail) = IF n + 1 <= Len(s) THEN Len(s) - (n + 1) + 1 ELSE 0
        /\ \A i \in 1..Len(s) - (n + 1) + 1 : tail[i] = s[n + 1 + i - 1]
    BY <1>1, <1>2, <1>3, SubSeqProperties
  <1>5. Len(tail) = Len(s) - n /\ \A i \in 1..Len(s) - n : tail[i] = s[n + i]
    <2>1. Len(s) - (n + 1) + 1 = Len(s) - n
      BY <1>1
    <2>2. \A i \in 1..Len(s) - n : n + 1 + i - 1 = n + i
      BY <1>1
    <2>3. n + 1 <= Len(s) \/ Len(s) - n = 0
      <3>1. \A a, b \in Nat : a <= b => a + 1 <= b \/ b - a = 0
        OBVIOUS
      <3> QED
        BY <1>1, <3>1
    <2> QED
      BY <1>4, <2>1, <2>2, <2>3
  <1>6. PICK all : all = head \o tail
    OBVIOUS
  <1>7. /\ all \in Seq(S) /\ Len(all) = Len(head) + Len(tail)
        /\ \A i \in 1..Len(head) + Len(tail) :
              all[i] = IF i <= Len(head) THEN head[i] ELSE tail[i - Len(head)]
    BY <1>4, <1>6, ConcatProperties
  <1>8. Len(head) \in Nat /\ DOMAIN head = 1..Len(head) /\ DOMAIN all = 1..Len(all)
    BY <1>7, LenProperties
  <1>9. ASSUME NEW i \in DOMAIN all, i <= Len(head)
        PROVE  i \in DOMAIN head /\ all[i] = head[i]
                 /\ all[i] \in Range(SubSeq(s, 1, n))
    <2>1. i \in 1..Len(head) + Len(tail) /\ i \in DOMAIN head
      BY <1>7, <1>8, <1>9
    <2>2. all[i] = head[i]
      BY <1>7, <1>9, <2>1
    <2>3. head[i] \in Range(head)
      BY <2>1 DEF Range
    <2> QED
      BY <2>1, <2>2, <2>3
  <1>10. ASSUME NEW i \in DOMAIN all, ~(i <= Len(head))
         PROVE  /\ n + (i - Len(head)) \in n + 1..Len(s)
                /\ all[i] = s[n + (i - Len(head))]
                /\ all[i] \notin Range(SubSeq(s, 1, n))
    <2>1. i - Len(head) \in 1..Len(s) - n
      BY <1>1, <1>5, <1>7, <1>8, <1>10
    <2>2. n + (i - Len(head)) \in n + 1..Len(s)
      BY <1>1, <2>1
    <2>3. all[i] = s[n + (i - Len(head))]
      BY <1>5, <1>7, <1>8, <1>10, <2>1
    <2> QED
      BY <2>2, <2>3, PrefixKeeps
  <1>11. ASSUME NEW i \in DOMAIN all, NEW j \in DOMAIN all, all[i] = all[j]
         PROVE  i = j
    <2>1. i \in Nat /\ j \in Nat /\ Len(head) \in Nat
      BY <1>7, <1>8
    <2>2. CASE i <= Len(head) /\ j <= Len(head)
      BY <1>9, <1>11, <2>2 DEF IsInjective
    <2>3. CASE ~(i <= Len(head)) /\ ~(j <= Len(head))
      <3>1. n + (i - Len(head)) \in DOMAIN s /\ n + (j - Len(head)) \in DOMAIN s
        BY <1>1, <1>10, <2>3
      <3>2. n + (i - Len(head)) = n + (j - Len(head))
        BY <1>10, <1>11, <2>3, <3>1 DEF IsInjective
      <3> QED
        BY <1>1, <2>1, <3>2
    <2>4. CASE (i <= Len(head)) # (j <= Len(head))
      BY <1>9, <1>10, <1>11, <2>4
    <2> QED
      BY <2>2, <2>3, <2>4
  <1> QED
    BY <1>3, <1>6, <1>7, <1>11 DEF IsInjective

\* Trimming a list leaves a fact out only when the budget is full.
LEMMA TrimLeavesOut ==
    ASSUME NEW s \in Seq(Facts), IsInjective(s)
    PROVE  /\ Trim(s) \in Seq(Facts) /\ IsInjective(Trim(s))
           /\ Range(Trim(s)) \subseteq Range(s)
           /\ Range(s) \subseteq Range(Trim(s))
              \/ Cardinality(Range(Trim(s))) = MaxItems
              \/ \E g \in Range(s) \ Range(Trim(s)) :
                    Size[g] + Chars(Range(Trim(s))) > MaxChars
  <1>1. Len(s) \in Nat /\ DOMAIN s = 1..Len(s) /\ Range(s) \subseteq Facts
    BY LenProperties, RangeOfSeq
  <1>2. PICK n \in 0..Len(s) :
              /\ Trim(s) = SubSeq(s, 1, n)
              /\ Fits(SubSeq(s, 1, n))
              /\ n = Len(s) \/ ~Fits(SubSeq(s, 1, n + 1))
    BY TrimDoes
  <1>0. n \in 0..Len(s) /\ n \in Nat /\ n <= Len(s)
    <2>1. n \in 0..Len(s)
      BY <1>2
    <2> QED
      BY <1>1, <2>1
  <1>3. PICK p : p = SubSeq(s, 1, n)
    OBVIOUS
  <1>4. p \in Seq(Facts) /\ Len(p) = n
    BY <1>3, PrefixDoes
  <1>5. /\ IsInjective(p) /\ Range(p) = {s[i] : i \in 1..n}
        /\ \A i \in n + 1..Len(s) : s[i] \notin Range(p)
    BY <1>3, PrefixKeeps
  <1>6. Range(p) \subseteq Range(s)
    <2>1. 1..n \subseteq DOMAIN s
      BY <1>0, <1>1
    <2> QED
      BY <1>5, <2>1 DEF Range
  <1>7. CASE n = Len(s)
    <2>1. Range(s) = Range(p)
      BY <1>1, <1>5, <1>7 DEF Range
    <2> QED
      BY <1>2, <1>3, <1>4, <1>5, <1>6, <2>1
  <1>8. CASE n # Len(s)
    <2>1. n \in Nat /\ n + 1 \in 0..Len(s) /\ n + 1 \in n + 1..Len(s)
      <3>1. \A a, b \in Nat : a <= b /\ a # b =>
                a + 1 \in 0..b /\ a + 1 \in a + 1..b
        OBVIOUS
      <3> QED
        BY <1>0, <1>1, <1>8, <3>1
    <2>2. PICK q : q = SubSeq(s, 1, n + 1)
      OBVIOUS
    <2>3. Len(q) = n + 1 /\ Range(q) = {s[i] : i \in 1..n + 1}
      BY <2>1, <2>2, PrefixDoes, PrefixKeeps
    <2>4. s[n + 1] \in Range(s) \ Range(p)
      BY <1>1, <1>5, <2>1 DEF Range
    <2>5. Range(q) = Range(p) \union {s[n + 1]}
      <3>1. 1..n + 1 = (1..n) \union {n + 1}
        BY <2>1
      <3> QED
        BY <1>5, <2>3, <3>1
    <2>6. ~Fits(q) /\ Fits(p)
      BY <1>2, <1>3, <1>8, <2>2
    <2>7. MaxItems \in Nat \ {0} /\ MaxChars \in Nat
      BY RetrievalAssumption
    <2>8. CASE n + 1 > MaxItems
      <3>1. n = MaxItems
        BY <1>4, <2>1, <2>6, <2>7, <2>8 DEF Fits
      <3> QED
        BY <1>2, <1>3, <1>4, <1>5, <1>6, <3>1, LengthIsSize
    <2>9. CASE Chars(Range(q)) > MaxChars
      <3>1. PICK g : g = s[n + 1]
        OBVIOUS
      <3>2. Chars(Range(p) \union {g}) = Size[g] + Chars(Range(p))
        BY <1>1, <1>6, <2>4, <3>1, TextGrows
      <3>3. Size[g] + Chars(Range(p)) > MaxChars
        BY <2>5, <2>9, <3>1, <3>2
      <3> QED
        BY <1>2, <1>3, <1>4, <1>5, <1>6, <2>4, <3>1, <3>3
    <2>10. Chars(Range(q)) \in Nat
      BY <1>1, <1>6, <2>4, <2>5, TextIsFinite
    <2>11. n + 1 > MaxItems \/ Chars(Range(q)) > MaxChars
      BY <2>1, <2>3, <2>6, <2>7, <2>10 DEF Fits
    <2> QED
      BY <2>8, <2>9, <2>11
  <1> QED
    BY <1>7, <1>8

\* A fusion is a list of what was fused, each fact once.
LEMMA FusionsAre ==
    ASSUME NEW lists, \A s \in DOMAIN lists : Range(lists[s]) \subseteq Facts,
           NEW order \in Fusions(lists)
    PROVE  order \in Seq(Facts) /\ IsInjective(order)
  <1>1. PICK all : all = UNION {Range(lists[s]) : s \in DOMAIN lists}
    OBVIOUS
  <1>2. all \in SUBSET Facts
    BY <1>1
  <1>3. IsFiniteSet(all)
    BY <1>2, RetrievalAssumption, FS_Subset
  <1>4. order \in [1..Cardinality(all) -> all] /\ IsInjective(order)
    BY <1>1 DEF Fusions
  <1>5. order \in Seq(all)
    BY <1>3, <1>4, PermutationsCover
  <1> QED
    BY <1>2, <1>4, <1>5, SeqMonotonic

\* The cross-encoder answers with passages it was given.
LEMMA CrossEncodingsAre ==
    ASSUME NEW s \in Seq(Facts), IsInjective(s), NEW head \in CrossEncoded(s)
    PROVE  head \in Seq(Facts) /\ IsInjective(head) /\ Range(head) \subseteq Range(s)
  <1>1. CASE head = s
    BY <1>1
  <1>2. CASE head # s
    <2>1. head \in Hits(Range(s), Len(s))
      BY <1>2 DEF CrossEncoded
    <2>2. Len(s) \in Nat
      BY LenProperties
    <2>3. head \in Seq(Range(s)) /\ IsInjective(head) /\ Range(head) \subseteq Range(s)
      BY <2>1, <2>2, HitsAre
    <2> QED
      BY <2>3, RangeOfSeq, SeqMonotonic
  <1> QED
    BY <1>1, <1>2

\* The most salient facts are facts.
LEMMA MostSalientAre ==
    ASSUME NEW S, NEW limit
    PROVE  MostSalient(S, limit) \subseteq S
  BY DEF MostSalient

-----------------------------------------------------------------------------
\* The inductive invariant of the retrieval

Results == Hits(Facts, MaxHits) \union {Lost}
Returned == UNION {[P -> Results] : P \in SUBSET Strategies}

Queries ==
    [at : Stages \ {"none"}, scoped : BOOLEAN, planned : SUBSET Strategies,
     found : Returned, lost : BOOLEAN, hits : Seq(Facts), near : SUBSET Facts,
     degraded : BOOLEAN, early : BOOLEAN, facts : Seq(Facts)]

RetrievalTypes ==
    /\ active \subseteq Facts /\ indexed \subseteq Facts
    /\ query \in Queries \union {NoQuery}
    /\ live \subseteq Facts /\ steady \subseteq live

\* The histories bracket what the database believes.
HistoriesBracket ==
    query.at # "none" => steady \subseteq active /\ active \subseteq live

\* What has been gathered was read from the record, each fact once.
Gathered(q) ==
    /\ IsInjective(q.hits) /\ IsInjective(q.facts)
    /\ q.near \subseteq About \intersect live
    /\ q.lost = q.degraded
    /\ q.at \in {"raised", "refused"} => q.facts = <<>>

GatheredFits == query.at # "none" => Gathered(query)

\* NoRoomFor, of the facts that retrieval answers with.
Crowded(f, S) ==
    \/ Cardinality(S) = MaxItems
    \/ \E g \in live \ S : Size[g] + Chars(S) > MaxChars
    \/ Cardinality({g \in live : Salience[g] > Salience[f]}) >= ActiveLimit

Answered(q) ==
    q.at \in {"links", "done"} =>
        /\ Range(q.facts) \subseteq live
        /\ \A f \in steady \ Range(q.facts) : Crowded(f, Range(q.facts))

AnswerFits == query.at # "none" => Answered(query)

RetrievalFits == RetrievalTypes /\ HistoriesBracket /\ GatheredFits /\ AnswerFits

LEMMA QueryIsOne ==
    ASSUME RetrievalTypes, query.at # "none"
    PROVE  query \in Queries
  BY DEF RetrievalTypes, NoQuery

\* A search finds a list of facts, or fails.
LEMMA SearchesFind ==
    ASSUME RetrievalTypes, NEW s \in Strategies, NEW result \in SearchResults(s)
    PROVE  result \in Results
  <1>1. \A S \in SUBSET Facts : Hits(S, MaxHits) \subseteq Hits(Facts, MaxHits)
    BY DEF Hits
  <1>2. indexed \in SUBSET Facts /\ indexed \intersect Dated \in SUBSET Facts
    BY DEF RetrievalTypes
  <1>3. \/ result \in Guarded(Hits(indexed, MaxHits))
        \/ result \in Guarded(Hits(indexed \intersect Dated, MaxHits))
    BY DEF SearchResults, Strategies
  <1> QED
    BY <1>1, <1>2, <1>3 DEF Guarded, Results

\* What the retrieval begins with, or ends with when it raises.
LEMMA BeginningsFit ==
    ASSUME NEW scoped \in BOOLEAN, NEW planned \in SUBSET Strategies
    PROVE  /\ Begun(scoped, planned) \in Queries
           /\ Gathered(Begun(scoped, planned))
           /\ Begun(scoped, planned).at = "searching"
           /\ Begun(scoped, planned).facts = <<>>
  <1>1. <<>> \in Seq(Facts) /\ IsInjective(<<>>)
    BY EmptySeq DEF IsInjective
  <1>2. [s \in {} |-> <<>>] \in Returned
    <2>1. [s \in {} |-> <<>>] \in [{} -> Results]
      OBVIOUS
    <2> QED
      BY <2>1 DEF Returned
  <1>3. Begun(scoped, planned) \in Queries
    BY <1>1, <1>2 DEF Begun, Queries, Stages
  <1> QED
    BY <1>1, <1>3 DEF Begun, Gathered

\* A step that only moves the query.
LEMMA QueryMoves ==
    ASSUME RetrievalFits, query.at # "none", UNCHANGED <<storeVars, historyVars>>,
           NEW next \in Queries, query' = next, Gathered(next), Answered(next)
    PROVE  RetrievalFits'
  <1>1. RetrievalTypes'
    BY DEF RetrievalFits, RetrievalTypes, storeVars, historyVars
  <1>2. HistoriesBracket'
    BY DEF RetrievalFits, HistoriesBracket, storeVars, historyVars
  <1>3. GatheredFits'
    BY DEF GatheredFits, Gathered, historyVars
  <1>4. AnswerFits'
    BY DEF AnswerFits, Answered, Crowded, historyVars
  <1> QED
    BY <1>1, <1>2, <1>3, <1>4 DEF RetrievalFits

-----------------------------------------------------------------------------
\* The steps of the retrieval

\* What happens to the facts meanwhile widens the one history and narrows the
\* other, and leaves an answer as good as it was.
LEMMA ChangeFits ==
    RetrievalFits /\ Change => RetrievalFits'
  <1> SUFFICES ASSUME RetrievalFits, Change
               PROVE  RetrievalFits'
    OBVIOUS
  <1>1. query' = query /\ query.at # "none" /\ query.at # "done"
    BY DEF Change
  <1>2. active' \subseteq Facts /\ indexed' \subseteq Facts
    BY DEF RetrievalFits, RetrievalTypes, Change, Learn, Retire, Index
  <1>3. live' = live \union active' /\ steady' = steady \intersect active'
    BY DEF Change
  <1>4. RetrievalTypes'
    BY <1>1, <1>2, <1>3 DEF RetrievalFits, RetrievalTypes
  <1>5. HistoriesBracket'
    BY <1>3 DEF HistoriesBracket
  <1>6. GatheredFits'
    BY <1>1, <1>3 DEF RetrievalFits, GatheredFits, Gathered
  <1>7. AnswerFits'
    <2>1. PICK q : q = query
      OBVIOUS
    <2>2. PICK S : S = Range(q.facts)
      OBVIOUS
    <2> SUFFICES ASSUME q.at = "links"
                 PROVE  /\ S \subseteq live'
                        /\ \A f \in steady' \ S : Crowded(f, S)'
      BY <1>1, <2>1, <2>2 DEF AnswerFits, Answered
    <2>3. S \subseteq live /\ \A f \in steady \ S : Crowded(f, S)
      BY <1>1, <2>1, <2>2 DEF RetrievalFits, AnswerFits, Answered
    <2>4. ASSUME NEW f \in steady' \ S
          PROVE  Crowded(f, S)'
      <3>1. Crowded(f, S) /\ f \in Facts
        BY <1>3, <2>3 DEF RetrievalFits, RetrievalTypes
      <3>2. CASE Cardinality(S) = MaxItems
        BY <3>2 DEF Crowded
      <3>3. CASE \E g \in live \ S : Size[g] + Chars(S) > MaxChars
        BY <1>3, <3>3 DEF Crowded
      <3>4. CASE Cardinality({g \in live : Salience[g] > Salience[f]}) >= ActiveLimit
        <4>1. PICK was : was = {g \in live : Salience[g] > Salience[f]}
          OBVIOUS
        <4>2. PICK is : is = {g \in live' : Salience[g] > Salience[f]}
          OBVIOUS
        <4>3. was \in SUBSET is /\ is \in SUBSET Facts
          BY <1>3, <1>4, <4>1, <4>2 DEF RetrievalTypes
        <4>4. IsFiniteSet(is) /\ IsFiniteSet(was)
          BY <4>3, RetrievalAssumption, FS_Subset
        <4>5. Cardinality(was) <= Cardinality(is)
          BY <4>3, <4>4, FS_Subset
        <4>6. Cardinality(was) \in Nat /\ Cardinality(is) \in Nat
          BY <4>4, FS_CardinalityType
        <4>7. ActiveLimit \in Nat
          BY RetrievalAssumption
        <4>8. Cardinality(is) >= ActiveLimit
          BY <3>4, <4>1, <4>5, <4>6, <4>7
        <4> QED
          BY <4>2, <4>8 DEF Crowded
      <3> QED
        BY <3>1, <3>2, <3>3, <3>4 DEF Crowded
    <2> QED
      BY <1>3, <2>3, <2>4
  <1> QED
    BY <1>4, <1>5, <1>6, <1>7 DEF RetrievalFits

LEMMA BeginRetrievalFits ==
    RetrievalFits /\ BeginRetrieval => RetrievalFits'
  <1> SUFFICES ASSUME RetrievalFits, BeginRetrieval
               PROVE  RetrievalFits'
    OBVIOUS
  <1>1. PICK scoped \in BOOLEAN : \E planned \in Plans(scoped) :
            query' = Begun(scoped, planned)
    BY DEF BeginRetrieval
  <1>2. PICK planned \in SUBSET Strategies : query' = Begun(scoped, planned)
    BY <1>1 DEF Plans
  <1>3. PICK next : next = Begun(scoped, planned)
    OBVIOUS
  <1>4. /\ next \in Queries /\ Gathered(next) /\ next.at = "searching"
        /\ next.near = {} /\ IsInjective(next.hits) /\ IsInjective(next.facts)
        /\ next.lost = next.degraded
    BY <1>3, BeginningsFit DEF Gathered, Begun
  <1>5. query' = next /\ active' = active /\ indexed' = indexed
          /\ live' = active /\ steady' = active
    BY <1>2, <1>3 DEF BeginRetrieval, storeVars
  <1>6. RetrievalTypes'
    BY <1>4, <1>5 DEF RetrievalFits, RetrievalTypes
  <1>7. HistoriesBracket'
    BY <1>5 DEF HistoriesBracket
  <1>8. GatheredFits'
    BY <1>4, <1>5 DEF GatheredFits, Gathered
  <1>9. AnswerFits'
    BY <1>4, <1>5 DEF AnswerFits, Answered
  <1> QED
    BY <1>6, <1>7, <1>8, <1>9 DEF RetrievalFits

LEMMA SearchFits ==
    ASSUME NEW s \in Strategies
    PROVE  RetrievalFits /\ Search(s) => RetrievalFits'
  <1> SUFFICES ASSUME RetrievalFits, Search(s)
               PROVE  RetrievalFits'
    OBVIOUS
  <1>1. PICK q : q = query
    OBVIOUS
  <1>2. q \in Queries /\ q.at = "searching" /\ Gathered(q)
    BY <1>1, QueryIsOne DEF RetrievalFits, GatheredFits, Search
  <1>3. PICK result \in SearchResults(s) : query' =
            [query EXCEPT !.found = [t \in DOMAIN query.found \union {s} |->
                                       IF t = s THEN result ELSE query.found[t]]]
    BY DEF Search
  <1>4. result \in Results
    BY <1>3, SearchesFind DEF RetrievalFits
  <1>5. PICK found : found = [t \in DOMAIN q.found \union {s} |->
                                IF t = s THEN result ELSE q.found[t]]
    OBVIOUS
  <1>6. found \in Returned
    <2>1. q.found \in Returned
      BY <1>2 DEF Queries
    <2>2. PICK P \in SUBSET Strategies : q.found \in [P -> Results]
      BY <2>1 DEF Returned
    <2>3. found \in [P \union {s} -> Results] /\ P \union {s} \in SUBSET Strategies
      BY <1>4, <1>5, <2>2
    <2> QED
      BY <2>3 DEF Returned
  <1>7. PICK next : next = [q EXCEPT !.found = found]
    OBVIOUS
  <1>8. query' = next
    BY <1>1, <1>3, <1>5, <1>7
  <1>9. next \in Queries /\ next.at = "searching"
    BY <1>2, <1>6, <1>7 DEF Queries
  <1>10. Gathered(next)
    BY <1>2, <1>7 DEF Gathered, Queries
  <1>11. Answered(next)
    BY <1>9 DEF Answered
  <1> QED
    BY <1>1, <1>2, <1>8, <1>9, <1>10, <1>11, QueryMoves DEF Search

LEMMA FuseFits ==
    RetrievalFits /\ Fuse => RetrievalFits'
  <1> SUFFICES ASSUME RetrievalFits, Fuse
               PROVE  RetrievalFits'
    OBVIOUS
  <1>1. PICK q : q = query
    OBVIOUS
  <1>2. q \in Queries /\ q.at = "searching" /\ DOMAIN q.found = q.planned
    BY <1>1, QueryIsOne DEF RetrievalFits, Fuse
  <1>3. PICK lists : lists = [s \in query.planned \ Failed |-> query.found[s]]
    OBVIOUS
  <1>4. PICK order \in Fusions(lists) : query' =
            [Begun(query.scoped, {}) EXCEPT
               !.at = "fused", !.hits = order,
               !.lost = (Failed # {}), !.degraded = Degraded]
    BY <1>3 DEF Fuse
  <1>5. ASSUME NEW s \in DOMAIN lists
        PROVE  Range(lists[s]) \subseteq Facts
    <2>1. s \in DOMAIN q.found /\ lists[s] = q.found[s] /\ q.found[s] # Lost
      BY <1>1, <1>2, <1>3 DEF Failed
    <2>2. q.found \in Returned
      BY <1>2 DEF Queries
    <2>3. q.found[s] \in Results
      BY <2>1, <2>2 DEF Returned
    <2>4. lists[s] \in Hits(Facts, MaxHits)
      BY <2>1, <2>3 DEF Results
    <2>5. MaxHits \in Nat
      BY RetrievalAssumption
    <2> QED
      BY <2>4, <2>5, HitsAre
  <1>6. order \in Seq(Facts) /\ IsInjective(order)
    BY <1>4, <1>5, FusionsAre
  <1>7. PICK empty : empty = Begun(q.scoped, {})
    OBVIOUS
  <1>8. q.scoped \in BOOLEAN
    BY <1>2 DEF Queries
  <1>9. empty \in Queries /\ Gathered(empty)
    BY <1>7, <1>8, BeginningsFit
  <1>10. PICK lost \in BOOLEAN : lost = (Failed # {})
    OBVIOUS
  <1>11. Degraded = lost
    BY <1>10 DEF Degraded
  <1>12. PICK next : next = [empty EXCEPT !.at = "fused", !.hits = order,
                               !.lost = lost, !.degraded = lost]
    OBVIOUS
  <1>13. query' = next
    BY <1>1, <1>4, <1>7, <1>10, <1>11, <1>12
  <1>14. next \in Queries /\ next.at = "fused"
    BY <1>6, <1>9, <1>12 DEF Queries, Stages
  <1>15. Gathered(next)
    BY <1>6, <1>9, <1>12 DEF Gathered, Queries
  <1>16. Answered(next)
    BY <1>14 DEF Answered
  <1> QED
    BY <1>1, <1>2, <1>13, <1>14, <1>15, <1>16, QueryMoves DEF Fuse

LEMMA StopEarlyFits ==
    RetrievalFits /\ StopEarly => RetrievalFits'
  <1> SUFFICES ASSUME RetrievalFits, StopEarly
               PROVE  RetrievalFits'
    OBVIOUS
  <1>1. PICK q : q = query
    OBVIOUS
  <1>2. q \in Queries /\ q.at = "fused" /\ Gathered(q)
    BY <1>1, QueryIsOne DEF RetrievalFits, GatheredFits, StopEarly
  <1>3. PICK next : next = [q EXCEPT !.at = "wide", !.early = TRUE]
    OBVIOUS
  <1>4. query' = next
    BY <1>1, <1>3 DEF StopEarly
  <1>5. next \in Queries /\ next.at = "wide"
    BY <1>2, <1>3 DEF Queries, Stages
  <1>6. Gathered(next)
    BY <1>2, <1>3 DEF Gathered, Queries
  <1>7. Answered(next)
    BY <1>5 DEF Answered
  <1> QED
    BY <1>1, <1>2, <1>4, <1>5, <1>6, <1>7, QueryMoves DEF StopEarly

LEMMA TraverseFits ==
    RetrievalFits /\ Traverse => RetrievalFits'
  <1> SUFFICES ASSUME RetrievalFits, Traverse
               PROVE  RetrievalFits'
    OBVIOUS
  <1>1. PICK q : q = query
    OBVIOUS
  <1>2. q \in Queries /\ q.at = "fused" /\ Gathered(q)
    BY <1>1, QueryIsOne DEF RetrievalFits, GatheredFits, Traverse
  <1>3. PICK order : /\ order \in Seq(Facts) /\ IsInjective(order)
                     /\ query' = [q EXCEPT !.at = "wide", !.hits = order]
    <2>1. CASE query' = [query EXCEPT !.at = "wide"]
      <3>1. q.hits \in Seq(Facts) /\ IsInjective(q.hits)
        BY <1>2 DEF Queries, Gathered
      <3>2. query' = [q EXCEPT !.at = "wide", !.hits = q.hits]
        BY <1>1, <1>2, <2>1 DEF Queries
      <3> QED
        BY <3>1, <3>2
    <2>2. CASE query' # [query EXCEPT !.at = "wide"]
      <3>1. PICK near \in Hits(indexed, MaxHits) :
               \E order \in Fusions([s \in {"fused", "traversal"} |->
                                        IF s = "fused" THEN query.hits ELSE near]) :
                  query' = [query EXCEPT !.at = "wide", !.hits = order]
        BY <2>2 DEF Traverse
      <3>2. PICK lists : lists = [s \in {"fused", "traversal"} |->
                                     IF s = "fused" THEN q.hits ELSE near]
        OBVIOUS
      <3>3. PICK order \in Fusions(lists) :
                  query' = [query EXCEPT !.at = "wide", !.hits = order]
        BY <1>1, <3>1, <3>2
      <3>4. Range(near) \subseteq Facts
        <4>1. MaxHits \in Nat /\ indexed \subseteq Facts
          BY RetrievalAssumption DEF RetrievalFits, RetrievalTypes
        <4> QED
          BY <3>1, <4>1, HitsAre
      <3>5. Range(q.hits) \subseteq Facts
        BY <1>2, RangeOfSeq DEF Queries
      <3>6. \A s \in DOMAIN lists : Range(lists[s]) \subseteq Facts
        BY <3>2, <3>4, <3>5
      <3>7. order \in Seq(Facts) /\ IsInjective(order)
        BY <3>3, <3>6, FusionsAre
      <3> QED
        BY <1>1, <3>3, <3>7
    <2> QED
      BY <2>1, <2>2
  <1>4. PICK next : next = [q EXCEPT !.at = "wide", !.hits = order]
    OBVIOUS
  <1>5. next \in Queries /\ next.at = "wide"
    BY <1>2, <1>3, <1>4 DEF Queries, Stages
  <1>6. Gathered(next)
    BY <1>2, <1>3, <1>4 DEF Gathered, Queries
  <1>7. Answered(next)
    BY <1>5 DEF Answered
  <1> QED
    BY <1>1, <1>2, <1>3, <1>4, <1>5, <1>6, <1>7, QueryMoves DEF Traverse

LEMMA RerankFits ==
    RetrievalFits /\ Rerank => RetrievalFits'
  <1> SUFFICES ASSUME RetrievalFits, Rerank
               PROVE  RetrievalFits'
    OBVIOUS
  <1>1. PICK q : q = query
    OBVIOUS
  <1>2. q \in Queries /\ q.at = "wide" /\ Gathered(q)
    BY <1>1, QueryIsOne DEF RetrievalFits, GatheredFits, Rerank
  <1>3. PICK s : s = q.hits
    OBVIOUS
  <1>4. s \in Seq(Facts) /\ IsInjective(s)
    BY <1>2, <1>3 DEF Queries, Gathered
  <1>5. PICK cut : cut = IF Len(s) < Cutoff THEN Len(s) ELSE Cutoff
    OBVIOUS
  <1>6. PICK head \in CrossEncoded(SubSeq(s, 1, cut)) :
            query' = [query EXCEPT !.at = "resolving",
                        !.hits = Trim(head \o SubSeq(s, cut + 1, Len(s)))]
    BY <1>1, <1>3, <1>5 DEF Rerank
  <1>7. cut \in 0..Len(s)
    <2>1. Len(s) \in Nat /\ Cutoff \in Nat
      BY <1>4, LenProperties, RetrievalAssumption
    <2> QED
      BY <1>5, <2>1
  <1>8. SubSeq(s, 1, cut) \in Seq(Facts) /\ IsInjective(SubSeq(s, 1, cut))
    BY <1>4, <1>7, PrefixDoes, PrefixKeeps
  <1>9. head \in Seq(Facts) /\ IsInjective(head)
          /\ Range(head) \subseteq Range(SubSeq(s, 1, cut))
    BY <1>6, <1>8, CrossEncodingsAre
  <1>10. PICK all : all = head \o SubSeq(s, cut + 1, Len(s))
    OBVIOUS
  <1>11. all \in Seq(Facts) /\ IsInjective(all)
    BY <1>4, <1>7, <1>9, <1>10, RejoinKeeps
  <1>12. PICK hits : hits = Trim(all)
    OBVIOUS
  <1>13. hits \in Seq(Facts) /\ IsInjective(hits)
    BY <1>11, <1>12, TrimLeavesOut
  <1>14. PICK next : next = [q EXCEPT !.at = "resolving", !.hits = hits]
    OBVIOUS
  <1>15. query' = next
    BY <1>1, <1>6, <1>10, <1>12, <1>14
  <1>16. next \in Queries /\ next.at = "resolving"
    BY <1>2, <1>13, <1>14 DEF Queries, Stages
  <1>17. Gathered(next)
    BY <1>2, <1>13, <1>14 DEF Gathered, Queries
  <1>18. Answered(next)
    BY <1>16 DEF Answered
  <1> QED
    BY <1>1, <1>2, <1>15, <1>16, <1>17, <1>18, QueryMoves DEF Rerank

LEMMA ReadScopeFits ==
    RetrievalFits /\ ReadScope => RetrievalFits'
  <1> SUFFICES ASSUME RetrievalFits, ReadScope
               PROVE  RetrievalFits'
    OBVIOUS
  <1>1. PICK q : q = query
    OBVIOUS
  <1>2. q \in Queries /\ q.at = "resolving" /\ Gathered(q)
    BY <1>1, QueryIsOne DEF RetrievalFits, GatheredFits, ReadScope
  <1>3. PICK near : near = MostSalient(active \intersect About, MaxItems)
    OBVIOUS
  <1>4. near \subseteq About \intersect live /\ live \subseteq Facts
    <2>1. near \subseteq active \intersect About
      BY <1>3, MostSalientAre
    <2>2. active \subseteq live /\ live \subseteq Facts
      BY <1>1, <1>2 DEF RetrievalFits, RetrievalTypes, HistoriesBracket
    <2> QED
      BY <2>1, <2>2
  <1>5. PICK next : next = [q EXCEPT !.at = "near", !.near = near]
    OBVIOUS
  <1>6. query' = next
    BY <1>1, <1>3, <1>5 DEF ReadScope
  <1>7. next \in Queries /\ next.at = "near"
    BY <1>2, <1>4, <1>5 DEF Queries, Stages
  <1>8. Gathered(next)
    BY <1>2, <1>4, <1>5 DEF Gathered, Queries
  <1>9. Answered(next)
    BY <1>7 DEF Answered
  <1> QED
    BY <1>1, <1>2, <1>6, <1>7, <1>8, <1>9, QueryMoves DEF ReadScope

LEMMA ReadLinksFits ==
    RetrievalFits /\ ReadLinks => RetrievalFits'
  <1> SUFFICES ASSUME RetrievalFits, ReadLinks
               PROVE  RetrievalFits'
    OBVIOUS
  <1>1. PICK q : q = query
    OBVIOUS
  <1>2. q \in Queries /\ q.at = "links" /\ Gathered(q) /\ Answered(q)
    BY <1>1, QueryIsOne DEF RetrievalFits, GatheredFits, AnswerFits, ReadLinks
  <1>3. PICK next : next = [q EXCEPT !.at = "done"]
    OBVIOUS
  <1>4. query' = next
    BY <1>1, <1>3 DEF ReadLinks
  <1>5. next \in Queries /\ next.at = "done" /\ next.facts = q.facts
    BY <1>2, <1>3 DEF Queries, Stages
  <1>6. Gathered(next)
    BY <1>2, <1>3 DEF Gathered, Queries
  <1>7. Answered(next)
    BY <1>2, <1>5 DEF Answered
  <1> QED
    BY <1>1, <1>2, <1>4, <1>5, <1>6, <1>7, QueryMoves DEF ReadLinks

LEMMA RaiseFits ==
    ASSUME NEW how \in {"raised", "refused"}
    PROVE  RetrievalFits /\ Raise(how) => RetrievalFits'
  <1> SUFFICES ASSUME RetrievalFits, Raise(how)
               PROVE  RetrievalFits'
    OBVIOUS
  <1>1. query.at # "none"
    BY DEF Raise
  <1>2. PICK empty : empty = Begun(FALSE, {})
    OBVIOUS
  <1>3. empty \in Queries /\ Gathered(empty) /\ empty.facts = <<>>
    BY <1>2, BeginningsFit
  <1>4. PICK next : next = [empty EXCEPT !.at = how]
    OBVIOUS
  <1>5. query' = next
    BY <1>2, <1>4 DEF Raise
  <1>6. next \in Queries /\ next.at = how /\ next.facts = <<>>
    BY <1>3, <1>4 DEF Queries, Stages
  <1>7. Gathered(next)
    BY <1>3, <1>4, <1>6 DEF Gathered, Queries
  <1>8. Answered(next)
    BY <1>6 DEF Answered
  <1> QED
    BY <1>1, <1>5, <1>6, <1>7, <1>8, QueryMoves DEF Raise

\* The read of the record: what was believed all along is among the
\* candidates, or too many more salient facts are, and the candidates are
\* trimmed to the budget.
LEMMA ReadActiveFits ==
    RetrievalFits /\ ReadActive => RetrievalFits'
  <1> SUFFICES ASSUME RetrievalFits, ReadActive
               PROVE  RetrievalFits'
    OBVIOUS
  <1>1. PICK q : q = query
    OBVIOUS
  <1>2. q.at # "none" /\ q \in Queries /\ Gathered(q)
    BY <1>1, QueryIsOne DEF RetrievalFits, GatheredFits, ReadActive
  <1>3. PICK salient : salient = MostSalient(active, ActiveLimit)
    OBVIOUS
  <1>4. PICK candidates : candidates = q.near \union salient
    OBVIOUS
  <1>5. PICK s \in Ordered(candidates) : query' =
            [query EXCEPT !.at = IF query.scoped THEN "links" ELSE "done",
                          !.hits = <<>>, !.near = {}, !.facts = Trim(s)]
    BY <1>1, <1>3, <1>4 DEF ReadActive
  <1>6. steady \subseteq active /\ active \subseteq live /\ live \subseteq Facts
    BY <1>1, <1>2 DEF RetrievalFits, RetrievalTypes, HistoriesBracket
  <1>7. salient \subseteq active /\ q.near \subseteq live
    BY <1>2, <1>3, MostSalientAre DEF Gathered
  <1>8. candidates \subseteq live /\ candidates \in SUBSET Facts
    BY <1>4, <1>6, <1>7
  <1>9. IsFiniteSet(candidates)
    BY <1>8, RetrievalAssumption, FS_Subset
  <1>10. s \in Seq(Facts) /\ IsInjective(s) /\ Range(s) = candidates
    <2>1. s \in [1..Cardinality(candidates) -> candidates] /\ IsInjective(s)
      BY DEF Ordered
    <2>2. s \in Seq(candidates) /\ Range(s) = candidates
      BY <1>9, <2>1, PermutationsCover
    <2> QED
      BY <1>8, <2>1, <2>2, SeqMonotonic
  <1>11. PICK facts : facts = Trim(s)
    OBVIOUS
  <1>12. PICK S : S = Range(facts)
    OBVIOUS
  <1>13. /\ facts \in Seq(Facts) /\ IsInjective(facts) /\ S \subseteq candidates
         /\ \/ candidates \subseteq S
            \/ Cardinality(S) = MaxItems
            \/ \E g \in candidates \ S : Size[g] + Chars(S) > MaxChars
    BY <1>10, <1>11, <1>12, TrimLeavesOut
  <1>14. PICK end \in {"links", "done"} : end = IF query.scoped THEN "links" ELSE "done"
    OBVIOUS
  <1>15. PICK next : next = [q EXCEPT !.at = end, !.hits = <<>>,
                                      !.near = {}, !.facts = facts]
    OBVIOUS
  <1>16. query' = next
    BY <1>1, <1>5, <1>11, <1>14, <1>15
  <1>17. <<>> \in Seq(Facts) /\ IsInjective(<<>>)
    BY EmptySeq DEF IsInjective
  <1>18. next \in Queries /\ next.at = end /\ next.facts = facts
    BY <1>2, <1>13, <1>14, <1>15, <1>17 DEF Queries, Stages
  <1>19. Gathered(next)
    <2>1. /\ next.hits = <<>> /\ next.near = {} /\ next.facts = facts
          /\ next.lost = q.lost /\ next.degraded = q.degraded
      BY <1>2, <1>15 DEF Queries
    <2>2. next.at \notin {"raised", "refused"}
      BY <1>14, <1>18
    <2> QED
      BY <1>2, <1>13, <1>17, <2>1, <2>2 DEF Gathered
  <1>20. ASSUME NEW f \in steady \ S
         PROVE  Crowded(f, S)
    <2>1. f \in active
      BY <1>6
    <2>2. CASE f \in salient
      <3>1. f \in candidates \ S
        BY <1>4, <2>2
      <3>2. \/ Cardinality(S) = MaxItems
            \/ \E g \in live \ S : Size[g] + Chars(S) > MaxChars
        BY <1>8, <1>13, <3>1
      <3> QED
        BY <3>2 DEF Crowded
    <2>3. CASE f \notin salient
      <3>1. PICK above : above = {g \in active : Salience[g] > Salience[f]}
        OBVIOUS
      <3>2. PICK ever : ever = {g \in live : Salience[g] > Salience[f]}
        OBVIOUS
      <3>3. ~(Cardinality(above) < ActiveLimit)
        BY <1>3, <2>1, <2>3, <3>1 DEF MostSalient
      <3>4. above \in SUBSET ever /\ ever \in SUBSET Facts
        BY <1>6, <3>1, <3>2
      <3>5. IsFiniteSet(ever) /\ IsFiniteSet(above)
        BY <3>4, RetrievalAssumption, FS_Subset
      <3>6. Cardinality(above) <= Cardinality(ever)
        BY <3>4, <3>5, FS_Subset
      <3>7. Cardinality(above) \in Nat /\ Cardinality(ever) \in Nat
              /\ ActiveLimit \in Nat
        BY <3>5, FS_CardinalityType, RetrievalAssumption
      <3>8. Cardinality(ever) >= ActiveLimit
        BY <3>3, <3>6, <3>7
      <3> QED
        BY <3>2, <3>8 DEF Crowded
    <2> QED
      BY <2>2, <2>3
  <1>21. Answered(next)
    BY <1>8, <1>12, <1>13, <1>18, <1>20 DEF Answered
  <1> QED
    BY <1>1, <1>2, <1>16, <1>18, <1>19, <1>21, QueryMoves DEF ReadActive

LEMMA RetrievalStepFits ==
    RetrievalFits /\ RetrievalStep => RetrievalFits'
  BY SearchFits, FuseFits, StopEarlyFits, TraverseFits, RerankFits, ReadScopeFits,
     ReadActiveFits, ReadLinksFits, RaiseFits DEF RetrievalStep

LEMMA RetrievalBegins ==
    RetrievalInit => RetrievalFits
  BY DEF RetrievalInit, RetrievalFits, RetrievalTypes, HistoriesBracket,
         GatheredFits, AnswerFits, NoQuery

LEMMA RetrievalIdles ==
    RetrievalFits /\ UNCHANGED retrievalVars => RetrievalFits'
  <1> SUFFICES ASSUME RetrievalFits, UNCHANGED retrievalVars
               PROVE  RetrievalFits'
    OBVIOUS
  <1>1. /\ active' = active /\ indexed' = indexed /\ query' = query
        /\ live' = live /\ steady' = steady
    BY DEF retrievalVars, storeVars, historyVars
  <1>2. RetrievalTypes' /\ HistoriesBracket'
    BY <1>1 DEF RetrievalFits, RetrievalTypes, HistoriesBracket
  <1>3. GatheredFits'
    BY <1>1 DEF RetrievalFits, GatheredFits, Gathered
  <1>4. AnswerFits'
    BY <1>1 DEF RetrievalFits, AnswerFits, Answered, Crowded
  <1> QED
    BY <1>2, <1>3, <1>4 DEF RetrievalFits

-----------------------------------------------------------------------------
\* The inductive invariant of the context

\* Numbers are at most as many as the messages, whatever the races; a message
\* that began when another was in has a higher one.
LogFits ==
    /\ DOMAIN seq \subseteq Messages /\ DOMAIN writing \subseteq Messages \ DOMAIN seq
    /\ \A m \in DOMAIN seq : seq[m] \in 1..Cardinality(DOMAIN seq)
    /\ \A m \in DOMAIN writing : writing[m] \in 1..Cardinality(DOMAIN seq) + 1
    /\ later \subseteq Messages \X Messages
    /\ \A m, n \in Messages : <<m, n>> \in later =>
          /\ m \in DOMAIN seq
          /\ n \in DOMAIN seq => seq[m] < seq[n]
          /\ n \in DOMAIN writing => seq[m] < writing[n]

Contexts ==
    [at : Nodes \ {"none"}, asked : Messages, history : Seq(Messages),
     shown : [Sections -> SUBSET Facts], excerpts : SUBSET Facts,
     notices : SUBSET Notices]

ContextTypes ==
    /\ context \in Contexts \union {NoContext}
    /\ context.at # "none" => context.asked \in DOMAIN seq

\* The graph of nodes runs the retrieval in its own node only, and its last
\* node leaves what it assembled from the answer.
NodesFit ==
    /\ context.at \in {"none", "classify", "load_history"} => query = NoQuery
    /\ context.at \in {"assemble", "ready"} => query.at \in {"done", "raised"}
    /\ context.at = "ready" =>
          /\ Shown = Range(query.facts) /\ context.excerpts \subseteq Shown
          /\ context.notices = Disclosed

ReplyFits == RetrievalFits /\ LogFits /\ ContextTypes /\ NodesFit /\ HistoryInOrder

LEMMA ContextIsOne ==
    ASSUME ContextTypes, context.at # "none"
    PROVE  context \in Contexts /\ context.asked \in DOMAIN seq
  BY DEF ContextTypes, NoContext

\* The log is finite, and so are the numbers.
LEMMA LogIsFinite ==
    ASSUME LogFits
    PROVE  /\ IsFiniteSet(DOMAIN seq) /\ Cardinality(DOMAIN seq) \in Nat
           /\ Cardinality(Messages) \in Nat
           /\ Cardinality(DOMAIN seq) <= Cardinality(Messages)
  <1>1. DOMAIN seq \in SUBSET Messages
    BY DEF LogFits
  <1> QED
    BY <1>1, ContextAssumption, FS_Subset, FS_CardinalityType

LEMMA HighestIs ==
    ASSUME LogFits
    PROVE  /\ Highest \in 0..Cardinality(DOMAIN seq)
           /\ \A m \in DOMAIN seq : seq[m] <= Highest
  <1>1. PICK n \in Nat : n = Cardinality(DOMAIN seq)
    BY LogIsFinite
  <1>2. PICK S : S = {seq[m] : m \in DOMAIN seq} \union {0}
    OBVIOUS
  <1>3. \A m \in DOMAIN seq : seq[m] \in 1..n
    BY <1>1 DEF LogFits
  <1>4. S \in SUBSET Nat /\ 0 \in S /\ \A x \in S : x <= n
    BY <1>2, <1>3
  <1>5. Max(S) \in S /\ \A x \in S : x <= Max(S)
    BY <1>4, MaxIsGreatest
  <1>6. Highest = Max(S)
    BY <1>2 DEF Highest
  <1>7. Max(S) \in 0..n
    <2>1. PICK top : top = Max(S)
      OBVIOUS
    <2>2. top \in Nat /\ top <= n
      BY <1>4, <1>5, <2>1
    <2> QED
      BY <2>1, <2>2
  <1>8. \A m \in DOMAIN seq : seq[m] <= Max(S)
    BY <1>2, <1>5
  <1> QED
    BY <1>1, <1>6, <1>7, <1>8

LEMMA LogIdles ==
    LogFits /\ UNCHANGED logVars => LogFits'
  BY DEF LogFits, logVars

-----------------------------------------------------------------------------
\* The log of messages

\* A message that joins the log while it is open.
LEMMA LogGrows ==
    ASSUME ReplyFits, LogOpen, UNCHANGED <<context, retrievalVars>>,
           LogFits', DOMAIN seq \subseteq DOMAIN seq'
    PROVE  ReplyFits'
  <1>1. RetrievalFits'
    BY RetrievalIdles DEF ReplyFits
  <1>2. ContextTypes'
    BY DEF ReplyFits, ContextTypes
  <1>3. query' = query /\ context.at \in {"none", "classify", "load_history"}
    BY DEF retrievalVars, LogOpen
  <1>4. NodesFit'
    BY <1>3 DEF ReplyFits, NodesFit
  <1>5. HistoryInOrder'
    BY <1>3 DEF HistoryInOrder
  <1> QED
    BY <1>1, <1>2, <1>4, <1>5 DEF ReplyFits

LEMMA BeginAppendFits ==
    ASSUME NEW m \in Messages
    PROVE  ReplyFits /\ BeginAppend(m) => ReplyFits'
  <1> SUFFICES ASSUME ReplyFits, BeginAppend(m)
               PROVE  ReplyFits'
    OBVIOUS
  <1>1. LogFits
    BY DEF ReplyFits
  <1>2. PICK n \in Nat : n = Cardinality(DOMAIN seq)
    BY <1>1, LogIsFinite
  <1>3. PICK top \in 0..n : top = Highest
    BY <1>1, <1>2, HighestIs
  <1>4. \A l \in DOMAIN seq : seq[l] \in 1..n /\ seq[l] <= top
    BY <1>1, <1>2, <1>3, HighestIs DEF LogFits
  <1>5. /\ seq' = seq /\ m \notin DOMAIN seq /\ m \notin DOMAIN writing
        /\ writing' = [l \in DOMAIN writing \union {m} |->
                          IF l = m THEN top + 1 ELSE writing[l]]
        /\ later' = later \union {<<l, m>> : l \in DOMAIN seq}
    BY <1>3 DEF BeginAppend
  <1>6. DOMAIN seq' \subseteq Messages /\ DOMAIN writing' \subseteq Messages \ DOMAIN seq'
          /\ later' \subseteq Messages \X Messages
    BY <1>1, <1>5 DEF LogFits
  <1>7. top + 1 \in 1..n + 1 /\ \A l \in DOMAIN seq : seq[l] < top + 1
    BY <1>3, <1>4
  <1>8. \A l \in DOMAIN writing' : writing'[l] \in 1..n + 1
    BY <1>1, <1>2, <1>5, <1>7 DEF LogFits
  <1>9. ASSUME NEW k \in Messages, NEW l \in Messages, <<k, l>> \in later'
        PROVE  /\ k \in DOMAIN seq
               /\ l \in DOMAIN seq => seq[k] < seq[l]
               /\ l \in DOMAIN writing' => seq[k] < writing'[l]
    <2>1. CASE <<k, l>> \in later
      <3>1. /\ k \in DOMAIN seq
            /\ l \in DOMAIN seq => seq[k] < seq[l]
            /\ l \in DOMAIN writing => seq[k] < writing[l]
        BY <1>1, <2>1 DEF LogFits
      <3> QED
        BY <1>5, <1>7, <3>1
    <2>2. CASE <<k, l>> \notin later
      <3>1. k \in DOMAIN seq /\ l = m
        BY <1>5, <1>9, <2>2
      <3> QED
        BY <1>5, <1>7, <3>1
    <2> QED
      BY <2>1, <2>2
  <1>10. LogFits'
    BY <1>1, <1>2, <1>5, <1>6, <1>8, <1>9 DEF LogFits
  <1> QED
    BY <1>5, <1>10, LogGrows DEF BeginAppend

LEMMA EndAppendFits ==
    ASSUME NEW m \in Messages
    PROVE  ReplyFits /\ EndAppend(m) => ReplyFits'
  <1> SUFFICES ASSUME ReplyFits, EndAppend(m)
               PROVE  ReplyFits'
    OBVIOUS
  <1>1. LogFits
    BY DEF ReplyFits
  <1>2. PICK n \in Nat : n = Cardinality(DOMAIN seq)
    BY <1>1, LogIsFinite
  <1>3. /\ m \in DOMAIN writing /\ m \notin DOMAIN seq /\ later' = later
        /\ writing' = [l \in DOMAIN writing \ {m} |-> writing[l]]
    BY <1>1 DEF EndAppend, LogFits
  <1>4. writing[m] \in 1..n + 1
    BY <1>1, <1>2, <1>3 DEF LogFits
  <1>5. CASE UNCHANGED seq
    <2>1. LogFits'
      BY <1>1, <1>3, <1>5 DEF LogFits
    <2> QED
      BY <1>5, <2>1, LogGrows DEF EndAppend
  <1>6. CASE seq' = [l \in DOMAIN seq \union {m} |->
                        IF l = m THEN writing[m] ELSE seq[l]]
    <2>1. DOMAIN seq' = DOMAIN seq \union {m}
      BY <1>6
    <2>2. Cardinality(DOMAIN seq') = n + 1
      BY <1>1, <1>2, <1>3, <2>1, LogIsFinite, FS_AddElement
    <2>3. DOMAIN seq' \subseteq Messages /\ DOMAIN writing' \subseteq Messages \ DOMAIN seq'
            /\ later' \subseteq Messages \X Messages
      BY <1>1, <1>3, <2>1 DEF LogFits
    <2>4. ASSUME NEW l \in DOMAIN seq'
          PROVE  seq'[l] \in 1..(n + 1)
      <3>1. CASE l = m
        BY <1>4, <1>6, <3>1
      <3>2. CASE l # m
        <4>1. l \in DOMAIN seq /\ seq'[l] = seq[l]
          BY <1>6, <2>1, <3>2
        <4>2. seq[l] \in 1..n
          BY <1>1, <1>2, <4>1 DEF LogFits
        <4> QED
          BY <4>1, <4>2
      <3> QED
        BY <3>1, <3>2
    <2>5. ASSUME NEW l \in DOMAIN writing'
          PROVE  writing'[l] \in 1..(n + 1) + 1
      <3>1. l \in DOMAIN writing /\ writing'[l] = writing[l]
        BY <1>3
      <3>2. writing[l] \in 1..n + 1
        BY <1>1, <1>2, <3>1 DEF LogFits
      <3> QED
        BY <3>1, <3>2
    <2>6. ASSUME NEW k \in Messages, NEW l \in Messages, <<k, l>> \in later'
          PROVE  /\ k \in DOMAIN seq'
                 /\ l \in DOMAIN seq' => seq'[k] < seq'[l]
                 /\ l \in DOMAIN writing' => seq'[k] < writing'[l]
      <3>1. /\ k \in DOMAIN seq
            /\ l \in DOMAIN seq => seq[k] < seq[l]
            /\ l \in DOMAIN writing => seq[k] < writing[l]
        BY <1>1, <1>3, <2>6 DEF LogFits
      <3>2. k \in DOMAIN seq' /\ seq'[k] = seq[k]
        BY <1>3, <1>6, <3>1
      <3>3. l \in DOMAIN seq' => seq[k] < seq'[l]
        BY <1>3, <1>6, <3>1
      <3>4. l \in DOMAIN writing' => seq[k] < writing'[l]
        BY <1>3, <3>1
      <3> QED
        BY <3>2, <3>3, <3>4
    <2>7. LogFits'
      BY <2>2, <2>3, <2>4, <2>5, <2>6 DEF LogFits
    <2> QED
      BY <2>1, <2>7, LogGrows DEF EndAppend
  <1> QED
    BY <1>5, <1>6 DEF EndAppend

-----------------------------------------------------------------------------
\* The graph of nodes

\* A step that moves the context alone.
LEMMA ContextMoves ==
    ASSUME ReplyFits, UNCHANGED <<logVars, retrievalVars>>,
           ContextTypes', NodesFit', HistoryInOrder'
    PROVE  ReplyFits'
  BY RetrievalIdles, LogIdles DEF ReplyFits

LEMMA AskFits ==
    ASSUME NEW m \in Messages
    PROVE  ReplyFits /\ Ask(m) => ReplyFits'
  <1> SUFFICES ASSUME ReplyFits, Ask(m)
               PROVE  ReplyFits'
    OBVIOUS
  <1>1. PICK next : next = [at |-> "classify", asked |-> m, history |-> <<>>,
                            shown |-> [b \in Sections |-> {}], excerpts |-> {},
                            notices |-> {}]
    OBVIOUS
  <1>2. context' = next /\ m \in DOMAIN seq /\ query = NoQuery
          /\ query' = query /\ seq' = seq
    BY <1>1 DEF Ask, ReplyFits, NodesFit, logVars, retrievalVars
  <1>3. <<>> \in Seq(Messages)
    BY EmptySeq
  <1>4. next \in Contexts /\ next.at = "classify" /\ next.asked = m
    BY <1>1, <1>3 DEF Contexts, Nodes
  <1>5. ContextTypes'
    BY <1>2, <1>4 DEF ContextTypes
  <1>6. NodesFit'
    BY <1>2, <1>4 DEF NodesFit
  <1>7. HistoryInOrder'
    BY <1>2, <1>4 DEF HistoryInOrder
  <1> QED
    BY <1>5, <1>6, <1>7, ContextMoves DEF Ask

LEMMA ClassifyFits ==
    ReplyFits /\ Classify => ReplyFits'
  <1> SUFFICES ASSUME ReplyFits, Classify
               PROVE  ReplyFits'
    OBVIOUS
  <1>1. PICK c : c = context
    OBVIOUS
  <1>2. c \in Contexts /\ c.asked \in DOMAIN seq /\ query = NoQuery
    BY <1>1, ContextIsOne DEF ReplyFits, NodesFit, Classify
  <1>3. PICK next : next = [c EXCEPT !.at = "load_history"]
    OBVIOUS
  <1>4. context' = next /\ query' = query /\ seq' = seq
    BY <1>1, <1>3 DEF Classify, logVars, retrievalVars
  <1>5. next \in Contexts /\ next.at = "load_history" /\ next.asked = c.asked
    BY <1>2, <1>3 DEF Contexts, Nodes
  <1>6. ContextTypes'
    BY <1>2, <1>4, <1>5 DEF ContextTypes
  <1>7. NodesFit'
    BY <1>2, <1>4, <1>5 DEF NodesFit
  <1>8. HistoryInOrder'
    BY <1>4, <1>5 DEF HistoryInOrder
  <1> QED
    BY <1>6, <1>7, <1>8, ContextMoves DEF Classify

\* A history is the end of the log in an order of its numbers.
LEMMA HistoriesAre ==
    ASSUME LogFits, NEW history \in Histories
    PROVE  \E s \in Seq(DOMAIN seq) : \E skip \in 0..Len(s) :
              /\ Range(s) = DOMAIN seq /\ InSeq(s)
              /\ history \in Seq(Messages) /\ Len(history) = Len(s) - skip
              /\ \A i \in 1..Len(history) : history[i] = s[skip + i]
              /\ skip = 0 \/ Len(history) = HistoryLimit
  <1>1. PICK s \in AllInSeq(DOMAIN seq) : history = LastOf(s)
    BY DEF Histories
  <1>2. /\ s \in [1..Cardinality(DOMAIN seq) -> DOMAIN seq]
        /\ IsInjective(s) /\ InSeq(s)
    BY <1>1 DEF AllInSeq
  <1>3. s \in Seq(DOMAIN seq) /\ Range(s) = DOMAIN seq
    BY <1>2, LogIsFinite, PermutationsCover
  <1>4. s \in Seq(Messages)
    BY <1>3, SeqMonotonic DEF LogFits
  <1>5. PICK n \in Nat : n = Len(s)
    BY <1>3, LenProperties
  <1>6. PICK limit \in Nat : limit = HistoryLimit
    BY ContextAssumption
  <1>7. limit # 0
    BY <1>6, ContextAssumption
  <1>8. CASE n <= limit
    <2>1. history = s
      BY <1>1, <1>5, <1>6, <1>8 DEF LastOf
    <2>2. 0 \in 0..n /\ n = n - 0 /\ \A i \in 1..n : 0 + i = i
      OBVIOUS
    <2> QED
      BY <1>2, <1>3, <1>4, <1>5, <2>1, <2>2
  <1>9. CASE ~(n <= limit)
    <2>1. PICK skip \in 0..n : skip = n - limit
      BY <1>9
    <2>2. n - limit + 1 = skip + 1 /\ skip + 1 <= n /\ n - (skip + 1) + 1 = limit
            /\ n - skip = limit
      BY <1>7, <1>9, <2>1
    <2>3. history = SubSeq(s, skip + 1, n)
      BY <1>1, <1>5, <1>6, <1>9, <2>2 DEF LastOf
    <2>4. \A i \in skip + 1..n : s[i] \in Messages
      BY <1>4, <1>5, <2>1, ElementOfSeq
    <2>5. /\ history \in Seq(Messages)
          /\ Len(history) = IF skip + 1 <= n THEN n - (skip + 1) + 1 ELSE 0
          /\ \A i \in 1..n - (skip + 1) + 1 : history[i] = s[skip + 1 + i - 1]
      BY <2>1, <2>3, <2>4, SubSeqProperties
    <2>6. Len(history) = limit /\ \A i \in 1..limit : history[i] = s[skip + 1 + i - 1]
      BY <2>2, <2>5
    <2>7. \A i \in 1..limit : skip + 1 + i - 1 = skip + i
      BY <2>1
    <2>8. \A i \in 1..Len(history) : history[i] = s[skip + i]
      BY <2>6, <2>7
    <2> QED
      BY <1>2, <1>3, <1>5, <1>6, <2>1, <2>2, <2>5, <2>6, <2>8
  <1> QED
    BY <1>8, <1>9

\* Such a history is in order, whoever raced for a number, and misses the
\* message to be answered only for others that did not come before it.
LEMMA HistoriesInOrder ==
    ASSUME LogFits, NEW history \in Histories, NEW asked \in DOMAIN seq
    PROVE  /\ history \in Seq(Messages)
           /\ \A i, j \in DOMAIN history : <<history[i], history[j]>> \in later => i < j
           /\ \/ asked \in Range(history)
              \/ /\ Len(history) = HistoryLimit
                 /\ \A m \in Range(history) : <<m, asked>> \notin later
  <1>1. PICK s \in Seq(DOMAIN seq) : \E skip \in 0..Len(s) :
              /\ Range(s) = DOMAIN seq /\ InSeq(s)
              /\ history \in Seq(Messages) /\ Len(history) = Len(s) - skip
              /\ \A i \in 1..Len(history) : history[i] = s[skip + i]
              /\ skip = 0 \/ Len(history) = HistoryLimit
    BY HistoriesAre
  <1>2. PICK n \in Nat : n = Len(s)
    BY LenProperties
  <1>3. PICK skip \in 0..n :
              /\ Range(s) = DOMAIN seq /\ InSeq(s)
              /\ history \in Seq(Messages) /\ Len(history) = n - skip
              /\ \A i \in 1..Len(history) : history[i] = s[skip + i]
              /\ skip = 0 \/ Len(history) = HistoryLimit
    BY <1>1, <1>2
  <1>4. skip \in Nat /\ skip <= n
    BY <1>3
  <1>5. DOMAIN s = 1..n /\ DOMAIN history = 1..n - skip
    BY <1>2, <1>3, LenProperties
  <1>6. \A i \in 1..n - skip : skip + i \in 1..n /\ history[i] = s[skip + i]
    BY <1>3, <1>4
  <1>7. \A i \in 1..n : s[i] \in DOMAIN seq /\ s[i] \in Messages /\ seq[s[i]] \in Nat
    <2>1. \A i \in 1..n : s[i] \in DOMAIN seq
      BY <1>2, ElementOfSeq
    <2>2. \A m \in DOMAIN seq : m \in Messages /\ seq[m] \in Nat
      BY LogIsFinite DEF LogFits
    <2> QED
      BY <2>1, <2>2
  <1>8. \A i, j \in 1..n : <<s[i], s[j]>> \in later => seq[s[i]] < seq[s[j]]
    BY <1>7 DEF LogFits
  <1>9. \A i, j \in 1..n : i < j => seq[s[i]] <= seq[s[j]]
    BY <1>3, <1>5 DEF InSeq
  <1>10. \A i, j \in 1..n : <<s[i], s[j]>> \in later => i < j
    <2> SUFFICES ASSUME NEW i \in 1..n, NEW j \in 1..n, <<s[i], s[j]>> \in later
                 PROVE  i < j
      OBVIOUS
    <2>1. seq[s[i]] < seq[s[j]] /\ seq[s[i]] \in Nat /\ seq[s[j]] \in Nat
      BY <1>7, <1>8
    <2>2. ~(j < i)
      BY <1>9, <2>1
    <2>3. i # j
      BY <2>1
    <2> QED
      BY <2>2, <2>3
  <1>11. ASSUME NEW i \in DOMAIN history, NEW j \in DOMAIN history,
                <<history[i], history[j]>> \in later
         PROVE  i < j
    <2>1. i \in 1..n - skip /\ j \in 1..n - skip
      BY <1>5
    <2>2. /\ skip + i \in 1..n /\ history[i] = s[skip + i]
          /\ skip + j \in 1..n /\ history[j] = s[skip + j]
      BY <1>6, <2>1
    <2>3. <<s[skip + i], s[skip + j]>> \in later
      BY <1>11, <2>2
    <2>4. skip + i < skip + j
      BY <1>10, <2>2, <2>3
    <2> QED
      BY <1>4, <2>1, <2>4
  <1>12. ASSUME asked \notin Range(history)
         PROVE  /\ Len(history) = HistoryLimit
                /\ \A m \in Range(history) : <<m, asked>> \notin later
    <2>1. PICK k \in 1..n : asked = s[k]
      BY <1>3, <1>5 DEF Range
    <2>2. k <= skip
      <3> SUFFICES ASSUME ~(k <= skip)
                   PROVE  FALSE
        OBVIOUS
      <3>1. k - skip \in 1..n - skip /\ skip + (k - skip) = k
        BY <1>4
      <3>2. history[k - skip] = asked
        BY <1>6, <2>1, <3>1
      <3> QED
        BY <1>5, <1>12, <3>1, <3>2 DEF Range
    <2>3. skip # 0
      BY <2>2
    <2>4. ASSUME NEW m \in Range(history), <<m, asked>> \in later
          PROVE  FALSE
      <3>1. PICK i \in 1..n - skip : m = history[i]
        BY <1>5 DEF Range
      <3>2. skip + i \in 1..n /\ <<s[skip + i], s[k]>> \in later
        BY <1>6, <2>1, <2>4, <3>1
      <3>3. skip + i < k
        BY <1>10, <3>2
      <3> QED
        BY <1>4, <2>2, <3>3
    <2> QED
      BY <1>3, <2>3, <2>4
  <1> QED
    BY <1>3, <1>11, <1>12

LEMMA LoadHistoryFits ==
    ReplyFits /\ LoadHistory => ReplyFits'
  <1> SUFFICES ASSUME ReplyFits, LoadHistory
               PROVE  ReplyFits'
    OBVIOUS
  <1>1. PICK c : c = context
    OBVIOUS
  <1>2. c \in Contexts /\ c.asked \in DOMAIN seq /\ LogFits
    BY <1>1, ContextIsOne DEF ReplyFits, LoadHistory
  <1>3. PICK history \in Histories :
            context' = [context EXCEPT !.at = "retrieve", !.history = history]
    BY DEF LoadHistory
  <1>4. PICK asked \in DOMAIN seq : asked = c.asked
    BY <1>2
  <1>5. /\ history \in Seq(Messages)
        /\ \A i, j \in DOMAIN history : <<history[i], history[j]>> \in later => i < j
        /\ \/ asked \in Range(history)
           \/ /\ Len(history) = HistoryLimit
              /\ \A m \in Range(history) : <<m, asked>> \notin later
    BY <1>2, HistoriesInOrder
  <1>6. PICK next : next = [c EXCEPT !.at = "retrieve", !.history = history]
    OBVIOUS
  <1>7. context' = next /\ query' = query /\ seq' = seq /\ later' = later
    BY <1>1, <1>3, <1>6 DEF LoadHistory, logVars, retrievalVars
  <1>8. next \in Contexts /\ next.at = "retrieve" /\ next.asked = asked
          /\ next.history = history
    BY <1>2, <1>4, <1>5, <1>6 DEF Contexts, Nodes
  <1>9. ContextTypes'
    BY <1>4, <1>7, <1>8 DEF ContextTypes
  <1>10. NodesFit'
    BY <1>7, <1>8 DEF NodesFit
  <1>11. HistoryInOrder'
    BY <1>5, <1>7, <1>8 DEF HistoryInOrder
  <1> QED
    BY <1>9, <1>10, <1>11, ContextMoves DEF LoadHistory

LEMMA RetrieveFits ==
    ReplyFits /\ Retrieve => ReplyFits'
  <1> SUFFICES ASSUME ReplyFits, Retrieve
               PROVE  ReplyFits'
    OBVIOUS
  <1>1. RetrievalFits'
    BY BeginRetrievalFits, RetrievalStepFits DEF ReplyFits, Retrieve
  <1>2. LogFits' /\ seq' = seq /\ later' = later
    BY LogIdles DEF ReplyFits, Retrieve, logVars
  <1>3. PICK c : c = context
    OBVIOUS
  <1>4. c \in Contexts /\ c.at = "retrieve" /\ c.asked \in DOMAIN seq
    BY <1>3, ContextIsOne DEF ReplyFits, Retrieve
  <1>5. PICK to \in {"assemble", "failed", "retrieve"} :
            /\ context' = [context EXCEPT !.at = to]
            /\ to = "assemble" => query'.at \in {"done", "raised"}
    BY DEF Retrieve
  <1>6. PICK next : next = [c EXCEPT !.at = to]
    OBVIOUS
  <1>7. context' = next
    BY <1>3, <1>5, <1>6
  <1>8. /\ next \in Contexts /\ next.at = to /\ next.asked = c.asked
        /\ next.history = c.history
    BY <1>4, <1>5, <1>6 DEF Contexts, Nodes
  <1>9. ContextTypes'
    BY <1>2, <1>4, <1>7, <1>8 DEF ContextTypes
  <1>10. NodesFit'
    BY <1>5, <1>7, <1>8 DEF NodesFit
  <1>11. HistoryInOrder'
    BY <1>2, <1>3, <1>4, <1>7, <1>8 DEF ReplyFits, HistoryInOrder
  <1> QED
    BY <1>1, <1>2, <1>9, <1>10, <1>11 DEF ReplyFits

LEMMA AssembleFits ==
    ReplyFits /\ Assemble => ReplyFits'
  <1> SUFFICES ASSUME ReplyFits, Assemble
               PROVE  ReplyFits'
    OBVIOUS
  <1>1. PICK c : c = context
    OBVIOUS
  <1>2. c \in Contexts /\ c.at = "assemble" /\ c.asked \in DOMAIN seq
          /\ query.at \in {"done", "raised"}
    BY <1>1, ContextIsOne DEF ReplyFits, NodesFit, Assemble
  <1>3. PICK S : S = Range(query.facts)
    OBVIOUS
  <1>4. PICK shown : shown = [b \in Sections |-> {f \in S : SectionOf(f) = b}]
    OBVIOUS
  <1>5. PICK notices : notices = Disclosed
    OBVIOUS
  <1>6. PICK excerpts \in SUBSET S :
            context' = [context EXCEPT !.at = "ready", !.shown = shown,
                          !.excerpts = excerpts, !.notices = notices]
    BY <1>3, <1>4, <1>5, MostSalientAre DEF Assemble
  <1>7. S \subseteq Facts
    <2>1. query.facts \in Seq(Facts)
      BY <1>2, QueryIsOne DEF ReplyFits, RetrievalFits, Queries
    <2> QED
      BY <1>3, <2>1, RangeOfSeq
  <1>8. shown \in [Sections -> SUBSET Facts]
    BY <1>4, <1>7
  <1>9. notices \subseteq Notices
    BY <1>5 DEF Disclosed, Notices
  <1>10. PICK next : next = [c EXCEPT !.at = "ready", !.shown = shown,
                               !.excerpts = excerpts, !.notices = notices]
    OBVIOUS
  <1>11. context' = next /\ query' = query /\ seq' = seq /\ later' = later
    BY <1>1, <1>6, <1>10 DEF Assemble, logVars, retrievalVars
  <1>12. /\ next \in Contexts /\ next.at = "ready" /\ next.asked = c.asked
         /\ next.history = c.history /\ next.shown = shown
         /\ next.excerpts = excerpts /\ next.notices = notices
    BY <1>2, <1>6, <1>7, <1>8, <1>9, <1>10 DEF Contexts, Nodes
  <1>13. UNION {shown[b] : b \in Sections} = S
    <2>1. \A f \in S : SectionOf(f) \in Sections
      BY DEF SectionOf, Sections
    <2> QED
      BY <1>4, <2>1
  <1>14. ContextTypes'
    BY <1>2, <1>11, <1>12 DEF ContextTypes
  <1>15. Shown' = S
    BY <1>11, <1>12, <1>13 DEF Shown
  <1>16. Disclosed' = notices
    BY <1>5, <1>11 DEF Disclosed
  <1>17. NodesFit'
    BY <1>2, <1>3, <1>6, <1>11, <1>12, <1>15, <1>16 DEF NodesFit
  <1>18. HistoryInOrder'
    BY <1>1, <1>2, <1>11, <1>12 DEF ReplyFits, HistoryInOrder
  <1> QED
    BY <1>14, <1>17, <1>18, ContextMoves DEF Assemble

LEMMA AbandonFits ==
    ReplyFits /\ Abandon => ReplyFits'
  <1> SUFFICES ASSUME ReplyFits, Abandon
               PROVE  ReplyFits'
    OBVIOUS
  <1>1. PICK c : c = context
    OBVIOUS
  <1>2. c \in Contexts /\ c.asked \in DOMAIN seq
    BY <1>1, ContextIsOne DEF ReplyFits, Abandon
  <1>3. PICK next : next = [c EXCEPT !.at = "failed"]
    OBVIOUS
  <1>4. context' = next /\ seq' = seq
    BY <1>1, <1>3 DEF Abandon, logVars
  <1>5. next \in Contexts /\ next.at = "failed" /\ next.asked = c.asked
    BY <1>2, <1>3 DEF Contexts, Nodes
  <1>6. ContextTypes'
    BY <1>2, <1>4, <1>5 DEF ContextTypes
  <1>7. NodesFit' /\ HistoryInOrder'
    BY <1>4, <1>5 DEF NodesFit, HistoryInOrder
  <1> QED
    BY <1>6, <1>7, ContextMoves DEF Abandon

LEMMA MeanwhileFits ==
    ReplyFits /\ Meanwhile => ReplyFits'
  <1> SUFFICES ASSUME ReplyFits, Meanwhile
               PROVE  ReplyFits'
    OBVIOUS
  <1>1. RetrievalFits'
    BY ChangeFits DEF ReplyFits, Meanwhile
  <1>2. LogFits' /\ seq' = seq /\ later' = later
    BY LogIdles DEF ReplyFits, Meanwhile, logVars
  <1>3. context' = context /\ context.at = "retrieve"
    BY DEF Meanwhile
  <1>4. ContextTypes' /\ NodesFit'
    BY <1>2, <1>3 DEF ReplyFits, ContextTypes, NodesFit
  <1>5. HistoryInOrder'
    BY <1>2, <1>3 DEF ReplyFits, HistoryInOrder
  <1> QED
    BY <1>1, <1>2, <1>4, <1>5 DEF ReplyFits

LEMMA ContextIdles ==
    ReplyFits /\ UNCHANGED contextVars => ReplyFits'
  <1> SUFFICES ASSUME ReplyFits, UNCHANGED contextVars
               PROVE  ReplyFits'
    OBVIOUS
  <1>1. UNCHANGED <<logVars, retrievalVars>> /\ context' = context
    BY DEF contextVars
  <1>2. query' = query /\ seq' = seq /\ later' = later
    BY <1>1 DEF logVars, retrievalVars
  <1>3. ContextTypes'
    BY <1>1, <1>2 DEF ReplyFits, ContextTypes
  <1>4. NodesFit'
    BY <1>1, <1>2 DEF ReplyFits, NodesFit, Shown, Disclosed
  <1>5. HistoryInOrder'
    BY <1>1, <1>2 DEF ReplyFits, HistoryInOrder
  <1> QED
    BY <1>1, <1>3, <1>4, <1>5, ContextMoves

-----------------------------------------------------------------------------
\* The theorems

\* The log, the retrieval and the context fit together: the inductive
\* invariant of the turn that builds a reply's context.
THEOREM InvariantOfReplies ==
    ContextSpec => []ReplyFits
  <1>1. ContextInit => ReplyFits
    <2> SUFFICES ASSUME ContextInit
                 PROVE  ReplyFits
      OBVIOUS
    <2>1. RetrievalFits /\ query = NoQuery
      BY RetrievalBegins DEF ContextInit, RetrievalInit
    <2>2. DOMAIN seq = {} /\ DOMAIN writing = {} /\ later = {}
      BY DEF ContextInit
    <2>3. LogFits
      BY <2>2 DEF LogFits
    <2>4. context = NoContext
      BY DEF ContextInit
    <2>5. ContextTypes /\ NodesFit /\ HistoryInOrder
      BY <2>1, <2>4 DEF ContextTypes, NodesFit, HistoryInOrder, NoContext
    <2> QED
      BY <2>1, <2>3, <2>5 DEF ReplyFits
  <1>2. ReplyFits /\ [ContextNext]_contextVars => ReplyFits'
    BY BeginAppendFits, EndAppendFits, AskFits, ClassifyFits, LoadHistoryFits,
       RetrieveFits, AssembleFits, AbandonFits, MeanwhileFits, ContextIdles
    DEF ContextNext
  <1> QED
    BY <1>1, <1>2, PTL DEF ContextSpec

\* The history of every reply is in the order of the log, and everything has
\* its type, whoever races for a number of the log.
THEOREM HistoriesKeepOrder ==
    ContextSpec => []ContextInvariant
  <1>1. ReplyFits => ContextInvariant
    <2> SUFFICES ASSUME ReplyFits
                 PROVE  ContextInvariant
      OBVIOUS
    <2>1. RetrievalTypeOK
      <3>1. active \subseteq Facts /\ indexed \subseteq Facts
              /\ live \subseteq Facts /\ steady \subseteq live
        BY DEF ReplyFits, RetrievalFits, RetrievalTypes
      <3>2. query.at \in Stages
        BY DEF ReplyFits, RetrievalFits, RetrievalTypes, Queries, NoQuery, Stages
      <3>3. ASSUME query.at # "none"
            PROVE  /\ \A s \in DOMAIN query.found :
                         query.found[s] = Lost
                           \/ query.found[s] \in Hits(Facts, MaxHits)
                   /\ query.hits \in Seq(Facts) /\ IsInjective(query.hits)
                   /\ query.near \subseteq About
        <4>1. query \in Queries /\ Gathered(query)
          BY <3>3, QueryIsOne DEF ReplyFits, RetrievalFits, GatheredFits
        <4>2. query.found \in Returned
          BY <4>1 DEF Queries
        <4>3. \A s \in DOMAIN query.found : query.found[s] \in Results
          BY <4>2 DEF Returned
        <4> QED
          BY <4>1, <4>3 DEF Results, Queries, Gathered
      <3> QED
        BY <3>1, <3>2, <3>3 DEF RetrievalTypeOK
    <2>2. LogFits /\ HistoryInOrder /\ ContextTypes
      BY DEF ReplyFits
    <2>3. \A m \in DOMAIN seq : seq[m] \in 1..Cardinality(Messages)
      <3>1. PICK n \in Nat : n = Cardinality(DOMAIN seq)
        BY <2>2, LogIsFinite
      <3>2. PICK all \in Nat : all = Cardinality(Messages)
        BY <2>2, LogIsFinite
      <3>3. n <= all
        BY <2>2, <3>1, <3>2, LogIsFinite
      <3>4. \A m \in DOMAIN seq : seq[m] \in 1..n
        BY <2>2, <3>1 DEF LogFits
      <3> QED
        BY <3>2, <3>3, <3>4
    <2>4. context.at \in Nodes
      BY <2>2 DEF ContextTypes, Contexts, NoContext, Nodes
    <2>5. context.at # "none" =>
              context.asked \in DOMAIN seq /\ context.notices \subseteq Notices
      BY <2>2, ContextIsOne DEF Contexts
    <2> QED
      BY <2>1, <2>2, <2>3, <2>4, <2>5 DEF ContextInvariant, ContextTypeOK, LogFits
  <1> QED
    BY <1>1, InvariantOfReplies, PTL

\* A reply carries a notice exactly when its memory could not be searched.
THEOREM LossesAreDisclosed ==
    ContextSpec => []LossIsDisclosed
  <1>1. ReplyFits => LossIsDisclosed
    <2> SUFFICES ASSUME ReplyFits, context.at = "ready"
                 PROVE  (query.lost \/ query.early \/ query.at = "raised")
                            <=> context.notices # {}
      BY DEF LossIsDisclosed
    <2>1. context.notices = Disclosed /\ query.at # "none"
      BY DEF ReplyFits, NodesFit
    <2>2. query.lost = query.degraded
      BY <2>1 DEF ReplyFits, RetrievalFits, GatheredFits, Gathered
    <2> QED
      BY <2>1, <2>2 DEF Disclosed
  <1> QED
    BY <1>1, InvariantOfReplies, PTL

\* A reply is told only what the database believed during the retrieval, and
\* misses what it believed all along only for want of room.
THEOREM RepliesRestOnRecord ==
    ContextSpec => []ReplyRestsOnRecord
  <1>1. ReplyFits => ReplyRestsOnRecord
    <2> SUFFICES ASSUME ReplyFits, context.at = "ready"
                 PROVE  /\ Shown \subseteq live /\ context.excerpts \subseteq Shown
                        /\ \A f \in steady \ Shown :
                              NoRoomFor(f) \/ "no memory" \in context.notices
      BY DEF ReplyRestsOnRecord
    <2>1. /\ query.at \in {"done", "raised"} /\ Shown = Range(query.facts)
          /\ context.excerpts \subseteq Shown /\ context.notices = Disclosed
      BY DEF ReplyFits, NodesFit
    <2>2. Gathered(query) /\ Answered(query)
      BY <2>1 DEF ReplyFits, RetrievalFits, GatheredFits, AnswerFits
    <2>3. CASE query.at = "raised"
      <3>1. query.facts = <<>>
        BY <2>2, <2>3 DEF Gathered
      <3>2. Shown = {}
        BY <2>1, <3>1 DEF Range
      <3>3. "no memory" \in context.notices
        BY <2>1, <2>3 DEF Disclosed
      <3> QED
        BY <2>1, <3>2, <3>3
    <2>4. CASE query.at = "done"
      <3>1. Shown \subseteq live /\ \A f \in steady \ Shown : Crowded(f, Shown)
        BY <2>1, <2>2, <2>4 DEF Answered
      <3>2. \A f : Crowded(f, Shown) => NoRoomFor(f)
        BY DEF Crowded, NoRoomFor
      <3> QED
        BY <2>1, <3>1, <3>2
    <2> QED
      BY <2>1, <2>3, <2>4
  <1> QED
    BY <1>1, InvariantOfReplies, PTL
==============================================================================
