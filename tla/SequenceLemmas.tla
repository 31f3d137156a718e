--------------------------- MODULE SequenceLemmas ---------------------------
(***************************************************************************)
(* Facts about sequences that the proofs of several components rest on:    *)
(* what joining sequences does to their elements, and an induction along a *)
(* sequence (UpTo), from the well-foundedness of the natural numbers,      *)
(* which stands in for the induction theorems of the library.              *)
(***************************************************************************)
EXTENDS SequencesExt, FiniteSetTheorems, SequenceTheorems, WellFoundedInduction, TLAPS

\* No element of a sequence comes twice.
Once(s) == \A i, j \in 1..Len(s) : s[i] = s[j] => i = j

\* The elements of a sequence, and what taking or adding one does to them.
LEMMA Elements ==
    ASSUME NEW S, NEW s \in Seq(S)
    PROVE  ToSet(s) = {s[i] : i \in 1..Len(s)} /\ ToSet(s) \subseteq S /\ s \in Seq(ToSet(s)) /\ Len(s) \in Nat
<1>1. Len(s) \in Nat /\ DOMAIN s = 1..Len(s) /\ s \in [1..Len(s) -> S]
    BY LenProperties
<1>2. ToSet(s) = {s[i] : i \in 1..Len(s)}
    BY <1>1 DEF ToSet
<1>3. s \in [1..Len(s) -> ToSet(s)] /\ ToSet(s) \subseteq S
    BY <1>1, <1>2
<1>4. s \in Seq(ToSet(s))
    BY <1>1, <1>3, SeqDef
<1> QED
    BY <1>1, <1>2, <1>3, <1>4

\* Appending adds one element.
LEMMA AddOne ==
    ASSUME NEW S, NEW s \in Seq(S), NEW e \in S
    PROVE  ToSet(Append(s, e)) = ToSet(s) \cup {e}
<1>1. /\ Append(s, e) \in Seq(S) /\ Len(Append(s, e)) = Len(s) + 1 /\ Len(s) \in Nat
      /\ \A i \in 1..Len(s) : Append(s, e)[i] = s[i]
      /\ Append(s, e)[Len(s) + 1] = e
    BY AppendProperties, LenProperties
<1>2. ToSet(Append(s, e)) = {Append(s, e)[i] : i \in 1..(Len(s) + 1)}
    BY <1>1, Elements
<1>3. ToSet(s) = {s[i] : i \in 1..Len(s)}
    BY Elements
<1> QED
    BY <1>1, <1>2, <1>3

\* Dropping the head leaves the other elements, one place earlier.
LEMMA DropOne ==
    ASSUME NEW S, NEW s \in Seq(S), s # <<>>
    PROVE  /\ Tail(s) \in Seq(S) /\ Len(Tail(s)) = Len(s) - 1 /\ Len(s) \in Nat \ {0}
           /\ Head(s) = s[1] /\ Head(s) \in S
           /\ \A i \in 1..(Len(s) - 1) : Tail(s)[i] = s[i + 1]
           /\ ToSet(s) = {Head(s)} \cup ToSet(Tail(s))
<1>1. /\ Tail(s) \in Seq(S) /\ Len(Tail(s)) = Len(s) - 1 /\ Len(s) \in Nat \ {0}
      /\ Head(s) \in S /\ \A i \in 1..(Len(s) - 1) : Tail(s)[i] = s[i + 1]
    BY HeadTailProperties, EmptySeq
<1>2. Head(s) = s[1]
    OBVIOUS
<1>3. /\ ToSet(s) = {s[i] : i \in 1..Len(s)}
      /\ ToSet(Tail(s)) = {Tail(s)[i] : i \in 1..(Len(s) - 1)}
    BY <1>1, Elements
<1>4. ToSet(s) \subseteq {Head(s)} \cup ToSet(Tail(s))
    <2> SUFFICES ASSUME NEW i \in 1..Len(s), i # 1 PROVE s[i] \in ToSet(Tail(s))
        BY <1>2, <1>3
    <2>1. i - 1 \in 1..(Len(s) - 1) /\ (i - 1) + 1 = i
        BY <1>1
    <2> QED
        BY <1>1, <1>3, <2>1
<1>5. {Head(s)} \cup ToSet(Tail(s)) \subseteq ToSet(s)
    <2>1. \A i \in 1..(Len(s) - 1) : i + 1 \in 1..Len(s)
        BY <1>1
    <2> QED
        BY <1>1, <1>2, <1>3, <2>1
<1> QED
    BY <1>1, <1>2, <1>4, <1>5

\* Adding an element that is new, and dropping the first, keep the others apart.
LEMMA OnceAdded ==
    ASSUME NEW S, NEW s \in Seq(S), NEW e \in S, Once(s), e \notin ToSet(s)
    PROVE  Once(Append(s, e))
<1>1. /\ Append(s, e) \in Seq(S) /\ Len(Append(s, e)) = Len(s) + 1 /\ Len(s) \in Nat
      /\ \A i \in 1..Len(s) : Append(s, e)[i] = s[i]
      /\ Append(s, e)[Len(s) + 1] = e
    BY AppendProperties, LenProperties
<1>2. \A i \in 1..Len(s) : s[i] # e
    BY Elements
<1> QED
    BY <1>1, <1>2 DEF Once

\* The head of a sequence without repetitions is not in its tail.
LEMMA OnceDropped ==
    ASSUME NEW S, NEW s \in Seq(S), s # <<>>, Once(s)
    PROVE  Once(Tail(s)) /\ Head(s) \notin ToSet(Tail(s))
<1>1. /\ Tail(s) \in Seq(S) /\ Len(Tail(s)) = Len(s) - 1 /\ Len(s) \in Nat \ {0}
      /\ Head(s) = s[1] /\ \A i \in 1..(Len(s) - 1) : Tail(s)[i] = s[i + 1]
    BY DropOne
<1>2. \A i \in 1..(Len(s) - 1) : i + 1 \in 1..Len(s) /\ i + 1 # 1
    BY <1>1
<1>3. \A i, j \in 1..(Len(s) - 1) : s[i + 1] = s[j + 1] => i = j
    BY <1>1, <1>2 DEF Once
<1>4. \A i \in 1..(Len(s) - 1) : s[i + 1] # s[1]
    BY <1>1, <1>2 DEF Once
<1>5. ToSet(Tail(s)) = {Tail(s)[i] : i \in 1..(Len(s) - 1)}
    BY <1>1, Elements
<1> QED
    BY <1>1, <1>3, <1>4, <1>5 DEF Once

\* A sequence without repetitions is as long as it has elements.
LEMMA OnceCounted ==
    ASSUME NEW S, NEW s \in Seq(S), Once(s)
    PROVE  IsFiniteSet(ToSet(s)) /\ Len(s) = Cardinality(ToSet(s))
<1> DEFINE n == Len(s)
<1>1. n \in Nat /\ DOMAIN s = 1..n /\ s \in [1..n -> ToSet(s)] /\ ToSet(s) = {s[i] : i \in 1..n}
    BY Elements, LenProperties
<1>2. s \in Bijection(1..n, ToSet(s))
    <2> HIDE DEF n
    <2>1. \A i, j \in 1..n : s[i] = s[j] => i = j
        BY DEF Once, n
    <2>2. s \in Injection(1..n, ToSet(s))
        BY <1>1, <2>1 DEF Injection, IsInjective
    <2>3. s \in Surjection(1..n, ToSet(s))
        BY <1>1 DEF Surjection
    <2> QED
        BY <2>2, <2>3 DEF Bijection
<1>3. ExistsBijection(1..n, ToSet(s))
    BY <1>2 DEF ExistsBijection
<1> HIDE DEF n
<1>4. Cardinality(ToSet(s)) = n
    BY <1>1, <1>3, FS_CountingElements
<1>5. IsFiniteSet(ToSet(s))
    BY <1>1, <1>3, FS_NatBijection
<1> QED
    BY <1>4, <1>5 DEF n

\* The elements of two sequences joined.
LEMMA Joined ==
    ASSUME NEW S, NEW s \in Seq(S), NEW t \in Seq(S)
    PROVE  /\ s \o t \in Seq(S) /\ ToSet(s \o t) = ToSet(s) \cup ToSet(t)
           /\ Once(s) /\ Once(t) /\ ToSet(s) \cap ToSet(t) = {} => Once(s \o t)
<1> DEFINE m == Len(s)
           n == Len(t)
<1>1. /\ s \o t \in Seq(S) /\ Len(s \o t) = m + n /\ m \in Nat /\ n \in Nat
      /\ \A i \in 1..(m + n) : (s \o t)[i] = IF i <= m THEN s[i] ELSE t[i - m]
    BY ConcatProperties, LenProperties
<1>2. /\ ToSet(s) = {s[i] : i \in 1..m} /\ ToSet(t) = {t[i] : i \in 1..n}
      /\ ToSet(s \o t) = {(s \o t)[i] : i \in 1..(m + n)}
    BY <1>1, Elements
<1>3. Once(s) => \A i, j \in 1..m : s[i] = s[j] => i = j
    BY DEF Once
<1>4. Once(t) => \A i, j \in 1..n : t[i] = t[j] => i = j
    BY DEF Once
<1> HIDE DEF m, n
<1>5. \A i \in 1..(m + n) : i <= m => (s \o t)[i] = s[i] /\ i \in 1..m
    BY <1>1
<1>6. \A i \in 1..(m + n) : ~(i <= m) => (s \o t)[i] = t[i - m] /\ i - m \in 1..n
    BY <1>1
<1>7. ToSet(s) \subseteq ToSet(s \o t)
    <2> SUFFICES ASSUME NEW i \in 1..m PROVE s[i] \in ToSet(s \o t)
        BY <1>2
    <2>1. i \in 1..(m + n) /\ i <= m
        BY <1>1
    <2> QED
        BY <1>2, <1>5, <2>1
<1>8. ToSet(t) \subseteq ToSet(s \o t)
    <2> SUFFICES ASSUME NEW i \in 1..n PROVE t[i] \in ToSet(s \o t)
        BY <1>2
    <2>1. i + m \in 1..(m + n) /\ ~(i + m <= m) /\ (i + m) - m = i
        BY <1>1
    <2> QED
        BY <1>2, <1>6, <2>1
<1>9. ToSet(s \o t) \subseteq ToSet(s) \cup ToSet(t)
    BY <1>2, <1>5, <1>6
<1>10. ASSUME Once(s), Once(t), ToSet(s) \cap ToSet(t) = {} PROVE Once(s \o t)
    <2> SUFFICES ASSUME NEW i \in 1..(m + n), NEW j \in 1..(m + n), (s \o t)[i] = (s \o t)[j] PROVE i = j
        BY <1>1 DEF Once
    <2>1. CASE i <= m /\ j <= m
        BY <1>3, <1>5, <1>10, <2>1
    <2>2. CASE ~(i <= m) /\ ~(j <= m)
        <3>1. i - m = j - m
            BY <1>4, <1>6, <1>10, <2>2
        <3> QED
            BY <1>1, <3>1
    <2>3. CASE i <= m /\ ~(j <= m)
        BY <1>2, <1>5, <1>6, <1>10, <2>3
    <2>4. CASE ~(i <= m) /\ j <= m
        BY <1>2, <1>5, <1>6, <1>10, <2>4
    <2> QED
        BY <2>1, <2>2, <2>3, <2>4
<1> QED
    BY <1>1, <1>7, <1>8, <1>9, <1>10

\* The image of a finite set.
LEMMA FiniteImage ==
    ASSUME NEW S, IsFiniteSet(S), NEW f, DOMAIN f = S, f = [x \in S |-> f[x]]
    PROVE  IsFiniteSet({f[x] : x \in S})
<1>1. f \in Surjection(S, {f[x] : x \in S})
    BY DEF Surjection
<1> QED
    BY <1>1, FS_Surjection

-----------------------------------------------------------------------------
(* Induction along a sequence, and the sequences that are joined by it. *)

\* Every set of numbers that is not empty has a least one.
LEMMA Least ==
    ASSUME NEW S \in SUBSET Nat, S # {}
    PROVE  \E n \in S : \A m \in S : n <= m
<1> DEFINE L == {ss \in Nat \X Nat : ss[1] < ss[2]}
<1>1. IsWellFoundedOn(L, Nat)
    BY NatLessThanWellFounded DEF OpToRel
<1>2. \A m, n \in Nat : m < n => <<m, n>> \in L
    OBVIOUS
<1> HIDE DEF L
<1>3. PICK n \in S : \A m \in S : <<m, n>> \notin L
    BY <1>1, WFMin
<1>4. ASSUME NEW m \in S PROVE n <= m
    <2>1. m \in Nat /\ n \in Nat
        OBVIOUS
    <2>2. ~(m < n)
        BY <1>2, <1>3, <2>1
    <2> QED
        BY <2>1, <2>2
<1> QED
    BY <1>4

\* What holds of 1, and of i + 1 when it holds of i, holds up to the end.
LEMMA UpTo ==
    ASSUME NEW n \in Nat, NEW S, 1 \in S, \A i \in 1..(n - 1) : i \in S => i + 1 \in S
    PROVE  1..n \subseteq S
<1> SUFFICES ASSUME (1..n) \ S # {} PROVE FALSE
    OBVIOUS
<1>1. PICK i \in (1..n) \ S : \A j \in (1..n) \ S : i <= j
    <2>1. (1..n) \ S \in SUBSET Nat
        OBVIOUS
    <2> QED
        BY <2>1, Least
<1>2. i # 1 /\ i - 1 \in 1..(n - 1) /\ (i - 1) + 1 = i
    OBVIOUS
<1>3. i - 1 \in S
    BY <1>1, <1>2
<1> QED
    BY <1>2, <1>3

\* The partial results of FlattenSeq.
Flat(f, seqs, n) ==
    f = [i \in 1..n |-> IF i = 1 THEN seqs[i] ELSE f[i - 1] \o seqs[i]]

\* The function that FlattenSeq chooses exists.
LEMMA FlatExists ==
    ASSUME NEW S, NEW seqs \in Seq(Seq(S)), NEW n \in 1..Len(seqs)
    PROVE  \E f \in [1..n -> Seq(S)] : Flat(f, seqs, n)
<1> DEFINE L == Len(seqs)
           good == {i \in 1..L : \E f \in [1..i -> Seq(S)] : Flat(f, seqs, i)}
<1>1. L \in Nat /\ \A i \in 1..L : seqs[i] \in Seq(S)
    BY LenProperties, ElementOfSeq
<1> HIDE DEF L
<1>2. 1 \in good
    <2> DEFINE g == [i \in 1..1 |-> seqs[1]]
    <2>1. 1 \in 1..L
        BY <1>1 DEF L
    <2>2. g \in [1..1 -> Seq(S)] /\ Flat(g, seqs, 1)
        BY <1>1, <2>1 DEF Flat
    <2> QED
        BY <2>1, <2>2
<1>3. ASSUME NEW i \in 1..(L - 1), i \in good PROVE i + 1 \in good
    <2>1. PICK f \in [1..i -> Seq(S)] : Flat(f, seqs, i)
        BY <1>3
    <2> DEFINE g == [j \in 1..(i + 1) |-> IF j = i + 1 THEN f[i] \o seqs[i + 1] ELSE f[j]]
    <2>2. i \in 1..i /\ i + 1 \in 1..L /\ i + 1 # 1
        BY <1>1, <1>3
    <2>3. f[i] \o seqs[i + 1] \in Seq(S)
        BY <1>1, <2>2, ConcatProperties
    <2>4. g \in [1..(i + 1) -> Seq(S)]
        BY <2>3
    <2>5. \A j \in 1..i : f[j] = IF j = 1 THEN seqs[j] ELSE f[j - 1] \o seqs[j]
        BY <2>1 DEF Flat
    <2>6. \A j \in 1..(i + 1) : g[j] = IF j = 1 THEN seqs[j] ELSE g[j - 1] \o seqs[j]
        <3> TAKE j \in 1..(i + 1)
        <3>1. CASE j = i + 1
            <4>1. j - 1 = i /\ i \in 1..(i + 1) /\ i # i + 1
                BY <3>1
            <4>2. g[i] = f[i] /\ g[j] = f[i] \o seqs[i + 1]
                BY <3>1, <4>1
            <4> QED
                BY <2>2, <3>1, <4>1, <4>2
        <3>2. CASE j # i + 1
            <4>1. j \in 1..i /\ g[j] = f[j] /\ (j # 1 => g[j - 1] = f[j - 1])
                BY <2>2, <3>2
            <4> QED
                BY <2>5, <4>1
        <3> QED
            BY <3>1, <3>2
    <2>7. g = [j \in 1..(i + 1) |-> g[j]]
        OBVIOUS
    <2> HIDE DEF g
    <2>8. Flat(g, seqs, i + 1)
        BY <2>6, <2>7 DEF Flat
    <2> QED
        BY <2>2, <2>4, <2>8
<1>4. 1..L \subseteq good
    <2> HIDE DEF good
    <2> QED
        BY <1>1, <1>2, <1>3, UpTo
<1> QED
    BY <1>4 DEF L

\* FlattenSeq joins its sequences one after the other.
LEMMA FlattenSteps ==
    ASSUME NEW S, NEW seqs \in Seq(Seq(S)), seqs # <<>>
    PROVE  \E f \in [1..Len(seqs) -> Seq(S)] :
              /\ f[1] = seqs[1]
              /\ \A i \in 1..(Len(seqs) - 1) : f[i + 1] = f[i] \o seqs[i + 1]
              /\ FlattenSeq(seqs) = f[Len(seqs)]
<1> DEFINE n == Len(seqs)
           f == CHOOSE f : f = [i \in 1..n |-> IF i = 1 THEN seqs[i] ELSE f[i - 1] \o seqs[i]]
<1>1. n \in Nat \ {0} /\ n \in 1..Len(seqs)
    BY EmptySeq
<1>2. PICK g \in [1..n -> Seq(S)] : Flat(g, seqs, n)
    BY <1>1, FlatExists
<1>3. f = [i \in 1..n |-> IF i = 1 THEN seqs[i] ELSE f[i - 1] \o seqs[i]]
    BY <1>2, Zenon DEF Flat
<1>4. FlattenSeq(seqs) = f[n]
    <2>1. Len(seqs) # 0
        BY <1>1
    <2> QED
        BY <2>1, Zenon DEF FlattenSeq
<1> HIDE DEF f, n
<1>5. /\ f[1] = seqs[1]
      /\ \A i \in 1..(n - 1) : f[i + 1] = f[i] \o seqs[i + 1]
    <2>1. f[1] = seqs[1]
        BY <1>1, <1>3
    <2>2. \A i \in 1..(n - 1) : i + 1 \in 1..n /\ i + 1 # 1 /\ (i + 1) - 1 = i
        BY <1>1
    <2>3. \A j \in 1..n : f[j] = IF j = 1 THEN seqs[j] ELSE f[j - 1] \o seqs[j]
        BY <1>3
    <2> QED
        BY <2>1, <2>2, <2>3
<1>6. f \in [1..n -> Seq(S)]
    <2> DEFINE good == {i \in 1..n : f[i] \in Seq(S)}
    <2>1. \A i \in 1..n : seqs[i] \in Seq(S)
        BY ElementOfSeq DEF n
    <2>2. 1 \in good
        BY <1>1, <1>5, <2>1
    <2>3. ASSUME NEW i \in 1..(n - 1), i \in good PROVE i + 1 \in good
        <3>1. i + 1 \in 1..n /\ f[i] \in Seq(S) /\ seqs[i + 1] \in Seq(S)
            BY <1>1, <2>1, <2>3
        <3>2. f[i + 1] = f[i] \o seqs[i + 1]
            BY <1>5
        <3>3. f[i] \o seqs[i + 1] \in Seq(S)
            BY ONLY <3>1, ConcatProperties
        <3> QED
            BY <3>1, <3>2, <3>3
    <2>4. 1..n \subseteq good
        <3> HIDE DEF good
        <3> QED
            BY <1>1, <2>2, <2>3, UpTo
    <2> QED
        BY <1>3, <2>4
<1> QED
    BY <1>4, <1>5, <1>6 DEF n

\* FlattenSeq keeps the elements, and keeps them apart.
LEMMA Flattened ==
    ASSUME NEW S, NEW seqs \in Seq(Seq(S))
    PROVE  /\ FlattenSeq(seqs) \in Seq(S)
           /\ ToSet(FlattenSeq(seqs)) = UNION {ToSet(seqs[i]) : i \in 1..Len(seqs)}
           /\ /\ \A i \in 1..Len(seqs) : Once(seqs[i])
              /\ \A i, j \in 1..Len(seqs) : i # j => ToSet(seqs[i]) \cap ToSet(seqs[j]) = {}
              => Once(FlattenSeq(seqs))
           /\ (\A i \in 1..Len(seqs) : seqs[i] = <<>>) => FlattenSeq(seqs) = <<>>
<1> DEFINE n == Len(seqs)
<1>1. n \in Nat /\ \A i \in 1..n : seqs[i] \in Seq(S)
    BY LenProperties, ElementOfSeq
<1>2. CASE seqs = <<>>
    <2>1. FlattenSeq(seqs) = <<>> /\ n = 0
        BY <1>2, Zenon, EmptySeq DEF FlattenSeq
    <2>2. <<>> \in Seq(S) /\ ToSet(<<>>) = {} /\ Once(<<>>)
        BY EmptySeq DEF ToSet, Once
    <2>3. 1..n = {}
        BY <2>1
    <2> QED
        BY <2>1, <2>2, <2>3
<1>3. CASE seqs # <<>>
    <2>1. PICK f \in [1..n -> Seq(S)] :
              /\ f[1] = seqs[1]
              /\ \A i \in 1..(n - 1) : f[i + 1] = f[i] \o seqs[i + 1]
              /\ FlattenSeq(seqs) = f[n]
        BY <1>3, FlattenSteps
    <2>2. n \in 1..n
        BY <1>1, <1>3, EmptySeq
    <2> DEFINE apart == /\ \A i \in 1..n : Once(seqs[i])
                        /\ \A i, j \in 1..n : i # j => ToSet(seqs[i]) \cap ToSet(seqs[j]) = {}
               none == \A i \in 1..n : seqs[i] = <<>>
               good == {k \in 1..n : /\ ToSet(f[k]) = UNION {ToSet(seqs[i]) : i \in 1..k}
                                     /\ apart => Once(f[k])
                                     /\ none => f[k] = <<>>}
    <2> HIDE DEF n
    <2>3. 1 \in good
        <3>1. 1 \in 1..n /\ 1..1 = {1}
            BY <1>1, <2>2
        <3> QED
            BY <2>1, <3>1
    <2>4. ASSUME NEW k \in 1..(n - 1), k \in good PROVE k + 1 \in good
        <3>1. /\ k \in 1..n /\ k + 1 \in 1..n /\ 1..(k + 1) = 1..k \cup {k + 1}
              /\ \A i \in 1..k : i # k + 1 /\ i \in 1..n
            BY <1>1
        <3>2. f[k + 1] = f[k] \o seqs[k + 1] /\ f[k] \in Seq(S) /\ seqs[k + 1] \in Seq(S)
            BY <1>1, <2>1, <3>1
        <3>3. /\ ToSet(f[k + 1]) = ToSet(f[k]) \cup ToSet(seqs[k + 1])
              /\ Once(f[k]) /\ Once(seqs[k + 1]) /\ ToSet(f[k]) \cap ToSet(seqs[k + 1]) = {} => Once(f[k + 1])
            BY <3>2, Joined
        <3>4. ToSet(f[k]) = UNION {ToSet(seqs[i]) : i \in 1..k}
            BY <2>4
        <3>5. ToSet(f[k + 1]) = UNION {ToSet(seqs[i]) : i \in 1..(k + 1)}
            BY <3>1, <3>3, <3>4
        <3>6. ASSUME apart PROVE Once(f[k + 1])
            <4>1. Once(f[k]) /\ Once(seqs[k + 1])
                BY <2>4, <3>1, <3>6
            <4>2. \A i \in 1..k : ToSet(seqs[i]) \cap ToSet(seqs[k + 1]) = {}
                BY <3>1, <3>6
            <4>3. ToSet(f[k]) \cap ToSet(seqs[k + 1]) = {}
                BY ONLY <3>4, <4>2
            <4> QED
                BY <3>3, <4>1, <4>3
        <3>7. ASSUME none PROVE f[k + 1] = <<>>
            <4>1. f[k] = <<>> /\ seqs[k + 1] = <<>>
                BY <2>4, <3>1, <3>7
            <4> QED
                BY <3>2, <4>1, ConcatEmptySeq
        <3> QED
            BY <3>1, <3>5, <3>6, <3>7
    <2>5. 1..n \subseteq good
        <3> HIDE DEF good
        <3> QED
            BY <1>1, <2>3, <2>4, UpTo
    <2>6. n \in good
        BY <2>2, <2>5
    <2> QED
        BY <2>1, <2>2, <2>6 DEF n
<1> QED
    BY <1>2, <1>3
=============================================================================
