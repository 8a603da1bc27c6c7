--------------------------- MODULE SelectionProofs ---------------------------
(***************************************************************************)
(* Lemmas about the operators of Selection: the order of the account list  *)
(* is total, every nonempty list has the elements PickNext takes from it,  *)
(* and what PickNext returns is what its comment promises.                 *)
(***************************************************************************)
EXTENDS Selection, FiniteSetTheorems, WellFoundedInduction, TLAPS

\* A nonempty set of numbers has a least element.
LEMMA LeastNumber ==
    ASSUME NEW T, T \subseteq Nat, T # {}
    PROVE  \E n \in T : \A m \in T : n <= m
<1>1. \E n \in T : \A m \in T : ~(<<m, n>> \in OpToRel(<, Nat))
  BY NatLessThanWellFounded, WFMin
<1>2. PICK n \in T : \A m \in T : ~(<<m, n>> \in OpToRel(<, Nat))
  BY <1>1
<1>3. \A m \in T : ~(m < n)
  BY <1>2 DEF OpToRel
<1>4. \A m \in T : m \in Nat /\ n \in Nat
  OBVIOUS
<1> QED
  BY <1>3, <1>4

\* A nonempty set has an element at which a measure is least.
LEMMA LeastByMeasure ==
    ASSUME NEW S, S # {}, NEW f \in [S -> Nat]
    PROVE  \E a \in S : \A b \in S : f[a] <= f[b]
<1> DEFINE T == {f[a] : a \in S}
<1>1. T \subseteq Nat /\ T # {}
  OBVIOUS
<1>2. PICK n \in T : \A m \in T : n <= m
  BY <1>1, LeastNumber
<1> QED
  BY <1>2

\* The list order is a strict total order.
LEMMA BeforeTotal ==
    ASSUME NEW added \in [Account -> Nat], NEW a \in Account, NEW b \in Account, a # b
    PROVE  Before(added, a, b) \/ Before(added, b, a)
BY AccountAssumption DEF Before

\* Of two accounts only one comes before the other.
LEMMA BeforeAsymmetric ==
    ASSUME NEW added \in [Account -> Nat], NEW a \in Account, NEW b \in Account,
           Before(added, a, b)
    PROVE  ~Before(added, b, a) /\ a # b
BY AccountAssumption DEF Before

\* What comes before an account comes before those after it.
LEMMA BeforeTransitive ==
    ASSUME NEW added \in [Account -> Nat],
           NEW a \in Account, NEW b \in Account, NEW c \in Account,
           Before(added, a, b), Before(added, b, c)
    PROVE  Before(added, a, c)
BY AccountAssumption DEF Before

\* A nonempty list has a first account.
LEMMA FirstExists ==
    ASSUME NEW added \in [Account -> Nat], NEW S, S \subseteq Account, S # {}
    PROVE  \E a \in S : \A b \in S \ {a} : Before(added, a, b)
<1> DEFINE f == [a \in S |-> added[a]]
<1>1. PICK a \in S : \A b \in S : f[a] <= f[b]
  <2>1. f \in [S -> Nat]
    OBVIOUS
  <2> QED
    BY <2>1, LeastByMeasure
<1> DEFINE T == {b \in S : added[b] = added[a]}
<1>2. T # {} /\ T \subseteq Nat
  BY AccountAssumption
<1>3. PICK c \in T : \A b \in T : c <= b
  BY <1>2, LeastNumber
<1>4. \A b \in S \ {c} : Before(added, c, b)
  <2> SUFFICES ASSUME NEW b \in S \ {c}
               PROVE  Before(added, c, b)
    OBVIOUS
  <2>1. added[c] <= added[b] /\ added[c] \in Nat /\ added[b] \in Nat /\ c \in Nat /\ b \in Nat
    BY <1>1, <1>3, AccountAssumption
  <2>2. CASE b \in T
    BY <2>1, <2>2, <1>3 DEF Before
  <2>3. CASE b \notin T
    BY <2>1, <2>3 DEF Before
  <2> QED
    BY <2>2, <2>3
<1> QED
  BY <1>3, <1>4

\* Among those with the least measure, the first in the list: how a stable
\* sort by the measure chooses.
LEMMA StableLeast ==
    ASSUME NEW added \in [Account -> Nat], NEW S, S \subseteq Account, S # {},
           NEW f \in [S -> Nat]
    PROVE  \E a \in S : \A b \in S \ {a} :
               f[a] < f[b] \/ (f[a] = f[b] /\ Before(added, a, b))
<1>1. PICK m \in S : \A b \in S : f[m] <= f[b]
  BY LeastByMeasure
<1> DEFINE T == {b \in S : f[b] = f[m]}
<1>2. T # {} /\ T \subseteq Account
  OBVIOUS
<1>3. PICK a \in T : \A b \in T \ {a} : Before(added, a, b)
  BY <1>2, FirstExists
<1>4. \A b \in S \ {a} : f[a] < f[b] \/ (f[a] = f[b] /\ Before(added, a, b))
  <2> SUFFICES ASSUME NEW b \in S \ {a}
               PROVE  f[a] < f[b] \/ (f[a] = f[b] /\ Before(added, a, b))
    OBVIOUS
  <2>1. f[a] <= f[b] /\ f[a] \in Nat /\ f[b] \in Nat /\ f[a] = f[m]
    BY <1>1, <1>3
  <2> QED
    BY <2>1, <1>3
<1> QED
  BY <1>3, <1>4
-----------------------------------------------------------------------------
(* Positions in a list.                                                    *)

\* A list of accounts is finite.
LEMMA ListFinite ==
    ASSUME NEW E, E \subseteq Account
    PROVE  IsFiniteSet(E) /\ Cardinality(E) \in Nat
BY FS_Subset, FS_CardinalityType, AccountAssumption

\* A position lies within the list.
LEMMA IndexBound ==
    ASSUME NEW added, NEW E, E \subseteq Account, NEW a \in E, added \in [Account -> Nat]
    PROVE  Index(added, E, a) \in 0..(Cardinality(E) - 1)
<1> DEFINE Pre == {b \in E : Before(added, b, a)}
<1>1. Pre \subseteq E \ {a}
  BY BeforeAsymmetric
<1>2. IsFiniteSet(E) /\ Cardinality(E) \in Nat
  BY ListFinite
<1>3. IsFiniteSet(E \ {a}) /\ Cardinality(E \ {a}) = Cardinality(E) - 1
  BY <1>2, FS_RemoveElement
<1>4. Cardinality(Pre) <= Cardinality(E \ {a}) /\ IsFiniteSet(Pre)
  BY <1>1, <1>3, FS_Subset
<1>5. Cardinality(Pre) \in Nat
  BY <1>4, FS_CardinalityType
<1> QED
  BY <1>2, <1>3, <1>4, <1>5 DEF Index

\* A later account has a later position.
LEMMA IndexGrows ==
    ASSUME NEW added \in [Account -> Nat], NEW E, E \subseteq Account,
           NEW a \in E, NEW b \in E, Before(added, a, b)
    PROVE  Index(added, E, a) < Index(added, E, b)
<1> DEFINE Pre(x) == {c \in E : Before(added, c, x)}
<1>1. Pre(a) \cup {a} \subseteq Pre(b)
  BY BeforeTransitive
<1>2. a \notin Pre(a)
  BY BeforeAsymmetric
<1>3. /\ IsFiniteSet(Pre(a)) /\ Cardinality(Pre(a)) \in Nat
      /\ IsFiniteSet(Pre(b)) /\ Cardinality(Pre(b)) \in Nat
  <2>1. Pre(a) \subseteq Account /\ Pre(b) \subseteq Account
    OBVIOUS
  <2> QED
    BY <2>1, ListFinite
<1>4. Cardinality(Pre(a) \cup {a}) = Cardinality(Pre(a)) + 1
  BY <1>2, <1>3, FS_AddElement
<1>5. Cardinality(Pre(a) \cup {a}) <= Cardinality(Pre(b))
  BY <1>1, <1>3, FS_Subset
<1> QED
  BY <1>3, <1>4, <1>5 DEF Index

\* No two accounts share a position.
LEMMA IndexInjective ==
    ASSUME NEW added \in [Account -> Nat], NEW E, E \subseteq Account,
           NEW a \in E, NEW b \in E, a # b
    PROVE  Index(added, E, a) # Index(added, E, b)
<1>1. CASE Before(added, a, b)
  BY <1>1, IndexGrows, IndexBound
<1>2. CASE Before(added, b, a)
  <2>1. Index(added, E, b) < Index(added, E, a)
    BY <1>2, IndexGrows
  <2> QED
    BY <2>1, IndexBound
<1> QED
  BY <1>1, <1>2, BeforeTotal

\* Every position of the list is taken: the account at the least position that
\* were free would be the first of those after the account before it.
LEMMA IndexOnto ==
    ASSUME NEW added \in [Account -> Nat], NEW E, E \subseteq Account,
           NEW k \in Nat, k < Cardinality(E)
    PROVE  \E a \in E : Index(added, E, a) = k
<1> DEFINE n == Cardinality(E)
           Pre(x) == {c \in E : Before(added, c, x)}
           Free == {i \in Nat : i < n /\ \A a \in E : Index(added, E, a) # i}
<1>1. IsFiniteSet(E) /\ n \in Nat
  BY ListFinite
<1>2. ASSUME Free # {}
      PROVE  FALSE
  <2>1. PICK i \in Free : \A j \in Free : i <= j
    BY <1>2, LeastNumber
  <2>a. i \in Nat /\ i < n
    OBVIOUS
  <2>2. CASE i = 0
    <3>1. E # {}
      BY <1>1, <2>a, <2>2, FS_EmptySet
    <3>2. PICK c \in E : \A b \in E \ {c} : Before(added, c, b)
      BY <3>1, FirstExists
    <3>3. Pre(c) = {}
      BY <3>2, BeforeAsymmetric
    <3>4. Index(added, E, c) = 0
      BY <3>3, FS_EmptySet DEF Index
    <3> QED
      BY <2>1, <2>2, <3>4
  <2>3. CASE i # 0
    <3>1. i - 1 \in Nat /\ i - 1 < n /\ i - 1 \notin Free
      BY <1>1, <2>1, <2>3
    <3>2. PICK a \in E : Index(added, E, a) = i - 1
      BY <3>1
    <3>3. a \notin Pre(a) /\ Pre(a) \subseteq Account /\ a \in Account
      BY BeforeAsymmetric
    <3>4. Cardinality(Pre(a) \cup {a}) = i
      <4>1. IsFiniteSet(Pre(a)) /\ Cardinality(Pre(a)) = i - 1
        BY <3>2, <3>3, ListFinite DEF Index
      <4>2. Cardinality(Pre(a) \cup {a}) = Cardinality(Pre(a)) + 1
        BY <3>3, <4>1, FS_AddElement
      <4> QED
        BY <2>a, <4>1, <4>2
    <3> DEFINE After == E \ (Pre(a) \cup {a})
    <3>5. After # {} /\ After \subseteq Account
      <4>1. Cardinality(Pre(a) \cup {a}) # Cardinality(E)
        BY <1>1, <2>a, <3>4
      <4> QED
        BY <4>1
    <3>6. PICK c \in After : \A b \in After \ {c} : Before(added, c, b)
      BY <3>5, FirstExists
    <3>7. Pre(c) = Pre(a) \cup {a}
      <4>1. Before(added, a, c)
        BY <3>6, BeforeTotal
      <4>2. Pre(a) \cup {a} \subseteq Pre(c)
        BY <4>1, BeforeTransitive
      <4>3. Pre(c) \subseteq Pre(a) \cup {a}
        BY <3>6, BeforeAsymmetric
      <4> QED
        BY <4>2, <4>3
    <3>8. Index(added, E, c) = i
      BY <3>4, <3>7 DEF Index
    <3> QED
      BY <2>1, <3>6, <3>8
  <2> QED
    BY <2>2, <2>3
<1> QED
  BY <1>2

\* The account at a position of the list is an element of it.
LEMMA AtInList ==
    ASSUME NEW added \in [Account -> Nat], NEW E, E \subseteq Account,
           NEW k \in Nat, k < Cardinality(E)
    PROVE  At(added, E, k) \in E
BY IndexOnto DEF At
-----------------------------------------------------------------------------
(* The cursor.                                                             *)

\* A remainder lies below its divisor.
LEMMA ModRange ==
    ASSUME NEW n \in Nat \ {0}, NEW i \in Nat
    PROVE  i % n \in 0..(n - 1)
OBVIOUS

\* The eligible and the healthy accounts are accounts of the vault.
LEMMA EligibleFinite ==
    ASSUME NEW added, NEW st
    PROVE  /\ Eligible(added, st) \subseteq Account
           /\ Healthy(added, st) \subseteq Eligible(added, st)
           /\ Listed(added) \subseteq Account
           /\ Eligible(added, st) \subseteq Listed(added)
           /\ IsFiniteSet(Eligible(added, st))
           /\ Cardinality(Eligible(added, st)) \in Nat
           /\ Eligible(added, st) # {} => Cardinality(Eligible(added, st)) \in Nat \ {0}
<1>1. /\ Eligible(added, st) \subseteq Listed(added)
      /\ Listed(added) \subseteq Account
      /\ Healthy(added, st) \subseteq Eligible(added, st)
  BY DEF Eligible, Listed, Healthy
<1>2. IsFiniteSet(Eligible(added, st)) /\ Cardinality(Eligible(added, st)) \in Nat
  BY <1>1, ListFinite
<1> QED
  BY <1>1, <1>2, FS_EmptySet

\* The distance from the cursor to an account, without the modulus.
LEMMA GapValue ==
    ASSUME NEW added \in [Account -> Nat], NEW st \in StateFile,
           NEW a \in Eligible(added, st)
    PROVE  LET n == Cardinality(Eligible(added, st))
               i == Index(added, Eligible(added, st), a)
               r == st.rr % n
           IN  /\ n \in Nat \ {0} /\ i \in 0..(n - 1) /\ r \in 0..(n - 1)
               /\ Gap(added, st, a) = IF r <= i THEN i - r ELSE i + n - r
               /\ Gap(added, st, a) \in 0..(n - 1)
<1> DEFINE n == Cardinality(Eligible(added, st))
           i == Index(added, Eligible(added, st), a)
           r == st.rr % n
<1>1. n \in Nat \ {0} /\ i \in 0..(n - 1)
  BY EligibleFinite, IndexBound
<1>2. r \in 0..(n - 1)
  <2>1. st.rr \in Nat
    BY DEF StateFile
  <2> QED
    BY <1>1, <2>1, ModRange
<1>3. Gap(added, st, a) = (i + n - r) % n
  BY DEF Gap
<1> HIDE DEF n, i, r
<1> DEFINE x == i + n - r
<1>4. x \in Nat /\ x < n + n
  BY <1>1, <1>2
<1>5. x % n = IF x < n THEN x ELSE x - n
  <2> HIDE DEF x
  <2> QED
    BY <1>1, <1>4
<1>6. Gap(added, st, a) = IF r <= i THEN i - r ELSE i + n - r
  BY <1>1, <1>2, <1>3, <1>5
<1>7. Gap(added, st, a) \in 0..(n - 1)
  BY <1>1, <1>2, <1>6
<1> QED
  BY <1>1, <1>2, <1>6, <1>7 DEF n, i, r

\* The scan chooses a healthy account, the nearest one to the cursor.
LEMMA CursorChoice ==
    ASSUME NEW added \in [Account -> Nat], NEW st \in StateFile,
           Healthy(added, st) # {}
    PROVE  /\ FirstFromCursor(added, st) \in Healthy(added, st)
           /\ \A b \in Healthy(added, st) :
                 Gap(added, st, FirstFromCursor(added, st)) <= Gap(added, st, b)
<1> DEFINE H == Healthy(added, st)
           f == [a \in H |-> Gap(added, st, a)]
<1>1. ASSUME NEW a \in H
      PROVE  Gap(added, st, a) \in Nat
  <2>1. a \in Eligible(added, st)
    BY EligibleFinite
  <2> DEFINE n == Cardinality(Eligible(added, st))
  <2>2. n \in Nat \ {0} /\ Gap(added, st, a) \in 0..(n - 1)
    BY <2>1, GapValue
  <2> QED
    BY <2>2
<1>2. f \in [H -> Nat]
  BY <1>1
<1>3. \E a \in H : \A b \in H : f[a] <= f[b]
  BY <1>2, LeastByMeasure
<1>4. \E a \in H : \A b \in H : Gap(added, st, a) <= Gap(added, st, b)
  BY <1>3
<1> QED
  BY <1>4 DEF FirstFromCursor

\* A scan that passes over a healthy account leaves the cursor closer to it.
LEMMA GapShrinks ==
    ASSUME NEW added \in [Account -> Nat], NEW st \in StateFile, NEW t \in StateFile,
           NEW mode, Scans(added, st, mode),
           t.rr = Bumped(added, st, mode).rr, t.revoked = st.revoked,
           NEW a \in Healthy(added, st), a # FirstFromCursor(added, st)
    PROVE  Gap(added, t, a) < Gap(added, st, a)
<1> DEFINE E == Eligible(added, st)
           n == Cardinality(E)
           p == FirstFromCursor(added, st)
           i == Index(added, E, a)
           j == Index(added, E, p)
           r == st.rr % n
<1>1. p \in E /\ a \in E /\ E \subseteq Account /\ Gap(added, st, p) <= Gap(added, st, a)
  BY CursorChoice, EligibleFinite
<1>2. /\ n \in Nat \ {0} /\ i \in 0..(n - 1) /\ j \in 0..(n - 1) /\ r \in 0..(n - 1)
      /\ Gap(added, st, a) = IF r <= i THEN i - r ELSE i + n - r
      /\ Gap(added, st, p) = IF r <= j THEN j - r ELSE j + n - r
  BY <1>1, GapValue
<1>3. i # j
  BY <1>1, IndexInjective
<1>4. Eligible(added, t) = E
  BY DEF Eligible
<1>5. t.rr = (j + 1) % n
  <2>1. st.rr \in Nat /\ st = [st EXCEPT !.rr = st.rr]
    BY DEF StateFile
  <2> QED
    BY <2>1 DEF Bumped, StateFile
<1>6. t.rr % n = IF j + 1 < n THEN j + 1 ELSE 0
  <2> HIDE DEF n, j
  <2>1. (j + 1) % n = IF j + 1 < n THEN j + 1 ELSE j + 1 - n
    BY <1>2
  <2>2. (j + 1) % n \in 0..(n - 1)
    BY <1>2
  <2>3. t.rr % n = t.rr
    BY <1>2, <1>5, <2>2
  <2> QED
    BY <1>2, <1>5, <2>1, <2>3
<1>7. Gap(added, t, a) = IF t.rr % n <= i THEN i - (t.rr % n) ELSE i + n - (t.rr % n)
  BY <1>1, <1>4, GapValue
<1> HIDE DEF n, i, j, r, p, E
<1> QED
  BY <1>1, <1>2, <1>3, <1>6, <1>7
-----------------------------------------------------------------------------
(* What PickNext returns.                                                  *)

\* When all cool, the choice is an eligible account that cools no longer than any other.
LEMMA SoonestChoice ==
    ASSUME NEW added \in [Account -> Nat], NEW st \in StateFile,
           Eligible(added, st) # {}
    PROVE  /\ SoonestCool(added, st) \in Eligible(added, st)
           /\ \A b \in Eligible(added, st) : st.cool[SoonestCool(added, st)] <= st.cool[b]
<1> DEFINE E == Eligible(added, st)
           f == [a \in E |-> st.cool[a]]
           Soonest(a) == \A b \in E \ {a} :
               st.cool[a] < st.cool[b] \/ (st.cool[a] = st.cool[b] /\ Before(added, a, b))
<1>1. E \subseteq Account /\ f \in [E -> Nat] /\ \A a \in E : st.cool[a] \in Nat
  BY EligibleFinite DEF StateFile
<1>2. \E a \in E : \A b \in E \ {a} : f[a] < f[b] \/ (f[a] = f[b] /\ Before(added, a, b))
  BY <1>1, StableLeast
<1>3. \E a \in E : Soonest(a)
  BY <1>2
<1>4. SoonestCool(added, st) \in E /\ Soonest(SoonestCool(added, st))
  BY <1>3 DEF SoonestCool
<1> QED
  BY <1>1, <1>4

\* Smart mode chooses a healthy account, and none has a higher score.
LEMMA RichestChoice ==
    ASSUME NEW added \in [Account -> Nat], NEW st \in StateFile,
           NEW quota \in [Account -> Score], Healthy(added, st) # {}
    PROVE  /\ Richest(added, st, quota) \in Healthy(added, st)
           /\ \A b \in Healthy(added, st) : quota[b] <= quota[Richest(added, st, quota)]
<1> DEFINE H == Healthy(added, st)
           f == [a \in H |-> Full - quota[a]]
           Best(a) == \A b \in H \ {a} :
               quota[a] > quota[b] \/ (quota[a] = quota[b] /\ Before(added, a, b))
<1>1. H \subseteq Account /\ \A a \in H : quota[a] \in 0..Full
  BY EligibleFinite DEF Score
<1>2. f \in [H -> Nat]
  BY <1>1, ScoreAssumption
<1>3. PICK a \in H : \A b \in H \ {a} : f[a] < f[b] \/ (f[a] = f[b] /\ Before(added, a, b))
  BY <1>1, <1>2, StableLeast
<1>4. Best(a)
  BY <1>1, <1>3, ScoreAssumption
<1>5. Richest(added, st, quota) \in H /\ Best(Richest(added, st, quota))
  BY <1>3, <1>4 DEF Richest
<1> QED
  BY <1>1, <1>5, ScoreAssumption

\* Whatever the mode, PickNext returns an account of the vault.
LEMMA PickInVault ==
    ASSUME NEW added \in [Account -> Nat], NEW st \in StateFile, NEW mode \in Modes,
           NEW quota \in [Account -> Score], Eligible(added, st) # {}
    PROVE  Pick(added, st, mode, quota) \in Listed(added)
<1>1. CASE Healthy(added, st) = {}
  <2>1. Pick(added, st, mode, quota) = SoonestCool(added, st)
    BY <1>1 DEF Pick, StaysSticky, Scans
  <2> QED
    BY <2>1, SoonestChoice, EligibleFinite
<1>2. CASE StaysSticky(added, st, mode)
  <2> DEFINE E == Eligible(added, st)
             k == Index(added, E, st.active)
  <2>1. Pick(added, st, mode, quota) = At(added, Listed(added), k)
    BY <1>2 DEF Pick, StaysSticky, Scans, StickyChoice
  <2>2. k \in 0..(Cardinality(E) - 1)
    BY <1>2, IndexBound, EligibleFinite DEF StaysSticky
  <2>3. Cardinality(E) <= Cardinality(Listed(added)) /\ Cardinality(Listed(added)) \in Nat
    BY EligibleFinite, ListFinite, FS_Subset
  <2>4. k \in Nat /\ k < Cardinality(Listed(added))
    BY <2>2, <2>3, EligibleFinite
  <2> QED
    BY <2>1, <2>4, AtInList, EligibleFinite
<1>3. CASE Healthy(added, st) # {} /\ ~StaysSticky(added, st, mode) /\ mode # "smart"
  <2>1. Pick(added, st, mode, quota) = FirstFromCursor(added, st)
    BY <1>3 DEF Pick, Scans
  <2> QED
    BY <1>3, <2>1, CursorChoice, EligibleFinite
<1>4. CASE Healthy(added, st) # {} /\ mode = "smart"
  <2>1. Pick(added, st, mode, quota) = Richest(added, st, quota)
    BY <1>4 DEF Pick, Scans, StaysSticky
  <2> QED
    BY <1>4, <2>1, RichestChoice, EligibleFinite
<1> QED
  BY <1>1, <1>2, <1>3, <1>4

\* Outside sticky mode it returns an account that is not revoked, healthy if
\* one is, and otherwise the one whose cooldown ends first.
LEMMA PickPromised ==
    ASSUME NEW added \in [Account -> Nat], NEW st \in StateFile, NEW mode \in Modes,
           NEW quota \in [Account -> Score], Eligible(added, st) # {}, mode # "sticky"
    PROVE  LET p == Pick(added, st, mode, quota)
           IN  /\ p \in Eligible(added, st)
               /\ Healthy(added, st) # {} => p \in Healthy(added, st)
               /\ \A b \in Eligible(added, st) : st.cool[p] <= st.cool[b]
<1> DEFINE p == Pick(added, st, mode, quota)
<1>1. CASE Healthy(added, st) = {}
  <2>1. p = SoonestCool(added, st)
    BY <1>1 DEF Pick, StaysSticky, Scans
  <2> QED
    BY <1>1, <2>1, SoonestChoice
<1>2. CASE Healthy(added, st) # {}
  <2>1. p \in Healthy(added, st)
    <3>1. CASE mode = "smart"
      <4>1. p = Richest(added, st, quota)
        BY <1>2, <3>1 DEF Pick, Scans, StaysSticky
      <4> QED
        BY <1>2, <4>1, RichestChoice
    <3>2. CASE mode # "smart"
      <4>1. p = FirstFromCursor(added, st)
        BY <1>2, <3>2 DEF Pick, Scans, StaysSticky
      <4> QED
        BY <1>2, <4>1, CursorChoice
    <3> QED
      BY <3>1, <3>2
  <2>2. \A b \in Eligible(added, st) : st.cool[b] \in Nat
    BY EligibleFinite DEF StateFile
  <2>3. p \in Eligible(added, st) /\ st.cool[p] = 0
    BY <2>1 DEF Healthy
  <2> QED
    BY <2>1, <2>2, <2>3
<1> QED
  BY <1>1, <1>2

-----------------------------------------------------------------------------
(* Every operator that makes a state makes a well-formed one.              *)

\* A state file field by field, which is how the provers handle it.
LEMMA StateFields ==
    ASSUME NEW st \in StateFile
    PROVE  /\ st = [active |-> st.active, rr |-> st.rr, failures |-> st.failures,
                    cool |-> st.cool, revoked |-> st.revoked]
           /\ st.active \in Account \cup {NoAccount} /\ st.rr \in Nat
           /\ st.failures \in [Account -> 0..Rungs] /\ st.cool \in [Account -> Nat]
           /\ st.revoked \in [Account -> BOOLEAN]
BY DEF StateFile

\* Fields of the right types make a state file.
LEMMA StateMade ==
    ASSUME NEW active \in Account \cup {NoAccount}, NEW rr \in Nat,
           NEW failures \in [Account -> 0..Rungs], NEW cool \in [Account -> Nat],
           NEW revoked \in [Account -> BOOLEAN]
    PROVE  [active |-> active, rr |-> rr, failures |-> failures,
            cool |-> cool, revoked |-> revoked] \in StateFile
BY DEF StateFile

\* The state of a program that never ran is a state file.
LEMMA EmptyStateType == EmptyState \in StateFile
BY LadderAssumption DEF EmptyState, StateFile

\* Activation names the account and leaves revocations and cursor alone.
LEMMA ActivatedType ==
    ASSUME NEW st \in StateFile, NEW a \in Account
    PROVE  /\ Activated(st, a) \in StateFile
           /\ Activated(st, a).active = a
           /\ Activated(st, a).revoked = st.revoked
           /\ Activated(st, a).rr = st.rr
<1> DEFINE f == [b \in Account |-> IF b \in {a, st.active} THEN 0 ELSE st.failures[b]]
           c == [st.cool EXCEPT ![a] = 0]
<1>1. f \in [Account -> 0..Rungs] /\ c \in [Account -> Nat]
  BY StateFields, LadderAssumption
<1>2. Activated(st, a) = [active |-> a, rr |-> st.rr, failures |-> f, cool |-> c, revoked |-> st.revoked]
  <2> HIDE DEF f, c
  <2>1. Activated(st, a) = [st EXCEPT !.active = a, !.cool = c, !.failures = f]
    BY DEF Activated, f, c
  <2> QED
    BY <2>1, StateFields
<1> HIDE DEF f, c
<1> QED
  BY <1>1, <1>2, StateMade, StateFields

\* Activation leaves the cooldowns of the others alone.
LEMMA ActivatedCool ==
    ASSUME NEW st \in StateFile, NEW a \in Account, NEW b \in Account, b # a
    PROVE  Activated(st, a).cool[b] = st.cool[b]
BY StateFields DEF Activated

\* The scan moves the cursor and changes nothing else.
LEMMA BumpedType ==
    ASSUME NEW added \in [Account -> Nat], NEW st \in StateFile, NEW mode
    PROVE  /\ Bumped(added, st, mode) \in StateFile
           /\ Bumped(added, st, mode).active = st.active
           /\ Bumped(added, st, mode).revoked = st.revoked
           /\ Bumped(added, st, mode).cool = st.cool
           /\ ~Scans(added, st, mode) => Bumped(added, st, mode) = st
<1>1. CASE ~Scans(added, st, mode)
  BY <1>1 DEF Bumped
<1>2. CASE Scans(added, st, mode)
  <2> DEFINE E == Eligible(added, st)
             n == Cardinality(E)
             i == Index(added, E, FirstFromCursor(added, st))
  <2>1. FirstFromCursor(added, st) \in E /\ E \subseteq Account
    BY <1>2, CursorChoice, EligibleFinite DEF Scans
  <2>2. n \in Nat \ {0} /\ i \in Nat
    BY <2>1, EligibleFinite, IndexBound
  <2>3. (i + 1) % n \in Nat
    <3> HIDE DEF n, i
    <3> QED
      BY <2>2
  <2>4. Bumped(added, st, mode) = [st EXCEPT !.rr = (i + 1) % n]
    BY <1>2 DEF Bumped
  <2> HIDE DEF n, i
  <2> QED
    BY <1>2, <2>3, <2>4 DEF StateFile
<1> QED
  BY <1>1, <1>2

\* A report puts its account into cooldown or revokes it, and touches no other.
LEMMA FailedType ==
    ASSUME NEW st \in StateFile, NEW a \in Account, NEW reason \in Reasons,
           NEW t \in Failed(st, a, reason)
    PROVE  /\ t \in StateFile
           /\ t.active = st.active
           /\ t.rr = st.rr
           /\ \A b \in Account : st.revoked[b] => t.revoked[b]
           /\ \A b \in Account \ {a} : t.revoked[b] = st.revoked[b] /\ t.cool[b] = st.cool[b]
           /\ t.revoked[a] \/ t.cool[a] > 0
<1>0. st = [active |-> st.active, rr |-> st.rr, failures |-> st.failures,
            cool |-> st.cool, revoked |-> st.revoked]
  BY StateFields
<1>1. Struck(st, a) \in 1..Rungs
  BY LadderAssumption DEF Struck, StateFile
<1> DEFINE f == [st.failures EXCEPT ![a] = Struck(st, a)]
<1>2. f \in [Account -> 0..Rungs]
  BY <1>1, StateFields
<1>3. CASE reason = "revoked"
  <2> DEFINE v == [st.revoked EXCEPT ![a] = TRUE]
  <2>1. v \in [Account -> BOOLEAN] /\ v[a] /\ \A b \in Account \ {a} : v[b] = st.revoked[b]
    BY StateFields
  <2>2. t = [active |-> st.active, rr |-> st.rr, failures |-> f, cool |-> st.cool, revoked |-> v]
    <3>1. t = [st EXCEPT !.failures = f, !.revoked = v]
      BY <1>3 DEF Failed
    <3> HIDE DEF f, v
    <3> QED
      BY <1>0, <3>1
  <2> HIDE DEF f, v
  <2>3. t \in StateFile
    BY <1>2, <2>1, <2>2, StateMade, StateFields
  <2> QED
    BY <2>1, <2>2, <2>3
<1>4. CASE reason # "revoked"
  <2>1. PICK d \in Backoffs(reason, Struck(st, a)) :
            t = [[st EXCEPT !.failures[a] = Struck(st, a)] EXCEPT !.cool[a] = d]
    BY <1>4 DEF Failed
  <2>2. d \in Nat /\ d > 0
    BY <1>1, LadderAssumption, CoolAssumption DEF Backoffs
  <2> DEFINE c == [st.cool EXCEPT ![a] = d]
  <2>3. c \in [Account -> Nat] /\ c[a] > 0 /\ \A b \in Account \ {a} : c[b] = st.cool[b]
    BY <2>2, StateFields
  <2>4. t = [active |-> st.active, rr |-> st.rr, failures |-> f, cool |-> c, revoked |-> st.revoked]
    <3>1. t = [st EXCEPT !.failures = f, !.cool = c]
      BY <2>1
    <3> HIDE DEF f, c
    <3> QED
      BY <1>0, <3>1
  <2> HIDE DEF f, c
  <2>5. t \in StateFile
    BY <1>2, <2>3, <2>4, StateMade, StateFields
  <2> QED
    BY <2>3, <2>4, <2>5
<1> QED
  BY <1>3, <1>4

\* Clearing entries keeps the rest of the state.
LEMMA ClearedType ==
    ASSUME NEW st \in StateFile, NEW S
    PROVE  /\ Cleared(st, S) \in StateFile
           /\ Cleared(st, S).active = st.active
           /\ Cleared(st, S).rr = st.rr
           /\ Cleared(st, S).revoked = [a \in Account |-> a \notin S /\ st.revoked[a]]
<1> DEFINE f == [a \in Account |-> IF a \in S THEN 0 ELSE st.failures[a]]
           c == [a \in Account |-> IF a \in S THEN 0 ELSE st.cool[a]]
           v == [a \in Account |-> a \notin S /\ st.revoked[a]]
<1>a. /\ st.active \in Account \cup {NoAccount} /\ st.rr \in Nat
      /\ st.failures \in [Account -> 0..Rungs] /\ st.revoked \in [Account -> BOOLEAN]
  BY StateFields
<1>1. f \in [Account -> 0..Rungs] /\ c \in [Account -> Nat]
  BY StateFields, LadderAssumption
<1>2. v \in [Account -> BOOLEAN]
  BY StateFields
<1>3. Cleared(st, S) = [active |-> st.active, rr |-> st.rr, failures |-> f, cool |-> c, revoked |-> v]
  <2>1. Cleared(st, S) = [st EXCEPT !.failures = f, !.cool = c, !.revoked = v]
    BY DEF Cleared
  <2> HIDE DEF f, c, v
  <2> QED
    BY <2>1, StateFields
<1>4. Cleared(st, S) \in StateFile
  <2> HIDE DEF f, c, v
  <2>1. [active |-> st.active, rr |-> st.rr, failures |-> f, cool |-> c, revoked |-> v] \in StateFile
    BY <1>a, <1>1, <1>2 DEF StateFile
  <2> QED
    BY <1>3, <2>1
<1> QED
  BY <1>3, <1>4

\* Forgetting accounts empties active_email when it names one of them.
LEMMA ForgottenType ==
    ASSUME NEW st \in StateFile, NEW S
    PROVE  /\ Forgotten(st, S) \in StateFile
           /\ Forgotten(st, S).active = IF st.active \in S THEN NoAccount ELSE st.active
           /\ Forgotten(st, S).rr = st.rr
           /\ Forgotten(st, S).revoked = [a \in Account |-> a \notin S /\ st.revoked[a]]
<1> DEFINE t == Cleared(st, S)
           e == IF st.active \in S THEN NoAccount ELSE st.active
<1>1. e \in Account \cup {NoAccount}
  BY StateFields
<1>2. t \in StateFile /\ t.rr = st.rr /\ t.revoked = [a \in Account |-> a \notin S /\ st.revoked[a]]
  BY ClearedType
<1>3. Forgotten(st, S) = [active |-> e, rr |-> t.rr, failures |-> t.failures, cool |-> t.cool, revoked |-> t.revoked]
  <2>1. Forgotten(st, S) = [t EXCEPT !.active = e]
    BY DEF Forgotten
  <2> HIDE DEF t, e
  <2> QED
    BY <1>2, <2>1, StateFields
<1>4. Forgotten(st, S) \in StateFile
  <2> HIDE DEF t, e
  <2>1. /\ t.rr \in Nat /\ t.failures \in [Account -> 0..Rungs]
        /\ t.cool \in [Account -> Nat] /\ t.revoked \in [Account -> BOOLEAN]
    BY <1>2, StateFields
  <2> QED
    BY <1>1, <1>3, <2>1, StateMade
<1> QED
  BY <1>2, <1>3, <1>4

\* Time moves deadlines only.
LEMMA AgedType ==
    ASSUME NEW st \in StateFile
    PROVE  /\ Aged(st) \in StateFile
           /\ Aged(st).active = st.active
           /\ Aged(st).revoked = st.revoked
           /\ Aged(st).rr = st.rr
<1> DEFINE c == [a \in Account |-> IF st.cool[a] > 0 THEN st.cool[a] - 1 ELSE 0]
<1>a. /\ st.active \in Account \cup {NoAccount} /\ st.rr \in Nat
      /\ st.failures \in [Account -> 0..Rungs] /\ st.revoked \in [Account -> BOOLEAN]
  BY StateFields
<1>1. c \in [Account -> Nat]
  BY StateFields
<1>2. Aged(st) = [active |-> st.active, rr |-> st.rr, failures |-> st.failures, cool |-> c, revoked |-> st.revoked]
  <2>1. Aged(st) = [st EXCEPT !.cool = c]
    BY DEF Aged
  <2> HIDE DEF c
  <2> QED
    BY <2>1, StateFields
<1>3. Aged(st) \in StateFile
  <2> HIDE DEF c
  <2> QED
    BY <1>a, <1>1, <1>2, StateMade
<1> QED
  BY <1>2, <1>3
=============================================================================
