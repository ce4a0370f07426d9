------------------------------ MODULE NumberLemmas ------------------------------
(***************************************************************************)
(* Facts about the numbers the models name things with.                    *)
(***************************************************************************)
EXTENDS FiniteSetsExt, WellFoundedInduction, FiniteSetTheorems, TLAPS

\* Min picks the least element of a set of numbers: the machine whose UID sorts
\* first, the value a generation takes.
LEMMA MinOfNaturals ==
  ASSUME NEW S, S \subseteq Nat, S # {}
  PROVE  Min(S) \in S /\ \A y \in S : Min(S) <= y
<1> DEFINE R == OpToRel(<, Nat)
<1>1. IsWellFoundedOn(R, Nat)
  BY NatLessThanWellFounded
<1>2. R = {ss \in Nat \X Nat : ss[1] < ss[2]}
  BY Zenon DEF OpToRel
<1> HIDE DEF R
<1>3. PICK x \in S : \A y \in S : ~(<<y, x>> \in R)
  BY <1>1, WFMin
<1>4. \A a, b \in Nat : a < b => <<a, b>> \in R
  BY <1>2
<1>5. \A a, b \in Nat : ~(a < b) => b <= a
  OBVIOUS
<1>6. \A y \in S : x <= y
  BY <1>3, <1>4, <1>5
<1>7. QED
  BY <1>6 DEF Min

\* Among n + 1 consecutive numbers one is not in a set of n, so a generation that
\* takes the least unused number always finds one.
LEMMA UnusedNumber ==
  ASSUME NEW used, IsFiniteSet(used)
  PROVE  LET n == Min((1..Cardinality(used) + 1) \ used)
         IN  n \in Nat \ {0} /\ n \notin used
<1> DEFINE I == 1..Cardinality(used) + 1
<1>1. Cardinality(used) \in Nat
  BY FS_CardinalityType
<1>2. IsFiniteSet(I) /\ Cardinality(I) = Cardinality(used) + 1
  BY <1>1, FS_Interval
<1>3. I \subseteq Nat \ {0}
  BY <1>1
<1> HIDE DEF I
<1>4. I \ used # {}
  <2>1. SUFFICES ASSUME I \subseteq used PROVE FALSE
    OBVIOUS
  <2>2. Cardinality(I) <= Cardinality(used)
    BY <2>1, FS_Subset
  <2>3. QED
    BY <1>1, <1>2, <2>2
<1>5. Min(I \ used) \in I \ used
  BY <1>3, <1>4, MinOfNaturals
<1>6. QED
  BY <1>3, <1>5 DEF I

\* The values of a function over a finite set are finite.
LEMMA FiniteRange ==
  ASSUME NEW S, IsFiniteSet(S), NEW f, f = [x \in S |-> f[x]]
  PROVE  IsFiniteSet({f[x] : x \in S})
<1> DEFINE T == {f[x] : x \in S}
<1>1. f \in Surjection(S, T)
  BY DEF Surjection
<1>2. QED
  BY <1>1, FS_Surjection

\* A few values make a finite set.
LEMMA FewValues ==
  ASSUME NEW x, NEW y, NEW z
  PROVE  IsFiniteSet({x, y}) /\ IsFiniteSet({x, y, z})
<1>1. IsFiniteSet({x})
  BY FS_Singleton
<1>2. IsFiniteSet({x} \cup {y})
  BY <1>1, FS_AddElement
<1>3. {x} \cup {y} = {x, y}
  OBVIOUS
<1>4. IsFiniteSet({x, y})
  BY <1>2, <1>3
<1>5. IsFiniteSet({x, y} \cup {z})
  BY <1>4, FS_AddElement
<1>6. {x, y} \cup {z} = {x, y, z}
  OBVIOUS
<1>7. QED
  BY <1>4, <1>5, <1>6
=============================================================================
