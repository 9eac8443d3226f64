-------------------------- MODULE AccessOrderProofs --------------------------
(***************************************************************************)
(* What the tables of the link layer and of the DODAG need of their access  *)
(* orders: removals and accesses keep them total, and a finite table has a  *)
(* least recently accessed member.                                          *)
(***************************************************************************)
EXTENDS AccessOrder, Integers, FiniteSetTheorems, FunctionTheorems, TLAPS

\* R orders the members ms strictly and totally.
TotalOn(R, ms) ==
    /\ R \subseteq ms \X ms
    /\ \A a \in ms : <<a, a>> \notin R
    /\ \A a, b \in ms : a # b => (<<a, b>> \in R \/ <<b, a>> \in R)
    /\ \A a, b, c \in ms : (<<a, b>> \in R /\ <<b, c>> \in R) => <<a, c>> \in R

\* Which pairs an access leaves.
LEMMA TouchPairs ==
    ASSUME NEW R, NEW ms, NEW x, R \subseteq ms \X ms
    PROVE  /\ Touch(R, ms, x) \subseteq (ms \cup {x}) \X (ms \cup {x})
           /\ \A a, b : <<a, b>> \in Touch(R, ms, x) <=>
                        \/ <<a, b>> \in R /\ a # x /\ b # x
                        \/ a \in ms /\ a # x /\ b = x
BY DEF Touch, Without

\* An access keeps the order total and may add a member.
LEMMA TouchTotal ==
    ASSUME NEW R, NEW ms, NEW x, TotalOn(R, ms)
    PROVE  TotalOn(Touch(R, ms, x), ms \cup {x})
<1> DEFINE T == Touch(R, ms, x)
<1>1. /\ T \subseteq (ms \cup {x}) \X (ms \cup {x})
      /\ \A a, b : <<a, b>> \in T <=>
                   \/ <<a, b>> \in R /\ a # x /\ b # x
                   \/ a \in ms /\ a # x /\ b = x
    BY TouchPairs DEF TotalOn
<1> HIDE DEF T
<1>2. \A a \in ms \cup {x} : <<a, a>> \notin T
    BY <1>1 DEF TotalOn
<1>3. \A a, b \in ms \cup {x} : a # b => (<<a, b>> \in T \/ <<b, a>> \in T)
    BY <1>1 DEF TotalOn
<1>4. \A a, b, c \in ms \cup {x} : (<<a, b>> \in T /\ <<b, c>> \in T) => <<a, c>> \in T
    BY <1>1 DEF TotalOn
<1> QED
    BY <1>1, <1>2, <1>3, <1>4 DEF TotalOn, T

\* Members that leave take their pairs with them.
LEMMA WithoutTotal ==
    ASSUME NEW R, NEW ms, NEW gone, TotalOn(R, ms)
    PROVE  TotalOn(Without(R, gone), ms \ gone)
<1>1. \A a, b : <<a, b>> \in Without(R, gone) <=> <<a, b>> \in R /\ a \notin gone /\ b \notin gone
    BY DEF Without
<1>2. Without(R, gone) \subseteq (ms \ gone) \X (ms \ gone)
    BY DEF Without, TotalOn
<1> QED
    BY <1>1, <1>2 DEF TotalOn

\* Every set of natural numbers with a member has a least one.
LEMMA LeastNat ==
    ASSUME NEW T \in SUBSET Nat, T # {}
    PROVE  \E x \in T : \A y \in T : x <= y
<1> DEFINE R == {p \in Nat \X Nat : p[1] < p[2]}
<1>1. R = OpToRel(<, Nat)
    BY DEF OpToRel
<1>2. IsWellFoundedOn(R, Nat)
    BY <1>1, NatLessThanWellFounded
<1>3. PICK x \in T : \A y \in T : <<y, x>> \notin R
    BY <1>2, WFMin
<1>4. \A y \in T : x \in Nat /\ y \in Nat /\ ~ (y < x)
    BY <1>3
<1>5. \A y \in T : x <= y
    BY <1>4
<1> QED
    BY <1>5

\* A finite table with a member has a least recently accessed one: the member
\* that the fewest others come before.
LEMMA FirstExists ==
    ASSUME NEW R, NEW ms, TotalOn(R, ms), IsFiniteSet(ms), ms # {}
    PROVE  First(R, ms) # {}
<1> DEFINE earlier(x) == {y \in ms : <<y, x>> \in R}
           f == [x \in ms |-> Cardinality(earlier(x))]
           T == {f[x] : x \in ms}
<1>1. ASSUME NEW x \in ms
      PROVE  IsFiniteSet(earlier(x)) /\ Cardinality(earlier(x)) \in Nat
    <2>1. earlier(x) \in SUBSET ms
        OBVIOUS
    <2>2. IsFiniteSet(earlier(x))
        BY <2>1, FS_Subset
    <2> QED
        BY <2>2, FS_CardinalityType
<1>2. T \in SUBSET Nat /\ T # {}
    BY <1>1
<1>3. PICK least \in T : \A n \in T : least <= n
    BY <1>2, LeastNat
<1>4. PICK x \in ms : f[x] = least
    BY <1>3
<1>5. \A y \in ms : Cardinality(earlier(x)) <= Cardinality(earlier(y))
    BY <1>3, <1>4
<1>6. ASSUME NEW y \in ms \ {x}
      PROVE  <<x, y>> \in R
    <2> SUFFICES ASSUME <<y, x>> \in R
                 PROVE  FALSE
        BY DEF TotalOn
    <2>1. earlier(y) \in SUBSET earlier(x)
        BY DEF TotalOn
    <2>2. y \in earlier(x) /\ y \notin earlier(y)
        BY DEF TotalOn
    <2>3. /\ IsFiniteSet(earlier(x))
          /\ Cardinality(earlier(x)) \in Nat /\ Cardinality(earlier(y)) \in Nat
        BY <1>1
    <2>4. Cardinality(earlier(x)) <= Cardinality(earlier(y))
        BY <1>5
    <2> HIDE DEF earlier
    <2>5. /\ Cardinality(earlier(y)) <= Cardinality(earlier(x))
          /\ Cardinality(earlier(x)) = Cardinality(earlier(y)) => earlier(x) = earlier(y)
        BY <2>1, <2>3, FS_Subset
    <2> QED
        BY <2>2, <2>3, <2>4, <2>5
<1> QED
    BY <1>6 DEF First
=============================================================================
