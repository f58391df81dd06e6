----------------------------- MODULE FiniteSums -----------------------------
(***************************************************************************)
(* Lemmas about the sums that the models take with MapThenSumSet of the    *)
(* community modules: pieces over line items, quantities over receipts.    *)
(*                                                                         *)
(* MapThenSumSet is a recursive function on the subsets of the set it sums *)
(* up, so what it computes is shown by induction.  The induction theorems  *)
(* of the library take the property as an operator, which no backend can   *)
(* instantiate; here each induction looks at a smallest set that refutes   *)
(* the property (lemma Smallest), which is first-order.                    *)
(***************************************************************************)
EXTENDS FiniteSetsExt, FiniteSetTheorems, TLAPS

\* The sum over S of the values of the function f.
Total(f, S) == MapThenSumSet(LAMBDA x : f[x], S)

\* The element the recursion takes from s, and the equation of its function.
Picked(s) == CHOOSE x \in s : TRUE

Summing(h, f, S) ==
    h = [s \in SUBSET S |->
            IF s = {} THEN 0 ELSE f[Picked(s)] + h[s \ {Picked(s)}]]

\* f is a number at each element of S.
IntOn(f, S) == \A x \in S : f[x] \in Int
NatOn(f, S) == \A x \in S : f[x] \in Nat

----------------------------------------------------------------------------

\* A family of subsets of a finite set has a smallest member.
LEMMA Smallest ==
    ASSUME NEW S, IsFiniteSet(S), NEW T \in SUBSET SUBSET S, T # {}
    PROVE  \E s \in T : \A t \in T : t \subseteq s => t = s
<1>1. IsWellFoundedOn(StrictSubsetOrdering(S), SUBSET S)
    BY FS_StrictSubsetOrderingWellFounded, FS_FiniteSubsetsOfFinite
<1>2. PICK s \in T : \A t \in T : <<t, s>> \notin StrictSubsetOrdering(S)
    BY <1>1, WFMin
<1>3. QED
    BY <1>2 DEF StrictSubsetOrdering

\* The functions that sum up f agree wherever both are defined.
LEMMA SummingAgrees ==
    ASSUME NEW S, IsFiniteSet(S), NEW R \in SUBSET S, NEW f, NEW g, NEW h,
           Summing(g, f, S), Summing(h, f, R)
    PROVE  \A s \in SUBSET R : g[s] = h[s]
<1> DEFINE T == {s \in SUBSET R : g[s] # h[s]}
<1> SUFFICES ASSUME T # {} PROVE FALSE
    OBVIOUS
<1>1. PICK s \in T : \A t \in T : t \subseteq s => t = s
  <2>1. T \in SUBSET SUBSET S
      OBVIOUS
  <2> HIDE DEF T
  <2> QED BY <2>1, Smallest
<1>2. CASE s = {}
    BY <1>2, <1>1 DEF Summing
<1>3. CASE s # {}
  <2>1. Picked(s) \in s
      BY <1>3 DEF Picked
  <2>2. g[s \ {Picked(s)}] = h[s \ {Picked(s)}]
      BY <1>1, <2>1
  <2>3. /\ g[s] = f[Picked(s)] + g[s \ {Picked(s)}]
        /\ h[s] = f[Picked(s)] + h[s \ {Picked(s)}]
      BY <1>3 DEF Summing
  <2> QED BY <2>2, <2>3
<1>4. QED BY <1>2, <1>3

\* The recursive equation has a solution on every finite set.
LEMMA SummingExists ==
    ASSUME NEW S, IsFiniteSet(S), NEW f
    PROVE  \E h : Summing(h, f, S)
<1> DEFINE T == {s \in SUBSET S : ~ \E h : Summing(h, f, s)}
<1> SUFFICES ASSUME T # {} PROVE FALSE
    OBVIOUS
<1>1. PICK s \in T : \A t \in T : t \subseteq s => t = s
  <2>1. T \in SUBSET SUBSET S
      OBVIOUS
  <2> HIDE DEF T
  <2> QED BY <2>1, Smallest
<1>2. IsFiniteSet(s)
    BY FS_Subset
<1> DEFINE H(t) == CHOOSE h : Summing(h, f, t)
           rest(t) == t \ {Picked(t)}
           g == [t \in SUBSET s |->
                    IF t = {} THEN 0 ELSE f[Picked(t)] + H(rest(t))[rest(t)]]
<1>3. ASSUME NEW t \in SUBSET s, t # s PROVE Summing(H(t), f, t)
    BY <1>1, <1>3, \E h : Summing(h, f, t)
<1>4. ASSUME NEW t \in SUBSET s, t # {}
      PROVE  rest(t) \in SUBSET s /\ rest(t) # s /\ rest(t) \in SUBSET t
    BY <1>4 DEF Picked
<1>5. ASSUME NEW t \in SUBSET s, t # s PROVE g[t] = H(t)[t]
  <2>1. CASE t = {}
    <3>1. Summing(H(t), f, t)
        BY <1>3, <1>5
    <3> HIDE DEF H, rest
    <3> QED BY <2>1, <3>1 DEF Summing
  <2>2. CASE t # {}
    <3>1. Summing(H(t), f, t)
        BY <1>3, <1>5
    <3>2. H(t)[t] = f[Picked(t)] + H(t)[rest(t)]
        BY <3>1, <2>2 DEF Summing
    <3>3. Summing(H(rest(t)), f, rest(t))
        BY <1>3, <1>4, <2>2
    <3>4. H(t)[rest(t)] = H(rest(t))[rest(t)]
      <4> HIDE DEF H, rest
      <4>1. IsFiniteSet(t)
          BY <1>2, FS_Subset
      <4>2. rest(t) \in SUBSET t
          BY <1>4, <2>2
      <4> QED BY <3>1, <3>3, <4>1, <4>2, SummingAgrees
    <3>5. g[t] = f[Picked(t)] + H(rest(t))[rest(t)]
        BY <2>2
    <3> HIDE DEF H, rest, g
    <3> QED BY <3>2, <3>4, <3>5
  <2> QED BY <2>1, <2>2
<1>6. Summing(g, f, s)
  <2>1. ASSUME NEW t \in SUBSET s
        PROVE  (IF t = {} THEN 0 ELSE f[Picked(t)] + H(rest(t))[rest(t)])
                 = (IF t = {} THEN 0 ELSE f[Picked(t)] + g[rest(t)])
    <3>1. CASE t = {}
        BY <3>1
    <3>2. CASE t # {}
        <4>1. g[rest(t)] = H(rest(t))[rest(t)]
            BY <3>2, <1>4, <1>5
        <4> HIDE DEF H, rest, g
        <4> QED BY <4>1
    <3> QED BY <3>1, <3>2
  <2> DEFINE k == [t \in SUBSET s |-> IF t = {} THEN 0 ELSE f[Picked(t)] + g[rest(t)]]
  <2>2. g = k
      <3> HIDE DEF H, rest
      <3> QED BY <2>1, Zenon
  <2> QED BY <2>2 DEF Summing
<1>7. QED BY <1>1, <1>6

\* Total is the value at S of any function that sums up f on S or more.
LEMMA TotalIs ==
    ASSUME NEW S, IsFiniteSet(S), NEW f, NEW h, Summing(h, f, S)
    PROVE  \A R \in SUBSET S : Total(f, R) = h[R]
<1> TAKE R \in SUBSET S
<1> DEFINE k == CHOOSE g : Summing(g, f, R)
<1>1. IsFiniteSet(R)
    BY FS_Subset
<1>2. Summing(k, f, R)
  <2>1. \E g : Summing(g, f, R)
      BY <1>1, SummingExists
  <2> QED BY <2>1
<1>3. k[R] = h[R]
  <2> HIDE DEF k
  <2> QED BY <1>2, SummingAgrees
<1>4. Total(f, R) = k[R]
    BY DEF Total, MapThenSumSet, MapThenFoldSet, Summing, Picked
<1> QED BY <1>3, <1>4

----------------------------------------------------------------------------

\* Any element may be taken first, and a sum of integers is an integer.
LEMMA TotalSplit ==
    ASSUME NEW S, IsFiniteSet(S), NEW f, IntOn(f, S)
    PROVE  /\ Total(f, {}) = 0
           /\ Total(f, S) \in Int
           /\ \A x \in S : /\ Total(f, S) = f[x] + Total(f, S \ {x})
                           /\ Total(f, S \ {x}) \in Int
<1>1. PICK h : Summing(h, f, S)
    BY SummingExists
<1>2. ASSUME NEW s \in SUBSET S, s # {}
      PROVE  /\ Picked(s) \in s
             /\ s \ {Picked(s)} \in SUBSET S
             /\ h[s] = f[Picked(s)] + h[s \ {Picked(s)}]
    BY <1>1, <1>2 DEF Summing, Picked
<1>3. h[{}] = 0
    BY <1>1 DEF Summing
<1>4. \A s \in SUBSET S : h[s] \in Int
  <2> DEFINE T == {s \in SUBSET S : h[s] \notin Int}
  <2> SUFFICES ASSUME T # {} PROVE FALSE
      OBVIOUS
  <2>1. PICK s \in T : \A t \in T : t \subseteq s => t = s
    <3>1. T \in SUBSET SUBSET S
        OBVIOUS
    <3> HIDE DEF T
    <3> QED BY <3>1, Smallest
  <2>2. /\ s \in SUBSET S /\ h[s] \notin Int
        /\ \A t \in SUBSET s : t # s => h[t] \in Int
      BY <2>1, Zenon
  <2> HIDE DEF T
  <2>3. s # {}
      BY <1>3, <2>2, 0 \in Int, Zenon
  <2>4. h[s \ {Picked(s)}] \in Int
      BY <1>2, <2>2, <2>3
  <2>5. f[Picked(s)] \in Int
      BY <1>2, <2>2, <2>3 DEF IntOn
  <2>6. f[Picked(s)] + h[s \ {Picked(s)}] \in Int
      BY <2>4, <2>5
  <2> QED BY <1>2, <2>2, <2>3, <2>6, Zenon
<1>5. \A s \in SUBSET S : \A x \in s : h[s] = f[x] + h[s \ {x}]
  <2> DEFINE T == {s \in SUBSET S : \E x \in s : h[s] # f[x] + h[s \ {x}]}
  <2> SUFFICES ASSUME T # {} PROVE FALSE
      OBVIOUS
  <2>1. PICK s \in T : \A t \in T : t \subseteq s => t = s
    <3>1. T \in SUBSET SUBSET S
        OBVIOUS
    <3> HIDE DEF T
    <3> QED BY <3>1, Smallest
  <2>2. PICK x \in s : h[s] # f[x] + h[s \ {x}]
      BY <2>1
  <2> DEFINE y == Picked(s)
  <2>3. /\ y \in s
        /\ h[s] = f[y] + h[s \ {y}]
      BY <1>2, <2>2
  <2>4. x # y
      BY <2>2, <2>3
  <2>5. h[s \ {y}] = f[x] + h[(s \ {y}) \ {x}]
      BY <2>1, <2>3, <2>4
  <2>6. h[s \ {x}] = f[y] + h[(s \ {x}) \ {y}]
      BY <2>1, <2>3, <2>4
  <2>7. (s \ {y}) \ {x} = (s \ {x}) \ {y}
      OBVIOUS
  <2>8. f[x] \in Int /\ f[y] \in Int /\ h[(s \ {x}) \ {y}] \in Int
      BY <1>4, <2>3 DEF IntOn
  <2> HIDE DEF y, T
  <2>9. f[y] + (f[x] + h[(s \ {x}) \ {y}]) = f[x] + (f[y] + h[(s \ {x}) \ {y}])
      BY <2>8
  <2> QED BY <2>2, <2>3, <2>5, <2>6, <2>7, <2>9, Zenon
<1>6. \A R \in SUBSET S : Total(f, R) = h[R]
    BY <1>1, TotalIs
<1> QED BY <1>3, <1>4, <1>5, <1>6

\* Functions that agree on S have the same sum.
LEMMA TotalSame ==
    ASSUME NEW S, IsFiniteSet(S), NEW f, NEW g, \A x \in S : f[x] = g[x]
    PROVE  Total(f, S) = Total(g, S)
<1>1. PICK h : Summing(h, f, S)
    BY SummingExists
<1>2. Summing(h, g, S)
  <2>1. ASSUME NEW s \in SUBSET S
        PROVE  (IF s = {} THEN 0 ELSE f[Picked(s)] + h[s \ {Picked(s)}])
                 = (IF s = {} THEN 0 ELSE g[Picked(s)] + h[s \ {Picked(s)}])
    <3>1. s # {} => f[Picked(s)] = g[Picked(s)]
        BY DEF Picked
    <3> QED BY <3>1
  <2> QED BY <1>1, <2>1, Zenon DEF Summing
<1> QED BY <1>1, <1>2, TotalIs

\* A sum of natural numbers is one, and no less than any of them.
LEMMA TotalNat ==
    ASSUME NEW S, IsFiniteSet(S), NEW f, NatOn(f, S)
    PROVE  /\ Total(f, S) \in Nat
           /\ \A x \in S : f[x] <= Total(f, S)
<1>1. ASSUME NEW s \in SUBSET S
      PROVE  IsFiniteSet(s) /\ IntOn(f, s)
    BY FS_Subset DEF NatOn, IntOn
<1>2. \A s \in SUBSET S : Total(f, s) \in Nat
  <2> DEFINE T == {s \in SUBSET S : Total(f, s) \notin Nat}
  <2> SUFFICES ASSUME T # {} PROVE FALSE
      OBVIOUS
  <2>1. PICK s \in T : \A t \in T : t \subseteq s => t = s
    <3>1. T \in SUBSET SUBSET S
        OBVIOUS
    <3> HIDE DEF T
    <3> QED BY <3>1, Smallest
  <2>2. /\ s \in SUBSET S /\ Total(f, s) \notin Nat
        /\ \A t \in SUBSET s : t # s => Total(f, t) \in Nat
      BY <2>1, Zenon
  <2> HIDE DEF T
  <2>3. s # {}
    <3>1. Total(f, {}) = 0
        BY <1>1, <2>2, TotalSplit
    <3> QED BY <2>2, <3>1, 0 \in Nat, Zenon
  <2>4. PICK x \in s : TRUE
      BY <2>3
  <2>5. Total(f, s \ {x}) \in Nat
      BY <2>2, <2>4
  <2>6. Total(f, s) = f[x] + Total(f, s \ {x})
      BY <1>1, <2>2, <2>4, TotalSplit
  <2>7. f[x] \in Nat
      BY <2>2, <2>4 DEF NatOn
  <2> QED BY <2>2, <2>5, <2>6, <2>7
<1>3. ASSUME NEW x \in S PROVE f[x] <= Total(f, S)
  <2>1. Total(f, S) = f[x] + Total(f, S \ {x})
      BY <1>1, TotalSplit
  <2>2. Total(f, S \ {x}) \in Nat /\ f[x] \in Nat
      BY <1>2 DEF NatOn
  <2> QED BY <2>1, <2>2
<1> QED BY <1>2, <1>3

\* A sum of zeros is zero.
LEMMA TotalZero ==
    ASSUME NEW S, IsFiniteSet(S), NEW f, \A x \in S : f[x] = 0
    PROVE  Total(f, S) = 0
<1>1. IntOn(f, S)
    BY DEF IntOn
<1>2. ASSUME NEW s \in SUBSET S PROVE IsFiniteSet(s) /\ IntOn(f, s)
    BY <1>1, FS_Subset DEF IntOn
<1> DEFINE T == {s \in SUBSET S : Total(f, s) # 0}
<1>3. T = {}
  <2> SUFFICES ASSUME T # {} PROVE FALSE
      OBVIOUS
  <2>1. PICK s \in T : \A t \in T : t \subseteq s => t = s
    <3>1. T \in SUBSET SUBSET S
        OBVIOUS
    <3> HIDE DEF T
    <3> QED BY <3>1, Smallest
  <2>2. /\ s \in SUBSET S /\ Total(f, s) # 0
        /\ \A t \in SUBSET s : t # s => Total(f, t) = 0
      BY <2>1, Zenon
  <2> HIDE DEF T
  <2>3. s # {}
      BY <1>2, <2>2, TotalSplit
  <2>4. PICK x \in s : TRUE
      BY <2>3
  <2>5. Total(f, s \ {x}) = 0
      BY <2>2, <2>4
  <2>6. Total(f, s) = f[x] + Total(f, s \ {x})
      BY <1>2, <2>2, <2>4, TotalSplit
  <2> QED BY <2>2, <2>4, <2>5, <2>6
<1> QED BY <1>3

\* One value changes.
LEMMA TotalChange ==
    ASSUME NEW S, IsFiniteSet(S), NEW f, NEW g, IntOn(f, S), IntOn(g, S),
           NEW x \in S, \A y \in S : y # x => g[y] = f[y]
    PROVE  Total(g, S) = Total(f, S) - f[x] + g[x]
<1>1. Total(f, S) = f[x] + Total(f, S \ {x}) /\ Total(f, S \ {x}) \in Int
    BY TotalSplit
<1>2. Total(g, S) = g[x] + Total(g, S \ {x})
    BY TotalSplit
<1>3. Total(g, S \ {x}) = Total(f, S \ {x})
    BY TotalSame, FS_Subset, S \ {x} \in SUBSET S
<1>4. f[x] \in Int /\ g[x] \in Int
    BY DEF IntOn
<1> QED BY <1>1, <1>2, <1>3, <1>4

\* One element is added.
LEMMA TotalAdd ==
    ASSUME NEW S, IsFiniteSet(S), NEW x, x \notin S, NEW f, IntOn(f, S \cup {x})
    PROVE  Total(f, S \cup {x}) = Total(f, S) + f[x]
<1>1. IsFiniteSet(S \cup {x})
    BY FS_AddElement
<1>2. (S \cup {x}) \ {x} = S
    OBVIOUS
<1>3. /\ Total(f, S \cup {x}) = f[x] + Total(f, S)
      /\ Total(f, S) \in Int
    BY <1>1, <1>2, TotalSplit
<1>4. f[x] \in Int
    BY DEF IntOn
<1> QED BY <1>3, <1>4

\* A set in which x is if `member` says so, and not otherwise.
With(S, x, member) == IF member THEN S \cup {x} ELSE S \ {x}

\* The total moves by what joins or leaves.
LEMMA TotalWith ==
    ASSUME NEW S, IsFiniteSet(S), NEW x, NEW f, IntOn(f, S \cup {x}), NEW member \in BOOLEAN
    PROVE  Total(f, With(S, x, member)) =
               Total(f, S) + (IF member THEN f[x] ELSE 0) - (IF x \in S THEN f[x] ELSE 0)
<1>1. IntOn(f, S) /\ f[x] \in Int
    BY DEF IntOn
<1>2. Total(f, S) \in Int
    BY <1>1, TotalSplit
<1>3. x \in S => Total(f, S) = f[x] + Total(f, S \ {x}) /\ Total(f, S \ {x}) \in Int
    BY <1>1, TotalSplit
<1>4. x \notin S => Total(f, S \cup {x}) = Total(f, S) + f[x]
    BY TotalAdd
<1> DEFINE in == IF member THEN f[x] ELSE 0
           out == IF x \in S THEN f[x] ELSE 0
           t == Total(f, With(S, x, member))
<1>5. ASSUME x \in S, member PROVE t = Total(f, S) + in - out
  <2>1. With(S, x, member) = S
      BY <1>5 DEF With
  <2>2. in = f[x] /\ out = f[x] /\ t = Total(f, S)
      BY <1>5, <2>1, Zenon
  <2> HIDE DEF in, out, t
  <2> QED BY <1>1, <1>2, <2>2
<1>6. ASSUME x \in S, ~member PROVE t = Total(f, S) + in - out
  <2>1. With(S, x, member) = S \ {x}
      BY <1>6 DEF With
  <2>2. in = 0 /\ out = f[x] /\ t = Total(f, S \ {x})
      BY <1>6, <2>1, Zenon
  <2> HIDE DEF in, out, t
  <2> QED BY <1>1, <1>2, <1>3, <1>6, <2>2
<1>7. ASSUME x \notin S, member PROVE t = Total(f, S) + in - out
  <2>1. With(S, x, member) = S \cup {x}
      BY <1>7 DEF With
  <2>2. in = f[x] /\ out = 0 /\ t = Total(f, S \cup {x})
      BY <1>7, <2>1, Zenon
  <2> HIDE DEF in, out, t
  <2> QED BY <1>1, <1>2, <1>4, <1>7, <2>2
<1>8. ASSUME x \notin S, ~member PROVE t = Total(f, S) + in - out
  <2>1. With(S, x, member) = S
      BY <1>8 DEF With
  <2>2. in = 0 /\ out = 0 /\ t = Total(f, S)
      BY <1>8, <2>1, Zenon
  <2> HIDE DEF in, out, t
  <2> QED BY <1>1, <1>2, <2>2
<1>9. t = Total(f, S) + in - out
  <2> HIDE DEF in, out, t
  <2> QED BY <1>5, <1>6, <1>7, <1>8
<1> QED BY <1>9, Zenon

\* The sum of the sums of two functions is that of the function that adds them.
LEMMA TotalPlus ==
    ASSUME NEW S, IsFiniteSet(S), NEW f, NEW g, NEW h, IntOn(f, S), IntOn(g, S),
           \A x \in S : h[x] = f[x] + g[x]
    PROVE  Total(h, S) = Total(f, S) + Total(g, S)
<1>1. ASSUME NEW s \in SUBSET S
      PROVE  IsFiniteSet(s) /\ IntOn(f, s) /\ IntOn(g, s) /\ IntOn(h, s)
    BY FS_Subset DEF IntOn
<1> DEFINE T == {s \in SUBSET S : Total(h, s) # Total(f, s) + Total(g, s)}
<1>2. T = {}
  <2> SUFFICES ASSUME T # {} PROVE FALSE
      OBVIOUS
  <2>1. PICK s \in T : \A t \in T : t \subseteq s => t = s
    <3>1. T \in SUBSET SUBSET S
        OBVIOUS
    <3> HIDE DEF T
    <3> QED BY <3>1, Smallest
  <2>2. /\ s \in SUBSET S /\ Total(h, s) # Total(f, s) + Total(g, s)
        /\ \A t \in SUBSET s : t # s => Total(h, t) = Total(f, t) + Total(g, t)
      BY <2>1, Zenon
  <2> HIDE DEF T
  <2>3. s # {}
    <3>1. Total(f, {}) = 0 /\ Total(g, {}) = 0 /\ Total(h, {}) = 0
        BY <1>1, <2>2, TotalSplit
    <3>2. 0 = 0 + 0
        OBVIOUS
    <3> QED BY <2>2, <3>1, <3>2, Zenon
  <2>4. PICK x \in s : TRUE
      BY <2>3
  <2>5. Total(h, s \ {x}) = Total(f, s \ {x}) + Total(g, s \ {x})
      BY <2>2, <2>4
  <2>6. /\ Total(f, s) = f[x] + Total(f, s \ {x}) /\ Total(f, s \ {x}) \in Int
        /\ Total(g, s) = g[x] + Total(g, s \ {x}) /\ Total(g, s \ {x}) \in Int
        /\ Total(h, s) = h[x] + Total(h, s \ {x})
      BY <1>1, <2>2, <2>4, TotalSplit
  <2>7. f[x] \in Int /\ g[x] \in Int /\ h[x] = f[x] + g[x]
      BY <2>2, <2>4 DEF IntOn
  <2> QED BY <2>2, <2>5, <2>6, <2>7
<1> QED BY <1>2

\* SumFunction of the community modules is the same sum.
LEMMA SumFunctionIs ==
    ASSUME NEW f
    PROVE  SumFunction(f) = Total(f, DOMAIN f)
BY Zenon DEF SumFunction, SumFunctionOnSet, FoldFunctionOnSet, Total, MapThenSumSet
=============================================================================
