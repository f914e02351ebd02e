------------------------ MODULE ExecutionLedgerProofs ------------------------
(***************************************************************************)
(* Proofs about ExecutionLedger, for every set of portfolios, requests and *)
(* broker identities: its type invariant; that a request which may have an *)
(* order or a position at the broker always holds its risk; that states    *)
(* which assert something of the broker name it; that final outcomes stay; *)
(* that only observations raise risk; that the ledger implements the risk  *)
(* book; and that the heat no broker identity backs stays under the        *)
(* ceiling, for which the first part proves what a sum over a set does.    *)
(* The last part is about LedgerTransactions, for every set of sessions:   *)
(* that its interleaved transactions implement the atomic handlers, and    *)
(* that only lease sweeps deadlock.                                        *)
(***************************************************************************)
EXTENDS LedgerTransactions, FiniteSetTheorems, WellFoundedInduction, TLAPS

(***************************************************************************)
(* Sums over finite sets.  SumFunctionOnSet adds up a function over a set  *)
(* in the order in which CHOOSE names its elements.  What holds of every   *)
(* finite set is proved from a counterexample with the fewest elements:    *)
(* removing an element gives a set the statement holds of.                 *)
(***************************************************************************)

Before == {pair \in Nat \X Nat : pair[1] < pair[2]}

\* A collection of finite sets has a member no other is smaller than.
LEMMA SmallestMember ==
  ASSUME NEW F, F # {}, \A S \in F : IsFiniteSet(S)
  PROVE  \E S \in F : \A T \in F : Cardinality(S) <= Cardinality(T)
<1> DEFINE Sizes == {Cardinality(S) : S \in F}
<1>1. Sizes \subseteq Nat /\ Sizes # {}
  BY FS_CardinalityType
<1>2. IsWellFoundedOn(Before, Nat)
  BY NatLessThanWellFounded DEF OpToRel, Before
<1>3. PICK m \in Sizes : \A y \in Sizes : ~(<<y, m>> \in Before)
  <2> HIDE DEF Sizes
  <2> QED BY <1>1, <1>2, WFMin
<1>4. PICK S \in F : m = Cardinality(S)
  OBVIOUS
<1>5. ASSUME NEW T \in F PROVE Cardinality(S) <= Cardinality(T)
  <2>1. Cardinality(T) \in Sizes
    OBVIOUS
  <2>2. Cardinality(T) \in Nat /\ Cardinality(S) \in Nat
    BY FS_CardinalityType
  <2>3. ~(Cardinality(T) < Cardinality(S))
    <3>1. <<Cardinality(T), Cardinality(S)>> \notin Before
      BY <1>3, <1>4, <2>1
    <3> HIDE DEF Sizes
    <3> QED BY <2>2, <3>1 DEF Before
  <2> HIDE DEF Sizes
  <2> QED BY <2>2, <2>3
<1> QED BY <1>5

\* The element a fold takes first.
First(S) == CHOOSE x \in S : TRUE

\* iter adds up f over every subset of S, one element after the other.
AddsUp(iter, f, S) ==
  iter = [T \in SUBSET S |-> IF T = {} THEN 0 ELSE f[First(T)] + iter[T \ {First(T)}]]

Adder(f, S) == CHOOSE iter : AddsUp(iter, f, S)

LEMMA SumIsAdder == \A f, S : SumFunctionOnSet(f, S) = Adder(f, S)[S]
BY DEF SumFunctionOnSet, FoldFunctionOnSet, MapThenFoldSet, Adder, AddsUp, First

LEMMA Rest ==
  ASSUME NEW S, IsFiniteSet(S), S # {}
  PROVE  /\ First(S) \in S
         /\ IsFiniteSet(S \ {First(S)})
         /\ Cardinality(S \ {First(S)}) = Cardinality(S) - 1
         /\ Cardinality(S) \in Nat /\ Cardinality(S \ {First(S)}) \in Nat
<1>1. First(S) \in S
  BY DEF First
<1>2. IsFiniteSet(S \ {First(S)}) /\ Cardinality(S \ {First(S)}) = Cardinality(S) - 1
  BY <1>1, FS_RemoveElement
<1> QED BY <1>1, <1>2, FS_CardinalityType

\* Two adders agree on every set both of them cover.
LEMMA AddersAgree ==
  ASSUME NEW f, NEW S, NEW R, NEW a, NEW b, AddsUp(a, f, S), AddsUp(b, f, R),
         NEW T, T \subseteq S, T \subseteq R, IsFiniteSet(T)
  PROVE  a[T] = b[T]
<1> DEFINE Bad == {U \in SUBSET T : a[U] # b[U]}
<1> SUFFICES ASSUME Bad # {} PROVE FALSE
  OBVIOUS
<1>1. \A U \in Bad : IsFiniteSet(U)
  BY FS_Subset
<1>2. PICK U \in Bad : \A V \in Bad : Cardinality(U) <= Cardinality(V)
  <2> HIDE DEF Bad
  <2> QED BY <1>1, SmallestMember
<1>3. U # {}
  BY DEF AddsUp
<1> DEFINE x == First(U)
           V == U \ {x}
<1>4. /\ x \in U /\ Cardinality(V) = Cardinality(U) - 1
      /\ Cardinality(V) \in Nat /\ Cardinality(U) \in Nat
  BY <1>1, <1>3, Rest
<1>5. V \notin Bad
  <2>1. ~(Cardinality(U) <= Cardinality(V))
    BY <1>4
  <2> QED BY <1>2, <2>1
<1>6. a[V] = b[V]
  BY <1>5
<1>7. a[U] = f[x] + a[V] /\ b[U] = f[x] + b[V]
  BY <1>3 DEF AddsUp
<1> QED BY <1>6, <1>7

\* So the function the library chooses exists.
LEMMA AdderExists ==
  ASSUME NEW f, NEW S, IsFiniteSet(S)
  PROVE  AddsUp(Adder(f, S), f, S)
<1> DEFINE Bad == {T \in SUBSET S : ~ AddsUp(Adder(f, T), f, T)}
<1> SUFFICES ASSUME Bad # {} PROVE FALSE
  OBVIOUS
<1>1. \A T \in Bad : IsFiniteSet(T)
  BY FS_Subset
<1>2. PICK T \in Bad : \A U \in Bad : Cardinality(T) <= Cardinality(U)
  <2> HIDE DEF Bad
  <2> QED BY <1>1, SmallestMember
<1> DEFINE Sum(U) == IF U = {} THEN 0
                     ELSE f[First(U)] + Adder(f, U \ {First(U)})[U \ {First(U)}]
           iter == [U \in SUBSET T |-> Sum(U)]
<1>3. ASSUME NEW U \in SUBSET T, U # {}
      PROVE  /\ U \ {First(U)} \in SUBSET T
             /\ IsFiniteSet(U \ {First(U)})
             /\ AddsUp(Adder(f, U \ {First(U)}), f, U \ {First(U)})
  <2> DEFINE V == U \ {First(U)}
  <2>1. IsFiniteSet(U) /\ Cardinality(U) <= Cardinality(T) /\ Cardinality(T) \in Nat
    BY <1>1, FS_Subset, FS_CardinalityType
  <2>2. /\ IsFiniteSet(V) /\ Cardinality(V) = Cardinality(U) - 1
        /\ Cardinality(U) \in Nat /\ Cardinality(V) \in Nat
    BY <1>3, <2>1, Rest
  <2>3. V \in SUBSET T /\ V \in SUBSET S /\ ~(Cardinality(T) <= Cardinality(V))
    BY <2>1, <2>2
  <2>4. V \notin Bad
    BY <1>2, <2>3
  <2> QED BY <2>2, <2>3, <2>4
<1>4. ASSUME NEW U \in SUBSET T
      PROVE  iter[U] = IF U = {} THEN 0 ELSE f[First(U)] + iter[U \ {First(U)}]
  <2>1. CASE U = {}
    BY <2>1
  <2>2. CASE U # {}
    <3> DEFINE V == U \ {First(U)}
               W == V \ {First(V)}
    <3>1. V \in SUBSET T /\ IsFiniteSet(V) /\ AddsUp(Adder(f, V), f, V)
      BY <1>3, <2>2
    <3>2. Adder(f, V)[V] = Sum(V)
      <4>1. CASE V = {}
        BY <3>1, <4>1 DEF AddsUp
      <4>2. CASE V # {}
        <5>1. W \in SUBSET V /\ IsFiniteSet(W) /\ AddsUp(Adder(f, W), f, W)
          BY <1>3, <3>1, <4>2
        <5>2. Adder(f, V)[W] = Adder(f, W)[W]
          BY <3>1, <5>1, AddersAgree
        <5>3. Adder(f, V)[V] = f[First(V)] + Adder(f, V)[W]
          BY <3>1, <4>2 DEF AddsUp
        <5> QED BY <4>2, <5>2, <5>3
      <4> QED BY <4>1, <4>2
    <3>3. iter[U] = Sum(U) /\ iter[V] = Sum(V)
      BY <3>1
    <3> QED BY <2>2, <3>2, <3>3
  <2> QED BY <2>1, <2>2
<1>5. AddsUp(iter, f, T)
  BY <1>4 DEF AddsUp
<1>6. AddsUp(Adder(f, T), f, T)
  <2> HIDE DEF iter
  <2> QED BY <1>5 DEF Adder
<1> QED BY <1>2, <1>6

LEMMA SumOfNone == \A f : SumFunctionOnSet(f, {}) = 0
<1> SUFFICES ASSUME NEW f PROVE Adder(f, {})[{}] = 0
  BY SumIsAdder
<1>1. AddsUp(Adder(f, {}), f, {})
  BY AdderExists, FS_EmptySet
<1> QED BY <1>1 DEF AddsUp

LEMMA SumFromFirst ==
  ASSUME NEW f, NEW S, IsFiniteSet(S), S # {}
  PROVE  SumFunctionOnSet(f, S) = f[First(S)] + SumFunctionOnSet(f, S \ {First(S)})
<1> DEFINE R == S \ {First(S)}
<1>1. AddsUp(Adder(f, S), f, S) /\ AddsUp(Adder(f, R), f, R) /\ IsFiniteSet(R)
  BY Rest, AdderExists
<1>2. Adder(f, S)[R] = Adder(f, R)[R]
  BY <1>1, AddersAgree
<1>3. Adder(f, S)[S] = f[First(S)] + Adder(f, S)[R]
  BY <1>1 DEF AddsUp
<1> QED BY <1>2, <1>3, SumIsAdder

Integral(f, S) == \A x \in S : f[x] \in Int

LEMMA SumIsInteger ==
  ASSUME NEW f, NEW S, IsFiniteSet(S), Integral(f, S)
  PROVE  SumFunctionOnSet(f, S) \in Int
<1> DEFINE Bad == {T \in SUBSET S : SumFunctionOnSet(f, T) \notin Int}
<1> SUFFICES ASSUME Bad # {} PROVE FALSE
  OBVIOUS
<1>1. \A T \in Bad : IsFiniteSet(T)
  BY FS_Subset
<1>2. PICK T \in Bad : \A U \in Bad : Cardinality(T) <= Cardinality(U)
  <2> HIDE DEF Bad
  <2> QED BY <1>1, SmallestMember
<1>3. T # {}
  BY SumOfNone
<1> DEFINE x == First(T)
<1>4. /\ x \in T /\ Cardinality(T \ {x}) = Cardinality(T) - 1
      /\ Cardinality(T) \in Nat /\ Cardinality(T \ {x}) \in Nat
  BY <1>1, <1>3, Rest
<1>5. T \ {x} \notin Bad
  BY <1>2, <1>4
<1>6. SumFunctionOnSet(f, T) = f[x] + SumFunctionOnSet(f, T \ {x})
  BY <1>1, <1>3, SumFromFirst
<1> QED BY <1>4, <1>5, <1>6 DEF Integral

\* Any element can be taken first.
LEMMA SumStep ==
  ASSUME NEW f, NEW S, IsFiniteSet(S), Integral(f, S), NEW x \in S
  PROVE  SumFunctionOnSet(f, S) = f[x] + SumFunctionOnSet(f, S \ {x})
<1> DEFINE Sum(T) == SumFunctionOnSet(f, T)
           Bad == {T \in SUBSET S : \E y \in T : Sum(T) # f[y] + Sum(T \ {y})}
<1> SUFFICES ASSUME Bad # {} PROVE FALSE
  OBVIOUS
<1>1. \A T \in SUBSET S : IsFiniteSet(T) /\ Sum(T) \in Int
  BY FS_Subset, SumIsInteger DEF Integral
<1>2. PICK T \in Bad : \A U \in Bad : Cardinality(T) <= Cardinality(U)
  <2>1. \A U \in Bad : IsFiniteSet(U)
    BY <1>1
  <2> HIDE DEF Bad
  <2> QED BY <2>1, SmallestMember
<1>3. PICK y \in T : Sum(T) # f[y] + Sum(T \ {y})
  OBVIOUS
<1> DEFINE z == First(T)
<1>4. IsFiniteSet(T) /\ T # {}
  BY <1>1
<1>5. z \in T /\ Sum(T) = f[z] + Sum(T \ {z})
  BY <1>4, Rest, SumFromFirst
<1>6. z # y
  BY <1>3, <1>5
<1>7. ASSUME NEW v \in T PROVE T \ {v} \notin Bad
  <2>1. Cardinality(T \ {v}) = Cardinality(T) - 1 /\ Cardinality(T) \in Nat
    BY <1>4, FS_RemoveElement, FS_CardinalityType
  <2>2. ~(Cardinality(T) <= Cardinality(T \ {v}))
    BY <2>1
  <2> HIDE DEF Bad
  <2> QED BY <1>2, <2>2
<1> HIDE DEF z
<1>8. Sum(T \ {z}) = f[y] + Sum((T \ {z}) \ {y})
  BY <1>5, <1>6, <1>7
<1>9. Sum(T \ {y}) = f[z] + Sum((T \ {y}) \ {z})
  BY <1>5, <1>6, <1>7
<1>10. (T \ {z}) \ {y} = (T \ {y}) \ {z}
  OBVIOUS
<1> DEFINE Q == (T \ {y}) \ {z}
<1>11. Sum(Q) \in Int /\ f[y] \in Int /\ f[z] \in Int
  BY <1>1, <1>5 DEF Integral
<1>12. Sum(T) = f[z] + (f[y] + Sum(Q)) /\ Sum(T \ {y}) = f[z] + Sum(Q)
  BY <1>5, <1>8, <1>9, <1>10
<1> HIDE DEF Sum, Q
<1> QED BY <1>3, <1>11, <1>12

LEMMA SumsAgree ==
  ASSUME NEW f, NEW g, NEW S, IsFiniteSet(S), \A x \in S : f[x] = g[x]
  PROVE  SumFunctionOnSet(f, S) = SumFunctionOnSet(g, S)
<1> DEFINE Bad == {T \in SUBSET S : SumFunctionOnSet(f, T) # SumFunctionOnSet(g, T)}
<1> SUFFICES ASSUME Bad # {} PROVE FALSE
  OBVIOUS
<1>1. \A T \in Bad : IsFiniteSet(T)
  BY FS_Subset
<1>2. PICK T \in Bad : \A U \in Bad : Cardinality(T) <= Cardinality(U)
  <2> HIDE DEF Bad
  <2> QED BY <1>1, SmallestMember
<1>3. T # {}
  BY SumOfNone
<1> DEFINE x == First(T)
<1>4. /\ x \in T /\ Cardinality(T \ {x}) = Cardinality(T) - 1
      /\ Cardinality(T) \in Nat /\ Cardinality(T \ {x}) \in Nat
  BY <1>1, <1>3, Rest
<1>5. T \ {x} \notin Bad
  BY <1>2, <1>4
<1>6. /\ SumFunctionOnSet(f, T) = f[x] + SumFunctionOnSet(f, T \ {x})
      /\ SumFunctionOnSet(g, T) = g[x] + SumFunctionOnSet(g, T \ {x})
  BY <1>1, <1>3, SumFromFirst
<1> QED BY <1>4, <1>5, <1>6

\* The sum follows a change of one value.
LEMMA SumOfChanged ==
  ASSUME NEW f, NEW g, NEW S, IsFiniteSet(S), Integral(f, S), NEW x \in S,
         g[x] \in Int, \A y \in S \ {x} : g[y] = f[y]
  PROVE  SumFunctionOnSet(g, S) = SumFunctionOnSet(f, S) - f[x] + g[x]
<1> DEFINE R == S \ {x}
<1>1. IsFiniteSet(R) /\ Integral(f, R) /\ Integral(g, S)
  BY FS_RemoveElement DEF Integral
<1>2. SumFunctionOnSet(f, R) = SumFunctionOnSet(g, R) /\ SumFunctionOnSet(f, R) \in Int
  BY <1>1, SumsAgree, SumIsInteger
<1>3. /\ SumFunctionOnSet(f, S) = f[x] + SumFunctionOnSet(f, R)
      /\ SumFunctionOnSet(g, S) = g[x] + SumFunctionOnSet(g, R)
  BY <1>1, SumStep
<1>4. f[x] \in Int
  BY DEF Integral
<1> HIDE DEF R
<1> QED BY <1>2, <1>3, <1>4

\* Sums of natural numbers grow with their set, and with their values.
LEMMA SumsGrow ==
  ASSUME NEW f, NEW g, NEW S, IsFiniteSet(S), NEW R, R \subseteq S,
         \A x \in S : f[x] \in Nat /\ g[x] \in Nat, \A x \in R : f[x] <= g[x]
  PROVE  /\ SumFunctionOnSet(f, R) <= SumFunctionOnSet(g, S)
         /\ SumFunctionOnSet(f, R) \in Nat /\ SumFunctionOnSet(g, S) \in Nat
<1> DEFINE Sum(h, T) == SumFunctionOnSet(h, T)
           Bad == {T \in SUBSET S : ~(/\ Sum(f, R \cap T) <= Sum(g, T)
                                      /\ Sum(f, R \cap T) \in Nat /\ Sum(g, T) \in Nat)}
<1>0. S \notin Bad => /\ Sum(f, R) <= Sum(g, S)
                      /\ Sum(f, R) \in Nat /\ Sum(g, S) \in Nat
  <2>1. R \cap S = R
    OBVIOUS
  <2> HIDE DEF Sum
  <2> QED BY <2>1
<1> SUFFICES ASSUME Bad # {} PROVE FALSE
  BY <1>0
<1>1. \A T \in SUBSET S : IsFiniteSet(T)
  BY FS_Subset
<1>2. PICK T \in Bad : \A U \in Bad : Cardinality(T) <= Cardinality(U)
  <2>1. \A U \in Bad : IsFiniteSet(U)
    BY <1>1
  <2> HIDE DEF Bad
  <2> QED BY <2>1, SmallestMember
<1>3. T # {}
  <2>1. R \cap {} = {}
    OBVIOUS
  <2>2. Sum(f, {}) = 0 /\ Sum(g, {}) = 0
    BY SumOfNone
  <2> HIDE DEF Sum
  <2> QED BY <2>1, <2>2
<1> DEFINE x == First(T)
           Q == T \ {x}
<1>4. /\ x \in T /\ Cardinality(Q) = Cardinality(T) - 1
      /\ Cardinality(T) \in Nat /\ Cardinality(Q) \in Nat
  BY <1>1, <1>3, Rest
<1>5. Q \in SUBSET S /\ Q \notin Bad
  BY <1>2, <1>4
<1>6. Sum(f, R \cap Q) <= Sum(g, Q) /\ Sum(f, R \cap Q) \in Nat /\ Sum(g, Q) \in Nat
  BY <1>5
<1>7. Sum(g, T) = g[x] + Sum(g, Q)
  BY <1>1, <1>3, SumFromFirst
<1>8. Sum(f, R \cap T) = IF x \in R THEN f[x] + Sum(f, R \cap Q) ELSE Sum(f, R \cap Q)
  <2>1. CASE x \in R
    <3>1. x \in R \cap T /\ (R \cap T) \ {x} = R \cap Q
      BY <1>4, <2>1
    <3>2. IsFiniteSet(R \cap T) /\ Integral(f, R \cap T)
      BY <1>1 DEF Integral
    <3> QED BY <2>1, <3>1, <3>2, SumStep
  <2>2. CASE x \notin R
    <3>1. R \cap T = R \cap Q
      BY <2>2
    <3> QED BY <2>2, <3>1
  <2> QED BY <2>1, <2>2
<1>9. g[x] \in Nat /\ f[x] \in Nat /\ (x \in R => f[x] <= g[x])
  BY <1>4
<1> HIDE DEF Sum
<1>10. T \notin Bad
  <2> HIDE DEF x, Q
  <2> QED BY <1>6, <1>7, <1>8, <1>9
<1> QED BY <1>2, <1>10

\* A set of which every element counts for one or more is no larger than its sum.
LEMMA SumCovers ==
  ASSUME NEW f, NEW S, IsFiniteSet(S), \A x \in S : f[x] \in Nat /\ f[x] >= 1
  PROVE  Cardinality(S) <= SumFunctionOnSet(f, S)
<1> DEFINE Bad == {T \in SUBSET S : ~(Cardinality(T) <= SumFunctionOnSet(f, T))}
<1> SUFFICES ASSUME Bad # {} PROVE FALSE
  OBVIOUS
<1>1. \A T \in SUBSET S : IsFiniteSet(T) /\ SumFunctionOnSet(f, T) \in Int
  BY FS_Subset, SumIsInteger DEF Integral
<1>2. PICK T \in Bad : \A U \in Bad : Cardinality(T) <= Cardinality(U)
  <2>1. \A U \in Bad : IsFiniteSet(U)
    BY <1>1
  <2> HIDE DEF Bad
  <2> QED BY <2>1, SmallestMember
<1>3. T # {}
  BY SumOfNone, FS_EmptySet
<1> DEFINE x == First(T)
           Q == T \ {x}
<1>4. /\ x \in T /\ Cardinality(Q) = Cardinality(T) - 1
      /\ Cardinality(T) \in Nat /\ Cardinality(Q) \in Nat
  BY <1>1, <1>3, Rest
<1>5. Q \in SUBSET S /\ Q \notin Bad
  BY <1>2, <1>4
<1>6. SumFunctionOnSet(f, T) = f[x] + SumFunctionOnSet(f, Q)
  BY <1>1, <1>3, SumFromFirst
<1>7. Cardinality(Q) <= SumFunctionOnSet(f, Q) /\ SumFunctionOnSet(f, Q) \in Int
  BY <1>1, <1>5
<1>8. f[x] \in Nat /\ f[x] >= 1
  BY <1>4
<1>9. T \notin Bad
  <2> HIDE DEF x, Q
  <2> QED BY <1>4, <1>6, <1>7, <1>8
<1> QED BY <1>2, <1>9

-----------------------------------------------------------------------------

\* The heat of a portfolio of which every active reservation risks a unit or
\* more is at least their number, whatever the constants.
LEMMA HeatCovers ==
  \A p : IsFiniteSet(Active(p)) /\ (\A r \in Active(p) : reservation[r].risk \in Nat \ {0})
           => Cardinality(Active(p)) <= Heat(p) /\ Heat(p) \in Int
<1> SUFFICES ASSUME NEW p, IsFiniteSet(Active(p)),
                    \A r \in Active(p) : reservation[r].risk \in Nat \ {0}
             PROVE  Cardinality(Active(p)) <= Heat(p) /\ Heat(p) \in Int
  OBVIOUS
<1> DEFINE risk == [r \in Requests |-> reservation[r].risk]
<1>1. \A r \in Active(p) : risk[r] \in Nat /\ risk[r] >= 1
  <2>1. \A r \in Active(p) : r \in Requests /\ reservation[r].risk \in Nat \ {0}
    BY DEF Active
  <2>2. \A n \in Nat \ {0} : n \in Nat /\ n >= 1
    OBVIOUS
  <2> QED BY <2>1, <2>2
<1>2. Heat(p) = SumFunctionOnSet(risk, Active(p))
  BY DEF Heat, HeatOf
<1> HIDE DEF risk
<1> QED BY <1>1, <1>2, SumCovers, SumIsInteger DEF Integral

(***************************************************************************)
(* The effects the handlers share preserve the types of the tables.        *)
(***************************************************************************)

LEMMA SetRowType ==
  ASSUME ledger \in [Requests -> Row],
         NEW r \in Requests, NEW row \in Row, SetRow(r, row)
  PROVE  ledger' \in [Requests -> Row]
BY DEF SetRow

LEMMA HoldType ==
  ASSUME reservation \in [Requests -> Reservation],
         NEW r \in Requests, NEW p \in Portfolios, NEW k \in Risks \cup {0},
         Hold(r, p, k)
  PROVE  reservation' \in [Requests -> Reservation]
BY DEF Hold, Reservation, OrNull

LEMMA ReleaseType ==
  ASSUME reservation \in [Requests -> Reservation],
         NEW r \in Requests, Release(r)
  PROVE  reservation' \in [Requests -> Reservation]
<1>1. PICK t \in {"NONE", "RELEASED"} :
        reservation' = [reservation EXCEPT ![r] = [@ EXCEPT !.status = t]]
  BY DEF Release
<1>2. [reservation[r] EXCEPT !.status = t] \in Reservation
  BY DEF Reservation
<1> QED BY <1>1, <1>2

LEMMA GivenType ==
  ASSUME NEW S, NEW new \in OrNull(S), NEW old \in OrNull(S)
  PROVE  Given(new, old) \in OrNull(S)
BY DEF Given, OrNull

LEMMA ModsType ==
  ASSUME mods \in [Portfolios -> [Events -> Modification \cup {NoModification}]],
         NEW p \in Portfolios,
         NEW f \in [Events -> Modification \cup {NoModification}],
         mods' = [mods EXCEPT ![p] = f]
  PROVE  mods' \in [Portfolios -> [Events -> Modification \cup {NoModification}]]
OBVIOUS

LEMMA PendingIsModification ==
  ASSUME mods \in [Portfolios -> [Events -> Modification \cup {NoModification}]],
         NEW p \in Portfolios, NEW e \in Events, mods[p][e].status # "NONE"
  PROVE  mods[p][e] \in Modification
BY DEF NoModification

LEMMA SnapshotType ==
  ASSUME mods \in [Portfolios -> [Events -> Modification \cup {NoModification}]],
         NEW p \in Portfolios, NEW pos \in Positions,
         NEW stop \in Stops \cup {0}, ResolveBySnapshot(p, pos, stop)
  PROVE  mods' \in [Portfolios -> [Events -> Modification \cup {NoModification}]]
<1>1. ASSUME NEW e \in Events, stop > 0, e \in PendingOn(p, pos)
      PROVE  SnapshotVerdict(mods[p][e], stop) \in Modification
  <2>1. mods[p][e] \in Modification
    BY <1>1, PendingIsModification DEF PendingOn, PendingIn
  <2> QED BY <2>1 DEF SnapshotVerdict, Modification
<1> QED BY <1>1, ModsType DEF ResolveBySnapshot

LEMMA CloseType ==
  ASSUME mods \in [Portfolios -> [Events -> Modification \cup {NoModification}]],
         NEW p \in Portfolios, NEW pos \in Positions, ResolveByClose(p, pos)
  PROVE  mods' \in [Portfolios -> [Events -> Modification \cup {NoModification}]]
<1>1. ASSUME NEW e \in Events, e \in PendingOn(p, pos)
      PROVE  [mods[p][e] EXCEPT !.status = "POSITION_CLOSED"] \in Modification
  <2>1. mods[p][e] \in Modification
    BY <1>1, PendingIsModification DEF PendingOn, PendingIn
  <2> QED BY <2>1 DEF Modification
<1> QED BY <1>1, ModsType DEF ResolveByClose

(***************************************************************************)
(* Rows the handlers write are rows.                                       *)
(***************************************************************************)

LEMMA ReserveType ==
  ASSUME TypeOK, NEW p \in Portfolios, NEW r \in Requests, NEW k \in Risks,
         Reserve(p, r, k)
  PROVE  TypeOK'
<1>1. [NoRow EXCEPT !.portfolio = p, !.state = "RESERVED"] \in Row
  BY DEF NoRow, Row, States, OrNull
<1>2. ledger' \in [Requests -> Row]
  BY <1>1, SetRowType DEF Reserve, TypeOK
<1>3. reservation' \in [Requests -> Reservation]
  BY DEF Reserve, TypeOK, Reservation, OrNull
<1> QED BY <1>2, <1>3 DEF Reserve, TypeOK, RenewLease

LEMMA AdvanceType ==
  ASSUME TypeOK, NEW r \in Requests, NEW s \in States, NEW c \in Claims,
         NEW ids \in Identities, Advance(r, s, c, ids)
  PROVE  TypeOK'
<1> DEFINE row == [ledger[r] EXCEPT !.state = s,
                                    !.order = Given(ids.order, @),
                                    !.deal = Given(ids.deal, @),
                                    !.position = Given(ids.position, @)]
<1>1. ledger[r] \in Row
  BY DEF TypeOK
<1>2. /\ Given(ids.order, ledger[r].order) \in OrNull(Orders)
      /\ Given(ids.deal, ledger[r].deal) \in OrNull(Deals)
      /\ Given(ids.position, ledger[r].position) \in OrNull(Positions)
  BY <1>1, GivenType DEF Row, Identities
<1>3. row \in Row
  BY <1>1, <1>2 DEF Row
<1>4. ledger' \in [Requests -> Row]
  BY <1>3, SetRowType DEF Advance, TypeOK
<1>5. reservation' \in [Requests -> Reservation]
  BY ReleaseType DEF Advance, TypeOK
<1> QED BY <1>4, <1>5 DEF Advance, TypeOK

LEMMA RepeatType ==
  ASSUME TypeOK, NEW r \in Requests, NEW ids \in Identities, Repeat(r, ids)
  PROVE  TypeOK'
<1> DEFINE row == [ledger[r] EXCEPT !.order = Given(@, ids.order),
                                    !.deal = Given(@, ids.deal),
                                    !.position = Given(@, ids.position)]
<1>1. ledger[r] \in Row
  BY DEF TypeOK
<1>2. /\ Given(ledger[r].order, ids.order) \in OrNull(Orders)
      /\ Given(ledger[r].deal, ids.deal) \in OrNull(Deals)
      /\ Given(ledger[r].position, ids.position) \in OrNull(Positions)
  BY <1>1, GivenType DEF Row, Identities
<1>3. row \in Row
  BY <1>1, <1>2 DEF Row
<1>4. ledger' \in [Requests -> Row]
  BY <1>3, SetRowType DEF Repeat, TypeOK
<1> QED BY <1>4 DEF Repeat, TypeOK

LEMMA LeasingType ==
  ASSUME TypeOK, Leasing
  PROVE  TypeOK'
<1>1. CASE RecoverExpired
  <2>1. \A r \in Requests : [ledger[r] EXCEPT !.state = "RECOVERING"] \in Row
    BY DEF TypeOK, Row, States
  <2> QED BY <1>1, <2>1 DEF RecoverExpired, TypeOK
<1>2. CASE \E r \in Requests : LapseLease(r)
  BY <1>2 DEF LapseLease, TypeOK
<1> QED BY <1>1, <1>2 DEF Leasing

(***************************************************************************)
(* A handler finds only known requests of its portfolio, or the request it *)
(* names.                                                                  *)
(***************************************************************************)

LEMMA TargetsAreRequests ==
  ASSUME NEW p, NEW r \in Requests, NEW pos, NEW ord
  PROVE  /\ AdoptionTargets(p, r, pos, ord) \subseteq Requests
         /\ ClosureTargets(p, r, pos) \subseteq Requests
         /\ PendingOrderTargets(p, r, ord) \subseteq Requests
         /\ RowsByPosition(p, pos) \subseteq Requests
         /\ RowsByOrder(p, ord) \subseteq Requests
BY DEF AdoptionTargets, ClosureTargets, PendingOrderTargets, BrokerRecords,
       RowsByPosition, RowsByOrder

LEMMA AdoptType ==
  ASSUME TypeOK, NEW p \in Portfolios, NEW r \in Requests,
         NEW pos \in Positions, NEW ord \in OrNull(Orders),
         NEW d \in OrNull(Deals), NEW k \in Risks \cup {0},
         NEW stop \in Stops \cup {0},
         AdoptOpenPosition(p, r, pos, ord, d, k, stop)
  PROVE  /\ ledger' \in [Requests -> Row]
         /\ reservation' \in [Requests -> Reservation]
         /\ expired' \subseteq Requests
         /\ mods' \in [Portfolios -> [Events -> Modification \cup {NoModification}]]
<1>1. PICK t \in AdoptionTargets(p, r, pos, ord) :
        /\ SetRow(t, [portfolio |-> p,
                      state |-> "FILLED",
                      order |-> Given(ord, ledger[t].order),
                      deal |-> Given(d, ledger[t].deal),
                      position |-> pos])
        /\ Hold(t, p, k)
        /\ RenewLease(t)
  BY DEF AdoptOpenPosition
<1>2. t \in Requests
  BY TargetsAreRequests
<1>3. ledger[t] \in Row
  BY <1>2 DEF TypeOK
<1>4. [portfolio |-> p, state |-> "FILLED",
       order |-> Given(ord, ledger[t].order),
       deal |-> Given(d, ledger[t].deal), position |-> pos] \in Row
  <2>1. /\ Given(ord, ledger[t].order) \in OrNull(Orders)
        /\ Given(d, ledger[t].deal) \in OrNull(Deals)
    BY <1>3, GivenType DEF Row
  <2> QED BY <2>1 DEF Row, States, OrNull
<1>5. ledger' \in [Requests -> Row]
  BY <1>1, <1>2, <1>4, SetRowType DEF TypeOK
<1>6. reservation' \in [Requests -> Reservation]
  BY <1>1, <1>2, HoldType DEF TypeOK
<1>7. expired' \subseteq Requests
  BY <1>1 DEF RenewLease, TypeOK
<1>8. mods' \in [Portfolios -> [Events -> Modification \cup {NoModification}]]
  BY SnapshotType DEF AdoptOpenPosition, TypeOK
<1> QED BY <1>5, <1>6, <1>7, <1>8

LEMMA UpdateRiskType ==
  ASSUME TypeOK, NEW p \in Portfolios, NEW pos \in Positions,
         NEW k \in Risks \cup {0}, UpdatePositionRisk(p, pos, k)
  PROVE  TypeOK'
<1>1. PICK t \in RowsByPosition(p, pos) :
        /\ SetRow(t, [ledger[t] EXCEPT
                        !.state = IF @ \in Terminal THEN "FILLED" ELSE @])
        /\ Hold(t, p, k)
  BY DEF UpdatePositionRisk
<1>2. t \in Requests
  BY DEF RowsByPosition
<1>3. [ledger[t] EXCEPT !.state = IF @ \in Terminal THEN "FILLED" ELSE @] \in Row
  <2>1. ledger[t] \in Row
    BY <1>2 DEF TypeOK
  <2> QED BY <2>1 DEF Row, States
<1>4. /\ ledger' \in [Requests -> Row]
      /\ reservation' \in [Requests -> Reservation]
  BY <1>1, <1>2, <1>3, SetRowType, HoldType DEF TypeOK
<1> QED BY <1>1, <1>4 DEF UpdatePositionRisk, TypeOK

LEMMA ClosureType ==
  ASSUME TypeOK, NEW p \in Portfolios, NEW r \in Requests,
         NEW pos \in Positions, NEW d \in Deals, RecordClosure(p, r, pos, d)
  PROVE  /\ ledger' \in [Requests -> Row]
         /\ reservation' \in [Requests -> Reservation]
         /\ expired' \subseteq Requests
         /\ mods' \in [Portfolios -> [Events -> Modification \cup {NoModification}]]
<1>1. PICK t \in ClosureTargets(p, r, pos) :
        /\ SetRow(t, [ledger[t] EXCEPT !.state = "RECONCILED",
                                       !.position = pos,
                                       !.deal = d])
        /\ Release(t)
  BY DEF RecordClosure
<1>2. t \in Requests
  BY TargetsAreRequests
<1>3. [ledger[t] EXCEPT !.state = "RECONCILED", !.position = pos, !.deal = d]
        \in Row
  <2>1. ledger[t] \in Row
    BY <1>2 DEF TypeOK
  <2> QED BY <2>1 DEF Row, States, Terminal, OrNull
<1>4. /\ ledger' \in [Requests -> Row]
      /\ reservation' \in [Requests -> Reservation]
  BY <1>1, <1>2, <1>3, SetRowType, ReleaseType DEF TypeOK
<1>5. mods' \in [Portfolios -> [Events -> Modification \cup {NoModification}]]
  BY CloseType DEF RecordClosure, TypeOK
<1> QED BY <1>4, <1>5 DEF RecordClosure, TypeOK

LEMMA DealEventType ==
  ASSUME TypeOK, NEW p \in Portfolios, NEW r \in Requests, NEW d \in Deals,
         NEW event \in Deal, NEW open \in BOOLEAN, NEW k \in Risks \cup {0},
         DealEvent(p, r, d, event, open, k)
  PROVE  TypeOK'
<1>1. event.order \in OrNull(Orders) /\ event.position \in Positions
  BY DEF Deal
<1>2. d \in OrNull(Deals) /\ 0 \in Stops \cup {0}
  BY DEF OrNull
<1>3. deals' \in [Portfolios -> [Deals -> Deal \cup {NoDeal}]]
  BY DEF DealEvent, TypeOK
<1>4. /\ ledger' \in [Requests -> Row]
      /\ reservation' \in [Requests -> Reservation]
      /\ expired' \subseteq Requests
      /\ mods' \in [Portfolios -> [Events -> Modification \cup {NoModification}]]
  <2>1. CASE AdoptOpenPosition(p, r, event.position, event.order, d, k, 0)
    BY <2>1, <1>1, <1>2, AdoptType
  <2>2. CASE RecordClosure(p, r, event.position, d)
    BY <2>2, <1>1, ClosureType
  <2>3. CASE UNCHANGED <<ledger, reservation, expired, mods>>
    BY <2>3 DEF TypeOK
  <2> QED BY <2>1, <2>2, <2>3 DEF DealEvent
<1> QED BY <1>3, <1>4 DEF TypeOK

LEMMA OrderReconciliationType ==
  ASSUME TypeOK, OrderReconciliation
  PROVE  TypeOK'
<1>1. ASSUME NEW p \in Portfolios, NEW ord \in Orders, NEW r \in Requests,
             NEW k \in Risks, SyncPendingOrder(p, r, ord, k)
      PROVE  TypeOK'
  <2> DEFINE row(t) == [ledger[t] EXCEPT
                          !.portfolio = p,
                          !.state = IF @ \in Terminal \cup {"FILLED"} THEN @
                                                                     ELSE "ACKED",
                          !.order = ord]
  <2>1. PICK t \in PendingOrderTargets(p, r, ord) :
          SetRow(t, row(t)) /\ Hold(t, p, k) /\ RenewLease(t)
    BY <1>1 DEF SyncPendingOrder
  <2>2. t \in Requests
    BY TargetsAreRequests
  <2>3. row(t) \in Row
    <3>1. ledger[t] \in Row
      BY <2>2 DEF TypeOK
    <3> QED BY <3>1 DEF Row, States, OrNull
  <2>4. /\ ledger' \in [Requests -> Row]
        /\ reservation' \in [Requests -> Reservation]
    BY <2>1, <2>2, <2>3, SetRowType, HoldType DEF TypeOK
  <2> QED BY <1>1, <2>1, <2>4 DEF SyncPendingOrder, TypeOK, RenewLease
<1>2. ASSUME NEW p \in Portfolios, NEW ord \in Orders,
             NEW s \in {"CANCELLED", "REJECTED"}, TerminalOrder(p, ord, s)
      PROVE  TypeOK'
  <2>1. PICK t \in RowsByOrder(p, ord) :
          SetRow(t, [ledger[t] EXCEPT !.state = s]) /\ Release(t)
    BY <1>2 DEF TerminalOrder
  <2>2. t \in Requests
    BY DEF RowsByOrder
  <2>3. [ledger[t] EXCEPT !.state = s] \in Row
    BY <2>2 DEF TypeOK, Row, States, Terminal
  <2>4. /\ ledger' \in [Requests -> Row]
        /\ reservation' \in [Requests -> Reservation]
    BY <2>1, <2>2, <2>3, SetRowType, ReleaseType DEF TypeOK
  <2> QED BY <1>2, <2>4 DEF TerminalOrder, TypeOK
<1> QED BY <1>1, <1>2 DEF OrderReconciliation

LEMMA ModifyingType ==
  ASSUME TypeOK, Modifying
  PROVE  TypeOK'
<1>1. ASSUME NEW p \in Portfolios, NEW e \in Events, NEW pos \in Positions,
             NEW old \in Stops \cup {0}, NEW new \in Stops,
             PrepareModification(p, e, pos, old, new)
      PROVE  TypeOK'
  <2>1. PICK t \in RowsByPosition(p, pos) :
          \/ mods' = [mods EXCEPT ![p][e] =
               [request |-> t, position |-> pos, old |-> old,
                proposed |-> new, actual |-> 0, status |-> "PENDING"]]
          \/ /\ Rearms(mods[p][e])
             /\ mods' = [mods EXCEPT ![p][e] =
                  [@ EXCEPT !.status = "PENDING", !.actual = 0]]
    BY <1>1 DEF PrepareModification
  <2>2. [request |-> t, position |-> pos, old |-> old, proposed |-> new,
         actual |-> 0, status |-> "PENDING"] \in Modification
    BY DEF RowsByPosition, Modification
  <2>3. ASSUME Rearms(mods[p][e])
        PROVE  [mods[p][e] EXCEPT !.status = "PENDING", !.actual = 0]
                 \in Modification
    <3>1. mods[p][e] \in Modification
      BY <2>3, PendingIsModification DEF Rearms, TypeOK
    <3> QED BY <3>1 DEF Modification
  <2>4. PICK m \in Modification : mods' = [mods EXCEPT ![p][e] = m]
    <3>1. CASE mods' = [mods EXCEPT ![p][e] =
                 [request |-> t, position |-> pos, old |-> old,
                  proposed |-> new, actual |-> 0, status |-> "PENDING"]]
      BY <3>1, <2>2
    <3>2. CASE /\ Rearms(mods[p][e])
               /\ mods' = [mods EXCEPT ![p][e] =
                    [@ EXCEPT !.status = "PENDING", !.actual = 0]]
      BY <3>2, <2>3
    <3> QED BY <2>1, <3>1, <3>2
  <2>5. mods' \in [Portfolios -> [Events -> Modification \cup {NoModification}]]
    BY <2>4 DEF TypeOK
  <2> QED BY <1>1, <2>5 DEF PrepareModification, TypeOK
<1>2. ASSUME NEW p \in Portfolios, NEW e \in Events, NEW stop \in Stops,
             NEW k \in Risks \cup {0}, ConfirmModification(p, e, stop, k)
      PROVE  TypeOK'
  <2> DEFINE m == mods[p][e]
  <2>1. m \in Modification
    BY <1>2, PendingIsModification DEF ConfirmModification, TypeOK
  <2>2. [m EXCEPT !.status = "APPLIED", !.actual = stop] \in Modification
    BY <2>1 DEF Modification
  <2>3. mods' \in [Portfolios -> [Events -> Modification \cup {NoModification}]]
    BY <1>2, <2>2 DEF ConfirmModification, TypeOK
  <2>4. m.request \in Requests
    BY <2>1 DEF Modification
  <2>5. reservation' \in [Requests -> Reservation]
    BY <1>2, <2>4 DEF ConfirmModification, TypeOK, Reservation
  <2> QED BY <1>2, <2>3, <2>5 DEF ConfirmModification, TypeOK
<1> QED BY <1>1, <1>2 DEF Modifying

(***************************************************************************)
(* Type correctness of the ledger's tables: every handler writes rows,     *)
(* reservations, deals and modifications of the shape the models declare.  *)
(***************************************************************************)
THEOREM TypeCorrect == Spec => []TypeOK
<1>1. Init => TypeOK
  BY DEF Init, TypeOK, NoRow, Row, NoReservation, Reservation, OrNull
<1>2. TypeOK /\ [Next]_vars => TypeOK'
  <2> SUFFICES ASSUME TypeOK, [Next]_vars PROVE TypeOK'
    OBVIOUS
  <2>1. CASE Admission
    BY <2>1, ReserveType DEF Admission
  <2>2. CASE Report
    BY <2>2, AdvanceType, RepeatType DEF Report
  <2>3. CASE Leasing
    BY <2>3, LeasingType
  <2>4. CASE Reconciliation
    <3>1. ASSUME NEW p \in Portfolios, NEW r \in Requests,
                 NEW pos \in Positions, NEW ord \in OrNull(Orders),
                 NEW d \in OrNull(Deals), NEW k \in Risks \cup {0},
                 NEW stop \in Stops \cup {0},
                 SyncPosition(p, r, pos, ord, d, k, stop)
          PROVE  TypeOK'
      BY <3>1, AdoptType DEF SyncPosition, TypeOK
    <3>2. ASSUME NEW p \in Portfolios, NEW r \in Requests,
                 NEW pos \in Positions, NEW d \in Deals,
                 ClosePosition(p, r, pos, d)
          PROVE  TypeOK'
      BY <3>2, ClosureType DEF ClosePosition, TypeOK
    <3> QED BY <2>4, <3>1, <3>2, UpdateRiskType DEF Reconciliation
  <2>5. CASE DealReporting
    BY <2>5, DealEventType DEF DealReporting
  <2>6. CASE OrderReconciliation
    BY <2>6, OrderReconciliationType
  <2>7. CASE Modifying
    BY <2>7, ModifyingType
  <2>8. CASE UNCHANGED vars
    BY <2>8 DEF vars, TypeOK
  <2> QED BY <2>1, <2>2, <2>3, <2>4, <2>5, <2>6, <2>7, <2>8 DEF Next
<1> QED BY <1>1, <1>2, PTL DEF Spec

(***************************************************************************)
(* Holding a request's risk and releasing it: whatever row is written with *)
(* it, the invariant is kept if a held row is in the same portfolio and a  *)
(* released row is terminal.                                               *)
(***************************************************************************)

LEMMA HoldKeepsRisk ==
  ASSUME TypeOK, LiveRequestHoldsRisk,
         NEW t \in Requests, NEW p \in Portfolios, NEW k \in Risks \cup {0},
         NEW row \in Row, row.portfolio = p,
         SetRow(t, row), Hold(t, p, k)
  PROVE  LiveRequestHoldsRisk'
<1> SUFFICES ASSUME NEW r \in Requests, ledger'[r].state \in Live
             PROVE  /\ reservation'[r].status = "ACTIVE"
                    /\ reservation'[r].portfolio = ledger'[r].portfolio
  BY DEF LiveRequestHoldsRisk
<1>1. CASE r = t
  BY <1>1 DEF SetRow, Hold, TypeOK
<1>2. CASE r # t
  <2>1. ledger'[r] = ledger[r] /\ reservation'[r] = reservation[r]
    BY <1>2 DEF SetRow, Hold, TypeOK
  <2> QED BY <2>1 DEF LiveRequestHoldsRisk
<1> QED BY <1>1, <1>2

LEMMA ReleaseKeepsRisk ==
  ASSUME TypeOK, LiveRequestHoldsRisk,
         NEW t \in Requests, NEW row \in Row, row.state \in Terminal,
         SetRow(t, row), Release(t)
  PROVE  LiveRequestHoldsRisk'
<1> SUFFICES ASSUME NEW r \in Requests, ledger'[r].state \in Live
             PROVE  /\ reservation'[r].status = "ACTIVE"
                    /\ reservation'[r].portfolio = ledger'[r].portfolio
  BY DEF LiveRequestHoldsRisk
<1>1. r # t
  BY DEF SetRow, Live, TypeOK
<1>2. ledger'[r] = ledger[r] /\ reservation'[r] = reservation[r]
  BY <1>1 DEF SetRow, Release, TypeOK
<1> QED BY <1>2 DEF LiveRequestHoldsRisk

\* A row that stays as live as it was, in the same portfolio, needs no change
\* of its reservation.
LEMMA SameLivenessKeepsRisk ==
  ASSUME LiveRequestHoldsRisk, UNCHANGED reservation,
         \A r \in Requests :
           /\ ledger'[r].portfolio = ledger[r].portfolio
           /\ ledger'[r].state \in Live => ledger[r].state \in Live
  PROVE  LiveRequestHoldsRisk'
BY DEF LiveRequestHoldsRisk

LEMMA AdvanceKeepsRisk ==
  ASSUME TypeOK, LiveRequestHoldsRisk, NEW r \in Requests, NEW s \in States,
         NEW c \in Claims, NEW ids \in Identities, Advance(r, s, c, ids)
  PROVE  LiveRequestHoldsRisk'
<1> DEFINE row == [ledger[r] EXCEPT !.state = s,
                                    !.order = Given(ids.order, @),
                                    !.deal = Given(ids.deal, @),
                                    !.position = Given(ids.position, @)]
<1>1. ledger[r] \in Row /\ SetRow(r, row)
  BY DEF TypeOK, Advance
<1>2. row.state = s /\ row.portfolio = ledger[r].portfolio
  BY <1>1 DEF Row
<1>3. CASE s \in Terminal
  <2>1. row \in Row
    <3>1. /\ Given(ids.order, ledger[r].order) \in OrNull(Orders)
          /\ Given(ids.deal, ledger[r].deal) \in OrNull(Deals)
          /\ Given(ids.position, ledger[r].position) \in OrNull(Positions)
      BY <1>1, GivenType DEF Row, Identities
    <3> QED BY <1>1, <3>1 DEF Row
  <2>2. Release(r)
    BY <1>3 DEF Advance
  <2> HIDE DEF row
  <2> QED BY <1>1, <1>2, <1>3, <2>1, <2>2, ReleaseKeepsRisk
<1>4. CASE s \notin Terminal
  <2>1. ledger[r].state \in Live
    <3>1. ledger[r].state \in States /\ AllowedTransitions[ledger[r].state] # {}
      BY <1>1 DEF Advance, Known, Row
    <3> QED BY <3>1 DEF AllowedTransitions, Live, States, Terminal
  <2>2. UNCHANGED reservation
    BY <1>4 DEF Advance
  <2>3. \A q \in Requests : q # r => ledger'[q] = ledger[q]
    BY <1>1 DEF SetRow, TypeOK
  <2>4. ledger'[r] = row
    BY <1>1 DEF SetRow, TypeOK
  <2> HIDE DEF row
  <2> QED BY <1>2, <2>1, <2>2, <2>3, <2>4, SameLivenessKeepsRisk
<1> QED BY <1>3, <1>4

LEMMA RepeatKeepsRisk ==
  ASSUME TypeOK, LiveRequestHoldsRisk, NEW r \in Requests,
         NEW ids \in Identities, Repeat(r, ids)
  PROVE  LiveRequestHoldsRisk'
<1> DEFINE row == [ledger[r] EXCEPT !.order = Given(@, ids.order),
                                    !.deal = Given(@, ids.deal),
                                    !.position = Given(@, ids.position)]
<1>1. ledger[r] \in Row /\ SetRow(r, row)
  BY DEF TypeOK, Repeat
<1>2. row.state = ledger[r].state /\ row.portfolio = ledger[r].portfolio
  BY <1>1 DEF Row
<1> HIDE DEF row
<1>3. \A q \in Requests : /\ ledger'[q].state = ledger[q].state
                          /\ ledger'[q].portfolio = ledger[q].portfolio
  BY <1>1, <1>2 DEF SetRow, TypeOK
<1> QED BY <1>3, SameLivenessKeepsRisk DEF Repeat

LEMMA LeasingKeepsRisk ==
  ASSUME TypeOK, LiveRequestHoldsRisk, Leasing
  PROVE  LiveRequestHoldsRisk'
<1>1. CASE RecoverExpired
  <2>1. \A r \in Requests : ledger[r].state \in Leased => ledger[r].state \in Live
    BY DEF Leased, Live, States, Terminal
  <2>2. \A r \in Requests :
          /\ ledger'[r].portfolio = ledger[r].portfolio
          /\ ledger'[r].state \in Live => ledger[r].state \in Live
    <3>1. PICK late \in SUBSET {r \in Requests : Late(r)} :
            ledger' = [r \in Requests |->
              IF r \in late THEN [ledger[r] EXCEPT !.state = "RECOVERING"]
                            ELSE ledger[r]]
      BY <1>1 DEF RecoverExpired
    <3>2. \A r \in late : ledger[r].state \in Live
      BY <2>1 DEF Late
    <3> QED BY <3>1, <3>2 DEF TypeOK, Row
  <2> QED BY <1>1, <2>2, SameLivenessKeepsRisk DEF RecoverExpired
<1>2. CASE \E r \in Requests : LapseLease(r)
  BY <1>2 DEF LapseLease, LiveRequestHoldsRisk
<1> QED BY <1>1, <1>2 DEF Leasing

LEMMA AdoptKeepsRisk ==
  ASSUME TypeOK, LiveRequestHoldsRisk, NEW p \in Portfolios,
         NEW r \in Requests, NEW pos \in Positions, NEW ord \in OrNull(Orders),
         NEW d \in OrNull(Deals), NEW k \in Risks \cup {0}, NEW stop,
         AdoptOpenPosition(p, r, pos, ord, d, k, stop)
  PROVE  LiveRequestHoldsRisk'
<1> DEFINE row(t) == [portfolio |-> p,
                      state |-> "FILLED",
                      order |-> Given(ord, ledger[t].order),
                      deal |-> Given(d, ledger[t].deal),
                      position |-> pos]
<1>1. PICK t \in AdoptionTargets(p, r, pos, ord) :
        SetRow(t, row(t)) /\ Hold(t, p, k)
  BY DEF AdoptOpenPosition
<1>2. t \in Requests
  BY TargetsAreRequests
<1>3. ledger[t] \in Row
  BY <1>2 DEF TypeOK
<1>4. row(t) \in Row
  <2>1. /\ Given(ord, ledger[t].order) \in OrNull(Orders)
        /\ Given(d, ledger[t].deal) \in OrNull(Deals)
    BY <1>3, GivenType DEF Row
  <2> QED BY <1>3, <2>1 DEF Row, States, Given, OrNull
<1>5. row(t).portfolio = p
  OBVIOUS
<1> HIDE DEF row
<1> QED BY <1>1, <1>2, <1>4, <1>5, HoldKeepsRisk

LEMMA UpdateRiskKeepsRisk ==
  ASSUME TypeOK, LiveRequestHoldsRisk, NEW p \in Portfolios,
         NEW pos \in Positions, NEW k \in Risks \cup {0},
         UpdatePositionRisk(p, pos, k)
  PROVE  LiveRequestHoldsRisk'
<1> DEFINE row(t) == [ledger[t] EXCEPT
                        !.state = IF @ \in Terminal THEN "FILLED" ELSE @]
<1>1. PICK t \in RowsByPosition(p, pos) : SetRow(t, row(t)) /\ Hold(t, p, k)
  BY DEF UpdatePositionRisk
<1>2. t \in Requests /\ ledger[t].portfolio = p
  BY DEF RowsByPosition
<1>3. row(t) \in Row /\ row(t).portfolio = p
  BY <1>2 DEF TypeOK, Row, States
<1> HIDE DEF row
<1> QED BY <1>1, <1>2, <1>3, HoldKeepsRisk

LEMMA ClosureKeepsRisk ==
  ASSUME TypeOK, LiveRequestHoldsRisk, NEW p \in Portfolios,
         NEW r \in Requests, NEW pos \in Positions, NEW d \in Deals,
         RecordClosure(p, r, pos, d)
  PROVE  LiveRequestHoldsRisk'
<1> DEFINE row(t) == [ledger[t] EXCEPT !.state = "RECONCILED",
                                       !.position = pos,
                                       !.deal = d]
<1>1. PICK t \in ClosureTargets(p, r, pos) : SetRow(t, row(t)) /\ Release(t)
  BY DEF RecordClosure
<1>2. t \in Requests
  BY TargetsAreRequests
<1>3. row(t) \in Row /\ row(t).state \in Terminal
  BY <1>2 DEF TypeOK, Row, States, Terminal, OrNull
<1> HIDE DEF row
<1> QED BY <1>1, <1>2, <1>3, ReleaseKeepsRisk

LEMMA DealEventKeepsRisk ==
  ASSUME TypeOK, LiveRequestHoldsRisk, NEW p \in Portfolios,
         NEW r \in Requests, NEW d \in Deals, NEW event \in Deal,
         NEW open \in BOOLEAN, NEW k \in Risks \cup {0},
         DealEvent(p, r, d, event, open, k)
  PROVE  LiveRequestHoldsRisk'
<1>1. event.order \in OrNull(Orders) /\ event.position \in Positions
  BY DEF Deal
<1>2. d \in OrNull(Deals)
  BY DEF OrNull
<1>3. CASE AdoptOpenPosition(p, r, event.position, event.order, d, k, 0)
  BY <1>1, <1>2, <1>3, AdoptKeepsRisk
<1>4. CASE RecordClosure(p, r, event.position, d)
  BY <1>1, <1>4, ClosureKeepsRisk
<1>5. CASE UNCHANGED <<ledger, reservation, expired, mods>>
  BY <1>5 DEF LiveRequestHoldsRisk
<1> QED BY <1>3, <1>4, <1>5 DEF DealEvent

LEMMA OrderReconciliationKeepsRisk ==
  ASSUME TypeOK, LiveRequestHoldsRisk, OrderReconciliation
  PROVE  LiveRequestHoldsRisk'
<1>1. ASSUME NEW p \in Portfolios, NEW ord \in Orders, NEW r \in Requests,
             NEW k \in Risks, SyncPendingOrder(p, r, ord, k)
      PROVE  LiveRequestHoldsRisk'
  <2> DEFINE row(t) == [ledger[t] EXCEPT
                          !.portfolio = p,
                          !.state = IF @ \in Terminal \cup {"FILLED"} THEN @
                                                                     ELSE "ACKED",
                          !.order = ord]
  <2>1. PICK t \in PendingOrderTargets(p, r, ord) :
          SetRow(t, row(t)) /\ Hold(t, p, k)
    BY <1>1 DEF SyncPendingOrder
  <2>2. t \in Requests
    BY TargetsAreRequests
  <2>3. row(t) \in Row /\ row(t).portfolio = p
    BY <2>2 DEF TypeOK, Row, States, OrNull
  <2> HIDE DEF row
  <2> QED BY <2>1, <2>2, <2>3, HoldKeepsRisk
<1>2. ASSUME NEW p \in Portfolios, NEW ord \in Orders,
             NEW s \in {"CANCELLED", "REJECTED"}, TerminalOrder(p, ord, s)
      PROVE  LiveRequestHoldsRisk'
  <2> DEFINE row(t) == [ledger[t] EXCEPT !.state = s]
  <2>1. PICK t \in RowsByOrder(p, ord) : SetRow(t, row(t)) /\ Release(t)
    BY <1>2 DEF TerminalOrder
  <2>2. t \in Requests
    BY DEF RowsByOrder
  <2>3. row(t) \in Row /\ row(t).state \in Terminal
    BY <2>2 DEF TypeOK, Row, States, Terminal
  <2> HIDE DEF row
  <2> QED BY <2>1, <2>2, <2>3, ReleaseKeepsRisk
<1> QED BY <1>1, <1>2 DEF OrderReconciliation

LEMMA ModifyingKeepsRisk ==
  ASSUME TypeOK, LiveRequestHoldsRisk, Modifying
  PROVE  LiveRequestHoldsRisk'
<1>1. ASSUME NEW p \in Portfolios, NEW e \in Events, NEW pos \in Positions,
             NEW old \in Stops \cup {0}, NEW new \in Stops,
             PrepareModification(p, e, pos, old, new)
      PROVE  LiveRequestHoldsRisk'
  BY <1>1 DEF PrepareModification, LiveRequestHoldsRisk
<1>2. ASSUME NEW p \in Portfolios, NEW e \in Events, NEW stop \in Stops,
             NEW k \in Risks \cup {0}, ConfirmModification(p, e, stop, k)
      PROVE  LiveRequestHoldsRisk'
  <2>1. \A r \in Requests :
          /\ reservation'[r].status = reservation[r].status
          /\ reservation'[r].portfolio = reservation[r].portfolio
    BY <1>2 DEF ConfirmModification, TypeOK, Reservation
  <2>2. UNCHANGED ledger
    BY <1>2 DEF ConfirmModification
  <2> QED BY <2>1, <2>2 DEF LiveRequestHoldsRisk
<1> QED BY <1>1, <1>2 DEF Modifying

LEMMA ReserveKeepsRisk ==
  ASSUME TypeOK, LiveRequestHoldsRisk, NEW p \in Portfolios,
         NEW r \in Requests, NEW k \in Risks, Reserve(p, r, k)
  PROVE  LiveRequestHoldsRisk'
<1> SUFFICES ASSUME NEW q \in Requests, ledger'[q].state \in Live
             PROVE  /\ reservation'[q].status = "ACTIVE"
                    /\ reservation'[q].portfolio = ledger'[q].portfolio
  BY DEF LiveRequestHoldsRisk
<1>1. CASE q = r
  BY <1>1 DEF Reserve, SetRow, NoRow, TypeOK
<1>2. CASE q # r
  <2>1. ledger'[q] = ledger[q] /\ reservation'[q] = reservation[q]
    BY <1>2 DEF Reserve, SetRow, TypeOK
  <2> QED BY <2>1 DEF LiveRequestHoldsRisk
<1> QED BY <1>1, <1>2

(***************************************************************************)
(* A request that may have an order or a position at the broker has its    *)
(* risk held, as ACTIVE and in its own portfolio, in every state the       *)
(* handlers of the bridge can reach in any order of calls.                 *)
(***************************************************************************)
THEOREM RiskHeldWhileLive == Spec => []LiveRequestHoldsRisk
<1>1. Init => LiveRequestHoldsRisk
  BY DEF Init, LiveRequestHoldsRisk, NoRow, Live, States, Terminal
<1>2. TypeOK /\ LiveRequestHoldsRisk /\ [Next]_vars => LiveRequestHoldsRisk'
  <2> SUFFICES ASSUME TypeOK, LiveRequestHoldsRisk, [Next]_vars
               PROVE  LiveRequestHoldsRisk'
    OBVIOUS
  <2>1. CASE Admission
    BY <2>1, ReserveKeepsRisk DEF Admission
  <2>2. CASE Report
    BY <2>2, AdvanceKeepsRisk, RepeatKeepsRisk DEF Report
  <2>3. CASE Leasing
    BY <2>3, LeasingKeepsRisk
  <2>4. CASE Reconciliation
    <3>1. ASSUME NEW p \in Portfolios, NEW r \in Requests,
                 NEW pos \in Positions, NEW ord \in OrNull(Orders),
                 NEW d \in OrNull(Deals), NEW k \in Risks \cup {0},
                 NEW stop \in Stops \cup {0},
                 SyncPosition(p, r, pos, ord, d, k, stop)
          PROVE  LiveRequestHoldsRisk'
      BY <3>1, AdoptKeepsRisk DEF SyncPosition
    <3>2. ASSUME NEW p \in Portfolios, NEW r \in Requests,
                 NEW pos \in Positions, NEW d \in Deals,
                 ClosePosition(p, r, pos, d)
          PROVE  LiveRequestHoldsRisk'
      BY <3>2, ClosureKeepsRisk DEF ClosePosition
    <3> QED BY <2>4, <3>1, <3>2, UpdateRiskKeepsRisk DEF Reconciliation
  <2>5. CASE DealReporting
    BY <2>5, DealEventKeepsRisk DEF DealReporting
  <2>6. CASE OrderReconciliation
    BY <2>6, OrderReconciliationKeepsRisk
  <2>7. CASE Modifying
    BY <2>7, ModifyingKeepsRisk
  <2>8. CASE UNCHANGED vars
    BY <2>8 DEF vars, LiveRequestHoldsRisk
  <2> QED BY <2>1, <2>2, <2>3, <2>4, <2>5, <2>6, <2>7, <2>8 DEF Next
<1> QED BY <1>1, <1>2, TypeCorrect, PTL DEF Spec

(***************************************************************************)
(* A row written in one place leaves every other row as backed as it was.  *)
(***************************************************************************)

Backed(row) ==
  /\ row.state = "ACKED" => row.order # NoRef
  /\ row.state = "FILLED" => HasBrokerReference(row)

LEMMA SetRowKeepsBacked ==
  ASSUME TypeOK, BrokerStatesAreBacked, NEW r \in Requests, NEW row,
         Backed(row), SetRow(r, row)
  PROVE  BrokerStatesAreBacked'
<1> SUFFICES ASSUME NEW q \in Requests
             PROVE  Backed(ledger'[q])
  BY DEF BrokerStatesAreBacked, Backed
<1>1. CASE q = r
  BY <1>1 DEF SetRow, TypeOK
<1>2. CASE q # r
  <2>1. ledger'[q] = ledger[q]
    BY <1>2 DEF SetRow, TypeOK
  <2> QED BY <2>1 DEF BrokerStatesAreBacked, Backed
<1> QED BY <1>1, <1>2

\* A transition into ACKED or FILLED brings or finds the identity it asserts.
LEMMA AdvanceKeepsBacked ==
  ASSUME TypeOK, BrokerStatesAreBacked, NEW r \in Requests, NEW s \in States,
         NEW c \in Claims, NEW ids \in Identities, Advance(r, s, c, ids)
  PROVE  BrokerStatesAreBacked'
<1> DEFINE row == [ledger[r] EXCEPT !.state = s,
                                    !.order = Given(ids.order, @),
                                    !.deal = Given(ids.deal, @),
                                    !.position = Given(ids.position, @)]
<1>1. SetRow(r, row) /\ HasEvidence(ledger[r], s, c, ids)
  BY DEF Advance
<1>2. ledger[r] \in Row
  BY DEF TypeOK
<1>3. /\ row.state = s
      /\ row.order = Given(ids.order, ledger[r].order)
      /\ row.deal = Given(ids.deal, ledger[r].deal)
      /\ row.position = Given(ids.position, ledger[r].position)
  BY <1>2 DEF Row
<1>4. Backed(row)
  <2>1. s = "ACKED" => row.order # NoRef
    BY <1>1, <1>3 DEF HasEvidence, Given
  <2>2. s = "FILLED" => HasBrokerReference(row)
    BY <1>1, <1>3 DEF HasEvidence, HasBrokerReference, Given
  <2> QED BY <1>3, <2>1, <2>2 DEF Backed
<1> HIDE DEF row
<1> QED BY <1>1, <1>4, SetRowKeepsBacked

LEMMA RepeatKeepsBacked ==
  ASSUME TypeOK, BrokerStatesAreBacked, NEW r \in Requests,
         NEW ids \in Identities, Repeat(r, ids)
  PROVE  BrokerStatesAreBacked'
<1> DEFINE row == [ledger[r] EXCEPT !.order = Given(@, ids.order),
                                    !.deal = Given(@, ids.deal),
                                    !.position = Given(@, ids.position)]
<1>1. SetRow(r, row)
  BY DEF Repeat
<1>2. ledger[r] \in Row /\ Backed(ledger[r])
  BY DEF TypeOK, BrokerStatesAreBacked, Backed
<1>3. /\ row.state = ledger[r].state
      /\ row.order = Given(ledger[r].order, ids.order)
      /\ row.deal = Given(ledger[r].deal, ids.deal)
      /\ row.position = Given(ledger[r].position, ids.position)
  BY <1>2 DEF Row
<1>4. Backed(row)
  BY <1>2, <1>3 DEF Backed, HasBrokerReference, Given
<1> HIDE DEF row
<1> QED BY <1>1, <1>4, SetRowKeepsBacked

LEMMA AdoptKeepsBacked ==
  ASSUME TypeOK, BrokerStatesAreBacked, NEW p \in Portfolios,
         NEW r \in Requests, NEW pos \in Positions, NEW ord, NEW d, NEW k,
         NEW stop, AdoptOpenPosition(p, r, pos, ord, d, k, stop)
  PROVE  BrokerStatesAreBacked'
<1> DEFINE row(t) == [portfolio |-> p,
                      state |-> "FILLED",
                      order |-> Given(ord, ledger[t].order),
                      deal |-> Given(d, ledger[t].deal),
                      position |-> pos]
<1>1. PICK t \in AdoptionTargets(p, r, pos, ord) : SetRow(t, row(t))
  BY DEF AdoptOpenPosition
<1>2. t \in Requests
  BY TargetsAreRequests
<1>3. Backed(row(t))
  BY NullAssumption DEF Backed, HasBrokerReference
<1> HIDE DEF row
<1> QED BY <1>1, <1>2, <1>3, SetRowKeepsBacked

LEMMA ClosureKeepsBacked ==
  ASSUME TypeOK, BrokerStatesAreBacked, NEW p \in Portfolios,
         NEW r \in Requests, NEW pos \in Positions, NEW d \in Deals,
         RecordClosure(p, r, pos, d)
  PROVE  BrokerStatesAreBacked'
<1> DEFINE row(t) == [ledger[t] EXCEPT !.state = "RECONCILED",
                                       !.position = pos,
                                       !.deal = d]
<1>1. PICK t \in ClosureTargets(p, r, pos) : SetRow(t, row(t))
  BY DEF RecordClosure
<1>2. t \in Requests
  BY TargetsAreRequests
<1>3. Backed(row(t))
  BY <1>2 DEF Backed, TypeOK, Row
<1> HIDE DEF row
<1> QED BY <1>1, <1>2, <1>3, SetRowKeepsBacked

LEMMA SnapshotKeepsBacked ==
  ASSUME TypeOK, BrokerStatesAreBacked, NEW p \in Portfolios
  PROVE  /\ \A pos \in Positions, k \in Risks \cup {0} :
              UpdatePositionRisk(p, pos, k) => BrokerStatesAreBacked'
         /\ \A r \in Requests, ord \in Orders, k \in Risks :
              SyncPendingOrder(p, r, ord, k) => BrokerStatesAreBacked'
         /\ \A ord \in Orders, s \in {"CANCELLED", "REJECTED"} :
              TerminalOrder(p, ord, s) => BrokerStatesAreBacked'
<1>1. ASSUME NEW pos \in Positions, NEW k \in Risks \cup {0},
             UpdatePositionRisk(p, pos, k)
      PROVE  BrokerStatesAreBacked'
  <2> DEFINE row(t) == [ledger[t] EXCEPT
                          !.state = IF @ \in Terminal THEN "FILLED" ELSE @]
  <2>1. PICK t \in RowsByPosition(p, pos) : SetRow(t, row(t))
    BY <1>1 DEF UpdatePositionRisk
  <2>2. t \in Requests /\ ledger[t].position = pos /\ ledger[t] \in Row
    BY DEF RowsByPosition, TypeOK
  <2>3. row(t).position # NoRef /\ row(t).order = ledger[t].order
    BY <2>2, NullAssumption DEF Row
  <2>4. row(t).state = "ACKED" => ledger[t].state = "ACKED"
    BY <2>2 DEF Row, Terminal
  <2>5. Backed(row(t))
    BY <2>2, <2>3, <2>4 DEF Backed, HasBrokerReference, BrokerStatesAreBacked
  <2> HIDE DEF row
  <2> QED BY <2>1, <2>2, <2>5, SetRowKeepsBacked
<1>2. ASSUME NEW r \in Requests, NEW ord \in Orders, NEW k \in Risks,
             SyncPendingOrder(p, r, ord, k)
      PROVE  BrokerStatesAreBacked'
  <2> DEFINE row(t) == [ledger[t] EXCEPT
                          !.portfolio = p,
                          !.state = IF @ \in Terminal \cup {"FILLED"} THEN @
                                                                     ELSE "ACKED",
                          !.order = ord]
  <2>1. PICK t \in PendingOrderTargets(p, r, ord) : SetRow(t, row(t))
    BY <1>2 DEF SyncPendingOrder
  <2>2. t \in Requests /\ ledger[t] \in Row
    BY TargetsAreRequests DEF TypeOK
  <2>3. row(t).order = ord
    BY <2>2 DEF Row
  <2>4. Backed(row(t))
    BY <2>3, NullAssumption DEF Backed, HasBrokerReference
  <2> HIDE DEF row
  <2> QED BY <2>1, <2>2, <2>4, SetRowKeepsBacked
<1>3. ASSUME NEW ord \in Orders, NEW s \in {"CANCELLED", "REJECTED"},
             TerminalOrder(p, ord, s)
      PROVE  BrokerStatesAreBacked'
  <2> DEFINE row(t) == [ledger[t] EXCEPT !.state = s]
  <2>1. PICK t \in RowsByOrder(p, ord) : SetRow(t, row(t))
    BY <1>3 DEF TerminalOrder
  <2>2. t \in Requests /\ ledger[t] \in Row
    BY DEF RowsByOrder, TypeOK
  <2>3. Backed(row(t))
    BY <2>2 DEF Backed, Row
  <2> HIDE DEF row
  <2> QED BY <2>1, <2>2, <2>3, SetRowKeepsBacked
<1> QED BY <1>1, <1>2, <1>3

LEMMA DealEventKeepsBacked ==
  ASSUME TypeOK, BrokerStatesAreBacked, NEW p \in Portfolios,
         NEW r \in Requests, NEW d \in Deals, NEW event \in Deal,
         NEW open \in BOOLEAN, NEW k, DealEvent(p, r, d, event, open, k)
  PROVE  BrokerStatesAreBacked'
<1>1. event.position \in Positions
  BY DEF Deal
<1>2. CASE AdoptOpenPosition(p, r, event.position, event.order, d, k, 0)
  BY <1>1, <1>2, AdoptKeepsBacked
<1>3. CASE RecordClosure(p, r, event.position, d)
  BY <1>1, <1>3, ClosureKeepsBacked
<1>4. CASE UNCHANGED <<ledger, reservation, expired, mods>>
  BY <1>4 DEF BrokerStatesAreBacked, HasBrokerReference
<1> QED BY <1>2, <1>3, <1>4 DEF DealEvent

(***************************************************************************)
(* A request in a state that asserts something of the broker names what    *)
(* the assertion is about: no order of reports, repeated reports, lapsed   *)
(* leases and observations reaches ACKED without an order or FILLED        *)
(* without any broker object.                                              *)
(***************************************************************************)
THEOREM StatesNameTheBroker == Spec => []BrokerStatesAreBacked
<1>1. Init => BrokerStatesAreBacked
  BY DEF Init, BrokerStatesAreBacked, NoRow
<1>2. TypeOK /\ BrokerStatesAreBacked /\ [Next]_vars => BrokerStatesAreBacked'
  <2> SUFFICES ASSUME TypeOK, BrokerStatesAreBacked, [Next]_vars
               PROVE  BrokerStatesAreBacked'
    OBVIOUS
  <2>1. CASE Admission
    <3>1. ASSUME NEW p \in Portfolios, NEW r \in Requests, NEW k \in Risks,
                 Reserve(p, r, k)
          PROVE  BrokerStatesAreBacked'
      <4>1. Backed([NoRow EXCEPT !.portfolio = p, !.state = "RESERVED"])
        BY DEF Backed, NoRow
      <4> QED BY <3>1, <4>1, SetRowKeepsBacked DEF Reserve
    <3> QED BY <2>1, <3>1 DEF Admission
  <2>2. CASE Report
    BY <2>2, AdvanceKeepsBacked, RepeatKeepsBacked DEF Report
  <2>3. CASE Leasing
    <3>1. CASE RecoverExpired
      <4>1. PICK late \in SUBSET Requests :
              ledger' = [r \in Requests |->
                IF r \in late THEN [ledger[r] EXCEPT !.state = "RECOVERING"]
                              ELSE ledger[r]]
        BY <3>1 DEF RecoverExpired
      <4> SUFFICES ASSUME NEW q \in Requests
                   PROVE  Backed(ledger'[q])
        BY DEF BrokerStatesAreBacked, Backed
      <4>2. CASE q \in late
        BY <4>1, <4>2 DEF Backed, TypeOK, Row
      <4>3. CASE q \notin late
        <5>1. ledger'[q] = ledger[q]
          BY <4>1, <4>3
        <5> QED BY <5>1 DEF Backed, BrokerStatesAreBacked
      <4> QED BY <4>2, <4>3
    <3>2. CASE \E r \in Requests : LapseLease(r)
      BY <3>2 DEF LapseLease, BrokerStatesAreBacked, HasBrokerReference
    <3> QED BY <2>3, <3>1, <3>2 DEF Leasing
  <2>4. CASE Reconciliation
    BY <2>4, AdoptKeepsBacked, ClosureKeepsBacked, SnapshotKeepsBacked
       DEF Reconciliation, SyncPosition, ClosePosition
  <2>5. CASE DealReporting
    BY <2>5, DealEventKeepsBacked DEF DealReporting
  <2>6. CASE OrderReconciliation
    BY <2>6, SnapshotKeepsBacked DEF OrderReconciliation
  <2>7. CASE Modifying
    <3>1. ASSUME NEW p \in Portfolios, NEW e \in Events, NEW pos \in Positions,
                 NEW old \in Stops \cup {0}, NEW new \in Stops,
                 PrepareModification(p, e, pos, old, new)
          PROVE  UNCHANGED ledger
      BY <3>1 DEF PrepareModification
    <3>2. ASSUME NEW p \in Portfolios, NEW e \in Events, NEW stop \in Stops,
                 NEW k \in Risks \cup {0}, ConfirmModification(p, e, stop, k)
          PROVE  UNCHANGED ledger
      BY <3>2 DEF ConfirmModification
    <3>3. UNCHANGED ledger
      BY <2>7, <3>1, <3>2 DEF Modifying
    <3> QED BY <3>3 DEF BrokerStatesAreBacked, HasBrokerReference
  <2>8. CASE UNCHANGED vars
    BY <2>8 DEF vars, BrokerStatesAreBacked, HasBrokerReference
  <2> QED BY <2>1, <2>2, <2>3, <2>4, <2>5, <2>6, <2>7, <2>8 DEF Next
<1> QED BY <1>1, <1>2, TypeCorrect, PTL DEF Spec

(***************************************************************************)
(* What a handler does to a resolved intent: snapshots and closures touch  *)
(* pending ones only, an intent is armed again only from a state that is   *)
(* not final, and a confirmation is of a pending one.                      *)
(***************************************************************************)

FinalStays(p, e) ==
  mods[p][e].status \in {"APPLIED", "POSITION_CLOSED"} => mods'[p][e] = mods[p][e]

LEMMA SnapshotKeepsFinal ==
  ASSUME TypeOK, NEW q \in Portfolios, NEW pos, NEW stop,
         ResolveBySnapshot(q, pos, stop) \/ ResolveByClose(q, pos)
  PROVE  \A p \in Portfolios, e \in Events : FinalStays(p, e)
<1> SUFFICES ASSUME NEW p \in Portfolios, NEW e \in Events,
                    mods[p][e].status \in {"APPLIED", "POSITION_CLOSED"}
             PROVE  mods'[p][e] = mods[p][e]
  BY DEF FinalStays
<1>1. CASE p # q
  BY <1>1 DEF ResolveBySnapshot, ResolveByClose, TypeOK
<1>2. CASE p = q
  <2>1. e \notin PendingOn(p, pos)
    BY DEF PendingOn, PendingIn
  <2> QED BY <1>2, <2>1 DEF ResolveBySnapshot, ResolveByClose, TypeOK
<1> QED BY <1>1, <1>2

LEMMA ModifyingKeepsFinal ==
  ASSUME TypeOK, Modifying
  PROVE  \A p \in Portfolios, e \in Events : FinalStays(p, e)
<1>1. PICK q \in Portfolios, f \in Events :
        /\ \E m : mods' = [mods EXCEPT ![q][f] = m]
        /\ mods[q][f].status \in {"NONE", "SNAPSHOT_RECONCILED", "PENDING"}
  <2>1. ASSUME NEW q \in Portfolios, NEW f \in Events, NEW pos \in Positions,
               NEW old \in Stops \cup {0}, NEW new \in Stops,
               PrepareModification(q, f, pos, old, new)
        PROVE  /\ \E m : mods' = [mods EXCEPT ![q][f] = m]
               /\ mods[q][f].status \in {"NONE", "SNAPSHOT_RECONCILED"}
    BY <2>1 DEF PrepareModification, NoModification, Rearms
  <2>2. ASSUME NEW q \in Portfolios, NEW f \in Events, NEW stop \in Stops,
               NEW k \in Risks \cup {0}, ConfirmModification(q, f, stop, k)
        PROVE  /\ \E m : mods' = [mods EXCEPT ![q][f] = m]
               /\ mods[q][f].status = "PENDING"
    BY <2>2 DEF ConfirmModification
  <2> QED BY <2>1, <2>2 DEF Modifying
<1> SUFFICES ASSUME NEW p \in Portfolios, NEW e \in Events,
                    mods[p][e].status \in {"APPLIED", "POSITION_CLOSED"}
             PROVE  mods'[p][e] = mods[p][e]
  BY DEF FinalStays
<1>2. p # q \/ e # f
  BY <1>1
<1> QED BY <1>1, <1>2 DEF TypeOK

(***************************************************************************)
(* The outcome of a stop modification that is final stays: no delivery,    *)
(* late or repeated, arms an APPLIED or POSITION_CLOSED intent again.      *)
(***************************************************************************)
THEOREM OutcomesAreFinal == Spec => FinalOutcomesStay
<1> DEFINE Stays == \A p \in Portfolios, e \in Events : FinalStays(p, e)
<1>1. TypeOK /\ [Next]_vars => Stays
  <2> SUFFICES ASSUME TypeOK, [Next]_vars
               PROVE  Stays
    OBVIOUS
  <2>1. CASE UNCHANGED mods
    BY <2>1 DEF FinalStays
  <2>2. CASE Reconciliation
    <3>1. ASSUME NEW p \in Portfolios, NEW r \in Requests,
                 NEW pos \in Positions, NEW ord \in OrNull(Orders),
                 NEW d \in OrNull(Deals), NEW k \in Risks \cup {0},
                 NEW stop \in Stops \cup {0},
                 SyncPosition(p, r, pos, ord, d, k, stop)
          PROVE  Stays
      BY <3>1, SnapshotKeepsFinal DEF SyncPosition, AdoptOpenPosition
    <3>2. ASSUME NEW p \in Portfolios, NEW r \in Requests,
                 NEW pos \in Positions, NEW d \in Deals,
                 ClosePosition(p, r, pos, d)
          PROVE  Stays
      BY <3>2, SnapshotKeepsFinal DEF ClosePosition, RecordClosure
    <3>3. ASSUME NEW p \in Portfolios, NEW pos \in Positions,
                 NEW k \in Risks \cup {0}, UpdatePositionRisk(p, pos, k)
          PROVE  Stays
      BY <3>3, <2>1 DEF UpdatePositionRisk
    <3> HIDE DEF Stays
    <3> QED BY <2>2, <3>1, <3>2, <3>3 DEF Reconciliation
  <2>3. CASE DealReporting
    <3>1. ASSUME NEW p \in Portfolios, NEW r \in Requests, NEW d \in Deals,
                 NEW event \in Deal, NEW open \in BOOLEAN, NEW k,
                 DealEvent(p, r, d, event, open, k)
          PROVE  Stays
      <4>1. CASE AdoptOpenPosition(p, r, event.position, event.order, d, k, 0)
        BY <4>1, SnapshotKeepsFinal DEF AdoptOpenPosition
      <4>2. CASE RecordClosure(p, r, event.position, d)
        BY <4>2, SnapshotKeepsFinal DEF RecordClosure
      <4>3. CASE UNCHANGED <<ledger, reservation, expired, mods>>
        BY <4>3, <2>1
      <4> QED BY <3>1, <4>1, <4>2, <4>3 DEF DealEvent
    <3> HIDE DEF Stays
    <3> QED BY <2>3, <3>1 DEF DealReporting
  <2>4. CASE Modifying
    BY <2>4, ModifyingKeepsFinal
  <2>5. CASE Admission \/ Report \/ Leasing \/ OrderReconciliation
    <3>1. Admission => UNCHANGED mods
      BY DEF Admission, Reserve
    <3>2. Report => UNCHANGED mods
      <4>1. ASSUME NEW r \in Requests, NEW s \in States, NEW c \in Claims,
                   NEW ids \in Identities, Advance(r, s, c, ids)
            PROVE  UNCHANGED mods
        BY <4>1 DEF Advance
      <4>2. ASSUME NEW r \in Requests, NEW ids \in Identities, Repeat(r, ids)
            PROVE  UNCHANGED mods
        BY <4>2 DEF Repeat
      <4> QED BY <4>1, <4>2 DEF Report
    <3>3. Leasing => UNCHANGED mods
      BY DEF Leasing, RecoverExpired, LapseLease
    <3>4. OrderReconciliation => UNCHANGED mods
      <4>1. ASSUME NEW p \in Portfolios, NEW ord \in Orders, NEW r \in Requests,
                   NEW k \in Risks, SyncPendingOrder(p, r, ord, k)
            PROVE  UNCHANGED mods
        BY <4>1 DEF SyncPendingOrder
      <4>2. ASSUME NEW p \in Portfolios, NEW ord \in Orders,
                   NEW s \in {"CANCELLED", "REJECTED"}, TerminalOrder(p, ord, s)
            PROVE  UNCHANGED mods
        BY <4>2 DEF TerminalOrder
      <4> QED BY <4>1, <4>2 DEF OrderReconciliation
    <3> QED BY <2>1, <2>5, <3>1, <3>2, <3>3, <3>4
  <2>6. CASE UNCHANGED vars
    BY <2>1, <2>6 DEF vars
  <2> QED BY <2>2, <2>3, <2>4, <2>5, <2>6 DEF Next
<1>2. TypeOK /\ [Next]_vars => [Stays]_vars
  BY <1>1
<1>3. Spec => [][Stays]_vars
  BY <1>2, TypeCorrect, PTL DEF Spec
<1> QED BY <1>3 DEF FinalOutcomesStay, FinalStays

(***************************************************************************)
(* What a handler does to the risk of a known request.                     *)
(***************************************************************************)

\* The two halves of the property that speak of the tables alone.
RisesByObservation(r) ==
  RiskRises(r) => ledger'[r].order # NoRef \/ ledger'[r].position # NoRef

RevivedAsFilled(r) ==
  Revives(r) => /\ ledger'[r].state = "FILLED"
                /\ ledger'[r].position # NoRef
                /\ reservation'[r].status = "ACTIVE"

LEMMA SameRiskRises ==
  ASSUME TypeOK, NEW q \in Requests, reservation'[q] = reservation[q]
  PROVE  RisesByObservation(q)
<1>1. reservation[q].risk \in Risks \cup {0}
  BY DEF TypeOK, Reservation
<1>2. Risks \cup {0} \subseteq Nat
  BY SizesAssumption
<1>3. reservation[q].risk \in Nat
  BY <1>1, <1>2
<1>4. ~(reservation[q].risk > reservation[q].risk)
  BY <1>3
<1> QED BY <1>4 DEF RisesByObservation, RiskRises, Known

LEMMA HoldRises ==
  ASSUME TypeOK, NEW r \in Requests, NEW row, NEW p, NEW k,
         SetRow(r, row), Hold(r, p, k), row.order # NoRef \/ row.position # NoRef
  PROVE  \A q \in Requests : RisesByObservation(q)
<1> TAKE q \in Requests
<1>1. CASE q = r
  BY <1>1 DEF SetRow, TypeOK, RisesByObservation, RiskRises
<1>2. CASE q # r
  <2>1. reservation'[q] = reservation[q]
    BY <1>2 DEF Hold, TypeOK
  <2> QED BY <2>1, SameRiskRises
<1> QED BY <1>1, <1>2

LEMMA ReleaseRises ==
  ASSUME TypeOK, NEW r \in Requests, Release(r)
  PROVE  \A q \in Requests : RisesByObservation(q)
<1> TAKE q \in Requests
<1>1. CASE q = r
  <2>1. reservation[r] \in Reservation
    BY DEF TypeOK
  <2>2. reservation'[r] = [reservation[r] EXCEPT
          !.status = IF @ = "NONE" THEN @ ELSE "RELEASED"]
    BY DEF Release, TypeOK
  <2>3. reservation'[r].status # "ACTIVE"
    BY <2>1, <2>2 DEF Reservation
  <2> QED BY <1>1, <2>3 DEF RisesByObservation, RiskRises
<1>2. CASE q # r
  <2>1. reservation'[q] = reservation[q]
    BY <1>2 DEF Release, TypeOK
  <2> QED BY <2>1, SameRiskRises
<1> QED BY <1>1, <1>2

LEMMA AdoptRises ==
  ASSUME TypeOK, NEW p \in Portfolios, NEW r \in Requests,
         NEW pos \in Positions, NEW ord, NEW d, NEW k, NEW stop,
         AdoptOpenPosition(p, r, pos, ord, d, k, stop)
  PROVE  \A q \in Requests : RisesByObservation(q)
<1> DEFINE row(t) == [portfolio |-> p,
                      state |-> "FILLED",
                      order |-> Given(ord, ledger[t].order),
                      deal |-> Given(d, ledger[t].deal),
                      position |-> pos]
<1>1. PICK t \in AdoptionTargets(p, r, pos, ord) :
        SetRow(t, row(t)) /\ Hold(t, p, k)
  BY DEF AdoptOpenPosition
<1>2. t \in Requests
  BY TargetsAreRequests
<1>3. row(t).position # NoRef
  BY NullAssumption
<1> HIDE DEF row
<1> QED BY <1>1, <1>2, <1>3, HoldRises

LEMMA ClosureRises ==
  ASSUME TypeOK, NEW p \in Portfolios, NEW r \in Requests,
         NEW pos, NEW d, RecordClosure(p, r, pos, d)
  PROVE  \A q \in Requests : RisesByObservation(q)
<1>1. PICK t \in ClosureTargets(p, r, pos) : Release(t)
  BY DEF RecordClosure
<1>2. t \in Requests
  BY TargetsAreRequests
<1> QED BY <1>1, <1>2, ReleaseRises

LEMMA UpdateRiskRises ==
  ASSUME TypeOK, NEW p \in Portfolios, NEW pos \in Positions, NEW k,
         UpdatePositionRisk(p, pos, k)
  PROVE  \A q \in Requests : RisesByObservation(q)
<1> DEFINE row(t) == [ledger[t] EXCEPT
                        !.state = IF @ \in Terminal THEN "FILLED" ELSE @]
<1>1. PICK t \in RowsByPosition(p, pos) : SetRow(t, row(t)) /\ Hold(t, p, k)
  BY DEF UpdatePositionRisk
<1>2. t \in Requests /\ ledger[t].position = pos /\ ledger[t] \in Row
  BY DEF RowsByPosition, TypeOK
<1>3. row(t).position # NoRef
  BY <1>2, NullAssumption DEF Row
<1> HIDE DEF row
<1> QED BY <1>1, <1>2, <1>3, HoldRises

LEMMA OrderReconciliationRises ==
  ASSUME TypeOK, OrderReconciliation
  PROVE  \A q \in Requests : RisesByObservation(q)
<1>1. ASSUME NEW p \in Portfolios, NEW ord \in Orders, NEW r \in Requests,
             NEW k \in Risks, SyncPendingOrder(p, r, ord, k)
      PROVE  \A q \in Requests : RisesByObservation(q)
  <2> DEFINE row(t) == [ledger[t] EXCEPT
                          !.portfolio = p,
                          !.state = IF @ \in Terminal \cup {"FILLED"} THEN @
                                                                     ELSE "ACKED",
                          !.order = ord]
  <2>1. PICK t \in PendingOrderTargets(p, r, ord) :
          SetRow(t, row(t)) /\ Hold(t, p, k)
    BY <1>1 DEF SyncPendingOrder
  <2>2. t \in Requests /\ ledger[t] \in Row
    BY TargetsAreRequests DEF TypeOK
  <2>3. row(t).order # NoRef
    BY <2>2, NullAssumption DEF Row
  <2> HIDE DEF row
  <2> QED BY <2>1, <2>2, <2>3, HoldRises
<1>2. ASSUME NEW p \in Portfolios, NEW ord \in Orders,
             NEW s \in {"CANCELLED", "REJECTED"}, TerminalOrder(p, ord, s)
      PROVE  \A q \in Requests : RisesByObservation(q)
  <2>1. PICK t \in RowsByOrder(p, ord) : Release(t)
    BY <1>2 DEF TerminalOrder
  <2>2. t \in Requests
    BY DEF RowsByOrder
  <2> QED BY <2>1, <2>2, ReleaseRises
<1> QED BY <1>1, <1>2 DEF OrderReconciliation

(***************************************************************************)
(* What a handler does to a row that has ended.                            *)
(***************************************************************************)

LEMMA SetRowRevives ==
  ASSUME TypeOK, NEW r \in Requests, NEW row, SetRow(r, row),
         ledger[r].state \in Terminal /\ row.state \notin Terminal =>
           /\ row.state = "FILLED"
           /\ row.position # NoRef
           /\ reservation'[r].status = "ACTIVE"
  PROVE  \A q \in Requests : RevivedAsFilled(q)
<1>1. ledger' = [ledger EXCEPT ![r] = row]
  BY DEF SetRow
<1>2. ledger'[r] = row
  BY <1>1 DEF TypeOK
<1>3. \A q \in Requests \ {r} : ledger'[q] = ledger[q]
  BY <1>1 DEF TypeOK
<1> QED BY <1>2, <1>3 DEF RevivedAsFilled, Revives

LEMMA SameRowsRevive ==
  ASSUME UNCHANGED ledger
  PROVE  \A q \in Requests : RevivedAsFilled(q) /\ ~Revives(q)
BY DEF RevivedAsFilled, Revives

LEMMA AdoptRevives ==
  ASSUME TypeOK, NEW p \in Portfolios, NEW r \in Requests,
         NEW pos \in Positions, NEW ord, NEW d, NEW k, NEW stop,
         AdoptOpenPosition(p, r, pos, ord, d, k, stop)
  PROVE  \A q \in Requests : RevivedAsFilled(q)
<1> DEFINE row(t) == [portfolio |-> p,
                      state |-> "FILLED",
                      order |-> Given(ord, ledger[t].order),
                      deal |-> Given(d, ledger[t].deal),
                      position |-> pos]
<1>1. PICK t \in AdoptionTargets(p, r, pos, ord) :
        SetRow(t, row(t)) /\ Hold(t, p, k)
  BY DEF AdoptOpenPosition
<1>2. t \in Requests
  BY TargetsAreRequests
<1>3. row(t).state = "FILLED" /\ row(t).position # NoRef
  BY NullAssumption
<1>4. reservation'[t].status = "ACTIVE"
  BY <1>1, <1>2 DEF Hold, TypeOK
<1> HIDE DEF row
<1> QED BY <1>1, <1>2, <1>3, <1>4, SetRowRevives

LEMMA UpdateRiskRevives ==
  ASSUME TypeOK, NEW p \in Portfolios, NEW pos \in Positions, NEW k,
         UpdatePositionRisk(p, pos, k)
  PROVE  \A q \in Requests : RevivedAsFilled(q)
<1> DEFINE row(t) == [ledger[t] EXCEPT
                        !.state = IF @ \in Terminal THEN "FILLED" ELSE @]
<1>1. PICK t \in RowsByPosition(p, pos) : SetRow(t, row(t)) /\ Hold(t, p, k)
  BY DEF UpdatePositionRisk
<1>2. t \in Requests /\ ledger[t].position = pos /\ ledger[t] \in Row
  BY DEF RowsByPosition, TypeOK
<1>3. /\ ledger[t].state \in Terminal => row(t).state = "FILLED"
      /\ row(t).position # NoRef
  BY <1>2, NullAssumption DEF Row
<1>4. reservation'[t].status = "ACTIVE"
  BY <1>1, <1>2 DEF Hold, TypeOK
<1> HIDE DEF row
<1> QED BY <1>1, <1>2, <1>3, <1>4, SetRowRevives

LEMMA ClosureRevives ==
  ASSUME TypeOK, NEW p \in Portfolios, NEW r \in Requests,
         NEW pos, NEW d, RecordClosure(p, r, pos, d)
  PROVE  \A q \in Requests : RevivedAsFilled(q)
<1> DEFINE row(t) == [ledger[t] EXCEPT !.state = "RECONCILED",
                                       !.position = pos,
                                       !.deal = d]
<1>1. PICK t \in ClosureTargets(p, r, pos) : SetRow(t, row(t))
  BY DEF RecordClosure
<1>2. t \in Requests
  BY TargetsAreRequests
<1>3. row(t).state \in Terminal
  <2>1. ledger[t] \in Row
    BY <1>2 DEF TypeOK
  <2> QED BY <2>1 DEF Row, Terminal
<1> HIDE DEF row
<1> QED BY <1>1, <1>2, <1>3, SetRowRevives

LEMMA OrderReconciliationRevives ==
  ASSUME TypeOK, OrderReconciliation
  PROVE  \A q \in Requests : RevivedAsFilled(q)
<1>1. ASSUME NEW p \in Portfolios, NEW ord \in Orders, NEW r \in Requests,
             NEW k \in Risks, SyncPendingOrder(p, r, ord, k)
      PROVE  \A q \in Requests : RevivedAsFilled(q)
  <2> DEFINE row(t) == [ledger[t] EXCEPT
                          !.portfolio = p,
                          !.state = IF @ \in Terminal \cup {"FILLED"} THEN @
                                                                     ELSE "ACKED",
                          !.order = ord]
  <2>1. PICK t \in PendingOrderTargets(p, r, ord) : SetRow(t, row(t))
    BY <1>1 DEF SyncPendingOrder
  <2>2. t \in Requests /\ ledger[t] \in Row
    BY TargetsAreRequests DEF TypeOK
  <2>3. ledger[t].state \in Terminal => row(t).state \in Terminal
    BY <2>2 DEF Row
  <2> HIDE DEF row
  <2> QED BY <2>1, <2>2, <2>3, SetRowRevives
<1>2. ASSUME NEW p \in Portfolios, NEW ord \in Orders,
             NEW s \in {"CANCELLED", "REJECTED"}, TerminalOrder(p, ord, s)
      PROVE  \A q \in Requests : RevivedAsFilled(q)
  <2> DEFINE row(t) == [ledger[t] EXCEPT !.state = s]
  <2>1. PICK t \in RowsByOrder(p, ord) : SetRow(t, row(t))
    BY <1>2 DEF TerminalOrder
  <2>2. t \in Requests /\ ledger[t] \in Row
    BY DEF RowsByOrder, TypeOK
  <2>3. row(t).state \in Terminal
    BY <2>2 DEF Row, Terminal
  <2> HIDE DEF row
  <2> QED BY <2>1, <2>2, <2>3, SetRowRevives
<1> QED BY <1>1, <1>2 DEF OrderReconciliation

(***************************************************************************)
(* The calls that only tell of a request, and the passing of time, neither *)
(* raise its risk nor bring it back.                                       *)
(***************************************************************************)

Quiet(r) == ~RiskRises(r) /\ ~Revives(r)

LEMMA SameRiskIsQuiet ==
  ASSUME TypeOK, NEW q \in Requests,
         \/ reservation'[q] = reservation[q]
         \/ reservation'[q].status # "ACTIVE"
         \/ /\ reservation[q].status = "ACTIVE"
            /\ reservation'[q].risk \in Nat
            /\ reservation'[q].risk <= reservation[q].risk
  PROVE  ~RiskRises(q)
<1>1. reservation[q].risk \in Risks \cup {0}
  BY DEF TypeOK, Reservation
<1>2. reservation[q].risk \in Nat
  <2>1. Risks \cup {0} \subseteq Nat
    BY SizesAssumption
  <2> QED BY <1>1, <2>1
<1>3. CASE reservation'[q] = reservation[q]
  BY <1>2, <1>3 DEF RiskRises
<1>4. CASE reservation'[q].status # "ACTIVE"
  BY <1>4 DEF RiskRises
<1>5. CASE /\ reservation[q].status = "ACTIVE"
           /\ reservation'[q].risk \in Nat
           /\ reservation'[q].risk <= reservation[q].risk
  <2>1. ~(reservation'[q].risk > reservation[q].risk)
    BY <1>2, <1>5
  <2> QED BY <1>5, <2>1 DEF RiskRises
<1> QED BY <1>3, <1>4, <1>5

LEMMA AdmissionIsQuiet ==
  ASSUME TypeOK, Admission, NEW q \in Requests
  PROVE  Quiet(q)
<1>1. PICK p \in Portfolios, r \in Requests, k \in Risks : Reserve(p, r, k)
  BY DEF Admission
<1>2. CASE q = r
  <2>1. ledger[q].state = "ABSENT"
    BY <1>1, <1>2 DEF Reserve, Known
  <2> QED BY <2>1 DEF Quiet, RiskRises, Known, Revives, Terminal
<1>3. CASE q # r
  <2>1. reservation'[q] = reservation[q] /\ ledger'[q] = ledger[q]
    BY <1>1, <1>3 DEF Reserve, SetRow, TypeOK
  <2> QED BY <2>1, SameRiskIsQuiet DEF Quiet, Revives
<1> QED BY <1>2, <1>3

LEMMA ReportIsQuiet ==
  ASSUME TypeOK, Reported, NEW q \in Requests
  PROVE  Quiet(q)
<1>1. PICK r \in Requests, ids \in Identities :
        Repeat(r, ids) \/ \E c \in Claims : Advance(r, ledger'[r].state, c, ids)
  BY DEF Reported
<1>2. CASE Repeat(r, ids)
  <2> DEFINE row == [ledger[r] EXCEPT !.order = Given(@, ids.order),
                                      !.deal = Given(@, ids.deal),
                                      !.position = Given(@, ids.position)]
  <2>1. ledger' = [ledger EXCEPT ![r] = row] /\ UNCHANGED reservation
    BY <1>2 DEF Repeat, SetRow
  <2>2. row.state = ledger[r].state
    BY DEF TypeOK, Row
  <2>3. ledger'[q].state = ledger[q].state
    <3> HIDE DEF row
    <3> QED BY <2>1, <2>2 DEF TypeOK
  <2> QED BY <2>1, <2>3, SameRiskIsQuiet DEF Quiet, Revives
<1>3. ASSUME NEW c \in Claims, Advance(r, ledger'[r].state, c, ids)
      PROVE  Quiet(q)
  <2>1. /\ ledger'[r].state \in AllowedTransitions[ledger[r].state]
        /\ Release(r) \/ UNCHANGED reservation
        /\ \E row : ledger' = [ledger EXCEPT ![r] = row]
    BY <1>3 DEF Advance, SetRow
  <2>2. ledger[r].state \in States
    BY <1>3 DEF Advance, Known, TypeOK, Row
  <2>3. ledger[r].state \notin Terminal
    <3>1. \A s \in Terminal : AllowedTransitions[s] = {}
      BY DEF AllowedTransitions, Terminal, States
    <3> QED BY <2>1, <3>1
  <2>4. ~Revives(q)
    <3>1. CASE q = r
      BY <2>3, <3>1 DEF Revives
    <3>2. CASE q # r
      <4>1. ledger'[q] = ledger[q]
        BY <2>1, <3>2 DEF TypeOK
      <4> QED BY <4>1 DEF Revives
    <3> QED BY <3>1, <3>2
  <2>5. ~RiskRises(q)
    <3>1. CASE UNCHANGED reservation
      BY <3>1, SameRiskIsQuiet
    <3>2. CASE Release(r)
      <4>1. CASE q = r
        <5>1. reservation[q] \in Reservation
          BY DEF TypeOK
        <5>2. reservation'[q] = [reservation[q] EXCEPT
                !.status = IF @ = "NONE" THEN @ ELSE "RELEASED"]
          BY <3>2, <4>1 DEF Release, TypeOK
        <5>3. reservation'[q].status # "ACTIVE"
          BY <5>1, <5>2 DEF Reservation
        <5> QED BY <5>3, SameRiskIsQuiet
      <4>2. CASE q # r
        <5>1. reservation'[q] = reservation[q]
          BY <3>2, <4>2 DEF Release, TypeOK
        <5> QED BY <5>1, SameRiskIsQuiet
      <4> QED BY <4>1, <4>2
    <3> QED BY <2>1, <3>1, <3>2
  <2> QED BY <2>4, <2>5 DEF Quiet
<1> QED BY <1>1, <1>2, <1>3

LEMMA LeasingIsQuiet ==
  ASSUME TypeOK, Leasing, NEW q \in Requests
  PROVE  Quiet(q)
<1>1. UNCHANGED reservation
  BY DEF Leasing, RecoverExpired, LapseLease
<1>2. ~Revives(q)
  <2>1. CASE RecoverExpired
    <3>1. PICK late \in SUBSET {r \in Requests : Late(r)} :
            ledger' = [r \in Requests |->
              IF r \in late THEN [ledger[r] EXCEPT !.state = "RECOVERING"]
                            ELSE ledger[r]]
      BY <2>1 DEF RecoverExpired
    <3>2. CASE q \in late
      BY <3>1, <3>2 DEF Late, Revives, Leased, Terminal
    <3>3. CASE q \notin late
      <4>1. ledger'[q] = ledger[q]
        BY <3>1, <3>3
      <4> QED BY <4>1 DEF Revives
    <3> QED BY <3>2, <3>3
  <2>2. CASE \E r \in Requests : LapseLease(r)
    BY <2>2 DEF LapseLease, Revives
  <2> QED BY <2>1, <2>2 DEF Leasing
<1> QED BY <1>1, <1>2, SameRiskIsQuiet DEF Quiet

LEMMA ModifyingIsQuiet ==
  ASSUME TypeOK, Modifying, NEW q \in Requests
  PROVE  Quiet(q)
<1>1. ASSUME NEW p \in Portfolios, NEW e \in Events, NEW pos \in Positions,
             NEW old \in Stops \cup {0}, NEW new \in Stops,
             PrepareModification(p, e, pos, old, new)
      PROVE  Quiet(q)
  <2>1. UNCHANGED <<ledger, reservation>>
    BY <1>1 DEF PrepareModification
  <2> QED BY <2>1, SameRiskIsQuiet, SameRowsRevive DEF Quiet
<1>2. ASSUME NEW p \in Portfolios, NEW e \in Events, NEW stop \in Stops,
             NEW k \in Risks \cup {0}, ConfirmModification(p, e, stop, k)
      PROVE  Quiet(q)
  <2>1. /\ reservation' = [reservation EXCEPT ![mods[p][e].request].risk = k]
        /\ reservation[mods[p][e].request].status = "ACTIVE"
        /\ k <= reservation[mods[p][e].request].risk
        /\ UNCHANGED ledger
    BY <1>2 DEF ConfirmModification
  <2>2. CASE q = mods[p][e].request
    <3>1. reservation[q] \in Reservation
      BY DEF TypeOK
    <3>2. reservation'[q].risk = k /\ k \in Nat
      BY <2>1, <2>2, <3>1, SizesAssumption DEF TypeOK, Reservation
    <3> QED BY <2>1, <2>2, <3>2, SameRiskIsQuiet, SameRowsRevive DEF Quiet
  <2>3. CASE q # mods[p][e].request
    <3>1. reservation'[q] = reservation[q]
      BY <2>1, <2>3 DEF TypeOK
    <3> QED BY <2>1, <3>1, SameRiskIsQuiet, SameRowsRevive DEF Quiet
  <2> QED BY <2>2, <2>3
<1> QED BY <1>1, <1>2 DEF Modifying

LEMMA QuietHasNoRise ==
  ASSUME NEW q \in Requests, Quiet(q)
  PROVE  RisesByObservation(q) /\ RevivedAsFilled(q)
BY DEF Quiet, RisesByObservation, RevivedAsFilled

(***************************************************************************)
(* After its admission a request's risk is raised, or held again, only by  *)
(* an observation of the broker that puts an order or a position on its    *)
(* row, and a finished request comes back only as FILLED with the position *)
(* observed: no admission, report, lapse or modification does either.      *)
(***************************************************************************)
THEOREM ReportsNeverRaiseRisk == Spec => RiskRisesOnlyByObservation
<1> DEFINE Sound == \A r \in Requests : RisesByObservation(r) /\ RevivedAsFilled(r)
           Telling == Admission \/ Reported \/ Leasing \/ Modifying
           Silent == \A r \in Requests : RiskRises(r) \/ Revives(r) => ~Telling
<1>1. TypeOK => Silent
  BY AdmissionIsQuiet, ReportIsQuiet, LeasingIsQuiet, ModifyingIsQuiet DEF Quiet
<1>2. TypeOK /\ [Next]_vars => Sound
  <2> SUFFICES ASSUME TypeOK, [Next]_vars
               PROVE  Sound
    OBVIOUS
  <2>1. CASE UNCHANGED <<ledger, reservation>>
    BY <2>1, SameRiskRises, SameRowsRevive
  <2>2. CASE Telling
    BY <2>2, AdmissionIsQuiet, ReportIsQuiet, LeasingIsQuiet,
       ModifyingIsQuiet, QuietHasNoRise
  <2>3. CASE Report
    <3>1. PICK r \in Requests, ids \in Identities :
            \/ \E s \in States, c \in Claims : Advance(r, s, c, ids)
            \/ Repeat(r, ids)
      BY <2>3 DEF Report
    <3>2. ASSUME NEW s \in States, NEW c \in Claims, Advance(r, s, c, ids)
          PROVE  s = ledger'[r].state
      <4>1. /\ r \in Requests /\ ledger[r] \in Row
            /\ SetRow(r, [ledger[r] EXCEPT !.state = s,
                                           !.order = Given(ids.order, @),
                                           !.deal = Given(ids.deal, @),
                                           !.position = Given(ids.position, @)])
        BY <3>2 DEF Advance, TypeOK
      <4> QED BY <4>1 DEF SetRow, TypeOK, Row
    <3>3. Reported
      BY <3>1, <3>2 DEF Reported
    <3> QED BY <2>2, <3>3
  <2>4. CASE Reconciliation
    <3>1. ASSUME NEW p \in Portfolios, NEW r \in Requests,
                 NEW pos \in Positions, NEW ord \in OrNull(Orders),
                 NEW d \in OrNull(Deals), NEW k \in Risks \cup {0},
                 NEW stop \in Stops \cup {0},
                 SyncPosition(p, r, pos, ord, d, k, stop)
          PROVE  Sound
      BY <3>1, AdoptRises, AdoptRevives DEF SyncPosition
    <3>2. ASSUME NEW p \in Portfolios, NEW r \in Requests,
                 NEW pos \in Positions, NEW d \in Deals,
                 ClosePosition(p, r, pos, d)
          PROVE  Sound
      BY <3>2, ClosureRises, ClosureRevives DEF ClosePosition
    <3>3. ASSUME NEW p \in Portfolios, NEW pos \in Positions,
                 NEW k \in Risks \cup {0}, UpdatePositionRisk(p, pos, k)
          PROVE  Sound
      BY <3>3, UpdateRiskRises, UpdateRiskRevives
    <3> HIDE DEF Sound
    <3> QED BY <2>4, <3>1, <3>2, <3>3 DEF Reconciliation
  <2>5. CASE DealReporting
    <3>1. ASSUME NEW p \in Portfolios, NEW r \in Requests, NEW d \in Deals,
                 NEW event \in Deal, NEW open \in BOOLEAN, NEW k,
                 DealEvent(p, r, d, event, open, k)
          PROVE  Sound
      <4>1. event.position \in Positions
        BY DEF Deal
      <4>2. CASE AdoptOpenPosition(p, r, event.position, event.order, d, k, 0)
        BY <4>1, <4>2, AdoptRises, AdoptRevives
      <4>3. CASE RecordClosure(p, r, event.position, d)
        BY <4>3, ClosureRises, ClosureRevives
      <4>4. CASE UNCHANGED <<ledger, reservation, expired, mods>>
        BY <2>1, <4>4
      <4> QED BY <3>1, <4>2, <4>3, <4>4 DEF DealEvent
    <3> HIDE DEF Sound
    <3> QED BY <2>5, <3>1 DEF DealReporting
  <2>6. CASE OrderReconciliation
    BY <2>6, OrderReconciliationRises, OrderReconciliationRevives
  <2>7. CASE UNCHANGED vars
    BY <2>1, <2>7 DEF vars
  <2> HIDE DEF Sound
  <2> QED BY <2>2, <2>3, <2>4, <2>5, <2>6, <2>7 DEF Next
<1>3. TypeOK /\ [Next]_vars => [Sound /\ Silent]_vars
  BY <1>1, <1>2
<1>4. Spec => [][Sound /\ Silent]_vars
  BY <1>3, TypeCorrect, PTL DEF Spec
<1>5. (Sound /\ Silent) <=>
        \A r \in Requests :
          /\ RiskRises(r) \/ Revives(r) =>
               ~ (Admission \/ Reported \/ Leasing \/ Modifying)
          /\ RiskRises(r) => ledger'[r].order # NoRef \/ ledger'[r].position # NoRef
          /\ Revives(r) => /\ ledger'[r].state = "FILLED"
                           /\ ledger'[r].position # NoRef
                           /\ reservation'[r].status = "ACTIVE"
  BY DEF RisesByObservation, RevivedAsFilled
<1> HIDE DEF Sound, Silent
<1> QED BY <1>4, <1>5, PTL DEF RiskRisesOnlyByObservation

-----------------------------------------------------------------------------

(***************************************************************************)
(* The execution ledger implements the risk book: each handler maps to an  *)
(* admission, an observation, an identification, a reduction, a release, a *)
(* change of the block on admission, or to no step of the book at all.     *)
(***************************************************************************)

(***************************************************************************)
(* A row and its reservation come into being together, and neither goes    *)
(* away: an unknown request has neither, a known one has both.             *)
(***************************************************************************)
RowsHaveReservations ==
  \A r \in Requests :
    IF Known(r) THEN reservation[r].status # "NONE"
                ELSE reservation[r].status = "NONE" /\ ledger[r] = NoRow

LEMMA HoldKeepsPairs ==
  ASSUME TypeOK, RowsHaveReservations,
         NEW t \in Requests, NEW p, NEW k, NEW row, row.state # "ABSENT",
         SetRow(t, row), Hold(t, p, k)
  PROVE  RowsHaveReservations'
<1> SUFFICES ASSUME NEW r \in Requests
             PROVE  IF Known(r)' THEN reservation'[r].status # "NONE"
                    ELSE reservation'[r].status = "NONE" /\ ledger'[r] = NoRow
  BY DEF RowsHaveReservations, NoRow
<1>1. CASE r = t
  BY <1>1 DEF SetRow, Hold, TypeOK, Known
<1>2. CASE r # t
  <2>1. ledger'[r] = ledger[r] /\ reservation'[r] = reservation[r]
    BY <1>2 DEF SetRow, Hold, TypeOK
  <2> QED BY <2>1 DEF RowsHaveReservations, Known
<1> QED BY <1>1, <1>2

LEMMA ReleaseKeepsPairs ==
  ASSUME TypeOK, RowsHaveReservations,
         NEW t \in Requests, NEW row, row.state # "ABSENT",
         SetRow(t, row), Known(t), Release(t)
  PROVE  RowsHaveReservations'
<1> SUFFICES ASSUME NEW r \in Requests
             PROVE  IF Known(r)' THEN reservation'[r].status # "NONE"
                    ELSE reservation'[r].status = "NONE" /\ ledger'[r] = NoRow
  BY DEF RowsHaveReservations, NoRow
<1>1. CASE r = t
  <2>1. reservation[t].status # "NONE" /\ reservation[t] \in Reservation
    BY DEF RowsHaveReservations, TypeOK
  <2>2. reservation'[t].status = "RELEASED" /\ ledger'[t] = row
    BY <2>1 DEF Release, SetRow, TypeOK, Reservation
  <2> QED BY <1>1, <2>2 DEF Known
<1>2. CASE r # t
  <2>1. ledger'[r] = ledger[r] /\ reservation'[r] = reservation[r]
    BY <1>2 DEF SetRow, Release, TypeOK
  <2> QED BY <2>1 DEF RowsHaveReservations, Known
<1> QED BY <1>1, <1>2

LEMMA StatusKeepsPairs ==
  ASSUME RowsHaveReservations,
         \A r \in Requests : reservation'[r].status = reservation[r].status,
         \A r \in Requests : \/ ledger'[r] = ledger[r]
                             \/ Known(r) /\ ledger'[r].state # "ABSENT"
  PROVE  RowsHaveReservations'
BY DEF RowsHaveReservations, Known, NoRow

LEMMA AdoptKeepsPairs ==
  ASSUME TypeOK, RowsHaveReservations, NEW p \in Portfolios,
         NEW r \in Requests, NEW pos, NEW ord, NEW d, NEW k, NEW stop,
         AdoptOpenPosition(p, r, pos, ord, d, k, stop)
  PROVE  RowsHaveReservations'
<1> DEFINE row(t) == [portfolio |-> p,
                      state |-> "FILLED",
                      order |-> Given(ord, ledger[t].order),
                      deal |-> Given(d, ledger[t].deal),
                      position |-> pos]
<1>1. PICK t \in AdoptionTargets(p, r, pos, ord) :
        SetRow(t, row(t)) /\ Hold(t, p, k)
  BY DEF AdoptOpenPosition
<1>2. t \in Requests
  BY TargetsAreRequests
<1>3. row(t).state # "ABSENT"
  OBVIOUS
<1> HIDE DEF row
<1> QED BY <1>1, <1>2, <1>3, HoldKeepsPairs

LEMMA ClosureKeepsPairs ==
  ASSUME TypeOK, RowsHaveReservations, NEW p \in Portfolios,
         NEW r \in Requests, NEW pos, NEW d, RecordClosure(p, r, pos, d)
  PROVE  RowsHaveReservations'
<1> DEFINE row(t) == [ledger[t] EXCEPT !.state = "RECONCILED",
                                       !.position = pos,
                                       !.deal = d]
<1>1. PICK t \in ClosureTargets(p, r, pos) : SetRow(t, row(t)) /\ Release(t)
  BY DEF RecordClosure
<1>2. t \in Requests /\ Known(t)
  BY DEF ClosureTargets, RowsByPosition
<1>3. row(t).state # "ABSENT"
  BY <1>2 DEF TypeOK, Row
<1> HIDE DEF row
<1> QED BY <1>1, <1>2, <1>3, ReleaseKeepsPairs

LEMMA ReportKeepsPairs ==
  ASSUME TypeOK, RowsHaveReservations, Report
  PROVE  RowsHaveReservations'
<1>1. ASSUME NEW r \in Requests, NEW s \in States, NEW c \in Claims,
             NEW ids \in Identities, Advance(r, s, c, ids)
      PROVE  RowsHaveReservations'
  <2> DEFINE row == [ledger[r] EXCEPT !.state = s,
                                      !.order = Given(ids.order, @),
                                      !.deal = Given(ids.deal, @),
                                      !.position = Given(ids.position, @)]
  <2>1. SetRow(r, row) /\ Known(r)
    BY <1>1 DEF Advance
  <2>2. row.state # "ABSENT"
    BY DEF TypeOK, Row, States, Terminal
  <2> HIDE DEF row
  <2>3. CASE Release(r)
    BY <2>1, <2>2, <2>3, ReleaseKeepsPairs
  <2>4. CASE UNCHANGED reservation
    <3>1. \A q \in Requests : \/ ledger'[q] = ledger[q]
                              \/ Known(q) /\ ledger'[q].state # "ABSENT"
      BY <2>1, <2>2 DEF SetRow, TypeOK
    <3> QED BY <2>4, <3>1, StatusKeepsPairs
  <2> QED BY <1>1, <2>3, <2>4 DEF Advance
<1>2. ASSUME NEW r \in Requests, NEW ids \in Identities, Repeat(r, ids)
      PROVE  RowsHaveReservations'
  <2> DEFINE row == [ledger[r] EXCEPT !.order = Given(@, ids.order),
                                      !.deal = Given(@, ids.deal),
                                      !.position = Given(@, ids.position)]
  <2>1. SetRow(r, row) /\ Known(r) /\ UNCHANGED reservation
    BY <1>2 DEF Repeat
  <2>2. row.state # "ABSENT"
    BY <2>1 DEF TypeOK, Row, Known
  <2> HIDE DEF row
  <2>3. \A q \in Requests : \/ ledger'[q] = ledger[q]
                            \/ Known(q) /\ ledger'[q].state # "ABSENT"
    BY <2>1, <2>2 DEF SetRow, TypeOK
  <2> QED BY <2>1, <2>3, StatusKeepsPairs
<1> QED BY <1>1, <1>2 DEF Report

LEMMA LeasingKeepsPairs ==
  ASSUME TypeOK, RowsHaveReservations, Leasing
  PROVE  RowsHaveReservations'
<1>1. CASE RecoverExpired
  <2>1. PICK late \in SUBSET {r \in Requests : Late(r)} :
          ledger' = [r \in Requests |->
            IF r \in late THEN [ledger[r] EXCEPT !.state = "RECOVERING"]
                          ELSE ledger[r]]
    BY <1>1 DEF RecoverExpired
  <2>2. \A r \in late : Known(r)
    BY DEF Late, Leased, Known
  <2>3. \A r \in Requests : \/ ledger'[r] = ledger[r]
                            \/ Known(r) /\ ledger'[r].state # "ABSENT"
    BY <2>1, <2>2 DEF TypeOK, Row
  <2> QED BY <1>1, <2>3, StatusKeepsPairs DEF RecoverExpired
<1>2. CASE \E r \in Requests : LapseLease(r)
  BY <1>2, StatusKeepsPairs DEF LapseLease
<1> QED BY <1>1, <1>2 DEF Leasing

LEMMA OrderReconciliationKeepsPairs ==
  ASSUME TypeOK, RowsHaveReservations, OrderReconciliation
  PROVE  RowsHaveReservations'
<1>1. ASSUME NEW p \in Portfolios, NEW ord \in Orders, NEW r \in Requests,
             NEW k \in Risks, SyncPendingOrder(p, r, ord, k)
      PROVE  RowsHaveReservations'
  <2> DEFINE row(t) == [ledger[t] EXCEPT
                          !.portfolio = p,
                          !.state = IF @ \in Terminal \cup {"FILLED"} THEN @
                                                                     ELSE "ACKED",
                          !.order = ord]
  <2>1. PICK t \in PendingOrderTargets(p, r, ord) :
          SetRow(t, row(t)) /\ Hold(t, p, k)
    BY <1>1 DEF SyncPendingOrder
  <2>2. t \in Requests
    BY TargetsAreRequests
  <2>3. row(t).state # "ABSENT"
    BY <2>2 DEF TypeOK, Row, Terminal
  <2> HIDE DEF row
  <2> QED BY <2>1, <2>2, <2>3, HoldKeepsPairs
<1>2. ASSUME NEW p \in Portfolios, NEW ord \in Orders,
             NEW s \in {"CANCELLED", "REJECTED"}, TerminalOrder(p, ord, s)
      PROVE  RowsHaveReservations'
  <2> DEFINE row(t) == [ledger[t] EXCEPT !.state = s]
  <2>1. PICK t \in RowsByOrder(p, ord) : SetRow(t, row(t)) /\ Release(t)
    BY <1>2 DEF TerminalOrder
  <2>2. t \in Requests /\ Known(t)
    BY DEF RowsByOrder
  <2>3. row(t).state # "ABSENT"
    BY <2>2 DEF TypeOK, Row
  <2> HIDE DEF row
  <2> QED BY <2>1, <2>2, <2>3, ReleaseKeepsPairs
<1> QED BY <1>1, <1>2 DEF OrderReconciliation

LEMMA PositionsKeepPairs ==
  ASSUME TypeOK, RowsHaveReservations, Reconciliation \/ DealReporting
  PROVE  RowsHaveReservations'
<1>1. ASSUME NEW p \in Portfolios, NEW pos \in Positions, NEW k \in Risks \cup {0},
             UpdatePositionRisk(p, pos, k)
      PROVE  RowsHaveReservations'
  <2> DEFINE row(t) == [ledger[t] EXCEPT
                          !.state = IF @ \in Terminal THEN "FILLED" ELSE @]
  <2>1. PICK t \in RowsByPosition(p, pos) : SetRow(t, row(t)) /\ Hold(t, p, k)
    BY <1>1 DEF UpdatePositionRisk
  <2>2. t \in Requests /\ Known(t)
    BY DEF RowsByPosition
  <2>3. row(t).state # "ABSENT"
    BY <2>2 DEF TypeOK, Row, Known
  <2> HIDE DEF row
  <2> QED BY <2>1, <2>2, <2>3, HoldKeepsPairs
<1>2. CASE Reconciliation
  BY <1>1, <1>2, AdoptKeepsPairs, ClosureKeepsPairs
  DEF Reconciliation, SyncPosition, ClosePosition
<1>3. CASE DealReporting
  <2>1. ASSUME NEW p \in Portfolios, NEW r \in Requests, NEW d \in Deals,
               NEW event \in Deal, NEW open, NEW k,
               DealEvent(p, r, d, event, open, k)
        PROVE  RowsHaveReservations'
    <3>1. CASE AdoptOpenPosition(p, r, event.position, event.order, d, k, 0)
      BY <3>1, AdoptKeepsPairs
    <3>2. CASE RecordClosure(p, r, event.position, d)
      BY <3>2, ClosureKeepsPairs
    <3>3. CASE UNCHANGED <<ledger, reservation, expired, mods>>
      BY <3>3, StatusKeepsPairs
    <3> QED BY <2>1, <3>1, <3>2, <3>3 DEF DealEvent
  <2> QED BY <1>3, <2>1 DEF DealReporting
<1> QED BY <1>2, <1>3

LEMMA ModifyingKeepsPairs ==
  ASSUME TypeOK, RowsHaveReservations, Modifying
  PROVE  RowsHaveReservations'
<1>1. ASSUME NEW p \in Portfolios, NEW e \in Events, NEW pos \in Positions,
             NEW old \in Stops \cup {0}, NEW new \in Stops,
             PrepareModification(p, e, pos, old, new)
      PROVE  RowsHaveReservations'
  BY <1>1, StatusKeepsPairs DEF PrepareModification
<1>2. ASSUME NEW p \in Portfolios, NEW e \in Events, NEW stop \in Stops,
             NEW k \in Risks \cup {0}, ConfirmModification(p, e, stop, k)
      PROVE  RowsHaveReservations'
  <2>1. \A r \in Requests : reservation'[r].status = reservation[r].status
    BY <1>2 DEF ConfirmModification, TypeOK, Reservation
  <2>2. UNCHANGED ledger
    BY <1>2 DEF ConfirmModification
  <2> QED BY <2>1, <2>2, StatusKeepsPairs
<1> QED BY <1>1, <1>2 DEF Modifying

(***************************************************************************)
(* No handler leaves a row without its reservation, or a reservation       *)
(* without its row.                                                        *)
(***************************************************************************)
THEOREM PairsStay == Spec => []RowsHaveReservations
<1>1. Init => RowsHaveReservations
  BY DEF Init, RowsHaveReservations, Known, NoRow, NoReservation
<1>2. TypeOK /\ RowsHaveReservations /\ [Next]_vars => RowsHaveReservations'
  <2> SUFFICES ASSUME TypeOK, RowsHaveReservations, [Next]_vars
               PROVE  RowsHaveReservations'
    OBVIOUS
  <2>1. CASE Admission
    <3>1. ASSUME NEW p \in Portfolios, NEW r \in Requests, NEW k \in Risks,
                 Reserve(p, r, k)
          PROVE  RowsHaveReservations'
      <4> DEFINE row == [NoRow EXCEPT !.portfolio = p, !.state = "RESERVED"]
      <4>1. SetRow(r, row) /\ row.state # "ABSENT"
        BY <3>1 DEF Reserve, NoRow
      <4>2. Hold(r, p, k)
        BY <3>1 DEF Reserve, Hold, RowsHaveReservations
      <4> HIDE DEF row
      <4> QED BY <4>1, <4>2, HoldKeepsPairs
    <3> QED BY <2>1, <3>1 DEF Admission
  <2>2. CASE Report
    BY <2>2, ReportKeepsPairs
  <2>3. CASE Leasing
    BY <2>3, LeasingKeepsPairs
  <2>4. CASE Reconciliation \/ DealReporting
    BY <2>4, PositionsKeepPairs
  <2>5. CASE OrderReconciliation
    BY <2>5, OrderReconciliationKeepsPairs
  <2>6. CASE Modifying
    BY <2>6, ModifyingKeepsPairs
  <2>7. CASE UNCHANGED vars
    BY <2>7, StatusKeepsPairs DEF vars
  <2> QED BY <2>1, <2>2, <2>3, <2>4, <2>5, <2>6, <2>7 DEF Next
<1> QED BY <1>1, <1>2, TypeCorrect, PTL DEF Spec

-----------------------------------------------------------------------------
(* Steps of the book.  A row that is written never loses its broker          *)
(* identity, and an admission is only blocked by an intent that was pending. *)

Unblocking == \A p \in Portfolios : PendingIn(p) = {} => PendingIn(p)' = {}

\* A reservation held again, with a broker identity on the row.
LEMMA ObserveStep ==
  ASSUME TypeOK, NEW t \in Requests, NEW p \in Portfolios,
         NEW k \in Risks \cup {0}, NEW row, HasBrokerReference(row),
         SetRow(t, row), Hold(t, p, k), Unblocking
  PROVE  Book!Next
<1>1. {r \in Requests : HasBrokerReference(ledger'[r])}
        = {r \in Requests : HasBrokerReference(ledger[r])} \cup {t}
  BY DEF SetRow, TypeOK
<1>2. {q \in Portfolios : PendingIn(q)' # {}}
        \subseteq {q \in Portfolios : PendingIn(q) # {}}
  BY DEF Unblocking
<1>3. Book!Observe(p, t, k)
  BY <1>1, <1>2 DEF Book!Observe, Hold, HasBrokerReference
<1> QED BY <1>3 DEF Book!Next

\* A broker identity that a report adds to a row of a reservation.
LEMMA IdentifyStep ==
  ASSUME TypeOK, NEW t \in Requests, NEW row, SetRow(t, row),
         HasBrokerReference(ledger[t]) => HasBrokerReference(row),
         reservation[t].status # "NONE", UNCHANGED reservation,
         Unblocking, HasBrokerReference(row) \/ UNCHANGED mods
  PROVE  [Book!Next]_Book!bookVars
<1>1. CASE HasBrokerReference(row)
  <2>1. {r \in Requests : HasBrokerReference(ledger'[r])}
          = {r \in Requests : HasBrokerReference(ledger[r])} \cup {t}
    BY <1>1 DEF SetRow, TypeOK
  <2>2. {q \in Portfolios : PendingIn(q)' # {}}
          \subseteq {q \in Portfolios : PendingIn(q) # {}}
    BY DEF Unblocking
  <2>3. Book!Identify(t)
    BY <2>1, <2>2 DEF Book!Identify, HasBrokerReference
  <2> QED BY <2>3 DEF Book!Next
<1>2. CASE ~HasBrokerReference(row)
  <2>1. {r \in Requests : HasBrokerReference(ledger'[r])}
          = {r \in Requests : HasBrokerReference(ledger[r])}
    BY <1>2 DEF SetRow, TypeOK
  <2>2. UNCHANGED mods
    BY <1>2
  <2> QED BY <2>1, <2>2 DEF Book!bookVars, HasBrokerReference, PendingIn
<1> QED BY <1>1, <1>2

\* A reservation that is released, or was released before.
LEMMA ReleaseStep ==
  ASSUME TypeOK, NEW t \in Requests, NEW row, SetRow(t, row), Release(t),
         HasBrokerReference(ledger[t]) => HasBrokerReference(row),
         reservation[t].status # "NONE",
         Unblocking, HasBrokerReference(row) \/ UNCHANGED mods
  PROVE  [Book!Next]_Book!bookVars
<1>1. reservation[t] \in Reservation
  BY DEF TypeOK
<1>2. CASE reservation[t].status = "ACTIVE"
  <2>1. {r \in Requests : HasBrokerReference(ledger'[r])} \in
          {{r \in Requests : HasBrokerReference(ledger[r])},
           {r \in Requests : HasBrokerReference(ledger[r])} \cup {t}}
    BY DEF SetRow, TypeOK
  <2>2. {q \in Portfolios : PendingIn(q)' # {}}
          \subseteq {q \in Portfolios : PendingIn(q) # {}}
    BY DEF Unblocking
  <2>3. reservation' = [reservation EXCEPT ![t].status = "RELEASED"]
    BY <1>2 DEF Release
  <2>4. Book!Release(t)
    BY <1>2, <2>1, <2>2, <2>3 DEF Book!Release, HasBrokerReference
  <2> QED BY <2>4 DEF Book!Next
<1>3. CASE reservation[t].status = "RELEASED"
  <2>1. [reservation[t] EXCEPT !.status = "RELEASED"] = reservation[t]
    BY <1>1, <1>3 DEF Reservation
  <2>2. reservation' = [reservation EXCEPT
          ![t] = [reservation[t] EXCEPT !.status = "RELEASED"]]
    BY <1>3 DEF Release
  <2>3. UNCHANGED reservation
    BY <2>1, <2>2 DEF TypeOK
  <2> QED BY <2>3, IdentifyStep
<1> QED BY <1>1, <1>2, <1>3 DEF Reservation

-----------------------------------------------------------------------------
(* The handlers *)

LEMMA SameModsUnblock ==
  ASSUME UNCHANGED mods
  PROVE  Unblocking
BY DEF Unblocking, PendingIn

LEMMA ResolvingUnblocks ==
  ASSUME TypeOK, NEW p \in Portfolios, NEW pos, NEW stop,
         ResolveBySnapshot(p, pos, stop) \/ ResolveByClose(p, pos)
  PROVE  Unblocking
<1> SUFFICES ASSUME NEW q \in Portfolios, NEW e \in Events,
                    mods'[q][e].status = "PENDING"
             PROVE  mods[q][e].status = "PENDING"
  BY DEF Unblocking, PendingIn
<1>1. CASE q # p
  BY <1>1 DEF ResolveBySnapshot, ResolveByClose, TypeOK
<1>2. CASE q = p /\ mods[q][e].status # "NONE"
  <2>1. mods[p][e] \in Modification
    BY <1>2, PendingIsModification DEF TypeOK
  <2>2. SnapshotVerdict(mods[p][e], stop).status # "PENDING"
    BY <2>1 DEF SnapshotVerdict, Modification
  <2>3. [mods[p][e] EXCEPT !.status = "POSITION_CLOSED"].status # "PENDING"
    BY <2>1 DEF Modification
  <2>4. mods'[p][e] \in {mods[p][e], SnapshotVerdict(mods[p][e], stop),
                         [mods[p][e] EXCEPT !.status = "POSITION_CLOSED"]}
    BY DEF ResolveBySnapshot, ResolveByClose, TypeOK
  <2> QED BY <1>2, <2>2, <2>3, <2>4
<1>3. CASE q = p /\ mods[q][e].status = "NONE"
  <2>1. e \notin PendingOn(p, pos)
    BY <1>3 DEF PendingOn, PendingIn
  <2>2. mods'[p][e] = mods[p][e]
    BY <2>1 DEF ResolveBySnapshot, ResolveByClose, TypeOK
  <2> QED BY <1>3, <2>2
<1> QED BY <1>1, <1>2, <1>3

\* The book's sum and the ledger's are one sum, whatever a fold computes.
LEMMA TotalIsHeat ==
  ASSUME NEW S
  PROVE  Book!Total(S) = HeatOf(S)
BY DEF Book!Total, HeatOf, SumFunctionOnSet, Book!SumFunctionOnSet,
       FoldFunctionOnSet, Book!FoldFunctionOnSet,
       MapThenFoldSet, Book!MapThenFoldSet

LEMMA ReserveStep ==
  ASSUME TypeOK, RowsHaveReservations, NEW p \in Portfolios,
         NEW r \in Requests, NEW k \in Risks, Reserve(p, r, k)
  PROVE  Book!Next
<1> DEFINE row == [NoRow EXCEPT !.portfolio = p, !.state = "RESERVED"]
<1>1. reservation[r].status = "NONE" /\ ledger[r] = NoRow
  BY DEF Reserve, RowsHaveReservations
<1>2. ~HasBrokerReference(ledger[r]) /\ ~HasBrokerReference(row)
  BY <1>1 DEF HasBrokerReference, NoRow
<1>3. SetRow(r, row)
  BY DEF Reserve
<1> HIDE DEF row
<1>4. {q \in Requests : HasBrokerReference(ledger'[q])}
        = {q \in Requests : HasBrokerReference(ledger[q])}
  BY <1>2, <1>3 DEF SetRow, TypeOK
<1>5. Book!Total(Book!Held(p)) + k <= MaxHeat
  BY TotalIsHeat DEF Reserve, Heat, Active, Book!Held
<1>6. Book!Admit(p, r, k)
  BY <1>1, <1>4, <1>5
  DEF Book!Admit, Reserve, PendingIn, HasBrokerReference
<1> QED BY <1>6 DEF Book!Next

LEMMA AdoptStep ==
  ASSUME TypeOK, NEW p \in Portfolios, NEW r \in Requests,
         NEW pos \in Positions, NEW ord, NEW d, NEW k \in Risks \cup {0},
         NEW stop, AdoptOpenPosition(p, r, pos, ord, d, k, stop)
  PROVE  Book!Next
<1> DEFINE row(t) == [portfolio |-> p,
                      state |-> "FILLED",
                      order |-> Given(ord, ledger[t].order),
                      deal |-> Given(d, ledger[t].deal),
                      position |-> pos]
<1>1. PICK t \in AdoptionTargets(p, r, pos, ord) :
        SetRow(t, row(t)) /\ Hold(t, p, k)
  BY DEF AdoptOpenPosition
<1>2. t \in Requests
  BY TargetsAreRequests
<1>3. HasBrokerReference(row(t))
  BY NullAssumption DEF HasBrokerReference
<1>4. Unblocking
  BY ResolvingUnblocks DEF AdoptOpenPosition
<1> HIDE DEF row
<1> QED BY <1>1, <1>2, <1>3, <1>4, ObserveStep

LEMMA ClosureStep ==
  ASSUME TypeOK, RowsHaveReservations, NEW p \in Portfolios,
         NEW r \in Requests, NEW pos \in Positions, NEW d,
         RecordClosure(p, r, pos, d)
  PROVE  [Book!Next]_Book!bookVars
<1> DEFINE row(t) == [ledger[t] EXCEPT !.state = "RECONCILED",
                                       !.position = pos,
                                       !.deal = d]
<1>1. PICK t \in ClosureTargets(p, r, pos) : SetRow(t, row(t)) /\ Release(t)
  BY DEF RecordClosure
<1>2. t \in Requests /\ reservation[t].status # "NONE"
  BY DEF ClosureTargets, RowsByPosition, RowsHaveReservations
<1>3. HasBrokerReference(row(t))
  BY <1>2, NullAssumption DEF HasBrokerReference, TypeOK, Row
<1>4. Unblocking
  BY ResolvingUnblocks DEF RecordClosure
<1> HIDE DEF row
<1> QED BY <1>1, <1>2, <1>3, <1>4, ReleaseStep

LEMMA AdvanceStep ==
  ASSUME TypeOK, RowsHaveReservations, NEW r \in Requests,
         NEW s \in States, NEW c \in Claims, NEW ids \in Identities,
         Advance(r, s, c, ids)
  PROVE  [Book!Next]_Book!bookVars
<1> DEFINE row == [ledger[r] EXCEPT !.state = s,
                                    !.order = Given(ids.order, @),
                                    !.deal = Given(ids.deal, @),
                                    !.position = Given(ids.position, @)]
<1>1. SetRow(r, row) /\ UNCHANGED mods
  BY DEF Advance
<1>2. HasBrokerReference(ledger[r]) => HasBrokerReference(row)
  BY DEF HasBrokerReference, Given, TypeOK, Row
<1>3. reservation[r].status # "NONE"
  BY DEF Advance, RowsHaveReservations
<1>4. Unblocking
  BY <1>1, SameModsUnblock
<1>5. Release(r) \/ UNCHANGED reservation
  BY DEF Advance
<1> HIDE DEF row
<1> QED BY <1>1, <1>2, <1>3, <1>4, <1>5, ReleaseStep, IdentifyStep

LEMMA RepeatStep ==
  ASSUME TypeOK, RowsHaveReservations, NEW r \in Requests,
         NEW ids \in Identities, Repeat(r, ids)
  PROVE  [Book!Next]_Book!bookVars
<1> DEFINE row == [ledger[r] EXCEPT !.order = Given(@, ids.order),
                                    !.deal = Given(@, ids.deal),
                                    !.position = Given(@, ids.position)]
<1>1. SetRow(r, row) /\ UNCHANGED mods /\ UNCHANGED reservation
  BY DEF Repeat
<1>2. HasBrokerReference(ledger[r]) => HasBrokerReference(row)
  BY DEF HasBrokerReference, Given, TypeOK, Row
<1>3. reservation[r].status # "NONE"
  BY DEF Repeat, RowsHaveReservations
<1>4. Unblocking
  BY <1>1, SameModsUnblock
<1> HIDE DEF row
<1> QED BY <1>1, <1>2, <1>3, <1>4, IdentifyStep

LEMMA LeasingStep ==
  ASSUME TypeOK, Leasing
  PROVE  UNCHANGED Book!bookVars
<1>1. \A r \in Requests : HasBrokerReference(ledger'[r]) <=> HasBrokerReference(ledger[r])
  <2>1. CASE RecoverExpired
    <3>1. PICK late \in SUBSET {r \in Requests : Late(r)} :
            ledger' = [r \in Requests |->
              IF r \in late THEN [ledger[r] EXCEPT !.state = "RECOVERING"]
                            ELSE ledger[r]]
      BY <2>1 DEF RecoverExpired
    <3> QED BY <3>1 DEF TypeOK, Row, HasBrokerReference
  <2>2. CASE \E r \in Requests : LapseLease(r)
    BY <2>2 DEF LapseLease
  <2> QED BY <2>1, <2>2 DEF Leasing
<1>2. UNCHANGED <<reservation, mods>>
  BY DEF Leasing, RecoverExpired, LapseLease
<1> QED BY <1>1, <1>2 DEF Book!bookVars, HasBrokerReference, PendingIn

LEMMA OrderReconciliationStep ==
  ASSUME TypeOK, RowsHaveReservations, OrderReconciliation
  PROVE  [Book!Next]_Book!bookVars
<1>1. ASSUME NEW p \in Portfolios, NEW ord \in Orders, NEW r \in Requests,
             NEW k \in Risks, SyncPendingOrder(p, r, ord, k)
      PROVE  Book!Next
  <2> DEFINE row(t) == [ledger[t] EXCEPT
                          !.portfolio = p,
                          !.state = IF @ \in Terminal \cup {"FILLED"} THEN @
                                                                     ELSE "ACKED",
                          !.order = ord]
  <2>1. PICK t \in PendingOrderTargets(p, r, ord) :
          SetRow(t, row(t)) /\ Hold(t, p, k)
    BY <1>1 DEF SyncPendingOrder
  <2>2. t \in Requests
    BY TargetsAreRequests
  <2>3. HasBrokerReference(row(t))
    BY <2>2, NullAssumption DEF HasBrokerReference, TypeOK, Row
  <2>4. Unblocking
    BY <1>1, SameModsUnblock DEF SyncPendingOrder
  <2> HIDE DEF row
  <2> QED BY <2>1, <2>2, <2>3, <2>4, ObserveStep
<1>2. ASSUME NEW p \in Portfolios, NEW ord \in Orders,
             NEW s \in {"CANCELLED", "REJECTED"}, TerminalOrder(p, ord, s)
      PROVE  [Book!Next]_Book!bookVars
  <2> DEFINE row(t) == [ledger[t] EXCEPT !.state = s]
  <2>1. PICK t \in RowsByOrder(p, ord) : SetRow(t, row(t)) /\ Release(t)
    BY <1>2 DEF TerminalOrder
  <2>2. t \in Requests /\ reservation[t].status # "NONE"
    BY DEF RowsByOrder, RowsHaveReservations
  <2>3. HasBrokerReference(ledger[t]) => HasBrokerReference(row(t))
    BY <2>2 DEF HasBrokerReference, TypeOK, Row
  <2>4. UNCHANGED mods /\ Unblocking
    BY <1>2, SameModsUnblock DEF TerminalOrder
  <2> HIDE DEF row
  <2> QED BY <2>1, <2>2, <2>3, <2>4, ReleaseStep
<1> QED BY <1>1, <1>2 DEF OrderReconciliation

LEMMA ReconciliationStep ==
  ASSUME TypeOK, RowsHaveReservations, Reconciliation
  PROVE  [Book!Next]_Book!bookVars
<1>1. ASSUME NEW p \in Portfolios, NEW pos \in Positions,
             NEW k \in Risks \cup {0}, UpdatePositionRisk(p, pos, k)
      PROVE  Book!Next
  <2> DEFINE row(t) == [ledger[t] EXCEPT
                          !.state = IF @ \in Terminal THEN "FILLED" ELSE @]
  <2>1. PICK t \in RowsByPosition(p, pos) : SetRow(t, row(t)) /\ Hold(t, p, k)
    BY <1>1 DEF UpdatePositionRisk
  <2>2. t \in Requests /\ ledger[t].position = pos
    BY DEF RowsByPosition
  <2>3. HasBrokerReference(row(t))
    BY <2>2, NullAssumption DEF HasBrokerReference, TypeOK, Row
  <2>4. Unblocking
    BY <1>1, SameModsUnblock DEF UpdatePositionRisk
  <2> HIDE DEF row
  <2> QED BY <2>1, <2>2, <2>3, <2>4, ObserveStep
<1> QED BY <1>1, AdoptStep, ClosureStep
    DEF Reconciliation, SyncPosition, ClosePosition

LEMMA DealReportingStep ==
  ASSUME TypeOK, RowsHaveReservations, DealReporting
  PROVE  [Book!Next]_Book!bookVars
<1>1. ASSUME NEW p \in Portfolios, NEW r \in Requests, NEW d \in Deals,
             NEW event \in Deal, NEW open, NEW k \in Risks \cup {0},
             DealEvent(p, r, d, event, open, k)
      PROVE  [Book!Next]_Book!bookVars
  <2>1. event.position \in Positions
    BY DEF Deal
  <2>2. CASE AdoptOpenPosition(p, r, event.position, event.order, d, k, 0)
    BY <2>1, <2>2, AdoptStep
  <2>3. CASE RecordClosure(p, r, event.position, d)
    BY <2>1, <2>3, ClosureStep
  <2>4. CASE UNCHANGED <<ledger, reservation, expired, mods>>
    BY <2>4 DEF Book!bookVars, HasBrokerReference, PendingIn
  <2> QED BY <1>1, <2>2, <2>3, <2>4 DEF DealEvent
<1> QED BY <1>1 DEF DealReporting

\* Writing an intent closes admission to its portfolio.
LEMMA PrepareStep ==
  ASSUME TypeOK, NEW p \in Portfolios, NEW e \in Events,
         NEW pos \in Positions, NEW old \in Stops \cup {0}, NEW new \in Stops,
         PrepareModification(p, e, pos, old, new)
  PROVE  Book!Next
<1>1. mods' = [mods EXCEPT ![p] = [@ EXCEPT ![e] = mods'[p][e]]]
  BY DEF PrepareModification, TypeOK
<1>2. mods'[p][e].status = "PENDING"
  <2>1. ASSUME NEW m, mods' = [mods EXCEPT ![p][e] = m]
        PROVE  mods'[p][e] = m
    BY <2>1 DEF TypeOK
  <2>2. CASE \E t \in Requests : mods' = [mods EXCEPT ![p][e] =
               [request |-> t, position |-> pos, old |-> old,
                proposed |-> new, actual |-> 0, status |-> "PENDING"]]
    <3>1. PICK t \in Requests : mods' = [mods EXCEPT ![p][e] =
            [request |-> t, position |-> pos, old |-> old,
             proposed |-> new, actual |-> 0, status |-> "PENDING"]]
      BY <2>2
    <3>2. mods'[p][e] = [request |-> t, position |-> pos, old |-> old,
                         proposed |-> new, actual |-> 0, status |-> "PENDING"]
      BY <2>1, <3>1
    <3> QED BY <3>2
  <2>3. CASE /\ Rearms(mods[p][e])
             /\ mods' = [mods EXCEPT ![p][e] =
                  [mods[p][e] EXCEPT !.status = "PENDING", !.actual = 0]]
    <3>1. mods[p][e] \in Modification
      BY <2>3, PendingIsModification DEF Rearms, TypeOK
    <3>2. [mods[p][e] EXCEPT !.status = "PENDING", !.actual = 0].status = "PENDING"
      BY <3>1 DEF Modification
    <3> QED BY <2>1, <2>3, <3>2
  <2> QED BY <2>2, <2>3 DEF PrepareModification, RowsByPosition
<1>3. \A q \in Portfolios : q # p => PendingIn(q)' = PendingIn(q)
  BY <1>1 DEF PendingIn, TypeOK
<1>4. PendingIn(p)' # {}
  BY <1>2 DEF PendingIn
<1>5. {q \in Portfolios : PendingIn(q)' # {}}
        = {q \in Portfolios : PendingIn(q) # {}} \cup {p}
  BY <1>3, <1>4
<1>6. UNCHANGED <<ledger, reservation>>
  BY DEF PrepareModification
<1>7. Book!MarkUnresolved(p)
  BY <1>5, <1>6 DEF Book!MarkUnresolved, HasBrokerReference
<1> QED BY <1>7 DEF Book!Next

\* Confirming one lowers the risk of its request at most.
LEMMA ConfirmStep ==
  ASSUME TypeOK, NEW p \in Portfolios, NEW e \in Events, NEW stop \in Stops,
         NEW k \in Risks \cup {0}, ConfirmModification(p, e, stop, k)
  PROVE  Book!Next
<1> DEFINE m == mods[p][e]
<1>1. m \in Modification
  BY PendingIsModification DEF ConfirmModification, TypeOK
<1>2. m.request \in Requests
  BY <1>1 DEF Modification
<1>3. mods' = [mods EXCEPT ![p][e] =
                 [mods[p][e] EXCEPT !.status = "APPLIED", !.actual = stop]]
  BY DEF ConfirmModification
<1>4. [m EXCEPT !.status = "APPLIED", !.actual = stop].status = "APPLIED"
  BY <1>1 DEF Modification
<1>5. \A q \in Portfolios : PendingIn(q)' \subseteq PendingIn(q)
  BY <1>3, <1>4 DEF PendingIn, TypeOK
<1>6. {q \in Portfolios : PendingIn(q)' # {}}
        \subseteq {q \in Portfolios : PendingIn(q) # {}}
  BY <1>5
<1>7. Book!Reduce(m.request, k)
  BY <1>2, <1>6 DEF ConfirmModification, Book!Reduce, HasBrokerReference
<1> QED BY <1>2, <1>7 DEF Book!Next

(***************************************************************************)
(* Seen through its reservations, every step the ledger's handlers can     *)
(* take, in any order, is a step the risk book allows: admission respects  *)
(* the ceiling and the block, and nothing but an observation of the broker *)
(* raises what a request holds.                                            *)
(***************************************************************************)
THEOREM LedgerImplementsRiskBook == Spec => KeepsRiskBook
<1>1. Init => Book!Init
  BY DEF Init, Book!Init, NoRow, NoReservation, NoModification,
         HasBrokerReference, PendingIn
<1>2. TypeOK /\ RowsHaveReservations /\ [Next]_vars => [Book!Next]_Book!bookVars
  <2> SUFFICES ASSUME TypeOK, RowsHaveReservations, [Next]_vars
               PROVE  [Book!Next]_Book!bookVars
    OBVIOUS
  <2>1. CASE Admission
    BY <2>1, ReserveStep DEF Admission
  <2>2. CASE Report
    BY <2>2, AdvanceStep, RepeatStep DEF Report
  <2>3. CASE Leasing
    BY <2>3, LeasingStep
  <2>4. CASE Reconciliation
    BY <2>4, ReconciliationStep
  <2>5. CASE DealReporting
    BY <2>5, DealReportingStep
  <2>6. CASE OrderReconciliation
    BY <2>6, OrderReconciliationStep
  <2>7. CASE Modifying
    BY <2>7, PrepareStep, ConfirmStep DEF Modifying
  <2>8. CASE UNCHANGED vars
    BY <2>8 DEF vars, Book!bookVars, HasBrokerReference, PendingIn
  <2> QED BY <2>1, <2>2, <2>3, <2>4, <2>5, <2>6, <2>7, <2>8 DEF Next
<1> QED BY <1>1, <1>2, TypeCorrect, PairsStay, PTL
    DEF Spec, KeepsRiskBook, Book!Spec

-----------------------------------------------------------------------------

(***************************************************************************)
(* The heat no broker identity backs.  An admission adds to it what the    *)
(* ceiling leaves room for; every other step of the book leaves no request *)
(* unbacked that was not, and raises the risk of none that stays unbacked. *)
(***************************************************************************)

Unbacked(p) == {r \in Book!Held(p) : ~HasBrokerReference(ledger[r])}

LEMMA BookSum ==
  ASSUME NEW S
  PROVE  Book!Total(S) = SumFunctionOnSet([r \in Requests |-> reservation[r].risk], S)
BY DEF Book!Total, SumFunctionOnSet, Book!SumFunctionOnSet, FoldFunctionOnSet, Book!FoldFunctionOnSet,
       MapThenFoldSet, Book!MapThenFoldSet
 
BookInv ==
  /\ TypeOK
  /\ \A p \in Portfolios : IsFiniteSet(Book!Held(p)) /\ Book!Total(Unbacked(p)) <= MaxHeat

LEMMA UnbackedInv == BookInv => UnbackedHeatBounded
BY DEF BookInv, UnbackedHeatBounded, Book!UnbackedHeatBounded, Unbacked, Book!Held

LEMMA RiskIsNat == \A x \in Reservation : x.risk \in Nat
<1>1. \A x \in Reservation : x.risk \in Risks \cup {0}
  BY DEF Reservation
<1>2. Risks \cup {0} \subseteq Nat
  BY SizesAssumption
<1> QED BY <1>1, <1>2

LEMMA FallingHeat ==
  ASSUME BookInv, TypeOK', NEW p \in Portfolios, NEW r \in Requests,
         Book!Held(p)' \subseteq Book!Held(p) \cup {r},
         Unbacked(p)' \subseteq Unbacked(p),
         \A q \in Unbacked(p)' : \/ reservation'[q].risk = reservation[q].risk
                                 \/ reservation'[q].risk <= reservation[q].risk
  PROVE  IsFiniteSet(Book!Held(p)') /\ Book!Total(Unbacked(p))' <= MaxHeat
<1> DEFINE old == [q \in Requests |-> reservation[q].risk]
           new == [q \in Requests |-> reservation'[q].risk]
<1>1. IsFiniteSet(Book!Held(p)')
  <2>1. IsFiniteSet(Book!Held(p) \cup {r})
    BY FS_AddElement DEF BookInv
  <2> QED BY <2>1, FS_Subset
<1>2. IsFiniteSet(Unbacked(p)) /\ Unbacked(p) \subseteq Requests
  BY FS_Subset DEF BookInv, Unbacked, Book!Held
<1>3. \A q \in Unbacked(p) : old[q] \in Nat /\ new[q] \in Nat
  <2>1. \A q \in Unbacked(p) : reservation[q] \in Reservation /\ reservation'[q] \in Reservation
    BY <1>2 DEF BookInv, TypeOK
  <2> QED BY <1>2, <2>1, RiskIsNat
<1>4. \A q \in Unbacked(p)' : new[q] <= old[q]
  <2>1. \A q \in Unbacked(p)' : new[q] = old[q] \/ new[q] <= old[q]
    BY <1>2
  <2> HIDE DEF old, new
  <2> QED BY <1>3, <2>1
<1> HIDE DEF old, new
<1>5. /\ SumFunctionOnSet(new, Unbacked(p)') <= SumFunctionOnSet(old, Unbacked(p))
      /\ SumFunctionOnSet(new, Unbacked(p)') \in Nat
      /\ SumFunctionOnSet(old, Unbacked(p)) \in Nat
  BY <1>2, <1>3, <1>4, SumsGrow
<1>6. Book!Total(Unbacked(p)) = SumFunctionOnSet(old, Unbacked(p))
  BY BookSum DEF old
<1>7. Book!Total(Unbacked(p))' = SumFunctionOnSet(new, Unbacked(p)')
  BY DEF new, Book!Total, SumFunctionOnSet, Book!SumFunctionOnSet, FoldFunctionOnSet, Book!FoldFunctionOnSet,
       MapThenFoldSet, Book!MapThenFoldSet
<1> QED BY <1>1, <1>5, <1>6, <1>7, SizesAssumption DEF BookInv


\* An admission adds what the ceiling leaves room for, to one portfolio.
LEMMA AdmissionKeepsHeat ==
  ASSUME BookInv, TypeOK', NEW p \in Portfolios, NEW r \in Requests,
         NEW k \in Risks, Book!Admit(p, r, k)
  PROVE  IsFiniteSet(Book!Held(p)') /\ Book!Total(Unbacked(p))' <= MaxHeat
<1> DEFINE new == [q \in Requests |-> reservation'[q].risk]
           old == [q \in Requests |-> reservation[q].risk]
<1>1. /\ reservation[r].status = "NONE"
      /\ Book!Total(Book!Held(p)) + k <= MaxHeat
      /\ reservation' = [reservation EXCEPT
           ![r] = [portfolio |-> p, status |-> "ACTIVE", risk |-> k]]
  BY DEF Book!Admit
<1>2. /\ Book!Held(p)' = Book!Held(p) \cup {r} /\ r \notin Book!Held(p)
      /\ \A q \in Book!Held(p) : reservation'[q] = reservation[q]
      /\ reservation'[r].risk = k
  BY <1>1 DEF BookInv, TypeOK, Book!Held
<1>3. /\ IsFiniteSet(Book!Held(p)) /\ IsFiniteSet(Book!Held(p)')
      /\ Book!Held(p)' \subseteq Requests
  <2>1. IsFiniteSet(Book!Held(p) \cup {r})
    BY FS_AddElement DEF BookInv
  <2> QED BY <1>2, <2>1 DEF BookInv, Book!Held
<1>4. \A q \in Book!Held(p)' : new[q] \in Nat
  <2>1. \A q \in Requests : reservation'[q] \in Reservation
    BY DEF TypeOK
  <2> QED BY <1>3, <2>1, RiskIsNat
<1>5. SumFunctionOnSet(new, Book!Held(p)')
        = new[r] + SumFunctionOnSet(new, Book!Held(p)' \ {r})
  <2>1. Integral(new, Book!Held(p)')
    BY <1>4 DEF Integral
  <2> HIDE DEF new
  <2> QED BY <1>2, <1>3, <2>1, SumStep
<1>6. new[r] = k /\ Book!Held(p)' \ {r} = Book!Held(p)
  BY <1>2
<1>7. SumFunctionOnSet(new, Book!Held(p)) = SumFunctionOnSet(old, Book!Held(p))
  <2>1. \A q \in Book!Held(p) : new[q] = old[q]
    BY <1>2 DEF Book!Held
  <2> HIDE DEF new, old
  <2> QED BY <1>3, <2>1, SumsAgree
<1>8. Book!Total(Book!Held(p)) = SumFunctionOnSet(old, Book!Held(p))
  BY BookSum
<1>9. /\ SumFunctionOnSet(new, Unbacked(p)') <= SumFunctionOnSet(new, Book!Held(p)')
      /\ SumFunctionOnSet(new, Unbacked(p)') \in Nat
      /\ SumFunctionOnSet(new, Book!Held(p)') \in Nat
  <2>1. Unbacked(p)' \subseteq Book!Held(p)'
    BY DEF Unbacked
  <2>2. \A q \in Unbacked(p)' : new[q] <= new[q]
    BY <1>4, <2>1
  <2> HIDE DEF new
  <2> QED BY <1>3, <1>4, <2>1, <2>2, SumsGrow
<1>10. Book!Total(Unbacked(p))' = SumFunctionOnSet(new, Unbacked(p)')
  BY DEF Book!Total, SumFunctionOnSet, Book!SumFunctionOnSet, FoldFunctionOnSet,
         Book!FoldFunctionOnSet, MapThenFoldSet, Book!MapThenFoldSet
<1>11. SumFunctionOnSet(new, Book!Held(p)') <= MaxHeat
  <2> HIDE DEF new, old
  <2>1. SumFunctionOnSet(new, Book!Held(p)') = k + Book!Total(Book!Held(p))
    BY <1>5, <1>6, <1>7, <1>8
  <2>2. k \in Nat /\ SumFunctionOnSet(new, Book!Held(p)') \in Nat
    BY <1>9, SizesAssumption
  <2>3. Book!Total(Book!Held(p)) \in Int
    <3>1. Integral(old, Book!Held(p))
      <4>1. \A q \in Book!Held(p) : q \in Requests /\ reservation[q] \in Reservation
        BY DEF BookInv, TypeOK, Book!Held
      <4> QED BY <4>1, RiskIsNat DEF Integral, old
    <3> QED BY <1>3, <1>8, <3>1, SumIsInteger
  <2> HIDE DEF Book!Total, Book!Held
  <2> QED BY <1>1, <2>1, <2>2, <2>3
<1> HIDE DEF new, old
<1> QED BY <1>3, <1>9, <1>10, <1>11, SizesAssumption

\* No other step of the book raises the risk of a request it leaves unbacked.
LEMMA BookStepKeepsHeat ==
  ASSUME BookInv, TypeOK', [Book!Next]_Book!bookVars
  PROVE  BookInv'
<1> DEFINE Fine(p) == IsFiniteSet(Book!Held(p)') /\ Book!Total(Unbacked(p))' <= MaxHeat
           Backing(q) == HasBrokerReference(ledger[q]) => HasBrokerReference(ledger'[q])
<1> SUFFICES ASSUME NEW p \in Portfolios PROVE Fine(p)
  BY DEF BookInv
<1>1. reservation \in [Requests -> Reservation]
  BY DEF BookInv, TypeOK
<1>2. ASSUME NEW p1 \in Portfolios, NEW r \in Requests, NEW k \in Risks, Book!Admit(p1, r, k)
      PROVE  Fine(p)
  <2>1. CASE p = p1
    BY <1>2, <2>1, AdmissionKeepsHeat
  <2>2. CASE p # p1
    <3>1. Book!Held(p)' \subseteq Book!Held(p)
      BY <1>1, <1>2, <2>2 DEF Book!Admit, Book!Held
    <3>2. \A q \in Book!Held(p)' : reservation'[q] = reservation[q]
                                   /\ (HasBrokerReference(ledger'[q]) <=> HasBrokerReference(ledger[q]))
      BY <1>1, <1>2, <2>2 DEF Book!Admit, Book!Held
    <3>3. Unbacked(p)' \subseteq Unbacked(p)
      BY <3>1, <3>2 DEF Unbacked
    <3>4. \A q \in Unbacked(p)' : reservation'[q].risk = reservation[q].risk
      BY <3>2 DEF Unbacked
    <3> QED BY <3>1, <3>3, <3>4, FallingHeat
  <2> QED BY <2>1, <2>2
<1>3. ASSUME NEW p1 \in Portfolios, NEW r \in Requests, NEW k \in Risks \cup {0},
             Book!Observe(p1, r, k)
      PROVE  Fine(p)
  <2>1. \A q \in Requests \ {r} : reservation'[q] = reservation[q] /\ Backing(q)
    BY <1>1, <1>3 DEF Book!Observe
  <2>2. HasBrokerReference(ledger'[r])
    BY <1>3 DEF Book!Observe
  <2>3. Book!Held(p)' \subseteq Book!Held(p) \cup {r}
    BY <2>1 DEF Book!Held
  <2>4. Unbacked(p)' \subseteq Unbacked(p) /\ r \notin Unbacked(p)'
    BY <2>1, <2>2, <2>3 DEF Book!Held, Unbacked
  <2>5. \A q \in Unbacked(p)' : reservation'[q].risk = reservation[q].risk
    BY <2>1, <2>4 DEF Book!Held, Unbacked
  <2> QED BY <2>3, <2>4, <2>5, FallingHeat
<1>4. ASSUME NEW r \in Requests, reservation'[r].risk = reservation[r].risk
                                   \/ reservation'[r].risk <= reservation[r].risk,
             reservation'[r].portfolio = reservation[r].portfolio,
             reservation'[r].status = "ACTIVE" => reservation[r].status = "ACTIVE",
             \A q \in Requests : q # r => reservation'[q] = reservation[q],
             \A q \in Requests : Backing(q)
      PROVE  Fine(p)
  <2>1. Book!Held(p)' \subseteq Book!Held(p)
    BY <1>4 DEF Book!Held
  <2>2. Unbacked(p)' \subseteq Unbacked(p)
    BY <1>4, <2>1 DEF Unbacked, Book!Held
  <2>3. \A q \in Unbacked(p)' : reservation'[q].risk = reservation[q].risk
                                \/ reservation'[q].risk <= reservation[q].risk
    BY <1>4 DEF Unbacked, Book!Held
  <2> QED BY <2>1, <2>2, <2>3, FallingHeat
<1>5. ASSUME NEW r \in Requests, Book!Identify(r) PROVE Fine(p)
  BY <1>4, <1>5 DEF Book!Identify
<1>6. ASSUME NEW r \in Requests, NEW k \in Risks \cup {0}, Book!Reduce(r, k) PROVE Fine(p)
  <2>1. /\ reservation' = [reservation EXCEPT ![r].risk = k] /\ k <= reservation[r].risk
        /\ \A q \in Requests : Backing(q)
    BY <1>6 DEF Book!Reduce
  <2>2. /\ reservation'[r].risk = k
        /\ reservation'[r].portfolio = reservation[r].portfolio
        /\ reservation'[r].status = reservation[r].status
        /\ \A q \in Requests : q # r => reservation'[q] = reservation[q]
    BY <1>1, <2>1 DEF Reservation
  <2> QED BY <1>4, <2>1, <2>2
<1>7. ASSUME NEW r \in Requests, Book!Release(r) PROVE Fine(p)
  <2>1. /\ reservation' = [reservation EXCEPT ![r].status = "RELEASED"]
        /\ \A q \in Requests : Backing(q)
    BY <1>7 DEF Book!Release
  <2>2. /\ reservation'[r].risk = reservation[r].risk
        /\ reservation'[r].portfolio = reservation[r].portfolio
        /\ reservation'[r].status = "RELEASED"
        /\ \A q \in Requests : q # r => reservation'[q] = reservation[q]
    BY <1>1, <2>1 DEF Reservation
  <2> QED BY <1>4, <2>1, <2>2
<1>8. CASE \/ \E q \in Portfolios : Book!MarkUnresolved(q) \/ Book!MarkResolved(q)
           \/ UNCHANGED Book!bookVars
  <2>1. /\ reservation' = reservation
        /\ \A q \in Requests : HasBrokerReference(ledger'[q]) <=> HasBrokerReference(ledger[q])
    BY <1>8 DEF Book!MarkUnresolved, Book!MarkResolved, Book!bookVars
  <2>2. Book!Held(p)' = Book!Held(p) /\ Unbacked(p)' = Unbacked(p)
    BY <2>1 DEF Book!Held, Unbacked
  <2>3. Book!Total(Unbacked(p))' = Book!Total(Unbacked(p))
    BY <2>1, <2>2 DEF Book!Total
  <2> QED BY <2>2, <2>3 DEF BookInv
<1> QED BY <1>2, <1>3, <1>5, <1>6, <1>7, <1>8 DEF Book!Next

LEMMA BookInvInitially == Init => BookInv
<1> SUFFICES ASSUME Init PROVE BookInv
  OBVIOUS
<1>1. TypeOK
  BY DEF Init, TypeOK, NoRow, Row, NoReservation, Reservation, OrNull
<1>2. \A p \in Portfolios : Book!Held(p) = {} /\ Unbacked(p) = {}
  BY DEF Init, Book!Held, Unbacked, NoReservation
<1>3. Book!Total({}) = 0
  BY BookSum, SumOfNone
<1>4. \A p \in Portfolios : Book!Total(Unbacked(p)) = 0
  BY <1>2, <1>3
<1> QED BY <1>1, <1>2, <1>4, FS_EmptySet, SizesAssumption DEF BookInv

(***************************************************************************)
(* The ceiling holds for everything that has been admitted and that no     *)
(* broker identity backs, in every portfolio and after any sequence of     *)
(* handlers: what takes a portfolio over it is exposure the broker shows.  *)
(***************************************************************************)
THEOREM UnbackedHeatStaysBounded == Spec => []UnbackedHeatBounded
<1>1. Init => BookInv
  BY BookInvInitially
<1>2. BookInv /\ TypeOK' /\ [Book!Next]_Book!bookVars => BookInv'
  BY BookStepKeepsHeat
<1> QED BY <1>1, <1>2, UnbackedInv, TypeCorrect, LedgerImplementsRiskBook, PTL
    DEF Spec, KeepsRiskBook, Book!Spec

(***************************************************************************)
(* The transactions.  TxInv says what every call in progress holds and has *)
(* read, by the statement it has reached: the row it locked is the row it  *)
(* read, and an admission's count covers the reservations of its portfolio *)
(* that it has still to lock.  It holds because the other calls neither    *)
(* write a row it has locked nor raise the heat of a portfolio whose book  *)
(* it has; so the guards that were read are true when the call commits.    *)
(***************************************************************************)
Ops == {"none", "reserve", "transition", "sweep", "sync", "close"}

CallType ==
  [op : Ops, step : Nat \ {0}, portfolio : OrNull(Portfolios), request : OrNull(Requests),
   state : States \cup {"ABSENT"}, position : OrNull(Positions), deal : OrNull(Deals),
   risk : Risks \cup {0}, seen : Row, todo : SUBSET Requests, aim : OrNull(Requests),
   heat : Nat]

\* x and y are calls of the same handler with the same arguments, but for the
\* request, which a lookup may replace.
Same(x, y) ==
  /\ y.op = x.op /\ y.portfolio = x.portfolio /\ y.state = x.state
  /\ y.position = x.position /\ y.deal = x.deal /\ y.risk = x.risk

LEMMA NoRowTyped == NoRow \in Row
BY DEF NoRow, Row, OrNull

LEMMA NoCallTyped ==
  /\ NoCall \in CallType /\ NoCall.op = "none" /\ NoCall.step = 1 /\ NoCall.seen = NoRow
  /\ NoCall.todo = {} /\ NoCall.aim = NoRef /\ NoCall.heat = 0
BY NoRowTyped DEF NoCall, CallType, Ops, OrNull

\* What the update of one field does to a call.
LEMMA Updates ==
  ASSUME NEW x \in CallType
  PROVE  /\ LET y == [x EXCEPT !.step = @ + 1]
            IN  /\ y \in CallType /\ Same(x, y) /\ y.request = x.request
                /\ y.step = x.step + 1 /\ y.seen = x.seen /\ y.todo = x.todo
                /\ y.aim = x.aim /\ y.heat = x.heat
         /\ \A t \in OrNull(Requests) :
              LET y == [x EXCEPT !.request = t]
              IN  /\ y \in CallType /\ Same(x, y) /\ y.request = t
                  /\ y.step = x.step /\ y.seen = x.seen /\ y.todo = x.todo
                  /\ y.aim = x.aim /\ y.heat = x.heat
         /\ \A row \in Row :
              LET y == [x EXCEPT !.seen = row]
              IN  /\ y \in CallType /\ Same(x, y) /\ y.request = x.request
                  /\ y.step = x.step /\ y.seen = row /\ y.todo = x.todo
                  /\ y.aim = x.aim /\ y.heat = x.heat
         /\ \A S \in SUBSET Requests :
              LET y == [x EXCEPT !.todo = S]
              IN  /\ y \in CallType /\ Same(x, y) /\ y.request = x.request
                  /\ y.step = x.step /\ y.seen = x.seen /\ y.todo = S
                  /\ y.aim = x.aim /\ y.heat = x.heat
         /\ \A t \in OrNull(Requests) :
              LET y == [x EXCEPT !.aim = t]
              IN  /\ y \in CallType /\ Same(x, y) /\ y.request = x.request
                  /\ y.step = x.step /\ y.seen = x.seen /\ y.todo = x.todo
                  /\ y.aim = t /\ y.heat = x.heat
         /\ \A n \in Nat :
              LET y == [x EXCEPT !.heat = n]
              IN  /\ y \in CallType /\ Same(x, y) /\ y.request = x.request
                  /\ y.step = x.step /\ y.seen = x.seen /\ y.todo = x.todo
                  /\ y.aim = x.aim /\ y.heat = n
<1>1. x.step + 1 \in Nat \ {0}
  BY DEF CallType
<1> QED BY <1>1 DEF CallType, Same

\* What a handler is called with.
Asked(x) ==
  /\ x.step = 1 /\ x.seen = NoRow /\ x.todo = {} /\ x.aim = NoRef /\ x.heat = 0
  /\ x.op \in {"reserve", "transition", "sync", "close"} /\ x.request \in Requests
  /\ x.op # "transition" => x.portfolio \in Portfolios
  /\ x.op \in {"reserve", "sync"} => x.risk \in Risks
  /\ x.op \in {"sync", "close"} => x.position \in Positions
  /\ x.op = "transition" => x.state \in Reports
  /\ x.op = "close" => x.deal \in Deals

LEMMA NewCallsTyped == \A x \in NewCalls : x \in CallType /\ Asked(x)
<1> DEFINE Fine(x) == x \in CallType /\ Asked(x)
<1>0. 1 \in Nat \ {0}
  OBVIOUS
<1>1. ASSUME NEW p \in Portfolios, NEW r \in Requests, NEW k \in Risks
      PROVE  Fine(ReserveCall(p, r, k))
  BY <1>0, NoRowTyped DEF ReserveCall, NoCall, CallType, Ops, OrNull, Asked
<1>2. ASSUME NEW r \in Requests, NEW s \in Reports, NEW pos \in OrNull(Positions)
      PROVE  Fine(TransitionCall(r, s, pos))
  <2>1. s \in States
    BY SessionsAssumption
  <2> QED BY <2>1, <1>0, NoRowTyped DEF TransitionCall, NoCall, CallType, Ops, OrNull, Asked
<1>3. ASSUME NEW p \in Portfolios, NEW r \in Requests, NEW pos \in Positions, NEW k \in Risks
      PROVE  Fine(SyncCall(p, r, pos, k))
  BY <1>0, NoRowTyped DEF SyncCall, NoCall, CallType, Ops, OrNull, Asked
<1>4. ASSUME NEW p \in Portfolios, NEW r \in Requests, NEW pos \in Positions, NEW d \in Deals
      PROVE  Fine(CloseCall(p, r, pos, d))
  BY <1>0, NoRowTyped DEF CloseCall, NoCall, CallType, Ops, OrNull, Asked
<1> HIDE DEF Fine
<1>5. \A x \in NewCalls : Fine(x)
  BY <1>1, <1>2, <1>3, <1>4 DEF NewCalls
<1> QED BY <1>5 DEF Fine

\* Which handlers are at statement s, and at which step.
Place(s, op, step) ==
  /\ s = "book" => op \in {"reserve", "sync", "close"} /\ step = 1
  /\ s = "find" => op \in {"sync", "close"} /\ step = 2
  /\ s = "row" => \/ op = "reserve" /\ step = 2
                  \/ op = "transition" /\ step = 1
                  \/ op \in {"sync", "close"} /\ step = 3
  /\ s = "count" => op = "reserve" /\ step = 3
  /\ s = "insert" => op \in {"reserve", "sync"} /\ step = 4
  /\ s = "reservation" => \/ op = "transition" /\ step = 2
                          \/ op = "sync" /\ step = 5
                          \/ op = "close" /\ step = 4
  /\ s = "sweep" => op = "sweep"
  /\ s = "commit" => \/ op = "reserve" /\ step >= 5
                     \/ op = "transition" /\ step >= 3
                     \/ op = "sync" /\ step >= 6
                     \/ op = "close" /\ step >= 5
                     \/ op = "sweep" /\ step >= 2

LEMMA Places ==
  ASSUME NEW op \in Ops \ {"none"}, NEW step \in Nat \ {0}, NEW s,
         s = IF step <= Len(Statements(op)) THEN Statements(op)[step] ELSE "commit"
  PROVE  Place(s, op, step)
<1>1. CASE op = "reserve"
  <2>1. Statements(op) = <<"book", "row", "count", "insert">>
    BY <1>1 DEF Statements
  <2>2. \/ step = 1 /\ s = "book"
        \/ step = 2 /\ s = "row"
        \/ step = 3 /\ s = "count"
        \/ step = 4 /\ s = "insert"
        \/ step >= 5 /\ s = "commit"
    BY <2>1
  <2> QED BY <1>1, <2>2 DEF Place
<1>2. CASE op = "transition"
  <2>1. Statements(op) = <<"row", "reservation">>
    BY <1>2 DEF Statements
  <2>2. \/ step = 1 /\ s = "row"
        \/ step = 2 /\ s = "reservation"
        \/ step >= 3 /\ s = "commit"
    BY <2>1
  <2> QED BY <1>2, <2>2 DEF Place
<1>3. CASE op = "sync"
  <2>1. Statements(op) = <<"book", "find", "row", "insert", "reservation">>
    BY <1>3 DEF Statements
  <2>2. \/ step = 1 /\ s = "book"
        \/ step = 2 /\ s = "find"
        \/ step = 3 /\ s = "row"
        \/ step = 4 /\ s = "insert"
        \/ step = 5 /\ s = "reservation"
        \/ step >= 6 /\ s = "commit"
    BY <2>1
  <2> QED BY <1>3, <2>2 DEF Place
<1>4. CASE op = "close"
  <2>1. Statements(op) = <<"book", "find", "row", "reservation">>
    BY <1>4 DEF Statements
  <2>2. \/ step = 1 /\ s = "book"
        \/ step = 2 /\ s = "find"
        \/ step = 3 /\ s = "row"
        \/ step = 4 /\ s = "reservation"
        \/ step >= 5 /\ s = "commit"
    BY <2>1
  <2> QED BY <1>4, <2>2 DEF Place
<1>5. CASE op = "sweep"
  <2>1. Statements(op) = <<"sweep">>
    BY <1>5 DEF Statements
  <2>2. \/ step = 1 /\ s = "sweep"
        \/ step >= 2 /\ s = "commit"
    BY <2>1
  <2> QED BY <1>5, <2>2 DEF Place
<1> QED BY <1>1, <1>2, <1>3, <1>4, <1>5 DEF Ops

LEMMA PlaceOf ==
  ASSUME NEW c \in Sessions, call \in [Sessions -> CallType], NEW s, At(c, s)
  PROVE  call[c] \in CallType /\ Place(s, call[c].op, call[c].step)
<1>1. call[c].op \in Ops \ {"none"} /\ call[c].step \in Nat \ {0}
  BY DEF At, CallType
<1> QED BY <1>1, Places DEF At, Statement

-----------------------------------------------------------------------------

\* The call holds the row of its request, which is as it was read.
RowHeld(c) ==
  LET x == call[c]
  IN  /\ lock[RowLock(x.request)] = c
      /\ Known(x.request) /\ x.seen = ledger[x.request]
      /\ RowAccepted(x, x.seen)

\* The call has inserted the row of its request.
RowNew(c) == lock[RowLock(call[c].request)] = c /\ ~Known(call[c].request)

ReserveFine(c) ==
  LET x == call[c]
  IN  /\ x.portfolio \in Portfolios /\ x.request \in Requests /\ x.risk \in Risks
      /\ x.seen = NoRow /\ x.step <= 5
      /\ x.step <= 2 => x.heat = 0 /\ x.aim = NoRef
      /\ x.step >= 2 => lock[BookLock(x.portfolio)] = c
      /\ x.step = 3 => HeatOf(Active(x.portfolio) \ (x.todo \cup {x.aim})) <= x.heat
      /\ x.step >= 4 => Heat(x.portfolio) + x.risk <= MaxHeat
      /\ x.step = 5 => RowNew(c)

TransitionFine(c) ==
  LET x == call[c]
  IN  /\ x.request \in Requests /\ x.state \in Reports /\ x.step <= 3
      /\ x.step >= 2 => RowHeld(c)

SyncFine(c) ==
  LET x == call[c]
  IN  /\ x.portfolio \in Portfolios /\ x.request \in Requests
      /\ x.position \in Positions /\ x.risk \in Risks /\ x.step <= 6
      /\ x.step >= 2 => lock[BookLock(x.portfolio)] = c
      /\ x.step <= 3 => x.seen = NoRow
      /\ x.step = 4 => x.seen = NoRow \/ RowHeld(c)
      /\ x.step >= 5 => RowHeld(c) \/ RowNew(c)

CloseFine(c) ==
  LET x == call[c]
  IN  /\ x.portfolio \in Portfolios /\ x.request \in Requests
      /\ x.position \in Positions /\ x.deal \in Deals /\ x.step <= 5
      /\ x.step >= 4 => RowHeld(c)

SweepFine(c) == \A r \in Requests : lock[RowLock(r)] = c => Late(r)

CallFine(c) ==
  /\ call[c].op = "none" => call[c] = NoCall /\ \A l \in Locks : lock[l] # c
  /\ call[c].op = "reserve" => ReserveFine(c)
  /\ call[c].op = "transition" => TransitionFine(c)
  /\ call[c].op = "sync" => SyncFine(c)
  /\ call[c].op = "close" => CloseFine(c)
  /\ call[c].op = "sweep" => call[c].step = 1 /\ SweepFine(c)

TablesFine ==
  /\ TypeOK
  /\ \A r \in Requests : ~Known(r) => ledger[r] = NoRow
  /\ \A p \in Portfolios : IsFiniteSet(Active(p))
  /\ \A p \in Portfolios, e \in Events : mods[p][e] = NoModification

SessionsTyped == call \in [Sessions -> CallType] /\ lock \in [Locks -> Sessions \cup {NoRef}]

TxInv == TablesFine /\ SessionsTyped /\ \A c \in Sessions : CallFine(c)

LEMMA LocksAre ==
  /\ \A r \in Requests : RowLock(r) \in Locks /\ ReservationLock(r) \in Locks
  /\ \A p \in Portfolios : BookLock(p) \in Locks
  /\ \A r, t \in Requests : /\ RowLock(r) = RowLock(t) => r = t
                              /\ RowLock(r) # ReservationLock(t)
  /\ \A p, q \in Portfolios : BookLock(p) = BookLock(q) => p = q
BY DEF Locks, BookLock, RowLock, ReservationLock

(***************************************************************************)
(* What a step leaves to a session that does not take it: its call, its    *)
(* locks, the rows it has locked, and in a portfolio whose book it has     *)
(* locked no reservation that was not there before.                        *)
(***************************************************************************)
Cools(p) ==
  /\ Active(p)' \subseteq Active(p)
  /\ \A r \in Active(p)' : reservation'[r].risk = reservation[r].risk

Undisturbed(d) ==
  /\ call'[d] = call[d]
  /\ \A l \in Locks : lock'[l] = d <=> lock[l] = d
  /\ \A r \in Requests : lock[RowLock(r)] = d =>
       ledger'[r] = ledger[r] /\ (Late(r) => r \in expired')
  /\ \A p \in Portfolios : lock[BookLock(p)] = d => Cools(p)

LEMMA CoolHeat ==
  ASSUME TypeOK, TypeOK', NEW p \in Portfolios, IsFiniteSet(Active(p)), Cools(p), NEW S
  PROVE  /\ HeatOf(Active(p) \ S)' <= HeatOf(Active(p) \ S)
         /\ HeatOf(Active(p) \ S)' \in Nat /\ HeatOf(Active(p) \ S) \in Nat
<1> DEFINE f == [r \in Requests |-> reservation'[r].risk]
           g == [r \in Requests |-> reservation[r].risk]
           T == Active(p) \ S
           R == Active(p)' \ S
<1>1. IsFiniteSet(T) /\ R \subseteq T /\ T \subseteq Requests
  BY FS_Subset DEF Cools, Active
<1>2. \A x \in T : f[x] \in Nat /\ g[x] \in Nat
  <2>1. \A r \in Requests : reservation[r] \in Reservation /\ reservation'[r] \in Reservation
    BY DEF TypeOK
  <2> QED BY <1>1, <2>1, RiskIsNat
<1>3. \A x \in R : f[x] <= g[x]
  <2>1. \A x \in R : x \in Requests /\ f[x] = g[x]
    BY <1>1 DEF Cools
  <2> QED BY <1>1, <1>2, <2>1
<1>4. HeatOf(T) = SumFunctionOnSet(g, T) /\ (HeatOf(Active(p) \ S))' = SumFunctionOnSet(f, R)
  BY DEF HeatOf
<1> HIDE DEF f, g, T, R
<1>5. /\ SumFunctionOnSet(f, R) <= SumFunctionOnSet(g, T)
      /\ SumFunctionOnSet(f, R) \in Nat /\ SumFunctionOnSet(g, T) \in Nat
  BY <1>1, <1>2, <1>3, SumsGrow
<1> QED BY <1>4, <1>5 DEF T

LEMMA HeldStays ==
  ASSUME NEW d \in Sessions, Undisturbed(d), RowHeld(d), call[d].request \in Requests
  PROVE  RowHeld(d)'
<1>1. lock'[RowLock(call[d].request)] = d
  BY LocksAre DEF Undisturbed, RowHeld
<1>2. ledger'[call[d].request] = ledger[call[d].request]
  BY DEF Undisturbed, RowHeld
<1>3. RowAccepted(call[d], call[d].seen)
  BY DEF RowHeld
<1> QED BY <1>1, <1>2, <1>3 DEF Undisturbed, RowHeld, Known

LEMMA NewStays ==
  ASSUME NEW d \in Sessions, Undisturbed(d), RowNew(d), call[d].request \in Requests
  PROVE  RowNew(d)'
<1>1. lock'[RowLock(call[d].request)] = d
  BY LocksAre DEF Undisturbed, RowNew
<1> QED BY <1>1 DEF Undisturbed, RowNew, Known

LEMMA ReserveStays ==
  ASSUME TablesFine, TypeOK', SessionsTyped, NEW d \in Sessions, Undisturbed(d), ReserveFine(d)
  PROVE  ReserveFine(d)'
<1> DEFINE x == call[d]
<1>1. /\ x \in CallType /\ call'[d] = x
      /\ x.portfolio \in Portfolios /\ x.request \in Requests /\ x.risk \in Risks
      /\ x.step <= 5 /\ x.step \in Nat /\ x.heat \in Nat
  BY DEF SessionsTyped, Undisturbed, ReserveFine, CallType
<1>2. ASSUME x.step >= 2
      PROVE  /\ lock'[BookLock(x.portfolio)] = d
             /\ Cools(x.portfolio) /\ IsFiniteSet(Active(x.portfolio)) /\ TypeOK
  BY <1>1, <1>2, LocksAre DEF ReserveFine, Undisturbed, TablesFine
<1>3. ASSUME x.step = 3
      PROVE  HeatOf(Active(x.portfolio) \ (x.todo \cup {x.aim}))' <= x.heat
  <2> DEFINE S == x.todo \cup {x.aim}
             new == HeatOf(Active(x.portfolio) \ S)'
             old == HeatOf(Active(x.portfolio) \ S)
  <2>1. old <= x.heat
    BY <1>3 DEF ReserveFine
  <2>2. Cools(x.portfolio) /\ IsFiniteSet(Active(x.portfolio)) /\ TypeOK
    BY <1>1, <1>2, <1>3
  <2>3. PICK T : T = S
    OBVIOUS
  <2>4. PICK p : p = x.portfolio
    OBVIOUS
  <2>5. HeatOf(Active(p) \ T)' <= HeatOf(Active(p) \ T) /\ HeatOf(Active(p) \ T)' \in Nat
        /\ HeatOf(Active(p) \ T) \in Nat
    BY <1>1, <2>2, <2>4, CoolHeat
  <2>6. call'[d] = x
    BY <1>1
  <2>7. HeatOf(Active(p) \ T)' = HeatOf(Active(x.portfolio) \ S)'
    BY <2>3, <2>4, <2>6
  <2>8. HeatOf(Active(p) \ T)' <= x.heat
    BY <1>1, <2>1, <2>3, <2>4, <2>5
  <2> QED BY <2>7, <2>8
<1>4. ASSUME x.step >= 4 PROVE Heat(x.portfolio)' + x.risk <= MaxHeat
  <2>1. PICK p : p = x.portfolio
    OBVIOUS
  <2>2. x.step >= 2
    BY <1>1, <1>4
  <2>3. Cools(p) /\ IsFiniteSet(Active(p)) /\ TypeOK /\ p \in Portfolios
    BY <1>1, <1>2, <2>1, <2>2
  <2>4. HeatOf(Active(p) \ {})' <= HeatOf(Active(p) \ {}) /\ HeatOf(Active(p) \ {})' \in Nat
        /\ HeatOf(Active(p) \ {}) \in Nat
    BY <2>3, CoolHeat
  <2>5. Heat(p) = HeatOf(Active(p) \ {}) /\ Heat(p)' = HeatOf(Active(p) \ {})'
    BY DEF Heat
  <2>6. Heat(p) + x.risk <= MaxHeat /\ x.risk \in Nat /\ MaxHeat \in Nat
    BY <1>1, <1>4, <2>1, SizesAssumption DEF ReserveFine
  <2>7. Heat(p)' + x.risk <= MaxHeat
    BY <2>4, <2>5, <2>6
  <2>8. Heat(x.portfolio)' = Heat(p)'
    BY <1>1, <2>1
  <2> QED BY <2>7, <2>8, <1>1
<1>5. x.step = 5 => RowNew(d)'
  BY <1>1, NewStays DEF ReserveFine
<1> QED BY <1>1, <1>2, <1>3, <1>4, <1>5 DEF ReserveFine

LEMMA Bystander ==
  ASSUME TablesFine, TypeOK', SessionsTyped, NEW d \in Sessions, Undisturbed(d), CallFine(d)
  PROVE  CallFine(d)'
<1>1. call'[d] = call[d] /\ call[d] \in CallType
  BY DEF Undisturbed, SessionsTyped
<1>2. CASE call[d].op = "none"
  BY <1>1, <1>2 DEF CallFine, Undisturbed, Locks
<1>3. CASE call[d].op = "reserve"
  BY <1>1, <1>3, ReserveStays DEF CallFine
<1>4. CASE call[d].op = "transition"
  BY <1>1, <1>4, HeldStays DEF CallFine, TransitionFine
<1>5. CASE call[d].op = "sync"
  <2>1. SyncFine(d)
    BY <1>5 DEF CallFine
  <2>2. call[d].step >= 2 => lock'[BookLock(call[d].portfolio)] = d
    BY <2>1, LocksAre DEF SyncFine, Undisturbed
  <2>3. /\ RowHeld(d) => RowHeld(d)'
        /\ RowNew(d) => RowNew(d)'
    BY <2>1, HeldStays, NewStays DEF SyncFine
  <2>4. SyncFine(d)'
    BY <1>1, <2>1, <2>2, <2>3 DEF SyncFine
  <2> QED BY <1>1, <1>5, <2>4 DEF CallFine
<1>6. CASE call[d].op = "close"
  BY <1>1, <1>6, HeldStays DEF CallFine, CloseFine
<1>7. CASE call[d].op = "sweep"
  <2>1. ASSUME NEW r \in Requests, lock'[RowLock(r)] = d PROVE Late(r)'
    <3>1. lock[RowLock(r)] = d /\ Late(r)
      BY <1>7, <2>1, LocksAre DEF CallFine, SweepFine, Undisturbed
    <3>2. ledger'[r] = ledger[r] /\ r \in expired'
      BY <3>1 DEF Undisturbed
    <3> QED BY <3>1, <3>2 DEF Late
  <2> QED BY <1>1, <1>7, <2>1 DEF CallFine, SweepFine
<1> QED BY <1>1, <1>2, <1>3, <1>4, <1>5, <1>6, <1>7 DEF CallType, Ops

-----------------------------------------------------------------------------
(* Steps within a transaction                                               *)

\* All but the step, the request and what was read is as it was in x.
Goes(c, x) ==
  /\ call' \in [Sessions -> CallType] /\ call'[c] \in CallType /\ Same(x, call'[c])
  /\ \A d \in Sessions \ {c} : call'[d] = call[d]

LEMMA Proceeded ==
  ASSUME SessionsTyped, NEW c \in Sessions, NEW x \in CallType, Proceed(c, x)
  PROVE  /\ Goes(c, x)
         /\ call'[c].request = x.request /\ call'[c].step = x.step + 1
         /\ call'[c].seen = x.seen /\ call'[c].todo = x.todo
         /\ call'[c].aim = x.aim /\ call'[c].heat = x.heat
<1> DEFINE y == [x EXCEPT !.step = @ + 1]
<1>1. call' = [call EXCEPT ![c] = y]
  BY DEF Proceed
<1>2. /\ y \in CallType /\ Same(x, y) /\ y.request = x.request
      /\ y.step = x.step + 1 /\ y.seen = x.seen /\ y.todo = x.todo
      /\ y.aim = x.aim /\ y.heat = x.heat
  BY Updates
<1> HIDE DEF y
<1>3. call'[c] = y
  BY <1>1 DEF SessionsTyped
<1> QED BY <1>1, <1>2, <1>3 DEF SessionsTyped, Goes

\* The ways in which a step within a transaction uses the locks.
LocksMove(c) ==
  \/ UNCHANGED lock
  \/ \E l \in Locks : Acquire(c, l)
  \/ lock' = [l \in Locks |-> IF lock[l] = c THEN NoRef ELSE lock[l]]

LEMMA LocksOfOthers ==
  ASSUME SessionsTyped, NEW c \in Sessions, LocksMove(c)
  PROVE  /\ lock' \in [Locks -> Sessions \cup {NoRef}]
         /\ \A d \in Sessions \ {c}, l \in Locks : lock'[l] = d <=> lock[l] = d
<1>1. \A d \in Sessions : d # NoRef
  BY SessionsAssumption
<1>2. CASE UNCHANGED lock
  BY <1>2 DEF SessionsTyped
<1>3. ASSUME NEW l \in Locks, Acquire(c, l)
      PROVE  /\ lock' \in [Locks -> Sessions \cup {NoRef}]
             /\ \A d \in Sessions \ {c}, k \in Locks : lock'[k] = d <=> lock[k] = d
  BY <1>1, <1>3 DEF Acquire, SessionsTyped
<1>4. CASE lock' = [l \in Locks |-> IF lock[l] = c THEN NoRef ELSE lock[l]]
  BY <1>1, <1>4 DEF SessionsTyped
<1> QED BY <1>2, <1>3, <1>4 DEF LocksMove

LEMMA Acquired ==
  ASSUME SessionsTyped, NEW c \in Sessions, NEW l \in Locks, Acquire(c, l)
  PROVE  LocksMove(c) /\ lock'[l] = c /\ \A k \in Locks : lock[k] = c => lock'[k] = c
BY DEF Acquire, LocksMove, SessionsTyped

\* A step that leaves the tables alone disturbs nobody else.
LEMMA QuietStep ==
  ASSUME TxInv, NEW c \in Sessions, UnchangedTables, LocksMove(c),
         call' \in [Sessions -> CallType], CallFine(c)',
         \A d \in Sessions \ {c} : call'[d] = call[d]
  PROVE  TxInv'
<1>1. UNCHANGED <<ledger, reservation, expired, mods, deals>>
  BY DEF UnchangedTables
<1>2. TypeOK' /\ TablesFine'
  BY <1>1 DEF TxInv, TablesFine, TypeOK, Known, Active
<1>3. SessionsTyped'
  BY LocksOfOthers DEF SessionsTyped, TxInv
<1>4. ASSUME NEW d \in Sessions \ {c} PROVE CallFine(d)'
  <2>1. \A p \in Portfolios : Cools(p)
    BY <1>1 DEF Cools, Active
  <2>2. Undisturbed(d)
    BY <1>1, <2>1, LocksOfOthers DEF TxInv, Undisturbed, Late
  <2> QED BY <1>2, <2>2, Bystander DEF TxInv
<1> QED BY <1>2, <1>3, <1>4 DEF TxInv

LEMMA Ended ==
  ASSUME SessionsTyped, NEW c \in Sessions, End(c)
  PROVE  /\ LocksMove(c) /\ call' \in [Sessions -> CallType] /\ CallFine(c)'
         /\ \A d \in Sessions \ {c} : call'[d] = call[d]
<1>1. call' \in [Sessions -> CallType] /\ call'[c] = NoCall
  BY NoCallTyped DEF End, SessionsTyped
<1>2. \A l \in Locks : lock'[l] # c
  BY SessionsAssumption DEF End
<1>3. NoCall.op = "none"
  BY NoCallTyped
<1>4. CallFine(c)'
  BY <1>1, <1>2, <1>3 DEF CallFine
<1> QED BY <1>1, <1>4 DEF End, LocksMove, SessionsTyped

LEMMA BeginStep ==
  ASSUME TxInv, NEW c \in Sessions, Begin(c)
  PROVE  TxInv'
<1>1. PICK new \in NewCalls : call' = [call EXCEPT ![c] = new]
  BY DEF Begin
<1>2. new \in CallType /\ Asked(new)
  BY NewCallsTyped
<1>3. /\ call' \in [Sessions -> CallType] /\ call'[c] = new
      /\ \A d \in Sessions \ {c} : call'[d] = call[d]
  BY <1>1, <1>2 DEF TxInv, SessionsTyped
<1>4. CallFine(c)'
  BY <1>2, <1>3 DEF CallFine, ReserveFine, TransitionFine, SyncFine, CloseFine, Asked
<1>5. LocksMove(c) /\ UnchangedTables
  BY DEF Begin, LocksMove
<1> QED BY <1>3, <1>4, <1>5, QuietStep

LEMMA BeginSweepStep ==
  ASSUME TxInv, NEW c \in Sessions, BeginSweep(c)
  PROVE  TxInv'
<1> DEFINE late == {r \in Requests : Late(r)}
           new == [NoCall EXCEPT !.op = "sweep", !.todo = late]
<1>1. call' = [call EXCEPT ![c] = new] /\ call[c] = NoCall /\ UnchangedTables /\ UNCHANGED lock
  BY DEF BeginSweep
<1>2. new \in CallType /\ new.op = "sweep" /\ new.step = 1
  <2>1. late \in SUBSET Requests /\ 1 \in Nat \ {0}
    OBVIOUS
  <2> HIDE DEF late
  <2> QED BY <2>1, NoRowTyped DEF NoCall, CallType, Ops, OrNull
<1> HIDE DEF new
<1>3. /\ call' \in [Sessions -> CallType] /\ call'[c] = new
      /\ \A d \in Sessions \ {c} : call'[d] = call[d]
  BY <1>1, <1>2 DEF TxInv, SessionsTyped
<1>4. \A l \in Locks : lock'[l] # c
  BY <1>1, NoCallTyped DEF TxInv, CallFine
<1>5. CallFine(c)'
  BY <1>2, <1>3, <1>4, LocksAre DEF CallFine, SweepFine
<1> QED BY <1>1, <1>3, <1>5, QuietStep DEF LocksMove

LEMMA LockBookStep ==
  ASSUME TxInv, NEW c \in Sessions, LockBook(c)
  PROVE  TxInv'
<1> DEFINE x == call[c]
<1>1. SessionsTyped /\ x \in CallType /\ CallFine(c)
  BY DEF TxInv, SessionsTyped
<1>2. x.op \in {"reserve", "sync", "close"} /\ x.step = 1
  BY <1>1, PlaceOf DEF LockBook, Place, SessionsTyped
<1>3. /\ Goes(c, x) /\ call'[c].request = x.request /\ call'[c].step = x.step + 1
      /\ call'[c].seen = x.seen /\ call'[c].aim = x.aim /\ call'[c].heat = x.heat
  BY <1>1, Proceeded DEF LockBook
<1>4. x.portfolio \in Portfolios
  BY <1>1, <1>2 DEF CallFine, ReserveFine, SyncFine, CloseFine
<1>5. LocksMove(c) /\ lock'[BookLock(x.portfolio)] = c
  BY <1>1, <1>4, LocksAre, Acquired DEF LockBook
<1>6. CallFine(c)'
  <2>1. CASE x.op = "reserve"
    BY <1>1, <1>2, <1>3, <1>5, <2>1 DEF CallFine, ReserveFine, Goes, Same
  <2>2. CASE x.op = "sync"
    BY <1>1, <1>2, <1>3, <1>5, <2>2 DEF CallFine, SyncFine, Goes, Same
  <2>3. CASE x.op = "close"
    BY <1>1, <1>2, <1>3, <2>3 DEF CallFine, CloseFine, Goes, Same
  <2> QED BY <1>2, <2>1, <2>2, <2>3
<1> QED BY <1>3, <1>5, <1>6, QuietStep DEF LockBook, Goes

LEMMA FindStep ==
  ASSUME TxInv, NEW c \in Sessions, Find(c)
  PROVE  TxInv'
<1> DEFINE x == call[c]
<1>1. SessionsTyped /\ x \in CallType /\ CallFine(c)
  BY DEF TxInv, SessionsTyped
<1>2. x.op \in {"sync", "close"} /\ x.step = 2
  BY <1>1, PlaceOf DEF Find, Place, SessionsTyped
<1>3. PICK y \in CallType : /\ Proceed(c, y) /\ Same(x, y) /\ y.step = x.step /\ y.seen = x.seen
                            /\ y.request \in Requests
  <2>1. x.request \in Requests
    BY <1>1, <1>2 DEF CallFine, SyncFine, CloseFine
  <2>2. CASE Proceed(c, x)
    BY <1>1, <2>1, <2>2 DEF Same
  <2>3. CASE \E t \in RowsByPosition(x.portfolio, x.position) :
               Proceed(c, [x EXCEPT !.request = t])
    <3>1. PICK t \in Requests : Proceed(c, [x EXCEPT !.request = t])
      BY <2>3 DEF RowsByPosition
    <3>2. t \in OrNull(Requests)
      BY DEF OrNull
    <3>3. LET y == [x EXCEPT !.request = t]
          IN  /\ y \in CallType /\ Same(x, y) /\ y.request = t
              /\ y.step = x.step /\ y.seen = x.seen
      <4> HIDE DEF x
      <4> QED BY <1>1, <3>2, Updates
    <3> QED BY <3>1, <3>3
  <2> QED BY <2>2, <2>3 DEF Find
<1>4. /\ Goes(c, y) /\ call'[c].request = y.request /\ call'[c].step = 3
      /\ call'[c].seen = x.seen
  BY <1>1, <1>2, <1>3, Proceeded
<1>5. LocksMove(c) /\ lock' = lock /\ UnchangedTables
  BY DEF Find, LocksMove
<1>6. CallFine(c)'
  <2>1. CASE x.op = "sync"
    <3>1. SyncFine(c)
      BY <1>1, <2>1 DEF CallFine
    <3>2. SyncFine(c)'
      BY <1>2, <1>3, <1>4, <1>5, <3>1 DEF SyncFine, Goes, Same
    <3> QED BY <1>3, <1>4, <2>1, <3>2 DEF CallFine, Goes, Same
  <2>2. CASE x.op = "close"
    BY <1>1, <1>2, <1>3, <1>4, <2>2 DEF CallFine, CloseFine, Goes, Same
  <2> QED BY <1>2, <2>1, <2>2
<1> QED BY <1>4, <1>5, <1>6, QuietStep DEF Goes

LEMMA LockRowStep ==
  ASSUME TxInv, NEW c \in Sessions, LockRow(c)
  PROVE  TxInv'
<1> DEFINE x == call[c]
           row == ledger[x.request]
           y == [x EXCEPT !.seen = row]
<1>1. SessionsTyped /\ x \in CallType /\ CallFine(c)
  BY DEF TxInv, SessionsTyped
<1>2. \/ x.op = "reserve" /\ x.step = 2
      \/ x.op = "transition" /\ x.step = 1
      \/ x.op \in {"sync", "close"} /\ x.step = 3
  BY <1>1, PlaceOf DEF LockRow, Place, SessionsTyped
<1>3. CASE End(c)
  BY <1>1, <1>3, Ended, QuietStep DEF LockRow
<1>4. CASE ~End(c)
  <2>1. /\ RowAccepted(x, row) /\ Known(x.request) /\ Acquire(c, RowLock(x.request))
        /\ Proceed(c, y) /\ UnchangedTables
    BY <1>4 DEF LockRow
  <2>2. x.op # "reserve"
    BY <2>1 DEF RowAccepted
  <2>3. x.request \in Requests
    BY <1>1, <1>2, <2>2 DEF CallFine, TransitionFine, SyncFine, CloseFine
  <2>4. row \in Row
    BY <2>3 DEF TxInv, TablesFine, TypeOK
  <2>5. /\ y \in CallType /\ Same(x, y) /\ y.request = x.request
        /\ y.step = x.step /\ y.seen = row
    BY <1>1, <2>4, Updates
  <2> HIDE DEF y
  <2>6. /\ Goes(c, y) /\ call'[c].request = x.request /\ call'[c].step = x.step + 1
        /\ call'[c].seen = row
    BY <1>1, <2>1, <2>5, Proceeded
  <2>7. /\ LocksMove(c) /\ lock'[RowLock(x.request)] = c
        /\ \A k \in Locks : lock[k] = c => lock'[k] = c
    BY <1>1, <2>1, <2>3, LocksAre, Acquired
  <2>8. Same(x, call'[c])
    BY <2>5, <2>6 DEF Goes, Same
  <2>9. RowHeld(c)'
    <3>1. RowAccepted(call'[c], row)
      BY <2>1, <2>6, <2>8 DEF RowAccepted, Same
    <3>2. ledger' = ledger
      BY <2>1 DEF UnchangedTables
    <3> QED BY <2>1, <2>6, <2>7, <3>1, <3>2 DEF RowHeld, Known
  <2>10. CallFine(c)'
    <3>1. CASE x.op = "transition"
      BY <1>1, <1>2, <2>6, <2>8, <2>9, <3>1 DEF CallFine, TransitionFine, Same
    <3>2. CASE x.op = "sync"
      <4>1. x.portfolio \in Portfolios /\ lock[BookLock(x.portfolio)] = c
        BY <1>1, <1>2, <3>2 DEF CallFine, SyncFine
      <4>2. lock'[BookLock(x.portfolio)] = c
        BY <2>7, <4>1, LocksAre
      <4> QED BY <1>1, <1>2, <2>6, <2>8, <2>9, <3>2, <4>2 DEF CallFine, SyncFine, Same
    <3>3. CASE x.op = "close"
      BY <1>1, <1>2, <2>6, <2>8, <2>9, <3>3 DEF CallFine, CloseFine, Same
    <3> QED BY <1>2, <2>2, <3>1, <3>2, <3>3
  <2> QED BY <2>1, <2>6, <2>7, <2>10, QuietStep DEF Goes
<1> QED BY <1>3, <1>4

LEMMA MissRowStep ==
  ASSUME TxInv, NEW c \in Sessions, MissRow(c)
  PROVE  TxInv'
<1> DEFINE x == call[c]
           y == [x EXCEPT !.todo = Active(x.portfolio)]
<1>1. SessionsTyped /\ x \in CallType /\ CallFine(c)
  BY DEF TxInv, SessionsTyped
<1>2. \/ x.op = "reserve" /\ x.step = 2
      \/ x.op = "transition" /\ x.step = 1
      \/ x.op \in {"sync", "close"} /\ x.step = 3
  BY <1>1, PlaceOf DEF MissRow, Place, SessionsTyped
<1>3. UnchangedTables
  BY DEF MissRow
<1>4. CASE End(c)
  BY <1>1, <1>3, <1>4, Ended, QuietStep
<1>5. CASE x.op = "reserve"
  <2>1. Proceed(c, y) /\ UNCHANGED lock
    BY <1>5 DEF MissRow, Running
  <2>2. /\ y \in CallType /\ Same(x, y) /\ y.request = x.request
        /\ y.step = x.step /\ y.seen = x.seen /\ y.todo = Active(x.portfolio)
        /\ y.aim = x.aim /\ y.heat = x.heat
    <3>1. Active(x.portfolio) \in SUBSET Requests
      BY DEF Active
    <3> HIDE DEF x
    <3> QED BY <1>1, <3>1, Updates
  <2> HIDE DEF y
  <2>3. /\ Goes(c, y) /\ call'[c].request = x.request /\ call'[c].step = 3
        /\ call'[c].seen = x.seen /\ call'[c].todo = Active(x.portfolio)
        /\ call'[c].aim = x.aim /\ call'[c].heat = x.heat
    BY <1>1, <1>2, <1>5, <2>1, <2>2, Proceeded
  <2>4. Same(x, call'[c])
    BY <2>2, <2>3 DEF Goes, Same
  <2>5. ReserveFine(c)
    BY <1>1, <1>5 DEF CallFine
  <2>6. HeatOf(Active(x.portfolio) \ (x.todo \cup {x.aim}))' <= call'[c].heat
    <3>1. PICK p : p = x.portfolio
      OBVIOUS
    <3>2. call'[c].portfolio = p /\ call'[c].todo = Active(p) /\ call'[c].heat = 0
      BY <1>2, <1>5, <2>3, <2>4, <2>5, <3>1 DEF Same, ReserveFine
    <3>3. Active(p)' = Active(p)
      BY <1>3 DEF UnchangedTables, Active
    <3>4. (Active(x.portfolio) \ (x.todo \cup {x.aim}))' = {}
      BY <3>2, <3>3
    <3>5. HeatOf({})' = 0
      BY SumOfNone DEF HeatOf
    <3> QED BY <3>2, <3>4, <3>5
  <2>7. ReserveFine(c)'
    BY <1>1, <1>2, <1>5, <2>1, <2>3, <2>4, <2>5, <2>6 DEF ReserveFine, Same
  <2>8. CallFine(c)'
    BY <1>5, <2>4, <2>7 DEF CallFine, Same
  <2> QED BY <1>3, <2>1, <2>3, <2>8, QuietStep DEF LocksMove, Goes
<1>6. CASE x.op = "sync"
  <2>1. Proceed(c, x) /\ UNCHANGED lock
    BY <1>6 DEF MissRow, Running
  <2>2. /\ Goes(c, x) /\ call'[c].request = x.request /\ call'[c].step = 4
        /\ call'[c].seen = x.seen
    BY <1>1, <1>2, <1>6, <2>1, Proceeded
  <2>3. SyncFine(c)
    BY <1>1, <1>6 DEF CallFine
  <2>4. SyncFine(c)'
    BY <1>2, <1>6, <2>1, <2>2, <2>3 DEF SyncFine, Goes, Same
  <2>5. CallFine(c)'
    BY <1>6, <2>2, <2>4 DEF CallFine, Goes, Same
  <2> QED BY <1>3, <2>1, <2>2, <2>5, QuietStep DEF LocksMove, Goes
<1> QED BY <1>2, <1>4, <1>5, <1>6 DEF MissRow, Running

\* The call stays at its statement, and changes only what it has still to do.
Lingers(c) ==
  /\ call' \in [Sessions -> CallType] /\ Same(call[c], call'[c])
  /\ call'[c].request = call[c].request /\ call'[c].step = call[c].step
  /\ call'[c].seen = call[c].seen
  /\ \A d \in Sessions \ {c} : call'[d] = call[d]

LEMMA Aimed ==
  ASSUME SessionsTyped, NEW c \in Sessions, NEW r \in Requests,
         call' = [call EXCEPT ![c].aim = r, ![c].todo = @ \ {r}]
  PROVE  /\ Lingers(c) /\ call'[c].aim = r /\ call'[c].todo = call[c].todo \ {r}
         /\ call'[c].heat = call[c].heat
<1> DEFINE x == call[c]
           y == [x EXCEPT !.aim = r]
           z == [y EXCEPT !.todo = x.todo \ {r}]
<1>1. x \in CallType /\ x.todo \ {r} \in SUBSET Requests /\ r \in OrNull(Requests)
  BY DEF SessionsTyped, CallType, OrNull
<1> HIDE DEF x
<1>2. /\ y \in CallType /\ Same(x, y) /\ y.request = x.request
      /\ y.step = x.step /\ y.seen = x.seen /\ y.todo = x.todo
      /\ y.aim = r /\ y.heat = x.heat
  BY <1>1, Updates
<1>3. call' = [call EXCEPT ![c] = z]
  BY <1>1, <1>2 DEF SessionsTyped, CallType, x
<1> HIDE DEF y
<1>4. /\ z \in CallType /\ Same(y, z) /\ z.request = y.request
      /\ z.step = y.step /\ z.seen = y.seen /\ z.todo = x.todo \ {r}
      /\ z.aim = y.aim /\ z.heat = y.heat
  BY <1>1, <1>2, Updates
<1> HIDE DEF z
<1>5. call' \in [Sessions -> CallType] /\ call'[c] = z /\ \A d \in Sessions \ {c} : call'[d] = call[d]
  BY <1>3, <1>4 DEF SessionsTyped
<1> QED BY <1>2, <1>4, <1>5 DEF Lingers, Same, x

LEMMA Counted ==
  ASSUME SessionsTyped, NEW c \in Sessions, NEW n \in Nat,
         call' = [call EXCEPT ![c].aim = NoRef, ![c].heat = @ + n]
  PROVE  /\ Lingers(c) /\ call'[c].aim = NoRef /\ call'[c].todo = call[c].todo
         /\ call'[c].heat = call[c].heat + n
<1> DEFINE x == call[c]
           y == [x EXCEPT !.aim = NoRef]
           z == [y EXCEPT !.heat = x.heat + n]
<1>1. x \in CallType /\ x.heat + n \in Nat /\ NoRef \in OrNull(Requests)
  BY DEF SessionsTyped, CallType, OrNull
<1> HIDE DEF x
<1>2. /\ y \in CallType /\ Same(x, y) /\ y.request = x.request
      /\ y.step = x.step /\ y.seen = x.seen /\ y.todo = x.todo
      /\ y.aim = NoRef /\ y.heat = x.heat
  BY <1>1, Updates
<1>3. call' = [call EXCEPT ![c] = z]
  BY <1>1, <1>2 DEF SessionsTyped, CallType, x
<1> HIDE DEF y
<1>4. /\ z \in CallType /\ Same(y, z) /\ z.request = y.request
      /\ z.step = y.step /\ z.seen = y.seen /\ z.todo = y.todo
      /\ z.aim = y.aim /\ z.heat = x.heat + n
  BY <1>1, <1>2, Updates
<1> HIDE DEF z
<1>5. call' \in [Sessions -> CallType] /\ call'[c] = z /\ \A d \in Sessions \ {c} : call'[d] = call[d]
  BY <1>3, <1>4 DEF SessionsTyped
<1> QED BY <1>2, <1>4, <1>5 DEF Lingers, Same, x

LEMMA Dropped ==
  ASSUME SessionsTyped, NEW c \in Sessions, call' = [call EXCEPT ![c].aim = NoRef]
  PROVE  /\ Lingers(c) /\ call'[c].aim = NoRef /\ call'[c].todo = call[c].todo
<1> DEFINE x == call[c]
           y == [x EXCEPT !.aim = NoRef]
<1>1. x \in CallType /\ NoRef \in OrNull(Requests)
  BY DEF SessionsTyped, OrNull
<1>2. call' = [call EXCEPT ![c] = y]
  OBVIOUS
<1> HIDE DEF x
<1>3. /\ y \in CallType /\ Same(x, y) /\ y.request = x.request
      /\ y.step = x.step /\ y.seen = x.seen /\ y.todo = x.todo
      /\ y.aim = NoRef /\ y.heat = x.heat
  BY <1>1, Updates
<1> HIDE DEF y
<1>4. call' \in [Sessions -> CallType] /\ call'[c] = y /\ \A d \in Sessions \ {c} : call'[d] = call[d]
  BY <1>2, <1>3 DEF SessionsTyped
<1> QED BY <1>3, <1>4 DEF Lingers, Same, x

LEMMA AimStep ==
  ASSUME TxInv, NEW c \in Sessions, Aim(c)
  PROVE  TxInv'
<1> DEFINE x == call[c]
<1>1. SessionsTyped /\ x \in CallType /\ CallFine(c)
  BY DEF TxInv, SessionsTyped
<1>2. (x.op = "reserve" /\ x.step = 3) \/ x.op = "sweep"
  BY <1>1, PlaceOf DEF Aim, Place, SessionsTyped
<1>3. PICK r \in x.todo : call' = [call EXCEPT ![c].aim = r, ![c].todo = @ \ {r}]
  BY DEF Aim
<1> DEFINE z == call'[c]
<1>4. r \in Requests /\ x.todo \ {r} \in SUBSET Requests
  BY <1>1, <1>3 DEF CallType
<1>7. /\ z \in CallType /\ Same(x, z) /\ z.request = x.request
      /\ z.step = x.step /\ z.seen = x.seen /\ z.todo = x.todo \ {r}
      /\ z.aim = r /\ z.heat = x.heat
  BY <1>1, <1>3, <1>4, Aimed DEF Lingers
<1>8. /\ call' \in [Sessions -> CallType] /\ call'[c] = z
      /\ \A d \in Sessions \ {c} : call'[d] = call[d]
  BY <1>1, <1>3, <1>4, Aimed DEF Lingers
<1> HIDE DEF z
<1>9. CallFine(c)'
  <2>1. CASE x.op = "reserve"
    <3>1. ReserveFine(c)
      BY <1>1, <2>1 DEF CallFine
    <3>2. UNCHANGED <<reservation, lock>> /\ x.aim = NoRef
      BY DEF Aim, UnchangedTables
    <3>3. HeatOf(Active(x.portfolio) \ (x.todo \cup {x.aim}))' <= call'[c].heat
      <4>1. PICK p : p = x.portfolio
        OBVIOUS
      <4>2. Active(p)' = Active(p) /\ Active(p) \subseteq Requests
        BY <3>2 DEF Active
      <4>3. NoRef \notin Requests
        BY SessionsAssumption
      <4>4. (Active(x.portfolio) \ (x.todo \cup {x.aim}))' = Active(p) \ (x.todo \cup {x.aim})
        BY <1>3, <1>7, <1>8, <3>2, <4>1, <4>2, <4>3 DEF Same
      <4>5. PICK T : T = Active(p) \ (x.todo \cup {x.aim})
        OBVIOUS
      <4>6. HeatOf(T)' = HeatOf(T)
        BY <3>2 DEF HeatOf
      <4>7. HeatOf(T) <= x.heat
        BY <1>2, <2>1, <3>1, <4>1, <4>5 DEF ReserveFine
      <4> QED BY <1>7, <1>8, <4>4, <4>5, <4>6, <4>7
    <3>4. ReserveFine(c)'
      BY <1>2, <1>7, <1>8, <2>1, <3>1, <3>2, <3>3 DEF ReserveFine, Same
    <3> QED BY <1>7, <1>8, <2>1, <3>4 DEF CallFine, Same
  <2>2. CASE x.op = "sweep"
    <3>1. lock' = lock /\ UNCHANGED <<ledger, expired>>
      BY DEF Aim, UnchangedTables
    <3> QED BY <1>1, <1>7, <1>8, <2>2, <3>1 DEF CallFine, SweepFine, Late, Same
  <2> QED BY <1>2, <2>1, <2>2
<1> QED BY <1>8, <1>9, QuietStep DEF Aim, LocksMove

LEMMA CountStep ==
  ASSUME TxInv, NEW c \in Sessions, Count(c)
  PROVE  TxInv'
<1> DEFINE x == call[c]
           r == x.aim
           counted == IF r \in Active(x.portfolio) THEN reservation[r].risk ELSE 0
<1>1. SessionsTyped /\ x \in CallType /\ CallFine(c)
  BY DEF TxInv, SessionsTyped
<1>2. x.op = "reserve" /\ x.step = 3 /\ ReserveFine(c)
  BY <1>1, PlaceOf DEF Count, Place, CallFine, SessionsTyped
<1>3. r \in Requests /\ r # NoRef /\ x.heat \in Nat /\ x.todo \subseteq Requests
  BY <1>1 DEF Count, CallType, OrNull
<1>4. /\ \A t \in Requests : reservation[t].risk \in Nat
      /\ IsFiniteSet(Active(x.portfolio)) /\ Active(x.portfolio) \subseteq Requests
  <2>1. \A t \in Requests : reservation[t] \in Reservation
    BY DEF TxInv, TablesFine, TypeOK
  <2> QED BY <1>2, <2>1, RiskIsNat DEF TxInv, TablesFine, ReserveFine, Active
<1>5. counted \in Nat
  BY <1>3, <1>4
<1>6. call' = [call EXCEPT ![c].aim = NoRef, ![c].heat = @ + counted]
  BY DEF Count
<1>7. HeatOf(Active(x.portfolio) \ (x.todo \cup {NoRef})) <= x.heat + counted
  <2> DEFINE A == Active(x.portfolio)
             f == [t \in Requests |-> reservation[t].risk]
             old == A \ (x.todo \cup {r})
             new == A \ (x.todo \cup {NoRef})
  <2>1. /\ HeatOf(new) = SumFunctionOnSet(f, new)
        /\ SumFunctionOnSet(f, old) <= x.heat
    BY <1>2 DEF HeatOf, ReserveFine
  <2> SUFFICES SumFunctionOnSet(f, new) <= x.heat + counted
    BY <2>1
  <2>2. NoRef \notin A
    BY <1>4, SessionsAssumption
  <2>3. IsFiniteSet(new) /\ IsFiniteSet(old)
    BY <1>4, FS_Subset
  <2>4. Integral(f, new) /\ Integral(f, old)
    BY <1>4 DEF Integral
  <2>5. SumFunctionOnSet(f, old) \in Int
    BY <2>3, <2>4, SumIsInteger
  <2>6. CASE r \in A /\ r \notin x.todo
    <3>1. r \in new /\ new \ {r} = old
      BY <1>3, <2>2, <2>6
    <3>2. SumFunctionOnSet(f, new) = f[r] + SumFunctionOnSet(f, old)
      <4> HIDE DEF new, old, f, r
      <4> QED BY <2>3, <2>4, <3>1, SumStep
    <3>3. f[r] = counted
      BY <1>3, <2>6
    <3> HIDE DEF new, old, f, counted
    <3> QED BY <1>3, <1>5, <2>1, <2>5, <3>2, <3>3
  <2>7. CASE ~(r \in A /\ r \notin x.todo)
    <3>1. new = old
      BY <2>2, <2>7
    <3> HIDE DEF new, old, f, counted
    <3> QED BY <1>3, <1>5, <2>1, <2>5, <3>1
  <2> QED BY <2>6, <2>7
<1> HIDE DEF counted
<1> DEFINE z == call'[c]
<1>9. /\ z \in CallType /\ Same(x, z) /\ z.request = x.request
      /\ z.step = x.step /\ z.seen = x.seen /\ z.todo = x.todo
      /\ z.aim = NoRef /\ z.heat = x.heat + counted
  BY <1>1, <1>5, <1>6, Counted DEF Lingers
<1>10. /\ call' \in [Sessions -> CallType] /\ call'[c] = z
       /\ \A d \in Sessions \ {c} : call'[d] = call[d]
  BY <1>1, <1>5, <1>6, Counted DEF Lingers
<1> HIDE DEF z
<1>11. /\ LocksMove(c) /\ UnchangedTables
       /\ \A k \in Locks : lock[k] = c => lock'[k] = c
  BY <1>1, <1>3, LocksAre, Acquired DEF Count
<1>12. CallFine(c)'
  <2>1. HeatOf(Active(x.portfolio) \ (x.todo \cup {x.aim}))' <= call'[c].heat
    <3>1. PICK p : p = x.portfolio
      OBVIOUS
    <3>2. Active(p)' = Active(p)
      BY <1>11 DEF Active, UnchangedTables
    <3>3. (Active(x.portfolio) \ (x.todo \cup {x.aim}))' = Active(p) \ (x.todo \cup {NoRef})
      BY <1>9, <1>10, <3>1, <3>2 DEF Same
    <3>4. PICK T : T = Active(p) \ (x.todo \cup {NoRef})
      OBVIOUS
    <3>5. HeatOf(T)' = HeatOf(T)
      BY <1>11 DEF HeatOf, UnchangedTables
    <3>6. HeatOf(T) <= x.heat + counted
      BY <1>7, <3>1, <3>4
    <3> QED BY <1>9, <1>10, <3>3, <3>4, <3>5, <3>6
  <2>2. lock'[BookLock(x.portfolio)] = c
    BY <1>2, <1>11, LocksAre DEF ReserveFine
  <2>3. ReserveFine(c)'
    BY <1>2, <1>9, <1>10, <2>1, <2>2 DEF ReserveFine, Same
  <2> QED BY <1>2, <1>9, <1>10, <2>3 DEF CallFine, Same
<1> QED BY <1>10, <1>11, <1>12, QuietStep

LEMMA AdmitStep ==
  ASSUME TxInv, NEW c \in Sessions, Admit(c)
  PROVE  TxInv'
<1> DEFINE x == call[c]
<1>1. SessionsTyped /\ x \in CallType /\ CallFine(c) /\ UnchangedTables
  BY DEF TxInv, SessionsTyped, Admit
<1>2. x.op = "reserve" /\ x.step = 3 /\ ReserveFine(c)
  BY <1>1, PlaceOf DEF Admit, Place, CallFine, SessionsTyped
<1>3. CASE End(c)
  BY <1>1, <1>3, Ended, QuietStep
<1>4. CASE ~End(c)
  <2>1. Proceed(c, x) /\ UNCHANGED lock /\ x.heat + x.risk <= MaxHeat
    BY <1>4 DEF Admit
  <2>2. /\ Goes(c, x) /\ call'[c].request = x.request /\ call'[c].step = 4
        /\ call'[c].seen = x.seen
    BY <1>1, <1>2, <2>1, Proceeded
  <2>3. Heat(x.portfolio) <= x.heat
    <3>1. Active(x.portfolio) \ ({} \cup {NoRef}) = Active(x.portfolio)
      BY SessionsAssumption DEF Active
    <3>2. x.todo = {} /\ x.aim = NoRef
      BY DEF Admit
    <3> QED BY <1>2, <3>1, <3>2 DEF ReserveFine, Heat
  <2>4. Heat(x.portfolio) \in Nat
    <3>1. Cools(x.portfolio) /\ TypeOK' /\ TypeOK
      <4>1. UNCHANGED <<ledger, reservation, expired, deals, mods>> /\ TypeOK
        BY <1>1 DEF UnchangedTables, TxInv, TablesFine
      <4>2. TypeOK'
        BY <4>1 DEF TypeOK
      <4>3. \A p : Cools(p)
        BY <4>1 DEF Cools, Active
      <4>4. PICK p : p = x.portfolio
        OBVIOUS
      <4> QED BY <4>1, <4>2, <4>3
    <3>2. Active(x.portfolio) \ {} = Active(x.portfolio)
      OBVIOUS
    <3>3. IsFiniteSet(Active(x.portfolio)) /\ x.portfolio \in Portfolios
      BY <1>2 DEF ReserveFine, TxInv, TablesFine
    <3>4. PICK p : p = x.portfolio
      OBVIOUS
    <3>5. HeatOf(Active(p) \ {}) \in Nat
      BY <3>1, <3>3, <3>4, CoolHeat
    <3> QED BY <3>2, <3>4, <3>5 DEF Heat
  <2>5. x.heat \in Nat /\ x.risk \in Nat /\ MaxHeat \in Nat
    BY <1>1, <1>2, SizesAssumption DEF CallType, ReserveFine
  <2>6. Heat(x.portfolio) + x.risk <= MaxHeat
    <3> HIDE DEF x
    <3> QED BY <2>1, <2>3, <2>4, <2>5
  <2>7. Heat(x.portfolio)' = Heat(x.portfolio)
    BY <1>1, <2>2 DEF UnchangedTables, Heat, HeatOf, Active, Goes, Same
  <2>8. ReserveFine(c)'
    BY <1>2, <2>1, <2>2, <2>6, <2>7 DEF ReserveFine, Goes, Same
  <2>9. CallFine(c)'
    BY <1>2, <2>2, <2>8 DEF CallFine, Goes, Same
  <2> QED BY <1>1, <2>1, <2>2, <2>9, QuietStep DEF LocksMove, Goes
<1> QED BY <1>3, <1>4

LEMMA SweepRowStep ==
  ASSUME TxInv, NEW c \in Sessions, SweepRow(c)
  PROVE  TxInv'
<1> DEFINE x == call[c]
           r == x.aim
<1>1. SessionsTyped /\ x \in CallType /\ CallFine(c) /\ UnchangedTables
  BY DEF TxInv, SessionsTyped, SweepRow
<1>2. x.op = "sweep" /\ x.step = 1 /\ SweepFine(c) /\ r \in Requests
  BY <1>1, PlaceOf DEF SweepRow, Place, CallFine, SessionsTyped, CallType, OrNull
<1>3. call' = [call EXCEPT ![c].aim = NoRef]
  BY DEF SweepRow
<1> DEFINE y == call'[c]
<1>4. y \in CallType /\ Same(x, y) /\ y.step = x.step
  BY <1>1, <1>3, Dropped DEF Lingers
<1>5. /\ call' \in [Sessions -> CallType] /\ call'[c] = y
      /\ \A d \in Sessions \ {c} : call'[d] = call[d]
  BY <1>1, <1>3, Dropped DEF Lingers
<1> HIDE DEF y
<1>6. LocksMove(c)
  BY <1>1, <1>2, LocksAre, Acquired DEF SweepRow, LocksMove
<1>7. SweepFine(c)'
  <2> SUFFICES ASSUME NEW t \in Requests, lock'[RowLock(t)] = c PROVE Late(t)
    BY <1>1 DEF SweepFine, Late, UnchangedTables
  <2>1. CASE UNCHANGED lock
    BY <1>2, <2>1 DEF SweepFine
  <2>2. CASE Late(r) /\ Acquire(c, RowLock(r))
    <3>1. lock[RowLock(t)] = c \/ t = r
      <4>1. lock' = [lock EXCEPT ![RowLock(r)] = c]
        BY <2>2 DEF Acquire
      <4>2. RowLock(t) # RowLock(r) => lock'[RowLock(t)] = lock[RowLock(t)]
        BY <1>1, <4>1, LocksAre DEF SessionsTyped
      <4>3. RowLock(t) = RowLock(r) => t = r
        BY <1>2, LocksAre
      <4> QED BY <4>2, <4>3
    <3> QED BY <1>2, <2>2, <3>1 DEF SweepFine
  <2> QED BY <2>1, <2>2 DEF SweepRow
<1>8. CallFine(c)'
  BY <1>2, <1>4, <1>5, <1>7 DEF CallFine, Same
<1> QED BY <1>1, <1>5, <1>6, <1>8, QuietStep

LEMMA OwnRowStays ==
  ASSUME NEW c \in Sessions, Goes(c, call[c]), call'[c].request = call[c].request,
         call'[c].seen = call[c].seen, UNCHANGED ledger,
         lock[RowLock(call[c].request)] = c => lock'[RowLock(call[c].request)] = c
  PROVE  /\ RowHeld(c) => RowHeld(c)'
         /\ RowNew(c) => RowNew(c)'
<1>1. ASSUME RowHeld(c) PROVE RowHeld(c)'
  <2>1. Same(call[c], call'[c])
    BY DEF Goes
  <2>2. RowAccepted(call[c], call[c].seen)
    BY <1>1 DEF RowHeld
  <2>3. RowAccepted(call'[c], call'[c].seen)
    BY <2>1, <2>2 DEF RowAccepted, Same
  <2> QED BY <1>1, <2>3 DEF RowHeld, Known
<1>2. RowNew(c) => RowNew(c)'
  BY DEF RowNew, Known
<1> QED BY <1>1, <1>2

LEMMA InsertStep ==
  ASSUME TxInv, NEW c \in Sessions, Insert(c)
  PROVE  TxInv'
<1> DEFINE x == call[c]
           r == x.request
<1>1. SessionsTyped /\ x \in CallType /\ CallFine(c) /\ UnchangedTables
  BY DEF TxInv, SessionsTyped, Insert
<1>2. x.op \in {"reserve", "sync"} /\ x.step = 4
  BY <1>1, PlaceOf DEF Insert, Place, SessionsTyped
<1>3. CASE End(c)
  BY <1>1, <1>3, Ended, QuietStep
<1>4. CASE ~End(c)
  <2>1. r \in Requests /\ Proceed(c, x)
    BY <1>1, <1>2, <1>4 DEF CallFine, ReserveFine, SyncFine, Insert
  <2>2. /\ Goes(c, x) /\ call'[c].request = r /\ call'[c].step = 5
        /\ call'[c].seen = x.seen
    BY <1>1, <1>2, <2>1, Proceeded
  <2>3. UNCHANGED ledger
    BY <1>1 DEF UnchangedTables
  <2>4. CASE x.seen # NoRow
    <3>1. UNCHANGED lock
      BY <1>4, <2>4 DEF Insert
    <3>2. x.op = "sync" /\ SyncFine(c)
      BY <1>1, <1>2, <2>4 DEF CallFine, ReserveFine
    <3>3. RowHeld(c)
      BY <1>2, <2>4, <3>2 DEF SyncFine
    <3>4. RowHeld(c)'
      BY <2>2, <2>3, <3>1, <3>3, OwnRowStays
    <3>5. SyncFine(c)'
      BY <1>2, <2>2, <3>1, <3>2, <3>4 DEF SyncFine, Goes, Same
    <3>6. CallFine(c)'
      BY <2>2, <3>2, <3>5 DEF CallFine, Goes, Same
    <3> QED BY <1>1, <2>2, <3>1, <3>6, QuietStep DEF LocksMove, Goes
  <2>5. CASE x.seen = NoRow
    <3>1. ~Known(r) /\ Acquire(c, RowLock(r))
      BY <1>4, <2>5 DEF Insert
    <3>2. /\ LocksMove(c) /\ lock'[RowLock(r)] = c
          /\ \A k \in Locks : lock[k] = c => lock'[k] = c
      BY <1>1, <2>1, <3>1, LocksAre, Acquired
    <3>3. RowNew(c)'
      BY <2>2, <2>3, <3>1, <3>2 DEF RowNew, Known
    <3>4. CASE x.op = "reserve"
      <4>1. ReserveFine(c)
        BY <1>1, <3>4 DEF CallFine
      <4>2. lock'[BookLock(x.portfolio)] = c
        BY <1>2, <3>2, <4>1, LocksAre DEF ReserveFine
      <4>3. Heat(x.portfolio)' = Heat(x.portfolio)
        BY <1>1, <2>2 DEF UnchangedTables, Heat, HeatOf, Active, Goes, Same
      <4>4. ReserveFine(c)'
        BY <1>2, <2>2, <3>3, <4>1, <4>2, <4>3 DEF ReserveFine, Goes, Same
      <4>5. CallFine(c)'
        BY <2>2, <3>4, <4>4 DEF CallFine, Goes, Same
      <4> QED BY <1>1, <2>2, <3>2, <4>5, QuietStep DEF Goes
    <3>5. CASE x.op = "sync"
      <4>1. SyncFine(c)
        BY <1>1, <3>5 DEF CallFine
      <4>2. lock'[BookLock(x.portfolio)] = c
        BY <1>2, <3>2, <4>1, LocksAre DEF SyncFine
      <4>3. SyncFine(c)'
        BY <1>2, <2>2, <3>3, <4>1, <4>2 DEF SyncFine, Goes, Same
      <4>4. CallFine(c)'
        BY <2>2, <3>5, <4>3 DEF CallFine, Goes, Same
      <4> QED BY <1>1, <2>2, <3>2, <4>4, QuietStep DEF Goes
    <3> QED BY <1>2, <3>4, <3>5
  <2> QED BY <2>4, <2>5
<1> QED BY <1>3, <1>4

LEMMA LockReservationStep ==
  ASSUME TxInv, NEW c \in Sessions, LockReservation(c)
  PROVE  TxInv'
<1> DEFINE x == call[c]
           r == x.request
<1>1. SessionsTyped /\ x \in CallType /\ CallFine(c) /\ UnchangedTables
  BY DEF TxInv, SessionsTyped, LockReservation
<1>2. \/ x.op = "transition" /\ x.step = 2
      \/ x.op = "sync" /\ x.step = 5
      \/ x.op = "close" /\ x.step = 4
  BY <1>1, PlaceOf DEF LockReservation, Place, SessionsTyped
<1>3. r \in Requests
  BY <1>1, <1>2 DEF CallFine, TransitionFine, SyncFine, CloseFine
<1>4. /\ Goes(c, x) /\ call'[c].request = r /\ call'[c].step = x.step + 1
      /\ call'[c].seen = x.seen
  BY <1>1, Proceeded DEF LockReservation
<1>5. LocksMove(c) /\ \A k \in Locks : lock[k] = c => lock'[k] = c
  <2>1. CASE UNCHANGED lock
    BY <2>1 DEF LocksMove
  <2>2. CASE Acquire(c, ReservationLock(r))
    BY <1>1, <1>3, <2>2, LocksAre, Acquired
  <2> QED BY <2>1, <2>2 DEF LockReservation
<1>6. UNCHANGED ledger
  BY <1>1 DEF UnchangedTables
<1>7. /\ RowHeld(c) => RowHeld(c)'
      /\ RowNew(c) => RowNew(c)'
  <2>1. lock[RowLock(r)] = c => lock'[RowLock(r)] = c
    BY <1>3, <1>5, LocksAre
  <2> QED BY <1>4, <1>6, <2>1, OwnRowStays
<1>8. CallFine(c)'
  <2>1. CASE x.op = "transition"
    BY <1>1, <1>2, <1>4, <1>7, <2>1 DEF CallFine, TransitionFine, Goes, Same
  <2>2. CASE x.op = "sync"
    <3>1. SyncFine(c)
      BY <1>1, <2>2 DEF CallFine
    <3>2. lock'[BookLock(x.portfolio)] = c
      BY <1>2, <1>5, <2>2, <3>1, LocksAre DEF SyncFine
    <3>3. SyncFine(c)'
      BY <1>2, <1>4, <1>7, <2>2, <3>1, <3>2 DEF SyncFine, Goes, Same
    <3> QED BY <1>4, <2>2, <3>3 DEF CallFine, Goes, Same
  <2>3. CASE x.op = "close"
    BY <1>1, <1>2, <1>4, <1>7, <2>3 DEF CallFine, CloseFine, Goes, Same
  <2> QED BY <1>2, <2>1, <2>2, <2>3
<1> QED BY <1>1, <1>4, <1>5, <1>8, QuietStep DEF Goes

LEMMA FailStep ==
  ASSUME TxInv, NEW c \in Sessions, Fail(c)
  PROVE  TxInv'
BY Ended, QuietStep DEF Fail, TxInv

-----------------------------------------------------------------------------
(* The end of a transaction                                                 *)

\* The reservation of r is not raised, or held in a portfolio it may be in.
Lowers(r) == reservation'[r].status = "ACTIVE" => reservation'[r] = reservation[r]

HoldsIn(r, p) ==
  /\ reservation[r].status = "NONE" \/ reservation[r].portfolio = p
  /\ reservation'[r].portfolio = p

\* A commit that writes a row the session has locked, and raises risk only in a
\* portfolio whose book it has locked, disturbs nobody else.
LEMMA CommitKeeps ==
  ASSUME TxInv, NEW c \in Sessions, End(c), NEW r \in Requests, lock[RowLock(r)] = c,
         TypeOK', Known(r)', UNCHANGED mods,
         \A t \in Requests \ {r} : ledger'[t] = ledger[t] /\ reservation'[t] = reservation[t],
         Lowers(r) \/ \E p \in Portfolios : lock[BookLock(p)] = c /\ HoldsIn(r, p),
         expired \ {r} \subseteq expired'
  PROVE  TxInv'
<1>1. SessionsTyped /\ TablesFine
  BY DEF TxInv
<1>2. /\ SessionsTyped' /\ CallFine(c)'
      /\ \A d \in Sessions \ {c}, l \in Locks : lock'[l] = d <=> lock[l] = d
      /\ \A d \in Sessions \ {c} : call'[d] = call[d]
  BY <1>1, Ended, LocksOfOthers DEF SessionsTyped
<1>3. \A q \in Portfolios : Active(q)' \subseteq Active(q) \cup {r}
  BY DEF Active
<1>4. TablesFine'
  <2>1. \A t \in Requests : ~Known(t)' => ledger'[t] = NoRow
    BY <1>1 DEF TablesFine, Known
  <2>2. ASSUME NEW q \in Portfolios PROVE IsFiniteSet(Active(q)')
    <3>1. IsFiniteSet(Active(q) \cup {r})
      BY <1>1, FS_AddElement DEF TablesFine
    <3> QED BY <1>3, <3>1, FS_Subset
  <2> QED BY <1>1, <2>1, <2>2 DEF TablesFine
<1>5. ASSUME NEW d \in Sessions \ {c} PROVE CallFine(d)'
  <2>1. ASSUME NEW q \in Portfolios, lock[BookLock(q)] = d PROVE Cools(q)
    <3>1. \A t \in Active(q)' : t \in Active(q) /\ reservation'[t] = reservation[t]
      <4> SUFFICES ASSUME NEW t \in Active(q)'
                   PROVE  t \in Active(q) /\ reservation'[t] = reservation[t]
        OBVIOUS
      <4>1. t \in Requests /\ reservation'[t].status = "ACTIVE" /\ reservation'[t].portfolio = q
        BY DEF Active
      <4>2. CASE t # r
        BY <4>1, <4>2 DEF Active
      <4>3. CASE t = r
        <5>1. Lowers(r)
          BY <2>1, <4>1, <4>3 DEF HoldsIn
        <5> QED BY <4>1, <4>3, <5>1 DEF Lowers, Active
      <4> QED BY <4>2, <4>3
    <3> QED BY <3>1 DEF Cools
  <2>2. ASSUME NEW t \in Requests, lock[RowLock(t)] = d
        PROVE  ledger'[t] = ledger[t] /\ (Late(t) => t \in expired')
    BY <2>2 DEF Late
  <2>3. Undisturbed(d)
    BY <1>2, <2>1, <2>2 DEF Undisturbed
  <2> QED BY <1>1, <2>3, Bystander DEF TxInv
<1> QED BY <1>2, <1>4, <1>5 DEF TxInv

LEMMA LapseStep ==
  ASSUME TxInv, Lapse
  PROVE  TxInv' /\ Next
<1>1. PICK r \in Requests : LapseLease(r)
  BY DEF Lapse
<1>2. UNCHANGED <<ledger, reservation, deals, mods, call, lock>> /\ expired' = expired \cup {r}
  BY <1>1 DEF Lapse, LapseLease
<1>3. TablesFine'
  BY <1>2 DEF TxInv, TablesFine, TypeOK, Known, Active
<1>4. SessionsTyped'
  BY <1>2 DEF TxInv, SessionsTyped
<1>5. ASSUME NEW d \in Sessions PROVE CallFine(d)'
  <2>1. \A p \in Portfolios : Cools(p)
    BY <1>2 DEF Cools, Active
  <2>2. Undisturbed(d)
    BY <1>2, <2>1 DEF Undisturbed, Late
  <2> QED BY <1>3, <2>2, Bystander DEF TxInv, TablesFine
<1> QED BY <1>1, <1>3, <1>4, <1>5 DEF TxInv, Next, Leasing

LEMMA CommitSweepStep ==
  ASSUME TxInv, NEW c \in Sessions, CommitSweep(c)
  PROVE  TxInv' /\ (Next \/ UNCHANGED vars)
<1> DEFINE late == {r \in Requests : lock[RowLock(r)] = c}
<1>1. SessionsTyped /\ TablesFine /\ CallFine(c) /\ End(c)
  BY DEF TxInv, CommitSweep
<1>2. \A r \in late : Late(r)
  BY <1>1, PlaceOf DEF CommitSweep, Place, CallFine, SweepFine, SessionsTyped
<1>3. /\ ledger' = [r \in Requests |-> IF r \in late THEN [ledger[r] EXCEPT !.state = "RECOVERING"]
                                                   ELSE ledger[r]]
      /\ UNCHANGED <<reservation, expired, deals, mods>>
  BY DEF CommitSweep
<1>4. Leasing \/ UNCHANGED vars
  <2>1. CASE late # {}
    <3>1. RecoverExpired
      BY <1>2, <1>3, <2>1 DEF RecoverExpired
    <3> QED BY <3>1 DEF Leasing
  <2>2. CASE late = {}
    <3>1. ledger' = [r \in Requests |-> ledger[r]]
      BY <1>3, <2>2
    <3> QED BY <1>1, <1>3, <3>1 DEF vars, TablesFine, TypeOK
  <2> QED BY <2>1, <2>2
<1>5. TypeOK'
  <2>1. TypeOK
    BY <1>1 DEF TablesFine
  <2>2. CASE Leasing
    BY <2>1, <2>2, LeasingType
  <2>3. CASE UNCHANGED vars
    BY <2>1, <2>3 DEF TypeOK, vars
  <2> QED BY <1>4, <2>2, <2>3
<1>6. TablesFine'
  <2>1. ASSUME NEW r \in Requests, ~Known(r)' PROVE ledger'[r] = NoRow
    <3>1. r \notin late
      <4>1. r \in late => ledger'[r].state = "RECOVERING"
        BY <1>1, <1>3 DEF TablesFine, TypeOK, Row
      <4> QED BY <2>1, <4>1 DEF Known
    <3>2. ledger'[r] = ledger[r]
      BY <1>3, <3>1
    <3> QED BY <1>1, <2>1, <3>2 DEF TablesFine, Known
  <2>2. \A p \in Portfolios : Active(p)' = Active(p)
    BY <1>3 DEF Active
  <2> QED BY <1>1, <1>3, <1>5, <2>1, <2>2 DEF TablesFine
<1>7. /\ SessionsTyped' /\ CallFine(c)'
      /\ \A d \in Sessions \ {c}, l \in Locks : lock'[l] = d <=> lock[l] = d
      /\ \A d \in Sessions \ {c} : call'[d] = call[d]
  BY <1>1, Ended, LocksOfOthers DEF SessionsTyped
<1>8. ASSUME NEW d \in Sessions \ {c} PROVE CallFine(d)'
  <2>1. \A p \in Portfolios : Cools(p)
    BY <1>3 DEF Cools, Active
  <2>2. ASSUME NEW r \in Requests, lock[RowLock(r)] = d
        PROVE  ledger'[r] = ledger[r] /\ (Late(r) => r \in expired')
    BY <1>3, <2>2 DEF Late
  <2>3. Undisturbed(d)
    BY <1>7, <2>1, <2>2 DEF Undisturbed
  <2> QED BY <1>1, <1>5, <2>3, Bystander DEF TxInv
<1> QED BY <1>4, <1>6, <1>7, <1>8 DEF TxInv, Next

\* What the shared effects do to the tables.
LEMMA EffectsOnRows ==
  ASSUME TypeOK, NEW r \in Requests
  PROVE  /\ \A row : SetRow(r, row) =>
              ledger'[r] = row /\ \A t \in Requests \ {r} : ledger'[t] = ledger[t]
         /\ \A p, k : Hold(r, p, k) =>
              HoldsIn(r, p) /\ \A t \in Requests \ {r} : reservation'[t] = reservation[t]
         /\ Release(r) =>
              Lowers(r) /\ \A t \in Requests \ {r} : reservation'[t] = reservation[t]
<1>1. ledger \in [Requests -> Row] /\ reservation \in [Requests -> Reservation]
  BY DEF TypeOK
<1>2. ASSUME NEW row, SetRow(r, row)
      PROVE  ledger'[r] = row /\ \A t \in Requests \ {r} : ledger'[t] = ledger[t]
  BY <1>1, <1>2 DEF SetRow
<1>3. ASSUME NEW p, NEW k, Hold(r, p, k)
      PROVE  HoldsIn(r, p) /\ \A t \in Requests \ {r} : reservation'[t] = reservation[t]
  BY <1>1, <1>3 DEF Hold, HoldsIn
<1>4. ASSUME Release(r)
      PROVE  Lowers(r) /\ \A t \in Requests \ {r} : reservation'[t] = reservation[t]
  <2>1. PICK s \in {"NONE", "RELEASED"} :
          reservation' = [reservation EXCEPT ![r] = [@ EXCEPT !.status = s]]
    BY <1>4 DEF Release
  <2>2. reservation'[r].status = s
    BY <1>1, <2>1 DEF Reservation
  <2> QED BY <1>1, <2>1, <2>2 DEF Lowers
<1> QED BY <1>2, <1>3, <1>4

LEMMA CommitReserveStep ==
  ASSUME TxInv, NEW c \in Sessions, Commit(c), call[c].op = "reserve"
  PROVE  TxInv' /\ Next
<1>1. SessionsTyped /\ TablesFine /\ TypeOK /\ call[c] \in CallType /\ ReserveFine(c) /\ End(c)
  BY DEF TxInv, SessionsTyped, TablesFine, CallFine, Commit
<1>2. CommitReserve(call[c]) /\ UNCHANGED <<deals, mods>>
  BY DEF Commit, Running
<1>3. call[c].step = 5
  <2>1. call[c].step >= 5
    BY <1>1, PlaceOf DEF Commit, Place, SessionsTyped
  <2> QED BY <1>1, <2>1 DEF ReserveFine, CallType
<1>4. PICK p \in Portfolios, r \in Requests, k \in Risks :
        call[c].portfolio = p /\ call[c].request = r /\ call[c].risk = k
  BY <1>1 DEF ReserveFine
<1>5. /\ lock[BookLock(p)] = c /\ lock[RowLock(r)] = c
      /\ ~Known(r) /\ Heat(p) + k <= MaxHeat
  BY <1>1, <1>3, <1>4 DEF ReserveFine, RowNew
<1>6. PendingIn(p) = {}
  BY <1>1, <1>4 DEF TablesFine, PendingIn, NoModification
<1>7. /\ SetRow(r, [NoRow EXCEPT !.portfolio = p, !.state = "RESERVED"])
      /\ Hold(r, p, k) /\ RenewLease(r)
  BY <1>2, <1>4 DEF CommitReserve
<1>8. Reserve(p, r, k)
  BY <1>2, <1>5, <1>6, <1>7 DEF Reserve, Hold
<1>9. TypeOK'
  BY <1>1, <1>8, ReserveType
<1>10. [NoRow EXCEPT !.portfolio = p, !.state = "RESERVED"].state # "ABSENT"
  BY DEF NoRow
<1>11. Known(r)' /\ \A t \in Requests \ {r} : ledger'[t] = ledger[t]
  BY <1>1, <1>7, <1>10, EffectsOnRows DEF Known
<1>12. HoldsIn(r, p) /\ \A t \in Requests \ {r} : reservation'[t] = reservation[t]
  BY <1>1, <1>7, EffectsOnRows
<1>13. expired \ {r} \subseteq expired'
  BY <1>7 DEF RenewLease
<1>14. TxInv'
  BY <1>1, <1>2, <1>5, <1>9, <1>11, <1>12, <1>13, CommitKeeps
<1> QED BY <1>8, <1>14 DEF Next, Admission

LEMMA RowIs ==
  ASSUME NEW row \in Row
  PROVE  row = [portfolio |-> row.portfolio, state |-> row.state, order |-> row.order,
                deal |-> row.deal, position |-> row.position]
BY DEF Row

LEMMA RowsEqual ==
  ASSUME NEW row \in Row, NEW y \in Row, y.portfolio = row.portfolio, y.state = row.state,
         y.order = row.order, y.deal = row.deal, y.position = row.position
  PROVE  y = row
BY RowIs

LEMMA CommitTransitionStep ==
  ASSUME TxInv, NEW c \in Sessions, Commit(c), call[c].op = "transition"
  PROVE  TxInv' /\ Next
<1>1. SessionsTyped /\ TablesFine /\ TypeOK /\ call[c] \in CallType /\ TransitionFine(c) /\ End(c)
  BY DEF TxInv, SessionsTyped, TablesFine, CallFine, Commit
<1>2. CommitTransition(call[c]) /\ UNCHANGED <<deals, mods>>
  BY DEF Commit, Running
<1>3. call[c].step >= 2
  <2>1. call[c].step >= 3
    BY <1>1, PlaceOf DEF Commit, Place, SessionsTyped
  <2> QED BY <1>1, <2>1 DEF CallType
<1>4. PICK r \in Requests, s \in Reports, pos \in OrNull(Positions), row \in Row :
        /\ call[c].request = r /\ call[c].state = s /\ call[c].position = pos
        /\ row = ledger[r]
  BY <1>1 DEF TransitionFine, CallType, TypeOK
<1> DEFINE ids == [order |-> NoRef, deal |-> NoRef, position |-> pos]
<1>5. /\ lock[RowLock(r)] = c /\ Known(r) /\ call[c].seen = row
      /\ RowAccepted(call[c], row)
  BY <1>1, <1>3, <1>4 DEF TransitionFine, RowHeld
<1>6. s \in States /\ ids \in Identities
  BY SessionsAssumption DEF Identities, OrNull
<1>7. /\ ledger' = [ledger EXCEPT
           ![r].state = s,
           ![r].position = IF s = row.state THEN Given(@, pos) ELSE Given(pos, @)]
      /\ IF ReleasesRisk(call[c]) /\ s # row.state THEN Release(r) ELSE UNCHANGED reservation
      /\ UNCHANGED expired
  BY <1>2, <1>4, <1>5 DEF CommitTransition
<1>8. ReleasesRisk(call[c]) <=> s \in Terminal
  BY <1>4 DEF ReleasesRisk
<1> DEFINE at == IF s = row.state THEN Given(row.position, pos) ELSE Given(pos, row.position)
           new == [portfolio |-> row.portfolio, state |-> s, order |-> row.order,
                   deal |-> row.deal, position |-> at]
<1>a. at \in OrNull(Positions)
  BY <1>4, GivenType DEF Row
<1>b. /\ new \in Row /\ new.portfolio = row.portfolio /\ new.state = s /\ new.order = row.order
      /\ new.deal = row.deal /\ new.position = at
  BY <1>4, <1>6, <1>a DEF Row
<1>9. SetRow(r, new)
  <2>1. ledger' = [ledger EXCEPT ![r] = [[row EXCEPT !.state = s] EXCEPT !.position = at]]
    BY <1>1, <1>4, <1>7 DEF TypeOK, Row
  <2>2. [[row EXCEPT !.state = s] EXCEPT !.position = at] = new
    <3> DEFINE y == [[row EXCEPT !.state = s] EXCEPT !.position = at]
    <3>1. /\ y \in Row /\ y.portfolio = row.portfolio /\ y.state = s /\ y.order = row.order
          /\ y.deal = row.deal /\ y.position = at
      <4> HIDE DEF at
      <4> QED BY <1>4, <1>6, <1>a DEF Row
    <3> HIDE DEF y, at, new
    <3>2. y = new
      BY <1>b, <3>1, RowsEqual
    <3> QED BY <3>2 DEF y
  <2> QED BY <2>1, <2>2 DEF SetRow
<1>10. Given(NoRef, row.order) = row.order /\ Given(row.order, NoRef) = row.order
       /\ Given(NoRef, row.deal) = row.deal /\ Given(row.deal, NoRef) = row.deal
  BY DEF Given
<1>11. TypeOK' /\ Next
  <2>1. CASE s = row.state
    <3>1. [row EXCEPT !.order = Given(@, ids.order), !.deal = Given(@, ids.deal),
                      !.position = Given(@, ids.position)] = new
      <4> DEFINE y == [row EXCEPT !.order = Given(@, ids.order), !.deal = Given(@, ids.deal),
                                  !.position = Given(@, ids.position)]
      <4>1. /\ y \in Row /\ y.portfolio = row.portfolio /\ y.state = s /\ y.order = row.order
            /\ y.deal = row.deal /\ y.position = at
        BY <1>4, <1>10, <1>a, <2>1 DEF Row
      <4> HIDE DEF y, at, new
      <4>2. y = new
        BY <1>b, <4>1, RowsEqual
      <4> QED BY <4>2 DEF y
    <3>2. s # "RESERVED" /\ ~Conflicts(row, ids)
      BY <1>4, <1>5, <2>1 DEF RowAccepted
    <3>3. Repeat(r, ids)
      BY <1>2, <1>4, <1>5, <1>7, <1>9, <2>1, <3>1, <3>2 DEF Repeat
    <3> QED BY <1>1, <1>6, <3>3, RepeatType DEF Next, Report
  <2>2. CASE s # row.state
    <3>1. [row EXCEPT !.state = s, !.order = Given(ids.order, @), !.deal = Given(ids.deal, @),
                      !.position = Given(ids.position, @)] = new
      <4> DEFINE y == [row EXCEPT !.state = s, !.order = Given(ids.order, @),
                                  !.deal = Given(ids.deal, @), !.position = Given(ids.position, @)]
      <4>1. /\ y \in Row /\ y.portfolio = row.portfolio /\ y.state = s /\ y.order = row.order
            /\ y.deal = row.deal /\ y.position = at
        BY <1>4, <1>6, <1>10, <1>a, <2>2 DEF Row
      <4> HIDE DEF y, at, new
      <4>2. y = new
        BY <1>b, <4>1, RowsEqual
      <4> QED BY <4>2 DEF y
    <3>2. PICK claim \in Claims : HasEvidence(row, s, claim, ids)
      BY <1>4, <1>5, <2>2 DEF RowAccepted
    <3>3. s \in AllowedTransitions[row.state]
      BY <1>4, <1>5, <2>2 DEF RowAccepted
    <3>4. Advance(r, s, claim, ids)
      BY <1>2, <1>4, <1>5, <1>7, <1>8, <1>9, <2>2, <3>1, <3>2, <3>3 DEF Advance
    <3> QED BY <1>1, <1>6, <3>4, AdvanceType DEF Next, Report
  <2> QED BY <2>1, <2>2
<1> HIDE DEF new
<1>13. Known(r)' /\ \A t \in Requests \ {r} : ledger'[t] = ledger[t]
  <2>1. new.state = s /\ s # "ABSENT"
    BY <1>6 DEF new, States, Terminal
  <2> QED BY <1>1, <1>9, <2>1, EffectsOnRows DEF Known
<1>12. Lowers(r) /\ \A t \in Requests \ {r} : reservation'[t] = reservation[t]
  <2>1. Release(r) \/ UNCHANGED reservation
    BY <1>7
  <2> QED BY <1>1, <2>1, EffectsOnRows DEF Lowers
<1>14. TxInv'
  BY <1>1, <1>2, <1>5, <1>7, <1>11, <1>12, <1>13, CommitKeeps
<1> QED BY <1>11, <1>14

\* No stop is being modified, so neither a snapshot nor a closure resolves any.
LEMMA NothingPending ==
  ASSUME TablesFine, UNCHANGED mods, NEW p \in Portfolios, NEW pos
  PROVE  ResolveBySnapshot(p, pos, 0) /\ ResolveByClose(p, pos)
<1>1. mods = [mods EXCEPT ![p] = [e \in Events |-> mods[p][e]]]
  BY DEF TablesFine, TypeOK
<1>2. \A e \in Events : e \notin PendingOn(p, pos)
  BY DEF TablesFine, PendingOn, PendingIn, NoModification
<1>3. ResolveBySnapshot(p, pos, 0)
  <2>1. [e \in Events |-> IF 0 > 0 /\ e \in PendingOn(p, pos)
                          THEN SnapshotVerdict(mods[p][e], 0) ELSE mods[p][e]]
          = [e \in Events |-> mods[p][e]]
    OBVIOUS
  <2> QED BY <1>1, <2>1 DEF ResolveBySnapshot
<1>4. ResolveByClose(p, pos)
  <2>1. [e \in Events |-> IF e \in PendingOn(p, pos)
                          THEN [mods[p][e] EXCEPT !.status = "POSITION_CLOSED"] ELSE mods[p][e]]
          = [e \in Events |-> mods[p][e]]
    BY <1>2
  <2> QED BY <1>1, <2>1 DEF ResolveByClose
<1> QED BY <1>3, <1>4

LEMMA CommitSyncStep ==
  ASSUME TxInv, NEW c \in Sessions, Commit(c), call[c].op = "sync"
  PROVE  TxInv' /\ (Next \/ StaleLookup)
<1>1. SessionsTyped /\ TablesFine /\ TypeOK /\ call[c] \in CallType /\ SyncFine(c) /\ End(c)
  BY DEF TxInv, SessionsTyped, TablesFine, CallFine, Commit
<1>2. CommitSync(call[c]) /\ UNCHANGED <<deals, mods>>
  BY DEF Commit, Running
<1>3. call[c].step >= 5 /\ call[c].step >= 2
  <2>1. call[c].step >= 6
    BY <1>1, PlaceOf DEF Commit, Place, SessionsTyped
  <2> QED BY <1>1, <2>1 DEF CallType
<1>4. PICK p \in Portfolios, r \in Requests, pos \in Positions, k \in Risks, row \in Row :
        /\ call[c].portfolio = p /\ call[c].request = r /\ call[c].position = pos
        /\ call[c].risk = k /\ row = ledger[r]
  BY <1>1 DEF SyncFine, TypeOK
<1>5. lock[BookLock(p)] = c /\ lock[RowLock(r)] = c
  BY <1>1, <1>3, <1>4 DEF SyncFine, RowHeld, RowNew
<1>6. \/ Known(r) /\ row.portfolio = p /\ row.position \in {NoRef, pos}
      \/ ~Known(r) /\ row = NoRow
  <2>1. CASE RowHeld(c)
    <3>1. call[c].op = "sync" /\ RowAccepted(call[c], row) /\ Known(r)
      BY <1>4, <2>1 DEF RowHeld
    <3> QED BY <1>4, <3>1 DEF RowAccepted
  <2>2. CASE RowNew(c)
    BY <1>1, <1>4, <2>2 DEF RowNew, TablesFine
  <2> QED BY <1>1, <1>3, <2>1, <2>2 DEF SyncFine
<1> DEFINE new == [portfolio |-> p, state |-> "FILLED", order |-> row.order,
                   deal |-> row.deal, position |-> pos]
<1>7. /\ new \in Row /\ new.portfolio = p /\ new.state = "FILLED" /\ new.order = row.order
      /\ new.deal = row.deal /\ new.position = pos
  BY <1>4 DEF Row, States, OrNull
<1>8. SetRow(r, new) /\ Hold(r, p, k) /\ RenewLease(r)
  <2> DEFINE y == [row EXCEPT !.portfolio = p, !.state = "FILLED", !.position = pos]
  <2>1. /\ y \in Row /\ y.portfolio = p /\ y.state = "FILLED" /\ y.order = row.order
        /\ y.deal = row.deal /\ y.position = pos
    BY <1>4 DEF Row, States, OrNull
  <2>2. SetRow(r, y) /\ Hold(r, p, k) /\ RenewLease(r)
    BY <1>2, <1>4 DEF CommitSync, SetRow
  <2> HIDE DEF y, new
  <2>3. y = new
    BY <1>7, <2>1, RowsEqual
  <2> QED BY <2>2, <2>3
<1>9. TypeOK'
  <2>1. ledger' \in [Requests -> Row] /\ reservation' \in [Requests -> Reservation]
    BY <1>1, <1>7, <1>8, SetRowType, HoldType DEF TypeOK
  <2> QED BY <1>1, <1>2, <1>8, <2>1 DEF TypeOK, RenewLease
<1>10. TxInv'
  <2>1. Known(r)' /\ \A t \in Requests \ {r} : ledger'[t] = ledger[t]
    <3> HIDE DEF new
    <3> QED BY <1>1, <1>7, <1>8, EffectsOnRows DEF Known
  <2>2. HoldsIn(r, p) /\ \A t \in Requests \ {r} : reservation'[t] = reservation[t]
    BY <1>1, <1>8, EffectsOnRows
  <2>3. expired \ {r} \subseteq expired'
    BY <1>8 DEF RenewLease
  <2> QED BY <1>1, <1>2, <1>5, <1>9, <2>1, <2>2, <2>3, CommitKeeps
<1>11. CASE r \in RowsByPosition(p, pos) \/ RowsByPosition(p, pos) = {}
  <2>1. r \in AdoptionTargets(p, r, pos, NoRef)
    <3>1. RowsByOrder(p, NoRef) = {}
      BY DEF RowsByOrder
    <3> QED BY <1>4, <1>6, <1>11, <3>1 DEF AdoptionTargets, BrokerRecords
  <2>2. Given(NoRef, row.order) = row.order /\ Given(NoRef, row.deal) = row.deal
    BY DEF Given
  <2>3. ResolveBySnapshot(p, pos, 0)
    BY <1>1, <1>2, NothingPending
  <2>4. SyncPosition(p, r, pos, NoRef, NoRef, k, 0)
    BY <1>2, <1>4, <1>8, <2>1, <2>2, <2>3 DEF SyncPosition, AdoptOpenPosition
  <2>5. NoRef \in OrNull(Orders) /\ NoRef \in OrNull(Deals)
    BY DEF OrNull
  <2> QED BY <1>10, <2>4, <2>5 DEF Next, Reconciliation
<1>12. CASE ~(r \in RowsByPosition(p, pos) \/ RowsByPosition(p, pos) = {})
  <2> DEFINE y == [[NoCall EXCEPT !.portfolio = p, !.request = r, !.position = pos]
                     EXCEPT !.risk = k]
  <2>1. y.portfolio = p /\ y.request = r /\ y.position = pos /\ y.risk = k
    BY DEF NoCall
  <2>2. CommitSync(y)
    <3> HIDE DEF y
    <3> QED BY <1>2, <1>4, <2>1 DEF CommitSync
  <2>3. RowsByPosition(p, pos) \ {r} # {}
    BY <1>12
  <2>4. ledger[r].portfolio = p => ledger[r].position = NoRef
    <3>1. CASE Known(r) /\ row.portfolio = p /\ row.position \in {NoRef, pos}
      <4>1. row.position # pos
        BY <1>4, <1>12, <3>1, NullAssumption DEF RowsByPosition
      <4> QED BY <1>4, <3>1, <4>1
    <3>2. CASE ~Known(r) /\ row = NoRow
      BY <1>4, <3>2 DEF NoRow
    <3> QED BY <1>6, <3>1, <3>2
  <2>5. StaleLookup
    BY <1>2, <2>2, <2>3, <2>4 DEF StaleLookup
  <2> QED BY <1>10, <2>5
<1> QED BY <1>10, <1>11, <1>12

LEMMA CommitCloseStep ==
  ASSUME TxInv, NEW c \in Sessions, Commit(c), call[c].op = "close"
  PROVE  TxInv' /\ (Next \/ StaleLookup)
<1>1. SessionsTyped /\ TablesFine /\ TypeOK /\ call[c] \in CallType /\ CloseFine(c) /\ End(c)
  BY DEF TxInv, SessionsTyped, TablesFine, CallFine, Commit
<1>2. CommitClose(call[c]) /\ UNCHANGED <<deals, mods>>
  BY DEF Commit, Running
<1>3. call[c].step >= 4
  <2>1. call[c].step >= 5
    BY <1>1, PlaceOf DEF Commit, Place, SessionsTyped
  <2> QED BY <1>1, <2>1 DEF CallType
<1>4. PICK p \in Portfolios, r \in Requests, pos \in Positions, d \in Deals, row \in Row :
        /\ call[c].portfolio = p /\ call[c].request = r /\ call[c].position = pos
        /\ call[c].deal = d /\ row = ledger[r]
  BY <1>1 DEF CloseFine, TypeOK
<1>5. lock[RowLock(r)] = c /\ Known(r) /\ row.portfolio = p
  <2>1. RowHeld(c)
    BY <1>1, <1>3 DEF CloseFine
  <2>2. lock[RowLock(r)] = c /\ Known(r) /\ RowAccepted(call[c], row)
    BY <1>4, <2>1 DEF RowHeld
  <2> QED BY <1>4, <2>2 DEF RowAccepted
<1> DEFINE new == [row EXCEPT !.state = "RECONCILED", !.position = pos, !.deal = d]
<1>6. new \in Row /\ new.state = "RECONCILED"
  BY <1>4 DEF Row, States, Terminal, OrNull
<1>7. SetRow(r, new) /\ Release(r) /\ UNCHANGED expired
  BY <1>2, <1>4 DEF CommitClose, SetRow
<1>8. TypeOK'
  <2>1. ledger' \in [Requests -> Row] /\ reservation' \in [Requests -> Reservation]
    BY <1>1, <1>6, <1>7, SetRowType, ReleaseType DEF TypeOK
  <2> QED BY <1>1, <1>2, <1>7, <2>1 DEF TypeOK
<1>9. TxInv'
  <2>1. Known(r)' /\ \A t \in Requests \ {r} : ledger'[t] = ledger[t]
    <3> HIDE DEF new
    <3> QED BY <1>1, <1>6, <1>7, EffectsOnRows DEF Known
  <2>2. Lowers(r) /\ \A t \in Requests \ {r} : reservation'[t] = reservation[t]
    BY <1>1, <1>7, EffectsOnRows
  <2> QED BY <1>1, <1>2, <1>5, <1>7, <1>8, <2>1, <2>2, CommitKeeps
<1>10. CASE r \in RowsByPosition(p, pos) \/ RowsByPosition(p, pos) = {}
  <2>1. r \in ClosureTargets(p, r, pos)
    BY <1>4, <1>5, <1>10 DEF ClosureTargets
  <2>2. ResolveByClose(p, pos)
    BY <1>1, <1>2, NothingPending
  <2>3. ClosePosition(p, r, pos, d)
    BY <1>2, <1>4, <1>5, <1>7, <2>1, <2>2 DEF ClosePosition, RecordClosure
  <2> QED BY <1>9, <2>3 DEF Next, Reconciliation
<1>11. CASE ~(r \in RowsByPosition(p, pos) \/ RowsByPosition(p, pos) = {})
  <2> DEFINE y == [[NoCall EXCEPT !.portfolio = p, !.request = r, !.position = pos]
                     EXCEPT !.deal = d]
  <2>1. y.portfolio = p /\ y.request = r /\ y.position = pos /\ y.deal = d
    BY DEF NoCall
  <2>2. CommitClose(y)
    <3> HIDE DEF y
    <3> QED BY <1>2, <1>4, <2>1 DEF CommitClose
  <2>3. RowsByPosition(p, pos) \ {r} # {} /\ ledger[r].portfolio = p
    BY <1>4, <1>5, <1>11
  <2>4. StaleLookup
    BY <1>2, <2>2, <2>3 DEF StaleLookup
  <2> QED BY <1>9, <2>4
<1> QED BY <1>9, <1>10, <1>11

(***************************************************************************)
(* The theorem: every step of the transactions keeps TxInv, and with it is *)
(* a step of a handler, a stale lookup, or leaves the tables alone.        *)
(***************************************************************************)
LEMMA TxInvInitially == TxInit => TxInv
<1> SUFFICES ASSUME TxInit PROVE TxInv
  OBVIOUS
<1>1. TablesFine
  <2>1. TypeOK
    BY DEF TxInit, Init, TypeOK, NoRow, Row, NoReservation, Reservation, OrNull
  <2>2. \A r \in Requests : ledger[r] = NoRow
    BY DEF TxInit, Init
  <2>3. \A p \in Portfolios : Active(p) = {}
    BY DEF TxInit, Init, Active, NoReservation
  <2>4. \A p \in Portfolios, e \in Events : mods[p][e] = NoModification
    BY DEF TxInit, Init
  <2> QED BY <2>1, <2>2, <2>3, <2>4, FS_EmptySet DEF TablesFine
<1>2. SessionsTyped
  BY NoCallTyped DEF TxInit, SessionsTyped
<1>3. \A c \in Sessions : CallFine(c)
  BY NoCallTyped, SessionsAssumption DEF TxInit, CallFine
<1> QED BY <1>1, <1>2, <1>3 DEF TxInv

LEMMA TxStep ==
  ASSUME TxInv, [TxNext]_txVars
  PROVE  TxInv' /\ ([Next]_vars \/ StaleLookup)
<1>1. CASE UNCHANGED txVars
  <2>1. UNCHANGED <<ledger, reservation, expired, deals, mods, call, lock>>
    BY <1>1 DEF txVars
  <2>2. TablesFine' /\ SessionsTyped'
    BY <2>1 DEF TxInv, TablesFine, SessionsTyped, TypeOK, Known, Active
  <2>3. ASSUME NEW c \in Sessions PROVE CallFine(c)'
    <3>1. CallFine(c)
      BY DEF TxInv
    <3>2. \A r \in Requests : (Known(r)' <=> Known(r)) /\ (Late(r)' <=> Late(r))
      BY <2>1 DEF Known, Late
    <3>3. (RowHeld(c)' <=> RowHeld(c)) /\ (RowNew(c)' <=> RowNew(c))
      BY <2>1 DEF RowHeld, RowNew, Known
    <3>4. \A p : Active(p)' = Active(p) /\ Heat(p)' = Heat(p)
      BY <2>1 DEF Heat, HeatOf, Active
    <3>5. \A S : HeatOf(S)' = HeatOf(S)
      BY <2>1 DEF HeatOf
    <3>6. ReserveFine(c) => ReserveFine(c)'
      BY <2>1, <3>3, <3>4, <3>5 DEF ReserveFine
    <3>7. /\ TransitionFine(c) => TransitionFine(c)'
          /\ SyncFine(c) => SyncFine(c)'
          /\ CloseFine(c) => CloseFine(c)'
      BY <2>1, <3>3 DEF TransitionFine, SyncFine, CloseFine
    <3>8. SweepFine(c) => SweepFine(c)'
      BY <2>1, <3>2 DEF SweepFine
    <3> QED BY <2>1, <3>1, <3>6, <3>7, <3>8 DEF CallFine
  <2>4. TxInv'
    BY <2>2, <2>3 DEF TxInv
  <2> QED BY <2>1, <2>4 DEF vars
<1>2. ASSUME NEW c \in Sessions,
             \/ Begin(c) \/ BeginSweep(c) \/ LockBook(c) \/ Find(c) \/ LockRow(c)
             \/ MissRow(c) \/ Aim(c) \/ Count(c) \/ Admit(c) \/ SweepRow(c)
             \/ Insert(c) \/ LockReservation(c) \/ Fail(c)
      PROVE  TxInv' /\ ([Next]_vars \/ StaleLookup)
  <2>1. TxInv'
    BY <1>2, BeginStep, BeginSweepStep, LockBookStep, FindStep, LockRowStep, MissRowStep,
       AimStep, CountStep, AdmitStep, SweepRowStep, InsertStep, LockReservationStep, FailStep
  <2>2. UnchangedTables
    BY <1>2 DEF Begin, BeginSweep, LockBook, Find, LockRow, MissRow, Aim, Count, Admit,
                SweepRow, Insert, LockReservation, Fail
  <2> QED BY <2>1, <2>2 DEF UnchangedTables, vars
<1>3. ASSUME NEW c \in Sessions, Commit(c)
      PROVE  TxInv' /\ ([Next]_vars \/ StaleLookup)
  <2>1. call[c].op \in {"reserve", "transition", "sync", "close"}
    BY <1>3 DEF Commit, Running
  <2> QED BY <1>3, <2>1, CommitReserveStep, CommitTransitionStep, CommitSyncStep,
             CommitCloseStep
<1>4. ASSUME NEW c \in Sessions, CommitSweep(c)
      PROVE  TxInv' /\ ([Next]_vars \/ StaleLookup)
  BY <1>4, CommitSweepStep
<1>5. CASE Lapse
  BY <1>5, LapseStep
<1> QED BY <1>1, <1>2, <1>3, <1>4, <1>5 DEF TxNext

\* The handlers are atomic although their statements interleave: whatever the
\* portfolios, requests and sessions, a commit writes what one handler of
\* ExecutionLedger would have written to the tables at that moment, except that
\* a snapshot or a closure may act on a lookup a transition has made stale.
THEOREM TransactionsImplementHandlers == TxSpec => AtomicHandlers
<1>1. TxInit => TxInv /\ Init
  BY TxInvInitially DEF TxInit
<1>2. TxInv /\ [TxNext]_txVars => TxInv' /\ [Next \/ StaleLookup]_vars
  BY TxStep
<1> QED BY <1>1, <1>2, PTL DEF TxSpec, AtomicHandlers

(***************************************************************************)
(* Which locks a call may hold, from the statement it has reached.         *)
(***************************************************************************)
BookTaken(x) == x.op \in {"reserve", "sync", "close"} /\ x.step >= 2

RowTaken(x, r) ==
  \/ x.op = "sweep"
  \/ /\ x.request = r
     /\ \/ x.op = "reserve" /\ x.step >= 5
        \/ x.op = "transition" /\ x.step >= 2
        \/ x.op = "sync" /\ x.step >= 4 /\ (x.step >= 5 \/ x.seen # NoRow)
        \/ x.op = "close" /\ x.step >= 4

ReservationTaken(x, r) ==
  \/ x.op = "reserve" /\ x.step >= 3 /\ ledger[r].portfolio = x.portfolio
  \/ /\ x.request = r
     /\ \/ x.op = "transition" /\ x.step >= 3
        \/ x.op = "sync" /\ x.step >= 6
        \/ x.op = "close" /\ x.step >= 5

\* The rows an admission has still to count are its portfolio's.
Counts(x) ==
  x.op = "reserve" /\ x.step = 3 =>
    \A r \in Requests : r \in x.todo \/ r = x.aim =>
      Known(r) /\ ledger[r].portfolio = x.portfolio

Holds(c) ==
  /\ \A p \in Portfolios : lock[BookLock(p)] = c => BookTaken(call[c])
  /\ \A r \in Requests : lock[RowLock(r)] = c => RowTaken(call[c], r)
  /\ \A r \in Requests :
       lock[ReservationLock(r)] = c => Known(r) /\ ReservationTaken(call[c], r)
  /\ Counts(call[c])

\* A reservation is its row's, in its row's portfolio.
Matched ==
  \A r \in Requests : reservation[r].status # "NONE" =>
    Known(r) /\ ledger[r].portfolio = reservation[r].portfolio

\* Admission c was asked for a request that admission h may have counted: the
\* row it is to insert exists by now, in the portfolio whose book h has.
Counting(c) == call[c].op = "reserve" /\ call[c].step >= 3

Follows(c, h) ==
  /\ Counting(c) /\ Counting(h)
  /\ Known(call[c].request) /\ ledger[call[c].request].portfolio = call[h].portfolio

NoCircle ==
  \A D \in SUBSET Sessions : D # {} => \E c \in D : \A h \in D : ~Follows(c, h)

LockInv == TxInv /\ Matched /\ NoCircle /\ \A c \in Sessions : Holds(c)

-----------------------------------------------------------------------------

\* A circle that one call closes goes through that call.
LEMMA CircleKept ==
  ASSUME NoCircle, NEW c \in Sessions,
         \A a, h \in Sessions : Follows(a, h)' => Follows(a, h) \/ h = c,
         \/ \A h \in Sessions : ~Follows(c, h)'
         \/ \A a, h \in Sessions : Follows(a, h)' => Follows(a, h)
  PROVE  NoCircle'
<1> SUFFICES ASSUME NEW D \in SUBSET Sessions, D # {}
             PROVE  \E a \in D : \A h \in D : ~Follows(a, h)'
  BY DEF NoCircle
<1>1. PICK a \in D : \A h \in D : ~Follows(a, h)
  BY DEF NoCircle
<1>2. CASE c \in D /\ \A h \in Sessions : ~Follows(c, h)'
  BY <1>2
<1>3. CASE c \notin D
  BY <1>1, <1>3
<1>4. CASE \A b, h \in Sessions : Follows(b, h)' => Follows(b, h)
  BY <1>1, <1>4
<1> QED BY <1>2, <1>3, <1>4

\* What a step of session c leaves of the rows and reservations.
Kept(c) ==
  /\ \A r \in Requests : Known(r) => Known(r)' /\ ledger'[r].portfolio = ledger[r].portfolio
  /\ \A r \in Requests : Known(r)' /\ ~Known(r) =>
       ledger'[r].portfolio \in Portfolios /\ lock[BookLock(ledger'[r].portfolio)] = c
  /\ Matched'

\* The locks of the other calls stay as their statements explain them.
LEMMA OthersHold ==
  ASSUME LockInv, NEW c \in Sessions, LocksMove(c), Kept(c),
         \A d \in Sessions \ {c} : call'[d] = call[d],
         NEW d \in Sessions \ {c}
  PROVE  Holds(d)'
<1>1. Holds(d) /\ SessionsTyped /\ call'[d] = call[d]
  BY DEF LockInv, TxInv
<1>2. \A l \in Locks : lock'[l] = d <=> lock[l] = d
  BY <1>1, LocksOfOthers
<1>3. \A p \in Portfolios : lock'[BookLock(p)] = d => BookTaken(call'[d])
  BY <1>1, <1>2, LocksAre DEF Holds
<1>4. \A r \in Requests : lock'[RowLock(r)] = d => RowTaken(call'[d], r)
  BY <1>1, <1>2, LocksAre DEF Holds
<1>5. \A r \in Requests : lock'[ReservationLock(r)] = d =>
        Known(r)' /\ ReservationTaken(call[d], r)'
  <2> SUFFICES ASSUME NEW r \in Requests, lock'[ReservationLock(r)] = d
               PROVE  Known(r)' /\ ReservationTaken(call[d], r)'
    OBVIOUS
  <2>1. Known(r) /\ ReservationTaken(call[d], r)
    BY <1>1, <1>2, LocksAre DEF Holds
  <2>2. Known(r)' /\ ledger'[r].portfolio = ledger[r].portfolio
    BY <2>1 DEF Kept
  <2> QED BY <1>1, <2>1, <2>2 DEF ReservationTaken
<1>6. Counts(call[d])'
  BY <1>1 DEF Holds, Counts, Kept
<1> QED BY <1>3, <1>4, <1>5, <1>6 DEF Holds

\* A call that ends follows nobody, is followed by nobody and holds nothing.
LEMMA EndKeepsLocks ==
  ASSUME LockInv, NEW c \in Sessions, End(c), Kept(c), TxInv'
  PROVE  LockInv'
<1>1. SessionsTyped /\ TablesFine
  BY DEF LockInv, TxInv
<1>2. /\ LocksMove(c) /\ call'[c] = NoCall /\ NoCall.op = "none"
      /\ \A d \in Sessions \ {c} : call'[d] = call[d]
  BY <1>1, Ended, NoCallTyped DEF End, SessionsTyped
<1>3. \A l \in Locks : lock'[l] # c
  BY SessionsAssumption DEF End
<1>4. Holds(c)'
  BY <1>2, <1>3, LocksAre DEF Holds, Counts
<1>5. \A d \in Sessions : Holds(d)'
  BY <1>2, <1>4, OthersHold
<1>6. \A a, h \in Sessions : Follows(a, h)' => Follows(a, h)
  <2> SUFFICES ASSUME NEW a \in Sessions, NEW h \in Sessions, Follows(a, h)'
               PROVE  Follows(a, h)
    OBVIOUS
  <2>1. a # c /\ h # c
    BY <1>2 DEF Follows, Counting
  <2>2. /\ call'[a] = call[a] /\ call'[h] = call[h] /\ Counting(a) /\ Counting(h)
        /\ Known(call[a].request)' /\ ledger'[call[a].request].portfolio = call[h].portfolio
    BY <1>2, <2>1 DEF Follows, Counting, Known
  <2>3. PICK r \in Requests : r = call[a].request
    BY <2>2 DEF LockInv, TxInv, CallFine, Counting, ReserveFine
  <2>4. call[h].portfolio \in Portfolios /\ lock[BookLock(call[h].portfolio)] = h
    <3>1. ReserveFine(h) /\ call[h] \in CallType /\ call[h].step >= 3
      BY <1>1, <2>2 DEF LockInv, TxInv, CallFine, Counting, SessionsTyped
    <3>2. call[h].step >= 2
      BY <3>1 DEF CallType
    <3> QED BY <3>1, <3>2 DEF ReserveFine
  <2>5. Known(r)
    BY <2>1, <2>2, <2>3, <2>4 DEF Kept
  <2>6. ledger'[r].portfolio = ledger[r].portfolio
    BY <2>5 DEF Kept
  <2> QED BY <2>2, <2>3, <2>5, <2>6 DEF Follows
<1>7. NoCircle'
  BY <1>6, CircleKept DEF LockInv
<1> QED BY <1>5, <1>7 DEF LockInv, Kept

-----------------------------------------------------------------------------

\* A step within a transaction leaves the tables, and so the rows, as they are.
LEMMA QuietKept ==
  ASSUME LockInv, NEW c \in Sessions, UnchangedTables
  PROVE  Kept(c)
<1>1. UNCHANGED <<ledger, reservation>>
  BY DEF UnchangedTables
<1> QED BY <1>1 DEF Kept, LockInv, Matched, Known

\* What such a step has to show of its own call: that it may have the locks it
\* has, and that it counts nothing it did not count before.
LEMMA QuietKeepsLocks ==
  ASSUME LockInv, NEW c \in Sessions, UnchangedTables, LocksMove(c), TxInv',
         \A d \in Sessions \ {c} : call'[d] = call[d],
         Holds(c)',
         Counting(c)' => /\ Counting(c) /\ call'[c].request = call[c].request
                         /\ call'[c].portfolio = call[c].portfolio
  PROVE  LockInv'
<1>1. Kept(c) /\ UNCHANGED ledger
  BY QuietKept DEF UnchangedTables
<1>2. \A d \in Sessions : Holds(d)'
  BY <1>1, OthersHold
<1>3. ASSUME NEW a \in Sessions, Counting(a)'
      PROVE  /\ Counting(a) /\ call'[a].request = call[a].request
             /\ call'[a].portfolio = call[a].portfolio
  BY <1>3 DEF Counting
<1>4. \A a, h \in Sessions : Follows(a, h)' => Follows(a, h)
  BY <1>1, <1>3 DEF Follows, Known
<1>5. NoCircle'
  BY <1>4, CircleKept DEF LockInv
<1> QED BY <1>1, <1>2, <1>5 DEF LockInv, Kept

\* A call that goes on may keep the locks it had.
LEMMA GoesOn ==
  ASSUME NEW x, NEW y, Same(x, y), x.step \in Nat, y.step \in Nat, y.step >= x.step,
         NEW r
  PROVE  /\ BookTaken(x) => BookTaken(y)
         /\ /\ y.request = x.request
            /\ y.seen = x.seen \/ x.seen = NoRow
            /\ RowTaken(x, r)
            => RowTaken(y, r)
         /\ /\ x.op = "reserve" \/ y.request = x.request
            /\ ReservationTaken(x, r)
            => ReservationTaken(y, r)
<1>1. BookTaken(x) => BookTaken(y)
  BY DEF BookTaken, Same
<1>2. ASSUME y.request = x.request, y.seen = x.seen \/ x.seen = NoRow, RowTaken(x, r)
      PROVE  RowTaken(y, r)
  BY <1>2 DEF RowTaken, Same
<1>3. ASSUME x.op = "reserve" \/ y.request = x.request, ReservationTaken(x, r)
      PROVE  ReservationTaken(y, r)
  BY <1>3 DEF ReservationTaken, Same
<1> QED BY <1>1, <1>2, <1>3

\* The locks a step may add to those of c: of books, rows and reservations.
Gains(c, B, R, S) ==
  /\ \A p \in Portfolios : lock'[BookLock(p)] = c => lock[BookLock(p)] = c \/ p \in B
  /\ \A r \in Requests : lock'[RowLock(r)] = c => lock[RowLock(r)] = c \/ r \in R
  /\ \A r \in Requests :
       lock'[ReservationLock(r)] = c => lock[ReservationLock(r)] = c \/ r \in S

LEMMA Gained ==
  ASSUME SessionsTyped, NEW c \in Sessions
  PROVE  /\ UNCHANGED lock => LocksMove(c) /\ Gains(c, {}, {}, {})
         /\ \A p \in Portfolios :
              Acquire(c, BookLock(p)) => LocksMove(c) /\ Gains(c, {p}, {}, {})
         /\ \A r \in Requests :
              Acquire(c, RowLock(r)) => LocksMove(c) /\ Gains(c, {}, {r}, {})
         /\ \A r \in Requests :
              Acquire(c, ReservationLock(r)) => LocksMove(c) /\ Gains(c, {}, {}, {r})
<1>1. ASSUME UNCHANGED lock PROVE LocksMove(c) /\ Gains(c, {}, {}, {})
  BY <1>1 DEF LocksMove, Gains
<1>2. ASSUME NEW l \in Locks, Acquire(c, l)
      PROVE  LocksMove(c) /\ \A k \in Locks : lock'[k] = c => lock[k] = c \/ k = l
  BY <1>2 DEF Acquire, LocksMove, SessionsTyped
<1>3. ASSUME NEW p \in Portfolios, Acquire(c, BookLock(p))
      PROVE  LocksMove(c) /\ Gains(c, {p}, {}, {})
  <2>1. \A r \in Requests : RowLock(r) # BookLock(p) /\ ReservationLock(r) # BookLock(p)
    BY DEF RowLock, BookLock, ReservationLock
  <2> QED BY <1>2, <1>3, <2>1, LocksAre DEF Gains
<1>4. ASSUME NEW r \in Requests, Acquire(c, RowLock(r))
      PROVE  LocksMove(c) /\ Gains(c, {}, {r}, {})
  <2>1. \A p \in Portfolios : BookLock(p) # RowLock(r)
    BY DEF RowLock, BookLock
  <2>2. \A t \in Requests : ReservationLock(t) # RowLock(r)
    BY DEF RowLock, ReservationLock
  <2> QED BY <1>2, <1>4, <2>1, <2>2, LocksAre DEF Gains
<1>5. ASSUME NEW r \in Requests, Acquire(c, ReservationLock(r))
      PROVE  LocksMove(c) /\ Gains(c, {}, {}, {r})
  <2>1. \A p \in Portfolios : BookLock(p) # ReservationLock(r)
    BY DEF ReservationLock, BookLock
  <2>2. \A t \in Requests : /\ RowLock(t) # ReservationLock(r)
                            /\ ReservationLock(t) = ReservationLock(r) => t = r
    BY DEF RowLock, ReservationLock
  <2> QED BY <1>2, <1>5, <2>1, <2>2, LocksAre DEF Gains
<1> QED BY <1>1, <1>3, <1>4, <1>5

\* A call that goes on has the locks its statement explains, when those it
\* gains are of that kind.
LEMMA HoldsOn ==
  ASSUME LockInv, NEW c \in Sessions, UnchangedTables, Same(call[c], call'[c]),
         call'[c].request = call[c].request, call'[c].seen = call[c].seen \/ call[c].seen = NoRow,
         call'[c].step \in Nat, call'[c].step >= call[c].step, Counts(call'[c]),
         NEW B, NEW R, NEW S, Gains(c, B, R, S),
         \A p \in B : BookTaken(call'[c]),
         \A r \in R : RowTaken(call'[c], r),
         \A r \in S : Known(r) /\ ReservationTaken(call'[c], r)
  PROVE  Holds(c)'
<1> DEFINE x == call[c]
           y == call'[c]
<1>1. UNCHANGED ledger /\ Holds(c) /\ x.step \in Nat
  BY DEF UnchangedTables, LockInv, TxInv, SessionsTyped, CallType
<1>2. \A r : /\ BookTaken(x) => BookTaken(y)
             /\ RowTaken(x, r) => RowTaken(y, r)
             /\ ReservationTaken(x, r) => ReservationTaken(y, r)
  BY <1>1, GoesOn
<1>3. \A p \in Portfolios : lock'[BookLock(p)] = c => BookTaken(y)
  BY <1>1, <1>2 DEF Holds, Gains
<1>4. \A r \in Requests : lock'[RowLock(r)] = c => RowTaken(y, r)
  BY <1>1, <1>2 DEF Holds, Gains
<1>5. \A r \in Requests : lock'[ReservationLock(r)] = c => Known(r) /\ ReservationTaken(y, r)
  BY <1>1, <1>2 DEF Holds, Gains
<1>6. ASSUME NEW r \in Requests, Known(r), ReservationTaken(y, r)
      PROVE  Known(r)' /\ ReservationTaken(call[c], r)'
  BY <1>1, <1>6 DEF Known, ReservationTaken
<1>7. Counts(call[c])'
  BY <1>1 DEF Counts, Known
<1> QED BY <1>3, <1>4, <1>5, <1>6, <1>7 DEF Holds

LEMMA BeginLocks ==
  ASSUME LockInv, NEW c \in Sessions, Begin(c) \/ BeginSweep(c)
  PROVE  LockInv'
<1>1. TxInv' /\ SessionsTyped /\ CallFine(c)
  BY BeginStep, BeginSweepStep DEF LockInv, TxInv
<1>2. UnchangedTables /\ UNCHANGED lock /\ call[c] = NoCall
  BY DEF Begin, BeginSweep
<1>3. \A l \in Locks : lock'[l] # c
  BY <1>1, <1>2, NoCallTyped DEF CallFine
<1>4. \A d \in Sessions \ {c} : call'[d] = call[d]
  BY <1>1 DEF Begin, BeginSweep, SessionsTyped
<1>5. call'[c].step = 1
  <2>1. CASE Begin(c)
    <3>1. PICK new \in NewCalls : call' = [call EXCEPT ![c] = new]
      BY <2>1 DEF Begin
    <3> QED BY <1>1, <3>1, NewCallsTyped DEF SessionsTyped, Asked
  <2>2. CASE BeginSweep(c)
    <3>1. call' = [call EXCEPT ![c] = [NoCall EXCEPT !.op = "sweep",
                                                     !.todo = {r \in Requests : Late(r)}]]
      BY <2>2 DEF BeginSweep
    <3>2. \A S : [NoCall EXCEPT !.op = "sweep", !.todo = S].step = 1
      BY DEF NoCall
    <3> QED BY <1>1, <3>1, <3>2 DEF SessionsTyped
  <2> QED BY <2>1, <2>2
<1>6. Holds(c)' /\ ~Counting(c)'
  BY <1>3, <1>5, LocksAre DEF Holds, Counts, Counting
<1> QED BY <1>1, <1>2, <1>4, <1>6, QuietKeepsLocks DEF LocksMove

LEMMA LockBookLocks ==
  ASSUME LockInv, NEW c \in Sessions, LockBook(c)
  PROVE  LockInv'
<1> DEFINE x == call[c]
           y == call'[c]
<1>1. TxInv' /\ SessionsTyped /\ x \in CallType /\ CallFine(c) /\ UnchangedTables
  BY LockBookStep DEF LockInv, TxInv, SessionsTyped, LockBook
<1>2. x.op \in {"reserve", "sync", "close"} /\ x.step = 1
  BY <1>1, PlaceOf DEF LockBook, Place, SessionsTyped
<1>3. Goes(c, x) /\ y.request = x.request /\ y.step = 2 /\ y.seen = x.seen
  BY <1>1, <1>2, Proceeded DEF LockBook
<1>4. PICK p \in Portfolios : p = x.portfolio
  BY <1>1, <1>2 DEF CallFine, ReserveFine, SyncFine, CloseFine
<1>5. LocksMove(c) /\ Gains(c, {p}, {}, {})
  BY <1>1, <1>4, Gained DEF LockBook
<1>6. BookTaken(y) /\ Counts(y) /\ Same(x, y)
  BY <1>2, <1>3 DEF BookTaken, Counts, Goes, Same
<1>7. Holds(c)'
  BY <1>1, <1>2, <1>3, <1>5, <1>6, HoldsOn
<1>8. ~Counting(c)'
  BY <1>3 DEF Counting
<1> QED BY <1>1, <1>3, <1>5, <1>7, <1>8, QuietKeepsLocks DEF Goes

LEMMA FindLocks ==
  ASSUME LockInv, NEW c \in Sessions, Find(c)
  PROVE  LockInv'
<1> DEFINE x == call[c]
           y == call'[c]
<1>1. TxInv' /\ SessionsTyped /\ x \in CallType /\ Holds(c) /\ UnchangedTables /\ UNCHANGED lock
  BY FindStep DEF LockInv, TxInv, SessionsTyped, Find
<1>2. x.op \in {"sync", "close"} /\ x.step = 2
  BY <1>1, PlaceOf DEF Find, Place, SessionsTyped
<1>3. /\ y.op = x.op /\ y.step = 3
      /\ \A d \in Sessions \ {c} : call'[d] = call[d]
  <2>1. CASE Proceed(c, x)
    BY <1>1, <1>2, <2>1, Proceeded DEF Goes, Same
  <2>2. CASE \E t \in RowsByPosition(x.portfolio, x.position) :
               Proceed(c, [x EXCEPT !.request = t])
    <3>1. PICK t \in OrNull(Requests) : Proceed(c, [x EXCEPT !.request = t])
      BY <2>2 DEF RowsByPosition, OrNull
    <3> DEFINE z == [x EXCEPT !.request = t]
    <3>2. z \in CallType /\ Same(x, z) /\ z.step = x.step
      BY <1>1, Updates
    <3> HIDE DEF z
    <3>3. Goes(c, z) /\ y.step = z.step + 1
      BY <1>1, <3>1, <3>2, Proceeded DEF z
    <3> QED BY <1>2, <3>2, <3>3 DEF Goes, Same
  <2> QED BY <2>1, <2>2 DEF Find
<1>4. \A r \in Requests : lock'[RowLock(r)] # c /\ lock'[ReservationLock(r)] # c
  BY <1>1, <1>2 DEF Holds, RowTaken, ReservationTaken
<1>5. Holds(c)'
  BY <1>2, <1>3, <1>4 DEF Holds, BookTaken, Counts
<1>6. ~Counting(c)'
  BY <1>2, <1>3 DEF Counting
<1> QED BY <1>1, <1>3, <1>5, <1>6, QuietKeepsLocks DEF LocksMove

LEMMA LockRowLocks ==
  ASSUME LockInv, NEW c \in Sessions, LockRow(c)
  PROVE  LockInv'
<1> DEFINE x == call[c]
           row == ledger[x.request]
           z == [x EXCEPT !.seen = row]
<1>1. TxInv' /\ SessionsTyped /\ x \in CallType /\ CallFine(c) /\ UnchangedTables
  BY LockRowStep DEF LockInv, TxInv, SessionsTyped, LockRow
<1>2. \/ x.op = "reserve" /\ x.step = 2
      \/ x.op = "transition" /\ x.step = 1
      \/ x.op \in {"sync", "close"} /\ x.step = 3
  BY <1>1, PlaceOf DEF LockRow, Place, SessionsTyped
<1>3. CASE End(c)
  BY <1>1, <1>3, QuietKept, EndKeepsLocks
<1>4. CASE ~End(c)
  <2>1. /\ RowAccepted(x, row) /\ Known(x.request) /\ Acquire(c, RowLock(x.request))
        /\ Proceed(c, z)
    BY <1>4 DEF LockRow
  <2>2. x.op # "reserve"
    BY <2>1 DEF RowAccepted
  <2>3. PICK r \in Requests : r = x.request
    BY <1>1, <1>2, <2>2 DEF CallFine, TransitionFine, SyncFine, CloseFine
  <2>4. row \in Row /\ row # NoRow
    <3>1. NoRow.state = "ABSENT"
      BY DEF NoRow
    <3> QED BY <2>1, <2>3, <3>1 DEF LockInv, TxInv, TablesFine, TypeOK, Known
  <2>5. z \in CallType /\ Same(x, z) /\ z.request = r /\ z.step = x.step /\ z.seen = row
    BY <1>1, <2>3, <2>4, Updates
  <2> HIDE DEF z
  <2>6. /\ Goes(c, z) /\ call'[c].request = r /\ call'[c].step = x.step + 1
        /\ call'[c].seen = row
    BY <1>1, <2>1, <2>5, Proceeded
  <2>7. Same(x, call'[c])
    BY <2>5, <2>6 DEF Goes, Same
  <2>8. LocksMove(c) /\ Gains(c, {}, {r}, {})
    BY <1>1, <2>1, <2>3, Gained
  <2>9. RowTaken(call'[c], r) /\ Counts(call'[c]) /\ ~Counting(c)'
    BY <1>2, <2>2, <2>4, <2>6, <2>7 DEF RowTaken, Counts, Counting, Same
  <2>10. x.seen = NoRow \/ x.op \in {"transition", "close"}
    BY <1>1, <1>2, <2>2 DEF CallFine, SyncFine
  <2>11. Holds(c)'
    <3>1. \A t \in Requests : lock[RowLock(t)] # c /\ lock[ReservationLock(t)] # c
      BY <1>2, <2>2 DEF LockInv, Holds, RowTaken, ReservationTaken
    <3>2. \A p \in Portfolios : lock[BookLock(p)] = c => BookTaken(call'[c])
      BY <1>2, <2>2, <2>6, <2>7 DEF LockInv, Holds, BookTaken, Same
    <3>3. call'[c].op # "reserve"
      BY <2>2, <2>7 DEF Same
    <3>4. Counts(call[c])'
      BY <3>3 DEF Counts
    <3> QED BY <2>8, <2>9, <3>1, <3>2, <3>4 DEF Holds, Gains
  <2> QED BY <1>1, <2>6, <2>8, <2>9, <2>11, QuietKeepsLocks DEF Goes
<1> QED BY <1>3, <1>4

LEMMA MissRowLocks ==
  ASSUME LockInv, NEW c \in Sessions, MissRow(c)
  PROVE  LockInv'
<1> DEFINE x == call[c]
           y == call'[c]
           z == [x EXCEPT !.todo = Active(x.portfolio)]
<1>1. TxInv' /\ SessionsTyped /\ x \in CallType /\ CallFine(c) /\ UnchangedTables
  BY MissRowStep DEF LockInv, TxInv, SessionsTyped, MissRow
<1>2. \/ x.op = "reserve" /\ x.step = 2
      \/ x.op = "transition" /\ x.step = 1
      \/ x.op \in {"sync", "close"} /\ x.step = 3
  BY <1>1, PlaceOf DEF MissRow, Place, SessionsTyped
<1>3. CASE End(c)
  BY <1>1, <1>3, QuietKept, EndKeepsLocks
<1>4. CASE x.op = "reserve"
  <2>1. Proceed(c, z) /\ UNCHANGED lock
    BY <1>4 DEF MissRow, Running
  <2>2. /\ z \in CallType /\ Same(x, z) /\ z.request = x.request
        /\ z.step = x.step /\ z.seen = x.seen /\ z.todo = Active(x.portfolio)
        /\ z.aim = x.aim
    <3>1. Active(x.portfolio) \in SUBSET Requests
      BY DEF Active
    <3> HIDE DEF x
    <3> QED BY <1>1, <3>1, Updates
  <2> HIDE DEF z
  <2>3. /\ Goes(c, z) /\ y.request = x.request /\ y.step = 3
        /\ y.seen = x.seen /\ y.todo = Active(x.portfolio) /\ y.aim = x.aim
    BY <1>1, <1>2, <1>4, <2>1, <2>2, Proceeded
  <2>4. Same(x, y)
    BY <2>2, <2>3 DEF Goes, Same
  <2>5. Counts(y)
    <3> SUFFICES ASSUME NEW r \in Requests, r \in y.todo \/ r = y.aim
                 PROVE  Known(r) /\ ledger[r].portfolio = x.portfolio
      BY <2>4 DEF Counts, Same
    <3>1. r # y.aim
      BY <1>1, <1>2, <1>4, <2>3, SessionsAssumption DEF CallFine, ReserveFine
    <3>2. reservation[r].status = "ACTIVE" /\ reservation[r].portfolio = x.portfolio
      BY <2>3, <3>1 DEF Active
    <3> QED BY <3>2 DEF LockInv, Matched
  <2>6. LocksMove(c) /\ Gains(c, {}, {}, {})
    BY <1>1, <2>1, Gained
  <2>7. Holds(c)'
    <3> HIDE DEF x, y
    <3> QED BY <1>1, <1>2, <1>4, <2>3, <2>4, <2>5, <2>6, HoldsOn DEF x, y
  <2>8. Kept(c) /\ UNCHANGED ledger
    BY <1>1, QuietKept DEF UnchangedTables
  <2>9. \A d \in Sessions : Holds(d)'
    BY <2>3, <2>6, <2>7, <2>8, OthersHold DEF Goes
  <2>10. \A h \in Sessions : ~Follows(c, h)'
    BY <2>3, <2>8 DEF MissRow, Follows, Known
  <2>11. ASSUME NEW a \in Sessions, NEW h \in Sessions, Follows(a, h)'
         PROVE  Follows(a, h) \/ h = c
    <3>1. a # c
      BY <2>10, <2>11
    <3> QED BY <2>3, <2>8, <2>11, <3>1 DEF Follows, Counting, Known, Goes
  <2>12. NoCircle'
    BY <2>10, <2>11, CircleKept DEF LockInv
  <2> QED BY <1>1, <2>8, <2>9, <2>12 DEF LockInv, Kept
<1>5. CASE x.op = "sync"
  <2>1. Proceed(c, x) /\ UNCHANGED lock
    BY <1>5 DEF MissRow, Running
  <2>2. Goes(c, x) /\ y.request = x.request /\ y.step = 4 /\ y.seen = x.seen
    BY <1>1, <1>2, <1>5, <2>1, Proceeded
  <2>3. Same(x, y) /\ Counts(y) /\ ~Counting(c)'
    BY <1>5, <2>2 DEF Goes, Same, Counts, Counting
  <2>4. LocksMove(c) /\ Gains(c, {}, {}, {})
    BY <1>1, <2>1, Gained
  <2>5. Holds(c)'
    <3> HIDE DEF x, y
    <3> QED BY <1>1, <1>2, <1>5, <2>2, <2>3, <2>4, HoldsOn DEF x, y
  <2> QED BY <1>1, <2>2, <2>3, <2>4, <2>5, QuietKeepsLocks DEF Goes
<1> QED BY <1>2, <1>3, <1>4, <1>5 DEF MissRow, Running

LEMMA AimLocks ==
  ASSUME LockInv, NEW c \in Sessions, Aim(c)
  PROVE  LockInv'
<1> DEFINE x == call[c]
           y == call'[c]
<1>1. /\ TxInv' /\ SessionsTyped /\ x \in CallType /\ Holds(c)
      /\ UnchangedTables /\ UNCHANGED lock
  BY AimStep DEF LockInv, TxInv, SessionsTyped, Aim
<1>2. PICK r \in Requests : r \in x.todo /\ call' = [call EXCEPT ![c].aim = r, ![c].todo = @ \ {r}]
  BY <1>1 DEF Aim, CallType
<1>3. Lingers(c) /\ y.aim = r /\ y.todo = x.todo \ {r}
  BY <1>1, <1>2, Aimed
<1>4. Counts(y)
  BY <1>1, <1>2, <1>3 DEF Holds, Counts, Lingers, Same
<1>5. LocksMove(c) /\ Gains(c, {}, {}, {})
  BY <1>1, Gained
<1>6. Holds(c)'
  <2>1. Same(x, y) /\ y.request = x.request /\ y.seen = x.seen /\ y.step \in Nat /\ y.step >= x.step
    BY <1>1, <1>3 DEF Lingers, CallType
  <2> HIDE DEF x, y
  <2> QED BY <1>1, <1>4, <1>5, <2>1, HoldsOn DEF x, y
<1> QED BY <1>1, <1>3, <1>5, <1>6, QuietKeepsLocks DEF Lingers, Same, Counting

LEMMA CountLocks ==
  ASSUME LockInv, NEW c \in Sessions, Count(c)
  PROVE  LockInv'
<1> DEFINE x == call[c]
           y == call'[c]
           r == x.aim
           n == IF r \in Active(x.portfolio) THEN reservation[r].risk ELSE 0
<1>1. TxInv' /\ SessionsTyped /\ x \in CallType /\ Holds(c) /\ UnchangedTables
  BY CountStep DEF LockInv, TxInv, SessionsTyped, Count
<1>2. x.op = "reserve" /\ x.step = 3
  BY <1>1, PlaceOf DEF Count, Place, SessionsTyped
<1>3. r \in Requests /\ r # NoRef
  BY <1>1 DEF Count, CallType, OrNull
<1>4. n \in Nat
  <2>1. reservation[r].risk \in Nat
    <3>1. reservation[r] \in Reservation
      BY <1>3 DEF LockInv, TxInv, TablesFine, TypeOK
    <3> QED BY <3>1, RiskIsNat
  <2> QED BY <2>1
<1>5. call' = [call EXCEPT ![c].aim = NoRef, ![c].heat = @ + n]
  BY DEF Count
<1>6. Lingers(c) /\ y.aim = NoRef /\ y.todo = x.todo
  <2> HIDE DEF n
  <2> QED BY <1>1, <1>4, <1>5, Counted
<1> HIDE DEF n
<1>7. Counts(y) /\ Known(r) /\ ReservationTaken(y, r)
  <2>1. Known(r) /\ ledger[r].portfolio = x.portfolio
    BY <1>1, <1>2, <1>3 DEF Holds, Counts
  <2>2. NoRef \notin Requests
    BY SessionsAssumption
  <2>3. Counts(y)
    BY <1>1, <1>2, <1>6, <2>2 DEF Holds, Counts, Lingers, Same
  <2> QED BY <1>2, <1>6, <2>1, <2>3 DEF ReservationTaken, Lingers, Same
<1>8. LocksMove(c) /\ Gains(c, {}, {}, {r})
  BY <1>1, <1>3, Gained DEF Count
<1>9. Holds(c)'
  <2>1. Same(x, y) /\ y.request = x.request /\ y.seen = x.seen /\ y.step \in Nat /\ y.step >= x.step
    BY <1>1, <1>6 DEF Lingers, CallType
  <2> HIDE DEF x, y, r
  <2> QED BY <1>1, <1>7, <1>8, <2>1, HoldsOn DEF x, y
<1> QED BY <1>1, <1>6, <1>8, <1>9, QuietKeepsLocks DEF Lingers, Same, Counting

LEMMA AdmitLocks ==
  ASSUME LockInv, NEW c \in Sessions, Admit(c)
  PROVE  LockInv'
<1> DEFINE x == call[c]
           y == call'[c]
<1>1. TxInv' /\ SessionsTyped /\ x \in CallType /\ UnchangedTables
  BY AdmitStep DEF LockInv, TxInv, SessionsTyped, Admit
<1>2. x.op = "reserve" /\ x.step = 3
  BY <1>1, PlaceOf DEF Admit, Place, SessionsTyped
<1>3. CASE End(c)
  BY <1>1, <1>3, QuietKept, EndKeepsLocks
<1>4. CASE ~End(c)
  <2>1. Proceed(c, x) /\ UNCHANGED lock
    BY <1>4 DEF Admit
  <2>2. Goes(c, x) /\ y.request = x.request /\ y.step = 4 /\ y.seen = x.seen
    BY <1>1, <1>2, <2>1, Proceeded
  <2>3. Same(x, y) /\ Counts(y)
    BY <2>2 DEF Goes, Same, Counts
  <2>4. LocksMove(c) /\ Gains(c, {}, {}, {})
    BY <1>1, <2>1, Gained
  <2>5. Holds(c)'
    <3> HIDE DEF x, y
    <3> QED BY <1>1, <1>2, <2>2, <2>3, <2>4, HoldsOn DEF x, y
  <2>6. Counting(c) /\ y.portfolio = x.portfolio
    BY <1>2, <2>3 DEF Counting, Same
  <2> QED BY <1>1, <2>2, <2>4, <2>5, <2>6, QuietKeepsLocks DEF Goes
<1> QED BY <1>3, <1>4

LEMMA SweepRowLocks ==
  ASSUME LockInv, NEW c \in Sessions, SweepRow(c)
  PROVE  LockInv'
<1> DEFINE x == call[c]
           y == call'[c]
           r == x.aim
<1>1. TxInv' /\ SessionsTyped /\ x \in CallType /\ UnchangedTables
  BY SweepRowStep DEF LockInv, TxInv, SessionsTyped, SweepRow
<1>2. x.op = "sweep" /\ r \in Requests
  BY <1>1, PlaceOf DEF SweepRow, Place, SessionsTyped, CallType, OrNull
<1>3. Lingers(c)
  BY <1>1, Dropped DEF SweepRow
<1>4. y.op = "sweep"
  BY <1>2, <1>3 DEF Lingers, Same
<1>5. RowTaken(y, r) /\ Counts(y) /\ ~Counting(c)'
  BY <1>4 DEF RowTaken, Counts, Counting
<1>6. LocksMove(c) /\ (Gains(c, {}, {}, {}) \/ Gains(c, {}, {r}, {}))
  BY <1>1, <1>2, Gained DEF SweepRow
<1>7. Holds(c)'
  <2>1. Same(x, y) /\ y.request = x.request /\ y.seen = x.seen /\ y.step \in Nat /\ y.step >= x.step
    BY <1>1, <1>3 DEF Lingers, CallType
  <2>2. CASE Gains(c, {}, {}, {})
    <3> HIDE DEF x, y, r
    <3> QED BY <1>1, <1>5, <2>1, <2>2, HoldsOn DEF x, y
  <2>3. CASE Gains(c, {}, {r}, {})
    <3> HIDE DEF x, y, r
    <3> QED BY <1>1, <1>5, <2>1, <2>3, HoldsOn DEF x, y
  <2> QED BY <1>6, <2>2, <2>3
<1> QED BY <1>1, <1>3, <1>5, <1>6, <1>7, QuietKeepsLocks DEF Lingers

LEMMA InsertLocks ==
  ASSUME LockInv, NEW c \in Sessions, Insert(c)
  PROVE  LockInv'
<1> DEFINE x == call[c]
           y == call'[c]
<1>1. TxInv' /\ SessionsTyped /\ x \in CallType /\ CallFine(c) /\ UnchangedTables
  BY InsertStep DEF LockInv, TxInv, SessionsTyped, Insert
<1>2. x.op \in {"reserve", "sync"} /\ x.step = 4
  BY <1>1, PlaceOf DEF Insert, Place, SessionsTyped
<1>3. CASE End(c)
  BY <1>1, <1>3, QuietKept, EndKeepsLocks
<1>4. CASE ~End(c)
  <2>1. PICK r \in Requests : r = x.request
    BY <1>1, <1>2 DEF CallFine, ReserveFine, SyncFine
  <2>2. Proceed(c, x) /\ (UNCHANGED lock \/ Acquire(c, RowLock(r)))
    BY <1>4, <2>1 DEF Insert
  <2>3. Goes(c, x) /\ y.request = r /\ y.step = 5 /\ y.seen = x.seen
    BY <1>1, <1>2, <2>1, <2>2, Proceeded
  <2>4. Same(x, y) /\ Counts(y) /\ RowTaken(y, r)
    BY <1>2, <2>3 DEF Goes, Same, Counts, RowTaken
  <2>5. LocksMove(c) /\ (Gains(c, {}, {}, {}) \/ Gains(c, {}, {r}, {}))
    BY <1>1, <2>2, Gained
  <2>6. Holds(c)'
    <3>1. CASE Gains(c, {}, {}, {})
      <4> HIDE DEF x, y
      <4> QED BY <1>1, <1>2, <2>1, <2>3, <2>4, <3>1, HoldsOn DEF x, y
    <3>2. CASE Gains(c, {}, {r}, {})
      <4> HIDE DEF x, y
      <4> QED BY <1>1, <1>2, <2>1, <2>3, <2>4, <3>2, HoldsOn DEF x, y
    <3> QED BY <2>5, <3>1, <3>2
  <2>7. Counting(c)' => Counting(c) /\ y.request = x.request /\ y.portfolio = x.portfolio
    BY <1>2, <2>1, <2>3, <2>4 DEF Counting, Same
  <2> QED BY <1>1, <2>3, <2>5, <2>6, <2>7, QuietKeepsLocks DEF Goes
<1> QED BY <1>3, <1>4

LEMMA LockReservationLocks ==
  ASSUME LockInv, NEW c \in Sessions, LockReservation(c)
  PROVE  LockInv'
<1> DEFINE x == call[c]
           y == call'[c]
<1>1. TxInv' /\ SessionsTyped /\ x \in CallType /\ CallFine(c) /\ UnchangedTables
  BY LockReservationStep DEF LockInv, TxInv, SessionsTyped, LockReservation
<1>2. \/ x.op = "transition" /\ x.step = 2
      \/ x.op = "sync" /\ x.step = 5
      \/ x.op = "close" /\ x.step = 4
  BY <1>1, PlaceOf DEF LockReservation, Place, SessionsTyped
<1>3. PICK r \in Requests : r = x.request
  BY <1>1, <1>2 DEF CallFine, TransitionFine, SyncFine, CloseFine
<1>4. Goes(c, x) /\ y.request = r /\ y.step = x.step + 1 /\ y.seen = x.seen
  BY <1>1, <1>3, Proceeded DEF LockReservation
<1>5. Same(x, y) /\ Counts(y) /\ ReservationTaken(y, r) /\ ~Counting(c)'
  BY <1>2, <1>4 DEF Goes, Same, Counts, ReservationTaken, Counting
<1>6. \/ UNCHANGED lock
      \/ Acquire(c, ReservationLock(r)) /\ reservation[r].status # "NONE"
  BY <1>3 DEF LockReservation
<1>7. LocksMove(c) /\ (Gains(c, {}, {}, {}) \/ (Known(r) /\ Gains(c, {}, {}, {r})))
  BY <1>1, <1>3, <1>6, Gained DEF LockInv, Matched
<1>8. Holds(c)'
  <2>1. y.request = x.request /\ y.seen = x.seen /\ y.step \in Nat /\ y.step >= x.step
    BY <1>1, <1>3, <1>4 DEF CallType
  <2>2. CASE Gains(c, {}, {}, {})
    <3> HIDE DEF x, y
    <3> QED BY <1>1, <1>5, <2>1, <2>2, HoldsOn DEF x, y
  <2>3. CASE Known(r) /\ Gains(c, {}, {}, {r})
    <3> HIDE DEF x, y
    <3> QED BY <1>1, <1>5, <2>1, <2>3, HoldsOn DEF x, y
  <2> QED BY <1>7, <2>2, <2>3
<1> QED BY <1>1, <1>4, <1>5, <1>7, <1>8, QuietKeepsLocks DEF Goes

-----------------------------------------------------------------------------

\* A commit writes rows it has locked: it keeps their portfolios, and inserts
\* one only in a portfolio whose book it has locked.
LEMMA OneRowKept ==
  ASSUME LockInv, NEW c \in Sessions, NEW r \in Requests,
         \A t \in Requests \ {r} : ledger'[t] = ledger[t] /\ reservation'[t] = reservation[t],
         ledger'[r].state # "ABSENT",
         NEW p, ledger'[r].portfolio = p,
         \/ Known(r) /\ ledger[r].portfolio = p
         \/ ~Known(r) /\ p \in Portfolios /\ lock[BookLock(p)] = c,
         reservation'[r].status # "NONE" => reservation'[r].portfolio = p
  PROVE  Kept(c)
<1>1. \A t \in Requests \ {r} : Known(t)' <=> Known(t)
  BY DEF Known
<1>2. Known(r)'
  BY DEF Known
<1>3. Matched'
  BY <1>1, <1>2 DEF LockInv, Matched
<1>4. \A t \in Requests : Known(t) => Known(t)' /\ ledger'[t].portfolio = ledger[t].portfolio
  BY <1>1, <1>2
<1>5. \A t \in Requests : Known(t)' /\ ~Known(t) =>
        ledger'[t].portfolio \in Portfolios /\ lock[BookLock(ledger'[t].portfolio)] = c
  <2> SUFFICES ASSUME NEW t \in Requests, Known(t)', ~Known(t)
               PROVE  ledger'[t].portfolio = p /\ p \in Portfolios /\ lock[BookLock(p)] = c
    OBVIOUS
  <2>1. t = r
    BY <1>1
  <2> QED BY <2>1
<1> QED BY <1>3, <1>4, <1>5 DEF Kept

\* What the shared effects leave of a reservation's portfolio.
LEMMA EffectsOnPortfolios ==
  ASSUME LockInv, NEW r \in Requests
  PROVE  /\ \A p, k : Hold(r, p, k) => reservation'[r].portfolio = p
         /\ Release(r) \/ UNCHANGED reservation =>
              /\ reservation'[r].portfolio = reservation[r].portfolio
              /\ reservation'[r].status # "NONE" => reservation[r].status # "NONE"
<1>1. reservation \in [Requests -> Reservation]
  BY DEF LockInv, TxInv, TablesFine, TypeOK
<1>2. ASSUME NEW p, NEW k, Hold(r, p, k) PROVE reservation'[r].portfolio = p
  BY <1>1, <1>2 DEF Hold
<1>3. CASE Release(r)
  <2>1. PICK s : /\ reservation' = [reservation EXCEPT ![r] = [@ EXCEPT !.status = s]]
                 /\ s # "NONE" => reservation[r].status # "NONE"
    BY <1>3 DEF Release
  <2>2. reservation'[r].status = s /\ reservation'[r].portfolio = reservation[r].portfolio
    BY <1>1, <2>1 DEF Reservation
  <2> QED BY <1>2, <2>1, <2>2
<1>4. CASE UNCHANGED reservation
  BY <1>2, <1>4
<1> QED BY <1>2, <1>3, <1>4

LEMMA CommitKept ==
  ASSUME LockInv, NEW c \in Sessions, Commit(c)
  PROVE  Kept(c)
<1> DEFINE x == call[c]
<1>1. /\ SessionsTyped /\ TablesFine /\ TypeOK /\ x \in CallType /\ CallFine(c)
      /\ NoRow.state = "ABSENT" /\ NoRow.portfolio = NoRef
  BY DEF LockInv, TxInv, SessionsTyped, TablesFine, NoRow
<1>2. Place("commit", x.op, x.step)
  BY <1>1, PlaceOf DEF Commit, SessionsTyped
<1>3. x.step \in Nat
  BY <1>1 DEF CallType
<1>4. CASE x.op = "reserve"
  <2>1. ReserveFine(c) /\ x.step = 5
    BY <1>1, <1>2, <1>3, <1>4 DEF CallFine, ReserveFine, Place
  <2>2. PICK p \in Portfolios, r \in Requests : p = x.portfolio /\ r = x.request
    BY <2>1 DEF ReserveFine
  <2>3. lock[BookLock(p)] = c /\ ~Known(r)
    BY <2>1, <2>2 DEF ReserveFine, RowNew
  <2>4. /\ SetRow(r, [NoRow EXCEPT !.portfolio = p, !.state = "RESERVED"])
        /\ Hold(r, p, x.risk)
    BY <1>4, <2>2 DEF Commit, Running, CommitReserve
  <2>5. /\ [NoRow EXCEPT !.portfolio = p, !.state = "RESERVED"].portfolio = p
        /\ [NoRow EXCEPT !.portfolio = p, !.state = "RESERVED"].state = "RESERVED"
    BY DEF NoRow
  <2>6. /\ ledger'[r].portfolio = p /\ ledger'[r].state # "ABSENT"
        /\ reservation'[r].portfolio = p
        /\ \A t \in Requests \ {r} : ledger'[t] = ledger[t] /\ reservation'[t] = reservation[t]
    BY <1>1, <2>4, <2>5, EffectsOnRows, EffectsOnPortfolios
  <2> QED BY <2>3, <2>6, OneRowKept
<1>5. CASE x.op = "transition"
  <2>1. TransitionFine(c) /\ x.step >= 2
    BY <1>1, <1>2, <1>3, <1>5 DEF CallFine, Place
  <2>2. PICK r \in Requests : r = x.request
    BY <2>1 DEF TransitionFine
  <2>3. Known(r) /\ x.state \in States
    BY <2>1, <2>2, SessionsAssumption DEF TransitionFine, RowHeld
  <2>4. PICK pos : ledger' = [ledger EXCEPT ![r].state = x.state, ![r].position = pos]
    <3>1. CASE x.state = x.seen.state
      BY <1>5, <2>2, <3>1 DEF Commit, Running, CommitTransition
    <3>2. CASE x.state # x.seen.state
      BY <1>5, <2>2, <3>2 DEF Commit, Running, CommitTransition
    <3> QED BY <3>1, <3>2
  <2>5. /\ ledger'[r].portfolio = ledger[r].portfolio /\ ledger'[r].state = x.state
        /\ \A t \in Requests \ {r} : ledger'[t] = ledger[t]
    BY <1>1, <2>4 DEF TypeOK, Row
  <2>6. Release(r) \/ UNCHANGED reservation
    BY <1>5, <2>2 DEF Commit, Running, CommitTransition
  <2>7. \A t \in Requests \ {r} : reservation'[t] = reservation[t]
    BY <1>1, <2>6, EffectsOnRows
  <2>8. /\ reservation'[r].portfolio = reservation[r].portfolio
        /\ reservation'[r].status # "NONE" => reservation[r].status # "NONE"
    BY <2>6, EffectsOnPortfolios
  <2>9. x.state # "ABSENT"
    BY <2>3 DEF States, Terminal
  <2>10. PICK p : p = ledger[r].portfolio
    OBVIOUS
  <2>11. reservation[r].status # "NONE" => reservation[r].portfolio = p
    BY <2>10 DEF LockInv, Matched
  <2> QED BY <2>3, <2>5, <2>7, <2>8, <2>9, <2>10, <2>11, OneRowKept
<1>6. CASE x.op = "sync"
  <2>1. SyncFine(c) /\ x.step >= 5 /\ x.step >= 2
    BY <1>1, <1>2, <1>3, <1>6 DEF CallFine, Place
  <2>2. PICK p \in Portfolios, r \in Requests : p = x.portfolio /\ r = x.request
    BY <2>1 DEF SyncFine
  <2>3. (Known(r) /\ ledger[r].portfolio = p) \/ (~Known(r) /\ lock[BookLock(p)] = c)
    <3>1. CASE RowHeld(c)
      BY <1>6, <2>2, <3>1 DEF RowHeld, RowAccepted
    <3>2. CASE RowNew(c)
      BY <2>1, <2>2, <3>2 DEF SyncFine, RowNew
    <3> QED BY <2>1, <3>1, <3>2 DEF SyncFine
  <2> DEFINE new == [ledger[r] EXCEPT !.portfolio = p, !.state = "FILLED",
                                      !.position = x.position]
  <2>4. SetRow(r, new) /\ Hold(r, p, x.risk)
    BY <1>6, <2>2 DEF Commit, Running, CommitSync, SetRow
  <2>5. new.portfolio = p /\ new.state = "FILLED"
    BY <1>1 DEF TypeOK, Row
  <2> HIDE DEF new
  <2>6. /\ ledger'[r].portfolio = p /\ ledger'[r].state # "ABSENT"
        /\ reservation'[r].portfolio = p
        /\ \A t \in Requests \ {r} : ledger'[t] = ledger[t] /\ reservation'[t] = reservation[t]
    BY <1>1, <2>4, <2>5, EffectsOnRows, EffectsOnPortfolios
  <2> QED BY <2>3, <2>6, OneRowKept
<1>7. CASE x.op = "close"
  <2>1. CloseFine(c) /\ x.step >= 4
    BY <1>1, <1>2, <1>3, <1>7 DEF CallFine, Place
  <2>2. PICK p \in Portfolios, r \in Requests : p = x.portfolio /\ r = x.request
    BY <2>1 DEF CloseFine
  <2>3. Known(r) /\ ledger[r].portfolio = p
    BY <1>7, <2>1, <2>2 DEF CloseFine, RowHeld, RowAccepted
  <2> DEFINE new == [ledger[r] EXCEPT !.state = "RECONCILED", !.position = x.position,
                                      !.deal = x.deal]
  <2>4. SetRow(r, new) /\ Release(r)
    BY <1>7, <2>2 DEF Commit, Running, CommitClose, SetRow
  <2>5. new.portfolio = ledger[r].portfolio /\ new.state = "RECONCILED"
    BY <1>1 DEF TypeOK, Row
  <2> HIDE DEF new
  <2>6. /\ ledger'[r].portfolio = p /\ ledger'[r].state # "ABSENT"
        /\ \A t \in Requests \ {r} : ledger'[t] = ledger[t] /\ reservation'[t] = reservation[t]
    BY <1>1, <2>3, <2>4, <2>5, EffectsOnRows
  <2>7. reservation'[r].status # "NONE" => reservation'[r].portfolio = p
    BY <2>3, <2>4, EffectsOnPortfolios DEF LockInv, Matched
  <2> QED BY <2>3, <2>6, <2>7, OneRowKept
<1> QED BY <1>4, <1>5, <1>6, <1>7 DEF Commit, Running

LEMMA CommitSweepKept ==
  ASSUME LockInv, NEW c \in Sessions, CommitSweep(c)
  PROVE  Kept(c)
<1>1. /\ ledger' = [r \in Requests |->
           IF lock[RowLock(r)] = c THEN [ledger[r] EXCEPT !.state = "RECOVERING"] ELSE ledger[r]]
      /\ UNCHANGED reservation /\ TypeOK /\ SweepFine(c)
  <2>1. SessionsTyped /\ CallFine(c) /\ TablesFine
    BY DEF LockInv, TxInv
  <2> QED BY <2>1, PlaceOf DEF CommitSweep, Place, CallFine, SessionsTyped, TablesFine
<1>2. ASSUME NEW r \in Requests
      PROVE  ledger'[r].portfolio = ledger[r].portfolio /\ (Known(r)' <=> Known(r))
  <2>1. CASE lock[RowLock(r)] = c
    <3>1. ledger'[r].portfolio = ledger[r].portfolio /\ ledger'[r].state = "RECOVERING"
      BY <1>1, <2>1 DEF TypeOK, Row
    <3>2. Known(r)
      BY <1>1, <2>1 DEF SweepFine, Late, Leased, Known
    <3> QED BY <3>1, <3>2 DEF Known
  <2>2. CASE lock[RowLock(r)] # c
    BY <1>1, <2>2 DEF Known
  <2> QED BY <2>1, <2>2
<1> QED BY <1>1, <1>2 DEF Kept, LockInv, Matched

LEMMA SameLocks ==
  ASSUME LockInv, TxInv', UNCHANGED <<ledger, reservation, call, lock>>
  PROVE  LockInv'
<1>1. \A r \in Requests : Known(r)' <=> Known(r)
  BY DEF Known
<1>2. Matched'
  BY <1>1 DEF LockInv, Matched
<1>3. \A a, h \in Sessions : Follows(a, h)' <=> Follows(a, h)
  BY DEF Follows, Counting, Known
<1>4. NoCircle'
  BY <1>3 DEF LockInv, NoCircle
<1>5. ASSUME NEW c \in Sessions PROVE Holds(c)'
  <2>1. Holds(c)
    BY DEF LockInv
  <2>2. Counts(call[c])' <=> Counts(call[c])
    BY <1>1 DEF Counts
  <2>3. \A r \in Requests : ReservationTaken(call[c], r)' <=> ReservationTaken(call[c], r)
    BY DEF ReservationTaken
  <2> QED BY <1>1, <2>1, <2>2, <2>3 DEF Holds
<1> QED BY <1>2, <1>4, <1>5 DEF LockInv

LEMMA LockInvInitially == TxInit => LockInv
<1> SUFFICES ASSUME TxInit PROVE LockInv
  OBVIOUS
<1>1. TxInv
  BY TxInvInitially
<1>2. Matched
  BY DEF TxInit, Init, Matched, NoReservation
<1>3. \A c \in Sessions : call[c].op = "none" /\ \A l \in Locks : lock[l] # c
  BY NoCallTyped, SessionsAssumption DEF TxInit
<1>4. NoCircle
  BY <1>3 DEF NoCircle, Follows, Counting
<1>5. \A c \in Sessions : Holds(c)
  BY <1>3, LocksAre DEF Holds, Counts
<1> QED BY <1>1, <1>2, <1>4, <1>5 DEF LockInv

LEMMA LockStep ==
  ASSUME LockInv, [TxNext]_txVars
  PROVE  LockInv'
<1>1. TxInv'
  BY TxStep DEF LockInv
<1>2. CASE UNCHANGED txVars \/ Lapse
  BY <1>1, <1>2, SameLocks DEF txVars, Lapse, LapseLease
<1>3. ASSUME NEW c \in Sessions,
             \/ Begin(c) \/ BeginSweep(c) \/ LockBook(c) \/ Find(c) \/ LockRow(c)
             \/ MissRow(c) \/ Aim(c) \/ Count(c) \/ Admit(c) \/ SweepRow(c)
             \/ Insert(c) \/ LockReservation(c)
      PROVE  LockInv'
  BY <1>3, BeginLocks, LockBookLocks, FindLocks, LockRowLocks, MissRowLocks, AimLocks,
     CountLocks, AdmitLocks, SweepRowLocks, InsertLocks, LockReservationLocks
<1>4. ASSUME NEW c \in Sessions, Commit(c) \/ CommitSweep(c) \/ Fail(c)
      PROVE  LockInv'
  <2>1. Kept(c)
    BY <1>4, CommitKept, CommitSweepKept, QuietKept DEF Fail
  <2>2. End(c)
    BY <1>4 DEF Commit, CommitSweep, Fail
  <2> QED BY <1>1, <2>1, <2>2, EndKeepsLocks
<1> QED BY <1>2, <1>3, <1>4 DEF TxNext

-----------------------------------------------------------------------------

\* What a call waits for, by the statement it has reached.
LEMMA WantedIs ==
  ASSUME TxInv, NEW c \in Sessions, NEW l \in Wanted(c)
  PROVE  \/ At(c, "book") /\ \E p \in Portfolios : l = BookLock(p)
         \/ \E r \in Requests :
              \/ /\ l = RowLock(r)
                 /\ \/ At(c, "row") /\ r = call[c].request /\ Known(r)
                    \/ At(c, "insert") /\ r = call[c].request /\ call[c].seen = NoRow /\ ~Swept(r)
                    \/ At(c, "sweep") /\ r = call[c].aim
              \/ /\ l = ReservationLock(r)
                 /\ \/ At(c, "reservation") /\ r = call[c].request
                    \/ At(c, "count") /\ r = call[c].aim
<1> DEFINE x == call[c]
<1>1. SessionsTyped /\ x \in CallType /\ CallFine(c)
  BY DEF TxInv, SessionsTyped
<1>2. x.op \in {"reserve", "transition", "sync", "close"} => x.request \in Requests
  BY <1>1 DEF CallFine, ReserveFine, TransitionFine, SyncFine, CloseFine
<1>3. x.op \in {"reserve", "sync", "close"} => x.portfolio \in Portfolios
  BY <1>1 DEF CallFine, ReserveFine, SyncFine, CloseFine
<1>4. \A s : At(c, s) => Place(s, x.op, x.step)
  BY <1>1, PlaceOf DEF SessionsTyped
<1>5. CASE At(c, "book")
  <2>1. l = BookLock(x.portfolio)
    BY <1>5 DEF Wanted, At
  <2> QED BY <1>3, <1>4, <1>5, <2>1 DEF Place
<1>6. CASE At(c, "row")
  <2>1. l = RowLock(x.request) /\ Known(x.request)
    BY <1>6 DEF Wanted, At
  <2> QED BY <1>2, <1>4, <1>6, <2>1 DEF Place
<1>7. CASE At(c, "insert")
  <2>1. l = RowLock(x.request) /\ x.seen = NoRow /\ ~Swept(x.request)
    BY <1>7 DEF Wanted, At
  <2> QED BY <1>2, <1>4, <1>7, <2>1 DEF Place
<1>8. CASE At(c, "reservation")
  <2>1. l = ReservationLock(x.request)
    BY <1>8 DEF Wanted, At
  <2> QED BY <1>2, <1>4, <1>8, <2>1 DEF Place
<1>9. CASE At(c, "count") /\ x.aim # NoRef
  <2>1. l = ReservationLock(x.aim) /\ x.aim \in Requests
    BY <1>1, <1>9 DEF Wanted, At, CallType, OrNull
  <2> QED BY <1>9, <2>1
<1>10. CASE At(c, "sweep") /\ x.aim # NoRef
  <2>1. l = RowLock(x.aim) /\ x.aim \in Requests
    BY <1>1, <1>10 DEF Wanted, At, CallType, OrNull
  <2> QED BY <1>10, <2>1
<1> QED BY <1>5, <1>6, <1>7, <1>8, <1>9, <1>10 DEF Wanted

\* In an entangled set every call holds a row or a reservation: who waits for a
\* book has no lock yet, and nobody waits for him.
LEMMA HoldsAndWaits ==
  ASSUME LockInv, NEW D \in SUBSET Sessions, Entangled(D), NEW c \in D
  PROVE  \E r \in Requests : lock[RowLock(r)] = c \/ lock[ReservationLock(r)] = c
<1>1. PICK h \in D : Waits(h, c)
  BY DEF Entangled
<1>2. PICK g \in D : Waits(g, h)
  BY DEF Entangled
<1>3. PICK l \in Wanted(h) : lock[l] = c
  BY <1>1 DEF Waits
<1>4. call \in [Sessions -> CallType] /\ Holds(h) /\ TxInv
  BY DEF LockInv, TxInv, SessionsTyped
<1>5. ~At(h, "book")
  <2> SUFFICES ASSUME At(h, "book") PROVE FALSE
    OBVIOUS
  <2>1. call[h].op \in {"reserve", "sync", "close"} /\ call[h].step = 1
    BY <1>4, PlaceOf DEF Place
  <2>2. \A k \in Locks : lock[k] # h
    BY <1>4, <2>1 DEF Holds, BookTaken, RowTaken, ReservationTaken, Locks
  <2>3. PICK k \in Wanted(g) : lock[k] = h
    BY <1>2 DEF Waits
  <2>4. k \in Locks
    BY <1>4, <2>3, WantedIs, LocksAre
  <2> QED BY <2>2, <2>3, <2>4
<1>6. \E r \in Requests : l = RowLock(r) \/ l = ReservationLock(r)
  BY <1>3, <1>4, <1>5, WantedIs
<1> QED BY <1>3, <1>6

\* The calls of an entangled set that are not sweeps, and what they wait for.
Stuck(c) ==
  \/ call[c].op = "reserve" /\ call[c].step \in {3, 4}
  \/ call[c].op = "transition" /\ call[c].step = 2
  \/ call[c].op = "sync" /\ call[c].step = 5
  \/ call[c].op = "close" /\ call[c].step = 4
  \/ call[c].op = "sweep"

LEMMA WhereStuck ==
  ASSUME LockInv, NEW D \in SUBSET Sessions, Entangled(D), NEW c \in D
  PROVE  Stuck(c)
<1> DEFINE x == call[c]
<1>1. /\ TxInv /\ SessionsTyped /\ x \in CallType /\ CallFine(c) /\ Holds(c)
      /\ call \in [Sessions -> CallType]
  BY DEF LockInv, TxInv, SessionsTyped
<1>2. PICK r \in Requests : lock[RowLock(r)] = c \/ lock[ReservationLock(r)] = c
  BY HoldsAndWaits
<1>3. RowTaken(x, r) \/ ReservationTaken(x, r)
  BY <1>1, <1>2 DEF Holds
<1>4. PICK h \in D : Waits(c, h)
  BY DEF Entangled
<1>5. PICK l \in Wanted(c) : lock[l] = h
  BY <1>4 DEF Waits
<1>6. PICK s \in {"book", "row", "insert", "sweep", "reservation", "count"} :
        At(c, s) /\ (s = "insert" => x.seen = NoRow)
  BY <1>1, <1>5, WantedIs
<1>7. Place(s, x.op, x.step)
  BY <1>1, <1>6, PlaceOf
<1>8. x.step \in Nat
  BY <1>1 DEF CallType
<1>9. CASE x.op = "sweep"
  BY <1>9 DEF Stuck
<1>10. CASE x.op # "sweep"
  BY <1>3, <1>6, <1>7, <1>8, <1>10 DEF Place, RowTaken, ReservationTaken, Stuck
<1> QED BY <1>9, <1>10

\* A reservation of an entangled set is locked by an admission of its portfolio:
\* the other calls commit once they have theirs.
LEMMA HolderCounts ==
  ASSUME LockInv, NEW D \in SUBSET Sessions, Entangled(D), NEW h \in D,
         NEW r \in Requests, lock[ReservationLock(r)] = h
  PROVE  /\ Counting(h) /\ Known(r) /\ ledger[r].portfolio = call[h].portfolio
         /\ call[h].step \in {3, 4}
<1>1. Holds(h) /\ Stuck(h)
  BY WhereStuck DEF LockInv
<1>2. Known(r) /\ ReservationTaken(call[h], r)
  BY <1>1 DEF Holds
<1> QED BY <1>1, <1>2 DEF Stuck, ReservationTaken, Counting

\* An admission that counts waits for nobody of the set: the book it has keeps
\* the other admissions from its portfolio's reservations.
LEMMA CountersGoOn ==
  ASSUME LockInv, NEW D \in SUBSET Sessions, Entangled(D), NEW c \in D,
         call[c].op = "reserve"
  PROVE  call[c].step = 4
<1> DEFINE x == call[c]
<1> SUFFICES ASSUME x.step = 3 PROVE FALSE
  BY WhereStuck DEF Stuck
<1>1. /\ TxInv /\ call \in [Sessions -> CallType] /\ Holds(c)
  BY DEF LockInv, TxInv, SessionsTyped
<1>2. PICK h \in D : Waits(c, h)
  BY DEF Entangled
<1>3. PICK l \in Wanted(c) : lock[l] = h
  BY <1>2 DEF Waits
<1>4. PICK r \in Requests : l = ReservationLock(r) /\ r = x.aim
  <2>1. \A s \in {"book", "row", "insert", "sweep", "reservation"} : ~At(c, s)
    BY <1>1, PlaceOf DEF Place
  <2> QED BY <1>1, <1>3, <2>1, WantedIs
<1>5. ledger[r].portfolio = x.portfolio
  BY <1>1, <1>4 DEF Holds, Counts
<1>6. /\ call[h].op = "reserve" /\ call[h].step \in {3, 4}
      /\ call[h].portfolio = x.portfolio
  BY <1>3, <1>4, <1>5, HolderCounts DEF Counting
<1>7. ReserveFine(c) /\ ReserveFine(h)
  BY <1>1, <1>6 DEF TxInv, CallFine
<1>8. lock[BookLock(x.portfolio)] = c /\ lock[BookLock(x.portfolio)] = h
  BY <1>6, <1>7 DEF ReserveFine
<1> QED BY <1>2, <1>8 DEF Waits

\* A call that waits for the reservation of its request follows an admission.
LEMMA ReleaserWaits ==
  ASSUME LockInv, NEW D \in SUBSET Sessions, Entangled(D), NEW c \in D,
         call[c].op \in {"transition", "sync", "close"}
  PROVE  \E h \in D : /\ Counting(h) /\ Known(call[c].request)
                      /\ ledger[call[c].request].portfolio = call[h].portfolio
<1> DEFINE x == call[c]
<1>1. TxInv /\ call \in [Sessions -> CallType] /\ Stuck(c)
  BY WhereStuck DEF LockInv, TxInv, SessionsTyped
<1>2. PICK h \in D : Waits(c, h)
  BY DEF Entangled
<1>3. PICK l \in Wanted(c) : lock[l] = h
  BY <1>2 DEF Waits
<1>4. PICK r \in Requests : l = ReservationLock(r) /\ r = x.request
  <2>1. \A s \in {"book", "row", "insert", "sweep", "count"} : ~At(c, s)
    BY <1>1, PlaceOf DEF Place, Stuck
  <2> QED BY <1>1, <1>3, <2>1, WantedIs
<1> QED BY <1>3, <1>4, HolderCounts

\* An admission that waits for a row follows the admission its holder waits for.
LEMMA InserterFollows ==
  ASSUME LockInv, NEW D \in SUBSET Sessions, Entangled(D), NEW c \in D,
         call[c].op = "reserve"
  PROVE  \E g \in D : Follows(c, g)
<1> DEFINE x == call[c]
<1>1. /\ TxInv /\ call \in [Sessions -> CallType] /\ x.step = 4
      /\ \A d \in Sessions : Holds(d)
  BY CountersGoOn DEF LockInv, TxInv, SessionsTyped
<1>2. PICK h \in D : Waits(c, h)
  BY DEF Entangled
<1>3. PICK l \in Wanted(c) : lock[l] = h
  BY <1>2 DEF Waits
<1>4. PICK r \in Requests : l = RowLock(r) /\ r = x.request /\ ~Swept(r)
  <2>1. \A s \in {"book", "row", "count", "sweep", "reservation"} : ~At(c, s)
    BY <1>1, PlaceOf DEF Place
  <2> QED BY <1>1, <1>3, <2>1, WantedIs
<1>5. call[h].op # "sweep"
  BY <1>3, <1>4 DEF Swept, Running
<1>6. RowTaken(call[h], r) /\ Stuck(h)
  BY <1>1, <1>3, <1>4, WhereStuck DEF Holds
<1>7. call[h].op \in {"transition", "sync", "close"} /\ call[h].request = r
  BY <1>5, <1>6 DEF RowTaken, Stuck
<1>8. PICK g \in D : /\ Counting(g) /\ Known(r)
                     /\ ledger[r].portfolio = call[g].portfolio
  BY <1>7, ReleaserWaits
<1> QED BY <1>1, <1>4, <1>8 DEF Follows, Counting

LEMMA OnlySweepsEntangled == LockInv => OnlySweepsDeadlock
<1> SUFFICES ASSUME LockInv, NEW D \in SUBSET Sessions, Entangled(D)
             PROVE  \A c \in D : call[c].op = "sweep"
  BY DEF OnlySweepsDeadlock, Running
<1> DEFINE R == {c \in D : call[c].op = "reserve"}
<1>1. R = {}
  <2> SUFFICES ASSUME R # {} PROVE FALSE
    OBVIOUS
  <2>1. PICK c \in R : \A h \in R : ~Follows(c, h)
    BY DEF LockInv, NoCircle
  <2>2. PICK g \in D : Follows(c, g)
    BY InserterFollows
  <2>3. g \in R
    BY <2>2 DEF Follows, Counting
  <2> QED BY <2>1, <2>2, <2>3
<1>2. \A c \in D : call[c].op \notin {"transition", "sync", "close"}
  BY <1>1, ReleaserWaits DEF Counting
<1> QED BY <1>1, <1>2, WhereStuck DEF Stuck

\* Whatever the portfolios, requests and sessions, calls that wait for each
\* other in a circle are lease sweeps: an admission, a transition, a snapshot
\* and a closure always have somebody in front of them who goes on.
THEOREM NoHandlerDeadlocks == TxSpec => []OnlySweepsDeadlock
<1>1. TxInit => LockInv
  BY LockInvInitially
<1>2. LockInv /\ [TxNext]_txVars => LockInv'
  BY LockStep
<1> QED BY <1>1, <1>2, OnlySweepsEntangled, PTL DEF TxSpec

=============================================================================
