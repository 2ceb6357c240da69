------------------------------- MODULE FoldProofs -------------------------------
(***************************************************************************)
(* What the other proofs need of folds and of rows in order.  A fold over  *)
(* a finite set or a sequence is chosen among the functions that meet its  *)
(* equation; here is that there is one, from the well-founded order of the *)
(* numbers, and that it goes through a sequence from left to right.        *)
(***************************************************************************)
EXTENDS SequencesExt, RowOrder, SequenceTheorems, FiniteSetTheorems, WellFoundedInduction, TLAPS

\* The least of some numbers is there.
LEMMA LeastIsThere ==
    ASSUME NEW S, S \subseteq Nat, S # {}
    PROVE  \E d \in S : \A e \in S : d <= e
<1>. DEFINE R == OpToRel(<, Nat)
<1>1. \E x \in S : \A y \in S : ~ (<<y, x>> \in R)
  BY NatLessThanWellFounded, WFMin
<1>2. \A x, y \in Nat : <<y, x>> \in R <=> y < x
  BY DEF OpToRel
<1> HIDE DEF R
<1>3. PICK x \in S : \A y \in S : ~ (<<y, x>> \in R)
  BY <1>1
<1>4. x \in Nat /\ \A y \in S : y \in Nat /\ ~ (y < x)
  BY <1>2, <1>3
<1>5. \A y \in S : x <= y
  BY <1>4
<1>. QED BY <1>5

\* What holds at the first step, and at each one whose predecessor it holds at, holds at all.
LEMMA StepByStep ==
    ASSUME NEW n \in Nat, NEW S, S \subseteq 0 .. n, 0 \in S, \A k \in 0 .. (n - 1) : k \in S => k + 1 \in S
    PROVE  S = 0 .. n
<1>. DEFINE Missing == (0 .. n) \ S
<1>. SUFFICES ASSUME Missing # {} PROVE FALSE
  OBVIOUS
<1>0. Missing \subseteq Nat
  OBVIOUS
<1>. HIDE DEF Missing
<1>1. PICK d \in Missing : \A e \in Missing : d <= e
  BY <1>0, LeastIsThere
<1>. USE DEF Missing
<1>2. d \in 1 .. n /\ d - 1 \in 0 .. (n - 1)
  BY <1>1
<1>3. d - 1 \in S
  BY <1>1, <1>2
<1>4. (d - 1) + 1 = d
  BY <1>2
<1>. QED BY <1>1, <1>2, <1>3, <1>4

\* The numbers from one to another are so many.
LEMMA UpTo == \A n \in Nat : IsFiniteSet(1 .. n) /\ Cardinality(1 .. n) = n
BY FS_Interval

\* Pick says which element of a set is taken last, and f what is folded of each set.
Picks(Pick, T) == \A t \in SUBSET T : t # {} => Pick[t] \in t
IsFoldOf(f, T, Acc, base, Op, Pick) ==
    /\ f \in [SUBSET T -> Acc]
    /\ \A t \in SUBSET T : f[t] = IF t = {} THEN base ELSE Op[<<f[t \ {Pick[t]}], Pick[t]>>]

\* There is such a fold over a finite set.
LEMMA FoldIsThere ==
    ASSUME NEW T, IsFiniteSet(T), NEW Acc, NEW base \in Acc, NEW Op \in [Acc \X T -> Acc],
           NEW Pick, Picks(Pick, T)
    PROVE  \E f : IsFoldOf(f, T, Acc, base, Op, Pick)
<1>. USE DEF Picks, IsFoldOf
<1>. DEFINE Small(n) == {t \in SUBSET T : Cardinality(t) <= n}
            Folds(f, n) == /\ f \in [Small(n) -> Acc]
                           /\ \A t \in Small(n) : f[t] = IF t = {} THEN base ELSE Op[<<f[t \ {Pick[t]}], Pick[t]>>]
            Done == {n \in 0 .. Cardinality(T) : \E f : Folds(f, n)}
<1>1. /\ Cardinality(T) \in Nat
      /\ \A t \in SUBSET T : IsFiniteSet(t) /\ Cardinality(t) \in Nat /\ Cardinality(t) <= Cardinality(T)
  BY FS_CardinalityType, FS_Subset
<1>2. 0 \in Done
  <2>1. Small(0) = {{}}
    BY <1>1, FS_EmptySet
  <2>. HIDE DEF Small
  <2>2. Folds([t \in {{}} |-> base], 0)
    BY <2>1
  <2>3. \E f : Folds(f, 0)
    BY <2>2
  <2>. QED BY <1>1, <2>3
<1>3. ASSUME NEW n \in 0 .. (Cardinality(T) - 1), n \in Done PROVE n + 1 \in Done
  <2>1. PICK f : Folds(f, n)
    BY <1>3
  <2>2. \A t \in Small(n + 1) : t # {} => t \ {Pick[t]} \in Small(n) /\ Pick[t] \in T
    BY <1>1, FS_RemoveElement
  <2>3. {} \in Small(n) /\ Small(n) \subseteq Small(n + 1)
    BY <1>1, FS_EmptySet
  <2>. DEFINE g == [t \in Small(n + 1) |-> IF t = {} THEN base ELSE Op[<<f[t \ {Pick[t]}], Pick[t]>>]]
  <2>. HIDE DEF Small
  <2>4. g \in [Small(n + 1) -> Acc]
    BY <2>1, <2>2
  <2>5. \A t \in Small(n) : g[t] = f[t]
    BY <2>1, <2>3
  <2>6. \A t \in Small(n + 1) : g[t] = IF t = {} THEN base ELSE Op[<<g[t \ {Pick[t]}], Pick[t]>>]
    BY <2>2, <2>5
  <2>7. Folds(g, n + 1)
    BY <2>4, <2>6
  <2>8. n + 1 \in 0 .. Cardinality(T)
    BY <1>1
  <2>. QED BY <2>7, <2>8
<1>4. Cardinality(T) \in Done
  <2>. HIDE DEF Done
  <2>1. Done \subseteq 0 .. Cardinality(T)
    BY DEF Done
  <2>2. Done = 0 .. Cardinality(T)
    BY <1>1, <1>2, <1>3, <2>1, StepByStep
  <2>. QED BY <1>1, <2>2
<1>5. Small(Cardinality(T)) = SUBSET T
  BY <1>1
<1>. QED BY <1>4, <1>5

\* The greatest of some numbers.
LEMMA GreatestIsThere ==
    ASSUME NEW n \in Nat, NEW t, t \subseteq 1 .. n, t # {}
    PROVE  Max(t) \in t /\ \A x \in t : x <= Max(t)
<1>. DEFINE Above == {m \in Nat : \A x \in t : x <= m}
<1>1. Above \subseteq Nat /\ n \in Above
  OBVIOUS
<1>2. PICK m \in Above : \A k \in Above : m <= k
  <2>. HIDE DEF Above
  <2>. QED BY <1>1, LeastIsThere
<1>. HIDE DEF Above
<1>3. m \in t
  <2>. SUFFICES ASSUME m \notin t PROVE FALSE
    OBVIOUS
  <2>1. m \in Nat /\ \A x \in t : x \in 1 .. n /\ x <= m /\ x # m
    BY <1>2 DEF Above
  <2>2. m # 0
    <3>1. PICK x \in t : TRUE
      OBVIOUS
    <3>. QED BY <2>1, <3>1
  <2>3. m - 1 \in Above
    BY <2>1, <2>2 DEF Above
  <2>. QED BY <1>2, <2>1, <2>3
<1>4. \E x \in t : \A y \in t : x >= y
  BY <1>2, <1>3 DEF Above
<1>5. Max(t) \in t /\ \A y \in t : Max(t) >= y
  BY <1>4 DEF Max
<1>. QED BY <1>5

\* What every step keeps, the whole fold has.
StepsKeep(f, T, Acc, Pick) ==
    f[{}] \in Acc /\ \A t \in SUBSET T : t # {} /\ f[t \ {Pick[t]}] \in Acc => f[t] \in Acc
LEMMA FoldFits ==
    ASSUME NEW T, IsFiniteSet(T), NEW Acc, NEW f, NEW Pick, Picks(Pick, T), StepsKeep(f, T, Acc, Pick)
    PROVE  f[T] \in Acc
<1>. DEFINE Bad == {t \in SUBSET T : f[t] \notin Acc}
            Counts == {Cardinality(t) : t \in Bad}
<1>1. SUFFICES ASSUME T \in Bad PROVE FALSE
  OBVIOUS
<1>2. \A t \in SUBSET T : IsFiniteSet(t) /\ Cardinality(t) \in Nat
  BY FS_Subset, FS_CardinalityType
<1>3. Counts \subseteq Nat /\ Counts # {}
  BY <1>1, <1>2
<1>4. PICK least \in Counts : \A c \in Counts : least <= c
  <2>. HIDE DEF Counts
  <2>. QED BY <1>3, LeastIsThere
<1>5. PICK t \in Bad : least = Cardinality(t)
  BY <1>4
<1>6. t \in SUBSET T /\ t # {} /\ f[t \ {Pick[t]}] \notin Acc
  BY <1>5 DEF StepsKeep
<1>7. Pick[t] \in t /\ t \ {Pick[t]} \in Bad
  BY <1>6 DEF Picks
<1>8. Cardinality(t \ {Pick[t]}) = Cardinality(t) - 1 /\ Cardinality(t \ {Pick[t]}) \in Counts
  <2>1. Cardinality(t \ {Pick[t]}) = Cardinality(t) - 1
    BY <1>2, <1>6, <1>7, FS_RemoveElement
  <2>. QED BY <1>7, <2>1
<1>. HIDE DEF Counts, Bad
<1>9. least <= least - 1 /\ least \in Nat
  BY <1>3, <1>4, <1>5, <1>8
<1>. QED BY <1>9

\* The fold that FoldLeft chooses is there.
IsLeftFold(f, n, Acc, base, Op) ==
    /\ f \in [SUBSET (1 .. n) -> Acc]
    /\ f = [t \in SUBSET (1 .. n) |-> IF t = {} THEN base ELSE Op[<<f[t \ {Max(t)}], Max(t)>>]]

LEMMA LeftFoldIsThere ==
    ASSUME NEW n \in Nat, NEW Acc, NEW base \in Acc, NEW Op \in [Acc \X (1 .. n) -> Acc]
    PROVE  \E f : IsLeftFold(f, n, Acc, base, Op)
<1>. DEFINE Pick == [t \in SUBSET (1 .. n) |-> Max(t)]
<1>1. Picks(Pick, 1 .. n)
  BY GreatestIsThere DEF Picks
<1>2. IsFiniteSet(1 .. n)
  BY FS_Interval
<1>. HIDE DEF Pick
<1>3. PICK f : IsFoldOf(f, 1 .. n, Acc, base, Op, Pick)
  BY <1>1, <1>2, FoldIsThere
<1>4. IsLeftFold(f, n, Acc, base, Op)
  BY <1>3 DEF Pick, IsFoldOf, IsLeftFold
<1>. QED BY <1>4

\* And it goes through the sequence from left to right.
Leftward(f, n, Acc, base, Op) ==
    /\ f[{}] = base
    /\ \A t \in SUBSET (1 .. n) : t # {} /\ f[t \ {Max(t)}] \in Acc =>
           f[t] = Op[<<f[t \ {Max(t)}], Max(t)>>]
Rightward(g, f, n, Acc, base, Op) ==
    /\ g \in [0 .. n -> Acc] /\ g[0] = base /\ g[n] = f[1 .. n]
    /\ \A k \in 0 .. (n - 1) : g[k + 1] = Op[<<g[k], k + 1>>]

LEMMA LeftToRight ==
    ASSUME NEW n \in Nat, NEW Acc, NEW base \in Acc, NEW Op \in [Acc \X (1 .. n) -> Acc], NEW f,
           Leftward(f, n, Acc, base, Op)
    PROVE  \E g : Rightward(g, f, n, Acc, base, Op)
<1>. USE DEF Leftward
<1>. DEFINE g == [k \in 0 .. n |-> f[1 .. k]]
            Good == {k \in 0 .. n : g[k] \in Acc}
<1>1. g[0] = base
  BY 1 .. 0 = {}
<1>2. ASSUME NEW k \in 0 .. (n - 1), g[k] \in Acc
      PROVE  g[k + 1] = Op[<<g[k], k + 1>>] /\ g[k + 1] \in Acc
  <2>1. k + 1 \in 1 .. n /\ k \in 0 .. n /\ 1 .. (k + 1) \in SUBSET (1 .. n) /\ 1 .. (k + 1) # {}
    OBVIOUS
  <2>2. Max(1 .. (k + 1)) = k + 1
    <3>1. /\ Max(1 .. (k + 1)) \in 1 .. (k + 1)
          /\ \A x \in 1 .. (k + 1) : x <= Max(1 .. (k + 1))
      BY <2>1, GreatestIsThere
    <3>. QED BY <2>1, <3>1
  <2>3. (1 .. (k + 1)) \ {k + 1} = 1 .. k
    OBVIOUS
  <2>4. g[k + 1] = f[1 .. (k + 1)] /\ g[k] = f[1 .. k]
    BY <2>1
  <2>5. f[1 .. (k + 1)] = Op[<<f[1 .. k], k + 1>>]
    BY <1>2, <2>1, <2>2, <2>3, <2>4
  <2>. QED BY <1>2, <2>1, <2>4, <2>5
<1>3. Good = 0 .. n
  <2>1. Good \subseteq 0 .. n /\ 0 \in Good
    BY <1>1
  <2>2. \A k \in 0 .. (n - 1) : k \in 0 .. n /\ k + 1 \in 0 .. n
    OBVIOUS
  <2>3. \A k \in 0 .. (n - 1) : k \in Good => k + 1 \in Good
    <3>. HIDE DEF g
    <3>. QED BY <1>2, <2>2
  <2>. HIDE DEF Good
  <2>. QED BY <2>1, <2>3, StepByStep
<1>4. g \in [0 .. n -> Acc]
  BY <1>3
<1>5. g[n] = f[1 .. n]
  OBVIOUS
<1>. HIDE DEF g
<1>6. \A k \in 0 .. (n - 1) : k \in Good
  BY <1>3
<1>7. Rightward(g, f, n, Acc, base, Op)
  BY <1>1, <1>2, <1>4, <1>5, <1>6 DEF Rightward
<1>. QED BY <1>7

(***************************************************************************)
(* Rows in another order.                                                  *)
(***************************************************************************)

\* ahead puts the places in a line.
Lines(ahead, S) ==
    /\ \A i \in S : <<i, i>> \notin ahead
    /\ \A i, j \in S : i # j => <<i, j>> \in ahead \/ <<j, i>> \in ahead
    /\ \A i, j, k \in S : <<i, j>> \in ahead /\ <<j, k>> \in ahead => <<i, k>> \in ahead
InLine(p, S, ahead) ==
    /\ p \in [1..Cardinality(S) -> S]
    /\ \A i \in S : \E n \in 1..Cardinality(S) : p[n] = i
    /\ \A m, n \in 1..Cardinality(S) : m < n => <<p[m], p[n]>> \in ahead

InLineAre(placed, rows, S, ahead) ==
    \E p : InLine(p, S, ahead) /\ placed = [n \in 1..Cardinality(S) |-> rows[p[n]]]

\* Then the rows are placed along that line, each place once.
LEMMA PlacedInLine ==
    ASSUME NEW rows, NEW S, IsFiniteSet(S), NEW ahead, Lines(ahead, S)
    PROVE  InLineAre(Placed(rows, S, ahead), rows, S, ahead)
<1>. USE DEF Lines
<1>. DEFINE c == Cardinality(S)
            Below(i) == {k \in S : <<k, i>> \in ahead}
            Count == [i \in S |-> Cardinality(Below(i)) + 1]
<1>0. c \in Nat
  BY FS_CardinalityType
<1>1. \A i \in S : IsFiniteSet(Below(i)) /\ Cardinality(Below(i)) \in Nat
  BY FS_Subset, FS_CardinalityType
<1>2. ASSUME NEW i \in S PROVE Count[i] \in 1 .. c
  <2>1. Below(i) \in SUBSET S /\ Below(i) # S
    OBVIOUS
  <2>2. Cardinality(Below(i)) <= c /\ Cardinality(Below(i)) # c
    BY <2>1, FS_Subset
  <2>. QED BY <1>0, <1>1, <2>2
<1>3. ASSUME NEW i \in S, NEW j \in S, <<i, j>> \in ahead PROVE Count[i] < Count[j]
  <2>1. Below(i) \in SUBSET Below(j) /\ i \in Below(j) /\ i \notin Below(i)
    BY <1>3
  <2>2. Cardinality(Below(i)) <= Cardinality(Below(j)) /\ Cardinality(Below(i)) # Cardinality(Below(j))
    BY <1>1, <2>1, FS_Subset
  <2>. QED BY <1>1, <2>2
<1>. HIDE DEF Count
<1>4. Count \in Injection(S, 1 .. c)
  <2>1. ASSUME NEW i \in S, NEW j \in S, i # j PROVE Count[i] # Count[j]
    <3>1. Count[i] \in 1 .. c /\ Count[j] \in 1 .. c
      BY <1>2
    <3>2. CASE <<i, j>> \in ahead
      <4>1. Count[i] < Count[j]
        BY <1>3, <3>2
      <4>. QED BY <3>1, <4>1
    <3>3. CASE <<j, i>> \in ahead
      <4>1. Count[j] < Count[i]
        BY <1>3, <3>3
      <4>. QED BY <3>1, <4>1
    <3>. QED BY <2>1, <3>2, <3>3
  <2>2. Count \in [S -> 1 .. c]
    BY <1>2 DEF Count
  <2>. QED BY <2>1, <2>2 DEF Injection, IsInjective
<1>5. Count \in Surjection(S, 1 .. c)
  BY <1>0, <1>4, FS_Injection, FS_Interval
<1>6. \A n \in 1 .. c : \E i \in S : Count[i] = n
  BY <1>5 DEF Surjection
<1>. DEFINE p == [n \in 1 .. c |-> CHOOSE i \in S : Cardinality({k \in S : <<k, i>> \in ahead}) = n - 1]
<1>7. \A n \in 1 .. c : p[n] \in S /\ Count[p[n]] = n
  <2>. SUFFICES ASSUME NEW n \in 1 .. c PROVE p[n] \in S /\ Count[p[n]] = n
    OBVIOUS
  <2>1. \E i \in S : Cardinality({k \in S : <<k, i>> \in ahead}) = n - 1
    <3>1. PICK i \in S : Count[i] = n
      BY <1>6
    <3>2. Cardinality(Below(i)) \in Nat /\ n = Cardinality(Below(i)) + 1
      BY <1>1, <3>1 DEF Count
    <3>3. Cardinality(Below(i)) = n - 1
      BY <3>2
    <3>. QED BY <3>3
  <2>2. p[n] \in S /\ Cardinality({k \in S : <<k, p[n]>> \in ahead}) = n - 1
    BY <2>1
  <2>. HIDE DEF p
  <2>3. Count[p[n]] = (n - 1) + 1
    BY <2>2 DEF Count
  <2>. QED BY <1>0, <2>2, <2>3
<1>8. Placed(rows, S, ahead) = [n \in 1..Cardinality(S) |-> rows[p[n]]]
  BY DEF Placed
<1>9. p \in [1 .. c -> S]
  BY <1>7
<1>. HIDE DEF p
<1>10. \A i \in S : Count[i] \in 1 .. c /\ p[Count[i]] = i
  BY <1>2, <1>7, <1>4 DEF Injection, IsInjective
<1>11. \A m, n \in 1 .. c : m < n => <<p[m], p[n]>> \in ahead
  <2>. SUFFICES ASSUME NEW m \in 1 .. c, NEW n \in 1 .. c, m < n PROVE <<p[m], p[n]>> \in ahead
    OBVIOUS
  <2>1. p[m] \in S /\ p[n] \in S /\ Count[p[m]] = m /\ Count[p[n]] = n
    BY <1>7
  <2>2. p[m] # p[n]
    BY <2>1
  <2>3. <<p[n], p[m]>> \notin ahead
    BY <1>3, <2>1
  <2>. QED BY <2>1, <2>2, <2>3
<1>12. InLine(p, S, ahead)
  BY <1>9, <1>10, <1>11 DEF InLine
<1>. QED BY <1>8, <1>12 DEF InLineAre

\* Some places of a sequence, in their order.
Picked(p, S) ==
    /\ p \in [1..Cardinality(S) -> S]
    /\ \A i \in S : \E n \in 1..Cardinality(S) : p[n] = i
    /\ \A m, n \in 1..Cardinality(S) : m < n => p[m] < p[n]

InOrderAre(taken, rows, S) == \E p : Picked(p, S) /\ taken = [k \in 1..Cardinality(S) |-> rows[p[k]]]

\* What is taken of the rows, by their places.
LEMMA TakenInOrder ==
    ASSUME NEW rows, NEW n \in Nat, NEW S, S \subseteq 1 .. n
    PROVE  /\ IsFiniteSet(S) /\ Cardinality(S) \in Nat /\ Cardinality(S) <= n
           /\ InOrderAre(Taken(rows, S), rows, S)
<1>1. IsFiniteSet(S) /\ Cardinality(S) \in Nat /\ Cardinality(S) <= n
  <2>1. IsFiniteSet(1 .. n) /\ Cardinality(1 .. n) = n
    BY FS_Interval
  <2>2. IsFiniteSet(S) /\ Cardinality(S) <= n
    BY <2>1, FS_Subset
  <2>. QED BY <2>2, FS_CardinalityType
<1>. DEFINE ahead == InPlaceOrder(S)
<1>2. \A i, j \in S : <<i, j>> \in ahead <=> i < j
  BY DEF InPlaceOrder
<1>. HIDE DEF ahead
<1>3. \A i \in S : i \in Nat
  OBVIOUS
<1>4. Lines(ahead, S)
  BY <1>2, <1>3 DEF Lines
<1>5. PICK p : InLine(p, S, ahead) /\ Placed(rows, S, ahead) = [k \in 1..Cardinality(S) |-> rows[p[k]]]
  <2>1. InLineAre(Placed(rows, S, ahead), rows, S, ahead)
    BY <1>1, <1>4, PlacedInLine
  <2>. QED BY <2>1 DEF InLineAre
<1>6. Picked(p, S)
  BY <1>2, <1>5 DEF InLine, Picked
<1>7. Taken(rows, S) = Placed(rows, S, ahead)
  BY DEF Taken, ahead
<1>8. InOrderAre(Taken(rows, S), rows, S)
  BY <1>5, <1>6, <1>7 DEF InOrderAre
<1>. QED BY <1>1, <1>8

\* before says which place goes first, as comparing keys does.
Keyed(before, S) ==
    /\ \A i, j, k \in S : <<i, j>> \in before /\ <<j, k>> \in before => <<i, k>> \in before
    /\ \A i, j, k \in S : <<i, k>> \in before => <<i, j>> \in before \/ <<j, k>> \in before
    /\ \A i \in S : <<i, i>> \notin before
Shuffled(p, n, before) ==
    /\ p \in [1..n -> 1..n]
    /\ \A i \in 1..n : \E k \in 1..n : p[k] = i
    /\ \A k, m \in 1..n : k < m => <<p[m], p[k]>> \notin before

SortedAre(sorted, rows, n, before) ==
    \E p : Shuffled(p, n, before) /\ sorted = [k \in 1 .. n |-> rows[p[k]]]

\* A sort puts each row somewhere, and none behind one that goes after it.
LEMMA SortedInOrder ==
    ASSUME NEW n \in Nat, NEW rows, DOMAIN rows = 1 .. n, NEW before, Keyed(before, 1 .. n)
    PROVE  SortedAre(Sorted(rows, before), rows, n, before)
<1>. DEFINE S == 1 .. n
            ahead == before \cup {q \in InPlaceOrder(S) : <<q[2], q[1]>> \notin before}
<1>1. IsFiniteSet(S) /\ Cardinality(S) = n
  BY FS_Interval
<1>2. \A i, j \in S : <<i, j>> \in ahead <=> <<i, j>> \in before \/ (i < j /\ <<j, i>> \notin before)
  BY DEF InPlaceOrder
<1>3. \A i \in S : i \in Nat
  OBVIOUS
<1>4. Sorted(rows, before) = Placed(rows, S, ahead)
  BY DEF Sorted
<1>. HIDE DEF S, ahead
<1>5. Lines(ahead, S)
  <2>0. Keyed(before, S)
    BY DEF S
  <2>1. \A i \in S : <<i, i>> \notin ahead
    <3>. SUFFICES ASSUME NEW i \in S PROVE <<i, i>> \notin ahead
      OBVIOUS
    <3>1. i \in Nat /\ <<i, i>> \notin before
      BY <1>3, <2>0 DEF Keyed
    <3>. QED BY <1>2, <3>1
  <2>2. ASSUME NEW i \in S, NEW j \in S, i # j PROVE <<i, j>> \in ahead \/ <<j, i>> \in ahead
    <3>1. i \in Nat /\ j \in Nat
      BY <1>3
    <3>2. i < j \/ j < i
      BY <2>2, <3>1
    <3>. QED BY <1>2, <3>2
  <2>3. ASSUME NEW i \in S, NEW j \in S, NEW k \in S, <<i, j>> \in ahead, <<j, k>> \in ahead
        PROVE  <<i, k>> \in ahead
    <3>1. Keyed(before, S)
      BY DEF S
    <3>2. CASE <<i, j>> \in before /\ <<j, k>> \in before
      BY <1>2, <3>1, <3>2 DEF Keyed
    <3>3. CASE <<i, j>> \in before /\ <<j, k>> \notin before
      <4>1. <<k, j>> \notin before
        BY <1>2, <2>3, <3>3
      <4>. QED BY <1>2, <3>1, <3>3, <4>1 DEF Keyed
    <3>4. CASE <<i, j>> \notin before /\ <<j, k>> \in before
      <4>1. <<j, i>> \notin before
        BY <1>2, <2>3, <3>4
      <4>. QED BY <1>2, <3>1, <3>4, <4>1 DEF Keyed
    <3>5. CASE <<i, j>> \notin before /\ <<j, k>> \notin before
      <4>1. i < j /\ j < k /\ <<j, i>> \notin before /\ <<k, j>> \notin before
        BY <1>2, <2>3, <3>5
      <4>2. <<k, i>> \notin before
        BY <3>1, <4>1 DEF Keyed
      <4>3. i < k
        BY <1>3, <4>1
      <4>. QED BY <1>2, <4>2, <4>3
    <3>. QED BY <3>2, <3>3, <3>4, <3>5
  <2>. QED BY <2>1, <2>2, <2>3 DEF Lines
<1>6. PICK p : InLine(p, S, ahead) /\ Placed(rows, S, ahead) = [k \in 1..Cardinality(S) |-> rows[p[k]]]
  <2>1. InLineAre(Placed(rows, S, ahead), rows, S, ahead)
    BY <1>1, <1>5, PlacedInLine
  <2>. QED BY <2>1 DEF InLineAre
<1>7. Shuffled(p, n, before)
  <2>1. \A k, m \in 1..n : k < m => <<p[k], p[m]>> \in ahead
    BY <1>1, <1>6 DEF InLine
  <2>2. \A k \in 1..n : p[k] \in S
    BY <1>1, <1>6 DEF InLine
  <2>3. \A i, j \in S : <<i, j>> \in ahead => <<j, i>> \notin before
    BY <1>2 DEF Keyed, S
  <2>. QED BY <1>1, <1>6, <2>1, <2>2, <2>3 DEF InLine, Shuffled, S
<1>. QED BY <1>1, <1>4, <1>6, <1>7 DEF SortedAre

\* The same for a sequence: which row each taken one is.
TakenBy(p, taken, rows, S) ==
    /\ p \in [DOMAIN taken -> S]
    /\ \A i \in S : \E k \in DOMAIN taken : p[k] = i
    /\ \A k, m \in DOMAIN taken : k < m => p[k] < p[m]
    /\ \A k \in DOMAIN taken : taken[k] = rows[p[k]]
TakenFrom(taken, rows, S) == \E p : TakenBy(p, taken, rows, S)

LEMMA TakenFits ==
    ASSUME NEW T, NEW rows \in Seq(T), NEW S, S \subseteq DOMAIN rows
    PROVE  /\ Taken(rows, S) \in Seq(T) /\ Len(Taken(rows, S)) = Cardinality(S)
           /\ Len(Taken(rows, S)) <= Len(rows)
           /\ TakenFrom(Taken(rows, S), rows, S)
<1>1. Len(rows) \in Nat /\ DOMAIN rows = 1 .. Len(rows) /\ S \subseteq 1 .. Len(rows)
  OBVIOUS
<1>2. /\ IsFiniteSet(S) /\ Cardinality(S) \in Nat /\ Cardinality(S) <= Len(rows)
      /\ InOrderAre(Taken(rows, S), rows, S)
  BY <1>1, TakenInOrder
<1>3. PICK p : Picked(p, S) /\ Taken(rows, S) = [k \in 1..Cardinality(S) |-> rows[p[k]]]
  BY <1>2 DEF InOrderAre
<1>. DEFINE taken == Taken(rows, S)
<1>4. \A k \in 1..Cardinality(S) : p[k] \in S /\ rows[p[k]] \in T
  BY <1>1, <1>3 DEF Picked
<1>5. taken \in [1..Cardinality(S) -> T]
  BY <1>3, <1>4
<1>6. taken \in Seq(T) /\ Len(taken) = Cardinality(S) /\ DOMAIN taken = 1..Cardinality(S)
  <2>. HIDE DEF taken
  <2>1. taken \in Seq(T)
    BY <1>2, <1>5, IsASeq
  <2>2. DOMAIN taken = 1..Cardinality(S)
    BY <1>5
  <2>. QED BY <1>2, <2>1, <2>2, LenProperties
<1>7. TakenBy(p, taken, rows, S)
  <2>1. \A k \in DOMAIN taken : taken[k] = rows[p[k]]
    BY <1>3, <1>6
  <2>. QED BY <1>3, <1>6, <2>1 DEF Picked, TakenBy
<1>8. TakenFrom(taken, rows, S)
  BY <1>7 DEF TakenFrom
<1>. QED BY <1>2, <1>6, <1>8

\* The elements of a finite set, one after the other.
LEMMA SetInLine ==
    ASSUME NEW S, IsFiniteSet(S)
    PROVE  /\ SetToSeq(S) \in Seq(S) /\ Len(SetToSeq(S)) = Cardinality(S) /\ IsInjective(SetToSeq(S))
           /\ \A x \in S : \E i \in DOMAIN SetToSeq(S) : SetToSeq(S)[i] = x
<1>. DEFINE n == Cardinality(S)
            Is(f) == f \in [1..n -> S] /\ IsInjective(f)
<1>1. n \in Nat /\ \E f : Is(f)
  BY FS_CardinalityType DEF ExistsBijection, Bijection, Injection
<1>. PICK s : s = SetToSeq(S)
  OBVIOUS
<1>2. s = CHOOSE f \in [1..n -> S] : IsInjective(f)
  BY DEF SetToSeq
<1>3. Is(s)
  BY <1>1, <1>2
<1>4. s \in Injection(1..n, S) /\ Cardinality(1..n) = n /\ n \in Nat
  BY <1>1, <1>3, UpTo DEF Injection
<1>. HIDE DEF n
<1>5. s \in Surjection(1..n, S)
  <2>1. Cardinality(1..n) = Cardinality(S)
    BY <1>4 DEF n
  <2>. QED BY <1>4, <2>1, FS_Injection
<1>6. s \in Seq(S) /\ Len(s) = n /\ DOMAIN s = 1..n
  <2>1. s \in Seq(S)
    BY <1>1, <1>3, IsASeq
  <2>. QED BY <1>1, <1>3, <2>1, LenProperties
<1>7. \A x \in S : \E i \in 1..n : s[i] = x
  BY <1>5 DEF Surjection
<1>. QED BY <1>3, <1>6, <1>7 DEF n

\* One sequence behind another.
LEMMA OneBehind ==
    ASSUME NEW T, NEW front \in Seq(T), NEW back \in Seq(T), NEW m \in Nat, NEW n \in Nat, Len(front) = m, Len(back) = n
    PROVE  /\ front \o back \in Seq(T) /\ DOMAIN (front \o back) = 1..(m + n) /\ Len(front \o back) = m + n
           /\ \A i \in 1..m : (front \o back)[i] = front[i]
           /\ \A i \in 1..(m + n) : i > m => (front \o back)[i] = back[i - m] /\ i - m \in 1..n
<1>1. front \o back \in Seq(T) /\ Len(front \o back) = m + n
  OBVIOUS
<1>2. DOMAIN (front \o back) = 1..(m + n)
  BY <1>1
<1>3. \A i \in 1..m : (front \o back)[i] = front[i]
  OBVIOUS
<1>4. ASSUME NEW i \in 1..(m + n), i > m PROVE (front \o back)[i] = back[i - m] /\ i - m \in 1..n
  BY <1>4
<1>. QED BY <1>1, <1>2, <1>3, <1>4
================================================================================
