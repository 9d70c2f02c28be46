---------------------------- MODULE SumProofs -----------------------------
(***************************************************************************)
(* Integer division, the quadratic of the constant product, sums of what   *)
(* holders hold, for any set of holders and any ledger with finitely many  *)
(* units, and sums of a function's values over any finite set.             *)
(***************************************************************************)
EXTENDS CPMMMath, HolderSums, Functions, FiniteSetTheorems, TLAPS

(* Arithmetic *)

\* Solidity's integer division by a positive number is the floor.
LEMMA DivFloor ==
    ASSUME NEW x \in Int, NEW d \in Nat, d > 0
    PROVE  /\ x \div d \in Int
           /\ d * (x \div d) <= x
           /\ x < d * (x \div d) + d
           /\ x >= 0 => x \div d >= 0
OBVIOUS

LEMMA ProductNat ==
    ASSUME NEW a \in Nat, NEW b \in Nat
    PROVE  a * b \in Nat
OBVIOUS

LEMMA ProductMonotone ==
    ASSUME NEW a \in Nat, NEW b \in Nat, NEW c \in Nat, a <= b
    PROVE  a * c <= b * c
OBVIOUS

\* Two floors add up to at most the floor of the sum.
LEMMA DivSuperadditive ==
    ASSUME NEW a \in Int, NEW b \in Int, NEW d \in Nat, d > 0
    PROVE  (a \div d) + (b \div d) <= (a + b) \div d
<1>1. d * ((a \div d) + (b \div d)) < d * ((a + b) \div d) + d
    BY DivFloor
<1>2. QED
    BY <1>1, DivFloor

---------------------------------------------------------------------------
(* The quadratic of a sell: x keeps the product of the reserves own and    *)
(* counter, when s shares are sold, exactly if b - 2x is at least the root *)
(* of the discriminant d.                                                  *)

\* A square grows with its root.
LEMMA SquareMonotone ==
    ASSUME NEW a \in Nat, NEW b \in Nat, a <= b
    PROVE  a * a <= b * b
<1>1. a * a <= b * a
    BY ProductMonotone
<1>2. a * b <= b * b
    BY ProductMonotone
<1>3. QED
    BY <1>1, <1>2

\* The mean of two numbers is at least the root of their product.
LEMMA MeanSquare ==
    ASSUME NEW a \in Int, NEW b \in Int
    PROVE  4 * (a * b) <= (a + b) * (a + b)
<1> DEFINE d == a - b
<1>1. d * d >= 0
    OBVIOUS
<1>2. (a + b) * (a + b) = 4 * (a * b) + d * d
    OBVIOUS
<1>3. QED
    BY <1>1, <1>2

\* Selling shares never asks for the root of a negative number.
LEMMA DiscriminantNat ==
    ASSUME NEW own \in Nat, NEW counter \in Nat, NEW s \in Nat,
           NEW b, b = own + counter + s,
           NEW d, d = b * b - 4 * s * counter
    PROVE  b \in Nat /\ d \in Nat /\ d <= b * b
<1>1. s * counter \in Nat /\ b * b \in Nat /\ b \in Nat
    BY ProductNat
<1>2. 4 * (s * counter) <= (s + counter) * (s + counter)
    BY MeanSquare
<1>3. (s + counter) * (s + counter) <= b * b
    BY SquareMonotone
<1>4. (s + counter) * (s + counter) \in Nat
    BY ProductNat
<1>5. d = b * b - 4 * (s * counter)
    OBVIOUS
<1>6. QED
    BY <1>1, <1>2, <1>3, <1>4, <1>5

LEMMA SlackSquared ==
    ASSUME NEW own \in Nat, NEW counter \in Nat, NEW s \in Nat,
           NEW b, b = own + counter + s,
           NEW d, d = b * b - 4 * s * counter,
           NEW x \in Payable(counter, s)
    PROVE  /\ x \in Nat
           /\ b - 2 * x \in Nat
           /\ KeepsProduct(own, counter, s, x)
                  <=> (b - 2 * x) * (b - 2 * x) >= d
<1> DEFINE k == (own + s - x) * (counter - x) - own * counter
<1>1. x \in Nat /\ x <= s /\ x <= counter
    BY DEF Payable
<1>2. b - 2 * x \in Nat
    BY <1>1
<1>3. (b - 2 * x) * (b - 2 * x) = d + 4 * k
    BY <1>1
<1>4. KeepsProduct(own, counter, s, x) <=> k >= 0
    BY <1>1 DEF KeepsProduct
<1>5. k \in Int /\ d \in Int
    BY <1>1
<1>6. QED
    <2> HIDE DEF k
    <2> QED  BY <1>1, <1>2, <1>3, <1>4, <1>5

\* One more than the floor of the root is enough,
LEMMA SlackSuffices ==
    ASSUME NEW own \in Nat, NEW counter \in Nat, NEW s \in Nat,
           NEW b, b = own + counter + s,
           NEW d, d = b * b - 4 * s * counter,
           NEW x \in Payable(counter, s),
           NEW r \in Nat, d < (r + 1) * (r + 1), b - 2 * x >= r + 1
    PROVE  KeepsProduct(own, counter, s, x)
<1> DEFINE slack == b - 2 * x
<1>1. slack \in Nat /\ d \in Nat
    <2>1. slack \in Nat
        BY SlackSquared
    <2>2. d \in Nat
        BY DiscriminantNat
    <2>3. QED
        BY <2>1, <2>2
<1>2. KeepsProduct(own, counter, s, x) <=> slack * slack >= d
    BY SlackSquared
<1>3. (r + 1) * (r + 1) \in Nat /\ slack * slack \in Nat
    BY <1>1, ProductNat
<1> HIDE DEF slack
<1>4. (r + 1) * (r + 1) <= slack * slack
    BY <1>1, SquareMonotone DEF slack
<1>5. slack * slack >= d
    <2> DEFINE square == slack * slack
               above == (r + 1) * (r + 1)
    <2>1. square \in Nat /\ above \in Nat /\ above <= square /\ d < above
        BY <1>3, <1>4
    <2> HIDE DEF square, above
    <2>2. square >= d
        BY <1>1, <2>1
    <2>3. QED
        BY <2>2 DEF square
<1>6. QED
    BY <1>2, <1>5, Zenon

\* and the floor is necessary: half of b less the root bounds every payout.
LEMMA RootBoundsPayout ==
    ASSUME NEW own \in Nat, NEW counter \in Nat, NEW s \in Nat,
           NEW b, b = own + counter + s,
           NEW d, d = b * b - 4 * s * counter,
           NEW x \in Payable(counter, s), KeepsProduct(own, counter, s, x),
           NEW r \in Nat, r * r <= d
    PROVE  b - 2 * x >= r /\ x <= (b - r) \div 2
<1> DEFINE slack == b - 2 * x
<1>1. slack \in Nat /\ d \in Nat /\ slack * slack >= d /\ x \in Nat
    <2>1. slack \in Nat /\ x \in Nat
        BY SlackSquared
    <2>2. d \in Nat
        BY DiscriminantNat
    <2>3. KeepsProduct(own, counter, s, x) <=> slack * slack >= d
        BY SlackSquared
    <2>4. QED
        BY <2>1, <2>2, <2>3
<1> HIDE DEF slack
<1>2. slack * slack < (slack + 1) * (slack + 1)
    BY <1>1
<1>3. slack >= r
    <2>1. SUFFICES ASSUME slack < r PROVE FALSE
        BY <1>1
    <2>2. (slack + 1) * (slack + 1) <= r * r
        BY <1>1, <2>1, SquareMonotone
    <2>3. r * r \in Nat /\ slack * slack \in Nat
          /\ (slack + 1) * (slack + 1) \in Nat
        BY <1>1, ProductNat
    <2>4. QED
        BY <1>1, <1>2, <2>2, <2>3
<1>4. 2 * x <= b - r
    BY <1>1, <1>3 DEF slack
<1>5. QED
    BY <1>1, <1>3, <1>4 DEF slack

\* The root is at most b, so that the formula asks for a payout.
LEMMA RootWithinB ==
    ASSUME NEW own \in Nat, NEW counter \in Nat, NEW s \in Nat,
           NEW b, b = own + counter + s,
           NEW d, d = b * b - 4 * s * counter,
           NEW r \in Nat, r * r <= d
    PROVE  r <= b
<1>1. b \in Nat /\ d \in Nat /\ d <= b * b
    BY DiscriminantNat
<1>2. SUFFICES ASSUME b < r PROVE FALSE
    BY <1>1
<1>3. (b + 1) * (b + 1) <= r * r
    BY <1>1, <1>2, SquareMonotone
<1>4. b * b < (b + 1) * (b + 1)
    BY <1>1
<1>5. b * b \in Nat /\ (b + 1) * (b + 1) \in Nat /\ r * r \in Nat
    BY <1>1, ProductNat
<1>6. QED
    BY <1>1, <1>3, <1>4, <1>5

\* Paying nothing always keeps the product.
LEMMA NothingKeepsProduct ==
    ASSUME NEW own \in Nat, NEW counter \in Nat, NEW s \in Nat
    PROVE  /\ 0 \in Payable(counter, s)
           /\ KeepsProduct(own, counter, s, 0)
<1>1. own * counter <= (own + s) * counter
    BY ProductMonotone
<1>2. QED
    BY <1>1 DEF Payable, KeepsProduct

---------------------------------------------------------------------------
(* Sums over the holders of a ledger *)

\* The units of one holder: n of them.
LEMMA ColumnCardinality ==
    ASSUME NEW u, NEW n \in Nat
    PROVE  /\ IsFiniteSet({u} \X (1..n))
           /\ Cardinality({u} \X (1..n)) = n
<1>1. IsFiniteSet(1..n) /\ Cardinality(1..n) = n
    BY FS_Interval
<1>2. IsFiniteSet({u}) /\ Cardinality({u}) = 1
    BY FS_Singleton
<1>3. QED
    BY <1>1, <1>2, FS_Product

LEMMA DisjointUnion ==
    ASSUME NEW S, NEW T, IsFiniteSet(S), IsFiniteSet(T), S \cap T = {}
    PROVE  /\ IsFiniteSet(S \cup T)
           /\ Cardinality(S \cup T) = Cardinality(S) + Cardinality(T)
<1>1. Cardinality(S) \in Nat /\ Cardinality(T) \in Nat
    BY FS_CardinalityType
<1>2. Cardinality(S \cap T) = 0
    BY FS_EmptySet
<1>3. Cardinality(S \cup T) =
          Cardinality(S) + Cardinality(T) - Cardinality(S \cap T)
    BY FS_Union
<1>4. QED
    BY <1>1, <1>2, <1>3, FS_Union

\* Changing what one holder has changes the sum by the difference, and no
\* holder has more than the sum.
LEMMA SumUpdate ==
    ASSUME NEW Holders, NEW f \in [Holders -> Nat], NEW u \in Holders, NEW n \in Nat,
           IsFiniteSet(UnitsOf(f))
    PROVE  /\ IsFiniteSet(UnitsOf([f EXCEPT ![u] = n]))
           /\ SumOver([f EXCEPT ![u] = n]) = SumOver(f) - f[u] + n
           /\ SumOver(f) \in Nat
           /\ f[u] <= SumOver(f)
<1> DEFINE g == [f EXCEPT ![u] = n]
           old == {u} \X (1..f[u])
           new == {u} \X (1..n)
           rest == UnitsOf(f) \ old
<1>1. /\ UnitsOf(f) = rest \cup old
      /\ UnitsOf(g) = rest \cup new
      /\ rest \cap old = {}
      /\ rest \cap new = {}
    BY DEF UnitsOf
<1>2. IsFiniteSet(rest)
    BY FS_Difference
<1>3. /\ IsFiniteSet(old) /\ Cardinality(old) = f[u]
      /\ IsFiniteSet(new) /\ Cardinality(new) = n
    BY ColumnCardinality
<1>4. Cardinality(rest) \in Nat
    BY <1>2, FS_CardinalityType
<1>5. Cardinality(UnitsOf(f)) = Cardinality(rest) + f[u]
    <2> HIDE DEF old, new, rest
    <2>1. QED
        BY <1>1, <1>2, <1>3, DisjointUnion
<1>6. /\ IsFiniteSet(UnitsOf(g))
      /\ Cardinality(UnitsOf(g)) = Cardinality(rest) + n
    <2> HIDE DEF old, new, rest, g
    <2>1. QED
        BY <1>1, <1>2, <1>3, DisjointUnion
<1>7. QED
    BY <1>4, <1>5, <1>6 DEF SumOver

LEMMA SumBound ==
    ASSUME NEW Holders, NEW f \in [Holders -> Nat], NEW u \in Holders, IsFiniteSet(UnitsOf(f))
    PROVE  /\ SumOver(f) \in Nat
           /\ f[u] <= SumOver(f)
<1>1. \A n \in Nat : SumOver(f) \in Nat /\ f[u] <= SumOver(f)
    BY SumUpdate
<1>2. QED
    BY <1>1

LEMMA SumZero ==
    ASSUME NEW Holders
    PROVE  /\ IsFiniteSet(UnitsOf([u \in Holders |-> 0]))
           /\ SumOver([u \in Holders |-> 0]) = 0
<1>1. UnitsOf([u \in Holders |-> 0]) = {}
    BY DEF UnitsOf
<1>2. QED
    BY <1>1, FS_EmptySet DEF SumOver

\* An index and a remainder of at least one and at most d are determined by
\* the number they stand for.
LEMMA BlockUnique ==
    ASSUME NEW d \in Nat, d > 0,
           NEW i \in Nat, NEW k \in Nat, NEW j \in 1..d, NEW l \in 1..d,
           d * i + j = d * k + l
    PROVE  i = k /\ j = l
<1>1. ~(i < k)
    <2> SUFFICES ASSUME i < k PROVE FALSE
        OBVIOUS
    <2>1. (i + 1) * d <= k * d
        BY ProductMonotone
    <2>2. QED
        BY <2>1
<1>2. ~(k < i)
    <2> SUFFICES ASSUME k < i PROVE FALSE
        OBVIOUS
    <2>1. (k + 1) * d <= i * d
        BY ProductMonotone
    <2>2. QED
        BY <2>1
<1>3. i = k
    BY <1>1, <1>2
<1>4. QED
    BY <1>3

\* A block that starts below another's last index ends within n.
LEMMA BlockFits ==
    ASSUME NEW d \in Nat, d > 0, NEW n \in Nat,
           NEW i \in 1..(n \div d), NEW j \in 1..d
    PROVE  d * (i - 1) + j \in 1..n
<1>1. n \div d \in Nat /\ d * (n \div d) <= n
    BY DivFloor
<1>2. i * d <= (n \div d) * d
    BY <1>1, ProductMonotone
<1>3. d * (i - 1) \in Nat
    BY ProductNat
<1>4. d * (i - 1) + d = i * d
    OBVIOUS
<1>5. QED
    BY <1>1, <1>2, <1>3, <1>4

\* Rounding each holder's holding down loses at least what rounding the sum
\* down loses: every whole unit of the first is d units of f.
LEMMA SumOfFloors ==
    ASSUME NEW Holders, NEW f \in [Holders -> Nat], NEW d \in Nat, d > 0,
           IsFiniteSet(UnitsOf(f))
    PROVE  /\ SumOver([u \in Holders |-> f[u] \div d]) \in Nat
           /\ SumOver([u \in Holders |-> f[u] \div d]) <= SumOver(f) \div d
<1> DEFINE h == [u \in Holders |-> f[u] \div d]
           whole == UnitsOf(h)
           unit == UnitsOf(f)
           place == [p \in whole \X (1..d) |-> <<p[1][1], d * (p[1][2] - 1) + p[2]>>]
<1>1. \A u \in Holders : f[u] \in Nat /\ h[u] \in Nat /\ h[u] <= f[u]
    BY DivFloor
<1>2. \A p \in whole : /\ p[1] \in Holders
                       /\ p[2] \in 1..(f[p[1]] \div d)
                       /\ p = <<p[1], p[2]>>
    BY DEF UnitsOf
<1>3. whole \subseteq unit
    BY <1>1 DEF UnitsOf
<1>4. IsFiniteSet(whole)
    BY <1>3, FS_Subset
<1>5. \A p \in whole, j \in 1..d : <<p[1], d * (p[2] - 1) + j>> \in unit
    <2> SUFFICES ASSUME NEW p \in whole, NEW j \in 1..d
                 PROVE  <<p[1], d * (p[2] - 1) + j>> \in unit
        OBVIOUS
    <2>1. d * (p[2] - 1) + j \in 1..f[p[1]]
        BY <1>1, <1>2, BlockFits
    <2>2. QED
        BY <1>2, <2>1 DEF UnitsOf
<1>6. \A p, q \in whole, j, l \in 1..d :
          /\ p[1] = q[1]
          /\ d * (p[2] - 1) + j = d * (q[2] - 1) + l
          => p = q /\ j = l
    <2> SUFFICES ASSUME NEW p \in whole, NEW q \in whole,
                        NEW j \in 1..d, NEW l \in 1..d,
                        p[1] = q[1],
                        d * (p[2] - 1) + j = d * (q[2] - 1) + l
                 PROVE  p = q /\ j = l
        OBVIOUS
    <2>1. p[2] - 1 \in Nat /\ q[2] - 1 \in Nat
        BY <1>1, <1>2
    <2>2. p[2] - 1 = q[2] - 1 /\ j = l
        <3> DEFINE i == p[2] - 1
                   k == q[2] - 1
        <3>1. i \in Nat /\ k \in Nat /\ d * i + j = d * k + l
            BY <2>1
        <3> HIDE DEF i, k
        <3>2. i = k /\ j = l
            BY <3>1, BlockUnique
        <3>3. QED
            BY <3>2 DEF i, k
    <2>3. QED
        BY <1>1, <1>2, <2>2
<1>7. place \in Injection(whole \X (1..d), unit)
    <2> HIDE DEF whole, unit
    <2>1. place \in [whole \X (1..d) -> unit]
        BY <1>5
    <2>2. \A a, b \in whole \X (1..d) : place[a] = place[b] => a = b
        BY <1>6
    <2>3. QED
        BY <2>1, <2>2 DEF Injection, IsInjective
<1>8. IsFiniteSet(1..d) /\ Cardinality(1..d) = d
    BY FS_Interval
<1>9. Cardinality(whole \X (1..d)) = Cardinality(whole) * d
    BY <1>4, <1>8, FS_Product
<1>10. Cardinality(whole) * d <= Cardinality(unit)
    <2> HIDE DEF whole, unit, place
    <2>1. QED
        BY <1>7, <1>9, FS_Injection DEF unit
<1>11. Cardinality(whole) \in Nat /\ Cardinality(unit) \in Nat
    BY <1>4, FS_CardinalityType
<1>12. Cardinality(whole) <= Cardinality(unit) \div d
    <2> HIDE DEF whole, unit
    <2>1. Cardinality(unit) < d * (Cardinality(unit) \div d) + d
        BY <1>11, DivFloor
    <2>2. Cardinality(unit) \div d \in Nat
        BY <1>11, DivFloor
    <2>3. ~(Cardinality(unit) \div d + 1 <= Cardinality(whole))
        BY <1>10, <1>11, <2>1, <2>2, ProductMonotone
    <2>4. QED
        BY <1>11, <2>2, <2>3
<1>13. QED
    BY <1>11, <1>12 DEF SumOver
---------------------------------------------------------------------------
(* Least and largest numbers *)

\* Numbers as initial segments: the strict subset ordering of finite sets is
\* well founded, and so is the order of the natural numbers.
LEMMA LeastNumber ==
    ASSUME NEW S \in SUBSET Nat, S # {}
    PROVE  \E n \in S : \A m \in S : n <= m
<1> DEFINE segments == {1..n : n \in S}
           smaller == StrictSubsetOrdering(Nat)
<1>1. segments \subseteq FiniteSubsetsOf(Nat)
    <2>1. \A n \in S : IsFiniteSet(1..n) /\ 1..n \subseteq Nat
        BY FS_Interval
    <2>2. QED
        BY <2>1 DEF FiniteSubsetsOf
<1>2. segments # {}
    OBVIOUS
<1>3. \E x \in segments : \A y \in segments : ~ (<<y, x>> \in smaller)
    <2> HIDE DEF segments, smaller
    <2>1. IsWellFoundedOn(smaller, FiniteSubsetsOf(Nat))
        BY FS_StrictSubsetOrderingWellFounded DEF smaller
    <2>2. QED
        BY <1>1, <1>2, <2>1, WFMin
<1>4. PICK n \in S : \A m \in S : ~ (<<1..m, 1..n>> \in smaller)
    BY <1>3
<1>5. ASSUME NEW m \in S, m < n PROVE FALSE
    <2>1. n \in Nat /\ m \in Nat
        OBVIOUS
    <2>2. 1..m \subseteq 1..n /\ n \in 1..n /\ n \notin 1..m
        BY <1>5, <2>1
    <2>3. <<1..m, 1..n>> \in smaller
        BY <2>2 DEF StrictSubsetOrdering
    <2>4. QED
        BY <1>4, <2>3
<1>6. QED
    BY <1>5

LEMMA LargestNumber ==
    ASSUME NEW bound \in Nat, NEW S \in SUBSET (0..bound), S # {}
    PROVE  \E n \in S : \A m \in S : m <= n
<1> DEFINE below == {bound - n : n \in S}
<1>1. below \in SUBSET Nat /\ below # {}
    OBVIOUS
<1>2. PICK k \in below : \A l \in below : k <= l
    <2> HIDE DEF below
    <2>1. QED
        BY <1>1, LeastNumber
<1>3. PICK n \in S : k = bound - n
    BY <1>2
<1>4. \A m \in S : k <= bound - m
    BY <1>2
<1>5. \A m \in S : m <= n
    BY <1>3, <1>4
<1>6. QED
    BY <1>5

---------------------------------------------------------------------------
(* Ledgers of finitely many holders *)

LEMMA LedgerFinite ==
    ASSUME NEW Holders, IsFiniteSet(Holders), NEW f \in [Holders -> Nat]
    PROVE  /\ IsFiniteSet(UnitsOf(f))
           /\ SumOver(f) \in Nat
<1> DEFINE columns == {{u} \X (1..f[u]) : u \in Holders}
           column == [u \in Holders |-> {u} \X (1..f[u])]
<1>1. column \in Surjection(Holders, columns)
    <2>1. column \in [Holders -> columns]
        OBVIOUS
    <2>2. \A c \in columns : \E u \in Holders : column[u] = c
        OBVIOUS
    <2> HIDE DEF columns, column
    <2>3. QED
        BY <2>1, <2>2 DEF Surjection
<1>2. IsFiniteSet(columns)
    <2> HIDE DEF columns, column
    <2>1. QED
        BY <1>1, FS_Surjection
<1>3. \A c \in columns : IsFiniteSet(c)
    <2>1. \A u \in Holders : f[u] \in Nat
        OBVIOUS
    <2>2. \A u \in Holders : IsFiniteSet({u} \X (1..f[u]))
        BY <2>1, ColumnCardinality
    <2>3. QED
        BY <2>2
<1>4. UnitsOf(f) = UNION columns
    BY DEF UnitsOf
<1>5. IsFiniteSet(UnitsOf(f))
    <2> HIDE DEF columns
    <2>1. QED
        BY <1>2, <1>3, <1>4, FS_UNION
<1>6. QED
    BY <1>5, FS_CardinalityType DEF SumOver

\* Nobody has more than `most`, so together they have at most that many times
\* their number.
LEMMA SumAtMost ==
    ASSUME NEW Holders, IsFiniteSet(Holders), NEW most \in Nat,
           NEW f \in [Holders -> 0..most]
    PROVE  SumOver(f) <= Cardinality(Holders) * most
<1> DEFINE box == Holders \X (1..most)
<1>1. IsFiniteSet(1..most) /\ Cardinality(1..most) = most
    BY FS_Interval
<1>2. IsFiniteSet(box) /\ Cardinality(box) = Cardinality(Holders) * most
    BY <1>1, FS_Product
<1>3. UnitsOf(f) \in SUBSET box
    BY DEF UnitsOf
<1>4. QED
    <2> HIDE DEF box
    <2>1. Cardinality(UnitsOf(f)) <= Cardinality(box)
        BY <1>2, <1>3, FS_Subset
    <2>2. QED
        BY <1>2, <2>1 DEF SumOver

\* The holders of a part and the others add up to all of them.
LEMMA SumSplit ==
    ASSUME NEW Holders, IsFiniteSet(Holders), NEW f \in [Holders -> Nat],
           NEW part \in SUBSET Holders
    PROVE  /\ SumOver([u \in part |-> f[u]]) \in Nat
           /\ SumOver([u \in Holders |-> IF u \in part THEN 0 ELSE f[u]]) \in Nat
           /\ SumOver(f) = SumOver([u \in part |-> f[u]]) +
                   SumOver([u \in Holders |-> IF u \in part THEN 0 ELSE f[u]])
<1> DEFINE g == [u \in part |-> f[u]]
           h == [u \in Holders |-> IF u \in part THEN 0 ELSE f[u]]
<1>1. /\ UnitsOf(f) = UnitsOf(g) \cup UnitsOf(h)
      /\ UnitsOf(g) \cap UnitsOf(h) = {}
    BY DEF UnitsOf
<1>2. IsFiniteSet(UnitsOf(f))
    BY LedgerFinite
<1>3. /\ IsFiniteSet(UnitsOf(g)) /\ Cardinality(UnitsOf(g)) \in Nat
      /\ IsFiniteSet(UnitsOf(h)) /\ Cardinality(UnitsOf(h)) \in Nat
    <2> HIDE DEF g, h
    <2>1. QED
        BY <1>1, <1>2, FS_Subset, FS_CardinalityType
<1>4. QED
    <2> HIDE DEF g, h
    <2>1. Cardinality(UnitsOf(f)) = Cardinality(UnitsOf(g)) + Cardinality(UnitsOf(h))
        BY <1>1, <1>3, DisjointUnion
    <2>2. QED
        BY <1>3, <2>1 DEF SumOver, g, h

LEMMA SumConstant ==
    ASSUME NEW Holders, IsFiniteSet(Holders), NEW n \in Nat
    PROVE  SumOver([u \in Holders |-> n]) = Cardinality(Holders) * n
<1>1. UnitsOf([u \in Holders |-> n]) = Holders \X (1..n)
    BY DEF UnitsOf
<1>2. IsFiniteSet(1..n) /\ Cardinality(1..n) = n
    BY FS_Interval
<1>3. QED
    BY <1>1, <1>2, FS_Product DEF SumOver

LEMMA SumExtend ==
    ASSUME NEW Holders, IsFiniteSet(Holders), NEW x, x \notin Holders,
           NEW f \in [Holders \cup {x} -> Nat]
    PROVE  SumOver(f) = SumOver([u \in Holders |-> f[u]]) + f[x]
<1> DEFINE g == [u \in Holders |-> f[u]]
           column == {x} \X (1..f[x])
<1>1. /\ UnitsOf(f) = UnitsOf(g) \cup column
      /\ UnitsOf(g) \cap column = {}
    BY DEF UnitsOf
<1>2. f[x] \in Nat /\ g \in [Holders -> Nat]
    OBVIOUS
<1>3. IsFiniteSet(column) /\ Cardinality(column) = f[x]
    BY <1>2, ColumnCardinality
<1>4. IsFiniteSet(UnitsOf(g))
    <2> HIDE DEF g
    <2>1. QED
        BY <1>2, LedgerFinite
<1>5. QED
    <2> HIDE DEF g, column
    <2>1. Cardinality(UnitsOf(f)) = Cardinality(UnitsOf(g)) + Cardinality(column)
        BY <1>1, <1>3, <1>4, DisjointUnion
    <2>2. QED
        BY <1>3, <2>1 DEF SumOver, g

---------------------------------------------------------------------------
(* Sums of a function's values over a finite set.  SumFunction folds over  *)
(* the subsets of the set; the fold exists because larger subsets can be   *)
(* reached from smaller ones.                                              *)

\* Induction on a finite set: what holds for a set whenever it holds for the
\* set without any one of its elements holds for all subsets.
LEMMA SubsetInduction ==
    ASSUME NEW S, IsFiniteSet(S), NEW Good,
           \A X \in SUBSET S : (\A x \in X : X \ {x} \in Good) => X \in Good
    PROVE  \A X \in SUBSET S : X \in Good
<1> DEFINE bad == {X \in SUBSET S : X \notin Good}
           smaller == StrictSubsetOrdering(S)
<1>1. SUFFICES ASSUME bad # {} PROVE FALSE
    OBVIOUS
<1>2. bad \subseteq FiniteSubsetsOf(S)
    BY FS_Subset DEF FiniteSubsetsOf
<1>3. PICK X \in bad : \A Y \in bad : ~ (<<Y, X>> \in smaller)
    <2> HIDE DEF bad, smaller
    <2>1. IsWellFoundedOn(smaller, FiniteSubsetsOf(S))
        BY FS_StrictSubsetOrderingWellFounded DEF smaller
    <2>2. QED
        BY <1>1, <1>2, <2>1, WFMin
<1>4. \A x \in X : <<X \ {x}, X>> \in smaller
    BY DEF StrictSubsetOrdering
<1>5. \A x \in X : X \ {x} \in Good
    BY <1>3, <1>4
<1>6. QED
    BY <1>5

\* A recursion over the subsets of S, one chosen element after the other.
IsRecursion(iter, S, T, base, choose, step) ==
    /\ iter \in [SUBSET S -> T]
    /\ iter = [X \in SUBSET S |-> IF X = {} THEN base
                   ELSE step[choose[X], iter[X \ {choose[X]}]]]

\* Recursion over the subsets of a finite set defines a function.
LEMMA FoldExists ==
    ASSUME NEW S, IsFiniteSet(S), NEW T, NEW base \in T, NEW choose,
           \A X \in SUBSET S : X # {} => choose[X] \in X,
           NEW step \in [S \X T -> T]
    PROVE  \E iter : IsRecursion(iter, S, T, base, choose, step)
<1> DEFINE below(X, g) ==
               /\ g \in [SUBSET X -> T]
               /\ \A Y \in SUBSET X : g[Y] = IF Y = {} THEN base
                          ELSE step[choose[Y], g[Y \ {choose[Y]}]]
           good == {X \in SUBSET S : \E g : below(X, g)}
           iter == [X \in SUBSET S |-> (CHOOSE g : below(X, g))[X]]
<1>1. ASSUME NEW X \in SUBSET S, NEW Y \in SUBSET X, NEW g, NEW h,
             below(X, g), below(Y, h)
      PROVE  \A Z \in SUBSET Y : g[Z] = h[Z]
    <2>1. IsFiniteSet(Y)
        BY FS_Subset
    <2>2. \A Z \in SUBSET Y : Z \in SUBSET X /\ Z \in SUBSET S
        OBVIOUS
    <2>3. g[{}] = base /\ h[{}] = base
        BY <1>1
    <2>4. \A Z \in SUBSET Y : Z # {} =>
              /\ g[Z] = step[choose[Z], g[Z \ {choose[Z]}]]
              /\ h[Z] = step[choose[Z], h[Z \ {choose[Z]}]]
        BY <1>1, <2>2
    <2> DEFINE same == {Z \in SUBSET Y : g[Z] = h[Z]}
    <2>5. ASSUME NEW Z \in SUBSET Y, \A z \in Z : Z \ {z} \in same PROVE Z \in same
        <3>1. CASE Z = {}
            BY <2>3, <3>1
        <3>2. CASE Z # {}
            <4>1. choose[Z] \in Z
                BY <2>2, <3>2
            <4>2. g[Z \ {choose[Z]}] = h[Z \ {choose[Z]}]
                BY <2>5, <4>1
            <4>3. QED
                BY <2>4, <3>2, <4>2
        <3>3. QED
            BY <3>1, <3>2
    <2>6. \A Z \in SUBSET Y : Z \in same
        <3> HIDE DEF same, below
        <3>1. QED
            BY <2>1, <2>5, SubsetInduction
    <2>7. QED
        BY <2>6
<1>2. ASSUME NEW X \in SUBSET S, \A x \in X : X \ {x} \in good
      PROVE  X \in good
    <2>1. CASE X = {}
        <3>1. below(X, [Y \in SUBSET X |-> base])
            BY <2>1
        <3>2. QED
            BY <3>1
    <2>2. CASE X # {}
        <3> DEFINE x == choose[X]
                   part(Y) == CHOOSE h : below(Y, h)
                   g == [Y \in SUBSET X |-> IF Y = {} THEN base
                            ELSE step[choose[Y], part(Y \ {choose[Y]})[Y \ {choose[Y]}]]]
        <3>1. \A Y \in SUBSET X : Y # X => Y \in good
            <4>1. SUFFICES ASSUME NEW Y \in SUBSET X, Y # X PROVE Y \in good
                OBVIOUS
            <4>2. PICK y \in X : y \notin Y
                BY <4>1
            <4>3. PICK h : below(X \ {y}, h)
                BY <1>2
            <4>4. Y \in SUBSET (X \ {y})
                BY <4>2
            <4>5. below(Y, [Z \in SUBSET Y |-> h[Z]])
                <5>1. \A Z \in SUBSET Y : Z \in SUBSET (X \ {y}) /\ Z \in SUBSET S
                    BY <4>4
                <5>2. \A Z \in SUBSET Y : Z # {} => Z \ {choose[Z]} \in SUBSET Y
                    OBVIOUS
                <5>3. QED
                    BY <4>3, <5>1, <5>2
            <4>6. QED
                BY <4>5
        <3>2. \A Y \in SUBSET X : Y # X => below(Y, part(Y))
            <4> HIDE DEF below
            <4>1. QED
                BY <3>1
        <3>3. \A Y \in SUBSET X : Y # {} =>
                  /\ choose[Y] \in Y /\ choose[Y] \in S
                  /\ Y \ {choose[Y]} \in SUBSET X /\ Y \ {choose[Y]} # X
            OBVIOUS
        <3>4. \A Y \in SUBSET X : Y # {} =>
                  part(Y \ {choose[Y]})[Y \ {choose[Y]}] \in T
            <4>1. SUFFICES ASSUME NEW Y \in SUBSET X, Y # {}
                           PROVE  part(Y \ {choose[Y]})[Y \ {choose[Y]}] \in T
                OBVIOUS
            <4>2. below(Y \ {choose[Y]}, part(Y \ {choose[Y]}))
                BY <3>2, <3>3, <4>1
            <4> HIDE DEF part
            <4>3. QED
                BY <4>2
        <3>5. g \in [SUBSET X -> T]
            <4> DEFINE value(Y) == part(Y \ {choose[Y]})[Y \ {choose[Y]}]
            <4>1. \A Y \in SUBSET X : Y # {} => choose[Y] \in S /\ value(Y) \in T
                BY <3>3, <3>4
            <4> HIDE DEF value
            <4>2. \A Y \in SUBSET X : Y # {} => step[choose[Y], value(Y)] \in T
                BY <4>1
            <4>3. [Y \in SUBSET X |-> IF Y = {} THEN base
                      ELSE step[choose[Y], value(Y)]] \in [SUBSET X -> T]
                BY <4>2
            <4>4. QED
                BY <4>3 DEF value
        <3>6. \A Y \in SUBSET X : Y # X => g[Y] = part(Y)[Y]
            <4>1. SUFFICES ASSUME NEW Y \in SUBSET X, Y # X, Y # {} PROVE g[Y] = part(Y)[Y]
                <5>1. {} \in SUBSET X /\ g[{}] = base
                    OBVIOUS
                <5>2. X # {} => part({})[{}] = base
                    <6>1. X # {} => below({}, part({}))
                        BY <3>2
                    <6> HIDE DEF part
                    <6>2. QED
                        BY <6>1
                <5> HIDE DEF g, part
                <5>3. QED
                    BY <2>2, <5>1, <5>2
            <4>2. below(Y, part(Y)) /\ below(Y \ {choose[Y]}, part(Y \ {choose[Y]}))
                BY <3>2, <3>3, <4>1
            <4>3. part(Y)[Y] = step[choose[Y], part(Y)[Y \ {choose[Y]}]]
                <5> HIDE DEF part
                <5>1. QED
                    BY <4>1, <4>2
            <4>4. part(Y)[Y \ {choose[Y]}] = part(Y \ {choose[Y]})[Y \ {choose[Y]}]
                <5> HIDE DEF below, part
                <5>1. QED
                    BY <1>1, <4>2
            <4>5. QED
                BY <4>1, <4>3, <4>4
        <3>7. below(X, g)
            <4>1. ASSUME NEW Y \in SUBSET X, Y # {}
                  PROVE  g[Y] = step[choose[Y], g[Y \ {choose[Y]}]]
                BY <3>3, <3>6, <4>1
            <4>2. g[{}] = base
                OBVIOUS
            <4> HIDE DEF g
            <4>3. QED
                BY <3>5, <4>1, <4>2
        <3> HIDE DEF g, below
        <3>8. QED
            BY <3>7
    <2>3. QED
        BY <2>1, <2>2
<1>3. S \in good
    <2> HIDE DEF good
    <2>1. QED
        BY <1>2, SubsetInduction
<1>4. PICK g : below(S, g)
    BY <1>3
<1>5. g = [X \in SUBSET S |-> IF X = {} THEN base
                          ELSE step[choose[X], g[X \ {choose[X]}]]]
    BY <1>4
<1>6. QED
    BY <1>4, <1>5 DEF IsRecursion

IntegersOn(f, S) == \A x \in S : f[x] \in Int

First(X) == CHOOSE x \in X : TRUE

\* The sums of f over the subsets of S, one element after the other.
IsSummation(sums, f, S) ==
    /\ sums \in [SUBSET S -> Int]
    /\ sums[{}] = 0
    /\ \A X \in SUBSET S : X # {} => sums[X] = f[First(X)] + sums[X \ {First(X)}]

\* A sum is the recursion it is defined by.
LEMMA SumsRecursion ==
    ASSUME NEW S, IsFiniteSet(S), NEW f, IntegersOn(f, S)
    PROVE  /\ SumFunctionOnSet(f, S) \in Int
           /\ S = {} => SumFunctionOnSet(f, S) = 0
           /\ \E sums : IsSummation(sums, f, S) /\ SumFunctionOnSet(f, S) = sums[S]
<1> DEFINE choose == [X \in SUBSET S |-> CHOOSE x \in X : TRUE]
           step == [p \in S \X Int |-> f[p[1]] + p[2]]
           defines(iter) == iter = [X \in SUBSET S |->
               IF X = {} THEN 0
               ELSE f[CHOOSE x \in X : TRUE] + iter[X \ {CHOOSE x \in X : TRUE}]]
<1>1. \A X \in SUBSET S : X # {} => choose[X] \in X
    OBVIOUS
<1>2. step \in [S \X Int -> Int]
    BY DEF IntegersOn
<1>3. PICK iter : IsRecursion(iter, S, Int, 0, choose, step)
    <2> HIDE DEF choose, step
    <2>1. 0 \in Int
        OBVIOUS
    <2>2. QED
        BY <1>1, <1>2, <2>1, FoldExists
<1>4. /\ iter \in [SUBSET S -> Int]
      /\ iter = [X \in SUBSET S |-> IF X = {} THEN 0
                      ELSE step[choose[X], iter[X \ {choose[X]}]]]
    BY <1>3 DEF IsRecursion
<1>5. \A X \in SUBSET S : X # {} =>
          step[choose[X], iter[X \ {choose[X]}]] =
              f[CHOOSE x \in X : TRUE] + iter[X \ {CHOOSE x \in X : TRUE}]
    <2>1. SUFFICES ASSUME NEW X \in SUBSET S, X # {}
                   PROVE  step[choose[X], iter[X \ {choose[X]}]] =
                          f[choose[X]] + iter[X \ {choose[X]}]
        OBVIOUS
    <2>2. choose[X] \in S /\ iter[X \ {choose[X]}] \in Int
        BY <1>1, <1>4, <2>1
    <2> HIDE DEF choose
    <2>3. QED
        BY <2>2
<1>6. defines(iter)
    <2> HIDE DEF choose, step
    <2>1. QED
        BY <1>4, <1>5
<1>7. defines(CHOOSE g : defines(g))
    <2> HIDE DEF defines
    <2>1. QED
        BY <1>6
<1>8. SumFunctionOnSet(f, S) = (CHOOSE g : defines(g))[S]
    BY DEF SumFunctionOnSet, FoldFunctionOnSet, MapThenFoldSet
<1>9. ASSUME NEW g, defines(g)
      PROVE  g = iter
    <2> DEFINE same == {X \in SUBSET S : g[X] = iter[X]}
    <2>1. ASSUME NEW X \in SUBSET S, \A x \in X : X \ {x} \in same PROVE X \in same
        <3>1. CASE X = {}
            BY <1>6, <1>9, <3>1
        <3>2. CASE X # {}
            <4>1. (CHOOSE x \in X : TRUE) \in X
                BY <3>2
            <4>2. QED
                BY <1>6, <1>9, <2>1, <3>2, <4>1
        <3>3. QED
            BY <3>1, <3>2
    <2>2. \A X \in SUBSET S : X \in same
        <3> HIDE DEF same, defines
        <3>1. QED
            BY <2>1, SubsetInduction
    <2>3. QED
        BY <1>6, <1>9, <2>2
<1>10. SumFunctionOnSet(f, S) = iter[S]
    <2> HIDE DEF defines
    <2>1. QED
        BY <1>7, <1>8, <1>9
<1>11. IsSummation(iter, f, S)
    BY <1>4, <1>6 DEF IsSummation, First
<1>12. QED
    BY <1>10, <1>11 DEF IsSummation

\* The sums over the subsets of a set are those of its recursion.
LEMMA SumsOfSubsets ==
    ASSUME NEW S, IsFiniteSet(S), NEW f, IntegersOn(f, S)
    PROVE  \A X \in SUBSET S : X # {} =>
               SumFunctionOnSet(f, X) =
                   f[First(X)] + SumFunctionOnSet(f, X \ {First(X)})
<1>1. PICK sums : IsSummation(sums, f, S)
    BY SumsRecursion
<1>2. ASSUME NEW Y \in SUBSET S PROVE SumFunctionOnSet(f, Y) = sums[Y]
    <2>1. IsFiniteSet(Y) /\ IntegersOn(f, Y)
        BY FS_Subset DEF IntegersOn
    <2>2. PICK part : IsSummation(part, f, Y) /\ SumFunctionOnSet(f, Y) = part[Y]
        BY <2>1, SumsRecursion
    <2> DEFINE same == {X \in SUBSET Y : part[X] = sums[X]}
    <2>3. ASSUME NEW X \in SUBSET Y, \A x \in X : X \ {x} \in same PROVE X \in same
        <3>1. CASE X = {}
            BY <1>1, <2>2, <3>1 DEF IsSummation
        <3>2. CASE X # {}
            <4>1. First(X) \in X /\ X \in SUBSET S
                BY <3>2 DEF First
            <4>2. QED
                BY <1>1, <2>2, <2>3, <3>2, <4>1 DEF IsSummation
        <3>3. QED
            BY <3>1, <3>2
    <2>4. \A X \in SUBSET Y : X \in same
        <3> HIDE DEF same
        <3>1. QED
            BY <2>1, <2>3, SubsetInduction
    <2>5. QED
        BY <2>2, <2>4
<1>3. \A X \in SUBSET S : X # {} => X \ {First(X)} \in SUBSET S
    OBVIOUS
<1>4. QED
    BY <1>1, <1>2, <1>3 DEF IsSummation

\* There is nothing to sum.
LEMMA SumsEmpty == \A f : SumFunctionOnSet(f, {}) = 0
<1>1. ASSUME NEW f PROVE SumFunctionOnSet(f, {}) = 0
    BY SumsRecursion, FS_EmptySet DEF IntegersOn
<1>2. QED
    BY <1>1

\* A sum of integers is an integer.
LEMMA SumsType ==
    ASSUME NEW S, IsFiniteSet(S), NEW f, IntegersOn(f, S)
    PROVE  SumFunctionOnSet(f, S) \in Int
BY SumsRecursion

\* Any element may be taken out first.
LEMMA SumsRemove ==
    ASSUME NEW S, IsFiniteSet(S), NEW f, IntegersOn(f, S), NEW a \in S
    PROVE  SumFunctionOnSet(f, S) = f[a] + SumFunctionOnSet(f, S \ {a})
<1> DEFINE good == {X \in SUBSET S : \A x \in X :
                SumFunctionOnSet(f, X) = f[x] + SumFunctionOnSet(f, X \ {x})}
<1>1. ASSUME NEW X \in SUBSET S, \A x \in X : X \ {x} \in good PROVE X \in good
    <2>1. SUFFICES ASSUME NEW x \in X
                   PROVE  SumFunctionOnSet(f, X) = f[x] + SumFunctionOnSet(f, X \ {x})
        OBVIOUS
    <2>2. PICK c \in X : SumFunctionOnSet(f, X) = f[c] + SumFunctionOnSet(f, X \ {c})
        <3>1. X # {} /\ First(X) \in X
            BY DEF First
        <3>2. QED
            BY <3>1, SumsOfSubsets
    <2>3. CASE c = x
        BY <2>2, <2>3
    <2>4. CASE c # x
        <3>1. x \in X \ {c} /\ c \in X \ {x}
            BY <2>4
        <3>2. SumFunctionOnSet(f, X \ {c}) = f[x] + SumFunctionOnSet(f, (X \ {c}) \ {x})
            BY <1>1, <3>1
        <3>3. SumFunctionOnSet(f, X \ {x}) = f[c] + SumFunctionOnSet(f, (X \ {x}) \ {c})
            BY <1>1, <3>1
        <3>4. (X \ {c}) \ {x} = (X \ {x}) \ {c}
            OBVIOUS
        <3>5. f[x] \in Int /\ f[c] \in Int /\ SumFunctionOnSet(f, (X \ {x}) \ {c}) \in Int
            <4>1. IsFiniteSet((X \ {x}) \ {c})
                BY FS_Subset
            <4>2. IntegersOn(f, (X \ {x}) \ {c})
                BY DEF IntegersOn
            <4>3. QED
                BY <4>1, <4>2, SumsType DEF IntegersOn
        <3> DEFINE rest == SumFunctionOnSet(f, (X \ {x}) \ {c})
                   whole == SumFunctionOnSet(f, X)
                   withoutC == SumFunctionOnSet(f, X \ {c})
                   withoutX == SumFunctionOnSet(f, X \ {x})
        <3>6. /\ whole = f[c] + withoutC
              /\ withoutC = f[x] + rest
              /\ withoutX = f[c] + rest
            BY <2>2, <3>2, <3>3, <3>4
        <3> HIDE DEF rest, whole, withoutC, withoutX
        <3>7. whole = f[x] + withoutX
            BY <3>5, <3>6 DEF rest
        <3>8. QED
            BY <3>7 DEF whole, withoutX
    <2>5. QED
        BY <2>3, <2>4
<1>2. \A X \in SUBSET S : X \in good
    <2> HIDE DEF good
    <2>1. QED
        BY <1>1, SubsetInduction
<1>3. QED
    BY <1>2

\* One term more.
LEMMA SumsAdd ==
    ASSUME NEW S, IsFiniteSet(S), NEW f, IntegersOn(f, S), NEW a, a \notin S, f[a] \in Int
    PROVE  SumFunctionOnSet(f, S \cup {a}) = SumFunctionOnSet(f, S) + f[a]
<1>1. IsFiniteSet(S \cup {a}) /\ IntegersOn(f, S \cup {a})
    BY FS_AddElement DEF IntegersOn
<1>2. (S \cup {a}) \ {a} = S
    OBVIOUS
<1>3. SumFunctionOnSet(f, S \cup {a}) = f[a] + SumFunctionOnSet(f, S)
    BY <1>1, <1>2, SumsRemove
<1>4. SumFunctionOnSet(f, S) \in Int
    BY SumsType
<1>5. QED
    BY <1>3, <1>4

\* The sum of a pointwise sum.
LEMMA SumsPlus ==
    ASSUME NEW S, IsFiniteSet(S), NEW f, NEW g, NEW h,
           IntegersOn(f, S), IntegersOn(g, S), \A x \in S : h[x] = f[x] + g[x]
    PROVE  SumFunctionOnSet(h, S) = SumFunctionOnSet(f, S) + SumFunctionOnSet(g, S)
<1> DEFINE good == {X \in SUBSET S :
        SumFunctionOnSet(h, X) = SumFunctionOnSet(f, X) + SumFunctionOnSet(g, X)}
<1>1. ASSUME NEW X \in SUBSET S, \A x \in X : X \ {x} \in good PROVE X \in good
    <2>1. CASE X = {}
        BY <2>1, SumsEmpty
    <2>2. CASE X # {}
        <3>1. PICK a \in X : TRUE
            BY <2>2
        <3>2. /\ IsFiniteSet(X) /\ IsFiniteSet(X \ {a})
              /\ IntegersOn(f, X) /\ IntegersOn(g, X) /\ IntegersOn(h, X)
              /\ IntegersOn(f, X \ {a}) /\ IntegersOn(g, X \ {a})
            BY FS_Subset DEF IntegersOn
        <3> DEFINE F == SumFunctionOnSet(f, X \ {a})
                   G == SumFunctionOnSet(g, X \ {a})
                   H == SumFunctionOnSet(h, X \ {a})
        <3>3. /\ SumFunctionOnSet(f, X) = f[a] + F
              /\ SumFunctionOnSet(g, X) = g[a] + G
              /\ SumFunctionOnSet(h, X) = h[a] + H
            BY <3>2, SumsRemove
        <3>4. F \in Int /\ G \in Int /\ f[a] \in Int /\ g[a] \in Int
            BY <3>2, SumsType DEF IntegersOn
        <3>5. H = F + G /\ h[a] = f[a] + g[a]
            BY <1>1
        <3> HIDE DEF F, G, H
        <3>6. h[a] + H = (f[a] + F) + (g[a] + G)
            BY <3>4, <3>5
        <3>7. QED
            BY <3>3, <3>6
    <2>3. QED
        BY <2>1, <2>2
<1>2. \A X \in SUBSET S : X \in good
    <2> HIDE DEF good
    <2>1. QED
        BY <1>1, SubsetInduction
<1>3. QED
    BY <1>2

\* A constant, as often as there are terms.
LEMMA SumsConstant ==
    ASSUME NEW S, IsFiniteSet(S), NEW c \in Int, NEW f, \A x \in S : f[x] = c
    PROVE  SumFunctionOnSet(f, S) = c * Cardinality(S)
<1> DEFINE good == {X \in SUBSET S : SumFunctionOnSet(f, X) = c * Cardinality(X)}
<1>1. ASSUME NEW X \in SUBSET S, \A x \in X : X \ {x} \in good PROVE X \in good
    <2>1. CASE X = {}
        BY <2>1, SumsEmpty, FS_EmptySet
    <2>2. CASE X # {}
        <3>1. PICK a \in X : TRUE
            BY <2>2
        <3>2. IsFiniteSet(X) /\ IntegersOn(f, X)
            BY FS_Subset DEF IntegersOn
        <3>3. SumFunctionOnSet(f, X) = f[a] + SumFunctionOnSet(f, X \ {a})
            BY <3>2, SumsRemove
        <3>4. /\ Cardinality(X) \in Nat
              /\ Cardinality(X \ {a}) = Cardinality(X) - 1
            BY <3>2, FS_CardinalityType, FS_RemoveElement
        <3>5. SumFunctionOnSet(f, X \ {a}) = c * Cardinality(X \ {a})
            BY <1>1
        <3>6. SumFunctionOnSet(f, X) = c + c * (Cardinality(X) - 1)
            BY <3>3, <3>4, <3>5
        <3>7. \A n \in Nat : c + c * (n - 1) = c * n
            OBVIOUS
        <3>8. QED
            BY <3>4, <3>6, <3>7
    <2>3. QED
        BY <2>1, <2>2
<1>2. \A X \in SUBSET S : X \in good
    <2> HIDE DEF good
    <2>1. QED
        BY <1>1, SubsetInduction
<1>3. QED
    BY <1>2

\* Zeros sum up to zero.
LEMMA SumsZero ==
    ASSUME NEW S, IsFiniteSet(S), NEW f, \A x \in S : f[x] = 0
    PROVE  SumFunctionOnSet(f, S) = 0
<1>1. SumFunctionOnSet(f, S) = 0 * Cardinality(S)
    BY SumsConstant
<1>2. Cardinality(S) \in Nat
    BY FS_CardinalityType
<1>3. QED
    BY <1>1, <1>2

\* The terms are all that counts.
LEMMA SumsAgree ==
    ASSUME NEW S, IsFiniteSet(S), NEW f, NEW g, IntegersOn(f, S), \A x \in S : f[x] = g[x]
    PROVE  SumFunctionOnSet(f, S) = SumFunctionOnSet(g, S)
<1> DEFINE z == [x \in S |-> 0]
<1>1. SumFunctionOnSet(z, S) = 0
    BY SumsZero
<1>2. IntegersOn(z, S) /\ \A x \in S : g[x] = f[x] + z[x]
    BY DEF IntegersOn
<1> HIDE DEF z
<1>3. SumFunctionOnSet(g, S) = SumFunctionOnSet(f, S) + SumFunctionOnSet(z, S)
    BY <1>2, SumsPlus
<1>4. SumFunctionOnSet(f, S) \in Int
    BY SumsType
<1>5. QED
    BY <1>1, <1>3, <1>4

\* Sums are subtracted term by term.
LEMMA SumsMinus ==
    ASSUME NEW S, IsFiniteSet(S), NEW f, NEW g, NEW h,
           IntegersOn(f, S), IntegersOn(g, S), \A x \in S : h[x] = f[x] - g[x]
    PROVE  SumFunctionOnSet(h, S) = SumFunctionOnSet(f, S) - SumFunctionOnSet(g, S)
<1>1. IntegersOn(h, S) /\ \A x \in S : f[x] = h[x] + g[x]
    BY DEF IntegersOn
<1>2. SumFunctionOnSet(f, S) = SumFunctionOnSet(h, S) + SumFunctionOnSet(g, S)
    BY <1>1, SumsPlus
<1>3. SumFunctionOnSet(h, S) \in Int /\ SumFunctionOnSet(g, S) \in Int
    BY <1>1, SumsType
<1>4. QED
    BY <1>2, <1>3

\* One summand changes.
LEMMA SumsChange ==
    ASSUME NEW S, IsFiniteSet(S), NEW f, NEW g, IntegersOn(f, S), NEW a \in S,
           g[a] \in Int, \A x \in S : x # a => g[x] = f[x]
    PROVE  SumFunctionOnSet(g, S) = SumFunctionOnSet(f, S) + g[a] - f[a]
<1>1. IntegersOn(g, S) /\ IntegersOn(f, S \ {a}) /\ IsFiniteSet(S \ {a}) /\ f[a] \in Int
    BY FS_Subset DEF IntegersOn
<1>2. SumFunctionOnSet(f, S \ {a}) = SumFunctionOnSet(g, S \ {a})
    BY <1>1, SumsAgree
<1>3. SumFunctionOnSet(f, S \ {a}) \in Int
    BY <1>1, SumsType
<1>4. /\ SumFunctionOnSet(f, S) = f[a] + SumFunctionOnSet(f, S \ {a})
      /\ SumFunctionOnSet(g, S) = g[a] + SumFunctionOnSet(g, S \ {a})
    BY <1>1, SumsRemove
<1>5. QED
    BY <1>1, <1>2, <1>3, <1>4

\* Two disjoint sets are summed one after the other.
LEMMA SumsUnion ==
    ASSUME NEW f, NEW S, NEW T, IntegersOn(f, S \cup T),
           IsFiniteSet(S), IsFiniteSet(T), S \cap T = {}
    PROVE  SumFunctionOnSet(f, S \cup T) = SumFunctionOnSet(f, S) + SumFunctionOnSet(f, T)
<1> DEFINE good == {X \in SUBSET T :
        SumFunctionOnSet(f, S \cup X) = SumFunctionOnSet(f, S) + SumFunctionOnSet(f, X)}
<1>1. ASSUME NEW X \in SUBSET T, \A x \in X : X \ {x} \in good PROVE X \in good
    <2>1. IntegersOn(f, S) /\ SumFunctionOnSet(f, S) \in Int
        BY SumsType DEF IntegersOn
    <2>2. CASE X = {}
        <3>1. S \cup X = S /\ SumFunctionOnSet(f, X) = 0
            BY <2>2, SumsEmpty
        <3>2. SumFunctionOnSet(f, S) = SumFunctionOnSet(f, S) + 0
            BY <2>1
        <3>3. SumFunctionOnSet(f, S \cup X) = SumFunctionOnSet(f, S) + SumFunctionOnSet(f, X)
            BY <3>1, <3>2
        <3>4. QED
            BY <3>3
    <2>3. CASE X # {}
        <3>1. PICK a \in X : TRUE
            BY <2>3
        <3>2. /\ IsFiniteSet(X) /\ IsFiniteSet(S \cup X) /\ IsFiniteSet(X \ {a})
              /\ IntegersOn(f, X) /\ IntegersOn(f, S \cup X) /\ IntegersOn(f, X \ {a})
              /\ f[a] \in Int
            <4>1. X \in SUBSET T /\ X \ {a} \in SUBSET T
                OBVIOUS
            <4>2. IsFiniteSet(X) /\ IsFiniteSet(X \ {a})
                BY <4>1, FS_Subset
            <4>3. IsFiniteSet(S \cup X)
                BY <4>2, FS_Union
            <4>4. QED
                BY <4>2, <4>3 DEF IntegersOn
        <3>3. (S \cup X) \ {a} = S \cup (X \ {a})
            OBVIOUS
        <3> DEFINE rest == SumFunctionOnSet(f, X \ {a})
                   both == SumFunctionOnSet(f, S \cup (X \ {a}))
        <3>4. /\ SumFunctionOnSet(f, X) = f[a] + rest
              /\ SumFunctionOnSet(f, S \cup X) = f[a] + both
            BY <3>2, <3>3, SumsRemove
        <3>5. rest \in Int
            BY <3>2, SumsType
        <3>6. both = SumFunctionOnSet(f, S) + rest
            BY <1>1
        <3> HIDE DEF rest, both
        <3>7. QED
            BY <2>1, <3>2, <3>4, <3>5, <3>6
    <2>4. QED
        BY <2>2, <2>3
<1>2. \A X \in SUBSET T : X \in good
    <2> HIDE DEF good
    <2>1. QED
        BY <1>1, SubsetInduction
<1>3. QED
    BY <1>2

\* What counts as nothing need not be summed.
LEMMA SumsFilter ==
    ASSUME NEW S, IsFiniteSet(S), NEW P \in SUBSET S, NEW f, NEW g, IntegersOn(f, P),
           \A x \in P : g[x] = f[x], \A x \in S \ P : g[x] = 0
    PROVE  SumFunctionOnSet(g, S) = SumFunctionOnSet(f, P)
<1>1. /\ IsFiniteSet(P) /\ IsFiniteSet(S \ P) /\ P \cap (S \ P) = {}
      /\ P \cup (S \ P) = S /\ IntegersOn(g, S) /\ IntegersOn(g, P)
    BY FS_Subset DEF IntegersOn
<1>2. SumFunctionOnSet(g, S) = SumFunctionOnSet(g, P) + SumFunctionOnSet(g, S \ P)
    BY <1>1, SumsUnion
<1>3. SumFunctionOnSet(g, S \ P) = 0
    BY <1>1, SumsZero
<1>4. SumFunctionOnSet(f, P) = SumFunctionOnSet(g, P) /\ SumFunctionOnSet(g, P) \in Int
    BY <1>1, SumsAgree, SumsType
<1>5. QED
    BY <1>2, <1>3, <1>4

\* What is not negative adds up to at least any one of it.
LEMMA SumsNat ==
    ASSUME NEW S, IsFiniteSet(S), NEW f, \A x \in S : f[x] \in Nat
    PROVE  /\ SumFunctionOnSet(f, S) \in Nat
           /\ \A x \in S : f[x] <= SumFunctionOnSet(f, S)
<1> DEFINE good == {X \in SUBSET S : SumFunctionOnSet(f, X) \in Nat}
<1>1. ASSUME NEW X \in SUBSET S, \A x \in X : X \ {x} \in good PROVE X \in good
    <2>1. CASE X = {}
        BY <2>1, SumsEmpty
    <2>2. CASE X # {}
        <3>1. PICK a \in X : TRUE
            BY <2>2
        <3>2. IsFiniteSet(X) /\ IntegersOn(f, X)
            BY FS_Subset DEF IntegersOn
        <3>3. SumFunctionOnSet(f, X) = f[a] + SumFunctionOnSet(f, X \ {a})
            BY <3>2, SumsRemove
        <3>4. f[a] \in Nat /\ SumFunctionOnSet(f, X \ {a}) \in Nat
            BY <1>1
        <3>5. QED
            BY <3>3, <3>4
    <2>3. QED
        BY <2>1, <2>2
<1>2. \A X \in SUBSET S : X \in good
    <2> HIDE DEF good
    <2>1. QED
        BY <1>1, SubsetInduction
<1>3. \A X \in SUBSET S : SumFunctionOnSet(f, X) \in Nat
    BY <1>2
<1>4. ASSUME NEW a \in S PROVE f[a] <= SumFunctionOnSet(f, S)
    <2>1. IntegersOn(f, S)
        BY DEF IntegersOn
    <2>2. SumFunctionOnSet(f, S) = f[a] + SumFunctionOnSet(f, S \ {a})
        BY <2>1, SumsRemove
    <2>3. f[a] \in Nat /\ SumFunctionOnSet(f, S \ {a}) \in Nat
        BY <1>3
    <2>4. QED
        BY <2>2, <2>3
<1>5. QED
    BY <1>3, <1>4

\* Rows and columns of a table add up to the same.
LEMMA SumsSwap ==
    ASSUME NEW S, IsFiniteSet(S), NEW T, IsFiniteSet(T),
           NEW row, \A x \in S : IntegersOn(row[x], T),
           NEW column, \A x \in S, y \in T : column[y][x] = row[x][y],
           NEW byRow, \A x \in S : byRow[x] = SumFunctionOnSet(row[x], T),
           NEW byColumn, \A y \in T : byColumn[y] = SumFunctionOnSet(column[y], S)
    PROVE  SumFunctionOnSet(byRow, S) = SumFunctionOnSet(byColumn, T)
<1> DEFINE upTo(X) == [y \in T |-> SumFunctionOnSet(column[y], X)]
           good == {X \in SUBSET S :
               SumFunctionOnSet(byRow, X) = SumFunctionOnSet(upTo(X), T)}
<1>1. ASSUME NEW X \in SUBSET S
      PROVE  /\ IsFiniteSet(X) /\ \A y \in T : IntegersOn(column[y], X)
             /\ IntegersOn(upTo(X), T)
    <2>1. IsFiniteSet(X)
        BY FS_Subset
    <2>2. \A y \in T : IntegersOn(column[y], X)
        BY DEF IntegersOn
    <2>3. \A y \in T : SumFunctionOnSet(column[y], X) \in Int
        BY <2>1, <2>2, SumsType
    <2>4. QED
        BY <2>1, <2>2, <2>3 DEF IntegersOn
<1>2. IntegersOn(byRow, S)
    <2>1. \A x \in S : SumFunctionOnSet(row[x], T) \in Int
        BY SumsType
    <2>2. QED
        BY <2>1 DEF IntegersOn
<1>3. ASSUME NEW X \in SUBSET S, \A x \in X : X \ {x} \in good PROVE X \in good
    <2>1. CASE X = {}
        <3>1. \A y \in T : upTo(X)[y] = 0
            BY <2>1, SumsEmpty
        <3> HIDE DEF upTo
        <3>2. QED
            BY <2>1, <3>1, SumsZero, SumsEmpty
    <2>2. CASE X # {}
        <3>1. PICK a \in X : TRUE
            BY <2>2
        <3>2. IntegersOn(byRow, X) /\ X \ {a} \in SUBSET S
            BY <1>2 DEF IntegersOn
        <3>3. SumFunctionOnSet(byRow, X) = byRow[a] + SumFunctionOnSet(byRow, X \ {a})
            BY <1>1, <3>2, SumsRemove
        <3>4. \A y \in T : upTo(X)[y] = row[a][y] + upTo(X \ {a})[y]
            <4>1. ASSUME NEW y \in T
                  PROVE  SumFunctionOnSet(column[y], X) =
                             column[y][a] + SumFunctionOnSet(column[y], X \ {a})
                <5>1. IntegersOn(column[y], X) /\ IsFiniteSet(X)
                    BY <1>1
                <5>2. QED
                    BY <5>1, SumsRemove
            <4>2. QED
                BY <4>1
        <3>5. IntegersOn(row[a], T) /\ IntegersOn(upTo(X \ {a}), T)
            BY <1>1, <3>2
        <3>6. byRow[a] = SumFunctionOnSet(row[a], T)
            OBVIOUS
        <3>7. SumFunctionOnSet(byRow, X \ {a}) = SumFunctionOnSet(upTo(X \ {a}), T)
            BY <1>3
        <3> DEFINE new == upTo(X)
                   old == upTo(X \ {a})
                   first == row[a]
        <3>8. \A y \in T : new[y] = first[y] + old[y]
            BY <3>4
        <3>9. IntegersOn(first, T) /\ IntegersOn(old, T)
            BY <3>5
        <3>10. SumFunctionOnSet(new, T) = SumFunctionOnSet(first, T) + SumFunctionOnSet(old, T)
            <4> HIDE DEF new, old, first
            <4>1. QED
                BY <3>8, <3>9, SumsPlus
        <3>11. QED
            BY <3>3, <3>6, <3>7, <3>10
    <2>3. QED
        BY <2>1, <2>2
<1>4. \A X \in SUBSET S : X \in good
    <2> HIDE DEF good
    <2>1. QED
        BY <1>3, SubsetInduction
<1>5. SumFunctionOnSet(byRow, S) = SumFunctionOnSet(upTo(S), T)
    BY <1>4
<1>6. SumFunctionOnSet(upTo(S), T) = SumFunctionOnSet(byColumn, T)
    <2>1. IntegersOn(upTo(S), T)
        BY <1>1
    <2>2. \A y \in T : upTo(S)[y] = byColumn[y]
        OBVIOUS
    <2> HIDE DEF upTo
    <2>3. QED
        BY <2>1, <2>2, SumsAgree
<1>7. QED
    BY <1>5, <1>6

\* What is sorted by kind adds up to the same kind by kind.
LEMMA SumsByKind ==
    ASSUME NEW S, IsFiniteSet(S), NEW K, IsFiniteSet(K), NEW kind \in [S -> K],
           NEW f, IntegersOn(f, S),
           NEW parts, \A k \in K : parts[k] = SumFunctionOnSet(f, {x \in S : kind[x] = k})
    PROVE  SumFunctionOnSet(parts, K) = SumFunctionOnSet(f, S)
<1> DEFINE entry(k, x) == IF kind[x] = k THEN f[x] ELSE 0
           row == [k \in K |-> [x \in S |-> entry(k, x)]]
           column == [x \in S |-> [k \in K |-> entry(k, x)]]
<1>1. \A k \in K : IntegersOn(row[k], S)
    BY DEF IntegersOn
<1>2. \A k \in K, x \in S : column[x][k] = row[k][x]
    OBVIOUS
<1>3. ASSUME NEW k \in K
      PROVE  parts[k] = SumFunctionOnSet(row[k], S)
    <2> DEFINE P == {x \in S : kind[x] = k}
    <2>1. /\ P \in SUBSET S /\ IntegersOn(f, P)
          /\ \A x \in P : row[k][x] = f[x]
          /\ \A x \in S \ P : row[k][x] = 0
        BY DEF IntegersOn
    <2>2. parts[k] = SumFunctionOnSet(f, P)
        OBVIOUS
    <2> HIDE DEF P, row
    <2>3. SumFunctionOnSet(row[k], S) = SumFunctionOnSet(f, P)
        BY <2>1, SumsFilter
    <2>4. QED
        BY <2>2, <2>3
<1>4. ASSUME NEW x \in S
      PROVE  f[x] = SumFunctionOnSet(column[x], K)
    <2> DEFINE z == [k \in K |-> 0]
    <2>1. /\ column[x][kind[x]] = f[x]
          /\ \A k \in K : k # kind[x] => column[x][k] = z[k]
        OBVIOUS
    <2>2. /\ kind[x] \in K /\ f[x] \in Int /\ IntegersOn(z, K) /\ z[kind[x]] = 0
          /\ \A k \in K : z[k] = 0
        BY DEF IntegersOn
    <2> HIDE DEF z, column
    <2>3. SumFunctionOnSet(z, K) = 0
        BY <2>2, SumsZero
    <2>4. SumFunctionOnSet(column[x], K) =
              SumFunctionOnSet(z, K) + column[x][kind[x]] - z[kind[x]]
        BY <2>1, <2>2, SumsChange
    <2>5. QED
        BY <2>1, <2>2, <2>3, <2>4
<1> HIDE DEF row, column
<1>5. QED
    BY <1>1, <1>2, <1>3, <1>4, SumsSwap

\* To count is to sum ones.
LEMMA SumsOfOnes ==
    ASSUME NEW S, IsFiniteSet(S), NEW f, \A x \in S : f[x] = 1
    PROVE  Cardinality(S) = SumFunctionOnSet(f, S)
<1>1. SumFunctionOnSet(f, S) = 1 * Cardinality(S) /\ Cardinality(S) \in Nat
    BY SumsConstant, FS_CardinalityType
<1>2. QED
    BY <1>1

\* What holds at 0 and is handed on holds up to n.
LEMMA PrefixInduction ==
    ASSUME NEW n \in Nat, NEW Good, 0 \in Good,
           \A k \in 1..n : k - 1 \in Good => k \in Good
    PROVE  \A k \in 0..n : k \in Good
<1> DEFINE bad == {k \in 0..n : k \notin Good}
<1>1. SUFFICES ASSUME bad # {} PROVE FALSE
    OBVIOUS
<1>2. PICK k \in bad : \A j \in bad : k <= j
    <2>1. \A k \in bad : k \in 0..n
        OBVIOUS
    <2> HIDE DEF bad
    <2>2. bad \in SUBSET Nat
        BY <2>1
    <2>3. QED
        BY <1>1, <2>2, LeastNumber
<1>3. k \in 0..n /\ k \notin Good
    OBVIOUS
<1>4. k \in 1..n /\ k - 1 \in 0..n /\ ~(k <= k - 1)
    BY <1>3
<1>5. k - 1 \notin bad
    <2> HIDE DEF bad
    <2>1. QED
        BY <1>2, <1>4
<1>6. QED
    BY <1>3, <1>4, <1>5

\* The sum of the first k terms.
LEMMA SumsPrefix ==
    ASSUME NEW n \in Nat, NEW f, IntegersOn(f, 1..n), NEW k \in 1..n
    PROVE  SumFunctionOnSet(f, 1..k) = SumFunctionOnSet(f, 1..(k - 1)) + f[k]
<1>1. IsFiniteSet(1..k) /\ k \in 1..k /\ (1..k) \ {k} = 1..(k - 1)
    <2>1. k \in Nat /\ k \in 1..k
        OBVIOUS
    <2>2. IsFiniteSet(1..k)
        BY <2>1, FS_Interval
    <2>3. QED
        BY <2>1, <2>2
<1>2. IntegersOn(f, 1..k) /\ f[k] \in Int /\ IntegersOn(f, 1..(k - 1))
    BY DEF IntegersOn
<1>3. SumFunctionOnSet(f, 1..k) = f[k] + SumFunctionOnSet(f, 1..(k - 1))
    BY <1>1, <1>2, SumsRemove
<1>4. SumFunctionOnSet(f, 1..(k - 1)) \in Int
    BY <1>2, SumsType, FS_Interval
<1>5. QED
    BY <1>2, <1>3, <1>4

\* A sequence that is one term longer.
LEMMA SumsAppend ==
    ASSUME NEW n \in Nat, NEW f, NEW g, DOMAIN f = 1..n, DOMAIN g = 1..(n + 1),
           IntegersOn(f, 1..n), \A k \in 1..n : g[k] = f[k], g[n + 1] \in Int
    PROVE  SumFunction(g) = SumFunction(f) + g[n + 1] /\ SumFunction(f) \in Int
<1>1. IntegersOn(g, 1..(n + 1)) /\ n + 1 \in Nat /\ n + 1 \in 1..(n + 1) /\ (n + 1) - 1 = n
    BY DEF IntegersOn
<1>2. SumFunctionOnSet(g, 1..(n + 1)) = SumFunctionOnSet(g, 1..n) + g[n + 1]
    <2>1. SumFunctionOnSet(g, 1..(n + 1)) = SumFunctionOnSet(g, 1..((n + 1) - 1)) + g[n + 1]
        BY <1>1, SumsPrefix
    <2>2. QED
        BY <1>1, <2>1
<1>3. SumFunctionOnSet(g, 1..n) = SumFunctionOnSet(f, 1..n)
    <2>1. IsFiniteSet(1..n) /\ \A k \in 1..n : f[k] = g[k]
        BY FS_Interval
    <2>2. QED
        BY <2>1, SumsAgree
<1>4. SumFunctionOnSet(f, 1..n) \in Int
    BY SumsType, FS_Interval
<1>5. QED
    BY <1>2, <1>3, <1>4 DEF SumFunction

\* A sum does not depend on the order.
LEMMA SumsReindex ==
    ASSUME NEW S, IsFiniteSet(S), NEW T, IsFiniteSet(T), NEW f, NEW g, IntegersOn(f, S),
           NEW to \in [S -> T], \A y \in T : \E x \in S : to[x] = y,
           \A x, y \in S : to[x] = to[y] => x = y, \A x \in S : g[to[x]] = f[x]
    PROVE  SumFunctionOnSet(f, S) = SumFunctionOnSet(g, T)
<1>1. ASSUME NEW y \in T
      PROVE  g[y] = SumFunctionOnSet(f, {x \in S : to[x] = y})
    <2>1. PICK x \in S : to[x] = y
        OBVIOUS
    <2>2. {z \in S : to[z] = y} = {x}
        BY <2>1
    <2>3. f[x] \in Int /\ IsFiniteSet({x}) /\ IntegersOn(f, {x}) /\ {x} \ {x} = {}
        BY FS_Singleton DEF IntegersOn
    <2>4. SumFunctionOnSet(f, {x}) = f[x] + SumFunctionOnSet(f, {x} \ {x})
        BY <2>3, SumsRemove
    <2>5. SumFunctionOnSet(f, {x}) = f[x] + 0
        BY <2>3, <2>4, SumsEmpty
    <2>6. g[y] = f[x]
        BY <2>1
    <2> DEFINE part == {z \in S : to[z] = y}
    <2>7. part = {x}
        BY <2>2
    <2>8. g[y] = SumFunctionOnSet(f, part)
        <3> HIDE DEF part
        <3>1. QED
            BY <2>3, <2>5, <2>6, <2>7
    <2>9. QED
        BY <2>8
<1>2. QED
    BY <1>1, SumsByKind

\* The order does not matter to a sum.
LEMMA SumsReverse ==
    ASSUME NEW n \in Nat, NEW f, NEW g, DOMAIN f = 1..n, DOMAIN g = 1..n,
           IntegersOn(f, 1..n), \A k \in 1..n : g[k] = f[n - k + 1]
    PROVE  SumFunction(f) = SumFunction(g)
<1> DEFINE to == [k \in 1..n |-> n - k + 1]
<1>1. /\ to \in [1..n -> 1..n] /\ \A k \in 1..n : to[k] = n - k + 1
      /\ \A y \in 1..n : \E x \in 1..n : to[x] = y
    <2>1. ASSUME NEW y \in 1..n PROVE n - y + 1 \in 1..n /\ n - (n - y + 1) + 1 = y
        OBVIOUS
    <2>2. QED
        BY <2>1
<1>2. \A x, y \in 1..n : to[x] = to[y] => x = y
    OBVIOUS
<1>3. \A x \in 1..n : g[to[x]] = f[x]
    <2>1. ASSUME NEW y \in 1..n PROVE n - y + 1 \in 1..n /\ n - (n - y + 1) + 1 = y
        OBVIOUS
    <2>2. QED
        BY <2>1
<1>4. IsFiniteSet(1..n)
    BY FS_Interval
<1>5. SumFunctionOnSet(f, 1..n) = SumFunctionOnSet(g, 1..n)
    <2> DEFINE S == 1..n
    <2>1. to \in [S -> S] /\ \A y \in S : \E x \in S : to[x] = y
        BY <1>1
    <2>2. \A x, y \in S : to[x] = to[y] => x = y
        BY <1>2
    <2>3. \A x \in S : g[to[x]] = f[x]
        BY <1>3
    <2>4. IsFiniteSet(S) /\ IntegersOn(f, S)
        BY <1>4
    <2> HIDE DEF to, S
    <2>5. SumFunctionOnSet(f, S) = SumFunctionOnSet(g, S)
        BY ONLY <2>1, <2>2, <2>3, <2>4, SumsReindex
    <2>6. QED
        BY <2>5 DEF S
<1>6. QED
    BY <1>5 DEF SumFunction

\* The values of a function on a finite set are finitely many.
LEMMA FiniteImage ==
    ASSUME NEW S, IsFiniteSet(S), NEW f
    PROVE  IsFiniteSet({f[x] : x \in S})
<1> DEFINE T == {f[x] : x \in S}
           g == [x \in S |-> f[x]]
<1>1. g \in Surjection(S, T)
    BY DEF Surjection
<1>2. IsFiniteSet(T)
    <2> HIDE DEF g, T
    <2>1. QED
        BY <1>1, FS_Surjection
<1>3. QED
    BY <1>2

\* One term changes.
LEMMA PointSum ==
    ASSUME NEW S, IsFiniteSet(S), NEW h, NEW new, DOMAIN h = S, DOMAIN new = S,
           \A x \in S : h[x] \in Int, NEW a \in S, NEW d \in Int, new[a] = h[a] + d,
           \A x \in S \ {a} : new[x] = h[x]
    PROVE  SumFunction(new) = SumFunction(h) + d /\ SumFunction(h) \in Int
<1>1. IntegersOn(h, S) /\ h[a] \in Int /\ new[a] \in Int /\ \A x \in S : x # a => new[x] = h[x]
    BY DEF IntegersOn
<1>2. SumFunctionOnSet(new, S) = SumFunctionOnSet(h, S) + new[a] - h[a]
    BY <1>1, SumsChange
<1>3. SumFunctionOnSet(h, S) \in Int
    BY <1>1, SumsType
<1>4. QED
    BY <1>1, <1>2, <1>3 DEF SumFunction

\* A function with integer values has an integer sum.
LEMMA IntegerSum ==
    ASSUME NEW S, IsFiniteSet(S), NEW h, DOMAIN h = S, \A x \in S : h[x] \in Int
    PROVE  SumFunction(h) \in Int
BY SumsType DEF SumFunction, IntegersOn

\* Sums of nothing but zeros, and of one constant.
LEMMA ConstantSum ==
    ASSUME NEW S, IsFiniteSet(S), NEW c \in Int, NEW h, DOMAIN h = S, \A x \in S : h[x] = c
    PROVE  SumFunction(h) = c * Cardinality(S)
<1>1. SumFunctionOnSet(h, S) = c * Cardinality(S)
    BY SumsConstant
<1>2. QED
    BY <1>1 DEF SumFunction

\* A function that is zero everywhere has the sum zero.
LEMMA ZeroSum ==
    ASSUME NEW S, IsFiniteSet(S), NEW h, DOMAIN h = S, \A x \in S : h[x] = 0
    PROVE  SumFunction(h) = 0
<1>1. SumFunctionOnSet(h, S) = 0
    BY SumsZero
<1>2. QED
    BY <1>1 DEF SumFunction

\* Two functions are summed together.
LEMMA PlusSum ==
    ASSUME NEW S, IsFiniteSet(S), NEW f, NEW g, NEW h,
           DOMAIN f = S, DOMAIN g = S, DOMAIN h = S,
           \A x \in S : f[x] \in Int /\ g[x] \in Int /\ h[x] = f[x] + g[x]
    PROVE  SumFunction(h) = SumFunction(f) + SumFunction(g)
<1>1. IntegersOn(f, S) /\ IntegersOn(g, S)
    BY DEF IntegersOn
<1>2. SumFunctionOnSet(h, S) = SumFunctionOnSet(f, S) + SumFunctionOnSet(g, S)
    BY <1>1, SumsPlus
<1>3. QED
    BY <1>2 DEF SumFunction

\* Or one is subtracted from the other.
LEMMA MinusSum ==
    ASSUME NEW S, IsFiniteSet(S), NEW f, NEW g, NEW h,
           DOMAIN f = S, DOMAIN g = S, DOMAIN h = S,
           \A x \in S : f[x] \in Int /\ g[x] \in Int /\ h[x] = f[x] - g[x]
    PROVE  SumFunction(h) = SumFunction(f) - SumFunction(g)
<1>1. IntegersOn(f, S) /\ IntegersOn(g, S)
    BY DEF IntegersOn
<1>2. SumFunctionOnSet(h, S) = SumFunctionOnSet(f, S) - SumFunctionOnSet(g, S)
    BY <1>1, SumsMinus
<1>3. QED
    BY <1>2 DEF SumFunction

\* Terms that are zero can be left out.
LEMMA FilterSum ==
    ASSUME NEW S, IsFiniteSet(S), NEW f, NEW g, DOMAIN g = S, DOMAIN f \in SUBSET S,
           \A x \in DOMAIN f : f[x] \in Int /\ g[x] = f[x],
           \A x \in S \ DOMAIN f : g[x] = 0
    PROVE  SumFunction(g) = SumFunction(f)
<1>1. IntegersOn(f, DOMAIN f)
    BY DEF IntegersOn
<1>2. SumFunctionOnSet(g, S) = SumFunctionOnSet(f, DOMAIN f)
    BY <1>1, SumsFilter
<1>3. QED
    BY <1>2 DEF SumFunction

\* One term that is not zero.
LEMMA SingleSum ==
    ASSUME NEW S, IsFiniteSet(S), NEW g, DOMAIN g = S, NEW a \in S, g[a] \in Int,
           \A x \in S \ {a} : g[x] = 0
    PROVE  SumFunction(g) = g[a]
<1> DEFINE zero == [x \in S |-> 0]
<1>1. DOMAIN zero = S /\ \A x \in S : zero[x] = 0
    OBVIOUS
<1> HIDE DEF zero
<1>2. SumFunction(zero) = 0
    BY <1>1, ZeroSum
<1>3. (\A x \in S : zero[x] \in Int) /\ g[a] = zero[a] + g[a]
    BY <1>1
<1>4. \A x \in S \ {a} : g[x] = zero[x]
    BY <1>1
<1>5. SumFunction(g) = SumFunction(zero) + g[a]
    BY <1>1, <1>3, <1>4, PointSum
<1>6. QED
    BY <1>2, <1>5

\* A function with the opposite values has the opposite sum.
LEMMA NegativeSum ==
    ASSUME NEW S, IsFiniteSet(S), NEW f, NEW h, DOMAIN f = S, DOMAIN h = S,
           \A x \in S : f[x] \in Int /\ h[x] = -f[x]
    PROVE  SumFunction(h) = -SumFunction(f)
<1> DEFINE zero == [x \in S |-> 0]
<1>1. DOMAIN zero = S /\ \A x \in S : zero[x] = 0 /\ zero[x] \in Int
    OBVIOUS
<1> HIDE DEF zero
<1>2. SumFunction(zero) = 0
    BY <1>1, ZeroSum
<1>3. \A x \in S : zero[x] \in Int /\ f[x] \in Int /\ h[x] = zero[x] - f[x]
    BY <1>1
<1>4. SumFunction(h) = SumFunction(zero) - SumFunction(f)
    BY <1>1, <1>3, MinusSum
<1>5. SumFunction(f) \in Int
    BY IntegerSum
<1>6. QED
    BY <1>2, <1>4, <1>5

\* Summed by rows or by columns.
LEMMA SwapSum ==
    ASSUME NEW S, IsFiniteSet(S), NEW T, IsFiniteSet(T),
           NEW row, \A x \in S : DOMAIN row[x] = T /\ \A y \in T : row[x][y] \in Int,
           NEW column, \A y \in T : DOMAIN column[y] = S /\ \A x \in S : column[y][x] = row[x][y],
           NEW byRow, DOMAIN byRow = S, \A x \in S : byRow[x] = SumFunction(row[x]),
           NEW byColumn, DOMAIN byColumn = T, \A y \in T : byColumn[y] = SumFunction(column[y])
    PROVE  SumFunction(byRow) = SumFunction(byColumn)
<1>1. \A x \in S : IntegersOn(row[x], T) /\ byRow[x] = SumFunctionOnSet(row[x], T)
    BY DEF IntegersOn, SumFunction
<1>2. \A y \in T : byColumn[y] = SumFunctionOnSet(column[y], S)
    BY DEF SumFunction
<1>3. \A x \in S, y \in T : column[y][x] = row[x][y]
    OBVIOUS
<1>4. SumFunctionOnSet(byRow, S) = SumFunctionOnSet(byColumn, T)
    BY <1>1, <1>2, <1>3, SumsSwap
<1>5. QED
    BY <1>4 DEF SumFunction
===========================================================================
