-------------------------- MODULE BetTable_proofs --------------------------
(***************************************************************************)
(* Theorems about the table of bets, for every number and every stake.     *)
(***************************************************************************)
EXTENDS BetTable, FiniteSetTheorems, TLAPS

-----------------------------------------------------------------------------
(* Counting pockets.                                                       *)

(* A set whose elements can be numbered from i to j has j - i + 1 of them. *)
LEMMA Numbered ==
    ASSUME NEW S, NEW i \in Nat, NEW j \in Nat, i <= j, NEW f \in [S -> i .. j],
           \A m, n \in S : f[m] = f[n] => m = n,
           \A k \in i .. j : \E n \in S : f[n] = k
    PROVE  IsFiniteSet(S) /\ Cardinality(S) = j - i + 1
  <1>1. IsFiniteSet(i .. j) /\ Cardinality(i .. j) = j - i + 1
    BY FS_Interval
  <1>2. f \in Injection(S, i .. j) /\ f \in Surjection(S, i .. j)
    BY DEF Injection, Surjection, IsInjective
  <1>. QED BY <1>1, <1>2, FS_Injection

(* Those from a number to another.                                         *)
LEMMA Interval ==
    ASSUME NEW i \in Nat, NEW j \in Nat, i <= j, NEW S, S = i .. j
    PROVE  IsFiniteSet(S) /\ Cardinality(S) = j - i + 1
  BY FS_Interval

(* Red is one number of every pair 2k - 1, 2k.                             *)
LEMMA RedPockets == Cardinality({n \in Pockets : n \in reds}) = 18
  <1>. DEFINE S == {n \in Pockets : n \in reds}
              f == [n \in S |-> (n + 1) \div 2]
              last == 18
  <1>1. f \in [S -> 1 .. last] BY DEF Pockets, MAX_NUMBER, reds
  <1>2. ASSUME NEW m \in S, NEW n \in S, f[m] = f[n] PROVE m = n
    BY <1>2 DEF Pockets, MAX_NUMBER, reds
  <1>3. ASSUME NEW k \in 1 .. last PROVE \E n \in S : f[n] = k
    <2>1. 2 * k - 1 \in S \/ 2 * k \in S BY DEF Pockets, MAX_NUMBER, reds
    <2>. QED BY <2>1
  <1>4. Cardinality(S) = last - 1 + 1
    <2>1. last \in Nat /\ 1 <= last OBVIOUS
    <2>. HIDE DEF S, f, last
    <2>. QED BY <1>1, <1>2, <1>3, <2>1, Numbered
  <1>. QED BY <1>4

(* ... and black is the other.                                             *)
LEMMA BlackPockets == Cardinality({n \in Pockets : n \notin reds /\ ~is_zero(n)}) = 18
  <1>. DEFINE S == {n \in Pockets : n \notin reds /\ ~is_zero(n)}
              f == [n \in S |-> (n + 1) \div 2]
              last == 18
  <1>1. f \in [S -> 1 .. last] BY DEF Pockets, MAX_NUMBER, reds, is_zero
  <1>2. ASSUME NEW m \in S, NEW n \in S, f[m] = f[n] PROVE m = n
    BY <1>2 DEF Pockets, MAX_NUMBER, reds, is_zero
  <1>3. ASSUME NEW k \in 1 .. last PROVE \E n \in S : f[n] = k
    <2>1. 2 * k - 1 \in S \/ 2 * k \in S BY DEF Pockets, MAX_NUMBER, reds, is_zero
    <2>. QED BY <2>1
  <1>4. Cardinality(S) = last - 1 + 1
    <2>1. last \in Nat /\ 1 <= last OBVIOUS
    <2>. HIDE DEF S, f, last
    <2>. QED BY <1>1, <1>2, <1>3, <2>1, Numbered
  <1>. QED BY <1>4

(* The zero is even here.                                                  *)
LEMMA ParityPockets ==
    /\ Cardinality({n \in Pockets : n % 2 = 0}) = 19
    /\ Cardinality({n \in Pockets : n % 2 = 1}) = 18
  <1>1. Cardinality({n \in Pockets : n % 2 = 0}) = 19
    <2>. DEFINE S == {n \in Pockets : n % 2 = 0}
                f == [n \in S |-> n \div 2]
                last == 18
    <2>1. f \in [S -> 0 .. last] BY DEF Pockets, MAX_NUMBER
    <2>2. ASSUME NEW m \in S, NEW n \in S, f[m] = f[n] PROVE m = n
      BY <2>2 DEF Pockets, MAX_NUMBER
    <2>3. ASSUME NEW k \in 0 .. last PROVE \E n \in S : f[n] = k
      <3>1. 2 * k \in S /\ f[2 * k] = k BY DEF Pockets, MAX_NUMBER
      <3>. QED BY <3>1
    <2>4. Cardinality(S) = last - 0 + 1
      <3>1. last \in Nat /\ 0 <= last OBVIOUS
      <3>. HIDE DEF S, f, last
      <3>. QED BY <2>1, <2>2, <2>3, <3>1, Numbered
    <2>. QED BY <2>4
  <1>2. Cardinality({n \in Pockets : n % 2 = 1}) = 18
    <2>. DEFINE S == {n \in Pockets : n % 2 = 1}
                f == [n \in S |-> n \div 2]
                last == 17
    <2>1. f \in [S -> 0 .. last] BY DEF Pockets, MAX_NUMBER
    <2>2. ASSUME NEW m \in S, NEW n \in S, f[m] = f[n] PROVE m = n
      BY <2>2 DEF Pockets, MAX_NUMBER
    <2>3. ASSUME NEW k \in 0 .. last PROVE \E n \in S : f[n] = k
      <3>1. 2 * k + 1 \in S /\ f[2 * k + 1] = k BY DEF Pockets, MAX_NUMBER
      <3>. QED BY <3>1
    <2>4. Cardinality(S) = last - 0 + 1
      <3>1. last \in Nat /\ 0 <= last OBVIOUS
      <3>. HIDE DEF S, f, last
      <3>. QED BY <2>1, <2>2, <2>3, <3>1, Numbered
    <2>. QED BY <2>4
  <1>. QED BY <1>1, <1>2

(* The pockets that leave a given remainder, zeros apart.                  *)
Remainder(d, r) == {n \in Pockets : n % d = r /\ ~is_zero(n)}

LEMMA RemainderPockets ==
    ASSUME NEW d \in {3, 6, 12}, NEW r \in 0 .. d - 1
    PROVE  Cardinality(Remainder(d, r)) = 36 \div d
  <1>. DEFINE S == Remainder(d, r)
              f == [n \in S |-> (n + d - 1) \div d]
  <1>1. f \in [S -> 1 .. (36 \div d)]
    BY DEF Remainder, Pockets, MAX_NUMBER, is_zero
  <1>2. ASSUME NEW m \in S, NEW n \in S, f[m] = f[n] PROVE m = n
    BY <1>2 DEF Remainder, Pockets, MAX_NUMBER, is_zero
  <1>3. ASSUME NEW k \in 1 .. (36 \div d) PROVE \E n \in S : f[n] = k
    <2>. DEFINE n == IF r = 0 THEN d * k ELSE d * (k - 1) + r
    <2>1. CASE d = 3
      <3>1. n \in S /\ f[n] = k BY <2>1 DEF Remainder, Pockets, MAX_NUMBER, is_zero
      <3>. QED BY <3>1
    <2>2. CASE d = 6
      <3>1. n \in S /\ f[n] = k BY <2>2 DEF Remainder, Pockets, MAX_NUMBER, is_zero
      <3>. QED BY <3>1
    <2>3. CASE d = 12
      <3>1. n \in S /\ f[n] = k BY <2>3 DEF Remainder, Pockets, MAX_NUMBER, is_zero
      <3>. QED BY <3>1
    <2>. QED BY <2>1, <2>2, <2>3
  <1>4. 36 \div d \in Nat /\ 1 <= 36 \div d OBVIOUS
  <1>5. Cardinality(S) = (36 \div d) - 1 + 1
    <2>. HIDE DEF S, f
    <2>. QED BY <1>1, <1>2, <1>3, <1>4, Numbered
  <1>. QED BY <1>4, <1>5

(* No number is above the divisor.                                         *)
LEMMA NoRemainder ==
    ASSUME NEW d \in {3, 6, 12}, NEW r \in Nat, r >= d
    PROVE  Remainder(d, r) = {}
  BY DEF Remainder, Pockets, MAX_NUMBER

(* Sets of one, two and four.                                              *)
LEMMA Few ==
    /\ \A x : IsFiniteSet({x}) /\ Cardinality({x}) = 1
    /\ \A x, y : x # y => IsFiniteSet({x, y}) /\ Cardinality({x, y}) = 2
  <1>1. \A x : IsFiniteSet({x}) /\ Cardinality({x}) = 1 BY FS_Singleton
  <1>2. ASSUME NEW x, NEW y, x # y
        PROVE  IsFiniteSet({x, y}) /\ Cardinality({x, y}) = 2
    <2>1. {x, y} = {x} \cup {y} /\ y \notin {x} BY <1>2
    <2>2. /\ IsFiniteSet({x} \cup {y})
          /\ Cardinality({x} \cup {y}) = Cardinality({x}) + 1
      BY <1>1, <2>1, FS_AddElement
    <2>. QED BY <1>1, <2>1, <2>2
  <1>. QED BY <1>1, <1>2

LEMMA Four ==
    ASSUME NEW x, NEW y, NEW z, NEW w, x # y, x # z, x # w, y # z, y # w, z # w
    PROVE  Cardinality({x, y, z, w}) = 4
  <1>. DEFINE S == {x, y}
              T == S \cup {z}
  <1>1. IsFiniteSet(S) /\ Cardinality(S) = 2 /\ z \notin S BY Few
  <1>2. w \notin T /\ {x, y, z, w} = T \cup {w} OBVIOUS
  <1>. HIDE DEF S
  <1>3. IsFiniteSet(T) /\ Cardinality(T) = 3 BY <1>1, FS_AddElement
  <1>. HIDE DEF T
  <1>4. Cardinality(T \cup {w}) = 4 BY <1>2, <1>3, FS_AddElement
  <1>. QED BY <1>2, <1>4

-----------------------------------------------------------------------------
(* The winning pockets of each type.                                       *)

(* The 2x2 block of the layout whose first row is number \div 2, and first *)
(* column number % 2, begins here.                                         *)
First(number) == 3 * (number \div 2) + (number % 2) + 1

(* The corner table is those blocks, row by row.                           *)
LEMMA CornerBlocks ==
    \A number \in 0 .. 21 : LET m == First(number)
                            IN  /\ m \in 1 .. 32
                                /\ corner(number) = {m, m + 1, m + 3, m + 4}
  <1>1. \A k \in 0 .. 10 : /\ First(2 * k) = 3 * k + 1
                           /\ First(2 * k + 1) = 3 * k + 2
    BY DEF First
  <1>2. \A number \in 0 .. 21 : \E k \in 0 .. 10 : number = 2 * k \/ number = 2 * k + 1
    <2>1. \A number \in 0 .. 21 :
              /\ number \div 2 \in 0 .. 10
              /\ number = 2 * (number \div 2) \/ number = 2 * (number \div 2) + 1
      OBVIOUS
    <2>. QED BY <2>1
  <1>3. \A k \in 0 .. 10 :
            LET m == 3 * k
            IN  /\ corner(2 * k) = {m + 1, m + 2, m + 4, m + 5}
                /\ corner(2 * k + 1) = {m + 2, m + 3, m + 5, m + 6}
    BY DEF corner, corners
  <1>. QED BY <1>1, <1>2, <1>3

(* How many pockets win each bet that validate lets through.               *)
Chances(b) ==
    CASE b.type \in {"even", "low"}         -> 19
      [] b.type \in {"red", "black", "odd", "high"} -> 18
      [] b.type = "dozen"                   -> 12
      [] b.type = "street"                  -> IF b.number < 3 THEN 12 ELSE 0
      [] b.type = "line"                    -> IF b.number < 6 THEN 6 ELSE 0
      [] b.type \in {"basket", "corner"}    -> 4
      [] b.type = "column"                  -> 3
      [] b.type \in {"hsplit", "vsplit"}    -> IF b.number = 0 THEN 1 ELSE 2
      [] b.type \in {"zero", "straight"}    -> 1

(* For every bet that validate lets through, the number of pockets of the  *)
(* wheel for which wining() is true.                                       *)
THEOREM WinningPockets ==
    ASSUME NEW b, b.type \in BetTypes, b.number \in Nat, validate(b)
    PROVE  IsFiniteSet(WinningOf(b)) /\ Cardinality(WinningOf(b)) = Chances(b)
  <1>. DEFINE W == WinningOf(b)
  <1>1. IsFiniteSet(W)
    <2>1. IsFiniteSet(Pockets)
      <3>1. 0 \in Nat /\ 36 \in Nat /\ 0 <= 36 /\ Pockets = 0 .. 36 BY DEF Pockets, MAX_NUMBER
      <3>. QED BY <3>1, Interval, Zenon
    <2>. QED BY <2>1, FS_Subset DEF WinningOf
  <1>2. ASSUME b.type = "red" PROVE Cardinality(W) = Chances(b)
    <2>1. W = {n \in Pockets : n \in reds} BY <1>2 DEF WinningOf, wining
    <2>. QED BY <1>2, <2>1, RedPockets DEF Chances
  <1>3. ASSUME b.type = "black" PROVE Cardinality(W) = Chances(b)
    <2>1. W = {n \in Pockets : n \notin reds /\ ~is_zero(n)} BY <1>3 DEF WinningOf, wining
    <2>. QED BY <1>3, <2>1, BlackPockets DEF Chances
  <1>4. ASSUME b.type = "even" PROVE Cardinality(W) = Chances(b)
    <2>1. W = {n \in Pockets : n % 2 = 0} BY <1>4 DEF WinningOf, wining
    <2>. QED BY <1>4, <2>1, ParityPockets DEF Chances
  <1>5. ASSUME b.type = "odd" PROVE Cardinality(W) = Chances(b)
    <2>1. W = {n \in Pockets : n % 2 = 1} BY <1>5 DEF WinningOf, wining
    <2>. QED BY <1>5, <2>1, ParityPockets DEF Chances
  <1>6. ASSUME b.type = "low" PROVE Cardinality(W) = Chances(b)
    <2>1. W = 0 .. 18 BY <1>6 DEF WinningOf, wining, Pockets, MAX_NUMBER
    <2>2. Cardinality(W) = 18 - 0 + 1
      <3>1. 0 \in Nat /\ 18 \in Nat /\ 0 <= 18 OBVIOUS
      <3>. QED BY <2>1, <3>1, Interval, Zenon
    <2>. QED BY <1>6, <2>2 DEF Chances
  <1>7. ASSUME b.type = "high" PROVE Cardinality(W) = Chances(b)
    <2>1. W = 19 .. 36 BY <1>7 DEF WinningOf, wining, Pockets, MAX_NUMBER
    <2>2. Cardinality(W) = 36 - 19 + 1
      <3>1. 19 \in Nat /\ 36 \in Nat /\ 19 <= 36 OBVIOUS
      <3>. QED BY <2>1, <3>1, Interval, Zenon
    <2>. QED BY <1>7, <2>2 DEF Chances
  <1>8. ASSUME b.type = "zero" PROVE Cardinality(W) = Chances(b)
    <2>1. W = {0} BY <1>8 DEF WinningOf, wining, is_zero, Pockets, MAX_NUMBER
    <2>. QED BY <1>8, <2>1, Few DEF Chances
  <1>9. ASSUME b.type = "basket" PROVE Cardinality(W) = Chances(b)
    <2>1. W = 0 .. 3 BY <1>9 DEF WinningOf, wining, Pockets, MAX_NUMBER
    <2>2. Cardinality(W) = 3 - 0 + 1
      <3>1. 0 \in Nat /\ 3 \in Nat /\ 0 <= 3 OBVIOUS
      <3>. QED BY <2>1, <3>1, Interval, Zenon
    <2>. QED BY <1>9, <2>2 DEF Chances
  <1>10. ASSUME b.type = "column" PROVE Cardinality(W) = Chances(b)
    <2>1. W = Remainder(12, b.number) BY <1>10 DEF WinningOf, wining, Remainder
    <2>2. b.number \in 0 .. 12 - 1 BY <1>10 DEF validate, norm_number, range_ends, BetTypes, Outside
    <2>. QED BY <1>10, <2>1, <2>2, RemainderPockets DEF Chances
  <1>11. ASSUME b.type = "dozen" PROVE Cardinality(W) = Chances(b)
    <2>1. W = Remainder(3, b.number) BY <1>11 DEF WinningOf, wining, Remainder
    <2>2. b.number \in 0 .. 3 - 1 BY <1>11 DEF validate, norm_number, range_ends, BetTypes, Outside
    <2>. QED BY <1>11, <2>1, <2>2, RemainderPockets DEF Chances
  <1>12. ASSUME b.type = "street" PROVE Cardinality(W) = Chances(b)
    <2>1. W = Remainder(3, b.number) BY <1>12 DEF WinningOf, wining, Remainder
    <2>2. CASE b.number < 3
      <3>1. b.number \in 0 .. 3 - 1 BY <2>2
      <3>. QED BY <1>12, <2>1, <2>2, <3>1, RemainderPockets DEF Chances
    <2>3. CASE b.number >= 3
      BY <1>12, <2>1, <2>3, NoRemainder, FS_EmptySet DEF Chances
    <2>. QED BY <2>2, <2>3
  <1>13. ASSUME b.type = "line" PROVE Cardinality(W) = Chances(b)
    <2>1. W = Remainder(6, b.number) BY <1>13 DEF WinningOf, wining, Remainder
    <2>2. CASE b.number < 6
      <3>1. b.number \in 0 .. 6 - 1 BY <2>2
      <3>. QED BY <1>13, <2>1, <2>2, <3>1, RemainderPockets DEF Chances
    <2>3. CASE b.number >= 6
      BY <1>13, <2>1, <2>3, NoRemainder, FS_EmptySet DEF Chances
    <2>. QED BY <2>2, <2>3
  <1>14. ASSUME b.type = "corner" PROVE Cardinality(W) = Chances(b)
    <2>. DEFINE m == First(b.number)
    <2>1. b.number \in 0 .. 21
      BY <1>14 DEF validate, norm_number, range_ends, BetTypes, Outside
    <2>2. m \in 1 .. 32 /\ corner(b.number) = {m, m + 1, m + 3, m + 4}
      BY <2>1, CornerBlocks
    <2>3. W = {n \in Pockets : n \in corner(b.number)} BY <1>14 DEF WinningOf, wining
    <2>. HIDE DEF m
    <2>4. PICK x, y, z : x = m + 1 /\ y = m + 3 /\ z = m + 4 OBVIOUS
    <2>5. W = {m, x, y, z} BY <2>2, <2>3, <2>4 DEF Pockets, MAX_NUMBER
    <2>6. m # x /\ m # y /\ m # z /\ x # y /\ x # z /\ y # z BY <2>2, <2>4
    <2>7. Cardinality({m, x, y, z}) = 4 BY <2>6, Four
    <2>. QED BY <1>14, <2>5, <2>7 DEF Chances
  <1>15. ASSUME b.type = "hsplit" PROVE Cardinality(W) = Chances(b)
    <2>1. b.number \in 0 .. 23
      BY <1>15 DEF validate, norm_number, range_ends, BetTypes, Outside
    <2>. DEFINE m == 3 * (b.number \div 2) + (b.number % 2)
    <2>2. m \in 0 .. 34 /\ (m = 0 <=> b.number = 0) BY <2>1
    <2>3. W = {n \in Pockets : n \in {m, m + 1} /\ n # 0}
      BY <1>15, <2>1 DEF WinningOf, wining, HSplitWins, is_zero, Pockets, MAX_NUMBER
    <2>. HIDE DEF m
    <2>4. CASE m = 0
      <3>1. W = {1} BY <2>3, <2>4 DEF Pockets, MAX_NUMBER
      <3>. QED BY <1>15, <2>2, <2>4, <3>1, Few DEF Chances
    <2>5. CASE m # 0
      <3>1. W = {m, m + 1} /\ m # m + 1 BY <2>2, <2>3, <2>5 DEF Pockets, MAX_NUMBER
      <3>2. Cardinality({m, m + 1}) = 2 BY <3>1, Few, Zenon
      <3>. QED BY <1>15, <2>2, <2>5, <3>1, <3>2 DEF Chances
    <2>. QED BY <2>4, <2>5
  <1>16. ASSUME b.type = "vsplit" PROVE Cardinality(W) = Chances(b)
    <2>1. b.number \in 0 .. 32
      BY <1>16 DEF validate, norm_number, range_ends, BetTypes, Outside
    <2>2. CASE b.number = 0
      <3>1. W = {3} BY <1>16, <2>2 DEF WinningOf, wining, is_zero, Pockets, MAX_NUMBER
      <3>. QED BY <1>16, <2>2, <3>1, Few DEF Chances
    <2>3. CASE b.number # 0
      <3>1. W = {b.number, b.number + 3} /\ b.number # b.number + 3
        BY <1>16, <2>1, <2>3 DEF WinningOf, wining, is_zero, Pockets, MAX_NUMBER
      <3>2. Cardinality({b.number, b.number + 3}) = 2 BY <3>1, Few, Zenon
      <3>. QED BY <1>16, <2>3, <3>1, <3>2 DEF Chances
    <2>. QED BY <2>2, <2>3
  <1>17. ASSUME b.type = "straight" PROVE Cardinality(W) = Chances(b)
    <2>1. b.number \in 0 .. 35
      BY <1>17 DEF validate, norm_number, range_ends, BetTypes, Outside
    <2>2. W = {b.number} BY <1>17, <2>1 DEF WinningOf, wining, Pockets, MAX_NUMBER
    <2>. QED BY <1>17, <2>2, Few DEF Chances
  <1>. QED
    BY <1>1, <1>2, <1>3, <1>4, <1>5, <1>6, <1>7, <1>8, <1>9, <1>10, <1>11, <1>12, <1>13,
       <1>14, <1>15, <1>16, <1>17 DEF BetTypes, Outside

-----------------------------------------------------------------------------
(* The invariants of the table.                                            *)

(* What is requested is a bet, and stays so; the ball lies in a pocket only *)
(* when validate has let the bet through: the corner of any other number is *)
(* past the end of the table.                                              *)
Fits ==
    /\ bet \in Requests
    /\ ball # NoBall => ball \in Pockets /\ validate(bet)

LEMMA Fitting == Spec => []Fits
  <1>1. Init => Fits BY DEF Init, Fits
  <1>2. Fits /\ [Next]_vars => Fits' BY DEF Fits, Next, vars, Refuse, Spin, Again
  <1>. QED BY <1>1, <1>2, PTL DEF Spec

(* A request is a bet with natural numbers.                                *)
LEMMA Requested ==
    Fits => bet.type \in BetTypes /\ bet.number \in Nat /\ bet.value \in Nat
  BY RequestsAssumption DEF Fits, Requests

(* BetsThatCannotWin: of the bets validate lets through, on any number, it *)
(* is the lines above the sixth and the streets above the third that no    *)
(* pocket pays.                                                            *)
THEOREM SomeCannotWin == Spec => []BetsThatCannotWin
  <1>1. ASSUME Fits PROVE BetsThatCannotWin
    <2>. SUFFICES ASSUME validate(bet)
                  PROVE  WinningOf(bet) = {} <=> Chances(bet) = 0
      BY <1>1, Requested DEF BetsThatCannotWin, Chances, BetTypes, Outside
    <2>. QED BY <1>1, Requested, WinningPockets, FS_EmptySet
  <1>. QED BY <1>1, Fitting, PTL

(* HouseEdge: for any stake, what a spin of every pocket adds to the       *)
(* balance is positive for even, low and the first streets only, and never*)
(* zero with anything at stake.                                            *)
THEOREM HouseKeepsEdge == Spec => []HouseEdge
  <1>1. ASSUME Fits, validate(bet) PROVE HouseEdge
    <2>. DEFINE v == bet.value
                gains == \/ bet.type \in {"even", "low"}
                         \/ bet.type = "street" /\ bet.number < 3
    <2>1. bet.type \in BetTypes /\ bet.number \in Nat /\ v \in Nat BY <1>1, Requested
    <2>2. WheelTotal(bet) = Chances(bet) * (v * multipliers[bet.type]) - (37 - Chances(bet)) * v
      BY <1>1, <2>1, WinningPockets DEF WheelTotal, MAX_NUMBER
    <2>3. \E e \in Int \ {0} : WheelTotal(bet) = e * v /\ (e > 0 <=> gains)
      <3>. DEFINE Comes(c, k) == Chances(bet) = c /\ multipliers[bet.type] = k
      <3>. USE DEF BetTypes, Outside, Chances, multipliers
      <3>1. CASE bet.type \in {"even", "low"}
        <4>1. Comes(19, 1) BY <2>1, <3>1
        <4>2. WheelTotal(bet) = 1 * v /\ gains BY <2>1, <2>2, <3>1, <4>1
        <4>. QED BY <4>2
      <3>2. CASE bet.type \in {"red", "black", "odd", "high"}
        <4>1. Comes(18, 1) BY <2>1, <3>2
        <4>2. WheelTotal(bet) = (-1) * v /\ ~gains BY <2>1, <2>2, <3>2, <4>1
        <4>. QED BY <4>2
      <3>3. CASE bet.type = "dozen"
        <4>1. Comes(12, 2) BY <2>1, <3>3
        <4>2. WheelTotal(bet) = (-1) * v /\ ~gains BY <2>1, <2>2, <3>3, <4>1
        <4>. QED BY <4>2
      <3>4. CASE bet.type = "street" /\ bet.number < 3
        <4>1. Comes(12, 11) BY <2>1, <3>4
        <4>2. WheelTotal(bet) = 107 * v /\ gains BY <2>1, <2>2, <3>4, <4>1
        <4>. QED BY <4>2
      <3>5. CASE (bet.type = "street" /\ bet.number >= 3) \/ (bet.type = "line" /\ bet.number >= 6)
        <4>1. Chances(bet) = 0 /\ multipliers[bet.type] \in Int BY <2>1, <3>5
        <4>2. WheelTotal(bet) = (-37) * v /\ ~gains BY <2>1, <2>2, <3>5, <4>1
        <4>. QED BY <4>2
      <3>6. CASE bet.type = "line" /\ bet.number < 6
        <4>1. Comes(6, 5) BY <2>1, <3>6
        <4>2. WheelTotal(bet) = (-1) * v /\ ~gains BY <2>1, <2>2, <3>6, <4>1
        <4>. QED BY <4>2
      <3>7. CASE bet.type = "basket"
        <4>1. Comes(4, 6) BY <2>1, <3>7
        <4>2. WheelTotal(bet) = (-9) * v /\ ~gains BY <2>1, <2>2, <3>7, <4>1
        <4>. QED BY <4>2
      <3>8. CASE bet.type = "corner"
        <4>1. Comes(4, 8) BY <2>1, <3>8
        <4>2. WheelTotal(bet) = (-1) * v /\ ~gains BY <2>1, <2>2, <3>8, <4>1
        <4>. QED BY <4>2
      <3>9. CASE bet.type = "column"
        <4>1. Comes(3, 2) BY <2>1, <3>9
        <4>2. WheelTotal(bet) = (-28) * v /\ ~gains BY <2>1, <2>2, <3>9, <4>1
        <4>. QED BY <4>2
      <3>10. CASE bet.type \in {"hsplit", "vsplit"} /\ bet.number # 0
        <4>1. Comes(2, 17) BY <2>1, <3>10
        <4>2. WheelTotal(bet) = (-1) * v /\ ~gains BY <2>1, <2>2, <3>10, <4>1
        <4>. QED BY <4>2
      <3>11. CASE (bet.type \in {"hsplit", "vsplit"} /\ bet.number = 0) \/ bet.type = "zero"
        <4>1. Comes(1, 17) BY <2>1, <3>11
        <4>2. WheelTotal(bet) = (-19) * v /\ ~gains BY <2>1, <2>2, <3>11, <4>1
        <4>. QED BY <4>2
      <3>12. CASE bet.type = "straight"
        <4>1. Comes(1, 35) BY <2>1, <3>12
        <4>2. WheelTotal(bet) = (-1) * v /\ ~gains BY <2>1, <2>2, <3>12, <4>1
        <4>. QED BY <4>2
      <3>13. \/ bet.type \in {"even", "low"}
             \/ bet.type \in {"red", "black", "odd", "high"}
             \/ bet.type = "dozen"
             \/ bet.type = "street" /\ bet.number < 3
             \/ (bet.type = "street" /\ bet.number >= 3) \/ (bet.type = "line" /\ bet.number >= 6)
             \/ bet.type = "line" /\ bet.number < 6
             \/ bet.type = "basket"
             \/ bet.type = "corner"
             \/ bet.type = "column"
             \/ bet.type \in {"hsplit", "vsplit"} /\ bet.number # 0
             \/ (bet.type \in {"hsplit", "vsplit"} /\ bet.number = 0) \/ bet.type = "zero"
             \/ bet.type = "straight"
        BY <2>1
      <3>. QED BY <3>1, <3>2, <3>3, <3>4, <3>5, <3>6, <3>7,
                  <3>8, <3>9, <3>10, <3>11, <3>12, <3>13, Zenon
    <2>4. \A e \in Int \ {0}, u \in Nat : /\ e * u > 0 <=> e > 0 /\ u > 0
                                          /\ e * u = 0 <=> u = 0
      OBVIOUS
    <2>. QED BY <2>1, <2>3, <2>4 DEF HouseEdge
  <1>2. ~validate(bet) => HouseEdge BY DEF HouseEdge
  <1>. QED BY <1>1, <1>2, Fitting, PTL

(* ZeroPays: what a zero pays is every bet on it, and even and low.        *)
THEOREM ZeroPaysFew == Spec => []ZeroPays
  <1>1. ASSUME Fits PROVE ZeroPays
    <2>. SUFFICES ASSUME ball = 0
                  PROVE  wining(0, bet) <=>
                             \/ bet.type \in {"zero", "basket", "even", "low"}
                             \/ bet.type = "straight" /\ bet.number = 0
      BY DEF ZeroPays
    <2>1. bet.type \in BetTypes /\ bet.number \in Nat BY <1>1, Requested
    <2>2. is_zero(0) /\ 0 \notin reds BY DEF is_zero, reds
    <2>3. ASSUME bet.type = "corner" PROVE ~wining(0, bet)
      <3>1. validate(bet) BY <1>1 DEF Fits, NoBall
      <3>2. bet.number \in 0 .. 21
        BY <2>1, <2>3, <3>1 DEF validate, norm_number, range_ends, BetTypes, Outside
      <3>3. 0 \notin corner(bet.number) BY <3>2, CornerBlocks
      <3>. QED BY <2>3, <3>3 DEF wining
    <2>. QED BY <2>1, <2>2, <2>3 DEF wining, BetTypes, Outside
  <1>. QED BY <1>1, Fitting, PTL

(* ColoursPartition: every pocket has one colour.                          *)
THEOREM OneColour == Spec => []ColoursPartition
  <1>1. ASSUME Fits PROVE ColoursPartition
    <2>. SUFFICES ASSUME ball # NoBall
                  PROVE  Cardinality({c \in {"red", "black", "zero"} : wining(ball, On(c))}) = 1
      BY DEF ColoursPartition
    <2>1. ball \in Pockets BY <1>1 DEF Fits
    <2>2. /\ wining(ball, On("red")) <=> ball \in reds
          /\ wining(ball, On("black")) <=> ball \notin reds /\ ~is_zero(ball)
          /\ wining(ball, On("zero")) <=> is_zero(ball)
      BY DEF wining, On
    <2>3. ball \in reds => ~is_zero(ball) BY DEF reds, is_zero
    <2>4. \E colour : {c \in {"red", "black", "zero"} : wining(ball, On(c))} = {colour}
      <3>1. CASE ball \in reds
        <4>1. {c \in {"red", "black", "zero"} : wining(ball, On(c))} = {"red"}
          BY <2>2, <2>3, <3>1
        <4>. QED BY <4>1
      <3>2. CASE is_zero(ball)
        <4>1. {c \in {"red", "black", "zero"} : wining(ball, On(c))} = {"zero"}
          BY <2>2, <2>3, <3>2
        <4>. QED BY <4>1
      <3>3. CASE ball \notin reds /\ ~is_zero(ball)
        <4>1. {c \in {"red", "black", "zero"} : wining(ball, On(c))} = {"black"}
          BY <2>2, <3>3
        <4>. QED BY <4>1
      <3>. QED BY <3>1, <3>2, <3>3
    <2>. QED BY <2>4, Few
  <1>. QED BY <1>1, Fitting, PTL

(* CornersFollowLayout: a corner bet wins on the four numbers of its block.*)
THEOREM CornersAreBlocks == Spec => []CornersFollowLayout
  <1>1. ASSUME Fits PROVE CornersFollowLayout
    <2>. SUFFICES ASSUME validate(bet), bet.type = "corner"
                  PROVE  WinningOf(bet) =
                             {n \in 1 .. 36 : /\ Row(n) - (bet.number \div 2) \in {0, 1}
                                              /\ Col(n) - (bet.number % 2) \in {0, 1}}
      BY DEF CornersFollowLayout
    <2>. DEFINE m == First(bet.number)
    <2>1. bet.number \in 0 .. 21
      BY <1>1, Requested DEF validate, norm_number, range_ends, BetTypes, Outside
    <2>2. m \in 1 .. 32 /\ corner(bet.number) = {m, m + 1, m + 3, m + 4}
      BY <2>1, CornerBlocks
    <2>3. WinningOf(bet) = {n \in Pockets : n \in corner(bet.number)}
      BY DEF WinningOf, wining
    <2>4. ASSUME NEW n \in 1 .. 36
          PROVE  /\ Row(n) - (bet.number \div 2) \in {0, 1}
                 /\ Col(n) - (bet.number % 2) \in {0, 1}
                 <=> n \in {m, m + 1, m + 3, m + 4}
      <3>. DEFINE q == bet.number \div 2
                  e == bet.number % 2
      <3>1. q \in 0 .. 10 /\ e \in 0 .. 1 BY <2>1
      <3>2. m = 3 * q + e + 1 BY DEF First
      <3>3. n = 3 * Row(n) + Col(n) + 1 /\ Row(n) \in 0 .. 11 /\ Col(n) \in 0 .. 2
        BY DEF Row, Col
      <3>. HIDE DEF q, e, m
      <3>4. /\ Row(n) - q \in {0, 1}
            /\ Col(n) - e \in {0, 1}
            <=> n \in {m, m + 1, m + 3, m + 4}
        BY <3>1, <3>2, <3>3
      <3>. QED BY <3>4 DEF q, e, m
    <2>. QED BY <2>2, <2>3, <2>4 DEF Pockets, MAX_NUMBER
  <1>. QED BY <1>1, Fitting, PTL
=============================================================================
