-------------------------------- MODULE Bets --------------------------------
(***************************************************************************)
(* The table of bets: config.h (namespace bets), Server::validate and      *)
(* Server::wining, and the sum of do_bet.  A bet is [type, number, value]; *)
(* number is the zero-based index the server works with.                   *)
(***************************************************************************)
EXTENDS Integers, FiniteSets, Sequences

MAX_NUMBER == 37
Pockets == 0 .. MAX_NUMBER - 1         \* what std::rand() % MAX_NUMBER can be

Outside == {"red", "black", "even", "odd", "low", "high", "zero", "basket"}
BetTypes == Outside \cup {"column", "dozen", "line", "street", "corner",
                          "hsplit", "vsplit", "straight"}

\* Mutant: the rows of dozen and street swapped.
range_ends_swapped == [type \in BetTypes |->
    CASE type \in Outside              -> 1
      [] type \in {"column", "street"} -> 3
      [] type = "line"                 -> 11
      [] type = "dozen"                -> 12
      [] type = "corner"               -> 22
      [] type = "hsplit"               -> 24
      [] type = "vsplit"               -> 33
      [] type = "straight"             -> 36]

\* bets::ranges: the lower end is 1 for every type, this is the upper one.
range_ends == [type \in BetTypes |->
    CASE type \in Outside             -> 1
      [] type \in {"column", "dozen"} -> 3
      [] type = "line"                -> 11
      [] type = "street"              -> 12
      [] type = "corner"              -> 22
      [] type = "hsplit"              -> 24
      [] type = "vsplit"              -> 33
      [] type = "straight"            -> 36]

\* Mutant: the multipliers of line and corner swapped.
multipliers_swapped == [type \in BetTypes |->
    CASE type \in Outside \ {"zero", "basket"} -> 1
      [] type = "basket"                       -> 6
      [] type \in {"column", "dozen"}          -> 2
      [] type = "line"                         -> 8
      [] type = "street"                       -> 11
      [] type = "corner"                       -> 5
      [] type \in {"zero", "hsplit", "vsplit"} -> 17
      [] type = "straight"                     -> 35]

\* bets::multipliers.
multipliers == [type \in BetTypes |->
    CASE type \in Outside \ {"zero", "basket"} -> 1
      [] type = "basket"                       -> 6
      [] type \in {"column", "dozen"}          -> 2
      [] type = "line"                         -> 5
      [] type = "street"                       -> 11
      [] type = "corner"                       -> 8
      [] type \in {"zero", "hsplit", "vsplit"} -> 17
      [] type = "straight"                     -> 35]

\* Mutant: the zero listed among the reds.
reds_with_zero == {0, 1, 3, 5, 7, 9, 12, 14, 16, 18, 19, 21, 23, 25, 27, 30, 32, 34, 36}

reds == {1, 3, 5, 7, 9, 12, 14, 16, 18, 19, 21, 23, 25, 27, 30, 32, 34, 36}

corners == <<
    {1, 2, 4, 5},     {2, 3, 5, 6},     {4, 5, 7, 8},     {5, 6, 8, 9},
    {7, 8, 10, 11},   {8, 9, 11, 12},   {10, 11, 13, 14}, {11, 12, 14, 15},
    {13, 14, 16, 17}, {14, 15, 17, 18}, {16, 17, 19, 20}, {17, 18, 20, 21},
    {19, 20, 22, 23}, {20, 21, 23, 24}, {22, 23, 25, 26}, {23, 24, 26, 27},
    {25, 26, 28, 29}, {26, 27, 29, 30}, {28, 29, 31, 32}, {29, 30, 32, 33},
    {31, 32, 34, 35}, {32, 33, 35, 36} >>

\* Mutant: the corners read one place late.
corner_late(number) == corners[((number + 1) % 22) + 1]

corner(number) == corners[number + 1]

\* Server::validate: the number is shifted by one before the range is tested.
norm_number(bet) == bet.number + 1
validate(bet) ==
    /\ bet.type \in BetTypes
    /\ 1 <= norm_number(bet)
    /\ norm_number(bet) <= range_ends[bet.type]

\* Mutant: only the second zero counts.
is_double_zero(n) == n = 37

is_zero(n) == n \in {0, 37}

\* The two pockets of a horizontal split, seen from the pocket n: splits 2k
\* and 2k+1 belong to the k-th group of three, by n / 3 and n % 3.
HSplitWins(n, number) ==
    LET line == (n \div 3) * 2
        position == n % 3
    IN  \/ number = line /\ position \in {0, 1}
        \/ number = line + 1 /\ position \in {1, 2}

\* Server::wining(random_number, bet).
wining(n, bet) ==
    \/ bet.type = "red"      /\ n \in reds
    \/ bet.type = "black"    /\ n \notin reds /\ ~is_zero(n)
    \/ bet.type = "even"     /\ n % 2 = 0
    \/ bet.type = "odd"      /\ n % 2 = 1
    \/ bet.type = "low"      /\ n < 19
    \/ bet.type = "high"     /\ n > 18
    \/ bet.type = "zero"     /\ is_zero(n)
    \/ bet.type = "basket"   /\ n \in 0 .. 3 \cup {37}
    \/ bet.type = "column"   /\ n % 12 = bet.number /\ ~is_zero(n)
    \/ bet.type \in {"dozen", "street"} /\ n % 3 = bet.number /\ ~is_zero(n)
    \/ bet.type = "line"     /\ n % 6 = bet.number /\ ~is_zero(n)
    \/ bet.type = "corner"   /\ n \in corner(bet.number)
    \/ bet.type = "hsplit"   /\ ~is_zero(n) /\ HSplitWins(n, bet.number)
    \/ bet.type = "vsplit"   /\ bet.number \in {n, n - 3} /\ ~is_zero(n)
    \/ bet.type = "straight" /\ n = bet.number

\* The amount Server::pay adds to the balance of the player.
Winnings(n, bet) ==
    IF wining(n, bet) THEN bet.value * multipliers[bet.type] ELSE -bet.value

\* value, after each iteration of the loop that adds up the bets of a player.
sums(bets) ==
    LET sum[k \in 0 .. Len(bets)] == IF k = 0 THEN 0 ELSE sum[k - 1] + bets[k].value
    IN  sum

Staked(bets) == sums(bets)[Len(bets)]
=============================================================================
