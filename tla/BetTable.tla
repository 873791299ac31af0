------------------------------ MODULE BetTable ------------------------------
(***************************************************************************)
(* The table of bets driven by the bets a client can ask for: a request is *)
(* refused by validate, or the wheel is spun on it, again and again.  Here *)
(* is what the tables of config.h and the rule of wining() come to, wheel  *)
(* and layout being what they are.                                         *)
(***************************************************************************)
EXTENDS Bets

CONSTANTS Numbers,  \* the numbers clients bet on, and how much
          Values    \* they bet: command_bet takes every int that is not negative

ASSUME RequestsAssumption == Numbers \subseteq Nat /\ Values \subseteq Nat

VARIABLES bet,     \* the requested bet
          ball     \* the pocket of the last spin, or NoBall
vars == <<bet, ball>>

NoBall == -1

Requests == [type : BetTypes, number : Numbers, value : Values]

Init == bet \in Requests /\ ball = NoBall

Refuse == ~validate(bet) /\ UNCHANGED vars
Spin   == validate(bet) /\ ball = NoBall /\ ball' \in Pockets /\ UNCHANGED bet
Again  == ball # NoBall /\ ball' = NoBall /\ UNCHANGED bet

Next == Refuse \/ Spin \/ Again
Spec == Init /\ [][Next]_vars

WinningOf(b) == {n \in Pockets : wining(n, b)}

\* What pay() adds to a balance over one spin of every pocket, all told.
WheelTotal(b) ==
    LET wins == Cardinality(WinningOf(b))
    IN  wins * (b.value * multipliers[b.type]) - (MAX_NUMBER - wins) * b.value
-----------------------------------------------------------------------------
\* Over a spin of every pocket the player gains, with any stake, by "even" and
\* "low", which count the zero, and by the first three streets, which win on
\* every third number; by every other multiplier of config.h he loses, under the
\* winning rule of wining().
HouseEdge ==
    validate(bet) =>
        /\ WheelTotal(bet) > 0 <=> /\ bet.value > 0
                                   /\ \/ bet.type \in {"even", "low"}
                                      \/ bet.type = "street" /\ bet.number < 3
        /\ WheelTotal(bet) = 0 <=> bet.value = 0

\* validate() lets through bets no pocket can pay, and exactly these: lines
\* above the sixth (n % 6 never reaches them) and streets above the third.
BetsThatCannotWin ==
    validate(bet) =>
        (WinningOf(bet) = {} <=> \/ bet.type = "line" /\ bet.number >= 6
                                 \/ bet.type = "street" /\ bet.number >= 3)

\* On a zero the bank takes every bet but those that name the zero, and but
\* "even" and "low", which wining() does not exclude it from.
ZeroPays ==
    ball = 0 =>
        (wining(ball, bet) <=> \/ bet.type \in {"zero", "basket", "even", "low"}
                               \/ bet.type = "straight" /\ bet.number = 0)

\* Every pocket is exactly one of red, black and zero: a player on all three
\* colours is paid for one of them on each spin.
On(type) == [type |-> type, number |-> 0, value |-> 1]
ColoursPartition ==
    ball # NoBall => Cardinality({c \in {"red", "black", "zero"} : wining(ball, On(c))}) = 1

\* The corner table of config.h is the 2x2 blocks of a 12x3 layout, numbered
\* row by row.
Row(n) == (n - 1) \div 3
Col(n) == (n - 1) % 3
CornersFollowLayout ==
    validate(bet) /\ bet.type = "corner" =>
        WinningOf(bet) = {n \in 1 .. 36 : /\ Row(n) - (bet.number \div 2) \in {0, 1}
                                          /\ Col(n) - (bet.number % 2) \in {0, 1}}
=============================================================================
