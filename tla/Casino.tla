------------------------------- MODULE Casino -------------------------------
(***************************************************************************)
(* What the players are promised of their money: accounts, the stakes at   *)
(* the tables and the wheel.  Nobody stakes more than the account holds or *)
(* at two tables at once; while a wheel turns nobody bets or withdraws;    *)
(* it stands again when every bet of its table has been paid, each once    *)
(* and all for the same pocket.  Only a crash keeps stakes from being      *)
(* paid: it forgets them all, and no account.                              *)
(***************************************************************************)
EXTENDS Bets

CONSTANTS Logins, Tables, None, Offers, START_UP_CAPITAL

VARIABLES account,  \* login -> its balance, or None
          stakes,   \* table -> login -> the bets not paid yet
          wheel     \* the table where a wheel turns, if any, and the pocket

money == <<account, stakes, wheel>>

Standing == [table |-> None, pocket |-> 0]
NoStakes == [name \in Tables |-> [login \in Logins |-> <<>>]]

Init ==
    /\ account \in [Logins -> Nat \cup {None}]
    /\ stakes = NoStakes
    /\ wheel = Standing

OpenAccount(login) ==
    /\ account[login] = None
    /\ account' = [account EXCEPT ![login] = START_UP_CAPITAL]
    /\ UNCHANGED <<stakes, wheel>>

PlaceBet(name, login, bet) ==
    /\ wheel = Standing
    /\ validate(bet)
    /\ account[login] # None
    /\ Staked(stakes[name][login]) + bet.value <= account[login]
    /\ \A other \in Tables \ {name} : stakes[other][login] = <<>>
    /\ stakes' = [stakes EXCEPT ![name][login] = Append(@, bet)]
    /\ UNCHANGED <<account, wheel>>

\* Whoever leaves a table takes the stake along.
Withdraw(leaving) ==
    /\ wheel = Standing
    /\ stakes' = [name \in Tables |-> [login \in Logins |->
           IF <<name, login>> \in leaving THEN <<>> ELSE stakes[name][login]]]
    /\ UNCHANGED <<account, wheel>>

Turn(name, pocket) ==
    /\ wheel = Standing
    /\ wheel' = [table |-> name, pocket |-> pocket]
    /\ UNCHANGED <<account, stakes>>

Pay(name, login) ==
    LET unpaid == stakes[name][login]
    IN  /\ wheel.table = name
        /\ unpaid # <<>>
        /\ account' = [account EXCEPT ![login] = @ + Winnings(wheel.pocket, Head(unpaid))]
        /\ stakes' = [stakes EXCEPT ![name][login] = Tail(@)]
        /\ UNCHANGED wheel

Stop(name) ==
    /\ wheel.table = name
    /\ \A login \in Logins : stakes[name][login] = <<>>
    /\ wheel' = Standing
    /\ UNCHANGED <<account, stakes>>

Crash ==
    /\ stakes' = NoStakes
    /\ wheel' = Standing
    /\ UNCHANGED account

Next ==
    \/ \E leaving \in SUBSET (Tables \X Logins) : Withdraw(leaving)
    \/ \E login \in Logins : OpenAccount(login)
    \/ \E name \in Tables :
           \/ Stop(name)
           \/ \E pocket \in Pockets : Turn(name, pocket)
           \/ \E login \in Logins :
                  Pay(name, login) \/ \E bet \in Offers : PlaceBet(name, login, bet)
    \/ Crash

Spec == Init /\ [][Next]_money
=============================================================================
