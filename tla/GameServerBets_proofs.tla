----------------------- MODULE GameServerBets_proofs -----------------------
(***************************************************************************)
(* Theorems about the bets of GameServer.  For every administrator: they   *)
(* live in memory only, in a map that every way of leaving a table writes, *)
(* and yet nobody who stays at a table loses one that is not paid.  And    *)
(* under a careful administrator, as long as no int overflows: whatever is *)
(* won or lost, the balance of an account covers what is staked from it,   *)
(* and the server implements Casino.                                       *)
(***************************************************************************)
EXTENDS GameServerCareful_proofs, WellFoundedInduction

\* The loop of do_spin has not run past the end of anybody's bets.
PaidInRange == spin # None => \A login \in Logins : spin.paid[login] <= Len(SpinBets[login])

\* The user is still at the table, and what the bets have become.
Stays(login, name) ==
    /\ sessions[name] # None /\ login \in sessions[name].users
    /\ sessions'[name] # None /\ login \in sessions'[name].users
Kept(login, name) == IsPrefix(sessions[name].bets[login], sessions'[name].bets[login])
AllKept == \A name \in Tables, login \in Logins : Stays(login, name) => Kept(login, name)

(* A sequence is a prefix of itself and of what is pushed to its back.     *)
LEMMA PushKeeps ==
    ASSUME NEW bets \in Seq(Bet), NEW bet \in Bet
    PROVE  IsPrefix(bets, bets) /\ IsPrefix(bets, push_back(bets, bet))
  <1>. DEFINE more == push_back(bets, bet)
  <1>1. more \in Seq(Bet) /\ Len(more) = Len(bets) + 1
        /\ \A k \in 1 .. Len(bets) : more[k] = bets[k]
    BY DEF push_back
  <1>. HIDE DEF more
  <1>2. SubSeq(bets, 1, Len(bets)) = SubSeq(more, 1, Len(bets)) BY <1>1
  <1>3. IsPrefix(bets, more) BY <1>1, <1>2 DEF IsPrefix
  <1>4. IsPrefix(bets, bets) BY DEF IsPrefix
  <1>. QED BY <1>3, <1>4 DEF more

(* The bets of a table in use are sequences.                               *)
LEMMA BetsType ==
    ASSUME TypeInv, NEW name \in Tables, sessions[name] # None, NEW login \in Logins
    PROVE  sessions[name].bets[login] \in Seq(Bet)
  BY DEF TypeInv, TypeOK, Session

(* Whoever is still at a table is not one of those who left.               *)
LEMMA VacatedKeeps ==
    ASSUME TypeInv, NEW ids \in SUBSET Ids, NEW name \in Tables, NEW login \in Logins,
           Vacated(ids)[name] # None, login \in Vacated(ids)[name].users
    PROVE  sessions[name] # None /\ Vacated(ids)[name].bets[login] = sessions[name].bets[login]
  BY DEF Vacated, BetsLeft

(* It is enough that the bets of those who stay are the same.              *)
LEMMA SameKept ==
    ASSUME TypeInv,
           \A name \in Tables, login \in Logins :
               Stays(login, name) => sessions'[name].bets[login] = sessions[name].bets[login]
    PROVE  AllKept
  <1>1. ASSUME NEW bets \in Seq(Bet) PROVE IsPrefix(bets, bets) BY DEF IsPrefix
  <1>. QED BY <1>1, BetsType DEF AllKept, Kept, Stays

(* Only do_bet and the end of a spin touch the bets of those who stay.     *)
LEMMA KeptNext == TypeInv /\ [Next]_vars => AllKept \/ clear_bets
  <1>. SUFFICES ASSUME TypeInv, [Next]_vars PROVE AllKept \/ clear_bets OBVIOUS
  <1>1. ASSUME NEW id \in Ids, NEW name \in Tables, do_join(id, name) PROVE AllKept
    <2>1. sessions[name] \in Session BY <1>1 DEF do_join, TypeInv, TypeOK
    <2>2. sessions' = [sessions EXCEPT ![name] =
              [sessions[name] EXCEPT !.users = sessions[name].users \cup {users[id].login}]]
      BY <1>1 DEF do_join
    <2>3. sessions'[name].bets = sessions[name].bets
          /\ \A other \in Tables \ {name} : sessions'[other] = sessions[other]
      BY <2>1, <2>2 DEF TypeInv, TypeOK, Session
    <2>. QED BY <2>3, SameKept
  <1>2. ASSUME NEW id \in Ids, NEW name \in Tables, do_create(id, name) PROVE AllKept
    BY <1>2, SameKept DEF do_create, IsFree, Stays, TypeInv, TypeOK
  <1>3. ASSUME NEW id \in Ids, leave_player(id) PROVE AllKept
    BY <1>3, VacatedKeeps, SameKept DEF leave_player, leave_players, Stays
  <1>4. ASSUME NEW id \in Ids, leave_croupier(id) PROVE AllKept
    <2>1. PICK leaving \in SUBSET Ids :
              sessions' = [Vacated(leaving) EXCEPT ![id2name[id]] = None]
      BY <1>4, CroupierLeaving DEF TypeInv
    <2>2. Vacated(leaving) \in [Tables -> Session \cup {None}]
      BY <2>1, VacatedType DEF TypeInv
    <2>4. \A name \in Tables : sessions'[name] # None => sessions'[name] = Vacated(leaving)[name]
      BY <2>1, <2>2
    <2>. QED BY <2>1, <2>4, VacatedKeeps, SameKept DEF Stays
  <1>5. ASSUME NEW id \in Ids, leave_croupier_fails(id) PROVE AllKept
    <2>1. PICK done \in SUBSET {login \in Others(id) : CanUnseat(login)} :
              leave_players(IdsOf(done))
      BY <1>5 DEF leave_croupier_fails
    <2>2. IdsOf(done) \in SUBSET Ids
      BY <1>5, <2>1, OthersOnline DEF leave_croupier_fails, TypeInv
    <2>. QED BY <2>1, <2>2, VacatedKeeps, SameKept DEF leave_players, Stays
  <1>6. ASSUME NEW id \in Ids, NEW login \in Logins, do_kick(id, login) PROVE AllKept
    <2>1. {login2id[login]} \in SUBSET Ids BY <1>6 DEF do_kick, CanUnseat, TypeInv, TypeOK
    <2>. QED BY <1>6, <2>1, VacatedKeeps, SameKept DEF do_kick, leave_players, Stays
  <1>7. ASSUME NEW id \in Ids, disconnect_handle(id) PROVE AllKept
    <2>1. CASE disconnect_idle(id) \/ disconnect_throws(id)
      BY <2>1, SameKept DEF disconnect_idle, disconnect_throws
    <2>2. CASE disconnect_player(id)
      BY <2>2, VacatedKeeps, SameKept DEF disconnect_player, Stays
    <2>3. CASE disconnect_croupier(id)
      BY <2>3, SameKept DEF disconnect_croupier, Stays, TypeInv, TypeOK
    <2>4. CASE disconnect_croupier_hangs(id)
      <3>1. PICK login \in Others(id) : CanUnseat(login) /\ leave_players({login2id[login]})
        BY <2>4 DEF disconnect_croupier_hangs
      <3>2. IdsOf({login}) = {login2id[login]} BY DEF IdsOf
      <3>3. {login2id[login]} \in SUBSET Ids
        BY <2>4, <3>1, <3>2, OthersOnline DEF disconnect_croupier_hangs, TypeInv
      <3>. QED BY <3>1, <3>3, VacatedKeeps, SameKept DEF leave_players, Stays
    <2>. QED BY <1>7, <2>1, <2>2, <2>3, <2>4 DEF disconnect_handle
  <1>8. ASSUME restart PROVE AllKept BY <1>8 DEF restart, Empty, AllKept, Stays
  <1>9. ASSUME NEW id \in Ids, NEW bet \in Offers, do_bet(id, bet) PROVE AllKept
    <2>. DEFINE name == id2name[id]   login == users[id].login
                bets == sessions[name].bets[login]
    <2>1. /\ name \in Tables /\ sessions[name] \in Session /\ sessions[name] # None
          /\ login \in Logins
      BY <1>9 DEF do_bet, Executes, has_session, TypeInv, TypeOK, User
    <2>2. sessions' = [sessions EXCEPT ![name] = [sessions[name] EXCEPT !.bets =
              [sessions[name].bets EXCEPT ![login] = push_back(bets, bet)]]]
      BY <1>9, <2>1 DEF do_bet, get_session, TypeInv, TypeOK, Session
    <2>3. bets \in Seq(Bet) /\ bet \in Bet BY <2>1, BetsType, ConstantsAssumption
    <2>. HIDE DEF name, login, bets
    <2>4. /\ sessions'[name].bets = [sessions[name].bets EXCEPT ![login] = push_back(bets, bet)]
          /\ \A other \in Tables \ {name} : sessions'[other] = sessions[other]
      BY <2>1, <2>2 DEF TypeInv, TypeOK, Session
    <2>5. /\ sessions'[name].bets[login] = push_back(bets, bet)
          /\ \A other \in Logins \ {login} :
                 sessions'[name].bets[other] = sessions[name].bets[other]
      BY <2>1, <2>4 DEF Session
    <2>6. ASSUME NEW t \in Tables, NEW l \in Logins, Stays(l, t) PROVE Kept(l, t)
      <3>1. CASE t = name /\ l = login
        BY <2>3, <2>5, <3>1, PushKeeps DEF Kept, bets
      <3>2. CASE ~(t = name /\ l = login)
        <4>1. sessions'[t].bets[l] = sessions[t].bets[l] BY <2>4, <2>5, <3>2
        <4>2. sessions[t].bets[l] \in Seq(Bet) BY <2>6, BetsType DEF Stays
        <4>. QED BY <4>1, <4>2 DEF Kept, IsPrefix
      <3>. QED BY <3>1, <3>2
    <2>. QED BY <2>6 DEF AllKept
  <1>10. CASE UNCHANGED sessions BY <1>10, SameKept
  <1>11. \/ UNCHANGED sessions \/ clear_bets \/ restart
         \/ \E id \in Ids : \/ disconnect_handle(id) \/ do_leave(id)
                            \/ \E login \in Logins : do_kick(id, login)
                            \/ \E name \in Tables : do_join(id, name) \/ do_create(id, name)
                            \/ \E bet \in Offers : do_bet(id, bet)
    BY DEF Next, vars, connect_handle, do_signout, do_sync, do_signin, do_signup,
           do_set_permission, do_spin, pay, spin_fails
  <1>. QED BY <1>1, <1>2, <1>3, <1>4, <1>5, <1>6, <1>7, <1>8, <1>9, <1>10, <1>11
       DEF do_leave

(* A spin begins, goes on and ends by the actions of the spin only.        *)
LEMMA SpinSteps ==
    ASSUME [Next]_vars
    PROVE  \/ spin = None /\ spin' = None
           \/ \E id \in Ids, n \in Outcomes : do_spin(id, n)
           \/ \E login \in Logins : pay(login) \/ spin_fails(login)
           \/ clear_bets \/ restart \/ UNCHANGED vars
  <1>1. ASSUME NEW id \in Ids, \/ connect_handle(id) \/ disconnect_handle(id)
                               \/ do_signout(id) \/ do_sync(id) \/ do_leave(id)
        PROVE  spin = None /\ spin' = None
    BY <1>1
       DEF Executes, Serving, connect_handle, disconnect_handle, disconnect_idle,
           disconnect_player, disconnect_croupier, disconnect_croupier_hangs,
           disconnect_throws, do_signout, do_sync, do_leave, leave_player, leave_croupier,
           leave_croupier_fails
  <1>2. ASSUME NEW id \in Ids,
               \/ \E login \in Logins : do_signin(id, login) \/ do_kick(id, login)
               \/ \E login \in Logins : do_signup(id, login)
               \/ \E login \in SettableLogins, permission \in Grants :
                      do_set_permission(id, login, permission)
               \/ \E name \in Tables : do_join(id, name) \/ do_create(id, name)
               \/ \E bet \in Offers : do_bet(id, bet)
        PROVE  spin = None /\ spin' = None
    BY <1>2 DEF Executes, Serving, do_signin, do_kick, do_signup, do_set_permission, do_join,
                do_create, do_bet
  <1>. QED BY <1>1, <1>2 DEF Next

(* While a spin is under way nothing but pay counts, and nobody bets.      *)
LEMMA PaidNext == TypeInv /\ PaidInRange /\ [Next]_vars => PaidInRange'
  <1>. SUFFICES ASSUME TypeInv, PaidInRange, [Next]_vars PROVE PaidInRange' OBVIOUS
  <1>1. ASSUME NEW id \in Ids, NEW random_number \in Outcomes, do_spin(id, random_number)
        PROVE  PaidInRange'
    <2>1. spin'.table \in Tables /\ sessions[spin'.table] # None
          /\ \A login \in Logins : spin'.paid[login] = 0
      BY <1>1 DEF do_spin, has_session, TypeInv, TypeOK
    <2>2. \A login \in Logins : sessions[spin'.table].bets[login] \in Seq(Bet)
      BY <2>1, BetsType
    <2>. QED BY <1>1, <2>1, <2>2 DEF do_spin, PaidInRange, SpinBets
  <1>2. ASSUME NEW login \in Logins, pay(login) PROVE PaidInRange'
    <2>1. spin \in Spin /\ spin.paid[login] \in Nat /\ spin.paid[login] < Len(SpinBets[login])
      BY <1>2, PayEffect
    <2>2. spin # None /\ spin.table \in Tables /\ sessions[spin.table] # None
      BY <1>2, <2>1 DEF pay, Spinning, TypeInv, SpinAtTable, Spin
    <2>3. SpinBets[login] \in Seq(Bet) BY <2>2, BetsType DEF SpinBets
    <2>4. /\ spin'.table = spin.table /\ spin'.paid[login] = spin.paid[login] + 1
          /\ \A other \in Logins \ {login} : spin'.paid[other] = spin.paid[other]
      BY <1>2, <2>1 DEF pay, Spin
    <2>5. spin.paid[login] + 1 <= Len(SpinBets[login]) BY <2>1, <2>3
    <2>6. sessions' = sessions BY <1>2 DEF pay
    <2>. QED BY <2>2, <2>4, <2>5, <2>6 DEF PaidInRange, SpinBets
  <1>3. CASE spin' = None BY <1>3 DEF PaidInRange
  <1>4. CASE UNCHANGED vars BY <1>4 DEF vars, PaidInRange, SpinBets
  <1>5. CASE \/ clear_bets \/ restart \/ \E login \in Logins : spin_fails(login)
    BY <1>3, <1>5 DEF clear_bets, restart, spin_fails
  <1>. QED BY <1>1, <1>2, <1>3, <1>4, <1>5, SpinSteps

(* BetsHonoured: a bet of somebody who stays at the table is there until   *)
(* the spin that ends has paid it.                                         *)
THEOREM BetsKeptUntilPaid == Spec => BetsHonoured
  <1>. DEFINE Honoured(name, login) ==
           Stays(login, name) =>
               \/ Kept(login, name)
               \/ spin # None /\ spin.table = name
                  /\ spin.paid[login] = Len(sessions[name].bets[login])
  <1>1. Init => PaidInRange BY DEF Init, PaidInRange
  <1>2. ASSUME TypeInv, PaidInRange, [Next]_vars, NEW name \in Tables, NEW login \in Logins
        PROVE  Honoured(name, login)
    <2>1. CASE AllKept BY <2>1 DEF AllKept
    <2>2. CASE clear_bets
      <3>1. /\ spin \in Spin /\ spin.table \in Tables /\ sessions[spin.table] # None
            /\ sessions' = [sessions EXCEPT ![spin.table].bets = NoBets]
        BY <1>2, <2>2 DEF clear_bets, Spinning, TypeInv, TypeOK, SpinAtTable, Spin
      <3>2. CASE name = spin.table
        <4>1. SpinBets[login] \in Seq(Bet) /\ spin.paid[login] \in Nat
          BY <1>2, <3>1, BetsType DEF SpinBets, Spin
        <4>2. /\ ~(spin.paid[login] < Len(SpinBets[login]))
              /\ spin.paid[login] <= Len(SpinBets[login]) /\ spin # None
          BY <1>2, <2>2 DEF clear_bets, Spinning, Unpaid, PaidInRange
        <4>3. spin.paid[login] = Len(SpinBets[login]) BY <4>1, <4>2
        <4>. QED BY <3>2, <4>2, <4>3 DEF SpinBets
      <3>3. CASE name # spin.table
        <4>1. sessions'[name] = sessions[name] BY <1>2, <3>1, <3>3 DEF TypeInv, TypeOK
        <4>2. sessions[name] # None => sessions[name].bets[login] \in Seq(Bet)
          BY <1>2, BetsType
        <4>. QED BY <4>1, <4>2 DEF Stays, Kept, IsPrefix
      <3>. QED BY <3>2, <3>3
    <2>. QED BY <1>2, <2>1, <2>2, KeptNext
  <1>3. TypeInv /\ PaidInRange /\ [Next]_vars =>
            [\A name \in Tables, login \in Logins :
                LET bets == sessions[name].bets[login]
                    seated == sessions'[name] # None /\ login \in sessions'[name].users
                IN  sessions[name] # None /\ login \in sessions[name].users /\ seated =>
                        \/ IsPrefix(bets, sessions'[name].bets[login])
                        \/ spin # None /\ spin.table = name /\ spin.paid[login] = Len(bets)]_vars
    BY <1>2 DEF Stays, Kept
  <1>. QED BY <1>1, <1>3, PaidNext, Typing, PTL DEF Spec, BetsHonoured
-----------------------------------------------------------------------------
(* The sums of do_bet.  sums is recursive, and what holds at every index   *)
(* of it is proved from the least index where it would not.                *)

(* A set of numbers that is not empty has a least element.                 *)
LEMMA LeastElement ==
    ASSUME NEW S \in SUBSET Nat, S # {}
    PROVE  \E m \in S : \A k \in S : m <= k
  <1>1. \E m \in S : \A k \in S : ~(<<k, m>> \in OpToRel(<, Nat))
    BY NatLessThanWellFounded, WFMin
  <1>2. \A k, m \in Nat : ~(<<k, m>> \in OpToRel(<, Nat)) => m <= k
    BY DEF OpToRel
  <1>. QED BY <1>1, <1>2

(* So a set that has first, and the next of each of its numbers up to last,*)
(* has them all.                                                           *)
LEMMA UpTo ==
    ASSUME NEW first \in Nat, NEW last \in Nat, NEW S, first \in S,
           \A k \in first .. last : k \in S /\ k < last => k + 1 \in S
    PROVE  first .. last \subseteq S
  <1>. DEFINE T == (first .. last) \ S
  <1>. SUFFICES ASSUME T # {} PROVE FALSE OBVIOUS
  <1>1. PICK m \in T : \A k \in T : m <= k
    <2>1. T \in SUBSET Nat OBVIOUS
    <2>. HIDE DEF T
    <2>. QED BY <2>1, LeastElement
  <1>2. m \in first .. last /\ m # first OBVIOUS
  <1>3. m - 1 \in first .. last /\ m - 1 < last /\ m - 1 < m BY <1>2
  <1>4. m - 1 \in S BY <1>1, <1>3
  <1>5. m \in S BY <1>2, <1>3, <1>4
  <1>. QED BY <1>5

(* The recursive function sums exists.                                     *)
LEMMA SumsDefined ==
    ASSUME NEW bets \in Seq(Bet)
    PROVE  sums(bets) = [k \in 0 .. Len(bets) |->
                            IF k = 0 THEN 0 ELSE sums(bets)[k - 1] + bets[k].value]
  <1>. DEFINE Step(f, k) == IF k = 0 THEN 0 ELSE f[k - 1] + bets[k].value
              Started == {n \in Nat : \E f : f = [k \in 0 .. n |-> Step(f, k)]}
  <1>1. 0 \in Started
    <2>. DEFINE f == [k \in 0 .. 0 |-> 0]
    <2>1. f = [k \in 0 .. 0 |-> Step(f, k)] OBVIOUS
    <2>. HIDE DEF f
    <2>. QED BY <2>1
  <1>2. ASSUME NEW n \in 0 .. Len(bets), n \in Started PROVE n + 1 \in Started
    <2>1. PICK g : g = [k \in 0 .. n |-> Step(g, k)] BY <1>2
    <2>. DEFINE f == [k \in 0 .. n + 1 |-> IF k <= n THEN g[k] ELSE Step(g, k)]
    <2>2. \A k \in 0 .. n + 1 : f[k] = Step(f, k)
      <3>1. \A k \in 0 .. n : f[k] = g[k] /\ g[k] = Step(g, k) BY <2>1
      <3>2. f[n + 1] = Step(g, n + 1) OBVIOUS
      <3>3. \A k \in 0 .. n + 1 : k # 0 => k - 1 \in 0 .. n OBVIOUS
      <3>. HIDE DEF f
      <3>4. \A k \in 0 .. n + 1 : Step(f, k) = Step(g, k) BY <3>1, <3>3
      <3>. QED BY <3>1, <3>2, <3>4
    <2>3. f = [k \in 0 .. n + 1 |-> f[k]] OBVIOUS
    <2>. HIDE DEF f, Step
    <2>4. f = [k \in 0 .. n + 1 |-> Step(f, k)] BY <2>2, <2>3
    <2>. QED BY <2>4
  <1>3. Len(bets) \in Started
    <2>1. Len(bets) \in Nat /\ Len(bets) \in 0 .. Len(bets) OBVIOUS
    <2>. HIDE DEF Started
    <2>2. \A n \in 0 .. Len(bets) : n \in Started /\ n < Len(bets) => n + 1 \in Started
      BY <1>2
    <2>3. 0 .. Len(bets) \subseteq Started BY <1>1, <2>1, <2>2, UpTo
    <2>. QED BY <2>1, <2>3
  <1>4. \E f : f = [k \in 0 .. Len(bets) |-> Step(f, k)] BY <1>3
  <1>. QED BY <1>4 DEF sums

(* One iteration of the loop adds one bet.                                 *)
LEMMA SumsStep ==
    ASSUME NEW bets \in Seq(Bet)
    PROVE  /\ sums(bets)[0] = 0
           /\ \A k \in 0 .. Len(bets) - 1 :
                  sums(bets)[k + 1] = sums(bets)[k] + bets[k + 1].value
  <1>. DEFINE sum == sums(bets)
  <1>1. sum = [k \in 0 .. Len(bets) |-> IF k = 0 THEN 0 ELSE sum[k - 1] + bets[k].value]
    BY SumsDefined
  <1>2. Len(bets) \in Nat OBVIOUS
  <1>. HIDE DEF sum
  <1>3. sum[0] = 0 BY <1>1, <1>2
  <1>4. ASSUME NEW k \in 0 .. Len(bets) - 1 PROVE sum[k + 1] = sum[k] + bets[k + 1].value
    <2>1. k + 1 \in 0 .. Len(bets) /\ k + 1 # 0 /\ (k + 1) - 1 = k BY <1>2
    <2>2. sum[k + 1] = sum[(k + 1) - 1] + bets[k + 1].value BY <1>1, <2>1
    <2>. QED BY <2>1, <2>2
  <1>. QED BY <1>3, <1>4 DEF sum

(* The sums are numbers, and grow.                                         *)
LEMMA SumsGrow ==
    ASSUME NEW bets \in Seq(Bet), NEW paid \in 0 .. Len(bets)
    PROVE  \A k \in paid .. Len(bets) : sums(bets)[k] \in Nat /\ sums(bets)[k] >= sums(bets)[paid]
  <1>. DEFINE sum == sums(bets)
              Natural == {k \in Nat : sum[k] \in Nat}
              Above == {k \in Nat : sum[k] \in Nat /\ sum[k] >= sum[paid]}
  <1>1. /\ sum[0] = 0
        /\ \A k \in 0 .. Len(bets) - 1 : sum[k + 1] = sum[k] + bets[k + 1].value
    BY SumsStep
  <1>2. /\ Len(bets) \in Nat /\ paid \in Nat /\ paid <= Len(bets)
        /\ \A k \in 1 .. Len(bets) : bets[k].value \in Nat
    <2>1. \A k \in 1 .. Len(bets) : bets[k] \in Bet OBVIOUS
    <2>. QED BY <2>1 DEF Bet
  <1>. HIDE DEF sum
  <1>3. ASSUME NEW k \in 0 .. Len(bets), k < Len(bets), sum[k] \in Nat
        PROVE  k + 1 \in Nat /\ sum[k + 1] \in Nat /\ sum[k + 1] >= sum[k]
    <2>1. k \in 0 .. Len(bets) - 1 /\ k + 1 \in 1 .. Len(bets) BY <1>2, <1>3
    <2>2. sum[k + 1] = sum[k] + bets[k + 1].value /\ bets[k + 1].value \in Nat
      BY <1>1, <1>2, <2>1
    <2>. QED BY <1>3, <2>1, <2>2
  <1>4. 0 .. Len(bets) \subseteq Natural
    <2>1. 0 \in Natural BY <1>1
    <2>2. \A k \in 0 .. Len(bets) : k \in Natural /\ k < Len(bets) => k + 1 \in Natural
      BY <1>3
    <2>. HIDE DEF Natural
    <2>. QED BY <1>2, <2>1, <2>2, UpTo
  <1>5. paid .. Len(bets) \subseteq Above
    <2>1. paid \in Above BY <1>2, <1>4
    <2>2. ASSUME NEW k \in paid .. Len(bets), k \in Above, k < Len(bets) PROVE k + 1 \in Above
      <3>1. k \in 0 .. Len(bets) BY <1>2
      <3>2. k + 1 \in Nat /\ sum[k + 1] \in Nat /\ sum[k + 1] >= sum[k]
        BY <1>3, <2>2, <3>1
      <3>3. sum[paid] \in Nat BY <1>2, <1>4
      <3>. QED BY <2>2, <3>2, <3>3
    <2>. HIDE DEF Above
    <2>. QED BY <1>2, <2>1, <2>2, UpTo
  <1>. QED BY <1>5 DEF sum

(* A bet pushed to the back is added to what was staked.                   *)
LEMMA StakedMore ==
    ASSUME NEW bets \in Seq(Bet), NEW bet \in Bet
    PROVE  Staked(push_back(bets, bet)) = Staked(bets) + bet.value
  <1>. DEFINE more == push_back(bets, bet)
              Same == {k \in Nat : sums(more)[k] = sums(bets)[k]}
  <1>1. /\ more \in Seq(Bet) /\ Len(more) = Len(bets) + 1 /\ Len(bets) \in Nat
        /\ more[Len(bets) + 1] = bet
        /\ \A k \in 1 .. Len(bets) : more[k] = bets[k]
    BY DEF push_back
  <1>. HIDE DEF more
  <1>2. 0 \in Same BY <1>1, SumsStep
  <1>3. ASSUME NEW k \in 0 .. Len(bets), k \in Same, k < Len(bets) PROVE k + 1 \in Same
    <2>1. k \in 0 .. Len(bets) - 1 /\ k \in 0 .. Len(more) - 1 /\ k + 1 \in 1 .. Len(bets)
      BY <1>1, <1>3
    <2>2. sums(bets)[k + 1] = sums(bets)[k] + bets[k + 1].value BY <2>1, SumsStep
    <2>3. sums(more)[k + 1] = sums(more)[k] + more[k + 1].value BY <1>1, <2>1, SumsStep
    <2>4. sums(more)[k + 1] = sums(bets)[k + 1] BY <1>1, <1>3, <2>1, <2>2, <2>3
    <2>. QED BY <2>1, <2>4
  <1>4. Len(bets) \in Same
    <2>. HIDE DEF Same
    <2>1. 0 .. Len(bets) \subseteq Same BY <1>1, <1>2, <1>3, UpTo
    <2>. QED BY <1>1, <2>1
  <1>5. Len(bets) \in 0 .. Len(more) - 1 BY <1>1
  <1>6. sums(more)[Len(bets) + 1] = sums(more)[Len(bets)] + more[Len(bets) + 1].value
    BY <1>1, <1>5, SumsStep
  <1>. QED BY <1>1, <1>4, <1>6 DEF Staked, more
-----------------------------------------------------------------------------
(* Money.  Without an int that overflows there is nothing to wrap.         *)

\* A player who can spin has at most MaxBalance, and wins at most 35 times what
\* is staked of it; nobody else has more than the balance of the start.  None of
\* these, with one more bet, is larger than the largest int.
Reachable == {36 * MaxBalance, START_UP_CAPITAL, ADMIN_CAPITAL}
NoOverflow == /\ 36 * MaxBalance <= INT_MAX
              /\ \A offer \in Offers, most \in Reachable : most + offer.value <= INT_MAX

Balance(login) == data_base[login].balance

\* What has still to be paid is covered even if every bet wins at 35 to 1.
Solvent(login) ==
    /\ Balance(login) >= 0
    /\ IF spin = None THEN \E most \in Reachable : Balance(login) <= most
       ELSE Balance(login) + 35 * StillStaked(spin.table, login) <= 36 * MaxBalance

MoneyInv == BetsCovered /\ \A login \in Logins : data_base[login] # None => Solvent(login)

(* What fits an int is not changed.                                        *)
LEMMA WrapSame ==
    ASSUME NEW n \in Int, -INT_MAX <= n, n <= INT_MAX
    PROVE  Wrap(n) = n
  <1>. DEFINE a == n + INT_MAX + 1   b == 2 * (INT_MAX + 1)
  <1>1. INT_MAX \in Nat BY ConstantsAssumption
  <1>2. a \in Nat /\ b \in Nat \ {0} /\ a < b /\ n = a - (INT_MAX + 1) BY <1>1
  <1>3. \A i \in Nat, j \in Nat \ {0} : i < j => i % j = i OBVIOUS
  <1>4. a % b = a
    <2>. HIDE DEF a, b
    <2>. QED BY <1>2, <1>3
  <1>. QED BY <1>2, <1>4 DEF Wrap

(* A bet loses what is staked, or wins it 1 to 35 times.                   *)
LEMMA WinningsRange ==
    ASSUME NEW n, NEW bet \in Bet
    PROVE  /\ Winnings(n, bet) \in Int /\ bet.value \in Nat
           /\ -bet.value <= Winnings(n, bet) /\ Winnings(n, bet) <= 35 * bet.value
  <1>1. bet.type \in BetTypes /\ bet.value \in Nat BY DEF Bet
  <1>2. \A type \in BetTypes : multipliers[type] \in {1, 2, 5, 6, 8, 11, 17, 35}
    BY DEF multipliers, BetTypes, Outside
  <1>. DEFINE m == multipliers[bet.type]   v == bet.value
  <1>3. m \in {1, 2, 5, 6, 8, 11, 17, 35} /\ v \in Nat BY <1>1, <1>2
  <1>4. Winnings(n, bet) \in {v * m, -v} BY DEF Winnings
  <1>. HIDE DEF m, v
  <1>5. v * m \in Nat /\ v * m <= 35 * v BY <1>3
  <1>6. Winnings(n, bet) \in Int /\ -v <= Winnings(n, bet) /\ Winnings(n, bet) <= 35 * v
    BY <1>3, <1>4, <1>5
  <1>. QED BY <1>3, <1>6 DEF v

(* Nothing is staked without a bet.                                        *)
LEMMA NothingStaked == Staked(<<>>) = 0
  <1>1. <<>> \in Seq(Bet) /\ Len(<<>>) = 0 OBVIOUS
  <1>2. sums(<<>>)[0] = 0 BY <1>1, SumsStep
  <1>. QED BY <1>1, <1>2 DEF Staked

(* What is staked, and what is not paid of it, are numbers.                *)
LEMMA StakedNat ==
    ASSUME NEW bets \in Seq(Bet), NEW paid \in 0 .. Len(bets)
    PROVE  Staked(bets) \in Nat /\ Staked(bets) - sums(bets)[paid] \in Nat
  <1>1. Len(bets) \in paid .. Len(bets) /\ 0 \in 0 .. Len(bets)
        /\ Len(bets) \in 0 .. Len(bets) /\ paid \in paid .. Len(bets)
    OBVIOUS
  <1>2. sums(bets)[Len(bets)] \in Nat /\ sums(bets)[paid] \in Nat
        /\ sums(bets)[Len(bets)] >= sums(bets)[paid]
    BY <1>1, SumsGrow
  <1>. QED BY <1>2 DEF Staked

LEMMA StillStakedNat ==
    ASSUME TypeInv, PaidInRange, NEW name \in Tables, sessions[name] # None, NEW login \in Logins
    PROVE  StillStaked(name, login) \in Nat
  <1>1. sessions[name].bets[login] \in Seq(Bet) BY BetsType
  <1>2. CASE spin # None /\ spin.table = name
    <2>1. spin.paid[login] \in Nat /\ spin.paid[login] <= Len(SpinBets[login])
      BY <1>2 DEF TypeInv, TypeOK, Spin, PaidInRange
    <2>2. spin.paid[login] \in 0 .. Len(sessions[name].bets[login])
      BY <1>1, <1>2, <2>1 DEF SpinBets
    <2>. QED BY <1>1, <1>2, <2>2, StakedNat DEF StillStaked
  <1>3. CASE ~(spin # None /\ spin.table = name)
    <2>1. 0 \in 0 .. Len(sessions[name].bets[login]) BY <1>1
    <2>. QED BY <1>1, <1>3, <2>1, StakedNat DEF StillStaked
  <1>. QED BY <1>2, <1>3

(* A balance is an int, and those of the start are among the Reachable.    *)
LEMMA BalanceInt ==
    /\ Reachable \subseteq Int /\ INT_MAX \in Nat /\ MaxBalance \in Int
    /\ TypeInv => \A login \in Logins : data_base[login] # None => Balance(login) \in Int
  <1>1. INT_MAX \in Nat /\ MaxBalance \in Int /\ START_UP_CAPITAL \in Nat /\ ADMIN_CAPITAL \in Nat
    BY ConstantsAssumption
  <1>. QED BY <1>1 DEF Reachable, TypeInv, TypeOK, Account, Balance

\* No table has a bet that it did not have.
NoNewBet == \A name \in Tables, login \in Logins : sessions'[name] # None =>
    \/ sessions'[name].bets[login] = <<>>
    \/ sessions[name] # None /\ sessions'[name].bets[login] = sessions[name].bets[login]

(* Nor has one that players have left.                                     *)
LEMMA VacatedBets ==
    ASSUME NEW ids, NEW name \in Tables, NEW login \in Logins, Vacated(ids)[name] # None
    PROVE  \/ Vacated(ids)[name].bets[login] = <<>>
           \/ sessions[name] # None /\ Vacated(ids)[name].bets[login] = sessions[name].bets[login]
  BY DEF Vacated, BetsLeft

(* Only do_bet makes bets.                                                 *)
LEMMA BetsNext ==
    TypeInv /\ [Next]_vars => NoNewBet \/ \E id \in Ids, bet \in Offers : do_bet(id, bet)
  <1>. SUFFICES ASSUME TypeInv, [Next]_vars, ~(\E id \in Ids, bet \in Offers : do_bet(id, bet))
                PROVE  NoNewBet
    OBVIOUS
  <1>1. ASSUME NEW id \in Ids, NEW name \in Tables, do_join(id, name) PROVE NoNewBet
    <2>1. sessions[name] # None /\ sessions[name] \in Session
      BY <1>1 DEF do_join, TypeInv, TypeOK
    <2>2. sessions' = [sessions EXCEPT ![name] =
              [sessions[name] EXCEPT !.users = sessions[name].users \cup {users[id].login}]]
      BY <1>1 DEF do_join
    <2>3. sessions'[name].bets = sessions[name].bets
          /\ \A other \in Tables \ {name} : sessions'[other] = sessions[other]
      BY <2>1, <2>2 DEF TypeInv, TypeOK, Session
    <2>. QED BY <2>1, <2>3 DEF NoNewBet
  <1>2. ASSUME NEW id \in Ids, NEW name \in Tables, do_create(id, name) PROVE NoNewBet
    <2>1. sessions' = [sessions EXCEPT ![name] = NewTable(name, users[id].login)]
      BY <1>2 DEF do_create
    <2>2. \A login \in Logins : NewTable(name, users[id].login).bets[login] = <<>>
      BY DEF NewTable, NoBets
    <2>. QED BY <2>1, <2>2 DEF NoNewBet, TypeInv, TypeOK
  <1>3. ASSUME NEW ids, \A name \in Tables : sessions'[name] # None =>
                            sessions'[name] = Vacated(ids)[name]
        PROVE  NoNewBet
    BY <1>3, VacatedBets DEF NoNewBet
  <1>4. ASSUME NEW id \in Ids, leave_croupier(id) PROVE NoNewBet
    <2>1. PICK leaving \in SUBSET Ids :
              sessions' = [Vacated(leaving) EXCEPT ![id2name[id]] = None]
      BY <1>4, CroupierLeaving DEF TypeInv
    <2>2. Vacated(leaving) \in [Tables -> Session \cup {None}]
      BY <2>1, VacatedType DEF TypeInv
    <2>3. \A name \in Tables : sessions'[name] # None => sessions'[name] = Vacated(leaving)[name]
      BY <2>1, <2>2
    <2>. QED BY <2>3, <1>3
  <1>5. ASSUME NEW id \in Ids, disconnect_croupier(id) PROVE NoNewBet
    BY <1>5 DEF disconnect_croupier, NoNewBet, TypeInv, TypeOK
  <1>6. ASSUME \E ids \in SUBSET Ids : sessions' = Vacated(ids) PROVE NoNewBet BY <1>3, <1>6
  <1>7. CASE restart BY <1>7 DEF restart, Empty, NoNewBet
  <1>8. CASE UNCHANGED sessions BY <1>8 DEF NoNewBet
  <1>9. CASE clear_bets
    <2>1. /\ spin.table \in Tables /\ sessions[spin.table] \in Session
          /\ sessions' = [sessions EXCEPT ![spin.table] =
                 [sessions[spin.table] EXCEPT !.bets = NoBets]]
      BY <1>9 DEF clear_bets, Spinning, TypeInv, TypeOK, SpinAtTable, Spin
    <2>2. [sessions[spin.table] EXCEPT !.bets = NoBets].bets = NoBets BY <2>1 DEF Session
    <2>. QED BY <2>1, <2>2 DEF NoNewBet, NoBets, TypeInv, TypeOK
  <1>10. ASSUME NEW id \in Ids, \/ leave_player(id) \/ leave_croupier_fails(id)
                                \/ disconnect_player(id) \/ disconnect_croupier_hangs(id)
                                \/ \E login \in Logins : do_kick(id, login)
         PROVE  \E ids \in SUBSET Ids : sessions' = Vacated(ids)
    <2>1. CASE leave_player(id) \/ disconnect_player(id)
      BY <2>1 DEF leave_player, disconnect_player, leave_players
    <2>2. CASE leave_croupier_fails(id)
      <3>1. PICK done \in SUBSET {login \in Others(id) : CanUnseat(login)} :
                leave_players(IdsOf(done))
        BY <2>2 DEF leave_croupier_fails
      <3>2. IdsOf(done) \in SUBSET Ids
        BY <2>2, <3>1, OthersOnline DEF leave_croupier_fails, TypeInv
      <3>. QED BY <3>1, <3>2 DEF leave_players
    <2>3. CASE disconnect_croupier_hangs(id)
      <3>1. PICK login \in Others(id) : CanUnseat(login) /\ leave_players({login2id[login]})
        BY <2>3 DEF disconnect_croupier_hangs
      <3>2. IdsOf({login}) = {login2id[login]} BY DEF IdsOf
      <3>3. {login2id[login]} \in SUBSET Ids
        BY <2>3, <3>1, <3>2, OthersOnline DEF disconnect_croupier_hangs, TypeInv
      <3>. QED BY <3>1, <3>3 DEF leave_players
    <2>4. ASSUME NEW login \in Logins, do_kick(id, login)
          PROVE  \E ids \in SUBSET Ids : sessions' = Vacated(ids)
      <3>1. {login2id[login]} \in SUBSET Ids BY <2>4 DEF do_kick, CanUnseat, TypeInv, TypeOK
      <3>. QED BY <2>4, <3>1 DEF do_kick, leave_players
    <2>. QED BY <1>10, <2>1, <2>2, <2>3, <2>4
  <1>11. \/ UNCHANGED sessions \/ clear_bets \/ restart
         \/ \E id \in Ids :
                \/ leave_croupier(id) \/ disconnect_croupier(id)
                \/ leave_player(id) \/ leave_croupier_fails(id)
                \/ disconnect_player(id) \/ disconnect_croupier_hangs(id)
                \/ \E login \in Logins : do_kick(id, login)
                \/ \E name \in Tables : do_join(id, name) \/ do_create(id, name)
    BY DEF Next, vars, connect_handle, disconnect_handle, disconnect_idle, disconnect_throws,
           do_leave, do_signout, do_sync, do_signin, do_signup, do_set_permission, do_spin,
           pay, spin_fails
  <1>. QED BY <1>1, <1>2, <1>4, <1>5, <1>6, <1>7, <1>8, <1>9, <1>10, <1>11

\* The accounts are the same, with the same balances.
SameBalances == \A login \in Logins :
    /\ data_base'[login] = None <=> data_base[login] = None
    /\ data_base'[login] # None => data_base'[login].balance = data_base[login].balance

(* Only a sign-up and a payment write balances.                            *)
LEMMA BalancesNext ==
    TypeInv /\ [Next]_vars =>
        \/ SameBalances
        \/ \E id \in Ids, login \in Logins : do_signup(id, login)
        \/ \E login \in Logins : pay(login)
  <1>. SUFFICES ASSUME TypeInv, [Next]_vars
                PROVE  \/ SameBalances
                       \/ \E id \in Ids, login \in Logins : do_signup(id, login)
                       \/ \E login \in Logins : pay(login)
    OBVIOUS
  <1>1. ASSUME NEW id \in Ids, NEW user \in SettableLogins, NEW permission \in Grants,
               do_set_permission(id, user, permission)
        PROVE  SameBalances
    <2>. DEFINE row == [data_base[user] EXCEPT !.permission = permission]
    <2>1. user \in Logins /\ data_base[user] \in Account
      BY <1>1, ConstantsAssumption DEF do_set_permission, TypeInv, TypeOK
    <2>2. row \in Account /\ row.balance = data_base[user].balance
      BY <2>1, PermissionsType DEF Account
    <2>3. data_base' = [data_base EXCEPT ![user] = row] BY <1>1 DEF do_set_permission
    <2>. HIDE DEF row
    <2>. QED BY <2>1, <2>2, <2>3, NoneIsNothing DEF SameBalances, TypeInv, TypeOK
  <1>2. CASE UNCHANGED data_base BY <1>2 DEF SameBalances
  <1>3. \/ UNCHANGED data_base
        \/ \E id \in Ids, login \in Logins : do_signup(id, login)
        \/ \E id \in Ids, user \in SettableLogins, permission \in Grants :
               do_set_permission(id, user, permission)
        \/ \E login \in Logins : pay(login)
    BY DEF Next, vars, connect_handle, disconnect_handle, disconnect_idle, disconnect_player,
           disconnect_croupier, disconnect_croupier_hangs, disconnect_throws, do_signout,
           do_sync, do_leave, leave_player, leave_croupier, leave_croupier_fails, do_signin,
           do_kick, do_join, do_create, do_bet, do_spin, spin_fails, clear_bets, restart
  <1>. QED BY <1>1, <1>2, <1>3

(* With nothing new staked and every balance the same, nothing changes.    *)
LEMMA MoneyKept ==
    ASSUME TypeInv, MoneyInv, spin = None, spin' = None, NoNewBet, SameBalances
    PROVE  MoneyInv'
  <1>1. ASSUME NEW login \in Logins, data_base'[login] # None
        PROVE  Solvent(login)' /\ data_base[login] # None /\ Balance(login)' = Balance(login)
    BY <1>1 DEF SameBalances, MoneyInv, Solvent, Balance
  <1>2. ASSUME NEW name \in Tables, NEW login \in Logins,
               sessions'[name] # None, data_base'[login] # None
        PROVE  StillStaked(name, login)' <= data_base'[login].balance
    <2>1. CASE sessions'[name].bets[login] = <<>>
      <3>1. StillStaked(name, login)' = 0 BY <2>1, NothingStaked DEF StillStaked
      <3>2. Balance(login) \in Int /\ Balance(login) >= 0
        BY <1>1, <1>2, BalanceInt DEF MoneyInv, Solvent
      <3>. QED BY <1>1, <1>2, <3>1, <3>2 DEF Balance
    <2>2. CASE sessions[name] # None /\ sessions'[name].bets[login] = sessions[name].bets[login]
      <3>1. StillStaked(name, login)' = StillStaked(name, login) BY <2>2 DEF StillStaked
      <3>. QED BY <1>1, <1>2, <2>2, <3>1 DEF Balance, MoneyInv, BetsCovered
    <2>. QED BY <1>2, <2>1, <2>2 DEF NoNewBet
  <1>. QED BY <1>1, <1>2 DEF MoneyInv, BetsCovered

(* A bet that do_bet accepts is covered with those before it, and nothing  *)
(* of that user is at another table.                                       *)
LEMMA BetEffect ==
    ASSUME NoOverflow, Context, BalanceCached, PaidInRange, MoneyInv,
           NEW id \in Ids, NEW bet \in Offers, do_bet(id, bet)
    PROVE  \E name \in Tables, login \in Logins :
               LET bets == sessions[name].bets[login]
               IN  /\ spin = None /\ UNCHANGED <<data_base, spin>>
                   /\ sessions[name] # None /\ data_base[login] # None
                   /\ bets \in Seq(Bet) /\ bet \in Bet
                   /\ Staked(bets) + bet.value <= Balance(login)
                   /\ Staked(push_back(bets, bet)) = Staked(bets) + bet.value
                   /\ sessions'[name] # None /\ sessions'[name].bets[login] = push_back(bets, bet)
                   /\ \A t \in Tables, l \in Logins : ~(t = name /\ l = login) =>
                          /\ sessions'[t] = None <=> sessions[t] = None
                          /\ sessions[t] # None => sessions'[t].bets[l] = sessions[t].bets[l]
                   /\ \A other \in Tables \ {name} :
                          sessions[other] # None => sessions[other].bets[login] = <<>>
  <1>. DEFINE name == id2name[id]   login == users[id].login
              bets == sessions[name].bets[login]
  <1>1. /\ name \in Tables /\ sessions[name] # None /\ sessions[name] \in Session
        /\ users[id] # None /\ login \in Logins /\ spin = None
    BY DEF do_bet, Executes, Serving, has_session, Context, TypeInv, TypeOK, User
  <1>2. login # GuestLogin
    <2>1. Seated(id) BY <1>1, SeatMasks DEF do_bet, Executes, Allowed, Seated, HasSeat, PLAYER, PLAY
    <2>. QED BY <2>1, SeatedSits, SitterSeated
  <1>3. data_base[login] # None /\ users[id].balance = Balance(login)
    BY <1>1, <1>2 DEF BalanceCached, Balance
  <1>4. bets \in Seq(Bet) /\ bet \in Bet /\ bet.value \in Nat
    BY <1>1, BetsType, ConstantsAssumption DEF Context, Bet
  <1>5. Staked(bets) \in Nat /\ Balance(login) \in Int /\ Balance(login) >= Staked(bets)
    <2>1. StillStaked(name, login) = Staked(bets) BY <1>1 DEF StillStaked
    <2>. QED BY <1>1, <1>3, <2>1, StillStakedNat, BalanceInt
         DEF Context, MoneyInv, BetsCovered, Balance
  <1>6. Balance(login) + bet.value <= INT_MAX
    <2>1. PICK most \in Reachable : Balance(login) <= most
      BY <1>1, <1>3 DEF MoneyInv, Solvent
    <2>2. most + bet.value <= INT_MAX BY DEF NoOverflow
    <2>. QED BY <1>4, <1>5, <2>1, <2>2, BalanceInt
  <1>7. Staked(bets) + bet.value <= Balance(login)
    <2>1. Affordable(bets, bet, Balance(login)) BY <1>3 DEF do_bet, get_session
    <2>2. /\ Staked(bets) + bet.value \in Int /\ Staked(bets) + bet.value <= INT_MAX
          /\ -INT_MAX <= Staked(bets) + bet.value
      BY <1>4, <1>5, <1>6, BalanceInt
    <2>3. Wrap(Staked(bets) + bet.value) = Staked(bets) + bet.value BY <2>2, WrapSame
    <2>. HIDE DEF bets, login, name
    <2>. QED BY <1>5, <2>1, <2>2, <2>3 DEF Affordable
  <1>8. sessions' = [sessions EXCEPT ![name] = [sessions[name] EXCEPT !.bets =
            [sessions[name].bets EXCEPT ![login] = push_back(bets, bet)]]]
    BY <1>1 DEF do_bet, get_session, Context, TypeInv, TypeOK, Session
  <1>9. Staked(push_back(bets, bet)) = Staked(bets) + bet.value BY <1>4, StakedMore
  <1>10. UNCHANGED <<data_base, spin>> BY DEF do_bet
  <1>. DEFINE table == [sessions[name] EXCEPT !.bets =
            [sessions[name].bets EXCEPT ![login] = push_back(bets, bet)]]
  <1>11. ASSUME NEW other \in Tables, other # name, sessions[other] # None,
                sessions[other].bets[login] # <<>>
         PROVE  FALSE
    <2>1. login \in Users(other) BY <1>1, <1>11 DEF Context, MatchInv, Matched, BettorsSit, Open
    <2>2. id2name[login2id[login]] = other BY <1>11, <2>1, SitterSeated DEF Open
    <2>3. login2id[login] = id BY <1>1, <1>2 DEF Context, LoginMapped
    <2>. QED BY <1>11, <2>2, <2>3
  <1>. HIDE DEF name, login, bets
  <1>12. table \in Session /\ table # None
    <2>1. push_back(bets, bet) \in Seq(Bet) BY <1>4 DEF push_back
    <2>2. table \in Session BY <1>1, <2>1 DEF Session
    <2>. QED BY <2>2, NoneIsNothing
  <1>13. sessions' = [sessions EXCEPT ![name] = table] BY <1>8
  <1>14. /\ table.bets[login] = push_back(bets, bet)
         /\ \A other \in Logins \ {login} : table.bets[other] = sessions[name].bets[other]
    BY <1>1 DEF Session
  <1>. HIDE DEF table
  <1>15. sessions'[name] = table /\ \A other \in Tables \ {name} : sessions'[other] = sessions[other]
    BY <1>1, <1>13 DEF Context, TypeInv, TypeOK
  <1>. QED BY <1>1, <1>3, <1>4, <1>7, <1>9, <1>10, <1>11, <1>12, <1>14, <1>15 DEF bets

LEMMA MoneyBet ==
    ASSUME NoOverflow, Context, BalanceCached, PaidInRange, MoneyInv,
           NEW id \in Ids, NEW bet \in Offers, do_bet(id, bet)
    PROVE  MoneyInv'
  <1>. DEFINE Bets(t, l) == sessions[t].bets[l]
  <1>1. PICK name \in Tables, login \in Logins :
            /\ spin = None /\ UNCHANGED <<data_base, spin>>
            /\ sessions[name] # None
            /\ Staked(Bets(name, login)) + bet.value <= Balance(login)
            /\ Staked(push_back(Bets(name, login), bet)) = Staked(Bets(name, login)) + bet.value
            /\ sessions'[name].bets[login] = push_back(Bets(name, login), bet)
            /\ \A t \in Tables, l \in Logins : ~(t = name /\ l = login) =>
                   /\ sessions'[t] = None <=> sessions[t] = None
                   /\ sessions[t] # None => sessions'[t].bets[l] = sessions[t].bets[l]
    BY BetEffect
  <1>2. ASSUME NEW t \in Tables, NEW l \in Logins, sessions'[t] # None, data_base'[l] # None
         PROVE  StillStaked(t, l)' <= data_base'[l].balance
    <2>1. CASE t = name /\ l = login
      <3>1. StillStaked(t, l)' = Staked(Bets(name, login)) + bet.value
        BY <1>1, <2>1 DEF StillStaked
      <3>. QED BY <1>1, <2>1, <3>1 DEF Balance
    <2>2. CASE ~(t = name /\ l = login)
      <3>1. sessions[t] # None /\ StillStaked(t, l)' = StillStaked(t, l)
        BY <1>1, <1>2, <2>2 DEF StillStaked
      <3>. QED BY <1>1, <1>2, <3>1 DEF MoneyInv, BetsCovered
    <2>. QED BY <2>1, <2>2
  <1>3. \A l \in Logins : data_base'[l] # None => Solvent(l)'
    BY <1>1 DEF MoneyInv, Solvent, Balance
  <1>. QED BY <1>2, <1>3 DEF MoneyInv, BetsCovered

(* A new account has no bets yet.                                          *)
LEMMA MoneySignup ==
    ASSUME Context, BalanceCached, MoneyInv,
           NEW id \in Ids, NEW login \in Logins, do_signup(id, login)
    PROVE  MoneyInv'
  <1>1. /\ spin = None /\ data_base[login] = None /\ UNCHANGED <<spin, sessions>>
        /\ data_base' = [data_base EXCEPT ![login] =
               [permission |-> USER, balance |-> START_UP_CAPITAL]]
    BY DEF do_signup, Executes, Serving
  <1>2. /\ data_base'[login].balance = START_UP_CAPITAL
        /\ \A other \in Logins \ {login} : data_base'[other] = data_base[other]
    BY <1>1 DEF Context, TypeInv, TypeOK
  <1>3. START_UP_CAPITAL \in Nat /\ START_UP_CAPITAL \in Reachable
    BY ConstantsAssumption DEF Reachable
  <1>4. ASSUME NEW l \in Logins, data_base'[l] # None PROVE Solvent(l)'
    <2>1. CASE l = login
      <3>1. START_UP_CAPITAL >= 0 /\ START_UP_CAPITAL <= START_UP_CAPITAL BY <1>3
      <3>. QED BY <1>1, <1>2, <1>3, <2>1, <3>1 DEF Solvent, Balance, Reachable
    <2>2. CASE l # login BY <1>1, <1>2, <1>4, <2>2 DEF MoneyInv, Solvent, Balance, Reachable
    <2>. QED BY <2>1, <2>2
  <1>5. ASSUME NEW name \in Tables, sessions[name] # None PROVE sessions[name].bets[login] = <<>>
    <2>. SUFFICES ASSUME login \in Users(name) PROVE FALSE
      BY <1>5 DEF Context, MatchInv, Matched, BettorsSit, Open
    <2>1. /\ login2id[login] \in Ids /\ users[login2id[login]] # None
          /\ users[login2id[login]].login = login /\ login # GuestLogin
      BY <1>5, SitterSeated DEF Open, Seated
    <2>. QED BY <1>1, <2>1 DEF BalanceCached
  <1>6. ASSUME NEW name \in Tables, NEW l \in Logins, sessions'[name] # None, data_base'[l] # None
        PROVE  StillStaked(name, l)' <= data_base'[l].balance
    <2>1. StillStaked(name, l)' = StillStaked(name, l) BY <1>1 DEF StillStaked
    <2>2. CASE l = login
      <3>1. StillStaked(name, l) = 0 BY <1>1, <1>5, <1>6, <2>2, NothingStaked DEF StillStaked
      <3>. QED BY <1>2, <1>3, <2>1, <2>2, <3>1
    <2>3. CASE l # login BY <1>1, <1>2, <1>6, <2>1, <2>3 DEF MoneyInv, BetsCovered
    <2>. QED BY <2>2, <2>3
  <1>. QED BY <1>4, <1>6 DEF MoneyInv, BetsCovered

(* A spin begins with nothing paid, and balances that can win at 35 to 1.  *)
LEMMA MoneySpin ==
    ASSUME TypeInv, PaidInRange, MoneyInv,
           NEW id \in Ids, NEW random_number \in Outcomes, do_spin(id, random_number)
    PROVE  MoneyInv'
  <1>. DEFINE name == id2name[id]
  <1>1. /\ spin = None /\ name \in Tables /\ sessions[name] # None /\ WithinBound
        /\ UNCHANGED <<data_base, sessions>>
        /\ spin' = [table |-> name, random_number |-> random_number,
                    paid |-> [login \in Logins |-> 0]]
    BY DEF do_spin, Executes, Serving, has_session, TypeInv, TypeOK
  <1>. HIDE DEF name
  <1>2. spin'.table = name /\ \A login \in Logins : spin'.paid[login] = 0 BY <1>1
  <1>3. spin' # None
    <2>1. random_number \in Pockets BY ConstantsAssumption
    <2>2. [login \in Logins |-> 0] \in [Logins -> Nat] OBVIOUS
    <2>3. spin' \in Spin BY <1>1, <2>1, <2>2 DEF Spin
    <2>. QED BY <2>3, NoneIsNothing
  <1>4. ASSUME NEW t \in Tables, NEW login \in Logins, sessions[t] # None
        PROVE  StillStaked(t, login)' = StillStaked(t, login)
    <2>1. sessions[t].bets[login] \in Seq(Bet) BY <1>4, BetsType
    <2>2. 0 \in 0 .. Len(sessions[t].bets[login]) BY <2>1
    <2>3. Staked(sessions[t].bets[login]) \in Nat /\ sums(sessions[t].bets[login])[0] = 0
      BY <2>1, <2>2, SumsStep, StakedNat
    <2>. QED BY <1>1, <1>2, <1>3, <2>3 DEF StillStaked
  <1>5. ASSUME NEW login \in Logins, data_base[login] # None PROVE Solvent(login)'
    <2>1. Balance(login) <= MaxBalance /\ Balance(login) \in Int
      BY <1>1, <1>5, BalanceInt DEF WithinBound, Balance
    <2>2. /\ StillStaked(name, login) \in Nat /\ Balance(login) >= 0
          /\ StillStaked(name, login) <= Balance(login)
      BY <1>1, <1>5, StillStakedNat DEF MoneyInv, BetsCovered, Solvent, Balance
    <2>3. Balance(login) + 35 * StillStaked(name, login) <= 36 * MaxBalance
      BY <2>1, <2>2, BalanceInt
    <2>. QED BY <1>1, <1>2, <1>3, <1>4, <2>2, <2>3 DEF Solvent, Balance
  <1>6. BetsCovered' BY <1>1, <1>4 DEF MoneyInv, BetsCovered
  <1>. QED BY <1>1, <1>5, <1>6 DEF MoneyInv

\* The next bet of the login is paid to the account, no more and no less, and
\* nothing else of the money changes.
PaidExactly(login, name) ==
    LET bets == sessions[name].bets[login]
        k    == spin.paid[login]
    IN  /\ spin # None /\ spin' # None
        /\ spin.table = name /\ spin'.table = name /\ sessions[name] # None
        /\ spin'.random_number = spin.random_number
        /\ sessions' = sessions
        /\ bets \in Seq(Bet) /\ k \in Nat /\ k < Len(bets)
        /\ spin'.paid[login] = k + 1
        /\ \A other \in Logins \ {login} : spin'.paid[other] = spin.paid[other]
        /\ data_base[login] # None /\ data_base'[login] # None
        /\ Balance(login)' = Balance(login) + Winnings(spin.random_number, bets[k + 1])
        /\ \A other \in Logins \ {login} : data_base'[other] = data_base[other]

(* A payment takes the bet off what is staked: it loses no more, and wins  *)
(* no more than was reckoned with.                                         *)
LEMMA MoneyPay ==
    ASSUME NoOverflow, Context, BalanceCached, PaidInRange, MoneyInv,
           NEW login \in Logins, pay(login)
    PROVE  MoneyInv' /\ \E name \in Tables : PaidExactly(login, name)
  <1>0. PICK name \in Tables : spin \in Spin /\ spin # None /\ name = spin.table
    BY DEF pay, Spinning, Context, TypeInv, TypeOK, Spin
  <1>. DEFINE bets == sessions[name].bets[login]
              k    == spin.paid[login]   bet == bets[k + 1]
              id   == login2id[login]
              won  == Winnings(spin.random_number, bet)
  <1>1. /\ spin \in Spin /\ spin # None /\ name = spin.table /\ sessions[name] # None
        /\ Unpaid(login) /\ Spinning
    BY <1>0 DEF pay, Pays, Spinning, Context, TypeInv, TypeOK, SpinAtTable, Spin
  <1>2. bets \in Seq(Bet) /\ k \in Nat /\ k < Len(bets)
    BY <1>1, BetsType DEF Context, Spin, Unpaid, SpinBets
  <1>3. bet \in Bet /\ k \in 0 .. Len(bets) - 1 /\ k \in 0 .. Len(bets)
        /\ k + 1 \in 0 .. Len(bets) /\ bets # <<>>
    <2>. HIDE DEF bets, k
    <2>1. k + 1 \in 1 .. Len(bets) /\ Len(bets) \in Nat BY <1>2
    <2>. QED BY <1>2, <2>1
  <1>4. /\ id \in Ids /\ users[id] # None /\ users[id].login = login /\ login # GuestLogin
        /\ login \in Users(name) /\ id2name[id] = name
    <2>1. login \in Users(name) BY <1>1, <1>3 DEF Context, MatchInv, Matched, BettorsSit, Open
    <2>. QED BY <1>1, <2>1, SitterSeated DEF Open, Seated
  <1>5. data_base[login] # None /\ users[id].balance = Balance(login) /\ Balance(login) \in Int
    <2>1. data_base[login] # None /\ users[id].balance = Balance(login)
      BY <1>4 DEF BalanceCached, Balance
    <2>. QED BY <2>1, BalanceInt DEF Context
  <1>. DEFINE S == Staked(bets) - sums(bets)[k]   v == bet.value
  <1>6. /\ S \in Nat /\ v \in Nat /\ won \in Int /\ -v <= won /\ won <= 35 * v
        /\ Staked(bets) - sums(bets)[k + 1] = S - v /\ S - v \in Nat
    <2>1. S \in Nat /\ Staked(bets) - sums(bets)[k + 1] \in Nat /\ Staked(bets) \in Nat
      BY <1>2, <1>3, StakedNat
    <2>2. v \in Nat /\ won \in Int /\ -v <= won /\ won <= 35 * v BY <1>3, WinningsRange
    <2>3. sums(bets)[k + 1] = sums(bets)[k] + v BY <1>2, <1>3, SumsStep
    <2>4. sums(bets)[k] \in Nat
      <3>1. 0 \in 0 .. Len(bets) /\ k \in 0 .. Len(bets) BY <1>2, <1>3
      <3>. QED BY <1>2, <3>1, SumsGrow
    <2>. HIDE DEF bets, k, v, won
    <2>. QED BY <2>1, <2>2, <2>3, <2>4
  <1>7. /\ S <= Balance(login) /\ Balance(login) >= 0
        /\ Balance(login) + 35 * S <= 36 * MaxBalance /\ 36 * MaxBalance <= INT_MAX
    <2>1. StillStaked(name, login) = S BY <1>1 DEF StillStaked
    <2>. HIDE DEF S
    <2>. QED BY <1>1, <1>5, <2>1 DEF MoneyInv, BetsCovered, Solvent, Balance, NoOverflow
  <1>8. /\ data_base' = [data_base EXCEPT ![login].balance = Wrap(Balance(login) + Wrap(won))]
        /\ spin' = [spin EXCEPT !.paid[login] = @ + 1] /\ sessions' = sessions
    <2>1. /\ data_base' = [data_base EXCEPT ![users[id].login].balance =
                              Wrap(users[id].balance + Wrap(won))]
          /\ spin' = [spin EXCEPT !.paid[login] = @ + 1] /\ sessions' = sessions
      BY <1>1 DEF pay, set_user_balance, NextBet, SpinBets
    <2>. HIDE DEF won, id
    <2>. QED BY <1>4, <1>5, <2>1
  <1>9. Wrap(Balance(login) + Wrap(won)) = Balance(login) + won
    <2>. HIDE DEF S, v, won
    <2>1. -INT_MAX <= won /\ won <= INT_MAX BY <1>5, <1>6, <1>7, BalanceInt
    <2>2. Wrap(won) = won BY <1>6, <2>1, WrapSame
    <2>3. /\ Balance(login) + won \in Int /\ -INT_MAX <= Balance(login) + won
          /\ Balance(login) + won <= INT_MAX
      BY <1>5, <1>6, <1>7, BalanceInt
    <2>. QED BY <2>2, <2>3, WrapSame
  <1>10. /\ Balance(login)' = Balance(login) + won /\ data_base'[login] # None
         /\ \A other \in Logins \ {login} : data_base'[other] = data_base[other]
    <2>1. data_base[login] \in Account BY <1>5 DEF Context, TypeInv, TypeOK
    <2>. HIDE DEF won
    <2>2. data_base' = [data_base EXCEPT ![login] =
              [data_base[login] EXCEPT !.balance = Balance(login) + won]]
      BY <1>8, <1>9
    <2>3. [data_base[login] EXCEPT !.balance = Balance(login) + won]
              = [permission |-> data_base[login].permission, balance |-> Balance(login) + won]
      BY <2>1 DEF Account
    <2>4. /\ data_base'[login] = [permission |-> data_base[login].permission,
                                  balance |-> Balance(login) + won]
          /\ \A other \in Logins \ {login} : data_base'[other] = data_base[other]
      BY <2>2, <2>3 DEF Context, TypeInv, TypeOK
    <2>5. data_base'[login] \in Account
      BY <1>5, <1>6, <2>1, <2>4 DEF Account
    <2>. QED BY <2>4, <2>5, NoneIsNothing DEF Balance
  <1>11. /\ spin' # None /\ spin'.table = name /\ spin'.paid[login] = k + 1
         /\ spin'.random_number = spin.random_number
         /\ \A other \in Logins \ {login} : spin'.paid[other] = spin.paid[other]
    <2>1. spin' = [table |-> spin.table, random_number |-> spin.random_number,
                   paid |-> [spin.paid EXCEPT ![login] = @ + 1]]
      BY <1>1, <1>8 DEF Spin
    <2>2. [spin.paid EXCEPT ![login] = @ + 1] \in [Logins -> Nat] BY <1>1 DEF Spin
    <2>. QED BY <1>1, <2>1, <2>2, NoneIsNothing DEF Spin
  <1>12. StillStaked(name, login)' = S - v
    <2>. HIDE DEF S, v, won
    <2>1. StillStaked(name, login)' = Staked(bets) - sums(bets)[k + 1]
      BY <1>8, <1>11 DEF StillStaked
    <2>. QED BY <1>6, <2>1
  <1>13. ASSUME NEW t \in Tables, NEW l \in Logins, ~(t = name /\ l = login)
         PROVE  StillStaked(t, l)' = StillStaked(t, l)
    BY <1>1, <1>8, <1>11, <1>13 DEF StillStaked
  <1>14. ASSUME NEW t \in Tables, t # name, sessions[t] # None PROVE StillStaked(t, login) = 0
    <2>1. sessions[t].bets[login] = <<>>
      <3>. SUFFICES ASSUME login \in Users(t) PROVE FALSE
        BY <1>14 DEF Context, MatchInv, Matched, BettorsSit, Open
      <3>. QED BY <1>4, <1>14, SitterSeated DEF Open
    <2>. QED BY <1>1, <1>14, <2>1, NothingStaked DEF StillStaked
  <1>15. PaidExactly(login, name)
    <2>. HIDE DEF S, v
    <2>. QED BY <1>1, <1>2, <1>5, <1>8, <1>10, <1>11 DEF PaidExactly
  <1>. HIDE DEF S, v, won, bets, k, bet, id
  <1>16. ASSUME NEW t \in Tables, NEW l \in Logins, sessions'[t] # None, data_base'[l] # None
         PROVE  StillStaked(t, l)' <= data_base'[l].balance
    <2>1. sessions[t] # None BY <1>8, <1>16
    <2>2. CASE l # login
      <3>1. data_base'[l] = data_base[l] /\ StillStaked(t, l)' = StillStaked(t, l)
        BY <1>10, <1>13, <2>2
      <3>. QED BY <1>16, <2>1, <3>1 DEF MoneyInv, BetsCovered
    <2>3. CASE l = login /\ t = name
      <3>1. S - v <= Balance(login) + won BY <1>5, <1>6, <1>7
      <3>. QED BY <1>10, <1>12, <2>3, <3>1 DEF Balance
    <2>4. CASE l = login /\ t # name
      <3>1. StillStaked(t, l)' = 0 BY <1>13, <1>14, <2>1, <2>4
      <3>2. 0 <= Balance(login) + won BY <1>5, <1>6, <1>7
      <3>. QED BY <1>10, <2>4, <3>1, <3>2 DEF Balance
    <2>. QED BY <2>2, <2>3, <2>4
  <1>17. ASSUME NEW l \in Logins, data_base'[l] # None PROVE Solvent(l)'
    <2>1. CASE l # login
      <3>1. data_base'[l] = data_base[l] /\ StillStaked(name, l)' = StillStaked(name, l)
        BY <1>1, <1>10, <1>13, <2>1
      <3>2. Balance(l) >= 0 /\ Balance(l) + 35 * StillStaked(name, l) <= 36 * MaxBalance
        BY <1>1, <1>17, <3>1 DEF MoneyInv, Solvent
      <3>. QED BY <1>11, <3>1, <3>2 DEF Solvent, Balance
    <2>2. CASE l = login
      <3>1. /\ Balance(login) + won >= 0
            /\ (Balance(login) + won) + 35 * (S - v) <= 36 * MaxBalance
        BY <1>5, <1>6, <1>7, BalanceInt
      <3>. QED BY <1>10, <1>11, <1>12, <2>2, <3>1 DEF Solvent
    <2>. QED BY <2>1, <2>2
  <1>. QED BY <1>15, <1>16, <1>17 DEF MoneyInv, BetsCovered

(* A spin that ends leaves the balances as they are, and no bets at the    *)
(* table.                                                                  *)
LEMMA MoneyEnd ==
    ASSUME TypeInv, PaidInRange, MoneyInv, spin # None, spin' = None, UNCHANGED data_base,
           \A name \in Tables, login \in Logins : sessions'[name] # None =>
               \/ sessions'[name].bets[login] = <<>>
               \/ /\ sessions[name] # None /\ name # spin.table
                  /\ sessions'[name].bets[login] = sessions[name].bets[login]
    PROVE  MoneyInv'
  <1>1. ASSUME NEW login \in Logins, data_base[login] # None
        PROVE  Balance(login) \in Int /\ Balance(login) >= 0 /\ Balance(login) <= 36 * MaxBalance
    <2>1. spin.table \in Tables /\ sessions[spin.table] # None
      BY DEF TypeInv, TypeOK, SpinAtTable, Spin
    <2>2. StillStaked(spin.table, login) \in Nat BY <2>1, StillStakedNat
    <2>3. /\ Balance(login) >= 0
          /\ Balance(login) + 35 * StillStaked(spin.table, login) <= 36 * MaxBalance
      BY <1>1 DEF MoneyInv, Solvent
    <2>. QED BY <1>1, <2>2, <2>3, BalanceInt
  <1>2. ASSUME NEW name \in Tables, NEW login \in Logins,
               sessions'[name] # None, data_base[login] # None
        PROVE  StillStaked(name, login)' <= data_base'[login].balance
    <2>1. CASE sessions'[name].bets[login] = <<>>
      <3>1. StillStaked(name, login)' = 0 BY <2>1, NothingStaked DEF StillStaked
      <3>. QED BY <1>1, <1>2, <3>1 DEF Balance
    <2>2. CASE /\ sessions[name] # None /\ name # spin.table
               /\ sessions'[name].bets[login] = sessions[name].bets[login]
      <3>1. StillStaked(name, login)' = StillStaked(name, login) BY <2>2 DEF StillStaked
      <3>. QED BY <1>2, <2>2, <3>1 DEF MoneyInv, BetsCovered
    <2>. QED BY <1>2, <2>1, <2>2
  <1>3. \A login \in Logins : data_base'[login] # None => Solvent(login)'
    BY <1>1 DEF Solvent, Balance, Reachable
  <1>. QED BY <1>2, <1>3 DEF MoneyInv, BetsCovered

LEMMA MoneyNext ==
    ASSUME CarefulAdmin, NoOverflow
    PROVE  /\ TypeInv /\ LoginMapped /\ RowsUnseated /\ MatchInv
           /\ BalanceCached /\ PaidInRange /\ MoneyInv /\ [Next]_vars
           => MoneyInv'
  <1>. SUFFICES ASSUME TypeInv, LoginMapped, RowsUnseated, MatchInv,
                       BalanceCached, PaidInRange, MoneyInv, [Next]_vars
                PROVE  MoneyInv'
    OBVIOUS
  <1>1. status = "up" => Context BY DEF Context
  <1>2. ASSUME NEW id \in Ids, NEW bet \in Offers, do_bet(id, bet) PROVE MoneyInv'
    BY <1>1, <1>2, MoneyBet DEF do_bet, Executes, Serving
  <1>3. ASSUME NEW id \in Ids, NEW login \in Logins, do_signup(id, login) PROVE MoneyInv'
    BY <1>1, <1>3, MoneySignup DEF do_signup, Executes, Serving
  <1>4. ASSUME NEW id \in Ids, NEW n \in Outcomes, do_spin(id, n) PROVE MoneyInv'
    BY <1>4, MoneySpin
  <1>5. ASSUME NEW login \in Logins, pay(login) PROVE MoneyInv'
    BY <1>1, <1>5, MoneyPay DEF pay, Spinning
  <1>6. ASSUME NEW login \in Logins, spin_fails(login) PROVE MoneyInv'
    BY <1>1, <1>6, EverybodyPayable DEF spin_fails, Pays, Spinning
  <1>7. CASE clear_bets
    <2>1. /\ spin # None /\ spin' = None /\ UNCHANGED data_base
          /\ spin.table \in Tables /\ sessions[spin.table] \in Session
          /\ sessions' = [sessions EXCEPT ![spin.table] =
                 [sessions[spin.table] EXCEPT !.bets = NoBets]]
      BY <1>7 DEF clear_bets, Spinning, TypeInv, TypeOK, SpinAtTable, Spin
    <2>2. [sessions[spin.table] EXCEPT !.bets = NoBets].bets = NoBets BY <2>1 DEF Session
    <2>3. \A name \in Tables, login \in Logins : sessions'[name] # None =>
              \/ sessions'[name].bets[login] = <<>>
              \/ /\ sessions[name] # None /\ name # spin.table
                 /\ sessions'[name].bets[login] = sessions[name].bets[login]
      BY <2>1, <2>2 DEF NoBets, TypeInv, TypeOK
    <2>. QED BY <2>1, <2>3, MoneyEnd
  <1>8. CASE restart
    <2>1. /\ UNCHANGED data_base /\ spin' = None
          /\ \A name \in Tables : sessions'[name] = None
      BY <1>8 DEF restart, Empty
    <2>2. NoNewBet /\ SameBalances BY <2>1 DEF NoNewBet, SameBalances
    <2>. QED BY <2>1, <2>2, MoneyEnd, MoneyKept
  <1>9. CASE UNCHANGED vars
    BY <1>9 DEF vars, MoneyInv, BetsCovered, StillStaked, Solvent, Balance
  <1>10. ASSUME spin = None, spin' = None PROVE MoneyInv'
    <2>1. NoNewBet \/ MoneyInv' BY <1>2, BetsNext
    <2>2. SameBalances \/ MoneyInv' BY <1>3, <1>5, BalancesNext
    <2>. QED BY <1>10, <2>1, <2>2, MoneyKept
  <1>. QED BY <1>4, <1>5, <1>6, <1>7, <1>8, <1>9, <1>10, SpinSteps

LEMMA MoneyInit == Init => MoneyInv
  <1>. SUFFICES ASSUME Init PROVE MoneyInv OBVIOUS
  <1>1. spin = None /\ \A name \in Tables : sessions[name] = None BY DEF Init, Empty
  <1>2. ASSUME NEW login \in Logins, data_base[login] # None
        PROVE  Balance(login) \in {START_UP_CAPITAL, ADMIN_CAPITAL}
    BY <1>2 DEF Init, Balance
  <1>3. START_UP_CAPITAL \in Nat /\ ADMIN_CAPITAL \in Nat BY ConstantsAssumption
  <1>4. ASSUME NEW login \in Logins, data_base[login] # None PROVE Solvent(login)
    <2>1. Balance(login) \in Reachable /\ Balance(login) \in Nat
      BY <1>2, <1>3, <1>4 DEF Reachable
    <2>. QED BY <1>1, <2>1 DEF Solvent
  <1>. QED BY <1>1, <1>4 DEF MoneyInv, BetsCovered

(* MoneyInv: no balance is ever negative, and even the best spin fits.     *)
THEOREM Money == ASSUME CarefulAdmin, NoOverflow PROVE Spec => []MoneyInv
  <1>1. Init => PaidInRange BY DEF Init, PaidInRange
  <1>. QED BY <1>1, MoneyInit, MoneyNext, PaidNext, Matching, Typing, OneConnectionPerLogin,
              AccountsUnseated, BalanceIsAccount, PTL DEF Spec

(* BetsCovered: nobody stakes more than he has, at any step of any spin,   *)
(* as long as no sum of a balance and a bet is larger than an int.         *)
THEOREM BetsAlwaysCovered == ASSUME CarefulAdmin, NoOverflow PROVE Spec => []BetsCovered
  <1>1. MoneyInv => BetsCovered BY DEF MoneyInv
  <1>. QED BY <1>1, Money, PTL
-----------------------------------------------------------------------------
(* The server implements Casino.                                           *)

(* An instance has its own copies of the operators of Bets.                *)
LEMMA SameWinning ==
    ASSUME NEW n, NEW bet
    PROVE  TheCasino!wining(n, bet) = wining(n, bet)
  <1>1. TheCasino!reds = reds BY DEF TheCasino!reds, reds
  <1>2. \A k : TheCasino!is_zero(k) = is_zero(k) BY DEF TheCasino!is_zero, is_zero
  <1>3. \A k, i : TheCasino!HSplitWins(k, i) = HSplitWins(k, i)
    BY DEF TheCasino!HSplitWins, HSplitWins
  <1>4. \A k : TheCasino!corner(k) = corner(k)
    BY DEF TheCasino!corner, corner, TheCasino!corners, corners
  <1>. QED BY <1>1, <1>2, <1>3, <1>4 DEF TheCasino!wining, wining

LEMMA SameRules ==
    ASSUME NEW n, NEW bet
    PROVE  /\ TheCasino!Winnings(n, bet) = Winnings(n, bet)
           /\ TheCasino!validate(bet) = validate(bet)
           /\ TheCasino!Pockets = Pockets
  <1>1. TheCasino!BetTypes = BetTypes /\ TheCasino!Outside = Outside
    BY DEF TheCasino!BetTypes, BetTypes, TheCasino!Outside, Outside
  <1>2. TheCasino!multipliers = multipliers BY <1>1 DEF TheCasino!multipliers, multipliers
  <1>3. TheCasino!Winnings(n, bet) = Winnings(n, bet)
    BY <1>2, SameWinning DEF TheCasino!Winnings, Winnings
  <1>4. TheCasino!range_ends = range_ends BY <1>1 DEF TheCasino!range_ends, range_ends
  <1>5. TheCasino!validate(bet) = validate(bet)
    BY <1>1, <1>4 DEF TheCasino!validate, validate,
           TheCasino!norm_number, norm_number
  <1>6. TheCasino!Pockets = Pockets
    BY DEF TheCasino!Pockets, Pockets, TheCasino!MAX_NUMBER, MAX_NUMBER
  <1>. QED BY <1>3, <1>5, <1>6

LEMMA SameStaked ==
    ASSUME NEW bets
    PROVE  TheCasino!Staked(bets) = Staked(bets)
  BY DEF TheCasino!Staked, Staked, TheCasino!sums, sums

(* What an action that moves no money shows of it.                         *)
LEMMA AccountSame == ASSUME SameBalances PROVE account' = account
  <1>1. \A login \in Logins :
            (IF data_base'[login] = None THEN None ELSE data_base'[login].balance)
                = (IF data_base[login] = None THEN None ELSE data_base[login].balance)
    BY DEF SameBalances
  <1>. QED BY <1>1 DEF account

LEMMA StakesSame ==
    ASSUME \A name \in Tables, login \in Logins : Stake(name, login)' = Stake(name, login)
    PROVE  stakes' = stakes
  BY DEF stakes

(* One that writes one account, or the stake of one login at one table.    *)
LEMMA AccountWritten ==
    ASSUME NEW login \in Logins, data_base'[login] # None,
           \A other \in Logins \ {login} : data_base'[other] = data_base[other]
    PROVE  account' = [account EXCEPT ![login] = data_base'[login].balance]
  <1>1. account' = [l \in Logins |->
            IF data_base'[l] = None THEN None ELSE data_base'[l].balance]
    BY DEF account
  <1>2. \A l \in Logins \ {login} :
            (IF data_base'[l] = None THEN None ELSE data_base'[l].balance) = account[l]
    BY DEF account
  <1>3. account = [l \in Logins |-> account[l]] BY DEF account
  <1>. QED BY <1>1, <1>2, <1>3

LEMMA StakeWritten ==
    ASSUME NEW name \in Tables, NEW login \in Logins, NEW bets, Stake(name, login)' = bets,
           \A t \in Tables, l \in Logins :
               ~(t = name /\ l = login) => Stake(t, l)' = Stake(t, l)
    PROVE  stakes' = [stakes EXCEPT ![name][login] = bets]
  <1>1. stakes' = [t \in Tables |-> [l \in Logins |-> Stake(t, l)']] BY DEF stakes
  <1>2. \A t \in Tables \ {name} : [l \in Logins |-> Stake(t, l)'] = stakes[t]
    BY DEF stakes
  <1>3. [l \in Logins |-> Stake(name, l)'] = [stakes[name] EXCEPT ![login] = bets]
    <2>1. stakes[name] = [l \in Logins |-> Stake(name, l)] BY DEF stakes
    <2>. QED BY <2>1
  <1>4. stakes = [t \in Tables |-> stakes[t]] BY DEF stakes
  <1>. QED BY <1>1, <1>2, <1>3, <1>4

(* What is left of a sequence from one of its places on.                   *)
LEMMA Rest ==
    ASSUME NEW bets \in Seq(Bet), NEW k \in Nat, k < Len(bets)
    PROVE  LET rest == SubSeq(bets, k + 1, Len(bets))
           IN  /\ rest # <<>> /\ Head(rest) = bets[k + 1]
               /\ Tail(rest) = SubSeq(bets, k + 1 + 1, Len(bets))
  <1>. DEFINE rest == SubSeq(bets, k + 1, Len(bets))
  <1>1. rest \in Seq(Bet) /\ Len(rest) = Len(bets) - k
        /\ \A i \in 1 .. Len(bets) - k : rest[i] = bets[k + i]
    OBVIOUS
  <1>2. Len(bets) \in Nat /\ Len(bets) - k \in Nat \ {0} OBVIOUS
  <1>. HIDE DEF rest
  <1>3. rest # <<>> /\ Head(rest) = bets[k + 1] BY <1>1, <1>2
  <1>4. Tail(rest) = SubSeq(bets, k + 1 + 1, Len(bets))
    <2>. DEFINE tail == SubSeq(bets, k + 1 + 1, Len(bets))
    <2>1. /\ tail \in Seq(Bet) /\ Len(tail) = Len(bets) - k - 1
          /\ \A i \in 1 .. Len(bets) - k - 1 : tail[i] = bets[k + 1 + i]
      BY <1>2
    <2>2. /\ Tail(rest) \in Seq(Bet) /\ Len(Tail(rest)) = Len(bets) - k - 1
          /\ \A i \in 1 .. Len(bets) - k - 1 : Tail(rest)[i] = rest[i + 1]
      BY <1>1, <1>2, <1>3
    <2>. HIDE DEF tail
    <2>3. \A i \in 1 .. Len(bets) - k - 1 : Tail(rest)[i] = tail[i]
      <3>1. \A i \in 1 .. Len(bets) - k - 1 : i + 1 \in 1 .. Len(bets) - k /\ k + (i + 1) = k + 1 + i
        BY <1>2
      <3>. QED BY <1>1, <2>1, <2>2, <3>1
    <2>4. Tail(rest) = tail
      <3>1. \A one, two \in Seq(Bet) :
                Len(one) = Len(two) /\ (\A i \in 1 .. Len(one) : one[i] = two[i]) => one = two
        OBVIOUS
      <3>. QED BY <2>1, <2>2, <2>3, <3>1
    <2>. QED BY <2>4 DEF tail
  <1>. QED BY <1>3, <1>4 DEF rest

LEMMA RestOfAll ==
    ASSUME NEW bets \in Seq(Bet), NEW k \in Nat
    PROVE  /\ SubSeq(bets, 0 + 1, Len(bets)) = bets
           /\ ~(k < Len(bets)) => SubSeq(bets, k + 1, Len(bets)) = <<>>
  OBVIOUS

(* Without a spin, bets only go with those who leave.                      *)
LEMMA CasinoWithdraw ==
    ASSUME spin = None, spin' = None, NoNewBet, SameBalances
    PROVE  \E leaving \in SUBSET (Tables \X Logins) : TheCasino!Withdraw(leaving)
  <1>. DEFINE leaving == {seat \in Tables \X Logins : Stake(seat[1], seat[2])' = <<>>}
  <1>1. ASSUME NEW name \in Tables, NEW login \in Logins
        PROVE  Stake(name, login)' = IF <<name, login>> \in leaving THEN <<>>
                                     ELSE stakes[name][login]
    <2>1. CASE <<name, login>> \in leaving BY <2>1
    <2>2. CASE <<name, login>> \notin leaving
      <3>1. Stake(name, login)' # <<>> BY <2>2
      <3>2. sessions'[name] # None /\ sessions'[name].bets[login] # <<>>
        BY <3>1 DEF Stake
      <3>3. sessions[name] # None /\ sessions'[name].bets[login] = sessions[name].bets[login]
        BY <3>2 DEF NoNewBet
      <3>. QED BY <2>2, <3>2, <3>3 DEF Stake, stakes
    <2>. QED BY <2>1, <2>2
  <1>2. leaving \in SUBSET (Tables \X Logins) OBVIOUS
  <1>. HIDE DEF leaving
  <1>3. stakes' = [name \in Tables |-> [login \in Logins |->
            IF <<name, login>> \in leaving THEN <<>> ELSE stakes[name][login]]]
    BY <1>1 DEF stakes
  <1>4. wheel = TheCasino!Standing /\ wheel' = wheel BY DEF wheel, TheCasino!Standing
  <1>. QED BY <1>2, <1>3, <1>4, AccountSame DEF TheCasino!Withdraw

LEMMA CasinoBet ==
    ASSUME NoOverflow, Context, BalanceCached, PaidInRange, MoneyInv,
           NEW id \in Ids, NEW bet \in Offers, do_bet(id, bet)
    PROVE  \E name \in Tables, login \in Logins : TheCasino!PlaceBet(name, login, bet)
  <1>1. PICK name \in Tables, login \in Logins :
            LET bets == sessions[name].bets[login]
            IN  /\ spin = None /\ UNCHANGED <<data_base, spin>>
                /\ sessions[name] # None /\ data_base[login] # None
                /\ Staked(bets) + bet.value <= Balance(login)
                /\ sessions'[name] # None /\ sessions'[name].bets[login] = push_back(bets, bet)
                /\ \A t \in Tables, l \in Logins : ~(t = name /\ l = login) =>
                       /\ sessions'[t] = None <=> sessions[t] = None
                       /\ sessions[t] # None => sessions'[t].bets[l] = sessions[t].bets[l]
                /\ \A other \in Tables \ {name} :
                       sessions[other] # None => sessions[other].bets[login] = <<>>
    BY BetEffect
  <1>. DEFINE bets == sessions[name].bets[login]
  <1>2. /\ stakes[name][login] = bets /\ Stake(name, login)' = push_back(bets, bet)
        /\ \A other \in Tables \ {name} : stakes[other][login] = <<>>
    BY <1>1 DEF stakes, Stake
  <1>3. \A t \in Tables, l \in Logins : ~(t = name /\ l = login) =>
            Stake(t, l)' = Stake(t, l)
    BY <1>1 DEF Stake
  <1>4. stakes' = [stakes EXCEPT ![name][login] = Append(stakes[name][login], bet)]
    BY <1>2, <1>3, StakeWritten DEF push_back
  <1>5. /\ account' = account /\ wheel' = wheel /\ wheel = TheCasino!Standing
        /\ account[login] = Balance(login)
    BY <1>1 DEF account, wheel, TheCasino!Standing, Balance
  <1>6. account[login] # None
    <2>1. Balance(login) \in Int BY <1>1, BalanceInt DEF Context
    <2>. QED BY <1>5, <2>1, NoneAssumption
  <1>7. TheCasino!validate(bet) BY SameRules DEF do_bet
  <1>8. TheCasino!Staked(stakes[name][login]) + bet.value <= account[login]
    BY <1>1, <1>2, <1>5, SameStaked
  <1>. QED BY <1>2, <1>4, <1>5, <1>6, <1>7, <1>8 DEF TheCasino!PlaceBet

LEMMA CasinoSignup ==
    ASSUME TypeInv, NEW id \in Ids, NEW login \in Logins, do_signup(id, login)
    PROVE  TheCasino!OpenAccount(login)
  <1>. DEFINE row == [permission |-> USER, balance |-> START_UP_CAPITAL]
  <1>1. /\ data_base[login] = None /\ data_base' = [data_base EXCEPT ![login] = row]
        /\ UNCHANGED <<sessions, spin>>
    BY DEF do_signup
  <1>2. row \in Account /\ row.balance = START_UP_CAPITAL
    BY PermissionsType, ConstantsAssumption DEF Account
  <1>. HIDE DEF row
  <1>3. /\ data_base'[login] = row /\ data_base'[login] # None
        /\ \A other \in Logins \ {login} : data_base'[other] = data_base[other]
    BY <1>1, <1>2, NoneIsNothing DEF TypeInv, TypeOK
  <1>4. account' = [account EXCEPT ![login] = START_UP_CAPITAL]
    BY <1>2, <1>3, AccountWritten
  <1>5. account[login] = None BY <1>1 DEF account
  <1>6. stakes' = stakes /\ wheel' = wheel BY <1>1 DEF stakes, Stake, wheel
  <1>. QED BY <1>4, <1>5, <1>6 DEF TheCasino!OpenAccount

LEMMA CasinoSpin ==
    ASSUME TypeInv, NEW id \in Ids, NEW random_number \in Outcomes, do_spin(id, random_number)
    PROVE  \E name \in Tables, pocket \in TheCasino!Pockets : TheCasino!Turn(name, pocket)
  <1>1. PICK name \in Tables :
            /\ sessions[name] # None /\ spin = None /\ UNCHANGED <<data_base, sessions>>
            /\ spin' = [table |-> name, random_number |-> random_number,
                        paid |-> [login \in Logins |-> 0]]
    BY DEF do_spin, Executes, Serving, has_session, TypeInv, TypeOK
  <1>2. random_number \in TheCasino!Pockets BY SameRules, ConstantsAssumption
  <1>3. spin' # None
    <2>1. random_number \in Pockets /\ [login \in Logins |-> 0] \in [Logins -> Nat]
      BY ConstantsAssumption
    <2>. QED BY <1>1, <2>1, NoneIsNothing DEF Spin
  <1>4. /\ wheel = TheCasino!Standing
        /\ wheel' = [table |-> name, pocket |-> random_number]
    BY <1>1, <1>3 DEF wheel, TheCasino!Standing
  <1>5. stakes' = stakes
    <2>1. ASSUME NEW t \in Tables, NEW login \in Logins
          PROVE  Stake(t, login)' = Stake(t, login)
      <3>1. spin'.table = name /\ spin'.paid[login] = 0 BY <1>1
      <3>2. CASE t = name
        <4>1. sessions[t].bets[login] \in Seq(Bet) BY <1>1, <3>2, BetsType
        <4>2. SubSeq(sessions[t].bets[login], 0 + 1, Len(sessions[t].bets[login]))
                  = sessions[t].bets[login]
          BY <4>1, RestOfAll
        <4>3. Stake(t, login) = sessions[t].bets[login] BY <1>1, <3>2 DEF Stake
        <4>4. Stake(t, login)'
                  = SubSeq(sessions[t].bets[login], 0 + 1, Len(sessions[t].bets[login]))
          BY <1>1, <1>3, <3>1, <3>2 DEF Stake
        <4>. QED BY <4>2, <4>3, <4>4
      <3>3. CASE t # name BY <1>1, <3>1, <3>3 DEF Stake
      <3>. QED BY <3>2, <3>3
    <2>. QED BY <2>1, StakesSame
  <1>6. account' = account BY <1>1 DEF account
  <1>. QED BY <1>2, <1>4, <1>5, <1>6 DEF TheCasino!Turn

LEMMA CasinoPay ==
    ASSUME NEW login \in Logins, NEW name \in Tables, PaidExactly(login, name)
    PROVE  TheCasino!Pay(name, login)
  <1>. DEFINE bets == sessions[name].bets[login]
              k    == spin.paid[login]
              rest == SubSeq(bets, k + 1, Len(bets))
  <1>1. /\ bets \in Seq(Bet) /\ k \in Nat /\ k < Len(bets)
        /\ spin # None /\ spin.table = name /\ sessions[name] # None
        /\ spin' # None /\ spin'.table = name /\ sessions' = sessions
        /\ spin'.random_number = spin.random_number /\ spin'.paid[login] = k + 1
        /\ \A other \in Logins \ {login} : spin'.paid[other] = spin.paid[other]
    BY DEF PaidExactly
  <1>2. /\ rest # <<>> /\ Head(rest) = bets[k + 1]
        /\ Tail(rest) = SubSeq(bets, k + 1 + 1, Len(bets))
    BY <1>1, Rest
  <1>3. stakes[name][login] = rest BY <1>1 DEF stakes, Stake
  <1>4. Stake(name, login)' = SubSeq(bets, k + 1 + 1, Len(bets)) BY <1>1 DEF Stake
  <1>5. \A t \in Tables, l \in Logins : ~(t = name /\ l = login) =>
            Stake(t, l)' = Stake(t, l)
    BY <1>1 DEF Stake
  <1>6. wheel' = wheel /\ wheel.table = name /\ wheel.pocket = spin.random_number
    BY <1>1 DEF wheel
  <1>7. account' = [account EXCEPT ![login] =
            account[login] + TheCasino!Winnings(wheel.pocket, Head(rest))]
    <2>1. data_base'[login].balance = account[login] + Winnings(spin.random_number, bets[k + 1])
      BY DEF PaidExactly, Balance, account
    <2>2. account' = [account EXCEPT ![login] = data_base'[login].balance]
      BY AccountWritten DEF PaidExactly
    <2>. HIDE DEF rest, bets, k
    <2>. QED BY <1>2, <1>6, <2>1, <2>2, SameRules
  <1>. HIDE DEF rest, bets, k
  <1>8. stakes' = [stakes EXCEPT ![name][login] = Tail(stakes[name][login])]
    <2>1. Stake(name, login)' = Tail(rest) BY <1>2, <1>4
    <2>2. stakes' = [stakes EXCEPT ![name][login] = Tail(rest)] BY <1>5, <2>1, StakeWritten
    <2>. QED BY <1>3, <2>2
  <1>. QED BY <1>2, <1>3, <1>6, <1>7, <1>8 DEF TheCasino!Pay

LEMMA CasinoStop ==
    ASSUME TypeInv, clear_bets
    PROVE  \E name \in Tables : TheCasino!Stop(name)
  <1>1. PICK name \in Tables :
            /\ name = spin.table /\ spin # None /\ spin \in Spin /\ spin' = None
            /\ sessions[name] # None /\ sessions[name] \in Session /\ UNCHANGED data_base
            /\ sessions' = [sessions EXCEPT ![name] = [sessions[name] EXCEPT !.bets = NoBets]]
    BY DEF clear_bets, Spinning, TypeInv, TypeOK, SpinAtTable, Spin
  <1>2. \A login \in Logins : Stake(name, login) = <<>>
    <2>. TAKE login \in Logins
    <2>1. sessions[name].bets[login] \in Seq(Bet) /\ spin.paid[login] \in Nat
      BY <1>1, BetsType DEF Spin
    <2>2. ~(spin.paid[login] < Len(sessions[name].bets[login]))
      BY <1>1 DEF clear_bets, Unpaid, SpinBets
    <2>. QED BY <1>1, <2>1, <2>2, RestOfAll DEF Stake
  <1>3. ASSUME NEW t \in Tables, NEW login \in Logins
        PROVE  Stake(t, login)' = Stake(t, login)
    <2>1. CASE t = name
      <3>1. [sessions[name] EXCEPT !.bets = NoBets].bets[login] = <<>>
        BY <1>1 DEF Session, NoBets
      <3>2. sessions'[name].bets[login] = <<>> BY <1>1, <3>1 DEF TypeInv, TypeOK
      <3>. QED BY <1>1, <1>2, <2>1, <3>2 DEF Stake
    <2>2. CASE t # name
      <3>1. sessions'[t] = sessions[t] BY <1>1, <2>2
      <3>. QED BY <1>1, <2>2, <3>1 DEF Stake
    <2>. QED BY <2>1, <2>2
  <1>4. stakes' = stakes BY <1>3, StakesSame
  <1>5. \A login \in Logins : stakes[name][login] = <<>> BY <1>2 DEF stakes
  <1>6. wheel.table = name /\ wheel' = TheCasino!Standing
    BY <1>1 DEF wheel, TheCasino!Standing
  <1>7. account' = account BY <1>1 DEF account
  <1>. QED BY <1>4, <1>5, <1>6, <1>7 DEF TheCasino!Stop

LEMMA CasinoCrash == ASSUME restart PROVE TheCasino!Crash
  <1>1. /\ \A name \in Tables : sessions'[name] = None
        /\ spin' = None /\ UNCHANGED data_base
    BY DEF restart, Empty
  <1>2. stakes' = TheCasino!NoStakes BY <1>1 DEF stakes, Stake, TheCasino!NoStakes
  <1>3. wheel' = TheCasino!Standing BY <1>1 DEF wheel, TheCasino!Standing
  <1>4. account' = account BY <1>1 DEF account
  <1>. QED BY <1>2, <1>3, <1>4 DEF TheCasino!Crash

(* Every step is one of the casino, or stutters.                           *)
LEMMA CasinoNext ==
    ASSUME CarefulAdmin, NoOverflow
    PROVE  /\ TypeInv /\ LoginMapped /\ RowsUnseated /\ MatchInv
           /\ BalanceCached /\ PaidInRange /\ MoneyInv /\ [Next]_vars
           => [TheCasino!Next]_(TheCasino!money)
  <1>. SUFFICES ASSUME TypeInv, LoginMapped, RowsUnseated, MatchInv,
                       BalanceCached, PaidInRange, MoneyInv, [Next]_vars
                PROVE  TheCasino!Next \/ UNCHANGED <<account, stakes, wheel>>
    BY DEF TheCasino!money
  <1>1. status = "up" => Context BY DEF Context
  <1>2. ASSUME NEW id \in Ids, NEW bet \in Offers, do_bet(id, bet) PROVE TheCasino!Next
    BY <1>1, <1>2, CasinoBet DEF do_bet, Executes, Serving, TheCasino!Next
  <1>3. ASSUME NEW id \in Ids, NEW login \in Logins, do_signup(id, login) PROVE TheCasino!Next
    BY <1>3, CasinoSignup DEF TheCasino!Next
  <1>4. ASSUME NEW id \in Ids, NEW n \in Outcomes, do_spin(id, n) PROVE TheCasino!Next
    BY <1>4, CasinoSpin DEF TheCasino!Next
  <1>5. ASSUME NEW login \in Logins, pay(login) PROVE TheCasino!Next
    BY <1>1, <1>5, MoneyPay, CasinoPay DEF pay, Spinning, TheCasino!Next
  <1>6. ASSUME NEW login \in Logins, spin_fails(login) PROVE FALSE
    BY <1>1, <1>6, EverybodyPayable DEF spin_fails, Pays, Spinning
  <1>7. CASE clear_bets BY <1>7, CasinoStop DEF TheCasino!Next
  <1>8. CASE restart BY <1>8, CasinoCrash DEF TheCasino!Next
  <1>9. CASE UNCHANGED vars BY <1>9 DEF vars, account, stakes, Stake, wheel
  <1>10. ASSUME spin = None, spin' = None PROVE TheCasino!Next
    <2>1. NoNewBet \/ TheCasino!Next BY <1>2, BetsNext
    <2>2. SameBalances \/ TheCasino!Next BY <1>3, <1>5, BalancesNext
    <2>. QED BY <1>10, <2>1, <2>2, CasinoWithdraw DEF TheCasino!Next
  <1>. QED BY <1>4, <1>5, <1>6, <1>7, <1>8, <1>9, <1>10, SpinSteps

LEMMA CasinoInit == Init => TheCasino!Init
  <1>. SUFFICES ASSUME Init PROVE TheCasino!Init OBVIOUS
  <1>1. ASSUME NEW login \in Logins, data_base[login] # None
        PROVE  data_base[login].balance \in Nat
    <2>1. data_base[login].balance \in {START_UP_CAPITAL, ADMIN_CAPITAL} BY <1>1 DEF Init
    <2>. QED BY <2>1, ConstantsAssumption
  <1>2. account \in [Logins -> Nat \cup {None}] BY <1>1 DEF account
  <1>3. spin = None /\ \A name \in Tables : sessions[name] = None BY DEF Init, Empty
  <1>4. stakes = TheCasino!NoStakes BY <1>3 DEF stakes, Stake, TheCasino!NoStakes
  <1>5. wheel = TheCasino!Standing BY <1>3 DEF wheel, TheCasino!Standing
  <1>. QED BY <1>2, <1>4, <1>5 DEF TheCasino!Init

(* CasinoImplemented: for any number of players, tables and bets, and any  *)
(* order of their requests and crashes, the handlers of the server do with *)
(* money what Casino allows, as long as the administrator leaves those at  *)
(* a table alone and no int overflows.                                     *)
THEOREM ServerIsCasino == ASSUME CarefulAdmin, NoOverflow PROVE Spec => CasinoImplemented
  <1>1. Init => PaidInRange BY DEF Init, PaidInRange
  <1>. QED BY <1>1, CasinoInit, CasinoNext, Money, PaidNext, Matching, Typing,
              OneConnectionPerLogin, AccountsUnseated, BalanceIsAccount, PTL
           DEF Spec, CasinoImplemented, TheCasino!Spec
=============================================================================
