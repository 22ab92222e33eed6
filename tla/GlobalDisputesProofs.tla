------------------------ MODULE GlobalDisputesProofs ------------------------
(***************************************************************************)
(* Proofs about the disputes and the locks of GlobalDisputes: the cached   *)
(* winner leads, the owners of the winner are rewarded, and an account is  *)
(* locked for its largest vote.                                            *)
(***************************************************************************)
EXTENDS GlobalDisputes, FiniteSetTheorems, TLAPS

-----------------------------------------------------------------------------
(* Induction over the rounds of a loop *)

LEMMA LeastElement ==
  ASSUME NEW T, T \subseteq Nat, T # {}
  PROVE  \E x \in T : \A y \in T : x <= y
<1> DEFINE R == OpToRel(<, Nat)
<1>1. IsWellFoundedOn(R, Nat)
  BY NatLessThanWellFounded, Zenon
<1>2. \A x, y \in Nat : y < x => <<y, x>> \in R
  BY DEF OpToRel
<1> HIDE DEF R
<1>3. PICK x \in T : \A y \in T : ~ (<<y, x>> \in R)
  BY <1>1, WFMin, Zenon
<1>4. ASSUME NEW y \in T PROVE x <= y
  <2>1. x \in Nat /\ y \in Nat
    OBVIOUS
  <2>2. ~(y < x)
    BY <1>2, <1>3, <2>1, Zenon
  <2> QED BY <2>1, <2>2
<1> QED BY <1>4

(* A set with 0 and, up to n, the successors of its elements has 0 .. n.    *)
LEMMA UpTo ==
  ASSUME NEW n \in Nat, NEW T, 0 \in T,
         \A i \in 1 .. n : i - 1 \in T => i \in T
  PROVE  0 .. n \subseteq T
<1> DEFINE Missing == (0 .. n) \ T
<1> SUFFICES ASSUME Missing # {} PROVE FALSE
  OBVIOUS
<1>1. PICK x \in Missing : \A y \in Missing : x <= y
  <2>1. Missing \subseteq Nat
    OBVIOUS
  <2> HIDE DEF Missing
  <2> QED BY <2>1, LeastElement, Zenon
<1>2. x \in 1 .. n
  BY <1>1
<1>3. x - 1 \in 0 .. n /\ ~(x <= x - 1)
  BY <1>2
<1>4. x - 1 \in T
  BY <1>1, <1>3
<1> QED BY <1>1, <1>2, <1>4

(* The first k rounds, as a function.                                       *)
Rounds(items, k, f) ==
  /\ f = [i \in 0 .. k |-> f[i]]
  /\ f[0] = NoItems
  /\ \A i \in 1 .. k : f[i] = PushItem(f[i - 1], items[i])

LEMMA RoundsExist ==
  ASSUME NEW items, NEW n \in Nat
  PROVE  \E f : Rounds(items, n, f)
<1> DEFINE T == {k \in Nat : \E f : Rounds(items, k, f)}
<1>1. 0 \in T
  <2>1. Rounds(items, 0, [i \in 0 .. 0 |-> NoItems])
    BY DEF Rounds
  <2> QED BY <2>1
<1>2. ASSUME NEW k \in 1 .. n, k - 1 \in T PROVE k \in T
  <2>1. PICK f : Rounds(items, k - 1, f)
    BY <1>2
  <2> DEFINE next == PushItem(f[k - 1], items[k])
             g == [i \in 0 .. k |-> IF i = k THEN next ELSE f[i]]
  <2> HIDE DEF next
  <2>2. g = [i \in 0 .. k |-> g[i]] /\ g[0] = f[0]
    OBVIOUS
  <2>3. g[k] = next /\ \A i \in 0 .. k - 1 : g[i] = f[i]
    OBVIOUS
  <2> HIDE DEF g
  <2>4. ASSUME NEW i \in 1 .. k PROVE g[i] = PushItem(g[i - 1], items[i])
    <3>1. CASE i = k
      <4>1. g[i - 1] = f[k - 1]
        BY <2>3, <3>1
      <4> QED BY <2>3, <3>1, <4>1 DEF next
    <3>2. CASE i # k
      <4>1. i \in 1 .. k - 1 /\ i \in 0 .. k - 1 /\ i - 1 \in 0 .. k - 1
        BY <3>2
      <4>2. g[i] = f[i] /\ g[i - 1] = f[i - 1]
        BY <2>3, <4>1
      <4>3. f[i] = PushItem(f[i - 1], items[i])
        BY <2>1, <4>1, Zenon DEF Rounds
      <4> QED BY <4>2, <4>3
    <3> QED BY <3>1, <3>2
  <2>5. Rounds(items, k, g)
    BY <2>1, <2>2, <2>4, Zenon DEF Rounds
  <2> QED BY <2>5
<1> HIDE DEF T
<1>3. 0 .. n \subseteq T
  BY <1>1, <1>2, UpTo
<1> QED BY <1>3 DEF T

LEMMA PushedRounds ==
  ASSUME NEW items, Len(items) \in Nat
  PROVE  Rounds(items, Len(items), Pushed(items))
<1> DEFINE n == Len(items)
           Body(f) == [i \in 0 .. n |-> IF i = 0 THEN NoItems
                                        ELSE PushItem(f[i - 1], items[i])]
<1>1. Pushed(items) = CHOOSE f : f = Body(f)
  BY DEF Pushed
<1>2. PICK f : Rounds(items, n, f)
  BY RoundsExist
<1>3. f = Body(f)
  BY <1>2 DEF Rounds
<1> DEFINE p == Pushed(items)
<1>4. p = Body(p)
  BY <1>1, <1>3
<1> HIDE DEF p
<1> QED BY <1>4 DEF Rounds, p

-----------------------------------------------------------------------------
(* The cached winner *)

OutcomesType == [OutcomeReports -> OutcomeInfo \cup {None}]

(* The cache is right about the outcomes os.                                *)
Caches(info, os) ==
  /\ info \in GlobalDisputeInfo
  /\ os \in OutcomesType
  /\ os[info.winner_outcome] # None
  /\ info.outcome_info.outcome_sum = os[info.winner_outcome].outcome_sum
  /\ \A o \in OutcomeReports :
       os[o] # None => os[o].outcome_sum <= info.outcome_info.outcome_sum

(* It stays right when one sum grows: this is why no sum may shrink.        *)
LEMMA UpdateWinner ==
  ASSUME NEW info, NEW os, Caches(info, os), NEW o \in OutcomeReports,
         NEW new_info \in OutcomeInfo,
         os[o] # None => os[o].outcome_sum <= new_info.outcome_sum
  PROVE  /\ Caches(update_winner(info, o, new_info),
                   [os EXCEPT ![o] = new_info])
         /\ update_winner(info, o, new_info).status = info.status
         /\ update_winner(info, o, new_info).outcome_info.possession
              = info.outcome_info.possession
<1> DEFINE to == [os EXCEPT ![o] = new_info]
           won == [info EXCEPT !.winner_outcome = o,
                               !.outcome_info.outcome_sum
                                  = new_info.outcome_sum]
<1>1. /\ info # None /\ new_info # None /\ new_info.outcome_sum \in Nat
      /\ info.outcome_info.outcome_sum \in Nat
  BY NoneAssumption DEF Caches, GlobalDisputeInfo, OutcomeInfo
<1>2. to \in OutcomesType /\ to[o] = new_info
  BY DEF Caches, OutcomesType
<1>3. \A p \in OutcomeReports : p # o => to[p] = os[p]
  BY DEF Caches, OutcomesType
<1> HIDE DEF to
<1>4. CASE new_info.outcome_sum >= info.outcome_info.outcome_sum
  <2>1. update_winner(info, o, new_info) = won
    BY <1>1, <1>4 DEF update_winner
  <2>2. /\ won \in GlobalDisputeInfo /\ won.winner_outcome = o
        /\ won.outcome_info.outcome_sum = new_info.outcome_sum
        /\ won.status = info.status
        /\ won.outcome_info.possession = info.outcome_info.possession
    BY <1>1, Zenon DEF Caches, GlobalDisputeInfo, OutcomeInfo
  <2> HIDE DEF won
  <2>3. ASSUME NEW p \in OutcomeReports, to[p] # None
        PROVE  to[p].outcome_sum <= won.outcome_info.outcome_sum
    <3>1. CASE p = o
      BY <1>1, <1>2, <2>2, <3>1
    <3>2. CASE p # o
      <4>1. to[p] = os[p] /\ os[p] \in OutcomeInfo
        BY <1>3, <2>3, <3>2 DEF Caches, OutcomesType
      <4>2. os[p].outcome_sum \in Nat
        BY <4>1 DEF OutcomeInfo
      <4>3. os[p].outcome_sum <= info.outcome_info.outcome_sum
        BY <2>3, <4>1 DEF Caches
      <4> QED BY <1>1, <1>4, <2>2, <4>1, <4>2, <4>3
    <3> QED BY <3>1, <3>2
  <2> QED BY <1>1, <1>2, <2>1, <2>2, <2>3 DEF Caches, to
<1>5. CASE ~(new_info.outcome_sum >= info.outcome_info.outcome_sum)
  <2>1. update_winner(info, o, new_info) = info
    BY <1>1, <1>5 DEF update_winner
  <2>2. info.winner_outcome # o
    BY <1>1, <1>5 DEF Caches
  <2>3. info.winner_outcome \in OutcomeReports
    BY DEF Caches, GlobalDisputeInfo
  <2>4. to[info.winner_outcome] = os[info.winner_outcome]
    BY <1>3, <2>2, <2>3
  <2>5. ASSUME NEW p \in OutcomeReports, to[p] # None
        PROVE  to[p].outcome_sum <= info.outcome_info.outcome_sum
    <3>1. CASE p = o
      BY <1>1, <1>2, <1>5, <3>1
    <3>2. CASE p # o
      BY <1>3, <2>5, <3>2 DEF Caches
    <3> QED BY <3>1, <3>2
  <2> QED BY <1>2, <2>1, <2>4, <2>5 DEF Caches, to
<1> QED BY <1>4, <1>5

(* The first item makes the first winner.                                   *)
LEMMA FirstWinner ==
  ASSUME NEW o \in OutcomeReports, NEW new_info \in OutcomeInfo
  PROVE  /\ Caches(update_winner(None, o, new_info),
                   [NoOutcomes EXCEPT ![o] = new_info])
         /\ update_winner(None, o, new_info).outcome_info = new_info
<1> DEFINE to == [NoOutcomes EXCEPT ![o] = new_info]
           info == new(o, new_info)
<1>1. new_info # None /\ new_info.outcome_sum \in Nat
  BY NoneAssumption DEF OutcomeInfo
<1>2. /\ to \in OutcomesType /\ to[o] = new_info
      /\ \A p \in OutcomeReports : p # o => to[p] = None
  BY DEF NoOutcomes, OutcomesType
<1>3. /\ info \in GlobalDisputeInfo /\ info.winner_outcome = o
      /\ info.outcome_info = new_info
  BY DEF new, GlobalDisputeInfo, Active, GdStatus
<1>4. update_winner(None, o, new_info) = info
  BY DEF update_winner
<1> HIDE DEF to, info
<1>5. ASSUME NEW p \in OutcomeReports, to[p] # None
      PROVE  to[p].outcome_sum <= info.outcome_info.outcome_sum
  <2>1. p = o
    BY <1>2, <1>5
  <2> QED BY <1>1, <1>2, <1>3, <2>1
<1> QED BY <1>1, <1>2, <1>3, <1>4, <1>5 DEF Caches, to

-----------------------------------------------------------------------------
(* Starting a dispute *)

SharedPossession == [kind: {"Shared"}, owners: Seq(AccountIds)]

(* What holds after each round of the loop over the initial items.          *)
RoundInv(s) ==
  /\ s.outcomes \in OutcomesType
  /\ s.info = None => s.outcomes = NoOutcomes
  /\ s.info # None =>
       /\ Caches(s.info, s.outcomes)
       /\ Len(Owners(s.info.outcome_info.possession)) = 1
  /\ \A o \in OutcomeReports : s.outcomes[o] # None =>
       /\ s.outcomes[o].possession \in SharedPossession
       /\ Len(s.outcomes[o].possession.owners) >= 1
       /\ s.ok => Len(s.outcomes[o].possession.owners) <= MaxOwners

LEMMA ItemAddedType ==
  ASSUME NEW old \in OutcomeInfo \cup {None},
         old # None => old.possession \in SharedPossession,
         NEW item \in InitialItem
  PROVE  LET to == ItemAdded(old, item)
         IN /\ to \in OutcomeInfo /\ to.possession \in SharedPossession
            /\ Len(to.possession.owners) >= 1
            /\ old = None => Len(to.possession.owners) = 1
            /\ old # None => old.outcome_sum <= to.outcome_sum
<1> DEFINE to == ItemAdded(old, item)
<1>1. item.owner \in AccountIds /\ item.amount \in Nat
  BY DEF InitialItem
<1>2. CASE old = None
  <2>1. to = [outcome_sum |-> item.amount + 0,
              possession |-> [kind |-> "Shared", owners |-> <<item.owner>>]]
    BY <1>2 DEF ItemAdded
  <2>2. <<item.owner>> \in Seq(AccountIds) /\ Len(<<item.owner>>) = 1
    <3>1. ASSUME NEW a \in AccountIds
          PROVE  <<a>> \in Seq(AccountIds) /\ Len(<<a>>) = 1
      OBVIOUS
    <3> QED BY <1>1, <3>1
  <2>3. /\ to.possession \in SharedPossession
        /\ to.possession.owners = <<item.owner>>
    BY <2>1, <2>2 DEF SharedPossession
  <2>4. to \in OutcomeInfo
    BY <1>1, <2>1, <2>3 DEF OutcomeInfo, Possession, SharedPossession
  <2> QED BY <1>2, <2>2, <2>3, <2>4
<1>3. CASE old # None
  <2> DEFINE owners == Append(old.possession.owners, item.owner)
  <2>1. to = [outcome_sum |-> item.amount + old.outcome_sum,
              possession |-> [kind |-> "Shared", owners |-> owners]]
    BY <1>3 DEF ItemAdded
  <2>2. old.possession.owners \in Seq(AccountIds)
    BY <1>3 DEF SharedPossession
  <2>3. owners \in Seq(AccountIds) /\ Len(owners) >= 1
    BY <1>1, <2>2
  <2>4. old.outcome_sum \in Nat
    BY <1>3 DEF OutcomeInfo
  <2> HIDE DEF owners
  <2>5. to.possession \in SharedPossession /\ to.possession.owners = owners
    BY <2>1, <2>3 DEF SharedPossession
  <2>6. to \in OutcomeInfo
    BY <1>1, <2>1, <2>4, <2>5 DEF OutcomeInfo, Possession, SharedPossession
  <2>7. old.outcome_sum <= to.outcome_sum
    BY <1>1, <2>1, <2>4
  <2> QED BY <1>3, <2>3, <2>5, <2>6, <2>7
<1> QED BY <1>2, <1>3

LEMMA OneRound ==
  ASSUME NEW s, RoundInv(s), NEW item \in InitialItem
  PROVE  RoundInv(PushItem(s, item))
<1> DEFINE o == item.outcome
           old == s.outcomes[o]
           to == ItemAdded(old, item)
           os == [s.outcomes EXCEPT ![o] = to]
           z == PushItem(s, item)
<1>1. o \in OutcomeReports
  BY DEF InitialItem
<1>2. old \in OutcomeInfo \cup {None}
  BY <1>1 DEF RoundInv, OutcomesType
<1>3. old # None => old.possession \in SharedPossession
  BY <1>1 DEF RoundInv
<1>4. /\ to \in OutcomeInfo /\ to.possession \in SharedPossession
      /\ Len(to.possession.owners) >= 1
      /\ old = None => Len(to.possession.owners) = 1
      /\ old # None => old.outcome_sum <= to.outcome_sum
  <2> HIDE DEF old
  <2> QED BY <1>2, <1>3, ItemAddedType
<1>5. /\ z.info = update_winner(s.info, o, to) /\ z.outcomes = os
      /\ z.ok => s.ok /\ Len(to.possession.owners) <= MaxOwners
  BY Zenon DEF PushItem, OwnersFit
<1> HIDE DEF to, z
<1>6. /\ os \in OutcomesType /\ os[o] = to
      /\ \A p \in OutcomeReports : p # o => os[p] = s.outcomes[p]
  BY <1>1, <1>4 DEF RoundInv, OutcomesType
<1>7. LET info == update_winner(s.info, o, to)
      IN Caches(info, os) /\ Len(Owners(info.outcome_info.possession)) = 1
  <2>1. CASE s.info = None
    <3>1. os = [NoOutcomes EXCEPT ![o] = to]
      BY <2>1 DEF RoundInv
    <3>2. Len(to.possession.owners) = 1
      BY <1>1, <1>4, <2>1 DEF RoundInv, NoOutcomes
    <3>3. Owners(to.possession) = to.possession.owners
      BY <1>4 DEF Owners, SharedPossession
    <3> QED BY <1>1, <1>4, <2>1, <3>1, <3>2, <3>3, FirstWinner
  <2>2. CASE s.info # None
    <3>1. /\ Caches(s.info, s.outcomes)
          /\ Len(Owners(s.info.outcome_info.possession)) = 1
      BY <2>2 DEF RoundInv
    <3> QED BY <1>1, <1>4, <3>1, UpdateWinner
  <2> QED BY <2>1, <2>2
<1>8. z.info # None
  BY <1>5, <1>7, NoneAssumption DEF Caches
<1> HIDE DEF os
<1>9. ASSUME NEW p \in OutcomeReports, os[p] # None
      PROVE  /\ os[p].possession \in SharedPossession
             /\ Len(os[p].possession.owners) >= 1
             /\ z.ok => Len(os[p].possession.owners) <= MaxOwners
  <2>1. CASE p = o
    BY <1>4, <1>5, <1>6, <2>1
  <2>2. CASE p # o
    BY <1>5, <1>6, <1>9, <2>2 DEF RoundInv
  <2> QED BY <2>1, <2>2
<1> QED BY <1>5, <1>6, <1>7, <1>8, <1>9 DEF RoundInv, z

(* Whatever the items, the dispute starts with the right winner.            *)
LEMMA AfterTheLoop ==
  ASSUME NEW items \in Seq(InitialItem)
  PROVE  RoundInv(Pushed(items)[Len(items)])
<1> DEFINE n == Len(items)
           f == Pushed(items)
           T == {i \in 0 .. n : RoundInv(f[i])}
<1>1. n \in Nat /\ \A i \in 1 .. n : items[i] \in InitialItem
  OBVIOUS
<1>2. Rounds(items, n, f)
  BY <1>1, PushedRounds
<1> HIDE DEF f
<1>3. RoundInv(NoItems)
  BY DEF RoundInv, NoItems, NoOutcomes, OutcomesType
<1>4. 0 \in T
  BY <1>1, <1>2, <1>3 DEF Rounds
<1>5. ASSUME NEW i \in 1 .. n, i - 1 \in T PROVE i \in T
  <2>1. RoundInv(f[i - 1]) /\ items[i] \in InitialItem
    BY <1>1, <1>5
  <2>2. RoundInv(PushItem(f[i - 1], items[i]))
    BY <2>1, OneRound
  <2>3. f[i] = PushItem(f[i - 1], items[i])
    BY <1>2 DEF Rounds
  <2>4. i \in 0 .. n
    BY <1>1
  <2> QED BY <2>2, <2>3, <2>4
<1> HIDE DEF T
<1>6. 0 .. n \subseteq T
  BY <1>1, <1>4, <1>5, UpTo, Zenon
<1>7. n \in T
  BY <1>1, <1>6
<1> QED BY <1>7 DEF T, f

-----------------------------------------------------------------------------
(* The invariant of one dispute *)

Decision == [outcome: OutcomeReports, possession: Possession]

OwnersInRange(possession) == Len(Owners(possession)) \in 1 .. MaxOwners

(* info, os and d are the dispute, the outcomes and the decision.           *)
Sound(info, os, d) ==
  /\ info \in GlobalDisputeInfo \cup {None}
  /\ os \in OutcomesType
  /\ d \in Decision \cup {None}
  /\ \A o \in OutcomeReports : os[o] # None => OwnersInRange(os[o].possession)
  /\ info = None => os = NoOutcomes
  /\ info # None => OwnersInRange(info.outcome_info.possession)
  /\ info # None /\ info.status.kind = "Active" => Caches(info, os)
  /\ info # None /\ os[info.winner_outcome] # None => Caches(info, os)
  /\ info # None /\ info.status.kind = "Finished" =>
       /\ d.outcome = info.winner_outcome
       /\ d.possession = IF os[info.winner_outcome] # None
                         THEN os[info.winner_outcome].possession
                         ELSE info.outcome_info.possession

DisputeInv ==
  /\ GlobalDisputesInfo \in [MarketIds -> GlobalDisputeInfo \cup {None}]
  /\ Outcomes \in [MarketIds -> OutcomesType]
  /\ decided \in [MarketIds -> Decision \cup {None}]
  /\ now \in Nat
  /\ \A m \in MarketIds :
       Sound(GlobalDisputesInfo[m], Outcomes[m], decided[m])

(* A step on the dispute of m has to make that dispute sound.               *)
LEMMA DisputeStep ==
  ASSUME DisputeInv, NEW m \in MarketIds, NEW info, NEW os, NEW d,
         Sound(info, os, d),
         GlobalDisputesInfo' = [GlobalDisputesInfo EXCEPT ![m] = info],
         Outcomes' = [Outcomes EXCEPT ![m] = os],
         decided' = [decided EXCEPT ![m] = d],
         now' = now
  PROVE  DisputeInv'
<1>1. /\ info \in GlobalDisputeInfo \cup {None} /\ os \in OutcomesType
      /\ d \in Decision \cup {None}
  BY DEF Sound
<1>2. /\ GlobalDisputesInfo' \in [MarketIds -> GlobalDisputeInfo \cup {None}]
      /\ Outcomes' \in [MarketIds -> OutcomesType]
      /\ decided' \in [MarketIds -> Decision \cup {None}]
      /\ now' \in Nat
  BY <1>1 DEF DisputeInv
<1>3. ASSUME NEW k \in MarketIds
      PROVE  Sound(GlobalDisputesInfo'[k], Outcomes'[k], decided'[k])
  <2>1. CASE k = m
    BY <2>1 DEF DisputeInv
  <2>2. CASE k # m
    BY <2>2 DEF DisputeInv
  <2> QED BY <2>1, <2>2
<1> QED BY <1>2, <1>3 DEF DisputeInv

LEMMA SameDisputes ==
  ASSUME DisputeInv, UNCHANGED dispute_vars, now' \in Nat
  PROVE  DisputeInv'
BY DEF DisputeInv, dispute_vars

LEMMA SoundDispute ==
  ASSUME DisputeInv, NEW m \in MarketIds
  PROVE  /\ Sound(GlobalDisputesInfo[m], Outcomes[m], decided[m])
         /\ GlobalDisputesInfo = [GlobalDisputesInfo EXCEPT
                                    ![m] = GlobalDisputesInfo[m]]
         /\ Outcomes = [Outcomes EXCEPT ![m] = Outcomes[m]]
         /\ decided = [decided EXCEPT ![m] = decided[m]]
BY DEF DisputeInv

LEMMA StartStep ==
  ASSUME DisputeInv, NEW m \in MarketIds, NEW items \in InitialItems,
         start_global_dispute(m, items)
  PROVE  DisputeInv'
<1> DEFINE end == Pushed(items)[Len(items)]
           first == now + AddOutcomePeriod
           status == Active(first, first + GdVotingPeriod)
           info == [end.info EXCEPT !.status = status]
<1>1. RoundInv(end)
  BY AfterTheLoop, GlobalDisputesAssumption
<1>2. /\ end.ok /\ end.info # None
      /\ GlobalDisputesInfo[m] = None
      /\ GlobalDisputesInfo' = [GlobalDisputesInfo EXCEPT ![m] = info]
      /\ Outcomes' = [Outcomes EXCEPT ![m] = end.outcomes]
      /\ decided' = decided /\ now' = now
  BY DEF start_global_dispute
<1> HIDE DEF end
<1>3. status \in GdStatus /\ status.kind = "Active"
  BY GlobalDisputesAssumption DEF DisputeInv, Active, GdStatus
<1> HIDE DEF status
<1>4. /\ Caches(end.info, end.outcomes)
      /\ Len(Owners(end.info.outcome_info.possession)) = 1
  BY <1>1, <1>2 DEF RoundInv
<1>5. /\ info \in GlobalDisputeInfo /\ info.status = status
      /\ info.winner_outcome = end.info.winner_outcome
      /\ info.outcome_info = end.info.outcome_info
  BY <1>3, <1>4 DEF Caches, GlobalDisputeInfo
<1> HIDE DEF info
<1>6. Caches(info, end.outcomes) /\ OwnersInRange(info.outcome_info.possession)
  <2>1. Caches(info, end.outcomes)
    BY <1>4, <1>5 DEF Caches
  <2>2. MaxOwners \in Nat \ {0}
    BY GlobalDisputesAssumption
  <2>3. 1 \in 1 .. MaxOwners
    BY <2>2
  <2> QED BY <1>4, <1>5, <2>1, <2>3, Zenon DEF OwnersInRange
<1>7. ASSUME NEW o \in OutcomeReports, end.outcomes[o] # None
      PROVE  OwnersInRange(end.outcomes[o].possession)
  <2>1. /\ end.outcomes[o].possession \in SharedPossession
        /\ Len(end.outcomes[o].possession.owners) >= 1
        /\ Len(end.outcomes[o].possession.owners) <= MaxOwners
    BY <1>1, <1>2, <1>7 DEF RoundInv
  <2>2. Owners(end.outcomes[o].possession) = end.outcomes[o].possession.owners
    BY <2>1 DEF SharedPossession, Owners
  <2> QED BY <2>1, <2>2, GlobalDisputesAssumption
          DEF OwnersInRange, SharedPossession
<1>8. /\ decided[m] \in Decision \cup {None}
      /\ decided = [decided EXCEPT ![m] = decided[m]]
  BY DEF DisputeInv
<1>9. info # None /\ end.outcomes \in OutcomesType
  BY <1>5, <1>4, NoneAssumption DEF Caches
<1>10. Sound(info, end.outcomes, decided[m])
  BY <1>3, <1>5, <1>6, <1>7, <1>8, <1>9 DEF Sound
<1> QED BY <1>2, <1>8, <1>10, DisputeStep, Zenon

(* The dispute of m with a new status and, if it is Finished, a decision.   *)
LEMMA StatusStep ==
  ASSUME DisputeInv, NEW m \in MarketIds, HasStatus(m, "Active"),
         NEW kind \in {"Finished", "Destroyed"}, NEW d,
         LET info == GlobalDisputesInfo[m]
             w == info.winner_outcome
         IN d = IF kind = "Finished"
                THEN [outcome |-> w, possession |-> Outcomes[m][w].possession]
                ELSE decided[m],
         GlobalDisputesInfo' = [GlobalDisputesInfo EXCEPT
                                  ![m].status = [kind |-> kind]],
         Outcomes' = Outcomes,
         decided' = [decided EXCEPT ![m] = d],
         now' = now
  PROVE  DisputeInv'
<1> DEFINE old == GlobalDisputesInfo[m]
           w == old.winner_outcome
           os == Outcomes[m]
           info == [old EXCEPT !.status = [kind |-> kind]]
<1>1. /\ Sound(old, os, decided[m]) /\ old # None
      /\ old.status.kind = "Active"
      /\ Outcomes = [Outcomes EXCEPT ![m] = os]
  BY SoundDispute DEF HasStatus
<1>2. GlobalDisputesInfo' = [GlobalDisputesInfo EXCEPT ![m] = info]
  BY DEF DisputeInv
<1> HIDE DEF old, os
<1>3. Caches(old, os) /\ old \in GlobalDisputeInfo
  BY <1>1 DEF Sound
<1>4. /\ info \in GlobalDisputeInfo /\ info.status = [kind |-> kind]
      /\ info.winner_outcome = w /\ info.outcome_info = old.outcome_info
  BY <1>3 DEF GlobalDisputeInfo, GdStatus
<1> HIDE DEF info
<1>5. Caches(info, os)
  BY <1>3, <1>4 DEF Caches
<1>6. w \in OutcomeReports /\ os[w] # None /\ os[w] \in OutcomeInfo
  BY <1>3 DEF Caches, GlobalDisputeInfo, OutcomesType
<1>7. os[w].possession \in Possession
  BY <1>6 DEF OutcomeInfo
<1>8. d \in Decision \cup {None}
  BY <1>1, <1>6, <1>7 DEF Decision, Sound, old, os
<1>9. info.status.kind = "Finished" =>
        d.outcome = w /\ d.possession = os[w].possession
  <2>1. info.status.kind = "Finished" =>
          d = [outcome |-> w, possession |-> os[w].possession]
    BY <1>4 DEF old, os
  <2> QED BY <2>1
<1>10. Sound(info, os, d)
  BY <1>1, <1>4, <1>5, <1>6, <1>8, <1>9, NoneAssumption DEF Sound
<1> QED BY <1>1, <1>2, <1>10, DisputeStep, Zenon

LEMMA DetermineStep ==
  ASSUME DisputeInv, NEW m \in MarketIds, Resolves(m)
  PROVE  DisputeInv'
<1> DEFINE w == GlobalDisputesInfo[m].winner_outcome
           d == [outcome |-> w, possession |-> Outcomes[m][w].possession]
<1>1. /\ HasStatus(m, "Active")
      /\ GlobalDisputesInfo' = [GlobalDisputesInfo EXCEPT
                                  ![m].status = [kind |-> "Finished"]]
      /\ decided' = [decided EXCEPT ![m] = d]
      /\ Outcomes' = Outcomes /\ now' = now
  BY DEF Resolves, determine_voting_winner
<1> QED BY <1>1, StatusStep, Zenon

LEMMA DestroyStep ==
  ASSUME DisputeInv, NEW m \in MarketIds, destroy_global_dispute(m)
  PROVE  DisputeInv'
<1>1. /\ HasStatus(m, "Active")
      /\ GlobalDisputesInfo' = [GlobalDisputesInfo EXCEPT
                                  ![m].status = [kind |-> "Destroyed"]]
      /\ decided' = decided /\ Outcomes' = Outcomes /\ now' = now
  BY DEF destroy_global_dispute
<1>2. decided' = [decided EXCEPT ![m] = decided[m]]
  BY <1>1, SoundDispute
<1> QED BY <1>1, <1>2, StatusStep, Zenon

(* Sums grow in add_vote_outcome and vote_on_outcome.                       *)
LEMMA GrowthStep ==
  ASSUME DisputeInv, NEW m \in MarketIds, HasStatus(m, "Active"),
         NEW o \in OutcomeReports, NEW to \in OutcomeInfo,
         OwnersInRange(to.possession),
         Outcomes[m][o] # None =>
           Outcomes[m][o].outcome_sum <= to.outcome_sum,
         GlobalDisputesInfo' = [GlobalDisputesInfo EXCEPT
           ![m] = update_winner(GlobalDisputesInfo[m], o, to)],
         Outcomes' = [Outcomes EXCEPT ![m][o] = to],
         decided' = decided, now' = now
  PROVE  DisputeInv'
<1> DEFINE old == GlobalDisputesInfo[m]
           os == Outcomes[m]
           info == update_winner(old, o, to)
           grown == [os EXCEPT ![o] = to]
<1>1. /\ Sound(old, os, decided[m]) /\ old # None
      /\ old.status.kind = "Active"
      /\ decided' = [decided EXCEPT ![m] = decided[m]]
      /\ Outcomes' = [Outcomes EXCEPT ![m] = grown]
  <2>1. Sound(old, os, decided[m]) /\ old # None /\ old.status.kind = "Active"
    BY SoundDispute DEF HasStatus
  <2>2. decided' = [decided EXCEPT ![m] = decided[m]]
    BY SoundDispute
  <2> QED BY <2>1, <2>2, Zenon DEF DisputeInv
<1> HIDE DEF old, os
<1>2. Caches(old, os) /\ (os[o] # None => os[o].outcome_sum <= to.outcome_sum)
  BY <1>1 DEF Sound, os
<1>3. /\ Caches(info, grown) /\ info.status = old.status
      /\ info.outcome_info.possession = old.outcome_info.possession
  BY <1>2, UpdateWinner
<1> HIDE DEF info
<1>4. info \in GlobalDisputeInfo /\ info # None /\ info.status.kind = "Active"
  BY <1>1, <1>3, NoneAssumption DEF Caches
<1>5. ASSUME NEW p \in OutcomeReports, grown[p] # None
      PROVE  OwnersInRange(grown[p].possession)
  <2>1. os \in OutcomesType
    BY <1>2 DEF Caches
  <2>2. CASE p = o
    BY <2>1, <2>2 DEF OutcomesType
  <2>3. CASE p # o
    <3>1. grown[p] = os[p]
      BY <2>1, <2>3 DEF OutcomesType
    <3> QED BY <1>1, <1>5, <3>1 DEF Sound
  <2> QED BY <2>2, <2>3
<1>6. Sound(info, grown, decided[m])
  <2>1. grown \in OutcomesType
    BY <1>3 DEF Caches
  <2>2. OwnersInRange(info.outcome_info.possession)
    BY <1>1, <1>3 DEF Sound
  <2>3. decided[m] \in Decision \cup {None}
    BY <1>1 DEF Sound
  <2> HIDE DEF grown
  <2> QED BY <1>3, <1>4, <1>5, <2>1, <2>2, <2>3 DEF Sound
<1> QED BY <1>1, <1>6, DisputeStep, Zenon DEF info, old

LEMMA AddOutcomeStep ==
  ASSUME DisputeInv, NEW m \in MarketIds, NEW owner \in AccountIds,
         NEW o \in OutcomeReports, add_vote_outcome(m, owner, o)
  PROVE  DisputeInv'
<1> DEFINE possession == [kind |-> "Paid", owner |-> owner,
                          fee |-> VotingOutcomeFee]
           to == [outcome_sum |-> VotingOutcomeFee, possession |-> possession]
<1>1. VotingOutcomeFee \in Nat /\ MaxOwners \in Nat \ {0}
  BY GlobalDisputesAssumption
<1>2. possession \in Possession
  BY <1>1 DEF Possession
<1>3. to \in OutcomeInfo
  BY <1>1, <1>2 DEF OutcomeInfo
<1>4. OwnersInRange(to.possession)
  <2>1. to.possession.kind = "Paid" /\ to.possession.owner = owner
    OBVIOUS
  <2>2. Owners(to.possession) = <<owner>>
    BY <2>1 DEF Owners
  <2>3. Len(<<owner>>) = 1 /\ 1 \in 1 .. MaxOwners
    BY <1>1
  <2> QED BY <2>2, <2>3, Zenon DEF OwnersInRange
<1>5. /\ HasStatus(m, "Active") /\ Outcomes[m][o] = None
      /\ GlobalDisputesInfo' = [GlobalDisputesInfo EXCEPT
                                  ![m] = update_winner(@, o, to)]
      /\ Outcomes' = [Outcomes EXCEPT ![m][o] = to]
      /\ decided' = decided /\ now' = now
  BY DEF add_vote_outcome, MayAddOutcome
<1> HIDE DEF to
<1> QED BY <1>3, <1>4, <1>5, GrowthStep, Zenon

LEMMA VoteStep ==
  ASSUME DisputeInv, NEW m \in MarketIds, NEW voter \in AccountIds,
         NEW o \in OutcomeReports, NEW amount \in VoteAmounts,
         vote_on_outcome(m, voter, o, amount)
  PROVE  DisputeInv'
<1> DEFINE old == Outcomes[m][o]
           to == [old EXCEPT !.outcome_sum = @ + amount]
<1>1. /\ HasStatus(m, "Active") /\ old # None
      /\ GlobalDisputesInfo' = [GlobalDisputesInfo EXCEPT
                                  ![m] = update_winner(@, o, to)]
      /\ Outcomes' = [Outcomes EXCEPT ![m][o] = to]
      /\ decided' = decided /\ now' = now
  BY DEF vote_on_outcome, InVotingPeriod
<1>2. amount \in Nat
  BY GlobalDisputesAssumption
<1>3. old \in OutcomeInfo /\ OwnersInRange(old.possession)
  BY <1>1, SoundDispute DEF Sound, OutcomesType
<1>4. /\ to \in OutcomeInfo /\ to.possession = old.possession
      /\ old.outcome_sum <= to.outcome_sum
  <2> HIDE DEF old
  <2> QED BY <1>2, <1>3 DEF OutcomeInfo
<1> HIDE DEF to
<1> QED BY <1>1, <1>3, <1>4, GrowthStep, Zenon

(* Removing outcomes cannot make a winner that is left trail.               *)
LEMMA FewerOutcomes ==
  ASSUME NEW info \in GlobalDisputeInfo, NEW os, NEW left \in OutcomesType,
         os[info.winner_outcome] # None => Caches(info, os),
         \A o \in OutcomeReports : left[o] # None => left[o] = os[o],
         left[info.winner_outcome] # None
  PROVE  Caches(info, left)
<1>1. info.winner_outcome \in OutcomeReports
  BY DEF GlobalDisputeInfo
<1>2. left[info.winner_outcome] = os[info.winner_outcome]
  BY <1>1
<1>3. Caches(info, os)
  BY <1>2
<1> QED BY <1>2, <1>3 DEF Caches

LEMMA RefundStep ==
  ASSUME DisputeInv, NEW m \in MarketIds, refund_vote_fees(m)
  PROVE  DisputeInv'
<1> DEFINE info == GlobalDisputesInfo[m]
           os == Outcomes[m]
           Left(gone) == [o \in OutcomeReports |->
                            IF o \in gone THEN None ELSE os[o]]
<1>1. PICK gone : Outcomes' = [Outcomes EXCEPT ![m] = Left(gone)]
  BY Zenon DEF refund_vote_fees
<1>2. /\ info # None /\ info.status.kind = "Destroyed"
      /\ GlobalDisputesInfo' = GlobalDisputesInfo
      /\ decided' = decided /\ now' = now
  BY DEF refund_vote_fees, HasStatus
<1>3. Sound(info, os, decided[m])
  BY SoundDispute
<1>4. /\ GlobalDisputesInfo' = [GlobalDisputesInfo EXCEPT ![m] = info]
      /\ decided' = [decided EXCEPT ![m] = decided[m]]
  BY <1>2, SoundDispute
<1> DEFINE left == Left(gone)
<1>5. /\ left \in OutcomesType
      /\ \A o \in OutcomeReports : left[o] # None => left[o] = os[o]
  BY <1>3 DEF Sound, OutcomesType
<1>6. Outcomes' = [Outcomes EXCEPT ![m] = left]
  BY <1>1
<1> HIDE DEF left, info, os
<1>7. ASSUME NEW o \in OutcomeReports, left[o] # None
      PROVE  OwnersInRange(left[o].possession)
  BY <1>3, <1>5, <1>7 DEF Sound
<1>8. left[info.winner_outcome] # None => Caches(info, left)
  <2>1. /\ info \in GlobalDisputeInfo
        /\ os[info.winner_outcome] # None => Caches(info, os)
    BY <1>2, <1>3 DEF Sound
  <2> QED BY <1>5, <2>1, FewerOutcomes
<1>9. Sound(info, left, decided[m])
  BY <1>2, <1>3, <1>5, <1>7, <1>8 DEF Sound
<1> QED BY <1>2, <1>4, <1>6, <1>9, DisputeStep, Zenon

(* The first purge saves the owners; later ones find no winner to save.     *)
LEMMA PurgeStep ==
  ASSUME DisputeInv, NEW m \in MarketIds, purge_outcomes(m)
  PROVE  DisputeInv'
<1> DEFINE old == GlobalDisputesInfo[m]
           w == old.winner_outcome
           os == Outcomes[m]
           d == decided[m]
           info == WinnerSaved(m)
           Left(gone) == [o \in OutcomeReports |->
                            IF o \in gone THEN None ELSE os[o]]
<1>1. PICK gone : Outcomes' = [Outcomes EXCEPT ![m] = Left(gone \cup {w})]
  BY Zenon DEF purge_outcomes
<1>2. /\ old # None /\ old.status.kind = "Finished"
      /\ GlobalDisputesInfo' = [GlobalDisputesInfo EXCEPT ![m] = info]
      /\ decided' = decided /\ now' = now
  BY DEF purge_outcomes, HasStatus
<1>3. Sound(old, os, d) /\ decided' = [decided EXCEPT ![m] = d]
  BY <1>2, SoundDispute
<1> DEFINE left == Left(gone \cup {w})
<1>4. Outcomes' = [Outcomes EXCEPT ![m] = left]
  BY <1>1
<1>5. info = IF os[w] = None THEN old
             ELSE [old EXCEPT !.outcome_info = os[w]]
  BY DEF WinnerSaved
<1> HIDE DEF old, os, d, info
<1>6. old \in GlobalDisputeInfo /\ os \in OutcomesType /\ w \in OutcomeReports
  BY <1>2, <1>3 DEF Sound, GlobalDisputeInfo
<1>7. /\ left \in OutcomesType /\ left[w] = None
      /\ \A o \in OutcomeReports : left[o] # None => left[o] = os[o]
  BY <1>6 DEF OutcomesType
<1> HIDE DEF left
<1>8. os[w] # None => os[w] \in OutcomeInfo
  BY <1>6 DEF OutcomesType
<1>9. /\ info \in GlobalDisputeInfo /\ info.winner_outcome = w
      /\ info.status = old.status
      /\ info.outcome_info = IF os[w] = None THEN old.outcome_info ELSE os[w]
  BY <1>5, <1>6, <1>8 DEF GlobalDisputeInfo
<1>10. /\ OwnersInRange(info.outcome_info.possession)
       /\ d.outcome = w /\ d.possession = info.outcome_info.possession
  BY <1>2, <1>3, <1>6, <1>9 DEF Sound
<1>11. ASSUME NEW o \in OutcomeReports, left[o] # None
       PROVE  OwnersInRange(left[o].possession)
  BY <1>3, <1>7, <1>11 DEF Sound
<1>12. d \in Decision \cup {None}
  BY <1>3 DEF Sound
<1> HIDE DEF w
<1>13. Sound(info, left, d)
  BY <1>2, <1>7, <1>9, <1>10, <1>11, <1>12, NoneAssumption DEF Sound
<1> QED BY <1>2, <1>3, <1>4, <1>13, DisputeStep, Zenon

LEMMA DisputeInit ==
  ASSUME Init
  PROVE  DisputeInv
<1>1. NoOutcomes \in OutcomesType
  BY DEF NoOutcomes, OutcomesType
<1>2. Sound(None, NoOutcomes, None)
  BY <1>1 DEF Sound, NoOutcomes
<1> QED BY <1>1, <1>2 DEF Init, DisputeInv

LEMMA DisputeNext ==
  ASSUME DisputeInv, [Next]_vars
  PROVE  DisputeInv'
<1>1. CASE NewBlock
  <2>1. UNCHANGED dispute_vars /\ now' \in Nat
    BY <1>1 DEF NewBlock, DisputeInv
  <2> QED BY <2>1, SameDisputes
<1>2. ASSUME NEW m \in MarketIds, DisputeCall(m) PROVE DisputeInv'
  <2>1. CASE \E items \in InitialItems : start_global_dispute(m, items)
    BY <2>1, StartStep
  <2>2. CASE Resolves(m)
    BY <2>2, DetermineStep
  <2>3. CASE destroy_global_dispute(m)
    BY <2>3, DestroyStep
  <2>4. CASE \E a \in AccountIds, o \in OutcomeReports :
               add_vote_outcome(m, a, o)
    BY <2>4, AddOutcomeStep
  <2>5. CASE \E a \in AccountIds, o \in OutcomeReports,
                amount \in VoteAmounts : vote_on_outcome(m, a, o, amount)
    BY <2>5, VoteStep
  <2>6. CASE purge_outcomes(m)
    BY <2>6, PurgeStep
  <2>7. CASE refund_vote_fees(m)
    BY <2>7, RefundStep
  <2>8. CASE reward_outcome_owner(m)
    <3>1. UNCHANGED dispute_vars /\ now' = now
      BY <2>8 DEF reward_outcome_owner
    <3> QED BY <3>1, SameDisputes DEF DisputeInv
  <2> QED BY <1>2, <2>1, <2>2, <2>3, <2>4, <2>5, <2>6, <2>7, <2>8
          DEF DisputeCall
<1>3. ASSUME NEW a \in AccountIds,
             \/ unlock_vote_balance(a)
             \/ \E amount \in Transfers : transfer(a, amount)
             \/ pay_fee(a)
             \/ \E amount \in Slashes : slash(a, amount)
             \/ cross(a)
      PROVE  DisputeInv'
  <2>1. UNCHANGED dispute_vars /\ now' = now
    BY <1>3 DEF unlock_vote_balance, transfer, pay_fee, slash, cross, Take
  <2> QED BY <2>1, SameDisputes DEF DisputeInv
<1>4. CASE UNCHANGED vars
  <2>1. UNCHANGED dispute_vars /\ now' = now
    BY <1>4 DEF vars
  <2> QED BY <2>1, SameDisputes DEF DisputeInv
<1> QED BY <1>1, <1>2, <1>3, <1>4 DEF Next

LEMMA DisputesSound == Spec => []DisputeInv
<1>1. Init => DisputeInv
  BY DisputeInit
<1>2. DisputeInv /\ [Next]_vars => DisputeInv'
  BY DisputeNext
<1> QED BY <1>1, <1>2, PTL DEF Spec

(* The cached winner of every dispute leads while its outcome is stored, so *)
(* determine_voting_winner returns an outcome with the largest sum.         *)
THEOREM TheWinnerLeads == Spec => []WinnerLeads
<1>1. DisputeInv => WinnerLeads
  <2> SUFFICES ASSUME DisputeInv, NEW m \in MarketIds
               PROVE  LET info == GlobalDisputesInfo[m]
                          os == Outcomes[m]
                      IN /\ HasStatus(m, "Active") =>
                              os[info.winner_outcome] # None
                         /\ info # None /\ os[info.winner_outcome] # None =>
                              /\ info.outcome_info.outcome_sum
                                   = os[info.winner_outcome].outcome_sum
                              /\ \A o \in Added(m) : os[o].outcome_sum
                                   <= info.outcome_info.outcome_sum
    BY DEF WinnerLeads
  <2> DEFINE info == GlobalDisputesInfo[m]
             os == Outcomes[m]
  <2>1. Sound(info, os, decided[m])
    BY SoundDispute
  <2>2. HasStatus(m, "Active") => Caches(info, os)
    BY <2>1 DEF Sound, HasStatus
  <2>3. info # None /\ os[info.winner_outcome] # None => Caches(info, os)
    BY <2>1 DEF Sound
  <2>4. \A o \in Added(m) : o \in OutcomeReports /\ os[o] # None
    BY DEF Added
  <2> QED BY <2>2, <2>3, <2>4 DEF Caches
<1> QED BY <1>1, DisputesSound, PTL

(* Whoever is rewarded owned the outcome the market was resolved on.        *)
THEOREM TheWinnersAreRewarded == Spec => []WinnersRewarded
<1>1. DisputeInv => WinnersRewarded
  <2> SUFFICES ASSUME DisputeInv, NEW m \in MarketIds, MayReward(m)
               PROVE  LET info == GlobalDisputesInfo[m]
                      IN /\ info.winner_outcome = decided[m].outcome
                         /\ info.outcome_info.possession
                              = decided[m].possession
    BY DEF WinnersRewarded
  <2> DEFINE info == GlobalDisputesInfo[m]
             os == Outcomes[m]
  <2>1. Sound(info, os, decided[m])
    BY SoundDispute
  <2>2. info # None /\ info.status.kind = "Finished" /\ Added(m) = {}
    BY DEF MayReward, HasStatus
  <2>3. info.winner_outcome \in OutcomeReports
    BY <2>1, <2>2 DEF Sound, GlobalDisputeInfo
  <2>4. os[info.winner_outcome] = None
    BY <2>2, <2>3 DEF Added
  <2> HIDE DEF os
  <2> QED BY <2>1, <2>2, <2>4 DEF Sound
<1> QED BY <1>1, DisputesSound, PTL

-----------------------------------------------------------------------------
(* Locks *)

VoteLocks == [MarketIds -> Nat \cup {None}]

(* lock is the largest of the votes.                                        *)
Largest(votes, lock) ==
  /\ votes \in VoteLocks
  /\ lock \in Nat
  /\ lock = 0 \/ \E m \in MarketIds : votes[m] = lock
  /\ \A m \in MarketIds : votes[m] # None => votes[m] <= lock

LockInv ==
  /\ Locks \in [AccountIds -> VoteLocks]
  /\ locked \in [AccountIds -> Nat]
  /\ \A a \in AccountIds : Largest(Locks[a], locked[a])

LEMMA LockStep ==
  ASSUME LockInv, NEW a \in AccountIds, NEW votes, NEW lock,
         Largest(votes, lock),
         Locks' = [Locks EXCEPT ![a] = votes],
         locked' = [locked EXCEPT ![a] = lock]
  PROVE  LockInv'
<1>1. votes \in VoteLocks /\ lock \in Nat
  BY DEF Largest
<1>2. Locks' \in [AccountIds -> VoteLocks] /\ locked' \in [AccountIds -> Nat]
  BY <1>1 DEF LockInv
<1>3. ASSUME NEW b \in AccountIds PROVE Largest(Locks'[b], locked'[b])
  <2>1. CASE b = a
    BY <2>1 DEF LockInv
  <2>2. CASE b # a
    BY <2>2 DEF LockInv
  <2> QED BY <2>1, <2>2
<1> QED BY <1>2, <1>3 DEF LockInv

(* A vote adds to what was voted with before, so its lock cannot be smaller *)
(* than the one it replaces.                                                *)
LEMMA LockOfVote ==
  ASSUME LockInv, NEW m \in MarketIds, NEW voter \in AccountIds,
         NEW o \in OutcomeReports, NEW amount \in VoteAmounts,
         vote_on_outcome(m, voter, o, amount)
  PROVE  LockInv'
<1> DEFINE before == Locks[voter]
           sum == prev_amount_acc(voter, m) + amount
           votes == [before EXCEPT ![m] = sum]
           lock == extend_lock(locked[voter], sum)
<1>1. Locks' = [Locks EXCEPT ![voter][m] = sum]
  BY DEF vote_on_outcome
<1>2. locked' = [locked EXCEPT ![voter] = lock]
  BY DEF vote_on_outcome
<1>3. Locks' = [Locks EXCEPT ![voter] = votes]
  BY <1>1 DEF LockInv
<1>4. Largest(before, locked[voter]) /\ before \in VoteLocks
  BY DEF LockInv
<1>5. locked[voter] \in Nat
  BY <1>4 DEF Largest
<1>6. sum \in Nat /\ (before[m] # None => before[m] <= sum)
  <2>1. amount \in Nat
    BY GlobalDisputesAssumption
  <2>2. before[m] # None => before[m] \in Nat
    BY <1>4 DEF VoteLocks
  <2> QED BY <2>1, <2>2 DEF prev_amount_acc
<1> HIDE DEF before, sum
<1>7. /\ votes \in VoteLocks /\ votes[m] = sum
      /\ \A k \in MarketIds : k # m => votes[k] = before[k]
  BY <1>4, <1>6 DEF VoteLocks
<1> HIDE DEF votes
<1>8. lock = IF locked[voter] >= sum THEN locked[voter] ELSE sum
  BY DEF extend_lock
<1> HIDE DEF lock
<1>9. lock \in Nat /\ sum <= lock /\ locked[voter] <= lock
  BY <1>5, <1>6, <1>8
<1>10. ASSUME NEW k \in MarketIds, votes[k] # None PROVE votes[k] <= lock
  <2>1. CASE k = m
    BY <1>7, <1>9, <2>1
  <2>2. CASE k # m
    <3>1. votes[k] = before[k] /\ before[k] \in Nat
      BY <1>4, <1>7, <1>10, <2>2 DEF VoteLocks
    <3>2. before[k] <= locked[voter]
      BY <1>4, <1>10, <3>1 DEF Largest
    <3> QED BY <1>5, <1>9, <3>1, <3>2
  <2> QED BY <2>1, <2>2
<1>11. lock = 0 \/ \E k \in MarketIds : votes[k] = lock
  <2>1. CASE lock = sum
    BY <1>7, <2>1
  <2>2. CASE lock # sum
    <3>1. lock = locked[voter] /\ (lock = 0 \/ ~(lock <= sum))
      BY <1>5, <1>6, <1>8, <2>2
    <3>2. CASE lock # 0
      <4>1. PICK k \in MarketIds : before[k] = lock
        BY <1>4, <3>1, <3>2 DEF Largest
      <4>2. before[k] # None
        BY <1>9, <4>1, NoneAssumption
      <4>3. k # m
        BY <1>6, <3>1, <3>2, <4>1, <4>2
      <4> QED BY <1>7, <4>1, <4>3
    <3> QED BY <3>2
  <2> QED BY <2>1, <2>2
<1>12. Largest(votes, lock)
  BY <1>7, <1>9, <1>10, <1>11 DEF Largest
<1> QED BY <1>2, <1>3, <1>12, LockStep, Zenon

LEMMA LockOfUnlock ==
  ASSUME LockInv, NEW voter \in AccountIds, unlock_vote_balance(voter)
  PROVE  LockInv'
<1> DEFINE before == Locks[voter]
           keep == Retained(voter)
           votes == [m \in MarketIds |-> IF m \in keep THEN before[m] ELSE None]
           amounts == {0} \cup {before[m] : m \in keep}
<1>1. Locks' = [Locks EXCEPT ![voter] = votes]
  BY DEF unlock_vote_balance
<1>2. PICK lock \in amounts :
        /\ \A amount \in amounts : amount <= lock
        /\ locked' = [locked EXCEPT ![voter] = lock]
  BY Zenon DEF unlock_vote_balance
<1>3. /\ keep \subseteq MarketIds /\ \A m \in keep : before[m] # None
      /\ before \in VoteLocks
  BY DEF Retained, LockInv
<1> HIDE DEF before, keep
<1>4. /\ votes \in VoteLocks
      /\ \A m \in keep : votes[m] = before[m] /\ before[m] \in Nat
      /\ \A m \in MarketIds : votes[m] # None => m \in keep
  BY <1>3 DEF VoteLocks
<1> HIDE DEF votes
<1>5. lock \in Nat
  BY <1>2, <1>4
<1>6. lock = 0 \/ \E m \in MarketIds : votes[m] = lock
  BY <1>2, <1>3, <1>4
<1>7. \A m \in MarketIds : votes[m] # None => votes[m] <= lock
  BY <1>2, <1>4
<1>8. Largest(votes, lock)
  BY <1>4, <1>5, <1>6, <1>7 DEF Largest
<1> QED BY <1>1, <1>2, <1>8, LockStep, Zenon

LEMMA LockNext ==
  ASSUME LockInv, [Next]_vars
  PROVE  LockInv'
<1>1. ASSUME UNCHANGED <<Locks, locked>> PROVE LockInv'
  BY <1>1 DEF LockInv
<1>2. CASE NewBlock
  BY <1>1, <1>2 DEF NewBlock
<1>3. ASSUME NEW m \in MarketIds, DisputeCall(m) PROVE LockInv'
  <2>1. CASE \E a \in AccountIds, o \in OutcomeReports,
                amount \in VoteAmounts : vote_on_outcome(m, a, o, amount)
    BY <2>1, LockOfVote
  <2>2. CASE \/ \E items \in InitialItems : start_global_dispute(m, items)
             \/ Resolves(m)
             \/ destroy_global_dispute(m)
    BY <1>1, <2>2 DEF start_global_dispute, Resolves, determine_voting_winner,
                      destroy_global_dispute
  <2>3. CASE \/ \E a \in AccountIds, o \in OutcomeReports :
                  add_vote_outcome(m, a, o)
             \/ purge_outcomes(m)
             \/ refund_vote_fees(m)
             \/ reward_outcome_owner(m)
    BY <1>1, <2>3, Zenon DEF add_vote_outcome, purge_outcomes, refund_vote_fees,
                      reward_outcome_owner
  <2> QED BY <1>3, <2>1, <2>2, <2>3 DEF DisputeCall
<1>4. ASSUME NEW a \in AccountIds, unlock_vote_balance(a) PROVE LockInv'
  BY <1>4, LockOfUnlock
<1>5. ASSUME NEW a \in AccountIds,
             \/ \E amount \in Transfers : transfer(a, amount)
             \/ pay_fee(a)
             \/ \E amount \in Slashes : slash(a, amount)
             \/ cross(a)
      PROVE  LockInv'
  BY <1>1, <1>5 DEF transfer, pay_fee, slash, cross, Take
<1>6. CASE UNCHANGED vars
  BY <1>1, <1>6 DEF vars
<1> QED BY <1>2, <1>3, <1>4, <1>5, <1>6 DEF Next

LEMMA LocksSound == Spec => []LockInv
<1>1. Init => LockInv
  BY DEF Init, LockInv, Largest, VoteLocks
<1>2. LockInv /\ [Next]_vars => LockInv'
  BY LockNext
<1> QED BY <1>1, <1>2, PTL DEF Spec

(* An account is locked for as much as its largest remaining vote.          *)
THEOREM LocksAreLargestVotes == Spec => []LockIsLargestVote
<1>1. LockInv => LockIsLargestVote
  <2> SUFFICES ASSUME LockInv, NEW a \in AccountIds
               PROVE  LET amounts ==
                            {0} \cup ({Locks[a][m] : m \in MarketIds} \ {None})
                      IN /\ locked[a] \in amounts
                         /\ \A amount \in amounts : amount <= locked[a]
    BY DEF LockIsLargestVote
  <2>1. Largest(Locks[a], locked[a])
    BY DEF LockInv
  <2>2. locked[a] \in Nat /\ locked[a] # None
    BY <2>1, NoneAssumption DEF Largest
  <2> QED BY <2>1, <2>2 DEF Largest
<1> QED BY <1>1, LocksSound, PTL
=============================================================================
