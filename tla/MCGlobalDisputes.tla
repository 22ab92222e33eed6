-------------------------- MODULE MCGlobalDisputes --------------------------
(***************************************************************************)
(* Instances of GlobalDisputes for model checking.                         *)
(***************************************************************************)
EXTENDS GlobalDisputes, TLC

CONSTANTS a1, a2, o1, o2, o3, m1, m2, m3

Item(outcome, owner, amount) ==
  [outcome |-> outcome, owner |-> owner, amount |-> amount]

\* The report alone, and the report with appeals on one and on two outcomes.
OneItem == {<<Item(o1, a1, 0)>>}
ReportAndAppeals ==
  {<<Item(o1, a1, 0)>>,
   <<Item(o1, a1, 0), Item(o2, a1, 3), Item(o2, a2, 2)>>,
   <<Item(o1, a1, 0), Item(o2, a1, 3), Item(o3, a2, 5), Item(o2, a2, 2)>>,
   <<Item(o1, a1, 0), Item(o2, a1, 1), Item(o2, a2, 1), Item(o2, a1, 1)>>}

MarketSymmetry == Permutations(MarketIds)
=============================================================================
