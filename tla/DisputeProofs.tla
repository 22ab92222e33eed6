---------------------------- MODULE DisputeProofs ----------------------------
(***************************************************************************)
(* The calls that report, dispute and resolve, and the calls of the dispute *)
(* pallets, preserve the invariant.                                        *)
(***************************************************************************)
EXTENDS EarlyCloseProofs

-----------------------------------------------------------------------------
(* Reporting, disputing and resolving by call *)

LEMMA ReportedContext ==
  ASSUME ScheduleInv, NEW c \in ContextType, NEW who \in Accounts,
         NEW o \in Outcomes
  PROVE  /\ WithReport(c, who, o) \in ContextType
         /\ WithReport(c, who, o).mk.status = "Reported"
         /\ WithReport(c, who, o).mk.report # None
<1> DEFINE r == [at |-> block, by |-> who, outcome |-> o]
           mk == [c.mk EXCEPT !.report = r, !.status = "Reported"]
<1>1. r \in Report
  BY DEF Report, ScheduleInv, TypeOK
<1>2. r # None
  BY <1>1, MarketAssumption
<1> HIDE DEF r
<1>3. mk \in MarketRecord
  BY <1>1, Zenon DEF ContextType, MarketRecord, MarketStatus
<1>4. mk.status = "Reported" /\ mk.report = r
  BY DEF ContextType, MarketRecord
<1>5. WithReport(c, who, o) = [c EXCEPT !.mk = mk]
  BY DEF WithReport, r
<1> HIDE DEF mk
<1> QED BY <1>2, <1>3, <1>4, <1>5 DEF ContextType

(* A call on a market that is not open, and is not open afterwards.         *)
LEMMA ClosedCallStep ==
  ASSUME ScheduleInv, NEW m \in MarketIds, Markets[m] # None,
         ~Open(Markets[m]),
         NEW z \in ContextType, Commit(m, z), ~Open(z.mk), Unwrappable(z.mk),
         ResolveCachesTyped,
         UNCHANGED <<MarketCounter, MarketIdsForEdit, close_vars, clock_vars>>
  PROVE  ScheduleInv'
<1>1. block > 0 /\ MarketCounter \in Nat /\ m < MarketCounter
  BY LiveContext
<1>2. z \in ResultType /\ z.mk \in MarketRecord
  BY ContextIsResult
<1>3. GoodMarket(z.mk)
  BY <1>2, NotOpen
<1>4. ScheduledAs(m, z.mk)
  BY KeepSchedule
<1>5. MarketIdsForEdit' \subseteq MarketIds
  BY DEF ScheduleInv, TypeOK
<1> QED BY <1>1, <1>2, <1>3, <1>4, <1>5, CallStep

LEMMA ReportStep ==
  ASSUME ScheduleInv, NEW m \in MarketIds, NEW who \in Accounts,
         NEW o \in Outcomes, report(m, who, o)
  PROVE  ScheduleInv'
<1>1. /\ Markets[m] # None /\ Markets[m].status = "Closed"
      /\ UNCHANGED <<MarketCounter, MarketIdsForEdit, close_vars, clock_vars>>
  BY DEF report, HasStatus, Live
<1>2. ContextOf(m) \in ContextType
  BY <1>1, LiveContext
<1>3. ~Open(Markets[m])
  BY <1>1 DEF Open
<1>4. CASE report_market_with_dispute_mechanism(m, who, o)
  <2> DEFINE resolve_at == block + Markets[m].deadlines.dispute_duration
             c == IF who = Markets[m].oracle THEN ContextOf(m)
                  ELSE reserve_bond(ContextOf(m), "outsider", who)
             z == WithReport(c, who, o)
  <2>1. /\ Commit(m, z)
        /\ MarketIdsPerReportBlock'
             = push(MarketIdsPerReportBlock, m, resolve_at)
        /\ UNCHANGED MarketIdsPerDisputeBlock
    BY <1>4 DEF report_market_with_dispute_mechanism
  <2>2. c \in ContextType
    BY <1>2, ReserveOnly DEF OnlyBonds, BondName
  <2> HIDE DEF c, resolve_at
  <2>3. z \in ContextType /\ z.mk.status = "Reported" /\ z.mk.report # None
    BY <2>2, ReportedContext
  <2> HIDE DEF z
  <2>4. ~Open(z.mk) /\ Unwrappable(z.mk)
    BY <2>3 DEF Open, Unwrappable
  <2>5. ResolveCachesTyped
    BY <2>1, PushType, SMTT(30) DEF ResolveCachesTyped, ScheduleInv, TypeOK
  <2> QED BY <1>1, <1>3, <2>1, <2>3, <2>4, <2>5, ClosedCallStep, SMTT(30)
<1>5. CASE report_and_resolve_market(m, who, o)
  <2> DEFINE c == WithReport(ContextOf(m), who, o)
             z == on_resolution(c, o)
  <2>1. Commit(m, z) /\ UNCHANGED resolve_vars
    BY <1>5 DEF report_and_resolve_market
  <2>2. c \in ContextType /\ c.mk.status = "Reported" /\ c.mk.report # None
    BY <1>2, ReportedContext
  <2> HIDE DEF c
  <2>3. Unwrappable(c.mk)
    BY <2>2 DEF Unwrappable
  <2>4. Resolves(c, z)
    BY <2>2, <2>3, OnResolution
  <2> HIDE DEF z
  <2>5. z \in ContextType /\ z.mk.status = "Resolved" /\ z.mk.report # None
    BY <2>1, <2>2, <2>4 DEF Resolves, Commit
  <2>6. ~Open(z.mk) /\ Unwrappable(z.mk)
    BY <2>5 DEF Open, Unwrappable
  <2>7. ResolveCachesTyped
    BY <2>1 DEF ResolveCachesTyped, ScheduleInv, TypeOK, resolve_vars
  <2> QED BY <1>1, <1>3, <2>1, <2>5, <2>6, <2>7, ClosedCallStep
<1> QED BY <1>4, <1>5 DEF report

LEMMA RoundType ==
  ASSUME NEW r \in Nat, NEW n \in 0 .. MaxAppeals,
         RoundOf(r, n).appeal \in Blocks
  PROVE  RoundOf(r, n) \in CourtInfo
<1>1. /\ VotePeriod \in Nat /\ AggregationPeriod \in Nat
      /\ AppealPeriod \in Nat /\ Horizon \in Nat
  BY MechanismAssumption, MarketAssumption
<1>2. r + VotePeriod + AggregationPeriod + AppealPeriod \in Blocks
  BY DEF RoundOf
<1>3. r + VotePeriod + AggregationPeriod \in Blocks
  BY <1>1, <1>2 DEF Blocks
<1> QED BY <1>2, <1>3 DEF RoundOf, CourtInfo

LEMMA AddAutoResolveType ==
  ASSUME NEW disputes \in CacheOf(Blocks), NEW m \in MarketIds, NEW n,
         AddAutoResolve(disputes, m, n)
  PROVE  n \in Blocks /\ MarketIdsPerDisputeBlock' \in CacheOf(Blocks)
BY PushType DEF AddAutoResolve, HasRoom

LEMMA DisputeStep ==
  ASSUME ScheduleInv, NEW m \in MarketIds, NEW who \in Accounts, NEW s,
         dispute(m, who, s)
  PROVE  ScheduleInv'
<1> DEFINE mechanism == Markets[m].dispute_mechanism
           c == ContextOf(m)
           dm == on_dispute(c.dm, mechanism, RequestBlock)
           d == reserve_bond(c, "dispute", who)
           z == [d EXCEPT !.mk.status = "Disputed", !.dm = dm]
<1>1. /\ Markets[m] # None /\ Markets[m].status = "Reported"
      /\ mechanism # None
      /\ mechanism = "Court" =>
           AddAutoResolve(MarketIdsPerDisputeBlock, m, dm.court.appeal)
      /\ mechanism # "Court" => UNCHANGED MarketIdsPerDisputeBlock
      /\ Commit(m, z)
      /\ UNCHANGED MarketIdsPerReportBlock
      /\ UNCHANGED <<MarketCounter, MarketIdsForEdit, close_vars, clock_vars>>
  BY DEF dispute, HasStatus, Live
<1>2. /\ c \in ContextType /\ c.mk = Markets[m] /\ GoodMarket(Markets[m])
      /\ c.dm \in MechanismState
  BY <1>1, LiveContext DEF ContextType
<1> HIDE DEF c
<1>3. ResolveCachesTyped
  BY <1>1, AddAutoResolveType DEF ScheduleInv, TypeOK, ResolveCachesTyped
<1>4. dm \in MechanismState
  <2>1. CASE mechanism = "Court"
    <3>1. dm = [c.dm EXCEPT !.court_id = TRUE,
                            !.court = RoundOf(RequestBlock, 0)]
      BY <2>1 DEF on_dispute
    <3>2. dm.court = RoundOf(RequestBlock, 0)
      BY <1>2, <3>1 DEF MechanismState
    <3>3. dm.court.appeal \in Blocks
      BY <1>1, <2>1, AddAutoResolveType DEF ScheduleInv, TypeOK
    <3>4. RequestBlock \in Nat /\ 0 \in 0 .. MaxAppeals
      BY MechanismAssumption DEF ScheduleInv, TypeOK
    <3>5. RoundOf(RequestBlock, 0) \in CourtInfo
      BY <3>2, <3>3, <3>4, RoundType
    <3> QED BY <1>2, <3>1, <3>5, Zenon DEF MechanismState
  <2>2. CASE mechanism # "Court"
    BY <1>2, <2>2 DEF on_dispute
  <2> QED BY <2>1, <2>2
<1> HIDE DEF dm
<1>5. /\ d \in ContextType /\ d.mk.report = Markets[m].report
      /\ d.mk.dispute_mechanism = mechanism
  <2>1. "dispute" \in BondName
    BY DEF BondName
  <2>2. OnlyBonds(c, d)
    BY <1>2, <2>1, ReserveOnly, SMTT(30)
  <2> HIDE DEF d
  <2> QED BY <1>2, <2>2 DEF OnlyBonds, SameButBonds
<1> HIDE DEF d
<1> DEFINE e == [d EXCEPT !.mk.status = "Disputed"]
<1>6. /\ e \in ContextType /\ e.mk.status = "Disputed"
      /\ e.mk.report = Markets[m].report
      /\ e.mk.dispute_mechanism = mechanism
  BY <1>5, SetStatus, Zenon DEF MarketStatus
<1>7. z = [e EXCEPT !.dm = dm]
  OBVIOUS
<1> HIDE DEF e, z
<1>8. z \in ContextType /\ z.mk = e.mk
  BY <1>4, <1>6, <1>7, SMTT(30) DEF ContextType
<1>9. ~Open(z.mk) /\ ~Open(Markets[m]) /\ Unwrappable(z.mk)
  BY <1>1, <1>2, <1>6, <1>8 DEF Open, Unwrappable, GoodMarket
<1> QED BY <1>1, <1>3, <1>8, <1>9, ClosedCallStep

LEMMA ClearReportType ==
  ASSUME ScheduleInv, NEW m \in MarketIds
  PROVE  ClearReport(m) \in CacheOf(Blocks)
BY RemoveItemType DEF ClearReport, ScheduleInv, TypeOK

LEMMA ClearDisputeType ==
  ASSUME ScheduleInv, NEW m \in MarketIds, NEW dm
  PROVE  ClearDispute(m, dm) \in CacheOf(Blocks)
BY RemoveItemType, SMTT(30) DEF ClearDispute, ScheduleInv, TypeOK

LEMMA AdminResolveStep ==
  ASSUME ScheduleInv, NEW m \in MarketIds, NEW o \in Outcomes,
         admin_move_market_to_resolved(m, o)
  PROVE  ScheduleInv'
<1> DEFINE c == ContextOf(m)
           z == on_resolution(c, o)
<1>1. /\ Markets[m] # None /\ Markets[m].status \in {"Reported", "Disputed"}
      /\ Commit(m, z)
      /\ MarketIdsPerReportBlock' = ClearReport(m)
      /\ MarketIdsPerDisputeBlock' = ClearDispute(m, Mechanisms[m])
      /\ UNCHANGED <<MarketCounter, MarketIdsForEdit, close_vars, clock_vars>>
  BY DEF admin_move_market_to_resolved, Live
<1>2. /\ c \in ContextType /\ c.mk = Markets[m]
      /\ GoodMarket(Markets[m])
  BY <1>1, LiveContext
<1> HIDE DEF c
<1>3. Unwrappable(c.mk)
  BY <1>2 DEF GoodMarket
<1>4. Resolves(c, z)
  BY <1>2, <1>3, OnResolution
<1> HIDE DEF z
<1>5. z \in ContextType /\ z.mk.status = "Resolved" /\ z.mk.report # None
  BY <1>1, <1>2, <1>3, <1>4, SMTT(30) DEF Resolves, Commit, Unwrappable
<1>6. ~Open(z.mk) /\ ~Open(Markets[m]) /\ Unwrappable(z.mk)
  BY <1>1, <1>5, SMTT(30) DEF Open, Unwrappable
<1>7. ResolveCachesTyped
  BY <1>1, ClearReportType, ClearDisputeType DEF ResolveCachesTyped
<1> QED BY <1>1, <1>5, <1>6, <1>7, ClosedCallStep

LEMMA StartVotingType ==
  ASSUME ScheduleInv, NEW dm \in MechanismState,
         start_voting(dm, block).gd.vote_end \in Blocks
  PROVE  start_voting(dm, block) \in MechanismState
<1> DEFINE g == [status |-> "Active",
                 add_outcome_end |-> block + AddOutcomePeriod,
                 vote_end |-> block + AddOutcomePeriod + GdVotingPeriod]
<1>1. start_voting(dm, block) = [dm EXCEPT !.gd = g]
  BY DEF start_voting
<1>2. g.vote_end \in Blocks
  BY <1>1, SMTT(30) DEF MechanismState
<1>3. g \in GlobalDisputeInfo
  <2>1. block \in Nat /\ AddOutcomePeriod \in Nat /\ GdVotingPeriod \in Nat
    BY MechanismAssumption, MarketAssumption DEF ScheduleInv, TypeOK, Blocks
  <2>2. block + AddOutcomePeriod \in Blocks
    BY <1>2, <2>1, MarketAssumption, SMTT(30) DEF Blocks
  <2> QED BY <1>2, <2>2 DEF GlobalDisputeInfo
<1> HIDE DEF g
<1> QED BY <1>1, <1>3 DEF MechanismState

LEMMA StartGlobalDisputeStep ==
  ASSUME ScheduleInv, NEW m \in MarketIds, NEW s, start_global_dispute(m, s)
  PROVE  ScheduleInv'
<1> DEFINE c == ContextOf(m)
           dm == on_global_dispute(c.dm)
           voting == start_voting(dm, block)
           z == [c EXCEPT !.mk.status = "Disputed", !.dm = voting]
<1>1. /\ Markets[m] # None
      /\ c.mk.dispute_mechanism = "Court"
      /\ c.mk.status \in {"Reported", "Disputed"}
      /\ c.mk.report # None
      /\ MarketIdsPerReportBlock' = ClearReport(m)
      /\ AddAutoResolve(ClearDispute(m, dm), m, voting.gd.vote_end)
      /\ Commit(m, z)
      /\ UNCHANGED <<MarketCounter, MarketIdsForEdit, close_vars, clock_vars>>
  BY DEF start_global_dispute, Live
<1>2. c \in ContextType /\ c.mk = Markets[m] /\ c.dm \in MechanismState
  BY <1>1, LiveContext DEF ContextType
<1> HIDE DEF c
<1>3. dm \in MechanismState
  BY <1>2 DEF on_global_dispute, MechanismState
<1> HIDE DEF dm
<1>4. voting.gd.vote_end \in Blocks /\ ResolveCachesTyped
  BY <1>1, AddAutoResolveType, ClearReportType, ClearDisputeType
     DEF ResolveCachesTyped
<1>5. voting \in MechanismState
  BY <1>3, <1>4, StartVotingType, SMTT(30)
<1> HIDE DEF voting
<1> DEFINE e == [c EXCEPT !.mk.status = "Disputed"]
<1>6. /\ e \in ContextType /\ e.mk.status = "Disputed"
      /\ e.mk.report = c.mk.report
      /\ e.mk.dispute_mechanism = c.mk.dispute_mechanism
  BY <1>2, SetStatus, Zenon DEF MarketStatus
<1>7. z = [e EXCEPT !.dm = voting]
  OBVIOUS
<1> HIDE DEF e, z
<1>8. z \in ContextType /\ z.mk = e.mk
  BY <1>5, <1>6, <1>7 DEF ContextType
<1>9. "Court" # None
  BY MarketAssumption DEF MarketDisputeMechanism
<1>10. ~Open(z.mk) /\ ~Open(Markets[m]) /\ Unwrappable(z.mk)
  BY <1>1, <1>2, <1>6, <1>8, <1>9 DEF Open, Unwrappable
<1> QED BY <1>1, <1>4, <1>8, <1>10, ClosedCallStep

-----------------------------------------------------------------------------
(* The calls of the dispute pallets *)

LEMMA MechanismStep ==
  ASSUME ScheduleInv, NEW m \in MarketIds, NEW dm \in MechanismState,
         Markets[m] # None, SetMechanism(m, dm),
         MarketIdsPerDisputeBlock' \in CacheOf(Blocks)
  PROVE  ScheduleInv'
<1>1. /\ Mechanisms' = [Mechanisms EXCEPT ![m] = dm]
      /\ UNCHANGED <<Markets, Reserves, logic_errors, MarketCounter,
                     MarketIdsForEdit, MarketIdsPerCloseBlock,
                     MarketIdsPerCloseTimeFrame, MarketIdsPerReportBlock,
                     LastTimeFrame, RequestBlock, block, timestamp,
                     rolled_back, shared_frames>>
  BY DEF SetMechanism, close_vars, clock_vars
<1>2. TypeOK'
  BY <1>1 DEF ScheduleInv, TypeOK
<1>3. AllUnwrappable' /\ UnusedIds'
  BY <1>1, SMTT(30) DEF ScheduleInv, AllUnwrappable, UnusedIds, Live
<1>4. ClockInv'
  BY <1>1, Zenon DEF ScheduleInv, ClockInv
<1>5. CloseScheduled' /\ EarlyCloseConsistent'
  BY <1>1 DEF ScheduleInv, CloseScheduled, EarlyCloseConsistent
<1>6. CloseNotMissed'
  BY <1>1 DEF ScheduleInv, CloseNotMissed, EndAhead, Ahead, Forgone, EndForgone
<1> QED BY <1>2, <1>3, <1>4, <1>5, <1>6 DEF ScheduleInv

LEMMA AuthorizeStep ==
  ASSUME ScheduleInv, NEW m \in MarketIds, NEW o \in Outcomes,
         authorize_market_outcome(m, o)
  PROVE  ScheduleInv'
<1> DEFINE authorized == Mechanisms[m].authorized
           resolve_at == IF authorized = None THEN block + CorrectionPeriod
                         ELSE authorized.resolve_at
           r == [resolve_at |-> resolve_at, outcome |-> o]
           dm == [Mechanisms[m] EXCEPT !.authorized = r]
<1>1. /\ Markets[m] # None
      /\ authorized = None =>
           AddAutoResolve(MarketIdsPerDisputeBlock, m, resolve_at)
      /\ authorized # None => UNCHANGED MarketIdsPerDisputeBlock
      /\ SetMechanism(m, dm)
  BY DEF authorize_market_outcome, DisputedBy, HasStatus, Live
<1>2. /\ Mechanisms[m] \in MechanismState
      /\ MarketIdsPerDisputeBlock \in CacheOf(Blocks)
  BY DEF ScheduleInv, TypeOK
<1>3. MarketIdsPerDisputeBlock' \in CacheOf(Blocks)
  BY <1>1, <1>2, AddAutoResolveType
<1>4. resolve_at \in Blocks
  <2>1. CASE authorized = None
    BY <1>1, <1>2, <2>1, AddAutoResolveType
  <2>2. CASE authorized # None
    BY <1>2, <2>2 DEF MechanismState, AuthorityReport
  <2> QED BY <2>1, <2>2
<1> HIDE DEF resolve_at
<1>5. r \in AuthorityReport
  BY <1>4 DEF AuthorityReport
<1> HIDE DEF r
<1>6. dm \in MechanismState
  BY <1>2, <1>5 DEF MechanismState
<1> HIDE DEF dm
<1> QED BY <1>1, <1>3, <1>6, MechanismStep

LEMMA SuggestStep ==
  ASSUME ScheduleInv, NEW m \in MarketIds, NEW who \in Accounts,
         NEW o \in Outcomes, suggest_outcome(m, who, o)
  PROVE  ScheduleInv'
<1> DEFINE r == [at |-> block, by |-> who, outcome |-> o]
           s == Append(Mechanisms[m].disputes, r)
           dm == [Mechanisms[m] EXCEPT !.disputes = s]
<1>1. /\ Markets[m] # None
      /\ AddAutoResolve(ClearDispute(m, Mechanisms[m]), m,
                        block + Markets[m].deadlines.dispute_duration)
      /\ SetMechanism(m, dm)
  BY DEF suggest_outcome, DisputedBy, HasStatus, Live
<1>2. Mechanisms[m] \in MechanismState
  BY DEF ScheduleInv, TypeOK
<1>3. MarketIdsPerDisputeBlock' \in CacheOf(Blocks)
  BY <1>1, ClearDisputeType, AddAutoResolveType
<1>4. r \in MarketDispute
  BY DEF MarketDispute, ScheduleInv, TypeOK
<1>5. Mechanisms[m].disputes \in Seq(MarketDispute)
  BY <1>2 DEF MechanismState
<1> HIDE DEF r
<1>6. s \in Seq(MarketDispute)
  BY <1>4, <1>5
<1> HIDE DEF s
<1>7. dm \in MechanismState
  BY <1>2, <1>6 DEF MechanismState
<1> HIDE DEF dm
<1> QED BY <1>1, <1>3, <1>7, MechanismStep

LEMMA AppealStep ==
  ASSUME ScheduleInv, NEW m \in MarketIds, NEW s, appeal(m, s)
  PROVE  ScheduleInv'
<1> DEFINE dm == Mechanisms[m]
           round == RoundOf(RequestBlock, dm.court.appeals + 1)
<1>1. Markets[m] # None /\ dm.court # None /\ dm.court.appeals < MaxAppeals
  BY DEF appeal, DisputedBy, HasStatus, Live, MayAppeal
<1>2. /\ dm \in MechanismState /\ MarketIdsPerDisputeBlock \in CacheOf(Blocks)
      /\ RequestBlock \in Nat /\ MaxAppeals \in Nat
  BY MechanismAssumption DEF ScheduleInv, TypeOK
<1>3. dm.court \in CourtInfo
  BY <1>1, <1>2 DEF MechanismState
<1>4. dm.court.appeals + 1 \in 0 .. MaxAppeals
  BY <1>1, <1>2, <1>3 DEF CourtInfo
<1>5. CASE dm.court.appeals + 1 < MaxAppeals
  <2> DEFINE caches == push(MarketIdsPerDisputeBlock, m, round.appeal)
             z == [dm EXCEPT !.court = round]
  <2>1. /\ round.appeal \in Blocks
        /\ MarketIdsPerDisputeBlock' = remove_item(caches, m, dm.court.appeal)
        /\ SetMechanism(m, z)
    BY <1>5 DEF appeal, HasRoom
  <2>2. round \in CourtInfo
    BY <1>2, <1>4, <2>1, RoundType
  <2>3. caches \in CacheOf(Blocks)
    BY <1>2, <2>1, PushType
  <2> HIDE DEF caches, round
  <2>4. MarketIdsPerDisputeBlock' \in CacheOf(Blocks)
    BY <2>1, <2>3, RemoveItemType
  <2>5. z \in MechanismState
    BY <1>2, <2>2 DEF MechanismState
  <2> HIDE DEF z
  <2> QED BY <1>1, <2>1, <2>4, <2>5, MechanismStep
<1>6. CASE ~(dm.court.appeals + 1 < MaxAppeals)
  <2> DEFINE ct == [dm.court EXCEPT !.appeals = @ + 1]
             z == [dm EXCEPT !.court = ct]
  <2>1. /\ MarketIdsPerDisputeBlock'
             = remove_item(MarketIdsPerDisputeBlock, m, dm.court.appeal)
        /\ SetMechanism(m, z)
    BY <1>6 DEF appeal
  <2>2. ct \in CourtInfo
    BY <1>3, <1>4 DEF CourtInfo
  <2> HIDE DEF ct
  <2>3. MarketIdsPerDisputeBlock' \in CacheOf(Blocks)
    BY <1>2, <2>1, RemoveItemType
  <2>4. z \in MechanismState
    BY <1>2, <2>2 DEF MechanismState
  <2> HIDE DEF z
  <2> QED BY <1>1, <2>1, <2>3, <2>4, MechanismStep
<1> QED BY <1>5, <1>6

=============================================================================
