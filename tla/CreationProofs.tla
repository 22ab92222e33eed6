--------------------------- MODULE CreationProofs ---------------------------
(***************************************************************************)
(* The calls that create, approve, edit and reject a market preserve the   *)
(* invariant.                                                              *)
(***************************************************************************)
EXTENDS ScheduleProofs

LEMMA SetStatus ==
  ASSUME NEW c \in ContextType, NEW s \in MarketStatus
  PROVE  LET z == [c EXCEPT !.mk.status = s]
         IN /\ z \in ContextType
            /\ z.mk = [c.mk EXCEPT !.status = s]
            /\ z.mk.status = s
            /\ z.mk.period = c.mk.period
            /\ z.mk.early_close = c.mk.early_close
            /\ z.mk.report = c.mk.report
            /\ z.mk.dispute_mechanism = c.mk.dispute_mechanism
            /\ z.dm = c.dm
<1> DEFINE mk == [c.mk EXCEPT !.status = s]
<1>1. c.mk \in MarketRecord
  BY DEF ContextType
<1>2. mk \in MarketRecord
  BY <1>1 DEF MarketRecord
<1>3. /\ mk.status = s /\ mk.period = c.mk.period
      /\ mk.early_close = c.mk.early_close /\ mk.report = c.mk.report
      /\ mk.dispute_mechanism = c.mk.dispute_mechanism
  BY <1>1 DEF MarketRecord
<1>4. [c EXCEPT !.mk = mk] \in ContextType
  BY <1>2 DEF ContextType
<1>5. [c EXCEPT !.mk = mk].mk = mk /\ [c EXCEPT !.mk = mk].dm = c.dm
  BY DEF ContextType
<1> QED BY <1>3, <1>4, <1>5, Zenon

LEMMA ApproveStep ==
  ASSUME ScheduleInv, NEW m \in MarketIds, approve_market(m)
  PROVE  ScheduleInv'
<1> DEFINE d == [ContextOf(m) EXCEPT !.mk.status = "Active"]
           z == unreserve_bond(d, "creation")
<1>1. /\ Markets[m] # None /\ Markets[m].status = "Proposed"
      /\ Commit(m, z)
      /\ UNCHANGED <<MarketCounter, MarketIdsForEdit, close_vars,
                     resolve_vars, clock_vars>>
  BY DEF approve_market, HasStatus, Live
<1>2. /\ ContextOf(m) \in ContextType /\ ContextOf(m).mk = Markets[m]
      /\ GoodMarket(Markets[m]) /\ block > 0
      /\ MarketCounter \in Nat /\ m < MarketCounter
  BY <1>1, LiveContext
<1>3. "Active" \in MarketStatus /\ "creation" \in BondName
  BY DEF MarketStatus, BondName
<1>4. /\ d \in ContextType /\ d.mk.status = "Active"
      /\ d.mk.period = Markets[m].period
      /\ d.mk.early_close = Markets[m].early_close
  BY <1>2, <1>3, SetStatus
<1> HIDE DEF d
<1>5. /\ z \in ContextType /\ z.mk.status = "Active"
      /\ z.mk.period = Markets[m].period
      /\ z.mk.early_close = Markets[m].early_close
  BY <1>3, <1>4, UnreserveOnly DEF OnlyBonds, SameButBonds
<1> HIDE DEF z
<1>6. z \in ResultType /\ z.mk \in MarketRecord /\ z.mk # None
  BY <1>5, ContextIsResult
<1>7. Unwrappable(z.mk) /\ Open(z.mk) /\ Open(Markets[m])
  BY <1>1, <1>5, <1>6 DEF Unwrappable, Open
<1>8. GoodMarket(z.mk)
  BY <1>2, <1>5, <1>6, <1>7, SamePeriod
<1>9. ScheduledAs(m, z.mk)
  BY <1>1, <1>5, <1>7, KeepSchedule
<1>10. ResolveCachesTyped /\ MarketIdsForEdit' \subseteq MarketIds
  BY <1>1 DEF ScheduleInv, TypeOK, resolve_vars, ResolveCachesTyped
<1> QED BY <1>1, <1>2, <1>6, <1>8, <1>9, <1>10, CallStep

LEMMA RequestEditStep ==
  ASSUME ScheduleInv, NEW m \in MarketIds, request_edit(m)
  PROVE  ScheduleInv'
<1>1. /\ MarketIdsForEdit' = MarketIdsForEdit \cup {m}
      /\ UNCHANGED <<market_vars, MarketCounter, close_vars, resolve_vars,
                     clock_vars>>
  BY DEF request_edit
<1>2. TypeOK'
  BY <1>1 DEF ScheduleInv, TypeOK, market_vars, close_vars, resolve_vars,
              clock_vars
<1>3. /\ AllUnwrappable' /\ UnusedIds' /\ ClockInv' /\ CloseScheduled'
      /\ EarlyCloseConsistent'
  BY <1>1, SMTT(30)
     DEF ScheduleInv, market_vars, close_vars, resolve_vars, clock_vars,
         AllUnwrappable, Live, UnusedIds, ClockInv, CloseScheduled,
         EarlyCloseConsistent
<1>4. CloseNotMissed'
  BY <1>1, SMTT(30)
     DEF ScheduleInv, market_vars, clock_vars, CloseNotMissed, EndAhead,
         Ahead, Forgone, EndForgone
<1> QED BY <1>2, <1>3, <1>4 DEF ScheduleInv

LEMMA RejectStep ==
  ASSUME ScheduleInv, NEW m \in MarketIds, reject_market(m)
  PROVE  ScheduleInv'
<1> DEFINE z == do_reject_market(ContextOf(m))
<1>1. /\ Markets[m] # None /\ Markets[m].status = "Proposed"
      /\ Unschedule(m) /\ Commit(m, z)
      /\ MarketIdsForEdit' = MarketIdsForEdit \ {m}
      /\ UNCHANGED <<MarketCounter, resolve_vars, clock_vars>>
  BY DEF reject_market, HasStatus, Live
<1>2. /\ ContextOf(m) \in ContextType /\ block > 0
      /\ MarketCounter \in Nat /\ m < MarketCounter
  BY <1>1, LiveContext
<1>3. z \in ResultType /\ z.mk = None
  BY <1>2, DoReject
<1> HIDE DEF z
<1>4. Open(Markets[m]) /\ ~Open(z.mk)
  BY <1>1, <1>3 DEF Open
<1>5. ScheduledAs(m, z.mk)
  BY <1>1, <1>4, UnscheduleStep
<1>6. ResolveCachesTyped /\ MarketIdsForEdit' \subseteq MarketIds
  BY <1>1 DEF ScheduleInv, TypeOK, resolve_vars, ResolveCachesTyped
<1> QED BY <1>1, <1>2, <1>3, <1>5, <1>6, CallStep

(* The market of a valid period is in order, whatever else was submitted.   *)
LEMMA ConstructMarket ==
  ASSUME ScheduleInv, block > 0, NEW creator \in Accounts,
         NEW oracle \in Accounts, NEW period \in MarketPeriod,
         NEW deadlines \in Deadlines, NEW creation \in MarketCreation,
         NEW mechanism \in MarketDisputeMechanism \cup {None},
         NEW bonds \in MarketBonds, ensure_market_period_is_valid(period)
  PROVE  LET mk == construct_market(creator, oracle, period, deadlines,
                                    creation, mechanism, bonds)
         IN GoodMarket(mk) /\ Open(mk) /\ mk.period = period
<1> DEFINE mk == construct_market(creator, oracle, period, deadlines,
                                  creation, mechanism, bonds)
<1>1. mk \in MarketRecord
  BY DEF construct_market, MarketRecord, MarketStatus
<1>2. /\ mk.status \in {"Active", "Proposed"} /\ mk.period = period
      /\ mk.early_close = None
  BY DEF construct_market
<1> HIDE DEF mk
<1>3. Open(mk) /\ Unwrappable(mk)
  BY <1>1, <1>2, MarketAssumption DEF Open, Unwrappable
<1>4. PeriodFitsEarlyClose(mk)
  BY <1>2 DEF PeriodFitsEarlyClose
<1>5. EndAhead(mk)
  <2>1. CASE period.kind = "Block"
    <3>1. period.end > block
      BY <2>1 DEF ensure_market_period_is_valid, MarketPeriod, ScheduleInv,
                  TypeOK, Blocks
    <3> QED BY <1>2, <2>1, <3>1 DEF EndAhead, Ahead
  <2>2. CASE period.kind # "Block"
    <3>2. calculate_time_frame_of_moment(timestamp) \in Nat
      BY Frames DEF ScheduleInv, TypeOK, Moments
    <3>3. period.end \in Nat /\ period.kind = "Timestamp"
      BY <2>2 DEF MarketPeriod, Blocks, Moments
    <3>4. calculate_time_frame_of_moment(period.end) \in Nat
      BY <3>3, Frames
    <3>5. calculate_time_frame_of_moment(timestamp)
            < calculate_time_frame_of_moment(period.end)
      BY <2>2 DEF ensure_market_period_is_valid
    <3>6. CloseSlot(period) = calculate_time_frame_of_moment(period.end)
      BY <2>2 DEF CloseSlot
    <3>7. Ahead(period) \/ Forgone(period)
      BY <2>2, <3>2, <3>4, <3>5, <3>6, LaterFrame
    <3> QED BY <1>2, <3>7 DEF EndAhead, EndForgone
  <2> QED BY <2>1, <2>2
<1> QED BY <1>1, <1>2, <1>3, <1>4, <1>5 DEF GoodMarket, mk

LEMMA CreateStep ==
  ASSUME ScheduleInv, block > 0, NEW who \in Accounts, NEW oracle \in Accounts,
         NEW period \in PeriodInputs, NEW deadlines \in DeadlineInputs,
         NEW creation \in CreationInputs, NEW mechanism \in MechanismInputs,
         create_market(who, oracle, period, deadlines, creation, mechanism)
  PROVE  ScheduleInv'
<1> DEFINE m == MarketCounter
           mk == construct_market(who, oracle, period, deadlines, creation,
                                  mechanism, NoBonds)
           c == Context(mk, NoReserve, NoMechanismState)
           d == reserve_bond(c, "creation", who)
           z == reserve_bond(d, "oracle", who)
<1>1. /\ m \in MarketIds
      /\ ensure_market_period_is_valid(period)
      /\ Commit(m, z)
      /\ MarketCounter' = m + 1
      /\ MarketIdsPerCloseBlock' =
           insert_auto_close("Block", MarketIdsPerCloseBlock, m, period)
      /\ MarketIdsPerCloseTimeFrame' =
           insert_auto_close("Timestamp", MarketIdsPerCloseTimeFrame, m,
                             period)
      /\ UNCHANGED <<MarketIdsForEdit, resolve_vars, clock_vars>>
  BY DEF create_market, next_market_id
<1>2. /\ period \in MarketPeriod /\ deadlines \in Deadlines
      /\ creation \in MarketCreation
      /\ mechanism \in MarketDisputeMechanism \cup {None}
  BY PredictionMarketsAssumption
<1>3. /\ NoBonds \in MarketBonds /\ NoReserve \in Reserve
      /\ NoMechanismState \in MechanismState
  <2>1. << >> \in Seq(MarketDispute)
    OBVIOUS
  <2> QED BY <2>1 DEF NoBonds, MarketBonds, NoReserve, Reserve, Location,
                      NoMechanismState, MechanismState
<1>4. GoodMarket(mk) /\ Open(mk) /\ mk.period = period
  BY <1>1, <1>2, <1>3, ConstructMarket, SMTT(30)
<1> HIDE DEF mk
<1>5. c \in ContextType /\ c.mk = mk
  BY <1>3, <1>4, Zenon DEF Context, ContextType, GoodMarket
<1> HIDE DEF c
<1>6. {"creation", "oracle"} \subseteq BondName
  BY DEF BondName
<1>7. OnlyBonds(c, d)
  BY <1>5, <1>6, ReserveOnly
<1>8. OnlyBonds(d, z)
  BY <1>6, <1>7, ReserveOnly DEF OnlyBonds
<1> HIDE DEF d, z
<1>9. OnlyBonds(c, z)
  BY <1>7, <1>8, OnlyBondsTransitive
<1>10. z \in ContextType /\ SameButBonds(mk, z.mk)
  BY <1>5, <1>9 DEF OnlyBonds
<1>11. z \in ResultType /\ z.mk \in MarketRecord /\ z.mk # None
  BY <1>10, ContextIsResult
<1>12. /\ Open(z.mk) /\ z.mk.period = period /\ Unwrappable(z.mk)
       /\ z.mk.early_close = mk.early_close
  BY <1>4, <1>10, <1>11 DEF SameButBonds, Open, GoodMarket, Unwrappable
<1>13. GoodMarket(z.mk)
  BY <1>4, <1>11, <1>12, SamePeriod
<1>14. Markets[m] = None /\ m \in Nat
  BY <1>1 DEF ScheduleInv, TypeOK, UnusedIds
<1>15. ScheduledAs(m, z.mk)
  <2>1. /\ MarketIdsPerCloseBlock \in CacheOf(Blocks)
        /\ MarketIdsPerCloseTimeFrame \in CacheOf(TimeFrames)
    BY SMTT(30) DEF ScheduleInv, TypeOK
  <2>2. /\ MarketIdsPerCloseBlock[m] = Never(Blocks)
        /\ MarketIdsPerCloseTimeFrame[m] = Never(TimeFrames)
    BY <1>1, <1>14, Zenon DEF ScheduleInv, CloseScheduled, CloseEntries, Open
  <2>3. z.mk.period \in MarketPeriod
    BY <1>2, <1>12, Zenon
  <2>4. /\ MarketIdsPerCloseBlock' =
             insert_auto_close("Block", MarketIdsPerCloseBlock, m,
                               z.mk.period)
        /\ MarketIdsPerCloseTimeFrame' =
             insert_auto_close("Timestamp", MarketIdsPerCloseTimeFrame, m,
                               z.mk.period)
    BY <1>1, <1>12, Zenon
  <2> HIDE DEF m
  <2>5. m \in MarketIds /\ Open(z.mk)
    BY <1>1, <1>12, Zenon
  <2> QED BY <2>1, <2>2, <2>3, <2>4, <2>5, InsertBoth DEF ScheduledAs
<1>16. ResolveCachesTyped /\ MarketIdsForEdit' \subseteq MarketIds
  BY <1>1 DEF ScheduleInv, TypeOK, resolve_vars, ResolveCachesTyped
<1>17. /\ MarketCounter' \in Nat /\ MarketCounter <= MarketCounter'
       /\ m < MarketCounter'
  BY <1>1, <1>14, SMTT(30)
<1> HIDE DEF m
<1> QED BY <1>1, <1>11, <1>13, <1>15, <1>16, <1>17, CallStep

LEMMA EditStep ==
  ASSUME ScheduleInv, NEW m \in MarketIds, NEW oracle \in Accounts,
         NEW period \in PeriodInputs, NEW deadlines \in DeadlineInputs,
         NEW mechanism \in MechanismInputs,
         edit_market(m, oracle, period, deadlines, mechanism)
  PROVE  ScheduleInv'
<1> DEFINE old == Markets[m]
           mk == construct_market(old.creator, oracle, period, deadlines,
                                  old.creation, mechanism, old.bonds)
           z == [ContextOf(m) EXCEPT !.mk = mk]
<1>1. /\ old # None /\ old.status = "Proposed"
      /\ ensure_market_period_is_valid(period)
      /\ Reschedule(m, period)
      /\ MarketIdsForEdit' = MarketIdsForEdit \ {m}
      /\ UNCHANGED <<MarketCounter, resolve_vars, clock_vars>>
  BY SMTT(30) DEF edit_market, HasStatus, Live
<1>2. /\ ContextOf(m) \in ContextType /\ ContextOf(m).mk = old
      /\ GoodMarket(old) /\ block > 0
      /\ MarketCounter \in Nat /\ m < MarketCounter
  BY <1>1, LiveContext, Zenon
<1>3. Commit(m, z)
  BY <1>2 DEF edit_market
<1>4. /\ period \in MarketPeriod /\ deadlines \in Deadlines
      /\ mechanism \in MarketDisputeMechanism \cup {None}
  BY PredictionMarketsAssumption, SMTT(30)
<1>5. /\ old.creator \in Accounts /\ old.creation \in MarketCreation
      /\ old.bonds \in MarketBonds
  BY <1>2 DEF GoodMarket, MarketRecord
<1> HIDE DEF old
<1>6. GoodMarket(mk) /\ Open(mk) /\ mk.period = period
  <2>1. ASSUME NEW creator \in Accounts, NEW creation \in MarketCreation,
               NEW bonds \in MarketBonds
        PROVE  LET new == construct_market(creator, oracle, period, deadlines,
                                           creation, mechanism, bonds)
               IN GoodMarket(new) /\ Open(new) /\ new.period = period
    <3>1. ensure_market_period_is_valid(period) /\ block > 0
      BY <1>1, <1>2, Zenon
    <3> QED BY <1>4, <3>1, ConstructMarket, SMTT(30)
  <2> QED BY <1>5, <2>1
<1> HIDE DEF mk
<1>7. z \in ContextType /\ z.mk = mk
  BY <1>2, <1>6 DEF ContextType, GoodMarket
<1>8. z \in ResultType /\ z.mk # None
  BY <1>7, ContextIsResult, Zenon
<1> HIDE DEF z
<1>9. ScheduledAs(m, z.mk)
  BY <1>1, <1>4, <1>6, <1>7, RescheduleStep DEF old, Open
<1>10. ResolveCachesTyped /\ MarketIdsForEdit' \subseteq MarketIds
  BY <1>1 DEF ScheduleInv, TypeOK, resolve_vars, ResolveCachesTyped
<1> QED BY <1>1, <1>2, <1>3, <1>6, <1>7, <1>8, <1>9, <1>10, CallStep

=============================================================================
