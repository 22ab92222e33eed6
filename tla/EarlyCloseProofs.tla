-------------------------- MODULE EarlyCloseProofs ---------------------------
(***************************************************************************)
(* The calls that close a market or move its end preserve the invariant.   *)
(***************************************************************************)
EXTENDS CreationProofs

-----------------------------------------------------------------------------
(* Closing ahead of time *)

LEMMA CloseNowStep ==
  ASSUME ScheduleInv, NEW m \in MarketIds, CloseNow(m)
  PROVE  ScheduleInv'
<1> DEFINE d == close_market(ContextOf(m))
           end == IF d.mk.period.kind = "Block" THEN block ELSE timestamp
           period == [d.mk.period EXCEPT !.end = end]
           mk == [d.mk EXCEPT !.period = period]
           z == [d EXCEPT !.mk = mk]
<1>1. /\ Markets[m] # None /\ Markets[m].status = "Active"
      /\ Unschedule(m)
      /\ UNCHANGED <<MarketCounter, MarketIdsForEdit, resolve_vars,
                     clock_vars>>
  BY DEF CloseNow, HasStatus, Live
<1>2. /\ ContextOf(m) \in ContextType /\ ContextOf(m).mk = Markets[m]
      /\ block > 0 /\ MarketCounter \in Nat /\ m < MarketCounter
  BY <1>1, LiveContext
<1>3. Commit(m, z)
  BY DEF CloseNow, set_market_end
<1>4. /\ d \in ContextType
      /\ d.mk = [Markets[m] EXCEPT !.status = "Closed"]
  BY <1>2, CloseMarket
<1> HIDE DEF d
<1>5. d.mk \in MarketRecord /\ d.mk.period \in MarketPeriod
  BY <1>4 DEF ContextType, MarketRecord
<1>6. d.mk.status = "Closed"
  BY <1>2, <1>4 DEF ContextType, MarketRecord
<1>7. period \in MarketPeriod
  BY <1>5 DEF MarketPeriod, ScheduleInv, TypeOK
<1> HIDE DEF period
<1>8. mk \in MarketRecord /\ mk.status = "Closed"
  BY <1>5, <1>6, <1>7 DEF MarketRecord
<1> HIDE DEF mk
<1>9. z \in ContextType /\ z.mk = mk
  BY <1>4, <1>8 DEF ContextType
<1>10. z \in ResultType
  BY <1>9, ContextIsResult
<1> HIDE DEF z
<1>11. GoodMarket(z.mk) /\ ~Open(z.mk) /\ Open(Markets[m])
  BY <1>1, <1>8, <1>9, NotOpen DEF Open, Unwrappable
<1>12. ScheduledAs(m, z.mk)
  BY <1>1, <1>11, UnscheduleStep
<1>13. ResolveCachesTyped /\ MarketIdsForEdit' \subseteq MarketIds
  BY <1>1 DEF ScheduleInv, TypeOK, resolve_vars, ResolveCachesTyped
<1> QED BY <1>1, <1>2, <1>3, <1>10, <1>11, <1>12, <1>13, CallStep

LEMMA EarlyCloseContext ==
  ASSUME NEW c \in ContextType, NEW period \in MarketPeriod,
         NEW ec \in EarlyClose
  PROVE  LET z == WithEarlyClose(c, period, ec)
         IN /\ z \in ContextType
            /\ z.mk.status = c.mk.status
            /\ z.mk.period = period
            /\ z.mk.early_close = ec
<1> DEFINE mk == [c.mk EXCEPT !.period = period, !.early_close = ec]
<1>1. mk \in MarketRecord
  BY Zenon DEF ContextType, MarketRecord
<1>2. mk.status = c.mk.status /\ mk.period = period /\ mk.early_close = ec
  BY DEF ContextType, MarketRecord
<1>3. WithEarlyClose(c, period, ec) = [c EXCEPT !.mk = mk]
  BY DEF WithEarlyClose
<1> HIDE DEF mk
<1> QED BY <1>1, <1>2, <1>3 DEF ContextType

LEMMA WarnOnly ==
  ASSUME NEW c \in ContextType, NEW period
  PROVE  OnlyBonds(c, WarnIfExpired(c, period))
<1> DEFINE w == c.warned \cup {"expired"}
<1>1. w \in SUBSET LogicError
  BY DEF ContextType, LogicError
<1>2. WarnIfExpired(c, period) \in {c, [c EXCEPT !.warned = w]}
  BY DEF WarnIfExpired
<1> HIDE DEF w
<1>3. [c EXCEPT !.warned = w] \in ContextType
  BY <1>1 DEF ContextType
<1>4. [c EXCEPT !.warned = w].mk = c.mk /\ [c EXCEPT !.warned = w].dm = c.dm
  BY DEF ContextType
<1> QED BY <1>2, <1>3, <1>4, OnlyBondsReflexive, Zenon
        DEF OnlyBonds, SameButBonds

LEMMA SettleCloseDisputeOnly ==
  ASSUME NEW c \in ContextType
  PROVE  OnlyBonds(c, SettleCloseDispute(c))
<1> DEFINE d == IF is_bond_pending(c.mk, "close_dispute")
                THEN repatriate_bond(c, "close_dispute", c.mk.creator) ELSE c
<1>1. {"close_request", "close_dispute"} \subseteq BondName
  BY DEF BondName
<1>2. c.mk.creator \in Accounts
  BY DEF ContextType, MarketRecord
<1>3. OnlyBonds(c, d)
  BY <1>1, <1>2, RepatriateOnly, OnlyBondsReflexive
<1>4. OnlyBonds(d, UnreservePending(d, "close_request"))
  BY <1>1, <1>3, UnreservePendingOnly DEF OnlyBonds
<1>5. OnlyBonds(c, UnreservePending(d, "close_request"))
  BY <1>3, <1>4, OnlyBondsTransitive
<1> QED BY <1>5 DEF SettleCloseDispute

LEMMA RewardCloseDisputorOnly ==
  ASSUME NEW c \in ContextType
  PROVE  OnlyBonds(c, RewardCloseDisputor(c))
<1> DEFINE who == c.mk.bonds["close_dispute"].who
           d == repatriate_bond(c, "close_request", who)
<1>1. {"close_request", "close_dispute"} \subseteq BondName
  BY DEF BondName
<1>2. CASE c.mk.bonds["close_dispute"] = None
  BY <1>2, OnlyBondsReflexive DEF RewardCloseDisputor
<1>3. CASE c.mk.bonds["close_dispute"] # None
  <2>1. who \in Accounts
    BY <1>1, <1>3 DEF ContextType, MarketRecord, MarketBonds, Bond
  <2> HIDE DEF who
  <2>2. OnlyBonds(c, d)
    BY <1>1, <2>1, RepatriateOnly
  <2>3. OnlyBonds(d, unreserve_bond(d, "close_dispute"))
    BY <1>1, <2>2, UnreserveOnly DEF OnlyBonds
  <2>4. OnlyBonds(c, unreserve_bond(d, "close_dispute"))
    BY <2>2, <2>3, OnlyBondsTransitive
  <2> QED BY <1>3, <2>4 DEF RewardCloseDisputor, who
<1> QED BY <1>2, <1>3

(* An early close moves the end to a slot that lies ahead or was forgone.   *)
LEMMA NewPeriodAhead ==
  ASSUME ScheduleInv, block > 0, NEW old \in MarketPeriod,
         NEW bp \in Nat \ {0}, NEW fp \in Nat, fp >= MillisecsPerBlock,
         NewPeriod(old, bp, fp).end < old.end
  PROVE  LET p == NewPeriod(old, bp, fp)
         IN /\ p \in MarketPeriod
            /\ p.kind = old.kind
            /\ Ahead(p) \/ Forgone(p)
<1> DEFINE p == NewPeriod(old, bp, fp)
<1>0. /\ block \in Nat /\ timestamp \in Nat /\ Horizon \in Nat
      /\ MaxMoment \in Nat /\ MillisecsPerBlock \in Nat
  BY MarketAssumption DEF ScheduleInv, TypeOK, Blocks, Moments
<1>1. CASE old \in [kind: {"Block"}, end: Blocks]
  <2>1. p = [old EXCEPT !.end = block + bp]
    BY <1>1 DEF NewPeriod
  <2>2. p.end = block + bp /\ p.kind = "Block"
    BY <1>1, <2>1
  <2>3. p.end \in Blocks
    BY <1>0, <1>1, <2>2 DEF Blocks
  <2>4. p \in MarketPeriod
    BY <1>1, <2>1, <2>2, <2>3 DEF MarketPeriod
  <2>5. Ahead(p)
    BY <1>0, <2>2 DEF Ahead
  <2> QED BY <1>1, <2>2, <2>4, <2>5
<1>2. CASE old \in [kind: {"Timestamp"}, end: Moments]
  <2>1. p = [old EXCEPT !.end = timestamp + fp]
    BY <1>2 DEF NewPeriod
  <2>2. p.end = timestamp + fp /\ p.kind = "Timestamp"
    BY <1>2, <2>1
  <2>3. p.end \in Moments
    BY <1>0, <1>2, <2>2 DEF Moments
  <2>4. p \in MarketPeriod
    BY <1>2, <2>1, <2>2, <2>3 DEF MarketPeriod
  <2>5. p.end \in Nat /\ timestamp + MillisecsPerBlock <= p.end
    BY <1>0, <2>2
  <2>6. /\ calculate_time_frame_of_moment(timestamp) \in Nat
        /\ calculate_time_frame_of_moment(p.end) \in Nat
        /\ calculate_time_frame_of_moment(timestamp)
             < calculate_time_frame_of_moment(p.end)
    BY <1>0, <2>5, Frames
  <2>7. CloseSlot(p) = calculate_time_frame_of_moment(p.end)
    BY <2>2 DEF CloseSlot
  <2> HIDE DEF p
  <2>8. Ahead(p) \/ Forgone(p)
    BY <2>2, <2>6, <2>7, LaterFrame
  <2> QED BY <1>2, <2>2, <2>4, <2>8 DEF p
<1> QED BY <1>1, <1>2 DEF MarketPeriod

LEMMA ScheduleEarlyStep ==
  ASSUME ScheduleInv, NEW m \in MarketIds, HasStatus(m, "Active"),
         NEW c, OnlyBonds(ContextOf(m), c),
         NEW bp \in Nat \ {0}, NEW fp \in Nat, fp >= MillisecsPerBlock,
         NEW state \in {"ScheduledAsMarketCreator", "ScheduledAsOther"},
         ScheduleEarlyClose(m, c, NewPeriod(Markets[m].period, bp, fp), state)
  PROVE  ScheduleInv'
<1> DEFINE old == Markets[m].period
           p == NewPeriod(old, bp, fp)
           ec == [old |-> old, new |-> p, state |-> state]
           z == WithEarlyClose(c, p, ec)
<1>1. /\ Markets[m] # None /\ Markets[m].status = "Active"
      /\ p.end < old.end /\ Reschedule(m, p) /\ Commit(m, z)
      /\ UNCHANGED <<MarketCounter, MarketIdsForEdit, resolve_vars,
                     clock_vars>>
  BY DEF HasStatus, Live, ScheduleEarlyClose, EndsEarlier
<1>2. /\ ContextOf(m) \in ContextType /\ ContextOf(m).mk = Markets[m]
      /\ GoodMarket(Markets[m]) /\ block > 0
      /\ MarketCounter \in Nat /\ m < MarketCounter
  BY <1>1, LiveContext
<1>3. old \in MarketPeriod
  BY <1>2 DEF GoodMarket, MarketRecord
<1>4. /\ p \in MarketPeriod /\ p.kind = old.kind
      /\ Ahead(p) \/ Forgone(p)
  BY <1>1, <1>2, <1>3, NewPeriodAhead
<1> HIDE DEF p
<1>5. /\ ec \in EarlyClose /\ ec.new = p /\ ec.old = old
      /\ ec.state = state
  BY <1>3, <1>4 DEF EarlyClose, EarlyCloseState
<1> HIDE DEF ec
<1>6. c \in ContextType /\ c.mk.status = "Active"
  BY <1>1, <1>2 DEF OnlyBonds, SameButBonds
<1>7. /\ z \in ContextType /\ z.mk.status = "Active"
      /\ z.mk.period = p /\ z.mk.early_close = ec
  BY <1>4, <1>5, <1>6, EarlyCloseContext
<1> HIDE DEF z
<1>8. z \in ResultType /\ z.mk \in MarketRecord /\ z.mk # None
  BY <1>7, ContextIsResult
<1>9. Open(z.mk) /\ Open(Markets[m]) /\ Unwrappable(z.mk)
  BY <1>1, <1>7, <1>8 DEF Open, Unwrappable
<1>10. PeriodFitsEarlyClose(z.mk) /\ EndAhead(z.mk)
  BY <1>1, <1>4, <1>5, <1>7 DEF PeriodFitsEarlyClose, EndAhead, EndForgone
<1>11. ScheduledAs(m, z.mk)
  BY <1>1, <1>4, <1>7, <1>9, RescheduleStep, SMTT(30)
<1>12. ResolveCachesTyped /\ MarketIdsForEdit' \subseteq MarketIds
  BY <1>1, Zenon DEF ScheduleInv, TypeOK, resolve_vars, ResolveCachesTyped
<1>13. GoodMarket(z.mk)
  BY <1>8, <1>9, <1>10 DEF GoodMarket
<1> QED BY <1>1, <1>2, <1>8, <1>11, <1>12, <1>13, CallStep

LEMMA AsMarketCreatorStep ==
  ASSUME ScheduleInv, NEW m \in MarketIds,
         schedule_early_close_as_market_creator(m)
  PROVE  ScheduleInv'
<1> DEFINE c == reserve_bond(ContextOf(m), "close_request", Markets[m].creator)
<1>1. /\ HasStatus(m, "Active")
      /\ ScheduleEarlyClose(m, c,
           NewPeriod(Markets[m].period, CloseEarlyBlockPeriod,
                     CloseEarlyTimeFramePeriod), "ScheduledAsMarketCreator")
  BY DEF schedule_early_close_as_market_creator
<1>2. ContextOf(m) \in ContextType /\ GoodMarket(Markets[m])
  BY <1>1, LiveContext DEF HasStatus, Live
<1>3. Markets[m].creator \in Accounts /\ "close_request" \in BondName
  BY <1>2 DEF GoodMarket, MarketRecord, BondName
<1>4. OnlyBonds(ContextOf(m), c)
  BY <1>2, <1>3, ReserveOnly
<1>5. /\ CloseEarlyBlockPeriod \in Nat \ {0}
      /\ CloseEarlyTimeFramePeriod \in Nat
      /\ CloseEarlyTimeFramePeriod >= MillisecsPerBlock
  BY PredictionMarketsAssumption
<1> HIDE DEF c
<1> QED BY <1>1, <1>4, <1>5, ScheduleEarlyStep

LEMMA AsAuthorityStep ==
  ASSUME ScheduleInv, NEW m \in MarketIds, schedule_early_close_as_authority(m)
  PROVE  ScheduleInv'
<1> DEFINE ec == Markets[m].early_close
           c == IF ec # None /\ ec.state = "Disputed"
                THEN SettleCloseDispute(ContextOf(m)) ELSE ContextOf(m)
<1>1. /\ HasStatus(m, "Active")
      /\ ScheduleEarlyClose(m, c,
           NewPeriod(Markets[m].period, CloseEarlyProtectionBlockPeriod,
                     CloseEarlyProtectionTimeFramePeriod), "ScheduledAsOther")
  BY DEF schedule_early_close_as_authority, ProtectionPeriod
<1>2. ContextOf(m) \in ContextType
  BY <1>1, LiveContext DEF HasStatus, Live
<1>3. OnlyBonds(ContextOf(m), c)
  BY <1>2, SettleCloseDisputeOnly, OnlyBondsReflexive
<1>4. /\ CloseEarlyProtectionBlockPeriod \in Nat \ {0}
      /\ CloseEarlyProtectionTimeFramePeriod \in Nat
      /\ CloseEarlyProtectionTimeFramePeriod >= MillisecsPerBlock
  BY PredictionMarketsAssumption
<1> HIDE DEF c
<1> QED BY <1>1, <1>3, <1>4, ScheduleEarlyStep

(* The original period ends after the one that replaced it.                 *)
LEMMA OldPeriodAhead ==
  ASSUME ScheduleInv, NEW a, GoodMarket(a), Open(a), a.early_close # None,
         a.early_close.state \in {"ScheduledAsMarketCreator",
                                  "ScheduledAsOther"},
         NEW z \in MarketRecord, Open(z), z.period = a.early_close.old,
         z.early_close # None,
         z.early_close.old = a.early_close.old,
         z.early_close.new = a.early_close.new,
         z.early_close.state \in {"Disputed", "Rejected"},
         Unwrappable(z)
  PROVE  GoodMarket(z)
<1> DEFINE old == a.early_close.old
           new == a.early_close.new
<1>1. /\ new.kind = old.kind /\ a.period = new /\ new.end < old.end
  BY DEF GoodMarket, PeriodFitsEarlyClose
<1>2. a.early_close \in EarlyClose
  BY DEF GoodMarket, MarketRecord
<1>3. old \in MarketPeriod /\ new \in MarketPeriod
  BY <1>2 DEF EarlyClose
<1>4. new.end \in Nat /\ old.end \in Nat
  BY <1>3 DEF MarketPeriod, Blocks, Moments
<1>5. PeriodFitsEarlyClose(z)
  BY <1>1 DEF PeriodFitsEarlyClose
<1>6. EndAhead(a)
  BY DEF GoodMarket
<1>7. EndAhead(z)
  <2>1. CASE Forgone(new)
    BY <2>1 DEF EndAhead, EndForgone
  <2>2. CASE Ahead(new) /\ old.kind = "Block"
    <3>1. block \in Nat
      BY DEF ScheduleInv, TypeOK, Blocks
    <3>2. Ahead(old)
      BY <1>1, <1>4, <2>2, <3>1 DEF Ahead
    <3> QED BY <3>2 DEF EndAhead
  <2>3. CASE Ahead(new) /\ old.kind # "Block"
    <3>1. LastTimeFrame # None /\ CloseSlot(new) > LastTimeFrame
      BY <1>1, <2>3 DEF Ahead
    <3>2. LastTimeFrame \in Nat
      BY <3>1 DEF ScheduleInv, TypeOK, TimeFrames
    <3>3. /\ CloseSlot(new) = calculate_time_frame_of_moment(new.end)
          /\ CloseSlot(old) = calculate_time_frame_of_moment(old.end)
      BY <1>1, <2>3 DEF CloseSlot
    <3>4. /\ CloseSlot(new) \in Nat /\ CloseSlot(old) \in Nat
          /\ CloseSlot(new) <= CloseSlot(old)
      BY <1>1, <1>4, <3>3, Frames
    <3>5. CloseSlot(old) > LastTimeFrame
      BY <3>1, <3>2, <3>4
    <3> QED BY <2>3, <3>1, <3>5 DEF EndAhead, Ahead
  <2> QED BY <1>1, <1>6, <2>1, <2>2, <2>3 DEF EndAhead, EndForgone
<1> QED BY <1>5, <1>7 DEF GoodMarket

(* What dispute_early_close and reject_early_close have in common.          *)
LEMMA ReturnStep ==
  ASSUME ScheduleInv, NEW m \in MarketIds, HasStatus(m, "Active"),
         Markets[m].early_close # None,
         Markets[m].early_close.state \in {"ScheduledAsMarketCreator",
                                           "ScheduledAsOther"},
         NEW c, OnlyBonds(ContextOf(m), c),
         NEW state \in {"Disputed", "Rejected"},
         Reschedule(m, Markets[m].early_close.old),
         Commit(m, WithEarlyClose(c, Markets[m].early_close.old,
                     [Markets[m].early_close EXCEPT !.state = state])),
         UNCHANGED <<MarketCounter, MarketIdsForEdit, resolve_vars,
                     clock_vars>>
  PROVE  ScheduleInv'
<1> DEFINE ec == Markets[m].early_close
           ec2 == [ec EXCEPT !.state = state]
           z == WithEarlyClose(c, ec.old, ec2)
<1>1. Markets[m] # None /\ Markets[m].status = "Active"
  BY DEF HasStatus, Live
<1>2. /\ ContextOf(m) \in ContextType /\ ContextOf(m).mk = Markets[m]
      /\ GoodMarket(Markets[m]) /\ block > 0
      /\ MarketCounter \in Nat /\ m < MarketCounter
  BY <1>1, LiveContext
<1>3. ec \in EarlyClose
  BY <1>2 DEF GoodMarket, MarketRecord
<1>4. /\ ec2 \in EarlyClose /\ ec.old \in MarketPeriod
      /\ ec2.old = ec.old /\ ec2.new = ec.new /\ ec2.state = state
  BY <1>3 DEF EarlyClose, EarlyCloseState
<1> HIDE DEF ec2
<1>5. ec2 # None
  BY <1>4, MarketAssumption
<1>6. c \in ContextType /\ c.mk.status = "Active"
  BY <1>1, <1>2 DEF OnlyBonds, SameButBonds
<1>7. /\ z \in ContextType /\ z.mk.status = "Active"
      /\ z.mk.period = ec.old /\ z.mk.early_close = ec2
  BY <1>4, <1>6, EarlyCloseContext
<1>8. Commit(m, z)
  BY DEF ec2
<1> HIDE DEF z
<1>9. z \in ResultType /\ z.mk \in MarketRecord /\ z.mk # None
  BY <1>7, ContextIsResult
<1>10. Open(z.mk) /\ Open(Markets[m]) /\ Unwrappable(z.mk)
  BY <1>1, <1>7, <1>9 DEF Open, Unwrappable
<1>11. GoodMarket(z.mk)
  BY <1>5, <1>2, <1>4, <1>7, <1>9, <1>10, OldPeriodAhead
<1>12. ScheduledAs(m, z.mk)
  BY <1>4, <1>7, <1>10, RescheduleStep
<1>13. ResolveCachesTyped /\ MarketIdsForEdit' \subseteq MarketIds
  BY DEF ScheduleInv, TypeOK, resolve_vars, ResolveCachesTyped
<1> QED BY <1>2, <1>8, <1>9, <1>11, <1>12, <1>13, CallStep

LEMMA DisputeEarlyStep ==
  ASSUME ScheduleInv, NEW m \in MarketIds, NEW who \in Accounts,
         dispute_early_close(m, who)
  PROVE  ScheduleInv'
<1> DEFINE ec == Markets[m].early_close
           d == WarnIfExpired(ContextOf(m), ec.old)
           c == reserve_bond(d, "close_dispute", who)
<1>1. /\ HasStatus(m, "Active") /\ ec # None
      /\ ec.state = "ScheduledAsMarketCreator"
      /\ Reschedule(m, ec.old)
      /\ Commit(m, WithEarlyClose(c, ec.old,
                                  [ec EXCEPT !.state = "Disputed"]))
      /\ UNCHANGED <<MarketCounter, MarketIdsForEdit, resolve_vars,
                     clock_vars>>
  BY DEF dispute_early_close
<1>2. ContextOf(m) \in ContextType
  BY <1>1, LiveContext DEF HasStatus, Live
<1>3. OnlyBonds(ContextOf(m), d)
  BY <1>2, WarnOnly
<1>4. OnlyBonds(d, c)
  BY <1>3, ReserveOnly DEF OnlyBonds, BondName
<1> HIDE DEF c, d
<1>5. OnlyBonds(ContextOf(m), c)
  BY <1>3, <1>4, OnlyBondsTransitive
<1> QED BY <1>1, <1>5, ReturnStep, Zenon

LEMMA RejectEarlyStep ==
  ASSUME ScheduleInv, NEW m \in MarketIds, reject_early_close(m)
  PROVE  ScheduleInv'
<1> DEFINE ec == Markets[m].early_close
           ec2 == [ec EXCEPT !.state = "Rejected"]
<1>1. /\ HasStatus(m, "Active") /\ ec # None
      /\ UNCHANGED <<MarketCounter, MarketIdsForEdit, resolve_vars,
                     clock_vars>>
  BY DEF reject_early_close
<1>2. /\ Markets[m] # None /\ Markets[m].status = "Active"
      /\ ContextOf(m) \in ContextType /\ ContextOf(m).mk = Markets[m]
      /\ GoodMarket(Markets[m]) /\ block > 0
      /\ MarketCounter \in Nat /\ m < MarketCounter
  BY <1>1, LiveContext DEF HasStatus, Live
<1>3. CASE /\ ec.state = "Disputed"
           /\ Commit(m, WithEarlyClose(RewardCloseDisputor(ContextOf(m)),
                                       Markets[m].period, ec2))
           /\ UNCHANGED close_vars
  <2> DEFINE c == RewardCloseDisputor(ContextOf(m))
             z == WithEarlyClose(c, Markets[m].period, ec2)
  <2>1. c \in ContextType /\ c.mk.status = "Active"
    BY <1>2, RewardCloseDisputorOnly DEF OnlyBonds, SameButBonds
  <2>2. ec \in EarlyClose /\ Markets[m].period \in MarketPeriod
    BY <1>1, <1>2 DEF GoodMarket, MarketRecord
  <2>3. /\ ec2 \in EarlyClose /\ ec2.old = ec.old /\ ec2.new = ec.new
        /\ ec2.state = "Rejected"
    BY <2>2 DEF EarlyClose, EarlyCloseState
  <2>4. Commit(m, z)
    BY <1>3
  <2> HIDE DEF c, ec2
  <2>5. /\ z \in ContextType /\ z.mk.status = "Active"
        /\ z.mk.period = Markets[m].period /\ z.mk.early_close = ec2
    BY <2>1, <2>2, <2>3, EarlyCloseContext
  <2> HIDE DEF z
  <2>6. z \in ResultType /\ z.mk \in MarketRecord /\ z.mk # None
    BY <2>5, ContextIsResult
  <2>7. Open(z.mk) /\ Open(Markets[m]) /\ Unwrappable(z.mk)
    BY <1>2, <2>5, <2>6, SMTT(30) DEF Open, Unwrappable
  <2>8. PeriodFitsEarlyClose(z.mk)
    BY <1>1, <1>2, <1>3, <2>3, <2>5, <2>7 DEF GoodMarket, PeriodFitsEarlyClose
  <2>9. EndAhead(z.mk)
    <3>1. ec2 # None
      BY <2>3, MarketAssumption
    <3>2. \/ Ahead(Markets[m].period)
          \/ Forgone(Markets[m].period) \/ Forgone(ec.new)
      BY <1>2, <2>7 DEF GoodMarket, EndAhead, EndForgone
    <3> QED BY <2>3, <2>5, <3>1, <3>2 DEF EndAhead, EndForgone
  <2>10. GoodMarket(z.mk)
    BY <2>6, <2>7, <2>8, <2>9 DEF GoodMarket
  <2>11. ScheduledAs(m, z.mk)
    BY <1>3, <2>5, <2>7, KeepSchedule
  <2>12. ResolveCachesTyped /\ MarketIdsForEdit' \subseteq MarketIds
    BY <1>1 DEF ScheduleInv, TypeOK, resolve_vars, ResolveCachesTyped
  <2> QED BY <1>1, <1>2, <2>4, <2>6, <2>10, <2>11, <2>12, CallStep
<1>4. CASE /\ ec.state = "ScheduledAsOther"
           /\ Reschedule(m, ec.old)
           /\ Commit(m, WithEarlyClose(
                RewardCloseDisputor(WarnIfExpired(ContextOf(m), ec.old)),
                ec.old, ec2))
  <2> DEFINE d == WarnIfExpired(ContextOf(m), ec.old)
             c == RewardCloseDisputor(d)
  <2>1. OnlyBonds(ContextOf(m), d)
    BY <1>2, WarnOnly
  <2>2. OnlyBonds(d, c)
    BY <2>1, RewardCloseDisputorOnly DEF OnlyBonds
  <2>3. Commit(m, WithEarlyClose(c, ec.old, ec2))
    BY <1>4
  <2> HIDE DEF c, d
  <2>4. OnlyBonds(ContextOf(m), c)
    BY <2>1, <2>2, OnlyBondsTransitive
  <2> QED BY <1>1, <1>4, <2>3, <2>4, ReturnStep, Zenon
<1> QED BY <1>3, <1>4 DEF reject_early_close

=============================================================================
