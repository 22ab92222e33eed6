--------------------------- MODULE ScheduleProofs ----------------------------
(***************************************************************************)
(* The close schedule: the caches, the time frames, and what a call on one *)
(* market has to establish to preserve the invariant.                      *)
(***************************************************************************)
EXTENDS MarketProofs

-----------------------------------------------------------------------------
(* The caches *)

(* EXCEPT outside the domain changes nothing, so only s \in S matters.      *)
LEMMA ExceptType ==
  ASSUME NEW S, NEW f \in [S -> Nat], NEW s, NEW v, s \in S => v \in Nat
  PROVE  [f EXCEPT ![s] = v] \in [S -> Nat]
<1>1. CASE s \in S
  BY <1>1
<1>2. CASE s \notin S
  <2>1. \A x \in S : [f EXCEPT ![s] = v][x] = f[x]
    BY <1>2
  <2> QED BY <1>2, <2>1, Zenon
<1> QED BY <1>1, <1>2

LEMMA PushType ==
  ASSUME NEW slots, NEW cache \in CacheOf(slots), NEW m \in MarketIds, NEW s
  PROVE  /\ push(cache, m, s) \in CacheOf(slots)
         /\ \A x \in MarketIds \ {m} : push(cache, m, s)[x] = cache[x]
<1>1. cache[m] \in [slots -> Nat]
  BY DEF CacheOf
<1>2. [cache[m] EXCEPT ![s] = cache[m][s] + 1] \in [slots -> Nat]
  BY <1>1, ExceptType
<1>3. push(cache, m, s)
        = [cache EXCEPT ![m] = [cache[m] EXCEPT ![s] = cache[m][s] + 1]]
  BY DEF push
<1> QED BY <1>2, <1>3 DEF CacheOf

LEMMA RemoveItemType ==
  ASSUME NEW slots, NEW cache \in CacheOf(slots), NEW m \in MarketIds, NEW s
  PROVE  /\ remove_item(cache, m, s) \in CacheOf(slots)
         /\ \A x \in MarketIds \ {m} : remove_item(cache, m, s)[x] = cache[x]
<1> DEFINE row == [cache[m] EXCEPT ![s] = IF @ > 0 THEN @ - 1 ELSE 0]
<1>1. cache[m] \in [slots -> Nat]
  BY DEF CacheOf
<1>2. row \in [slots -> Nat]
  BY <1>1, ExceptType
<1>3. remove_item(cache, m, s) = [cache EXCEPT ![m] = row]
  BY DEF remove_item
<1> HIDE DEF row
<1> QED BY <1>2, <1>3 DEF CacheOf

LEMMA PushOnce ==
  ASSUME NEW slots, NEW cache \in CacheOf(slots), NEW m \in MarketIds,
         NEW s \in slots, cache[m] = Never(slots)
  PROVE  push(cache, m, s)[m] = Once(slots, s)
<1>1. push(cache, m, s)[m] = [cache[m] EXCEPT ![s] = cache[m][s] + 1]
  BY DEF push, CacheOf
<1>2. [Never(slots) EXCEPT ![s] = Never(slots)[s] + 1] = Once(slots, s)
  BY DEF Never, Once
<1> QED BY <1>1, <1>2

LEMMA RemoveOnce ==
  ASSUME NEW slots, NEW cache \in CacheOf(slots), NEW m \in MarketIds,
         NEW s \in slots, cache[m] = Once(slots, s)
  PROVE  remove_item(cache, m, s)[m] = Never(slots)
<1> DEFINE row(r) == [r EXCEPT ![s] = IF @ > 0 THEN @ - 1 ELSE 0]
<1>1. remove_item(cache, m, s)[m] = row(cache[m])
  BY DEF remove_item, CacheOf
<1>2. row(Once(slots, s)) = Never(slots)
  BY DEF Never, Once
<1> QED BY <1>1, <1>2

(* clear_auto_close on a market that is in the slot of its period.          *)
LEMMA ClearEntry ==
  ASSUME NEW slots, NEW cache \in CacheOf(slots), NEW m \in MarketIds,
         NEW kind, NEW mk, Open(mk),
         cache[m] = CloseEntries(kind, mk, slots),
         mk.period.kind = kind => CloseSlot(mk.period) \in slots
  PROVE  /\ clear_auto_close(kind, cache, m, mk.period) \in CacheOf(slots)
         /\ clear_auto_close(kind, cache, m, mk.period)[m] = Never(slots)
         /\ \A x \in MarketIds \ {m} :
              clear_auto_close(kind, cache, m, mk.period)[x] = cache[x]
BY RemoveItemType, RemoveOnce DEF clear_auto_close, CloseEntries

-----------------------------------------------------------------------------
(* Time frames *)

LEMMA Quotient ==
  ASSUME NEW a \in Nat, NEW d \in Nat \ {0}
  PROVE  /\ a \div d \in Nat
         /\ d * (a \div d) <= a
         /\ a < d * (a \div d) + d
<1>1. a \div d \in Nat
  OBVIOUS
<1>2. d * (a \div d) <= a
  OBVIOUS
<1>3. a < d * (a \div d) + d
  OBVIOUS
<1> QED BY <1>1, <1>2, <1>3

LEMMA ProductStep ==
  ASSUME NEW d \in Nat \ {0}, NEW x \in Nat, NEW y \in Nat, x < y
  PROVE  d * x + d <= d * y
OBVIOUS

(* Later moments are in later time frames or the same, and moments a block  *)
(* apart are in different ones.                                             *)
LEMMA Frames ==
  ASSUME NEW a \in Nat, NEW b \in Nat
  PROVE  /\ calculate_time_frame_of_moment(a) \in Nat
         /\ a <= b => calculate_time_frame_of_moment(a)
                        <= calculate_time_frame_of_moment(b)
         /\ a + MillisecsPerBlock <= b =>
              calculate_time_frame_of_moment(a)
                < calculate_time_frame_of_moment(b)
<1> DEFINE d == MillisecsPerBlock
           x == a \div d
           y == b \div d
<1>0. d \in Nat \ {0}
  BY MarketAssumption
<1> HIDE DEF d
<1>1. x \in Nat /\ d * x <= a /\ a < d * x + d
  BY <1>0, Quotient
<1>2. y \in Nat /\ d * y <= b /\ b < d * y + d
  BY <1>0, Quotient
<1> HIDE DEF x, y
<1>3. d * x \in Nat /\ d * y \in Nat
  BY <1>0, <1>1, <1>2
<1>4. ASSUME a <= b PROVE x <= y
  <2>1. SUFFICES ASSUME y < x PROVE FALSE
    BY <1>1, <1>2
  <2>2. d * y + d <= d * x
    BY <1>0, <1>1, <1>2, <2>1, ProductStep
  <2> QED BY <1>0, <1>1, <1>2, <1>3, <1>4, <2>2
<1>5. ASSUME a + d <= b PROVE x < y
  <2>1. SUFFICES ASSUME y <= x PROVE FALSE
    BY <1>1, <1>2
  <2>2. y = x \/ d * y + d <= d * x
    BY <1>0, <1>1, <1>2, <2>1, ProductStep
  <2>3. d * y <= d * x
    BY <1>0, <1>3, <2>2
  <2> QED BY <1>0, <1>1, <1>2, <1>3, <1>5, <2>3
<1> QED BY <1>1, <1>4, <1>5 DEF calculate_time_frame_of_moment, d, x, y

LEMMA RemoveSlotType ==
  ASSUME NEW slots, NEW cache \in CacheOf(slots), NEW gone
  PROVE  /\ RemoveSlot(cache, gone) \in CacheOf(slots)
         /\ \A m \in MarketIds : RemoveSlot(cache, gone)[m]
              = [s \in slots |-> IF s \in gone THEN 0 ELSE cache[m][s]]
<1>1. \A m \in MarketIds :
        /\ DOMAIN cache[m] = slots
        /\ [s \in slots |-> IF s \in gone THEN 0 ELSE cache[m][s]]
             \in [slots -> Nat]
  BY DEF CacheOf
<1>2. RemoveSlot(cache, gone)
        = [m \in MarketIds |->
             [s \in slots |-> IF s \in gone THEN 0 ELSE cache[m][s]]]
  BY <1>1 DEF RemoveSlot
<1> QED BY <1>1, <1>2 DEF CacheOf

LEMMA RemoveFromOnce ==
  ASSUME NEW slots, NEW s \in slots, NEW gone
  PROVE  [t \in slots |-> IF t \in gone THEN 0 ELSE Once(slots, s)[t]]
           = IF s \in gone THEN Never(slots) ELSE Once(slots, s)
<1>1. CASE s \in gone
  BY <1>1 DEF Once, Never
<1>2. CASE s \notin gone
  BY <1>2 DEF Once
<1> QED BY <1>1, <1>2

LEMMA RemoveOneFromOnce ==
  ASSUME NEW n
  PROVE  \A s \in Blocks :
           [t \in Blocks |-> IF t \in {n} THEN 0 ELSE Once(Blocks, s)[t]]
             = IF s \in {n} THEN Never(Blocks) ELSE Once(Blocks, s)
BY RemoveFromOnce, Zenon

LEMMA RemoveFromNever ==
  ASSUME NEW slots, NEW gone
  PROVE  [t \in slots |-> IF t \in gone THEN 0 ELSE Never(slots)[t]]
           = Never(slots)
BY DEF Never

(* The frames that on_initialize looks at exist, and end with the one after *)
(* the clock.                                                               *)
LEMMA DueFrames ==
  ASSUME ScheduleInv, NEW t \in Moments,
         calculate_time_frame_of_moment(timestamp)
           <= calculate_time_frame_of_moment(t)
  PROVE  /\ DueTimeFrames \subseteq TimeFrames
         /\ CurrentTimeFrame \in TimeFrames
         /\ CurrentTimeFrame = calculate_time_frame_of_moment(timestamp) + 1
         /\ \A f \in TimeFrames :
              LastTimeFrame # None /\ f > LastTimeFrame =>
                (f \in DueTimeFrames <=> f <= CurrentTimeFrame)
<1> DEFINE now == calculate_time_frame_of_moment(timestamp)
           next == calculate_time_frame_of_moment(t)
           last == calculate_time_frame_of_moment(MaxMoment)
<1>1. /\ timestamp \in Nat /\ t \in Nat /\ MaxMoment \in Nat
      /\ t <= MaxMoment
  BY MarketAssumption DEF ScheduleInv, TypeOK, Moments
<1>2. now \in Nat /\ next \in Nat /\ last \in Nat /\ next <= last
  BY <1>1, Frames
<1>3. CurrentTimeFrame = now + 1 /\ TimeFrames = 0 .. last + 1
  BY DEF CurrentTimeFrame, TimeFrames
<1>4. now <= next
  OBVIOUS
<1>5. LastTimeFrame # None => LastTimeFrame \in TimeFrames
  BY DEF ScheduleInv, TypeOK
<1> HIDE DEF now, next, last
<1>6. CurrentTimeFrame \in TimeFrames
  BY <1>2, <1>3, <1>4
<1>7. DueTimeFrames \subseteq TimeFrames
  BY <1>2, <1>3, <1>5, <1>6 DEF DueTimeFrames
<1>8. \A f \in TimeFrames :
        LastTimeFrame # None /\ f > LastTimeFrame =>
          (f \in DueTimeFrames <=> f <= CurrentTimeFrame)
  BY <1>2, <1>3, <1>5, <1>6 DEF DueTimeFrames
<1> QED BY <1>3, <1>6, <1>7, <1>8 DEF now

(* The end of a period has a slot in the cache for its kind.                *)
LEMMA SlotInRange ==
  ASSUME NEW period \in MarketPeriod
  PROVE  /\ period.kind \in {"Block", "Timestamp"}
         /\ period.kind = "Block" => CloseSlot(period) \in Blocks
         /\ period.kind = "Timestamp" => CloseSlot(period) \in TimeFrames
<1>1. CASE period \in [kind: {"Block"}, end: Blocks]
  BY <1>1 DEF CloseSlot
<1>2. CASE period \in [kind: {"Timestamp"}, end: Moments]
  <2>1. period.end \in Nat /\ period.end <= MaxMoment /\ MaxMoment \in Nat
    BY <1>2, MarketAssumption DEF Moments
  <2>2. /\ calculate_time_frame_of_moment(period.end) \in Nat
        /\ calculate_time_frame_of_moment(MaxMoment) \in Nat
        /\ calculate_time_frame_of_moment(period.end)
             <= calculate_time_frame_of_moment(MaxMoment)
    BY <2>1, Frames
  <2>3. calculate_time_frame_of_moment(period.end) \in TimeFrames
    BY <2>2 DEF TimeFrames
  <2> QED BY <1>2, <2>3 DEF CloseSlot
<1> QED BY <1>1, <1>2 DEF MarketPeriod

(* A period that ends in a later frame than the clock is ahead, unless two  *)
(* blocks share the frame of the clock: the next frame is processed then.   *)
LEMMA LaterFrame ==
  ASSUME ScheduleInv, block > 0, NEW period, period.kind # "Block",
         CloseSlot(period) \in Nat,
         calculate_time_frame_of_moment(timestamp) < CloseSlot(period)
  PROVE  Ahead(period) \/ Forgone(period)
<1> DEFINE now == calculate_time_frame_of_moment(timestamp)
           slot == CloseSlot(period)
<1>1. now \in Nat
  BY Frames DEF ScheduleInv, TypeOK, Moments
<1>2. LastTimeFrame # None /\ LastTimeFrame \in Nat
  BY DEF ScheduleInv, TypeOK, ClockInv, TimeFrames
<1>3. \/ LastTimeFrame <= now
      \/ LastTimeFrame = now + 1 /\ now \in shared_frames
  BY <1>2 DEF ScheduleInv, ClockInv
<1>4. slot \in Nat /\ now < slot
  OBVIOUS
<1> HIDE DEF now, slot
<1>5. slot > LastTimeFrame \/ (slot - 1 = now /\ now \in shared_frames)
  BY <1>1, <1>2, <1>3, <1>4
<1> QED BY <1>2, <1>5 DEF Ahead, Forgone, slot

-----------------------------------------------------------------------------
(* Calls: what a call on market m has to establish *)

GoodMarket(mk) ==
  /\ mk \in MarketRecord
  /\ Unwrappable(mk)
  /\ PeriodFitsEarlyClose(mk)
  /\ EndAhead(mk)

\* The close caches after a call that leaves market m as mk.
ScheduledAs(m, mk) ==
  /\ MarketIdsPerCloseBlock' \in CacheOf(Blocks)
  /\ MarketIdsPerCloseTimeFrame' \in CacheOf(TimeFrames)
  /\ MarketIdsPerCloseBlock'[m] = CloseEntries("Block", mk, Blocks)
  /\ MarketIdsPerCloseTimeFrame'[m]
       = CloseEntries("Timestamp", mk, TimeFrames)
  /\ \A x \in MarketIds \ {m} :
       /\ MarketIdsPerCloseBlock'[x] = MarketIdsPerCloseBlock[x]
       /\ MarketIdsPerCloseTimeFrame'[x] = MarketIdsPerCloseTimeFrame[x]

ResolveCachesTyped ==
  /\ MarketIdsPerReportBlock' \in CacheOf(Blocks)
  /\ MarketIdsPerDisputeBlock' \in CacheOf(Blocks)

LEMMA CallStep ==
  ASSUME ScheduleInv, NEW m \in MarketIds, NEW c \in ResultType,
         Commit(m, c), c.mk # None => GoodMarket(c.mk),
         MarketCounter' \in Nat, MarketCounter <= MarketCounter',
         m < MarketCounter', MarketIdsForEdit' \subseteq MarketIds,
         ScheduledAs(m, c.mk), ResolveCachesTyped,
         UNCHANGED clock_vars, block > 0
  PROVE  ScheduleInv'
<1>1. /\ Markets' = [Markets EXCEPT ![m] = c.mk]
      /\ Reserves' = [Reserves EXCEPT ![m] = c.reserve]
      /\ Mechanisms' = [Mechanisms EXCEPT ![m] = c.dm]
      /\ logic_errors' = logic_errors \cup c.warned
  BY DEF Commit
<1>2. /\ c.mk \in MarketRecord \cup {None} /\ c.reserve \in Reserve
      /\ c.dm \in MechanismState /\ c.warned \in SUBSET LogicError
  BY DEF ResultType
<1>3. /\ LastTimeFrame' = LastTimeFrame /\ RequestBlock' = RequestBlock
      /\ block' = block /\ timestamp' = timestamp
      /\ rolled_back' = rolled_back /\ shared_frames' = shared_frames
  BY DEF clock_vars
<1>4. Markets \in [MarketIds -> MarketRecord \cup {None}]
  BY DEF ScheduleInv, TypeOK
<1>5. /\ Markets'[m] = c.mk
      /\ \A x \in MarketIds \ {m} : Markets'[x] = Markets[x]
  BY <1>1, <1>4
<1>6. TypeOK'
  <2>1. Markets' \in [MarketIds -> MarketRecord \cup {None}]
    BY <1>1, <1>2, <1>4
  <2>2. Reserves' \in [MarketIds -> Reserve]
    BY <1>1, <1>2 DEF ScheduleInv, TypeOK
  <2>3. Mechanisms' \in [MarketIds -> MechanismState]
    BY <1>1, <1>2 DEF ScheduleInv, TypeOK
  <2>4. logic_errors' \subseteq LogicError
    BY <1>1, <1>2 DEF ScheduleInv, TypeOK
  <2>5. /\ LastTimeFrame' \in TimeFrames \cup {None}
        /\ RequestBlock' \in Nat /\ block' \in Blocks /\ timestamp' \in Moments
        /\ rolled_back' \subseteq Blocks /\ shared_frames' \subseteq TimeFrames
    BY <1>3 DEF ScheduleInv, TypeOK
  <2> QED BY <2>1, <2>2, <2>3, <2>4, <2>5
          DEF TypeOK, ScheduledAs, ResolveCachesTyped
<1>7. AllUnwrappable'
  BY <1>5 DEF ScheduleInv, AllUnwrappable, Live, GoodMarket
<1>8. UnusedIds'
  <2>1. MarketCounter \in Nat /\ MarketIds \subseteq Nat
    BY MarketAssumption DEF ScheduleInv, TypeOK
  <2> QED BY <1>5, <2>1 DEF ScheduleInv, UnusedIds
<1>9. ClockInv'
  <2>1. block \in Nat
    BY DEF ScheduleInv, TypeOK, Blocks
  <2> QED BY <1>3, <2>1 DEF ScheduleInv, ClockInv
<1>10. CloseScheduled'
  BY <1>5 DEF ScheduleInv, CloseScheduled, ScheduledAs
<1>11. EarlyCloseConsistent'
  <2>1. \A x \in MarketIds : PeriodFitsEarlyClose(Markets'[x])
    BY <1>5 DEF ScheduleInv, EarlyCloseConsistent, GoodMarket,
                PeriodFitsEarlyClose, Open
  <2> QED BY <2>1 DEF EarlyCloseConsistent
<1>12. CloseNotMissed'
  <2>1. \A x \in MarketIds : EndAhead(Markets'[x])
    <3>1. EndAhead(c.mk)
      BY DEF GoodMarket, EndAhead, Open
    <3> QED BY <1>5, <3>1 DEF ScheduleInv, CloseNotMissed
  <2>2. \A x \in MarketIds : EndAhead(Markets[x])'
    BY <1>3, <2>1 DEF EndAhead, Ahead, Forgone, EndForgone
  <2> QED BY <2>2 DEF CloseNotMissed
<1> QED BY <1>6, <1>7, <1>8, <1>9, <1>10, <1>11, <1>12 DEF ScheduleInv

LEMMA LiveContext ==
  ASSUME ScheduleInv, NEW m \in MarketIds, Markets[m] # None
  PROVE  /\ ContextOf(m) \in ContextType
         /\ ContextOf(m).mk = Markets[m]
         /\ ContextOf(m).dm = Mechanisms[m]
         /\ GoodMarket(Markets[m])
         /\ block > 0
         /\ MarketCounter \in Nat /\ m < MarketCounter
<1>1. /\ Markets[m] \in MarketRecord /\ Reserves[m] \in Reserve
      /\ Mechanisms[m] \in MechanismState
  BY DEF ScheduleInv, TypeOK
<1>2. {} \in SUBSET LogicError
  OBVIOUS
<1>3. /\ ContextOf(m) \in ContextType
      /\ ContextOf(m).mk = Markets[m]
      /\ ContextOf(m).dm = Mechanisms[m]
  BY <1>1, <1>2 DEF ContextOf, Context, ContextType
<1>4. GoodMarket(Markets[m])
  BY <1>1 DEF ScheduleInv, GoodMarket, AllUnwrappable, Live,
              EarlyCloseConsistent, CloseNotMissed
<1>5. block > 0
  BY DEF ScheduleInv, TypeOK, ClockInv, Blocks
<1>6. MarketCounter \in Nat /\ m < MarketCounter
  BY MarketAssumption DEF ScheduleInv, TypeOK, UnusedIds
<1> QED BY <1>3, <1>4, <1>5, <1>6

(* A call that leaves the period alone and opens nothing keeps GoodMarket.  *)
LEMMA SamePeriod ==
  ASSUME NEW a, NEW z \in MarketRecord, GoodMarket(a), Unwrappable(z),
         z.period = a.period, z.early_close = a.early_close,
         Open(z) => Open(a)
  PROVE  GoodMarket(z)
<1>1. PeriodFitsEarlyClose(z)
  BY DEF GoodMarket, PeriodFitsEarlyClose
<1>2. EndAhead(z)
  BY DEF GoodMarket, EndAhead, EndForgone
<1> QED BY <1>1, <1>2 DEF GoodMarket

(* A market that is not open is in no danger of missing its end.            *)
LEMMA NotOpen ==
  ASSUME NEW z \in MarketRecord, Unwrappable(z), ~Open(z)
  PROVE  GoodMarket(z)
BY DEF GoodMarket, PeriodFitsEarlyClose, EndAhead

LEMMA KeepSchedule ==
  ASSUME ScheduleInv, NEW m \in MarketIds, NEW mk,
         Open(mk) <=> Open(Markets[m]),
         Open(mk) => mk.period = Markets[m].period,
         UNCHANGED close_vars
  PROVE  ScheduledAs(m, mk)
BY DEF ScheduleInv, TypeOK, CloseScheduled, CloseEntries, ScheduledAs,
       close_vars

(* clear_auto_close on an open market takes it out of both caches.          *)
LEMMA ClearBoth ==
  ASSUME ScheduleInv, NEW m \in MarketIds, Open(Markets[m])
  PROVE  LET b == clear_auto_close("Block", MarketIdsPerCloseBlock, m,
                                   Markets[m].period)
             f == clear_auto_close("Timestamp", MarketIdsPerCloseTimeFrame,
                                   m, Markets[m].period)
         IN /\ b \in CacheOf(Blocks) /\ f \in CacheOf(TimeFrames)
            /\ b[m] = Never(Blocks) /\ f[m] = Never(TimeFrames)
            /\ \A x \in MarketIds \ {m} :
                 /\ b[x] = MarketIdsPerCloseBlock[x]
                 /\ f[x] = MarketIdsPerCloseTimeFrame[x]
<1>1. Markets[m].period \in MarketPeriod
  BY Zenon DEF ScheduleInv, TypeOK, Open, MarketRecord
<1>2. /\ MarketIdsPerCloseBlock \in CacheOf(Blocks)
      /\ MarketIdsPerCloseTimeFrame \in CacheOf(TimeFrames)
      /\ MarketIdsPerCloseBlock[m] = CloseEntries("Block", Markets[m], Blocks)
      /\ MarketIdsPerCloseTimeFrame[m]
           = CloseEntries("Timestamp", Markets[m], TimeFrames)
  BY DEF ScheduleInv, TypeOK, CloseScheduled
<1> QED BY <1>1, <1>2, SlotInRange, ClearEntry

LEMMA UnscheduleStep ==
  ASSUME ScheduleInv, NEW m \in MarketIds, Open(Markets[m]), Unschedule(m),
         NEW mk, ~Open(mk)
  PROVE  ScheduledAs(m, mk)
BY ClearBoth DEF Unschedule, ScheduledAs, CloseEntries

(* insert_auto_close puts a market that is in neither cache in its slot.    *)
LEMMA InsertBoth ==
  ASSUME NEW b \in CacheOf(Blocks), NEW f \in CacheOf(TimeFrames),
         NEW m \in MarketIds, NEW mk, Open(mk), mk.period \in MarketPeriod,
         b[m] = Never(Blocks), f[m] = Never(TimeFrames)
  PROVE  LET b2 == insert_auto_close("Block", b, m, mk.period)
             f2 == insert_auto_close("Timestamp", f, m, mk.period)
         IN /\ b2 \in CacheOf(Blocks) /\ f2 \in CacheOf(TimeFrames)
            /\ b2[m] = CloseEntries("Block", mk, Blocks)
            /\ f2[m] = CloseEntries("Timestamp", mk, TimeFrames)
            /\ \A x \in MarketIds \ {m} : b2[x] = b[x] /\ f2[x] = f[x]
<1>1. /\ mk.period.kind = "Block" => CloseSlot(mk.period) \in Blocks
      /\ mk.period.kind = "Timestamp" => CloseSlot(mk.period) \in TimeFrames
  BY SlotInRange
<1> DEFINE b2 == insert_auto_close("Block", b, m, mk.period)
           f2 == insert_auto_close("Timestamp", f, m, mk.period)
<1>2. /\ b2 \in CacheOf(Blocks)
      /\ b2[m] = CloseEntries("Block", mk, Blocks)
      /\ \A x \in MarketIds \ {m} : b2[x] = b[x]
  BY <1>1, PushType, PushOnce DEF insert_auto_close, CloseEntries
<1>3. /\ f2 \in CacheOf(TimeFrames)
      /\ f2[m] = CloseEntries("Timestamp", mk, TimeFrames)
      /\ \A x \in MarketIds \ {m} : f2[x] = f[x]
  BY <1>1, PushType, PushOnce DEF insert_auto_close, CloseEntries
<1> QED BY <1>2, <1>3

LEMMA RescheduleStep ==
  ASSUME ScheduleInv, NEW m \in MarketIds, Open(Markets[m]),
         NEW period \in MarketPeriod, Reschedule(m, period),
         NEW mk, Open(mk), mk.period = period
  PROVE  ScheduledAs(m, mk)
<1> DEFINE b == clear_auto_close("Block", MarketIdsPerCloseBlock, m,
                                 Markets[m].period)
           f == clear_auto_close("Timestamp", MarketIdsPerCloseTimeFrame,
                                 m, Markets[m].period)
<1>1. /\ b \in CacheOf(Blocks) /\ f \in CacheOf(TimeFrames)
      /\ b[m] = Never(Blocks) /\ f[m] = Never(TimeFrames)
      /\ \A x \in MarketIds \ {m} :
           /\ b[x] = MarketIdsPerCloseBlock[x]
           /\ f[x] = MarketIdsPerCloseTimeFrame[x]
  BY ClearBoth
<1>2. /\ MarketIdsPerCloseBlock' = insert_auto_close("Block", b, m, mk.period)
      /\ MarketIdsPerCloseTimeFrame'
           = insert_auto_close("Timestamp", f, m, mk.period)
  BY DEF Reschedule
<1> HIDE DEF b, f
<1> QED BY <1>1, <1>2, InsertBoth DEF ScheduledAs
=============================================================================
