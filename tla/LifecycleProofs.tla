--------------------------- MODULE LifecycleProofs ---------------------------
(***************************************************************************)
(* A new block preserves the invariant of MarketLifecycle, and the theorems. *)
(***************************************************************************)
EXTENDS DisputeProofs

-----------------------------------------------------------------------------
(* on_initialize *)

(* An open market closes in block n exactly when its slot is looked at.     *)
LEMMA ClosesInItsSlot ==
  ASSUME ScheduleInv, NEW m \in MarketIds, NEW n \in Blocks,
         DueTimeFrames \subseteq TimeFrames
  PROVE  ClosesAt(m, n) <=>
           /\ Open(Markets[m])
           /\ LET period == Markets[m].period
              IN \/ period.kind = "Block" /\ period.end = n
                 \/ /\ period.kind = "Timestamp"
                    /\ CloseSlot(period) \in DueTimeFrames
<1> DEFINE period == Markets[m].period
<1>1. /\ MarketIdsPerCloseBlock[m] = CloseEntries("Block", Markets[m], Blocks)
      /\ MarketIdsPerCloseTimeFrame[m]
           = CloseEntries("Timestamp", Markets[m], TimeFrames)
  BY DEF ScheduleInv, CloseScheduled
<1>2. CASE ~Open(Markets[m])
  BY <1>1, <1>2 DEF CloseEntries, Never, ClosesAt
<1>3. CASE Open(Markets[m])
  <2>1. period \in MarketPeriod
    BY <1>3 DEF ScheduleInv, TypeOK, Open, MarketRecord
  <2>2. /\ period.kind \in {"Block", "Timestamp"}
        /\ period.kind = "Timestamp" => CloseSlot(period) \in TimeFrames
    BY <2>1, SlotInRange
  <2>3. CASE period.kind = "Block"
    <3>1. /\ MarketIdsPerCloseBlock[m] = Once(Blocks, period.end)
          /\ MarketIdsPerCloseTimeFrame[m] = Never(TimeFrames)
      BY <1>1, <1>3, <2>3 DEF CloseEntries, CloseSlot
    <3> QED BY <1>3, <2>3, <3>1 DEF ClosesAt, Once, Never
  <2>4. CASE period.kind = "Timestamp"
    <3>1. /\ MarketIdsPerCloseBlock[m] = Never(Blocks)
          /\ MarketIdsPerCloseTimeFrame[m]
               = Once(TimeFrames, CloseSlot(period))
      BY <1>1, <1>3, <2>4 DEF CloseEntries
    <3> QED BY <1>3, <2>4, <3>1 DEF ClosesAt, Once, Never
  <2> QED BY <2>2, <2>3, <2>4
<1> QED BY <1>2, <1>3

(* The managers leave a market that closes in no slot, and any other in the *)
(* slot it had, which still lies ahead or was forgone.                      *)
LEMMA ProcessedMarket ==
  ASSUME ScheduleInv, NEW m \in MarketIds, NEW t \in Moments,
         calculate_time_frame_of_moment(timestamp)
           <= calculate_time_frame_of_moment(t),
         block + 1 \in Blocks, NEW z, Follows(m, block + 1, z), z.ok
  PROVE  /\ PeriodFitsEarlyClose(z.mk)
         /\ RemoveSlot(MarketIdsPerCloseBlock, {block + 1})[m]
              = CloseEntries("Block", z.mk, Blocks)
         /\ RemoveSlot(MarketIdsPerCloseTimeFrame, DueTimeFrames)[m]
              = CloseEntries("Timestamp", z.mk, TimeFrames)
         /\ Open(z.mk) =>
              \/ EndForgone(z.mk)
              \/ IF z.mk.period.kind = "Block"
                 THEN z.mk.period.end > block + 1
                 ELSE CloseSlot(z.mk.period) > CurrentTimeFrame
<1> DEFINE mk == Markets[m]
           period == Markets[m].period
           n == block + 1
           OldBlock == CloseEntries("Block", mk, Blocks)
           OldFrame == CloseEntries("Timestamp", mk, TimeFrames)
<1>1. /\ DueTimeFrames \subseteq TimeFrames
      /\ \A f \in TimeFrames : LastTimeFrame # None /\ f > LastTimeFrame =>
           (f \in DueTimeFrames <=> f <= CurrentTimeFrame)
      /\ CurrentTimeFrame \in TimeFrames
  BY DueFrames
<1>2. /\ Open(z.mk) <=> Open(mk) /\ ~ClosesAt(m, n)
      /\ Open(z.mk) => z.mk.period = period /\ z.mk.early_close = mk.early_close
  BY DEF Follows
<1>3. ClosesAt(m, n) <=>
        /\ Open(mk)
        /\ \/ period.kind = "Block" /\ period.end = n
           \/ period.kind = "Timestamp" /\ CloseSlot(period) \in DueTimeFrames
  BY <1>1, ClosesInItsSlot
<1>4. RemoveSlot(MarketIdsPerCloseBlock, {n})[m]
        = [s \in Blocks |-> IF s \in {n} THEN 0 ELSE OldBlock[s]]
  <2>1. /\ MarketIdsPerCloseBlock \in CacheOf(Blocks)
        /\ MarketIdsPerCloseBlock[m] = OldBlock
    BY DEF ScheduleInv, TypeOK, CloseScheduled
  <2> HIDE DEF OldBlock
  <2> QED BY <2>1, RemoveSlotType
<1>5. RemoveSlot(MarketIdsPerCloseTimeFrame, DueTimeFrames)[m]
        = [s \in TimeFrames |-> IF s \in DueTimeFrames THEN 0 ELSE OldFrame[s]]
  <2>1. /\ MarketIdsPerCloseTimeFrame \in CacheOf(TimeFrames)
        /\ MarketIdsPerCloseTimeFrame[m] = OldFrame
    BY DEF ScheduleInv, TypeOK, CloseScheduled
  <2> HIDE DEF OldFrame
  <2> QED BY <2>1, RemoveSlotType
<1>6. PeriodFitsEarlyClose(mk) /\ EndAhead(mk)
  BY DEF ScheduleInv, EarlyCloseConsistent, CloseNotMissed
<1>7. PeriodFitsEarlyClose(z.mk)
  BY <1>2, <1>6 DEF PeriodFitsEarlyClose
<1>8. Open(z.mk) /\ EndForgone(mk) => EndForgone(z.mk)
  BY <1>2 DEF EndForgone
<1>9. CASE ~Open(mk)
  <2>1. OldBlock = Never(Blocks) /\ OldFrame = Never(TimeFrames)
    BY <1>9 DEF CloseEntries
  <2>2. /\ CloseEntries("Block", z.mk, Blocks) = Never(Blocks)
        /\ CloseEntries("Timestamp", z.mk, TimeFrames) = Never(TimeFrames)
    BY <1>2, <1>9 DEF CloseEntries
  <2> QED BY <1>2, <1>4, <1>5, <1>7, <1>9, <2>1, <2>2, RemoveFromNever
<1>10. CASE Open(mk)
  <2>1. period \in MarketPeriod
    BY <1>10 DEF ScheduleInv, TypeOK, Open, MarketRecord
  <2>2. /\ period.kind \in {"Block", "Timestamp"}
        /\ period.kind = "Block" => CloseSlot(period) \in Blocks
        /\ period.kind = "Timestamp" => CloseSlot(period) \in TimeFrames
    BY <2>1, SlotInRange
  <2>3. CASE period.kind = "Block"
    <3>1. CloseSlot(period) = period.end
      BY <2>3 DEF CloseSlot
    <3>2. /\ OldBlock = Once(Blocks, period.end)
          /\ OldFrame = Never(TimeFrames)
      BY <1>10, <2>3, <3>1 DEF CloseEntries
    <3>3. Open(z.mk) <=> period.end # n
      BY <1>2, <1>3, <1>10, <2>3
    <3>4. /\ CloseEntries("Block", z.mk, Blocks)
               = IF period.end \in {n} THEN Never(Blocks)
                 ELSE Once(Blocks, period.end)
          /\ CloseEntries("Timestamp", z.mk, TimeFrames) = Never(TimeFrames)
      BY <1>2, <2>3, <3>1, <3>3 DEF CloseEntries
    <3>5. Open(z.mk) => EndForgone(z.mk) \/ z.mk.period.end > n
      <4>1. block \in Nat /\ period.end \in Nat
        BY <2>2, <2>3, <3>1 DEF ScheduleInv, TypeOK, Blocks
      <4>2. period.end > block \/ EndForgone(mk)
        BY <1>6, <1>10, <2>3 DEF EndAhead, Ahead
      <4>3. period.end # n /\ period.end > block => period.end > n
        BY <4>1
      <4> HIDE DEF n
      <4>4. Open(z.mk) => EndForgone(mk) \/ period.end > n
        BY <3>3, <4>2, <4>3, Zenon
      <4>5. Open(z.mk) => z.mk.period = period
        BY <1>2
      <4> HIDE DEF period
      <4> QED BY <1>8, <4>4, <4>5
    <3>6. RemoveSlot(MarketIdsPerCloseBlock, {n})[m]
            = CloseEntries("Block", z.mk, Blocks)
      <4>1. period.end \in Blocks
        BY <2>2, <2>3, <3>1
      <4>2. [s \in Blocks |-> IF s \in {n} THEN 0
                              ELSE Once(Blocks, period.end)[s]]
              = IF period.end \in {n} THEN Never(Blocks)
                ELSE Once(Blocks, period.end)
        BY <4>1, RemoveOneFromOnce, Zenon
      <4> QED BY <1>4, <3>2, <3>4, <4>2
    <3>7. RemoveSlot(MarketIdsPerCloseTimeFrame, DueTimeFrames)[m]
            = CloseEntries("Timestamp", z.mk, TimeFrames)
      BY <1>5, <3>2, <3>4, RemoveFromNever
    <3>8. Open(z.mk) => z.mk.period.kind = "Block"
      BY <1>2, <2>3
    <3> QED BY <1>7, <3>5, <3>6, <3>7, <3>8
  <2>4. CASE period.kind = "Timestamp"
    <3> DEFINE slot == CloseSlot(period)
    <3>1. slot \in TimeFrames
      BY <2>2, <2>4
    <3>2. OldBlock = Never(Blocks) /\ OldFrame = Once(TimeFrames, slot)
      BY <1>10, <2>4 DEF CloseEntries
    <3>3. Open(z.mk) <=> slot \notin DueTimeFrames
      BY <1>2, <1>3, <1>10, <2>4
    <3>4. /\ CloseEntries("Block", z.mk, Blocks) = Never(Blocks)
          /\ CloseEntries("Timestamp", z.mk, TimeFrames)
               = IF slot \in DueTimeFrames THEN Never(TimeFrames)
                 ELSE Once(TimeFrames, slot)
      BY <1>2, <2>4, <3>3 DEF CloseEntries
    <3>5. Open(z.mk) => \/ EndForgone(z.mk)
                        \/ CloseSlot(z.mk.period) > CurrentTimeFrame
      <4>1. slot \in Nat /\ CurrentTimeFrame \in Nat
        BY <1>1, <3>1 DEF TimeFrames
      <4>2. EndForgone(mk) \/ (LastTimeFrame # None /\ slot > LastTimeFrame)
        BY <1>6, <1>10, <2>4 DEF EndAhead, Ahead
      <4>3. CASE LastTimeFrame # None /\ slot > LastTimeFrame
        BY <1>1, <1>2, <3>1, <3>3, <4>1, <4>3
      <4> QED BY <1>8, <4>2, <4>3
    <3> HIDE DEF slot
    <3> QED BY <1>2, <1>4, <1>5, <1>7, <2>4, <3>1, <3>2, <3>4, <3>5,
               RemoveFromNever, RemoveFromOnce, SMTT(30)
  <2> QED BY <2>2, <2>3, <2>4
<1> QED BY <1>9, <1>10

(* The first pass succeeds: there is nothing to close or to resolve.        *)
LEMMA FirstPassSucceeds ==
  ASSUME ScheduleInv, block = 0, NEW m \in MarketIds, NEW n \in Blocks,
         NEW verdict, DueTimeFrames \subseteq TimeFrames
  PROVE  Processed(m, n, verdict).ok
<1>1. /\ Markets[m] = None
      /\ MarketIdsPerReportBlock[m][n] = 0
      /\ MarketIdsPerDisputeBlock[m][n] = 0
  BY DEF ScheduleInv, ClockInv, Never
<1>2. ~ClosesAt(m, n)
  BY <1>1, ClosesInItsSlot DEF Open
<1>3. AfterClose(ContextOf(m), m, n) = ContextOf(m)
  BY <1>2 DEF AfterClose
<1>4. AfterReport(ContextOf(m), m, n, verdict) = ContextOf(m)
  BY <1>1 DEF AfterReport
<1>5. AfterDispute(ContextOf(m), m, n, verdict) = ContextOf(m)
  BY <1>1 DEF AfterDispute
<1>6. ContextOf(m).ok
  BY ContextOfType
<1> QED BY <1>3, <1>4, <1>5, <1>6 DEF Processed

LEMMA NewBlockStep ==
  ASSUME ScheduleInv, NEW t, NEW verdicts \in [MarketIds -> Outcomes],
         NewBlock(t, verdicts)
  PROVE  ScheduleInv'
<1> DEFINE n == block + 1
           after == [m \in MarketIds |-> Processed(m, n, verdicts[m])]
           now == calculate_time_frame_of_moment(timestamp)
           next == calculate_time_frame_of_moment(t)
<1>1. /\ block < Horizon /\ t \in Moments
      /\ timestamp = 0 \/ timestamp + MinimumPeriod <= t
      /\ shared_frames' =
           IF calculate_time_frame_of_moment(t)
                = calculate_time_frame_of_moment(timestamp)
           THEN shared_frames \cup {calculate_time_frame_of_moment(t)}
           ELSE shared_frames
      /\ block' = n /\ timestamp' = t
      /\ RequestBlock' = IF RequestBlock <= n THEN n + RequestInterval
                         ELSE RequestBlock
      /\ MarketCounter' = MarketCounter
  BY DEF NewBlock
<1>2. on_initialize(n, verdicts)
  BY DEF NewBlock
<1>3. block \in Nat /\ n \in Blocks /\ n \in Nat /\ n > 0
  BY <1>1, MarketAssumption DEF ScheduleInv, TypeOK, Blocks
<1>4. now \in Nat /\ next \in Nat /\ now <= next
  <2>1. timestamp \in Nat /\ t \in Nat /\ timestamp <= t
    BY <1>1, PredictionMarketsAssumption DEF ScheduleInv, TypeOK, Moments
  <2> QED BY <2>1, Frames
<1>5. RequestBlock' \in Nat
  BY <1>1, <1>3, PredictionMarketsAssumption DEF ScheduleInv, TypeOK
<1>6. /\ DueTimeFrames \subseteq TimeFrames /\ CurrentTimeFrame \in TimeFrames
      /\ CurrentTimeFrame = now + 1
  BY <1>1, <1>4, DueFrames
<1>7. /\ shared_frames' \subseteq TimeFrames
      /\ shared_frames \subseteq shared_frames'
      /\ now = next => next \in shared_frames'
  <2>1. next \in TimeFrames
    <3>1. t <= MaxMoment /\ t \in Nat /\ MaxMoment \in Nat
      BY <1>1, MarketAssumption DEF Moments
    <3>2. /\ calculate_time_frame_of_moment(MaxMoment) \in Nat
          /\ next <= calculate_time_frame_of_moment(MaxMoment)
      BY <3>1, Frames
    <3> QED BY <1>4, <3>2 DEF TimeFrames
  <2> QED BY <1>1, <2>1 DEF ScheduleInv, TypeOK
<1>8. \A m \in MarketIds : Follows(m, n, after[m])
  BY <1>3, ProcessedFollows
<1>9. CASE \A m \in MarketIds : after[m].ok
  <2>1. Markets' = [m \in MarketIds |-> after[m].mk]
    BY <1>2, <1>9, ZenonT(30) DEF on_initialize
  <2>2. /\ Reserves' = [m \in MarketIds |-> after[m].reserve]
        /\ Mechanisms' = [m \in MarketIds |-> after[m].dm]
    BY <1>2, <1>9, ZenonT(30) DEF on_initialize
  <2>3. /\ logic_errors'
             = logic_errors \cup UNION {after[m].warned : m \in MarketIds}
        /\ MarketIdsForEdit' = {m \in MarketIdsForEdit : after[m].mk # None}
    BY <1>2, <1>9, ZenonT(30) DEF on_initialize
  <2>4. /\ MarketIdsPerCloseBlock' = RemoveSlot(MarketIdsPerCloseBlock, {n})
        /\ MarketIdsPerCloseTimeFrame'
             = RemoveSlot(MarketIdsPerCloseTimeFrame, DueTimeFrames)
        /\ MarketIdsPerReportBlock' = RemoveSlot(MarketIdsPerReportBlock, {n})
        /\ MarketIdsPerDisputeBlock'
             = RemoveSlot(MarketIdsPerDisputeBlock, {n})
    BY <1>2, <1>9, ZenonT(30) DEF on_initialize
  <2>5. LastTimeFrame' = CurrentTimeFrame /\ rolled_back' = rolled_back
    BY <1>2, <1>9, ZenonT(30) DEF on_initialize
  <2> HIDE DEF after
  <2>6. \A m \in MarketIds : after[m] \in ResultType
    BY <1>8 DEF Follows
  <2>7. TypeOK'
    <3>1. Markets' \in [MarketIds -> MarketRecord \cup {None}]
      BY <2>1, <2>6 DEF ResultType
    <3>2. /\ Reserves' \in [MarketIds -> Reserve]
          /\ Mechanisms' \in [MarketIds -> MechanismState]
      BY <2>2, <2>6 DEF ResultType
    <3>3. logic_errors' \subseteq LogicError
      <4>1. \A m \in MarketIds : after[m].warned \subseteq LogicError
        BY <2>6 DEF ResultType
      <4> QED BY <2>3, <4>1, Zenon DEF ScheduleInv, TypeOK
    <3>4. /\ MarketIdsPerCloseBlock' \in CacheOf(Blocks)
          /\ MarketIdsPerCloseTimeFrame' \in CacheOf(TimeFrames)
          /\ MarketIdsPerReportBlock' \in CacheOf(Blocks)
          /\ MarketIdsPerDisputeBlock' \in CacheOf(Blocks)
      BY <2>4, RemoveSlotType, Zenon DEF ScheduleInv, TypeOK
    <3>5. MarketIdsForEdit' \subseteq MarketIds /\ rolled_back' \subseteq Blocks
      BY <2>3, <2>5, Zenon DEF ScheduleInv, TypeOK
    <3>6. MarketCounter' \in Nat
      BY <1>1 DEF ScheduleInv, TypeOK
    <3>7. /\ block' \in Blocks /\ timestamp' \in Moments
          /\ LastTimeFrame' \in TimeFrames \cup {None}
          /\ shared_frames' \subseteq TimeFrames
      BY <1>1, <1>3, <1>6, <1>7, <2>5
    <3> QED BY <1>5, <3>1, <3>2, <3>3, <3>4, <3>5, <3>6, <3>7 DEF TypeOK
  <2>8. AllUnwrappable'
    <3>1. \A m \in MarketIds : Markets'[m] # None => Unwrappable(Markets'[m])
      BY <1>8, <1>9, <2>1 DEF Follows
    <3> QED BY <3>1, SMTT(30) DEF AllUnwrappable, Live, Unwrappable
  <2>9. UnusedIds'
    <3>1. \A m \in MarketIds : Markets[m] = None => Markets'[m] = None
      BY <1>8, <1>9, <2>1, SMTT(30) DEF Follows
    <3> QED BY <1>1, <3>1, SMTT(30) DEF ScheduleInv, UnusedIds
  <2>10. ClockInv'
    <3>1. LastTimeFrame' # None
      <4>1. CurrentTimeFrame \in Nat
        BY <1>6, SMTT(30) DEF TimeFrames
      <4> QED BY <2>5, <4>1, MarketAssumption
    <3>2. \/ LastTimeFrame' <= next
          \/ LastTimeFrame' = next + 1 /\ next \in shared_frames'
      BY <1>6, <1>4, <1>7, <2>5
    <3> QED BY <1>1, <1>3, <3>1, <3>2 DEF ClockInv
  <2>11. \A m \in MarketIds :
          /\ PeriodFitsEarlyClose(Markets'[m])
          /\ MarketIdsPerCloseBlock'[m]
               = CloseEntries("Block", Markets'[m], Blocks)
          /\ MarketIdsPerCloseTimeFrame'[m]
               = CloseEntries("Timestamp", Markets'[m], TimeFrames)
          /\ Open(Markets'[m]) =>
               \/ EndForgone(Markets'[m])
               \/ IF Markets'[m].period.kind = "Block"
                  THEN Markets'[m].period.end > n
                  ELSE CloseSlot(Markets'[m].period) > CurrentTimeFrame
    <3> TAKE m \in MarketIds
    <3>1. Follows(m, n, after[m]) /\ after[m].ok /\ Markets'[m] = after[m].mk
      BY <1>8, <1>9, <2>1, Zenon
    <3> QED BY <1>1, <1>3, <1>4, <2>4, <2>5, <3>1, ProcessedMarket, Zenon
  <2>12. CloseScheduled' /\ EarlyCloseConsistent'
    BY <2>11, SMTT(30) DEF CloseScheduled, EarlyCloseConsistent
  <2>13. CloseNotMissed'
    <3>1. LastTimeFrame' # None
      BY <1>1, <1>3, <2>10 DEF ClockInv
    <3> SUFFICES ASSUME NEW m \in MarketIds, Open(Markets'[m])
                 PROVE  EndAhead(Markets[m])'
      BY DEF CloseNotMissed, EndAhead
    <3>2. CASE EndForgone(Markets'[m])
      BY <1>7, <2>5, <3>2 DEF EndAhead, EndForgone, Forgone
    <3>3. CASE IF Markets'[m].period.kind = "Block"
               THEN Markets'[m].period.end > n
               ELSE CloseSlot(Markets'[m].period) > CurrentTimeFrame
      BY <1>1, <2>5, <3>1, <3>3 DEF EndAhead, Ahead
    <3> QED BY <2>11, <3>2, <3>3
  <2> QED BY <2>7, <2>8, <2>9, <2>10, <2>12, <2>13, Zenon DEF ScheduleInv
<1>10. CASE ~ \A m \in MarketIds : after[m].ok
  <2>1. /\ rolled_back' = rolled_back \cup {n}
        /\ UNCHANGED <<market_vars, MarketIdsForEdit, close_vars, resolve_vars,
                       LastTimeFrame>>
    BY <1>2, <1>10 DEF on_initialize
  <2>2. block # 0
    BY <1>3, <1>6, <1>10, FirstPassSucceeds
  <2> HIDE DEF after
  <2>3. UNCHANGED <<Markets, Reserves, Mechanisms, logic_errors, MarketCounter,
                    MarketIdsForEdit, MarketIdsPerCloseBlock,
                    MarketIdsPerCloseTimeFrame, MarketIdsPerReportBlock,
                    MarketIdsPerDisputeBlock, LastTimeFrame>>
    BY <1>1, <2>1 DEF market_vars, close_vars, resolve_vars
  <2>4. TypeOK'
    BY <1>1, <1>3, <1>5, <1>7, <2>1, <2>3 DEF ScheduleInv, TypeOK
  <2>5. AllUnwrappable' /\ UnusedIds'
    BY <2>3 DEF ScheduleInv, AllUnwrappable, UnusedIds, Live
  <2>6. ClockInv'
    <3>1. LastTimeFrame # None
      BY <1>3, <2>2 DEF ScheduleInv, ClockInv
    <3>2. \/ LastTimeFrame <= now
          \/ LastTimeFrame = now + 1 /\ now \in shared_frames
      BY <3>1 DEF ScheduleInv, ClockInv
    <3>3. LastTimeFrame \in Nat
      BY <3>1 DEF ScheduleInv, TypeOK, TimeFrames
    <3>4. \/ LastTimeFrame <= next
          \/ LastTimeFrame = next + 1 /\ next \in shared_frames'
      BY <1>4, <1>7, <3>2, <3>3
    <3> QED BY <1>1, <1>3, <2>3, <3>1, <3>4 DEF ClockInv
  <2>7. CloseScheduled' /\ EarlyCloseConsistent'
    BY <2>3 DEF ScheduleInv, CloseScheduled, EarlyCloseConsistent
  <2>8. CloseNotMissed'
    <3> SUFFICES ASSUME NEW m \in MarketIds, Open(Markets[m])
                 PROVE  EndAhead(Markets[m])'
      BY <2>3 DEF CloseNotMissed, EndAhead
    <3>1. EndAhead(Markets[m])
      BY DEF ScheduleInv, CloseNotMissed
    <3>2. rolled_back \subseteq rolled_back' /\ n \in rolled_back'
      BY <2>1
    <3>3. CASE EndForgone(Markets[m])
      BY <1>7, <2>3, <3>2, <3>3 DEF EndAhead, EndForgone, Forgone
    <3>4. CASE Ahead(Markets[m].period) /\ Markets[m].period.kind = "Block"
      <4>1. Markets[m].period.end \in Nat
        <5>1. Markets[m].period \in MarketPeriod
          BY DEF ScheduleInv, TypeOK, Open, MarketRecord
        <5> QED BY <3>4, <5>1, SlotInRange, SMTT(30) DEF CloseSlot, Blocks
      <4>2. Markets[m].period.end > n \/ Markets[m].period.end = n
        BY <1>3, <3>4, <4>1 DEF Ahead
      <4> QED BY <1>1, <2>3, <3>2, <3>4, <4>2
              DEF EndAhead, Ahead, EndForgone, Forgone
    <3>5. CASE Ahead(Markets[m].period) /\ Markets[m].period.kind # "Block"
      BY <2>3, <3>5 DEF EndAhead, Ahead
    <3> QED BY <3>1, <3>3, <3>4, <3>5 DEF EndAhead
  <2> QED BY <2>4, <2>5, <2>6, <2>7, <2>8, SMTT(30) DEF ScheduleInv
<1> QED BY <1>9, <1>10

-----------------------------------------------------------------------------
(* The invariant *)

LEMMA InitEstablishes == Init => ScheduleInv
<1> SUFFICES ASSUME Init PROVE ScheduleInv
  OBVIOUS
<1>1. 0 \in Blocks /\ 0 \in Moments
  BY MarketAssumption DEF Blocks, Moments
<1>2. NoReserve \in Reserve
  BY DEF NoReserve, Reserve, Location
<1>3. NoMechanismState \in MechanismState
  <2>1. << >> \in Seq(MarketDispute)
    OBVIOUS
  <2> QED BY <2>1 DEF NoMechanismState, MechanismState
<1>4. EmptyCache(Blocks) \in CacheOf(Blocks)
  BY DEF EmptyCache, CacheOf
<1>5. EmptyCache(TimeFrames) \in CacheOf(TimeFrames)
  BY DEF EmptyCache, CacheOf
<1>6. \A m \in MarketIds : /\ EmptyCache(Blocks)[m] = Never(Blocks)
                           /\ EmptyCache(TimeFrames)[m] = Never(TimeFrames)
  BY DEF EmptyCache, Never
<1>7. TypeOK
  BY <1>1, <1>2, <1>3, <1>4, <1>5 DEF Init, TypeOK
<1>8. \A m \in MarketIds : Markets[m] = None /\ ~Open(Markets[m])
  BY DEF Init, Open
<1>9. AllUnwrappable /\ UnusedIds /\ EarlyCloseConsistent /\ CloseNotMissed
  BY <1>8 DEF AllUnwrappable, Live, UnusedIds, EarlyCloseConsistent,
              PeriodFitsEarlyClose, CloseNotMissed, EndAhead
<1>10. ClockInv
  BY <1>6, <1>8, SMTT(30) DEF Init, ClockInv
<1>11. CloseScheduled
  BY <1>6, <1>8 DEF Init, CloseScheduled, CloseEntries
<1> QED BY <1>7, <1>9, <1>10, <1>11 DEF ScheduleInv

LEMMA StutterPreserves == ScheduleInv /\ UNCHANGED vars => ScheduleInv'
<1> SUFFICES ASSUME ScheduleInv, UNCHANGED vars PROVE ScheduleInv'
  OBVIOUS
<1>1. UNCHANGED <<Markets, Reserves, Mechanisms, logic_errors, MarketCounter,
                  MarketIdsForEdit, MarketIdsPerCloseBlock,
                  MarketIdsPerCloseTimeFrame, MarketIdsPerReportBlock,
                  MarketIdsPerDisputeBlock, LastTimeFrame, RequestBlock, block,
                  timestamp, rolled_back, shared_frames>>
  BY DEF vars, market_vars, close_vars, resolve_vars, clock_vars
<1>2. TypeOK'
  BY <1>1 DEF ScheduleInv, TypeOK
<1>3. AllUnwrappable' /\ UnusedIds' /\ ClockInv'
  BY <1>1, SMTT(30) DEF ScheduleInv, AllUnwrappable, UnusedIds, Live, ClockInv
<1>4. CloseScheduled' /\ EarlyCloseConsistent'
  BY <1>1, Zenon DEF ScheduleInv, CloseScheduled, EarlyCloseConsistent
<1>5. CloseNotMissed'
  BY <1>1, Zenon DEF ScheduleInv, CloseNotMissed, EndAhead, Ahead, Forgone, EndForgone
<1> QED BY <1>2, <1>3, <1>4, <1>5 DEF ScheduleInv

LEMMA NextPreserves == ScheduleInv /\ [Next]_vars => ScheduleInv'
<1> SUFFICES ASSUME ScheduleInv, [Next]_vars PROVE ScheduleInv'
  OBVIOUS
<1>1. CASE NextBlock
  BY <1>1, NewBlockStep DEF NextBlock
<1>2. CASE CreateCall
  BY <1>2, CreateStep, PredictionMarketsAssumption DEF CreateCall
<1>3. ASSUME NEW m \in MarketIds, MarketCall(m) PROVE ScheduleInv'
  <2>1. CASE approve_market(m)
    BY <2>1, ApproveStep
  <2>2. CASE request_edit(m)
    BY <2>2, RequestEditStep
  <2>3. CASE \E o \in Accounts, p \in PeriodInputs, d \in DeadlineInputs,
                mechanism \in MechanismInputs :
               edit_market(m, o, p, d, mechanism)
    BY <2>3, EditStep, PredictionMarketsAssumption
  <2>4. CASE reject_market(m)
    BY <2>4, RejectStep
  <2>5. CASE admin_move_market_to_closed(m) \/ close_trusted_market(m)
    BY <2>5, CloseNowStep DEF admin_move_market_to_closed, close_trusted_market
  <2>6. CASE schedule_early_close_as_market_creator(m)
    BY <2>6, AsMarketCreatorStep
  <2>7. CASE schedule_early_close_as_authority(m)
    BY <2>7, AsAuthorityStep
  <2>8. CASE \E who \in Accounts : dispute_early_close(m, who)
    BY <2>8, DisputeEarlyStep
  <2>9. CASE reject_early_close(m)
    BY <2>9, RejectEarlyStep
  <2> QED BY <1>3, <2>1, <2>2, <2>3, <2>4, <2>5, <2>6, <2>7, <2>8, <2>9
          DEF MarketCall
<1>4. ASSUME NEW m \in MarketIds, DisputeCall(m) PROVE ScheduleInv'
  BY <1>4, ReportStep, DisputeStep, AdminResolveStep, StartGlobalDisputeStep,
     AuthorizeStep, SuggestStep, AppealStep DEF DisputeCall
<1>5. CASE EndOfRun
  BY <1>5, StutterPreserves DEF EndOfRun
<1>6. CASE UNCHANGED vars
  BY <1>6, StutterPreserves
<1> QED BY <1>1, <1>2, <1>3, <1>4, <1>5, <1>6 DEF Next

(* ScheduleInv holds in every state, for all constants that satisfy the     *)
(* assumptions.                                                             *)
THEOREM Invariance == Spec => []ScheduleInv
BY InitEstablishes, NextPreserves, PTL DEF Spec

(* Every storage item of the lifecycle keeps its declared type.             *)
THEOREM TypeCorrectness == Spec => []TypeOK
<1>1. ScheduleInv => TypeOK
  BY DEF ScheduleInv
<1> QED BY <1>1, Invariance, PTL

(* Proposed and active markets are in the close caches once, at the end of  *)
(* their period; other markets are not in them.                             *)
THEOREM CloseScheduling == Spec => []CloseScheduled
<1>1. ScheduleInv => CloseScheduled
  BY DEF ScheduleInv
<1> QED BY <1>1, Invariance, PTL

(* on_initialize never passes over the end of an open market, unless it was *)
(* rolled back in a block up to that end.                                   *)
THEOREM NoMissedClose == Spec => []CloseNotMissed
<1>1. ScheduleInv => CloseNotMissed
  BY DEF ScheduleInv
<1> QED BY <1>1, Invariance, PTL

(* An open market's period is the one its early-close state says, and early *)
(* closing only ever brings the end forward.                                *)
THEOREM EarlyCloseConsistency == Spec => []EarlyCloseConsistent
<1>1. ScheduleInv => EarlyCloseConsistent
  BY DEF ScheduleInv
<1> QED BY <1>1, Invariance, PTL
=============================================================================
