-------------------------- MODULE PredictionMarkets --------------------------
(***************************************************************************)
(* The market lifecycle of zrml/prediction-markets/src/lib.rs: every       *)
(* dispatchable that changes a market's status, period, bonds or schedule, *)
(* and on_initialize, which closes and resolves the markets that are due.  *)
(*                                                                         *)
(* Every dispatchable is transactional: a call that returns Err changes    *)
(* nothing, so each is an action whose guard is that no step of it fails.  *)
(***************************************************************************)
EXTENDS DisputeMechanisms, FiniteSetsExt

CONSTANTS
  CacheSize,                            \* capacity of one slot of a cache
  MinOracleDuration, MaxOracleDuration,
  MinDisputeDuration, MaxDisputeDuration,
  MaxGracePeriod,
  MaxMarketLifetime,
  CloseEarlyBlockPeriod, CloseEarlyTimeFramePeriod,
  CloseEarlyProtectionBlockPeriod, CloseEarlyProtectionTimeFramePeriod,
  RequestInterval,                      \* court: distance of request blocks
  Epoch,                                \* the time at which the chain starts
  MinimumPeriod,                        \* pallet-timestamp: between two blocks
  TimeSteps,                            \* time between two blocks
  PeriodInputs, DeadlineInputs, CreationInputs, MechanismInputs,
                                        \* what callers submit
  StakeInputs                           \* court: may the stake suffice?

ASSUME PredictionMarketsAssumption ==
  /\ CacheSize \in Nat \ {0}
  /\ MinOracleDuration \in Nat /\ MaxOracleDuration \in Nat
  /\ MinDisputeDuration \in Nat \ {0} /\ MaxDisputeDuration \in Nat
  /\ MaxGracePeriod \in Nat
  /\ MaxMarketLifetime \in Nat
  /\ CloseEarlyBlockPeriod \in Nat \ {0}
  /\ CloseEarlyProtectionBlockPeriod \in Nat \ {0}
  /\ CloseEarlyTimeFramePeriod \in Nat
  /\ CloseEarlyTimeFramePeriod >= MillisecsPerBlock
  /\ CloseEarlyProtectionTimeFramePeriod \in Nat
  /\ CloseEarlyProtectionTimeFramePeriod >= MillisecsPerBlock
  /\ RequestInterval \in Nat \ {0}
  /\ Epoch \in Nat
  /\ MinimumPeriod \in Nat
  /\ TimeSteps \subseteq Nat
  /\ PeriodInputs \subseteq MarketPeriod
  /\ DeadlineInputs \subseteq Deadlines
  /\ CreationInputs \subseteq MarketCreation
  /\ MechanismInputs \subseteq MarketDisputeMechanism \cup {None}
  /\ StakeInputs \subseteq BOOLEAN

VARIABLES
  Markets,          \* market-commons: the stored markets
  MarketCounter,    \* market-commons: the next id
  Reserves,         \* where the money of every market's bonds is
  Mechanisms,       \* what the dispute pallets keep for every market
  MarketIdsForEdit, \* advised markets with an edit request
  (* The caches that drive on_initialize. For each market, the number of its *)
  (* occurrences in each slot; the order inside a slot does not matter.      *)
  MarketIdsPerCloseBlock,
  MarketIdsPerCloseTimeFrame,
  MarketIdsPerReportBlock,
  MarketIdsPerDisputeBlock,
  LastTimeFrame,    \* last time frame whose closings were processed
  RequestBlock,     \* court: the block at which the next vote may start
  block, timestamp, \* frame-system block number, pallet-timestamp now()
  rolled_back,      \* history: blocks whose on_initialize was rolled back
  shared_frames,    \* history: time frames with two blocks in a row
  logic_errors      \* history: which debug_assert!(false) were reached

market_vars == <<Markets, Reserves, Mechanisms, logic_errors>>
close_vars == <<MarketIdsPerCloseBlock, MarketIdsPerCloseTimeFrame>>
resolve_vars == <<MarketIdsPerReportBlock, MarketIdsPerDisputeBlock>>
clock_vars == <<LastTimeFrame, RequestBlock, block, timestamp, rolled_back,
                shared_frames>>
vars == <<market_vars, MarketCounter, MarketIdsForEdit, close_vars,
          resolve_vars, clock_vars>>

-----------------------------------------------------------------------------
(* The caches *)

EmptyCache(slots) == [m \in MarketIds |-> [s \in slots |-> 0]]

\* BoundedVec::try_push succeeds. Slots past the bound are not modelled.
HasRoom(cache, s, slots) ==
  /\ s \in slots
  /\ MapThenSumSet(LAMBDA m : cache[m][s], MarketIds) < CacheSize

push(cache, m, s) == [cache EXCEPT ![m][s] = @ + 1]

\* Removes one occurrence, if there is one.
remove_item(cache, m, s) ==
  [cache EXCEPT ![m][s] = IF @ > 0 THEN @ - 1 ELSE 0]

\* The key of a period in the cache for its kind.
CloseSlot(period) ==
  IF period.kind = "Block" THEN period.end
  ELSE calculate_time_frame_of_moment(period.end)

insert_auto_close(kind, cache, m, period) ==
  IF period.kind = kind THEN push(cache, m, CloseSlot(period)) ELSE cache

\* Mutant: the old entry stays.
clear_auto_close_Keeps(kind, cache, m, period) == cache

clear_auto_close(kind, cache, m, period) ==
  IF period.kind = kind THEN remove_item(cache, m, CloseSlot(period))
  ELSE cache

\* clear_auto_close on the stored period, and nothing inserted.
Unschedule(m) ==
  /\ MarketIdsPerCloseBlock' =
       clear_auto_close("Block", MarketIdsPerCloseBlock, m, Markets[m].period)
  /\ MarketIdsPerCloseTimeFrame' =
       clear_auto_close("Timestamp", MarketIdsPerCloseTimeFrame, m,
                        Markets[m].period)

\* clear_auto_close on the stored period, insert_auto_close on a new one.
Reschedule(m, period) ==
  LET blocks == clear_auto_close("Block", MarketIdsPerCloseBlock, m,
                                 Markets[m].period)
      frames == clear_auto_close("Timestamp", MarketIdsPerCloseTimeFrame, m,
                                 Markets[m].period)
  IN /\ IF period.kind = "Block"
        THEN HasRoom(blocks, CloseSlot(period), Blocks)
        ELSE HasRoom(frames, CloseSlot(period), TimeFrames)
     /\ MarketIdsPerCloseBlock' = insert_auto_close("Block", blocks, m, period)
     /\ MarketIdsPerCloseTimeFrame' =
          insert_auto_close("Timestamp", frames, m, period)

-----------------------------------------------------------------------------
(* Handlers on the context of one market *)

UnreservePending(c, b) ==
  IF is_bond_pending(c.mk, b) THEN unreserve_bond(c, b) ELSE c

\* The bonds that closing releases, by the state of the early close.
ReleaseCloseBonds(c) ==
  CASE c.mk.early_close = None -> c
    [] c.mk.early_close # None
         /\ c.mk.early_close.state = "ScheduledAsMarketCreator" ->
         UnreservePending(c, "close_request")
    [] c.mk.early_close # None /\ c.mk.early_close.state = "Disputed" ->
         UnreservePending(UnreservePending(c, "close_dispute"),
                          "close_request")
    [] c.mk.early_close # None
         /\ c.mk.early_close.state \in {"ScheduledAsOther", "Rejected"} -> c

(* The bonds are unreserved inside the closure of an enclosing              *)
(* mutate_market, which then writes back its own copy of the market: the    *)
(* money moves, the is_settled flags set on the way are overwritten.        *)
close_market(c) ==
  LET released == ReleaseCloseBonds(c)
  IN [c EXCEPT !.mk.status = "Closed",
               !.reserve = released.reserve,
               !.ok = c.mk.status = "Active" /\ released.ok]

handle_expired_advised_market(c) ==
  [unreserve_bond(unreserve_bond(c, "creation"), "oracle")
     EXCEPT !.mk = None]

do_reject_market(c) ==
  [slash_percentage_of_bond(unreserve_bond(c, "oracle"), "creation")
     EXCEPT !.mk = None]

on_market_close(c) ==
  CASE c.mk.status = "Active" -> close_market(c)
    [] c.mk.status = "Proposed" -> handle_expired_advised_market(c)
    [] c.mk.status \notin {"Active", "Proposed"} -> Fail(c)

\* Mutant: the outsider's bond is forgotten.
resolve_reported_market_KeepsOutsiderBond(c) ==
  IF c.mk.report.by = c.mk.oracle
  THEN unreserve_bond(c, "oracle")
  ELSE repatriate_bond(c, "oracle", c.mk.report.by)

resolve_reported_market(c) ==
  IF c.mk.report.by = c.mk.oracle
  THEN unreserve_bond(c, "oracle")
  ELSE UnreservePending(repatriate_bond(c, "oracle", c.mk.report.by),
                        "outsider")

(* Whoever reported wrongly pays the disputant if there is one, else the    *)
(* pool that exchange distributes; an unjustified dispute pays that pool.   *)
settle_bonds(c, resolved_outcome) ==
  LET mk == c.mk
      is_correct == mk.report.outcome = resolved_outcome
      disputed == is_bond_pending(mk, "dispute")
      beneficiary == IF disputed THEN mk.bonds["dispute"].who ELSE "Slashed"
      reported ==
        CASE mk.report.by = mk.oracle /\ is_correct ->
               unreserve_bond(c, "oracle")
          [] mk.report.by = mk.oracle /\ ~is_correct ->
               settle_bond(c, "oracle", beneficiary)
          [] mk.report.by # mk.oracle /\ is_correct ->
               UnreservePending(repatriate_bond(c, "oracle", mk.report.by),
                                "outsider")
          [] mk.report.by # mk.oracle /\ ~is_correct ->
               LET slashed == settle_bond(c, "oracle", beneficiary)
               IN IF is_bond_pending(mk, "outsider")
                  THEN settle_bond(slashed, "outsider", beneficiary)
                  ELSE slashed
  IN IF ~disputed THEN reported
     ELSE IF is_correct THEN slash_bond(reported, "dispute")
     ELSE unreserve_bond(reported, "dispute")

\* Mutant: the outcome is not stored.
Resolve_WithoutOutcome(c, outcome) == [c EXCEPT !.mk.status = "Resolved"]

Resolve(c, outcome) ==
  [c EXCEPT !.mk = [@ EXCEPT !.status = "Resolved",
                             !.resolved_outcome = outcome]]

resolve_disputed_market(c, verdict) ==
  LET res == get_resolved_outcome(c.dm, c.mk, verdict)
      settled == settle_bonds(c, res.outcome)
      paid == exchange(res.dm, c.mk)
  IN Resolve([settled EXCEPT !.dm = paid.dm,
                             !.ok = settled.ok /\ res.ok /\ paid.ok],
             res.outcome)

on_resolution(c, verdict) ==
  LET c1 == IF c.mk.creation = "Permissionless"
            THEN unreserve_bond(c, "creation") ELSE c
  IN CASE c.mk.status = "Reported" ->
            Resolve(resolve_reported_market(c1), c.mk.report.outcome)
       [] c.mk.status = "Disputed" -> resolve_disputed_market(c1, verdict)
       [] c.mk.status \notin {"Reported", "Disputed"} -> Fail(c)

-----------------------------------------------------------------------------
(* Creation, approval and editing *)

Live(m) == m \in MarketIds /\ Markets[m] # None

HasStatus(m, s) == Live(m) /\ Markets[m].status = s

ContextOf(m) == Context(Markets[m], Reserves[m], Mechanisms[m])

\* The handler succeeded with context c for market m.
Commit(m, c) ==
  /\ c.ok
  /\ Markets' = [Markets EXCEPT ![m] = c.mk]
  /\ Reserves' = [Reserves EXCEPT ![m] = c.reserve]
  /\ Mechanisms' = [Mechanisms EXCEPT ![m] = c.dm]
  /\ logic_errors' = logic_errors \cup c.warned

\* Mutant: the period may be over already.
ensure_market_period_is_valid_AllowsPast(period) ==
  IF period.kind = "Block" THEN period.end <= block + MaxMarketLifetime
  ELSE calculate_time_frame_of_moment(period.end)
         <= calculate_time_frame_of_moment(timestamp) + MaxMarketLifetime

ensure_market_period_is_valid(period) ==
  IF period.kind = "Block"
  THEN block < period.end /\ period.end - block <= MaxMarketLifetime
  ELSE LET now_frame == calculate_time_frame_of_moment(timestamp)
           end_frame == calculate_time_frame_of_moment(period.end)
       IN now_frame < end_frame /\ end_frame - now_frame <= MaxMarketLifetime

\* Mutant: no lower bound on the dispute duration.
ensure_market_deadlines_are_valid_NoMinimum(d, mechanism) ==
  /\ MinOracleDuration <= d.oracle_duration
  /\ d.oracle_duration <= MaxOracleDuration
  /\ d.grace_period <= MaxGracePeriod
  /\ IF mechanism = None THEN d.dispute_duration = 0
     ELSE d.dispute_duration <= MaxDisputeDuration

ensure_market_deadlines_are_valid(d, mechanism) ==
  /\ MinOracleDuration <= d.oracle_duration
  /\ d.oracle_duration <= MaxOracleDuration
  /\ d.grace_period <= MaxGracePeriod
  /\ IF mechanism = None
     THEN d.dispute_duration = 0
     ELSE /\ MinDisputeDuration <= d.dispute_duration
          /\ d.dispute_duration <= MaxDisputeDuration

construct_market(who, oracle, period, deadlines, creation, mechanism, bonds) ==
  [creator |-> who, creation |-> creation, oracle |-> oracle,
   period |-> period, deadlines |-> deadlines,
   status |-> IF creation = "Permissionless" THEN "Active" ELSE "Proposed",
   report |-> None, resolved_outcome |-> None,
   dispute_mechanism |-> mechanism, bonds |-> bonds, early_close |-> None]

\* Mutant: the counter stays.
next_market_id_Stays(m) == m

\* market-commons: the counter after handing out m.
next_market_id(m) == m + 1

create_market(who, oracle, period, deadlines, creation, mechanism) ==
  LET m == MarketCounter
      mk == construct_market(who, oracle, period, deadlines, creation,
                             mechanism, NoBonds)
      c == reserve_bond(reserve_bond(Context(mk, NoReserve, NoMechanismState),
                                     "creation", who), "oracle", who)
  IN /\ m \in MarketIds                \* bound: ids run out
     /\ ensure_market_period_is_valid(period)
     /\ ensure_market_deadlines_are_valid(deadlines, mechanism)
     /\ Commit(m, c)
     /\ MarketCounter' = next_market_id(m)
     /\ IF period.kind = "Block"
        THEN HasRoom(MarketIdsPerCloseBlock, CloseSlot(period), Blocks)
        ELSE HasRoom(MarketIdsPerCloseTimeFrame, CloseSlot(period), TimeFrames)
     /\ MarketIdsPerCloseBlock' =
          insert_auto_close("Block", MarketIdsPerCloseBlock, m, period)
     /\ MarketIdsPerCloseTimeFrame' =
          insert_auto_close("Timestamp", MarketIdsPerCloseTimeFrame, m, period)
     /\ UNCHANGED <<MarketIdsForEdit, resolve_vars, clock_vars>>

approve_market(m) ==
  /\ HasStatus(m, "Proposed")
  /\ m \notin MarketIdsForEdit
  /\ Commit(m, unreserve_bond([ContextOf(m) EXCEPT !.mk.status = "Active"],
                              "creation"))
  /\ UNCHANGED <<MarketCounter, MarketIdsForEdit, close_vars, resolve_vars,
                 clock_vars>>

request_edit(m) ==
  /\ HasStatus(m, "Proposed")
  /\ m \notin MarketIdsForEdit
  /\ MarketIdsForEdit' = MarketIdsForEdit \cup {m}
  /\ UNCHANGED <<market_vars, MarketCounter, close_vars, resolve_vars,
                 clock_vars>>

edit_market(m, oracle, period, deadlines, mechanism) ==
  /\ m \in MarketIdsForEdit
  /\ HasStatus(m, "Proposed")
  /\ ensure_market_period_is_valid(period)
  /\ ensure_market_deadlines_are_valid(deadlines, mechanism)
  /\ Commit(m, [ContextOf(m) EXCEPT !.mk =
                  construct_market(@.creator, oracle, period, deadlines,
                                   @.creation, mechanism, @.bonds)])
  /\ Reschedule(m, period)
  /\ MarketIdsForEdit' = MarketIdsForEdit \ {m}
  /\ UNCHANGED <<MarketCounter, resolve_vars, clock_vars>>

reject_market(m) ==
  /\ HasStatus(m, "Proposed")
  /\ Unschedule(m)
  /\ Commit(m, do_reject_market(ContextOf(m)))
  /\ MarketIdsForEdit' = MarketIdsForEdit \ {m}
  /\ UNCHANGED <<MarketCounter, resolve_vars, clock_vars>>

-----------------------------------------------------------------------------
(* Closing ahead of time *)

\* set_market_end: the period ends now.
set_market_end(c) ==
  [c EXCEPT !.mk.period.end =
     IF c.mk.period.kind = "Block" THEN block ELSE timestamp]

CloseNow(m) ==
  /\ HasStatus(m, "Active")
  /\ Unschedule(m)
  /\ Commit(m, set_market_end(close_market(ContextOf(m))))
  /\ UNCHANGED <<MarketCounter, MarketIdsForEdit, resolve_vars, clock_vars>>

admin_move_market_to_closed(m) == CloseNow(m)

\* Only the creator, and only when there is no dispute mechanism.
close_trusted_market(m) ==
  /\ Live(m)
  /\ Markets[m].dispute_mechanism = None
  /\ CloseNow(m)

\* get_new_period: a period that ends a while after now, before the old end.
NewPeriod(period, block_period, time_frame_period) ==
  [period EXCEPT !.end = IF period.kind = "Block"
                         THEN block + block_period
                         ELSE timestamp + time_frame_period]

ProtectionPeriod(period) ==
  NewPeriod(period, CloseEarlyProtectionBlockPeriod,
            CloseEarlyProtectionTimeFramePeriod)

WithEarlyClose(c, period, early_close) ==
  [c EXCEPT !.mk = [@ EXCEPT !.period = period, !.early_close = early_close]]

\* Mutant: the new end is not compared with the old one.
EndsEarlier_Unchecked(m, new_period) == TRUE

EndsEarlier(m, new_period) == new_period.end < Markets[m].period.end

ScheduleEarlyClose(m, c, new_period, state) ==
  /\ EndsEarlier(m, new_period)
  /\ Reschedule(m, new_period)
  /\ Commit(m, WithEarlyClose(c, new_period, [old |-> Markets[m].period,
                                               new |-> new_period,
                                               state |-> state]))
  /\ UNCHANGED <<MarketCounter, MarketIdsForEdit, resolve_vars, clock_vars>>

\* schedule_early_close by the creator: the first request, against a bond.
schedule_early_close_as_market_creator(m) ==
  /\ HasStatus(m, "Active")
  /\ Markets[m].early_close = None
  /\ ScheduleEarlyClose(m,
       reserve_bond(ContextOf(m), "close_request", Markets[m].creator),
       NewPeriod(Markets[m].period, CloseEarlyBlockPeriod,
                 CloseEarlyTimeFramePeriod),
       "ScheduledAsMarketCreator")

\* Mutant: the creator's own bond is forgotten.
SettleCloseDispute_KeepsRequestBond(c) ==
  IF is_bond_pending(c.mk, "close_dispute")
  THEN repatriate_bond(c, "close_dispute", c.mk.creator) ELSE c

\* After a dispute the disputant's bond goes to the creator.
SettleCloseDispute(c) ==
  UnreservePending(
    IF is_bond_pending(c.mk, "close_dispute")
    THEN repatriate_bond(c, "close_dispute", c.mk.creator) ELSE c,
    "close_request")

\* schedule_early_close by CloseMarketEarlyOrigin.
schedule_early_close_as_authority(m) ==
  LET c == ContextOf(m)
      early_close == Markets[m].early_close
  IN /\ HasStatus(m, "Active")
     /\ early_close # None => early_close.state \in {"Disputed", "Rejected"}
     /\ ScheduleEarlyClose(m,
          IF early_close # None /\ early_close.state = "Disputed"
          THEN SettleCloseDispute(c) ELSE c,
          ProtectionPeriod(Markets[m].period), "ScheduledAsOther")

(* is_expired: the original period, to which the market returns, is over.   *)
(* The code asserts that this never happens and goes on.                    *)
WarnIfExpired(c, period) ==
  IF period.end <= IF period.kind = "Block" THEN block ELSE timestamp
  THEN [c EXCEPT !.warned = @ \cup {"expired"}] ELSE c

dispute_early_close(m, who) ==
  LET early_close == Markets[m].early_close
  IN /\ HasStatus(m, "Active")
     /\ early_close # None
     /\ early_close.state = "ScheduledAsMarketCreator"
     /\ Reschedule(m, early_close.old)
     /\ Commit(m, WithEarlyClose(
                     reserve_bond(WarnIfExpired(ContextOf(m), early_close.old),
                                  "close_dispute", who),
                     early_close.old,
                     [early_close EXCEPT !.state = "Disputed"]))
     /\ UNCHANGED <<MarketCounter, MarketIdsForEdit, resolve_vars, clock_vars>>

\* The disputant gets the creator's bond and their own back.
RewardCloseDisputor(c) ==
  IF c.mk.bonds["close_dispute"] = None THEN c
  ELSE unreserve_bond(repatriate_bond(c, "close_request",
                                      c.mk.bonds["close_dispute"].who),
                      "close_dispute")

reject_early_close(m) ==
  LET early_close == Markets[m].early_close
      rejected == [early_close EXCEPT !.state = "Rejected"]
      c == ContextOf(m)
  IN /\ HasStatus(m, "Active")
     /\ early_close # None
     /\ \/ /\ early_close.state = "Disputed"
           /\ Commit(m, WithEarlyClose(RewardCloseDisputor(c),
                                       Markets[m].period, rejected))
           /\ UNCHANGED close_vars
        \/ /\ early_close.state = "ScheduledAsOther"
           /\ Reschedule(m, early_close.old)
           /\ Commit(m, WithEarlyClose(
                RewardCloseDisputor(WarnIfExpired(c, early_close.old)),
                early_close.old, rejected))
     /\ UNCHANGED <<MarketCounter, MarketIdsForEdit, resolve_vars, clock_vars>>

-----------------------------------------------------------------------------
(* Reporting, disputing and resolving by call *)

\* The end of the period, after n blocks' worth of waiting, as compared with
\* the block number or the timestamp.
AfterEnd(period, n) ==
  period.end + IF period.kind = "Block" THEN n ELSE n * MillisecsPerBlock

Clock(period) == IF period.kind = "Block" THEN block ELSE timestamp

WithReport(c, who, outcome) ==
  [c EXCEPT !.mk = [@ EXCEPT
     !.report = [at |-> block, by |-> who, outcome |-> outcome],
     !.status = "Reported"]]

\* The oracle's time is over, so others may report against a bond.
report_market_with_dispute_mechanism(m, who, outcome) ==
  LET mk == Markets[m]
      d == mk.deadlines
      resolve_at == block + d.dispute_duration
      c == ContextOf(m)
  IN /\ AfterEnd(mk.period, d.grace_period) <= Clock(mk.period)
     /\ \/ who = mk.oracle
        \/ AfterEnd(mk.period, d.grace_period + d.oracle_duration)
             < Clock(mk.period)
     /\ Commit(m, WithReport(IF who = mk.oracle THEN c
                             ELSE reserve_bond(c, "outsider", who),
                             who, outcome))
     /\ HasRoom(MarketIdsPerReportBlock, resolve_at, Blocks)
     /\ MarketIdsPerReportBlock' =
          push(MarketIdsPerReportBlock, m, resolve_at)
     /\ UNCHANGED MarketIdsPerDisputeBlock

\* A trusted market: only the oracle, and it resolves at once.
report_and_resolve_market(m, who, outcome) ==
  /\ who = Markets[m].oracle
  /\ Commit(m, on_resolution(WithReport(ContextOf(m), who, outcome), outcome))
  /\ UNCHANGED resolve_vars

report(m, who, outcome) ==
  /\ HasStatus(m, "Closed")
  /\ Markets[m].report = None
  /\ IF Markets[m].dispute_mechanism # None
     THEN report_market_with_dispute_mechanism(m, who, outcome)
     ELSE report_and_resolve_market(m, who, outcome)
  /\ UNCHANGED <<MarketCounter, MarketIdsForEdit, close_vars, clock_vars>>

\* Mutant: the entry is not written.
AddAutoResolve_Forgotten(disputes, m, resolve_at) ==
  MarketIdsPerDisputeBlock' = disputes

\* DisputeResolutionApi::add_auto_resolve succeeds for cache `disputes`.
AddAutoResolve(disputes, m, resolve_at) ==
  /\ HasRoom(disputes, resolve_at, Blocks)
  /\ MarketIdsPerDisputeBlock' = push(disputes, m, resolve_at)

dispute(m, who, stake_suffices) ==
  LET mechanism == Markets[m].dispute_mechanism
      c == ContextOf(m)
      dm == on_dispute(c.dm, mechanism, RequestBlock)
  IN /\ HasStatus(m, "Reported")
     /\ mechanism # None
     /\ IF mechanism = "Court"
        THEN stake_suffices /\ AddAutoResolve(MarketIdsPerDisputeBlock, m,
                                              dm.court.appeal)
        ELSE UNCHANGED MarketIdsPerDisputeBlock
     /\ Commit(m, [reserve_bond(c, "dispute", who)
                     EXCEPT !.mk.status = "Disputed", !.dm = dm])
     /\ UNCHANGED <<MarketCounter, MarketIdsForEdit, close_vars,
                    MarketIdsPerReportBlock, clock_vars>>

\* clear_auto_resolve of a reported market ...
ClearReport(m) ==
  LET mk == Markets[m]
  IN IF mk.dispute_mechanism # None /\ mk.status = "Reported"
     THEN remove_item(MarketIdsPerReportBlock, m,
                      mk.report.at + mk.deadlines.dispute_duration)
     ELSE MarketIdsPerReportBlock

\* Mutant: the old date stays.
ClearDispute_Keeps(m, dm) == MarketIdsPerDisputeBlock

\* ... and of a disputed one, by what its mechanism (in state dm) answers.
ClearDispute(m, dm) ==
  LET mk == Markets[m]
  IN IF /\ mk.dispute_mechanism # None
        /\ mk.status = "Disputed"
        /\ get_auto_resolve(dm, mk) # None
     THEN remove_item(MarketIdsPerDisputeBlock, m, get_auto_resolve(dm, mk))
     ELSE MarketIdsPerDisputeBlock

admin_move_market_to_resolved(m, verdict) ==
  /\ Live(m)
  /\ Markets[m].status \in {"Reported", "Disputed"}
  /\ Commit(m, on_resolution(ContextOf(m), verdict))
  /\ MarketIdsPerReportBlock' = ClearReport(m)
  /\ MarketIdsPerDisputeBlock' = ClearDispute(m, Mechanisms[m])
  /\ UNCHANGED <<MarketCounter, MarketIdsForEdit, close_vars, clock_vars>>

(* Anyone may hand a failed court case to the token holders. The schedule is *)
(* cleared after on_global_dispute has removed the court.                    *)
start_global_dispute(m, stake_suffices) ==
  LET c == ContextOf(m)
      dm == on_global_dispute(c.dm)
      voting == start_voting(dm, block)
  IN /\ Live(m)
     /\ c.mk.dispute_mechanism = "Court"
     /\ c.mk.status \in {"Reported", "Disputed"}
     /\ c.dm.gd = None
     /\ c.mk.report # None
     /\ has_failed(c.dm, c.mk, block, stake_suffices)
     /\ c.dm.court_id => c.dm.court # None
     /\ MarketIdsPerReportBlock' = ClearReport(m)
     /\ AddAutoResolve(ClearDispute(m, dm), m, voting.gd.vote_end)
     /\ Commit(m, [c EXCEPT !.mk.status = "Disputed", !.dm = voting])
     /\ UNCHANGED <<MarketCounter, MarketIdsForEdit, close_vars, clock_vars>>

-----------------------------------------------------------------------------
(* on_initialize *)

CurrentTimeFrame == calculate_time_frame_of_moment(timestamp) + 1

\* Mutant: skipped frames are not made up for.
DueTimeFrames_CurrentOnly == {CurrentTimeFrame}

\* On the first pass only the current frame is looked at.
DueTimeFrames ==
  (IF LastTimeFrame = None THEN CurrentTimeFrame ELSE LastTimeFrame + 1)
    .. CurrentTimeFrame

\* market_status_manager closes m in block n, by block number or time frame.
ClosesAt(m, n) ==
  \/ MarketIdsPerCloseBlock[m][n] > 0
  \/ \E f \in DueTimeFrames : MarketIdsPerCloseTimeFrame[m][f] > 0

\* m is met more than once: the second time it is closed or gone.
ClosesTwiceAt(m, n) ==
  \/ MarketIdsPerCloseBlock[m][n] > 1
  \/ \E f \in DueTimeFrames :
       \/ MarketIdsPerCloseTimeFrame[m][f] > 1
       \/ /\ MarketIdsPerCloseTimeFrame[m][f] > 0
          /\ \/ MarketIdsPerCloseBlock[m][n] > 0
             \/ \E g \in DueTimeFrames \ {f} :
                  MarketIdsPerCloseTimeFrame[m][g] > 0

AfterClose(c, m, n) ==
  CASE ~ClosesAt(m, n) -> c
    [] ClosesAt(m, n) /\ (c.mk = None \/ ClosesTwiceAt(m, n)) -> Fail(c)
    [] ClosesAt(m, n) /\ c.mk # None /\ ~ClosesTwiceAt(m, n) ->
         on_market_close(c)

\* Mutant: the status is not looked at again.
AfterReport_AnyStatus(c, m, n, verdict) ==
  IF MarketIdsPerReportBlock[m][n] = 0 THEN c
  ELSE IF c.mk = None THEN Fail(c) ELSE on_resolution(c, verdict)

\* resolution_manager, reported markets: only if still reported.
AfterReport(c, m, n, verdict) ==
  CASE MarketIdsPerReportBlock[m][n] = 0 -> c
    [] MarketIdsPerReportBlock[m][n] # 0 /\ c.mk = None -> Fail(c)
    [] MarketIdsPerReportBlock[m][n] # 0 /\ c.mk # None ->
         IF c.mk.status = "Reported" THEN on_resolution(c, verdict) ELSE c

\* resolution_manager, disputed markets: whatever their status.
AfterDispute(c, m, n, verdict) ==
  CASE MarketIdsPerDisputeBlock[m][n] = 0 -> c
    [] MarketIdsPerDisputeBlock[m][n] # 0
         /\ (c.mk = None \/ MarketIdsPerDisputeBlock[m][n] > 1) -> Fail(c)
    [] MarketIdsPerDisputeBlock[m][n] = 1 /\ c.mk # None ->
         on_resolution(c, verdict)

\* The context of m after the managers ran in block n. A market's handlers
\* touch no other market, so the order of the markets does not matter.
Processed(m, n, verdict) ==
  LET closed == AfterClose(ContextOf(m), m, n)
      reported == IF closed.ok THEN AfterReport(closed, m, n, verdict)
                  ELSE closed
  IN IF reported.ok THEN AfterDispute(reported, m, n, verdict) ELSE reported

RemoveSlot(cache, slots) ==
  [m \in MarketIds |-> [s \in DOMAIN cache[m] |->
                          IF s \in slots THEN 0 ELSE cache[m][s]]]

\* Everything is written in one storage transaction: one Err rolls back the
\* closings and resolutions of all markets, and LastTimeFrame.
on_initialize(n, verdicts) ==
  LET after == [m \in MarketIds |-> Processed(m, n, verdicts[m])]
  IN IF \A m \in MarketIds : after[m].ok
     THEN /\ Markets' = [m \in MarketIds |-> after[m].mk]
          /\ Reserves' = [m \in MarketIds |-> after[m].reserve]
          /\ Mechanisms' = [m \in MarketIds |-> after[m].dm]
          /\ logic_errors' =
               logic_errors \cup UNION {after[m].warned : m \in MarketIds}
          /\ MarketIdsForEdit' =
               {m \in MarketIdsForEdit : after[m].mk # None}
          /\ MarketIdsPerCloseBlock' = RemoveSlot(MarketIdsPerCloseBlock, {n})
          /\ MarketIdsPerCloseTimeFrame' =
               RemoveSlot(MarketIdsPerCloseTimeFrame, DueTimeFrames)
          /\ MarketIdsPerReportBlock' = RemoveSlot(MarketIdsPerReportBlock, {n})
          /\ MarketIdsPerDisputeBlock' =
               RemoveSlot(MarketIdsPerDisputeBlock, {n})
          /\ LastTimeFrame' = CurrentTimeFrame
          /\ UNCHANGED rolled_back
     ELSE /\ rolled_back' = rolled_back \cup {n}
          /\ UNCHANGED <<market_vars, MarketIdsForEdit, close_vars,
                         resolve_vars, LastTimeFrame>>

(* A new block: the hooks run with the previous block's timestamp, then the *)
(* timestamp inherent. pallet-timestamp only asks for MinimumPeriod, half a *)
(* time frame, and the collators of the parachain take the system time: a   *)
(* frame may hold two blocks, or none.                                      *)
NewBlock(t, verdicts) ==
  LET frame == calculate_time_frame_of_moment(t)
  IN /\ block < Horizon
     /\ t \in Moments
     /\ timestamp = 0 \/ timestamp + MinimumPeriod <= t
     /\ on_initialize(block + 1, verdicts)
     /\ block' = block + 1
     /\ timestamp' = t
     /\ shared_frames' =
          IF frame = calculate_time_frame_of_moment(timestamp)
          THEN shared_frames \cup {frame} ELSE shared_frames
     /\ RequestBlock' = IF RequestBlock <= block + 1
                        THEN block + 1 + RequestInterval ELSE RequestBlock
     /\ UNCHANGED MarketCounter
=============================================================================
