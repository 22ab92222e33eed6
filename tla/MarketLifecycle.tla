--------------------------- MODULE MarketLifecycle ---------------------------
(***************************************************************************)
(* The market lifecycle composed with the calls of the dispute pallets     *)
(* that move a market's resolution: authorize_market_outcome of            *)
(* zrml-authorized, suggest_outcome of zrml-simple-disputes and appeal of  *)
(* zrml-court.                                                             *)
(***************************************************************************)
EXTENDS PredictionMarkets

SetMechanism(m, dm) ==
  /\ Mechanisms' = [Mechanisms EXCEPT ![m] = dm]
  /\ UNCHANGED <<Markets, Reserves, logic_errors, MarketCounter,
                 MarketIdsForEdit, close_vars, MarketIdsPerReportBlock,
                 clock_vars>>

DisputedBy(m, mechanism) ==
  HasStatus(m, "Disputed") /\ Markets[m].dispute_mechanism = mechanism

\* The first report sets the time of resolution; later ones correct it.
authorize_market_outcome(m, outcome) ==
  LET authorized == Mechanisms[m].authorized
      resolve_at == IF authorized = None THEN block + CorrectionPeriod
                    ELSE authorized.resolve_at
  IN /\ DisputedBy(m, "Authorized")
     /\ IF authorized = None
        THEN AddAutoResolve(MarketIdsPerDisputeBlock, m, resolve_at)
        ELSE UNCHANGED MarketIdsPerDisputeBlock
     /\ SetMechanism(m, [Mechanisms[m] EXCEPT !.authorized =
                           [resolve_at |-> resolve_at, outcome |-> outcome]])

\* The outcome that a suggestion has to differ from.
LastOutcome(m) ==
  LET disputes == Mechanisms[m].disputes
  IN IF disputes = << >> THEN Markets[m].report.outcome
     ELSE disputes[Len(disputes)].outcome

\* Each suggestion restarts the dispute duration.
suggest_outcome(m, who, outcome) ==
  LET dm == Mechanisms[m]
  IN /\ DisputedBy(m, "SimpleDisputes")
     /\ outcome # LastOutcome(m)
     /\ Len(dm.disputes) < MaxDisputes
     /\ AddAutoResolve(ClearDispute(m, dm), m,
                       block + Markets[m].deadlines.dispute_duration)
     /\ SetMechanism(m, [dm EXCEPT !.disputes =
          Append(@, [at |-> block, by |-> who, outcome |-> outcome])])

\* Mutant: the court is appealed without end.
MayAppeal_Unlimited(dm) == dm.court # None /\ Appealable(dm, block)

MayAppeal(dm) ==
  /\ dm.court # None
  /\ dm.court.appeals < MaxAppeals
  /\ Appealable(dm, block)

(* An appeal starts a new round; the last one ends the court's own          *)
(* procedure, and no resolution is scheduled any more.                      *)
appeal(m, stake_suffices) ==
  LET dm == Mechanisms[m]
      round == RoundOf(RequestBlock, dm.court.appeals + 1)
  IN /\ DisputedBy(m, "Court")
     /\ MayAppeal(dm)
     /\ IF dm.court.appeals + 1 < MaxAppeals
        THEN /\ stake_suffices
             /\ HasRoom(MarketIdsPerDisputeBlock, round.appeal, Blocks)
             /\ MarketIdsPerDisputeBlock' =
                  remove_item(push(MarketIdsPerDisputeBlock, m, round.appeal),
                              m, dm.court.appeal)
             /\ SetMechanism(m, [dm EXCEPT !.court = round])
        ELSE /\ MarketIdsPerDisputeBlock' =
                  remove_item(MarketIdsPerDisputeBlock, m, dm.court.appeal)
             /\ SetMechanism(m, [dm EXCEPT !.court.appeals = @ + 1])

-----------------------------------------------------------------------------
(* The specification *)

Init ==
  /\ Markets = [m \in MarketIds |-> None]
  /\ MarketCounter = 0
  /\ Reserves = [m \in MarketIds |-> NoReserve]
  /\ Mechanisms = [m \in MarketIds |-> NoMechanismState]
  /\ MarketIdsForEdit = {}
  /\ MarketIdsPerCloseBlock = EmptyCache(Blocks)
  /\ MarketIdsPerCloseTimeFrame = EmptyCache(TimeFrames)
  /\ MarketIdsPerReportBlock = EmptyCache(Blocks)
  /\ MarketIdsPerDisputeBlock = EmptyCache(Blocks)
  /\ LastTimeFrame = None
  /\ RequestBlock = 0
  /\ block = 0
  /\ timestamp = 0                      \* pallet-timestamp before block 1
  /\ rolled_back = {}
  /\ shared_frames = {}
  /\ logic_errors = {}

\* The extrinsics of a block, on market m.
MarketCall(m) ==
  \/ approve_market(m)
  \/ request_edit(m)
  \/ \E o \in Accounts, p \in PeriodInputs, d \in DeadlineInputs,
        mechanism \in MechanismInputs : edit_market(m, o, p, d, mechanism)
  \/ reject_market(m)
  \/ admin_move_market_to_closed(m)
  \/ close_trusted_market(m)
  \/ schedule_early_close_as_market_creator(m)
  \/ schedule_early_close_as_authority(m)
  \/ \E who \in Accounts : dispute_early_close(m, who)
  \/ reject_early_close(m)

DisputeCall(m) ==
  \/ \E who \in Accounts, o \in Outcomes : report(m, who, o)
  \/ \E who \in Accounts, s \in StakeInputs : dispute(m, who, s)
  \/ \E o \in Outcomes : admin_move_market_to_resolved(m, o)
  \/ \E s \in StakeInputs : start_global_dispute(m, s)
  \/ \E o \in Outcomes : authorize_market_outcome(m, o)
  \/ \E who \in Accounts, o \in Outcomes : suggest_outcome(m, who, o)
  \/ \E s \in StakeInputs : appeal(m, s)

CreateCall ==
  \E who, o \in Accounts, p \in PeriodInputs, d \in DeadlineInputs,
     creation \in CreationInputs, mechanism \in MechanismInputs :
     block > 0 /\ create_market(who, o, p, d, creation, mechanism)

\* Before block 1 pallet-timestamp answers zero.
NextMoments ==
  {dt + IF block = 0 THEN Epoch ELSE timestamp : dt \in TimeSteps}

NextBlock ==
  \E t \in NextMoments, verdicts \in [MarketIds -> Outcomes] :
    NewBlock(t, verdicts)

\* bound: the run is over, the chain itself never stops.
EndOfRun == block = Horizon /\ UNCHANGED vars

Next ==
  \/ NextBlock
  \/ CreateCall
  \/ \E m \in MarketIds : MarketCall(m) \/ DisputeCall(m)
  \/ EndOfRun

Spec == Init /\ [][Next]_vars

\* The step of the block number; in Spec only NextBlock takes it.
BlockStep == block < Horizon /\ block' = block + 1

\* Blocks keep coming; nobody has to submit an extrinsic.
FairSpec == Spec /\ WF_block(BlockStep)

-----------------------------------------------------------------------------
(* Type invariant *)

CacheOf(slots) == [MarketIds -> [slots -> Nat]]

\* Every storage item has its declared type, and every market's bonds have a
\* location.
TypeOK ==
  /\ Markets \in [MarketIds -> MarketRecord \cup {None}]
  /\ MarketCounter \in Nat
  /\ Reserves \in [MarketIds -> Reserve]
  /\ Mechanisms \in [MarketIds -> MechanismState]
  /\ MarketIdsForEdit \subseteq MarketIds
  /\ MarketIdsPerCloseBlock \in CacheOf(Blocks)
  /\ MarketIdsPerCloseTimeFrame \in CacheOf(TimeFrames)
  /\ MarketIdsPerReportBlock \in CacheOf(Blocks)
  /\ MarketIdsPerDisputeBlock \in CacheOf(Blocks)
  /\ LastTimeFrame \in TimeFrames \cup {None}
  /\ RequestBlock \in Nat
  /\ block \in Blocks
  /\ timestamp \in Moments
  /\ rolled_back \subseteq Blocks
  /\ shared_frames \subseteq TimeFrames
  /\ logic_errors \subseteq LogicError

-----------------------------------------------------------------------------
(* The schedule *)

\* One occurrence in slot s, and none elsewhere.
Once(slots, s) == [t \in slots |-> IF t = s THEN 1 ELSE 0]

Never(slots) == [t \in slots |-> 0]

Open(mk) == mk # None /\ mk.status \in {"Active", "Proposed"}

IsOpen(m) == Open(Markets[m])

\* What the close cache for periods of this kind holds for a market.
CloseEntries(kind, mk, slots) ==
  IF Open(mk) /\ mk.period.kind = kind
  THEN Once(slots, CloseSlot(mk.period)) ELSE Never(slots)

(* A proposed or active market is in the close caches exactly once, at the  *)
(* end of its current period and under the right kind of key, and any other *)
(* market is in no close slot: create_market, edit_market, the early-close  *)
(* calls, the closings and the rejections keep insert_auto_close and        *)
(* clear_auto_close in step with market.period.                             *)
CloseScheduled ==
  \A m \in MarketIds :
    /\ MarketIdsPerCloseBlock[m] = CloseEntries("Block", Markets[m], Blocks)
    /\ MarketIdsPerCloseTimeFrame[m] =
         CloseEntries("Timestamp", Markets[m], TimeFrames)

\* on_initialize has yet to look at the slot of this period.
Ahead(period) ==
  IF period.kind = "Block" THEN period.end > block
  ELSE LastTimeFrame # None /\ CloseSlot(period) > LastTimeFrame

(* on_initialize may never find a market in this slot: the block was rolled *)
(* back, or the frame before the end held two blocks. on_initialize of the  *)
(* second of them processes the frame of the end, and calls in that block   *)
(* can still schedule a closing for it.                                     *)
Forgone(period) ==
  IF period.kind = "Block" THEN period.end \in rolled_back
  ELSE CloseSlot(period) - 1 \in shared_frames

\* A market whose early close was forgone can return to a period that is over.
EndForgone(mk) ==
  \/ Forgone(mk.period)
  \/ mk.early_close # None /\ Forgone(mk.early_close.new)

EndAhead(mk) == Open(mk) => Ahead(mk.period) \/ EndForgone(mk)

(* The slot of an open market has not been passed over: its end is still to *)
(* be processed, unless on_initialize was rolled back in exactly that block *)
(* (block slots are not looked at again; time frames are) or the time frame *)
(* before that end held two blocks.                                         *)
CloseNotMissed == \A m \in MarketIds : EndAhead(Markets[m])

ReportEnd(mk) == mk.report.at + mk.deadlines.dispute_duration

(* A reported market is in the report cache exactly once, at the end of its *)
(* dispute duration, which lies ahead or in a rolled-back block.            *)
ReportScheduled ==
  \A m \in MarketIds : HasStatus(m, "Reported") =>
    /\ MarketIdsPerReportBlock[m] = Once(Blocks, ReportEnd(Markets[m]))
    /\ ReportEnd(Markets[m]) > block \/ ReportEnd(Markets[m]) \in rolled_back

\* The block at which the mechanism of m is to resolve it, if it has one.
ResolveAt(m) ==
  IF Mechanisms[m].court # None /\ Mechanisms[m].court.appeals = MaxAppeals
  THEN None ELSE get_auto_resolve(Mechanisms[m], Markets[m])

(* Without a global dispute, a disputed market is in the dispute cache      *)
(* exactly when its mechanism has a date, only at that date, and the date   *)
(* lies ahead or in a rolled-back block; any other market is not in it.     *)
DisputeScheduled ==
  \A m \in MarketIds : Mechanisms[m].gd = None =>
    IF HasStatus(m, "Disputed") /\ ResolveAt(m) # None
    THEN /\ MarketIdsPerDisputeBlock[m] = Once(Blocks, ResolveAt(m))
         /\ ResolveAt(m) > block \/ ResolveAt(m) \in rolled_back
    ELSE MarketIdsPerDisputeBlock[m] = Never(Blocks)

(* on_initialize fails only because of a market in a global dispute: no     *)
(* sequence of calls makes a scheduled closing or resolution of any other   *)
(* market return Err.                                                       *)
RolledBackOnlyByGlobalDispute ==
  rolled_back # {} => \E m \in MarketIds : Mechanisms[m].gd # None

-----------------------------------------------------------------------------
(* The bonds *)

EarlyCloseIn(m, states) ==
  /\ HasStatus(m, "Active")
  /\ Markets[m].early_close # None
  /\ Markets[m].early_close.state \in states

\* The stage in which bond b of market m is at stake.
Needed(m, b) ==
  /\ Live(m)
  /\ LET mk == Markets[m]
     IN CASE b = "creation" ->
               \/ mk.status = "Proposed"
               \/ mk.creation = "Permissionless" /\ mk.status # "Resolved"
          [] b = "oracle" -> mk.status # "Resolved"
          [] b = "outsider" ->
               /\ mk.status \in {"Reported", "Disputed"}
               /\ mk.report.by # mk.oracle
          [] b = "dispute" -> mk.status = "Disputed"
          [] b = "close_request" ->
               EarlyCloseIn(m, {"ScheduledAsMarketCreator", "Disputed"})
          [] b = "close_dispute" -> EarlyCloseIn(m, {"Disputed"})

(* The money of a bond is in reserve exactly as long as the bond is at      *)
(* stake: whatever the order of approvals, early closings, their disputes,  *)
(* reports, disputes and resolutions, no settled or removed market keeps a  *)
(* deposit locked, and no deposit leaves before its time.                   *)
HeldExactlyWhileNeeded ==
  \A m \in MarketIds, b \in BondName :
    Reserves[m][b] = "Held" <=> Needed(m, b)


(* settle_bonds and resolve_reported_market pay whom the market's history   *)
(* says: a right report keeps the oracle bond with the reporter's side and  *)
(* returns the outsider's bond, a wrong one pays both to the disputant, who *)
(* gets their own bond back exactly when the report was wrong.              *)
FairSettlement ==
  \A m \in MarketIds : HasStatus(m, "Resolved") =>
    LET mk == Markets[m]
        at(b) == Reserves[m][b]
        reporter == mk.report.by
        disputant == mk.bonds["dispute"].who
    IN IF mk.report.outcome = mk.resolved_outcome
       THEN /\ at("oracle") =
                 IF reporter = mk.oracle THEN mk.creator ELSE reporter
            /\ at("outsider") \in {"Unbonded", reporter}
            /\ at("dispute") \in {"Unbonded", "Slashed"}
       ELSE /\ mk.bonds["dispute"] # None
            /\ at("dispute") = disputant
            /\ at("oracle") = disputant
            /\ at("outsider") \in {"Unbonded", disputant}

(* Money that left a reserve stays where it went, and a deposit that stays  *)
(* in reserve keeps its owner: no call pays a bond twice or overwrites the  *)
(* record of a deposit that is still held.                                  *)
BondsSettleOnce ==
  [][\A m \in MarketIds, b \in BondName :
       /\ Reserves[m][b] \notin {"Unbonded", "Held"} =>
            Reserves'[m][b] = Reserves[m][b]
       /\ Reserves[m][b] = "Held" /\ Reserves'[m][b] = "Held" =>
            Markets'[m].bonds[b].who = Markets[m].bonds[b].who]_vars

(* No bond macro is called on a settled bond: "calling it if the bond is    *)
(* settled is most likely a logic error" (debug_assert!(false)).            *)
NeverSettledTwice == "settled_twice" \notin logic_errors

-----------------------------------------------------------------------------
(* Early closing *)

PeriodFitsEarlyClose(mk) ==
  Open(mk) /\ mk.early_close # None =>
    LET ec == mk.early_close
    IN /\ ec.new.kind = ec.old.kind
       /\ IF ec.state \in {"ScheduledAsMarketCreator", "ScheduledAsOther"}
          THEN mk.period = ec.new /\ ec.new.end < ec.old.end
          ELSE mk.period = ec.old

(* While a market is open its period is the one its early-close state says, *)
(* and a scheduled early close only ever brings the end forward: a dispute  *)
(* or a rejection restores exactly the original period.                     *)
EarlyCloseConsistent ==
  \A m \in MarketIds : PeriodFitsEarlyClose(Markets[m])

(* dispute_early_close and reject_early_close never return a market to a    *)
(* period that is over: "This will never happen" (debug_assert!(false)).    *)
NeverExpired == "expired" \notin logic_errors

-----------------------------------------------------------------------------
(* Global disputes *)

(* Once a global dispute runs, it alone decides when the market resolves:   *)
(* "ensure, that global disputes controls the resolution now".              *)
GlobalDisputeControlsResolution ==
  \A m \in MarketIds :
    Mechanisms[m].gd # None /\ HasStatus(m, "Disputed") =>
      \A n \in Blocks : MarketIdsPerDisputeBlock[m][n] > 0 =>
        n = Mechanisms[m].gd.vote_end

(* A reported court market whose dispute cannot be opened for lack of stake *)
(* counts as failed, so that a global dispute may start in its place: "None *)
(* case can happen if no dispute could be created, because there is not     *)
(* enough juror and delegator stake, in this case allow a global dispute".  *)
UnopenedCourtCountsAsFailed ==
  \A m \in MarketIds :
    /\ HasStatus(m, "Reported")
    /\ Markets[m].dispute_mechanism = "Court"
    /\ block < ReportEnd(Markets[m])
    => has_failed(Mechanisms[m], Markets[m], block, FALSE)

(* A global dispute ends with the market resolved on its canonical outcome. *)
GlobalDisputeResolves ==
  \A m \in MarketIds :
    Mechanisms[m].gd # None ~> HasStatus(m, "Resolved")

-----------------------------------------------------------------------------
(* Time and progress *)

\* The slot of the open market m was passed over, for a reason stated above.
Stranded(m) ==
  /\ IsOpen(m)
  /\ ~Ahead(Markets[m].period)
  /\ EndForgone(Markets[m])

(* Every market that is proposed or active is eventually closed, rejected   *)
(* or expired, although nobody has to call anything, unless its slot was    *)
(* passed over for one of the two reasons of CloseNotMissed.                *)
OpenMarketsClose ==
  \A m \in MarketIds : IsOpen(m) ~> ~IsOpen(m) \/ Stranded(m)

(* Every market closes once it ends: "Markets are automatically transitioned *)
(* into this state when the market ends" (docs/changelog_for_devs.md).       *)
MarketsCloseWhenTheyEnd == \A m \in MarketIds : IsOpen(m) ~> ~IsOpen(m)

(* Every report is eventually disputed or becomes the outcome, unless the   *)
(* block at the end of its dispute duration was rolled back, which another  *)
(* market in a global dispute can cause.                                    *)
ReportsAreDecided ==
  \A m \in MarketIds :
    HasStatus(m, "Reported")
      ~> \/ HasStatus(m, "Disputed") \/ HasStatus(m, "Resolved")
         \/ HasStatus(m, "Reported") /\ ReportEnd(Markets[m]) \in rolled_back

(* A disputed market whose mechanism has set a date is eventually resolved, *)
(* however often suggestions and appeals move the date, unless the last     *)
(* appeal has taken it off the schedule or the block of the date was rolled *)
(* back.                                                                    *)
ScheduledDisputesAreDecided ==
  \A m \in MarketIds :
    HasStatus(m, "Disputed") /\ ResolveAt(m) # None
      ~> \/ HasStatus(m, "Resolved")
         \/ Mechanisms[m].court_id /\ ResolveAt(m) = None
         \/ HasStatus(m, "Disputed") /\ ResolveAt(m) \in rolled_back

-----------------------------------------------------------------------------
(* What makes the invariants inductive *)

\* What the code relies on when it unwraps the report and the mechanism.
Unwrappable(mk) ==
  /\ mk.status \in {"Reported", "Disputed", "Resolved"} => mk.report # None
  /\ mk.status = "Disputed" => mk.dispute_mechanism # None

AllUnwrappable == \A m \in MarketIds : Live(m) => Unwrappable(Markets[m])

\* Ids from the counter on have never been used.
UnusedIds == \A m \in MarketIds : m >= MarketCounter => Markets[m] = None

(* Before block 1 there is nothing to process, so that the first pass of    *)
(* on_initialize succeeds; the frames processed are ahead of the clock by   *)
(* one at most, and only while the clock stands in a shared frame.          *)
ClockInv ==
  /\ block = 0 => \A m \in MarketIds :
       /\ Markets[m] = None
       /\ MarketIdsPerReportBlock[m] = Never(Blocks)
       /\ MarketIdsPerDisputeBlock[m] = Never(Blocks)
  /\ block > 0 => LastTimeFrame # None
  /\ LastTimeFrame # None =>
       LET frame == calculate_time_frame_of_moment(timestamp)
       IN \/ LastTimeFrame <= frame
          \/ LastTimeFrame = frame + 1 /\ frame \in shared_frames

ScheduleInv ==
  /\ TypeOK
  /\ AllUnwrappable
  /\ UnusedIds
  /\ ClockInv
  /\ CloseScheduled
  /\ EarlyCloseConsistent
  /\ CloseNotMissed

-----------------------------------------------------------------------------
(* The abstract specification *)

StageOf(m) ==
  IF Live(m) THEN Markets[m].status
  ELSE IF m < MarketCounter THEN "Removed" ELSE "Unborn"

ReportedOutcome(m) ==
  IF Live(m) /\ Markets[m].report # None THEN Markets[m].report.outcome
  ELSE None

ResolvedOutcome(m) == IF Live(m) THEN Markets[m].resolved_outcome ELSE None

Abstract == INSTANCE AbstractMarkets WITH
  Absent <- None,
  stage <- [m \in MarketIds |-> StageOf(m)],
  reported <- [m \in MarketIds |-> ReportedOutcome(m)],
  outcome <- [m \in MarketIds |-> ResolvedOutcome(m)]

(* The pallets implement AbstractMarkets: stages only advance, a report is  *)
(* never replaced, an undisputed report is the outcome, an outcome is       *)
(* final, and an id is never used again.                                    *)
ImplementsAbstractMarkets == Abstract!Spec
=============================================================================
