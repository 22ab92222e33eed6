---------------------------- MODULE MarketProofs ----------------------------
(***************************************************************************)
(* What the handlers of one market preserve: the types of its context, and *)
(* everything of the market that settling its bonds leaves alone.          *)
(***************************************************************************)
EXTENDS MarketLifecycle, TLAPS

\* The contexts of a stored market, and of a market that may be removed.
ContextType ==
  [mk: MarketRecord, reserve: Reserve, dm: MechanismState, ok: BOOLEAN,
   warned: SUBSET LogicError]

ResultType ==
  [mk: MarketRecord \cup {None}, reserve: Reserve, dm: MechanismState,
   ok: BOOLEAN, warned: SUBSET LogicError]

SameButBonds(a, z) ==
  /\ z.creator = a.creator /\ z.creation = a.creation /\ z.oracle = a.oracle
  /\ z.period = a.period /\ z.deadlines = a.deadlines /\ z.status = a.status
  /\ z.report = a.report /\ z.resolved_outcome = a.resolved_outcome
  /\ z.dispute_mechanism = a.dispute_mechanism
  /\ z.early_close = a.early_close

\* From context c to context z only bonds were settled or reserved.
OnlyBonds(c, z) ==
  z \in ContextType /\ SameButBonds(c.mk, z.mk) /\ z.dm = c.dm

LEMMA OnlyBondsReflexive ==
  ASSUME NEW c \in ContextType PROVE OnlyBonds(c, c)
BY DEF OnlyBonds, SameButBonds

LEMMA OnlyBondsTransitive ==
  ASSUME NEW a, NEW b, NEW c, OnlyBonds(a, b), OnlyBonds(b, c)
  PROVE  OnlyBonds(a, c)
BY DEF OnlyBonds, SameButBonds

(* The bond of a market can be replaced by any other bond.                  *)
LEMMA SetBond ==
  ASSUME NEW c \in ContextType, NEW b \in BondName, NEW bond \in Bond,
         NEW loc \in Location
  PROVE  OnlyBonds(c, [c EXCEPT !.mk.bonds[b] = bond, !.reserve[b] = loc])
<1> DEFINE bonds == [c.mk.bonds EXCEPT ![b] = bond]
           mk == [c.mk EXCEPT !.bonds = bonds]
           reserve == [c.reserve EXCEPT ![b] = loc]
<1>1. c.mk \in MarketRecord /\ c.reserve \in Reserve
  BY DEF ContextType
<1>2. bonds \in MarketBonds
  BY <1>1 DEF MarketRecord, MarketBonds
<1>3. mk \in MarketRecord /\ SameButBonds(c.mk, mk)
  BY <1>1, <1>2 DEF MarketRecord, SameButBonds
<1>4. reserve \in Reserve
  BY <1>1 DEF Reserve
<1> QED BY <1>3, <1>4, Zenon DEF ContextType, OnlyBonds

(* The settlement macros, whatever the bond and wherever its money goes.    *)
LEMMA SettleBond ==
  ASSUME NEW c \in ContextType, NEW b \in BondName, NEW loc,
         c.mk.bonds[b] # None => loc \in Location
  PROVE  OnlyBonds(c, settle_bond(c, b, loc))
<1>1. CASE c.mk.bonds[b] = None
  <2>1. settle_bond(c, b, loc) = [c EXCEPT !.ok = FALSE]
    BY <1>1 DEF settle_bond, Fail
  <2> QED BY <2>1, Zenon DEF ContextType, OnlyBonds, SameButBonds
<1>2. CASE c.mk.bonds[b] # None /\ c.mk.bonds[b].is_settled
  <2> DEFINE w == c.warned \cup {"settled_twice"}
  <2>1. settle_bond(c, b, loc) = [c EXCEPT !.warned = w]
    BY <1>2 DEF settle_bond
  <2>2. w \in SUBSET LogicError
    BY DEF ContextType, LogicError
  <2>3. settle_bond(c, b, loc) \in ContextType
    BY <2>1, <2>2 DEF ContextType
  <2>4. settle_bond(c, b, loc).mk = c.mk /\ settle_bond(c, b, loc).dm = c.dm
    BY <2>1 DEF ContextType
  <2> QED BY <2>3, <2>4 DEF OnlyBonds, SameButBonds
<1>3. CASE c.mk.bonds[b] # None /\ ~c.mk.bonds[b].is_settled
  <2> DEFINE bond == [c.mk.bonds[b] EXCEPT !.is_settled = TRUE]
  <2>1. bond \in Bond
    BY <1>3, Zenon DEF ContextType, MarketRecord, MarketBonds, Bond
  <2>2. settle_bond(c, b, loc)
          = [c EXCEPT !.mk.bonds[b] = bond, !.reserve[b] = loc]
    BY <1>3 DEF settle_bond
  <2> HIDE DEF bond
  <2>3. OnlyBonds(c, [c EXCEPT !.mk.bonds[b] = bond, !.reserve[b] = loc])
    BY <1>3, <2>1, SetBond, Zenon
  <2> QED BY <2>2, <2>3, Zenon
<1> QED BY <1>1, <1>2, <1>3

LEMMA BondOwner ==
  ASSUME NEW c \in ContextType, NEW b \in BondName, c.mk.bonds[b] # None
  PROVE  c.mk.bonds[b].who \in Location
BY DEF ContextType, MarketRecord, MarketBonds, Bond, Location

(* The instances of the macros.                                             *)
LEMMA UnreserveOnly ==
  ASSUME NEW c \in ContextType, NEW b \in BondName
  PROVE  OnlyBonds(c, unreserve_bond(c, b))
BY SettleBond, BondOwner DEF unreserve_bond

LEMMA SlashOnly ==
  ASSUME NEW c \in ContextType, NEW b \in BondName
  PROVE  /\ OnlyBonds(c, slash_bond(c, b))
         /\ OnlyBonds(c, slash_percentage_of_bond(c, b))
<1>1. {"Slashed", "Split"} \subseteq Location
  BY DEF Location
<1> QED BY <1>1, SettleBond DEF slash_bond, slash_percentage_of_bond

LEMMA RepatriateOnly ==
  ASSUME NEW c \in ContextType, NEW b \in BondName, NEW who \in Accounts
  PROVE  OnlyBonds(c, repatriate_bond(c, b, who))
<1>1. who \in Location
  BY DEF Location
<1> QED BY <1>1, SettleBond DEF repatriate_bond

LEMMA UnreservePendingOnly ==
  ASSUME NEW c \in ContextType, NEW b \in BondName
  PROVE  OnlyBonds(c, UnreservePending(c, b))
BY UnreserveOnly, OnlyBondsReflexive DEF UnreservePending

LEMMA ReserveOnly ==
  ASSUME NEW c \in ContextType, NEW b \in BondName, NEW who \in Accounts
  PROVE  OnlyBonds(c, reserve_bond(c, b, who))
<1>1. [who |-> who, is_settled |-> FALSE] \in Bond
  BY DEF Bond
<1>2. "Held" \in Location
  BY DEF Location
<1> QED BY <1>1, <1>2, SetBond, Zenon DEF reserve_bond

-----------------------------------------------------------------------------
(* Closing *)

LEMMA ReleaseCloseBondsOnly ==
  ASSUME NEW c \in ContextType
  PROVE  OnlyBonds(c, ReleaseCloseBonds(c))
<1> DEFINE req == UnreservePending(c, "close_request")
           dis == UnreservePending(c, "close_dispute")
           both == UnreservePending(dis, "close_request")
<1>0. {"close_request", "close_dispute"} \subseteq BondName
  BY DEF BondName
<1>1. OnlyBonds(c, c) /\ OnlyBonds(c, req) /\ OnlyBonds(c, dis)
  BY <1>0, OnlyBondsReflexive, UnreservePendingOnly
<1>2. OnlyBonds(dis, both)
  BY <1>0, <1>1, UnreservePendingOnly DEF OnlyBonds
<1>3. OnlyBonds(c, both)
  BY <1>1, <1>2, OnlyBondsTransitive
<1>4. c.mk.early_close = None \/ c.mk.early_close.state \in EarlyCloseState
  BY DEF ContextType, MarketRecord, EarlyClose
<1>5. ReleaseCloseBonds(c) \in {c, req, both}
  BY <1>4 DEF ReleaseCloseBonds, EarlyCloseState
<1> HIDE DEF req, both
<1> QED BY <1>1, <1>3, <1>5

(* close_market closes an active market and leaves its period alone.        *)
LEMMA CloseMarket ==
  ASSUME NEW c \in ContextType
  PROVE  /\ close_market(c) \in ContextType
         /\ close_market(c).mk = [c.mk EXCEPT !.status = "Closed"]
         /\ close_market(c).dm = c.dm
         /\ close_market(c).ok => c.mk.status = "Active"
<1> DEFINE mk == [c.mk EXCEPT !.status = "Closed"]
           released == ReleaseCloseBonds(c)
           ok == c.mk.status = "Active" /\ released.ok
<1>1. released \in ContextType
  BY ReleaseCloseBondsOnly DEF OnlyBonds
<1>2. mk \in MarketRecord
  BY DEF ContextType, MarketRecord, MarketStatus
<1>3. released.reserve \in Reserve /\ ok \in BOOLEAN
  BY <1>1 DEF ContextType
<1>4. close_market(c)
        = [c EXCEPT !.mk = mk, !.reserve = released.reserve, !.ok = ok]
  BY DEF close_market
<1> HIDE DEF mk, released
<1>5. /\ close_market(c) \in ContextType
      /\ close_market(c).mk = mk
      /\ close_market(c).dm = c.dm
      /\ close_market(c).ok = ok
  BY <1>2, <1>3, <1>4, Zenon DEF ContextType
<1> QED BY <1>5, Zenon DEF mk

(* The market is gone, the rest of the context is as in c.                  *)
LEMMA RemoveMarket ==
  ASSUME NEW c \in ContextType
  PROVE  /\ [c EXCEPT !.mk = None] \in ResultType
         /\ [c EXCEPT !.mk = None].mk = None
BY DEF ContextType, ResultType

LEMMA HandleExpired ==
  ASSUME NEW c \in ContextType
  PROVE  /\ handle_expired_advised_market(c) \in ResultType
         /\ handle_expired_advised_market(c).mk = None
<1> DEFINE a == unreserve_bond(c, "creation")
           z == unreserve_bond(a, "oracle")
<1>0. {"creation", "oracle"} \subseteq BondName
  BY DEF BondName
<1>1. a \in ContextType
  BY <1>0, UnreserveOnly DEF OnlyBonds
<1>2. z \in ContextType
  BY <1>0, <1>1, UnreserveOnly DEF OnlyBonds
<1> QED BY <1>2, RemoveMarket DEF handle_expired_advised_market

LEMMA DoReject ==
  ASSUME NEW c \in ContextType
  PROVE  /\ do_reject_market(c) \in ResultType
         /\ do_reject_market(c).mk = None
<1> DEFINE a == unreserve_bond(c, "oracle")
           z == slash_percentage_of_bond(a, "creation")
<1>0. {"creation", "oracle"} \subseteq BondName
  BY DEF BondName
<1>1. a \in ContextType
  BY <1>0, UnreserveOnly DEF OnlyBonds
<1>2. z \in ContextType
  BY <1>0, <1>1, SlashOnly DEF OnlyBonds
<1> QED BY <1>2, RemoveMarket DEF do_reject_market

(* A market that is closed on schedule is closed or gone afterwards.        *)
LEMMA OnMarketClose ==
  ASSUME NEW c \in ContextType
  PROVE  /\ on_market_close(c) \in ResultType
         /\ on_market_close(c).ok =>
              \/ on_market_close(c).mk = None
              \/ on_market_close(c).mk = [c.mk EXCEPT !.status = "Closed"]
<1>1. CASE c.mk.status = "Active"
  <2>1. on_market_close(c) = close_market(c)
    BY <1>1 DEF on_market_close
  <2>2. close_market(c) \in ResultType
    BY CloseMarket, Zenon DEF ContextType, ResultType
  <2> QED BY <2>1, <2>2, CloseMarket
<1>2. CASE c.mk.status = "Proposed"
  <2>1. on_market_close(c) = handle_expired_advised_market(c)
    BY <1>2 DEF on_market_close
  <2> QED BY <2>1, HandleExpired
<1>3. CASE c.mk.status \notin {"Active", "Proposed"}
  <2>1. on_market_close(c) = [c EXCEPT !.ok = FALSE]
    BY <1>3 DEF on_market_close, Fail
  <2> QED BY <2>1, Zenon DEF ContextType, ResultType
<1> QED BY <1>1, <1>2, <1>3

-----------------------------------------------------------------------------
(* Resolution *)

LEMMA ResolveReportedOnly ==
  ASSUME NEW c \in ContextType, c.mk.report # None
  PROVE  OnlyBonds(c, resolve_reported_market(c))
<1> DEFINE paid == repatriate_bond(c, "oracle", c.mk.report.by)
           z == UnreservePending(paid, "outsider")
<1>0. {"oracle", "outsider"} \subseteq BondName
  BY DEF BondName
<1>1. c.mk.report.by \in Accounts
  BY DEF ContextType, MarketRecord, Report
<1>2. OnlyBonds(c, unreserve_bond(c, "oracle"))
  BY <1>0, UnreserveOnly
<1>3. OnlyBonds(c, paid)
  BY <1>0, <1>1, RepatriateOnly
<1>4. OnlyBonds(paid, z)
  BY <1>0, <1>3, UnreservePendingOnly DEF OnlyBonds
<1>5. OnlyBonds(c, z)
  BY <1>3, <1>4, OnlyBondsTransitive
<1> QED BY <1>2, <1>5 DEF resolve_reported_market

LEMMA SettleBondsOnly ==
  ASSUME NEW c \in ContextType, c.mk.report # None, NEW o
  PROVE  OnlyBonds(c, settle_bonds(c, o))
<1> DEFINE mk == c.mk
           is_correct == mk.report.outcome = o
           disputed == is_bond_pending(mk, "dispute")
           beneficiary ==
             IF disputed THEN mk.bonds["dispute"].who ELSE "Slashed"
           paid == repatriate_bond(c, "oracle", mk.report.by)
           slashed == settle_bond(c, "oracle", beneficiary)
           reported ==
             CASE mk.report.by = mk.oracle /\ is_correct ->
                    unreserve_bond(c, "oracle")
               [] mk.report.by = mk.oracle /\ ~is_correct -> slashed
               [] mk.report.by # mk.oracle /\ is_correct ->
                    UnreservePending(paid, "outsider")
               [] mk.report.by # mk.oracle /\ ~is_correct ->
                    IF is_bond_pending(mk, "outsider")
                    THEN settle_bond(slashed, "outsider", beneficiary)
                    ELSE slashed
<1>0. {"oracle", "outsider", "dispute"} \subseteq BondName
  BY DEF BondName
<1>1. mk.report.by \in Accounts
  BY DEF ContextType, MarketRecord, Report
<1>2. beneficiary \in Location
  BY <1>0, BondOwner DEF is_bond_pending, Location
<1>3. OnlyBonds(c, unreserve_bond(c, "oracle"))
  BY <1>0, UnreserveOnly
<1>4. OnlyBonds(c, paid)
  BY <1>0, <1>1, RepatriateOnly
<1>5. OnlyBonds(c, UnreservePending(paid, "outsider"))
  <2>1. OnlyBonds(paid, UnreservePending(paid, "outsider"))
    BY <1>0, <1>4, UnreservePendingOnly DEF OnlyBonds
  <2> QED BY <1>4, <2>1, OnlyBondsTransitive
<1>6. OnlyBonds(c, slashed)
  BY <1>0, <1>2, SettleBond
<1>7. OnlyBonds(c, settle_bond(slashed, "outsider", beneficiary))
  <2> HIDE DEF beneficiary
  <2>1. slashed \in ContextType
    BY <1>6 DEF OnlyBonds
  <2> HIDE DEF slashed
  <2>2. OnlyBonds(slashed, settle_bond(slashed, "outsider", beneficiary))
    BY <1>0, <1>2, <2>1, SettleBond
  <2> QED BY <1>6, <2>2, OnlyBondsTransitive
<1>8. OnlyBonds(c, reported)
  <2> HIDE DEF beneficiary, slashed, paid, is_correct
  <2> QED BY <1>3, <1>5, <1>6, <1>7
<1>9. settle_bonds(c, o) =
        IF ~disputed THEN reported
        ELSE IF is_correct THEN slash_bond(reported, "dispute")
        ELSE unreserve_bond(reported, "dispute")
  BY DEF settle_bonds
<1> HIDE DEF reported
<1>10. reported \in ContextType
  BY <1>8 DEF OnlyBonds
<1>11. /\ OnlyBonds(reported, slash_bond(reported, "dispute"))
       /\ OnlyBonds(reported, unreserve_bond(reported, "dispute"))
  BY <1>0, <1>10, SlashOnly, UnreserveOnly
<1>12. /\ OnlyBonds(c, slash_bond(reported, "dispute"))
       /\ OnlyBonds(c, unreserve_bond(reported, "dispute"))
  BY <1>8, <1>11, OnlyBondsTransitive
<1> QED BY <1>8, <1>9, <1>12

ResolutionType ==
  [outcome: Outcomes \cup {None}, dm: MechanismState, ok: BOOLEAN]

LEMMA MechanismResolutionType ==
  ASSUME NEW dm \in MechanismState, NEW verdict \in Outcomes
  PROVE  /\ Authorized_on_resolution(dm) \in ResolutionType
         /\ SimpleDisputes_on_resolution(dm) \in ResolutionType
         /\ Court_on_resolution(dm, verdict) \in ResolutionType
         /\ dm.gd # None =>
              determine_voting_winner(dm, verdict) \in ResolutionType
<1>1. Authorized_on_resolution(dm) \in ResolutionType
  <2>1. [dm EXCEPT !.authorized = None] \in MechanismState
    BY DEF MechanismState
  <2>2. dm.authorized # None => dm.authorized.outcome \in Outcomes
    BY DEF MechanismState, AuthorityReport
  <2> QED BY <2>1, <2>2 DEF Authorized_on_resolution, Resolution, ResolutionType
<1>2. SimpleDisputes_on_resolution(dm) \in ResolutionType
  <2>1. dm.disputes \in Seq(MarketDispute)
    BY DEF MechanismState
  <2>2. ASSUME dm.disputes # << >>
        PROVE  dm.disputes[Len(dm.disputes)].outcome \in Outcomes
    <3>1. dm.disputes[Len(dm.disputes)] \in MarketDispute
      BY <2>1, <2>2
    <3> QED BY <3>1 DEF MarketDispute
  <2> QED BY <2>2 DEF SimpleDisputes_on_resolution, Resolution, ResolutionType
<1>3. Court_on_resolution(dm, verdict) \in ResolutionType
  <2>1. ASSUME dm.court # None
        PROVE  [dm EXCEPT !.court.status = "Closed"] \in MechanismState
    <3>1. [dm.court EXCEPT !.status = "Closed"] \in CourtInfo
      BY <2>1 DEF MechanismState, CourtInfo
    <3> QED BY <3>1 DEF MechanismState
  <2> QED BY <2>1 DEF Court_on_resolution, Resolution, ResolutionType
<1>4. ASSUME dm.gd # None
      PROVE  determine_voting_winner(dm, verdict) \in ResolutionType
  <2>1. [dm.gd EXCEPT !.status = "Finished"] \in GlobalDisputeInfo
    BY <1>4 DEF MechanismState, GlobalDisputeInfo
  <2>2. [dm EXCEPT !.gd.status = "Finished"] \in MechanismState
    BY <2>1 DEF MechanismState
  <2> QED BY <2>2 DEF determine_voting_winner, Resolution, ResolutionType
<1> QED BY <1>1, <1>2, <1>3, <1>4

LEMMA ResolvedOutcomeType ==
  ASSUME NEW dm \in MechanismState, NEW mk \in MarketRecord,
         NEW verdict \in Outcomes, mk.report # None,
         mk.dispute_mechanism # None
  PROVE  /\ get_resolved_outcome(dm, mk, verdict) \in ResolutionType
         /\ get_resolved_outcome(dm, mk, verdict).outcome \in Outcomes
<1> DEFINE res == IF dm.gd # None THEN determine_voting_winner(dm, verdict)
                  ELSE MechanismResolution(dm, mk, verdict)
<1>1. mk.dispute_mechanism \in MarketDisputeMechanism
  BY DEF MarketRecord
<1>2. res \in ResolutionType
  BY <1>1, MechanismResolutionType
     DEF MechanismResolution, MarketDisputeMechanism
<1>3. mk.report.outcome \in Outcomes
  BY DEF MarketRecord, Report
<1>4. get_resolved_outcome(dm, mk, verdict) =
        IF res.outcome = None THEN [res EXCEPT !.outcome = mk.report.outcome]
        ELSE res
  BY DEF get_resolved_outcome
<1> HIDE DEF res
<1> QED BY <1>2, <1>3, <1>4 DEF ResolutionType

LEMMA ExchangeType ==
  ASSUME NEW dm \in MechanismState, NEW mk
  PROVE  exchange(dm, mk) \in [ok: BOOLEAN, dm: MechanismState]
<1>1. << >> \in Seq(MarketDispute)
  OBVIOUS
<1>2. [dm EXCEPT !.disputes = << >>] \in MechanismState
  BY <1>1, Zenon DEF MechanismState
<1> QED BY <1>2 DEF exchange, SimpleDisputes_exchange, Court_exchange_ok

(* A resolution that succeeds makes a reported or disputed market Resolved  *)
(* and leaves its period, report and mechanism alone.                       *)
Resolves(c, z) ==
  /\ z \in ContextType
  /\ z.ok => /\ c.mk.status \in {"Reported", "Disputed"}
             /\ z.mk.status = "Resolved"
             /\ z.mk.report = c.mk.report

LEMMA ResolveStep ==
  ASSUME NEW c \in ContextType, NEW o \in Outcomes, NEW d \in ContextType,
         c.mk.status \in {"Reported", "Disputed"},
         d.mk.report = c.mk.report
  PROVE  Resolves(c, Resolve(d, o))
<1> DEFINE mk == [d.mk EXCEPT !.status = "Resolved", !.resolved_outcome = o]
<1>1. mk \in MarketRecord
  BY Zenon DEF ContextType, MarketRecord, MarketStatus
<1>2. mk.status = "Resolved" /\ mk.report = d.mk.report
  BY DEF ContextType, MarketRecord
<1>3. Resolve(d, o) = [d EXCEPT !.mk = mk]
  BY DEF Resolve
<1> HIDE DEF mk
<1> QED BY <1>1, <1>2, <1>3 DEF ContextType, Resolves

LEMMA OnResolution ==
  ASSUME NEW c \in ContextType, NEW verdict \in Outcomes, Unwrappable(c.mk)
  PROVE  Resolves(c, on_resolution(c, verdict))
<1> DEFINE c1 == IF c.mk.creation = "Permissionless"
                 THEN unreserve_bond(c, "creation") ELSE c
<1>0. "creation" \in BondName
  BY DEF BondName
<1>1. OnlyBonds(c, c1)
  BY <1>0, UnreserveOnly, OnlyBondsReflexive
<1>2. /\ c1 \in ContextType
      /\ c1.mk.status = c.mk.status
      /\ c1.mk.report = c.mk.report
      /\ c1.mk.dispute_mechanism = c.mk.dispute_mechanism
      /\ c1.dm = c.dm
  BY <1>1 DEF OnlyBonds, SameButBonds
<1> HIDE DEF c1
<1>3. CASE c.mk.status = "Reported"
  <2> DEFINE z == resolve_reported_market(c1)
  <2>1. on_resolution(c, verdict) = Resolve(z, c.mk.report.outcome)
    BY <1>3 DEF on_resolution, c1
  <2>2. c.mk.report # None
    BY <1>3 DEF Unwrappable
  <2>3. c.mk.report.outcome \in Outcomes
    BY <2>2 DEF ContextType, MarketRecord, Report
  <2>4. OnlyBonds(c1, z)
    BY <1>2, <2>2, ResolveReportedOnly
  <2>5. z \in ContextType /\ z.mk.report = c.mk.report
    BY <1>2, <2>4 DEF OnlyBonds, SameButBonds
  <2> HIDE DEF z
  <2> QED BY <1>3, <2>1, <2>3, <2>5, ResolveStep
<1>4. CASE c.mk.status = "Disputed"
  <2> DEFINE res == get_resolved_outcome(c1.dm, c1.mk, verdict)
             settled == settle_bonds(c1, res.outcome)
             paid == exchange(res.dm, c1.mk)
             ok == settled.ok /\ res.ok /\ paid.ok
             z == [settled EXCEPT !.dm = paid.dm, !.ok = ok]
  <2>1. on_resolution(c, verdict) = Resolve(z, res.outcome)
    BY <1>4 DEF on_resolution, c1, resolve_disputed_market
  <2>2. c.mk.report # None /\ c.mk.dispute_mechanism # None
    BY <1>4 DEF Unwrappable
  <2>3. c1.mk \in MarketRecord /\ c1.dm \in MechanismState
    BY <1>2 DEF ContextType
  <2>4. res \in ResolutionType /\ res.outcome \in Outcomes
    BY <1>2, <2>2, <2>3, ResolvedOutcomeType
  <2> HIDE DEF res
  <2>5. paid \in [ok: BOOLEAN, dm: MechanismState]
    BY <2>4, ExchangeType DEF ResolutionType
  <2> HIDE DEF paid
  <2>6. OnlyBonds(c1, settled)
    BY <1>2, <2>2, SettleBondsOnly
  <2> HIDE DEF settled
  <2>7. settled \in ContextType /\ settled.mk.report = c.mk.report
    BY <1>2, <2>6 DEF OnlyBonds, SameButBonds
  <2>8. ok \in BOOLEAN
    OBVIOUS
  <2> HIDE DEF ok
  <2>9. z \in ContextType /\ z.mk = settled.mk
    BY <2>5, <2>7, <2>8, Zenon DEF ContextType
  <2> HIDE DEF z
  <2>10. Resolves(c, Resolve(z, res.outcome))
    BY <1>4, <2>4, <2>7, <2>9, ResolveStep
  <2> QED BY <2>1, <2>10
<1>5. CASE c.mk.status \notin {"Reported", "Disputed"}
  <2>1. on_resolution(c, verdict) = [c EXCEPT !.ok = FALSE]
    BY <1>5 DEF on_resolution, Fail
  <2> QED BY <2>1, Zenon DEF ContextType, Resolves
<1> QED BY <1>3, <1>4, <1>5

-----------------------------------------------------------------------------
(* One market in on_initialize *)

LEMMA ContextIsResult ==
  ASSUME NEW c \in ContextType
  PROVE  c \in ResultType /\ c.mk \in MarketRecord /\ c.mk # None
<1>1. c.mk \in MarketRecord
  BY DEF ContextType
<1>2. c.mk # None
  BY <1>1, MarketAssumption
<1> QED BY <1>1, <1>2 DEF ContextType, ResultType

LEMMA ContextOfType ==
  ASSUME ScheduleInv, NEW m \in MarketIds
  PROVE  /\ ContextOf(m) \in ResultType
         /\ ContextOf(m).mk = Markets[m]
         /\ ContextOf(m).ok
<1>1. /\ Markets[m] \in MarketRecord \cup {None} /\ Reserves[m] \in Reserve
      /\ Mechanisms[m] \in MechanismState
  BY DEF ScheduleInv, TypeOK
<1>2. {} \in SUBSET LogicError
  OBVIOUS
<1> QED BY <1>1, <1>2 DEF ContextOf, Context, ResultType

LEMMA FailType ==
  ASSUME NEW c \in ResultType PROVE Fail(c) \in ResultType /\ ~Fail(c).ok
BY Zenon DEF Fail, ResultType

LEMMA ResultWithMarket ==
  ASSUME NEW c \in ResultType, c.mk # None PROVE c \in ContextType
BY DEF ResultType, ContextType

(* What the managers of block n may make of market m, up to some point.     *)
Follows(m, n, z) ==
  /\ z \in ResultType
  /\ z.ok =>
       /\ Open(z.mk) <=> Open(Markets[m]) /\ ~ClosesAt(m, n)
       /\ Open(z.mk) => /\ z.mk.period = Markets[m].period
                        /\ z.mk.early_close = Markets[m].early_close
       /\ z.mk # None => Markets[m] # None /\ Unwrappable(z.mk)

LEMMA AfterCloseFollows ==
  ASSUME ScheduleInv, NEW m \in MarketIds, NEW n
  PROVE  Follows(m, n, AfterClose(ContextOf(m), m, n))
<1> DEFINE c == ContextOf(m)
           z == on_market_close(c)
<1>1. c \in ResultType /\ c.mk = Markets[m] /\ c.ok
  BY ContextOfType
<1> HIDE DEF c
<1>2. CASE ~ClosesAt(m, n)
  <2>1. AfterClose(c, m, n) = c
    BY <1>2 DEF AfterClose
  <2>2. c.mk # None => Unwrappable(c.mk)
    BY <1>1 DEF ScheduleInv, AllUnwrappable, Live
  <2> QED BY <1>1, <1>2, <2>1, <2>2 DEF Follows, c
<1>3. CASE ClosesAt(m, n) /\ (c.mk = None \/ ClosesTwiceAt(m, n))
  <2>1. AfterClose(c, m, n) = Fail(c)
    BY <1>3 DEF AfterClose
  <2> QED BY <1>1, <2>1, FailType DEF Follows, c
<1>4. CASE ClosesAt(m, n) /\ c.mk # None /\ ~ClosesTwiceAt(m, n)
  <2>1. AfterClose(c, m, n) = z
    BY <1>4 DEF AfterClose
  <2>2. c \in ContextType
    BY <1>1, <1>4, ResultWithMarket
  <2>3. /\ z \in ResultType
        /\ z.ok => z.mk = None \/ z.mk = [c.mk EXCEPT !.status = "Closed"]
    BY <2>2, OnMarketClose
  <2> HIDE DEF z
  <2>4. ASSUME z.mk = [c.mk EXCEPT !.status = "Closed"]
        PROVE  z.mk.status = "Closed"
    BY <2>2, <2>4 DEF ContextType, MarketRecord
  <2>5. z.ok => z.mk = None \/ z.mk.status = "Closed"
    BY <2>3, <2>4
  <2>6. z.ok => ~Open(z.mk) /\ (z.mk # None => Unwrappable(z.mk))
    BY <2>5 DEF Open, Unwrappable
  <2> QED BY <1>1, <1>4, <2>1, <2>3, <2>6 DEF Follows, c
<1> QED BY <1>2, <1>3, <1>4

(* A scheduled resolution keeps what is known of the market.                *)
LEMMA ResolutionFollows ==
  ASSUME NEW m \in MarketIds, NEW n, NEW c, Follows(m, n, c), c.ok,
         c.mk # None, NEW verdict \in Outcomes
  PROVE  Follows(m, n, on_resolution(c, verdict))
<1> DEFINE z == on_resolution(c, verdict)
<1>1. c \in ContextType /\ Unwrappable(c.mk)
  BY ResultWithMarket DEF Follows
<1>2. Resolves(c, z)
  BY <1>1, OnResolution
<1> HIDE DEF z
<1>3. z \in ResultType
  BY <1>2, ContextIsResult DEF Resolves
<1>4. z.ok => ~Open(z.mk) /\ ~Open(c.mk) /\ Unwrappable(z.mk)
  BY <1>1, <1>2 DEF Resolves, Open, Unwrappable
<1>5. Markets[m] # None
  BY DEF Follows
<1> QED BY <1>3, <1>4, <1>5 DEF Follows, z

LEMMA ProcessedFollows ==
  ASSUME ScheduleInv, NEW m \in MarketIds, NEW n \in Blocks,
         NEW verdict \in Outcomes
  PROVE  Follows(m, n, Processed(m, n, verdict))
<1> DEFINE closed == AfterClose(ContextOf(m), m, n)
           reported == IF closed.ok THEN AfterReport(closed, m, n, verdict)
                       ELSE closed
           z == IF reported.ok THEN AfterDispute(reported, m, n, verdict)
                ELSE reported
<1>0. /\ MarketIdsPerReportBlock[m][n] \in Nat
      /\ MarketIdsPerDisputeBlock[m][n] \in Nat
  BY DEF ScheduleInv, TypeOK, CacheOf
<1>1. Follows(m, n, closed)
  BY AfterCloseFollows
<1> HIDE DEF closed
<1>2. Follows(m, n, reported)
  <2>1. SUFFICES ASSUME closed.ok
                 PROVE  Follows(m, n, AfterReport(closed, m, n, verdict))
    BY <1>1
  <2>2. Follows(m, n, Fail(closed))
    BY <1>1, FailType DEF Follows
  <2>3. closed.mk # None => Follows(m, n, on_resolution(closed, verdict))
    BY <1>1, <2>1, ResolutionFollows
  <2> QED BY <1>0, <1>1, <2>2, <2>3 DEF AfterReport
<1> HIDE DEF reported
<1>3. Follows(m, n, z)
  <2>1. SUFFICES ASSUME reported.ok
                 PROVE  Follows(m, n, AfterDispute(reported, m, n, verdict))
    BY <1>2
  <2>2. Follows(m, n, Fail(reported))
    BY <1>2, FailType DEF Follows
  <2>3. reported.mk # None => Follows(m, n, on_resolution(reported, verdict))
    BY <1>2, <2>1, ResolutionFollows
  <2> QED BY <1>0, <1>2, <2>2, <2>3 DEF AfterDispute
<1>4. Processed(m, n, verdict) = z
  BY DEF Processed, z, reported, closed
<1> QED BY <1>3, <1>4
=============================================================================
