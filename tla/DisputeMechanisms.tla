-------------------------- MODULE DisputeMechanisms --------------------------
(***************************************************************************)
(* What the dispute pallets keep for one market, and the DisputeApi and    *)
(* GlobalDisputesPalletApi calls that zrml-prediction-markets makes on     *)
(* them: zrml/authorized, zrml/simple-disputes, zrml/court and             *)
(* zrml/global-disputes.                                                   *)
(*                                                                         *)
(* The court is kept at the level the market lifecycle sees: the end of    *)
(* its round, how many appeals it had, and whether the jurors' stake       *)
(* suffices for the next draw (a choice).  Its verdict is a choice too, as *)
(* is the winner of a global dispute.                                      *)
(***************************************************************************)
EXTENDS Market

CONSTANTS
  CorrectionPeriod,     \* authorized: time to correct the authority's report
  MaxDisputes,          \* simple disputes: number of suggestions
  VotePeriod, AggregationPeriod, AppealPeriod, \* court: lengths of a round
  MaxAppeals,           \* court: number of appeals
  AddOutcomePeriod, GdVotingPeriod \* global disputes: its two phases

ASSUME MechanismAssumption ==
  /\ CorrectionPeriod \in Nat \ {0}    \* "This value must not be zero."
  /\ MaxDisputes \in Nat \ {0}
  /\ VotePeriod \in Nat \ {0}
  /\ AggregationPeriod \in Nat \ {0}
  /\ AppealPeriod \in Nat \ {0}
  /\ MaxAppeals \in Nat \ {0}
  /\ AddOutcomePeriod \in Nat \ {0}
  /\ GdVotingPeriod \in Nat \ {0}

AuthorityReport == [resolve_at: Blocks, outcome: Outcomes]

MarketDispute == [at: Blocks, by: Accounts, outcome: Outcomes]

CourtInfo ==
  [status: {"Open", "Closed"}, aggregation: Blocks, appeal: Blocks,
   appeals: 0 .. MaxAppeals]

GlobalDisputeInfo ==
  [status: {"Active", "Finished"}, add_outcome_end: Blocks, vote_end: Blocks]

(* authorized: AuthorizedOutcomeReports.  disputes: Disputes.  court_id:    *)
(* whether MarketIdToCourtId has an entry.  court: the Courts entry.        *)
(* gd: GlobalDisputesInfo.                                                  *)
MechanismState ==
  [authorized: AuthorityReport \cup {None}, disputes: Seq(MarketDispute),
   court_id: BOOLEAN, court: CourtInfo \cup {None},
   gd: GlobalDisputeInfo \cup {None}]

ASSUME MechanismNoneAssumption ==
  /\ None \notin AuthorityReport
  /\ None \notin CourtInfo
  /\ None \notin GlobalDisputeInfo

NoMechanismState ==
  [authorized |-> None, disputes |-> << >>, court_id |-> FALSE,
   court |-> None, gd |-> None]

-----------------------------------------------------------------------------
(* DisputeApi *)

\* CourtInfo::new and CourtInfo::update_round: a round that starts voting at
\* request_block.
RoundOf(request_block, appeals) ==
  [status |-> "Open",
   aggregation |-> request_block + VotePeriod + AggregationPeriod,
   appeal |-> request_block + VotePeriod + AggregationPeriod + AppealPeriod,
   appeals |-> appeals]

\* on_dispute: only the court does something.
on_dispute(dm, mechanism, request_block) ==
  IF mechanism = "Court"
  THEN [dm EXCEPT !.court_id = TRUE, !.court = RoundOf(request_block, 0)]
  ELSE dm

\* get_auto_resolve: the block at which the mechanism wants to resolve.
Authorized_get_auto_resolve(dm) ==
  IF dm.authorized = None THEN None ELSE dm.authorized.resolve_at

SimpleDisputes_get_auto_resolve(dm, mk) ==
  IF dm.disputes = << >> THEN None
  ELSE dm.disputes[Len(dm.disputes)].at + mk.deadlines.dispute_duration

Court_get_auto_resolve(dm) ==
  IF dm.court = None THEN None ELSE dm.court.appeal

get_auto_resolve(dm, mk) ==
  CASE mk.dispute_mechanism = "Authorized" -> Authorized_get_auto_resolve(dm)
    [] mk.dispute_mechanism = "SimpleDisputes" ->
         SimpleDisputes_get_auto_resolve(dm, mk)
    [] mk.dispute_mechanism = "Court" -> Court_get_auto_resolve(dm)

\* The court lets the market be appealed (check_appealable_market).
Appealable(dm, now) ==
  dm.court.aggregation < now /\ now < dm.court.appeal

(* has_failed of the court. stake_suffices: the pool holds enough           *)
(* unconsumed stake for the next draw.  Err without a court id.             *)
has_failed(dm, mk, now, stake_suffices) ==
  /\ dm.court_id
  /\ IF dm.court # None
     THEN \/ dm.court.appeals = MaxAppeals
          \/ Appealable(dm, now) /\ ~stake_suffices
     ELSE /\ mk.report.at <= now
          /\ now < mk.report.at + mk.deadlines.dispute_duration
          /\ ~stake_suffices

\* on_global_dispute of the court: the Courts entry goes, the id stays.
on_global_dispute(dm) == [dm EXCEPT !.court = None]

\* start_global_dispute of zrml-global-disputes, without its auto resolve.
start_voting(dm, now) ==
  [dm EXCEPT !.gd = [status |-> "Active",
                     add_outcome_end |-> now + AddOutcomePeriod,
                     vote_end |-> now + AddOutcomePeriod + GdVotingPeriod]]

-----------------------------------------------------------------------------
(* Resolution: what the calls of resolve_disputed_market return (an outcome *)
(* or None), the state they leave and whether they succeed.                 *)

Resolution(outcome, dm, ok) == [outcome |-> outcome, dm |-> dm, ok |-> ok]

\* The authority's report is taken out of storage.
Authorized_on_resolution(dm) ==
  Resolution(IF dm.authorized = None THEN None ELSE dm.authorized.outcome,
             [dm EXCEPT !.authorized = None], TRUE)

\* The last suggestion wins.
SimpleDisputes_on_resolution(dm) ==
  Resolution(IF dm.disputes = << >> THEN None
             ELSE dm.disputes[Len(dm.disputes)].outcome, dm, TRUE)

Court_on_resolution(dm, verdict) ==
  IF dm.court = None THEN Resolution(None, dm, FALSE)      \* CourtNotFound
  ELSE Resolution(verdict, [dm EXCEPT !.court.status = "Closed"], TRUE)

\* Of zrml-global-disputes: some outcome whenever a vote was ever started.
determine_voting_winner(dm, verdict) ==
  Resolution(verdict, [dm EXCEPT !.gd.status = "Finished"], TRUE)

MechanismResolution(dm, mk, verdict) ==
  CASE mk.dispute_mechanism = "Authorized" -> Authorized_on_resolution(dm)
    [] mk.dispute_mechanism = "SimpleDisputes" ->
         SimpleDisputes_on_resolution(dm)
    [] mk.dispute_mechanism = "Court" -> Court_on_resolution(dm, verdict)

\* The vote of a global dispute goes first, the report is the default.
get_resolved_outcome(dm, mk, verdict) ==
  LET res == IF dm.gd # None THEN determine_voting_winner(dm, verdict)
             ELSE MechanismResolution(dm, mk, verdict)
  IN IF res.outcome = None
     THEN [res EXCEPT !.outcome = mk.report.outcome] ELSE res

\* exchange: simple disputes settles its own bonds and empties its list.
SimpleDisputes_exchange(dm) == [dm EXCEPT !.disputes = << >>]

\* The court slashes or returns the appeal bonds of its Courts entry.
Court_exchange_ok(dm) == dm.court # None

exchange(dm, mk) ==
  [ok |-> mk.dispute_mechanism = "Court" => Court_exchange_ok(dm),
   dm |-> IF mk.dispute_mechanism = "SimpleDisputes"
          THEN SimpleDisputes_exchange(dm) ELSE dm]
=============================================================================
