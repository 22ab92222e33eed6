--------------------------- MODULE AbstractMarkets ---------------------------
(***************************************************************************)
(* What the lifecycle promises to whoever holds outcome tokens: every      *)
(* market moves forward through its stages, a report is made once and      *)
(* never replaced, an undisputed report is the outcome, and an outcome is  *)
(* final.  A block may move several markets at once.                       *)
(***************************************************************************)
EXTENDS Naturals

CONSTANTS MarketIds, Outcomes, Absent

VARIABLES
  stage,    \* of each market
  reported, \* the reported outcome of each market, or Absent
  outcome   \* the resolved outcome of each market, or Absent

Stage == {"Unborn", "Proposed", "Active", "Closed", "Reported", "Disputed",
          "Resolved", "Removed"}

Init ==
  /\ stage = [m \in MarketIds |-> "Unborn"]
  /\ reported = [m \in MarketIds |-> Absent]
  /\ outcome = [m \in MarketIds |-> Absent]

\* From an unborn market to a proposed or active one, to a closed one, or back
\* out of existence; nothing is reported yet.
MovesUnreported(m) ==
  /\ <<stage[m], stage'[m]>> \in
       {<<"Unborn", "Proposed">>, <<"Unborn", "Active">>,
        <<"Proposed", "Active">>, <<"Proposed", "Removed">>,
        <<"Active", "Closed">>}
  /\ reported'[m] = reported[m]
  /\ outcome'[m] = outcome[m]

\* The report; the market of a trusted oracle is resolved by it.
IsReported(m) ==
  /\ stage[m] = "Closed"
  /\ reported'[m] \in Outcomes
  /\ \/ stage'[m] = "Reported" /\ outcome'[m] = outcome[m]
     \/ stage'[m] = "Resolved" /\ outcome'[m] = reported'[m]

IsDisputed(m) ==
  /\ stage[m] = "Reported"
  /\ stage'[m] = "Disputed"
  /\ reported'[m] = reported[m]
  /\ outcome'[m] = outcome[m]

\* Without a dispute the report stands; with one any outcome may win.
IsResolved(m) ==
  /\ stage[m] \in {"Reported", "Disputed"}
  /\ stage'[m] = "Resolved"
  /\ reported'[m] = reported[m]
  /\ outcome'[m] \in Outcomes
  /\ stage[m] = "Reported" => outcome'[m] = reported[m]

Stays(m) ==
  /\ stage'[m] = stage[m]
  /\ reported'[m] = reported[m]
  /\ outcome'[m] = outcome[m]

Next ==
  /\ stage' \in [MarketIds -> Stage]
  /\ reported' \in [MarketIds -> Outcomes \cup {Absent}]
  /\ outcome' \in [MarketIds -> Outcomes \cup {Absent}]
  /\ \A m \in MarketIds :
       \/ Stays(m)
       \/ MovesUnreported(m)
       \/ IsReported(m)
       \/ IsDisputed(m)
       \/ IsResolved(m)

Spec == Init /\ [][Next]_<<stage, reported, outcome>>
=============================================================================
