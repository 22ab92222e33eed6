----------------------------- MODULE OutcomeVote -----------------------------
(***************************************************************************)
(* What a global dispute promises: as long as a vote is open, every vote   *)
(* adds to the tally of its option exactly what the voter puts at stake,   *)
(* nobody gets a stake back, and the option a vote is closed with has the  *)
(* largest tally.                                                          *)
(***************************************************************************)
EXTENDS Integers

CONSTANTS Votes, Options, Voters, None

VARIABLES
  stage,      \* of each vote: "Unopened", "Open", "Closed" or "Cancelled"
  tally,      \* of each vote: what each option has, or None if it is none
  stake,      \* what each voter has at stake in each vote
  result      \* of each vote: the option it was closed with, or None

vars == <<stage, tally, stake, result>>

NoOptions == [o \in Options |-> None]

Init ==
  /\ stage = [v \in Votes |-> "Unopened"]
  /\ tally = [v \in Votes |-> NoOptions]
  /\ stake = [v \in Votes |-> [a \in Voters |-> 0]]
  /\ result = [v \in Votes |-> None]

Open(v) ==
  /\ stage[v] = "Unopened"
  /\ stage' = [stage EXCEPT ![v] = "Open"]
  /\ tally'[v] \in [Options -> Nat \cup {None}] \ {NoOptions}
  /\ tally' = [tally EXCEPT ![v] = tally'[v]]
  /\ UNCHANGED <<stake, result>>

AddOption(v, o) ==
  /\ stage[v] = "Open"
  /\ UNCHANGED <<stage, stake, result>>
  /\ tally[v][o] = None /\ tally'[v][o] \in Nat
  /\ tally' = [tally EXCEPT ![v][o] = tally'[v][o]]

Vote(v, o, a) ==
  /\ stage[v] = "Open"
  /\ UNCHANGED <<stage, result>>
  /\ tally[v][o] # None
  /\ LET n == stake'[v][a] - stake[v][a]
     IN /\ n \in Nat
        /\ tally' = [tally EXCEPT ![v][o] = @ + n]
        /\ stake' = [stake EXCEPT ![v][a] = @ + n]

\* o has the largest tally.
Leads(options, o) ==
  /\ options[o] # None
  /\ \A p \in Options : options[p] # None => options[p] <= options[o]

\* The stakes are free again.
Release(v) ==
  /\ tally' = [tally EXCEPT ![v] = NoOptions]
  /\ stake' = [stake EXCEPT ![v] = [a \in Voters |-> 0]]

Close(v) ==
  /\ stage[v] = "Open"
  /\ \E o \in Options : /\ Leads(tally[v], o)
                        /\ result' = [result EXCEPT ![v] = o]
  /\ stage' = [stage EXCEPT ![v] = "Closed"]
  /\ Release(v)

Cancel(v) ==
  /\ stage[v] = "Open"
  /\ stage' = [stage EXCEPT ![v] = "Cancelled"]
  /\ Release(v)
  /\ UNCHANGED result

Next ==
  \E v \in Votes :
    \/ Open(v) \/ Close(v) \/ Cancel(v)
    \/ \E o \in Options :
         AddOption(v, o) \/ \E a \in Voters : Vote(v, o, a)

Spec == Init /\ [][Next]_vars
=============================================================================
