---------------------------- MODULE OutcomeWalk ----------------------------
(***************************************************************************)
(* A report on the logged evaluation: the loop of compute_r_analysis       *)
(* (analyze_rejection_outcomes.py) and of _walk_actual_setup_r_outcome     *)
(* (generate_forward_test_research_report.py), which walks the candles     *)
(* after the reference candle once, for all multiples together, and drops  *)
(* the multiples that are decided.  ForwardOutcomes says of one multiple   *)
(* what it is to find; this module is how.                                 *)
(*                                                                         *)
(* A report walks the history it has read; what closes meanwhile belongs   *)
(* to later reports.                                                       *)
(***************************************************************************)
EXTENDS ForwardOutcomes

VARIABLES
  report,     \* direction, entry and r_distance, None without a report
  at,         \* the last row walked; the reference row before the first
  remaining,  \* the multiples that are not decided
  outcome     \* outcome_by_multiple

walkVars == <<vars, report, at, remaining, outcome>>

Outcomes == {"stop_first", "target_first", "undetermined_within_horizon"}
Undecided == [m \in Multiples |-> None]
Abs(x) == IF x < 0 THEN -x ELSE x

-----------------------------------------------------------------------------
\* A stop at the entry has no distance and is not analysed.  The distance has no
\* sign: a stop on the wrong side of the entry is mirrored.  A report on another
\* record of the same history starts afresh in the same way.
Begin ==
  /\ at = None /\ asked # None
  /\ \E d \in Dir, stop \in Prices, r \in Rows(history) :
       /\ IsEntry(history, history[r].close) /\ stop # history[r].close
       /\ report' = [direction |-> d, entry |-> history[r].close,
                     risk |-> Abs(history[r].close - stop)]
  /\ \E r \in Rows(history) : IsReference(history, asked, r) /\ at' = r
  /\ remaining' = Multiples /\ outcome' = Undecided
  /\ UNCHANGED vars

Stopped == StopHit(report.direction, report.entry, report.risk, history[at + 1])

\* The multiples the next candle decides: all of them if it touches the stop.
Decided ==
  {m \in remaining :
     Stopped \/ TargetHit(report.direction, report.entry, report.risk, m, history[at + 1])}

\* Mutant of Verdict: a candle that touches both counts as the target.
VerdictForTarget(m) ==
  IF TargetHit(report.direction, report.entry, report.risk, m, history[at + 1])
  THEN "target_first" ELSE "stop_first"

Verdict(m) == IF Stopped THEN "stop_first" ELSE "target_first"

\* The next candle within the horizon.
Walk ==
  /\ remaining # {} /\ InHorizon(history, asked, at + 1)
  /\ at' = at + 1
  /\ outcome' = [m \in Multiples |-> IF m \in Decided THEN Verdict(m) ELSE outcome[m]]
  /\ remaining' = remaining \ Decided
  /\ UNCHANGED <<vars, report>>

\* The candles are used up.
Finish ==
  /\ remaining # {} /\ ~InHorizon(history, asked, at + 1)
  /\ outcome' = [m \in Multiples |-> IF m \in remaining THEN "undetermined_within_horizon"
                                                        ELSE outcome[m]]
  /\ remaining' = {}
  /\ UNCHANGED <<vars, report, at>>

\* Time passes between two reports.
Move ==
  /\ remaining = {} /\ Next
  /\ report' = None /\ at' = None /\ outcome' = Undecided /\ UNCHANGED remaining

WalkInit == Init /\ report = None /\ at = None /\ remaining = {} /\ outcome = Undecided
WalkNext == Begin \/ Walk \/ Finish \/ Move
WalkSpec == WalkInit /\ [][WalkNext]_walkVars

-----------------------------------------------------------------------------
WalkTypeOK ==
  /\ at \in Rows(history) \cup {None}
  /\ IF at = None THEN report = None /\ remaining = {}
     ELSE report \in [direction : Dir, entry : Int, risk : Nat \ {0}]
  /\ remaining \subseteq Multiples /\ outcome \in [Multiples -> Outcomes \cup {None}]

\* One walk for all multiples finds of each what a walk for it alone would: the
\* stop if that is touched no later than the target, the target if it is touched
\* before, and no outcome only if neither is touched within the horizon.
WalkFindsOutcomes ==
  at # None /\ remaining = {} =>
    \A m \in Multiples :
      LET stop == StopFirst(history, asked, report.direction, report.entry, report.risk, m)
          target == TargetFirst(history, asked, report.direction, report.entry, report.risk, m)
      IN  /\ outcome[m] = "stop_first" <=> stop
          /\ outcome[m] = "target_first" <=> target
          /\ outcome[m] = "undetermined_within_horizon" <=> ~stop /\ ~target
=============================================================================
