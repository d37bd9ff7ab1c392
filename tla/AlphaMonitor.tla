---------------------------- MODULE AlphaMonitor ----------------------------
(***************************************************************************)
(* AlphaMonitor (aqc/alpha/alpha_monitor.py): predictions and what came of *)
(* them go into a sliding window; health_report, whenever somebody asks,   *)
(* takes the window's information coefficient (IC), adds it to two running *)
(* sums (CUSUM) and gives a status.  The IC, in percent, is a function of  *)
(* the window, here any of a few values after each observation; it is not  *)
(* a number if all predictions, or all outcomes, of the window are equal.  *)
(* The hit rate and the Sharpe ratio only add lines to a report.           *)
(***************************************************************************)
EXTENDS Integers, Sequences, FiniteSetsExt, SequencesExt

CONSTANTS
  Ics,            \* information coefficients
  Target,         \* _cusum_target_ic
  Threshold,      \* cusum_threshold
  Warning,        \* ic_warning
  Critical,       \* ic_critical
  MinObservations,\* before there is a report, 5
  MaxReports      \* bound on the reports

NoIc == 1000   \* an IC that is not a number

VARIABLES
  observations,  \* the observations in the window, counted to MinObservations
  ic,            \* the IC of the window
  cusum_pos, cusum_neg,
  status,        \* of the last report
  \* history:
  ics            \* the ICs of the reports since the last reset

monitorVars == <<observations, ic, cusum_pos, cusum_neg, status, ics>>

----------------------------------------------------------------------------
MonitorInit ==
  /\ observations = 0 /\ ic = NoIc
  /\ cusum_pos = 0 /\ cusum_neg = 0 /\ status = "GREEN" /\ ics = <<>>

(* update, with another prediction and its outcome.                        *)
Update ==
  /\ observations' = Min({observations + 1, MinObservations})
  /\ ic' \in Ics \cup {NoIc}
  /\ UNCHANGED <<cusum_pos, cusum_neg, status, ics>>

(* Python's max(0.0, x) and min(0.0, x) are 0.0 if x is not a number: both *)
(* sums start anew then.                                                   *)
(* (A slip that the checks must notice, no part of the specification:)     *)
AccumulateUnclamped ==
  /\ cusum_pos' = IF ic = NoIc THEN 0 ELSE cusum_pos + ic - Target
  /\ cusum_neg' = IF ic = NoIc THEN 0 ELSE cusum_neg + ic - Target

Accumulate ==
  /\ cusum_pos' = IF ic = NoIc THEN 0 ELSE Max({0, cusum_pos + ic - Target})
  /\ cusum_neg' = IF ic = NoIc THEN 0 ELSE Min({0, cusum_neg + ic - Target})

(* An IC that is not a number is below no threshold.                       *)
StatusOf(sum) ==
  IF -sum > Threshold THEN "CRITICAL"
  ELSE IF ic = NoIc THEN "GREEN"
  ELSE IF ic < Critical THEN "RED" ELSE IF ic < Warning THEN "YELLOW" ELSE "GREEN"

(* health_report: with too few observations it does nothing but say so.    *)
HealthReport ==
  /\ Len(ics) < MaxReports
  /\ IF observations < MinObservations
     THEN status' = "GREEN" /\ UNCHANGED <<cusum_pos, cusum_neg, ics>>
     ELSE /\ Accumulate
          /\ status' = StatusOf(cusum_neg')
          /\ ics' = Append(ics, ic)
  /\ UNCHANGED <<observations, ic>>

ResetCusum ==
  /\ cusum_pos' = 0 /\ cusum_neg' = 0 /\ ics' = <<>>
  /\ UNCHANGED <<observations, ic, status>>

MonitorNext == Update \/ HealthReport \/ ResetCusum

MonitorSpec == MonitorInit /\ [][MonitorNext]_monitorVars

----------------------------------------------------------------------------
(* A report is CRITICAL if and only if over some stretch of reports up to  *)
(* it the IC has fallen short of its target by more than the threshold,    *)
(* all together: good reports before the stretch do not make up for it,    *)
(* and one whose IC is not a number ends it, whatever came before.  (It is *)
(* reports that count, not observations: a window that is looked at twice  *)
(* falls short twice.)                                                     *)
ShortfallFrom(k) == SumFunction([i \in k..Len(ics) |-> Target - ics[i]])

DegradationNoticed ==
  ics # <<>> =>
    ((status = "CRITICAL") <=>
       \E k \in DOMAIN ics : /\ \A i \in k..Len(ics) : ics[i] # NoIc
                                  /\ ShortfallFrom(k) > Threshold)
=============================================================================
