------------------------------ MODULE RiskEnsemble ------------------------------
(***************************************************************************)
(* The risk ensemble (src/iqrp/app/risk/ensemble): the hysteresis machine  *)
(* of EnsembleStateMachine over the ladder NORMAL .. TRADING_HALT, the     *)
(* aggregate that feeds it, the pre-trade gate validate_position that may  *)
(* force it, and the decision built from an assessment.                    *)
(*                                                                         *)
(* The overall score is a level of a finite scale; the thresholds are      *)
(* levels of the same scale, so only the comparisons of the code remain.   *)
(* A dimension is hot or not: a score carries the number of hot ones.      *)
(***************************************************************************)
EXTENDS Integers, Sequences, FiniteSets, SequencesExt

CONSTANTS
  Scores,               \* [overall, hot]: the evaluations the callers produce
  CalmScore,            \* the evaluation of a quiet market
  EscalationThreshold,  \* rank 1..4 -> level (state_thresholds)
  RecoveryThreshold,    \* rank 1..4 -> level (recovery_thresholds)
  EscalationsNeeded,    \* hysteresis.escalation_confirmations
  RecoveriesNeeded,     \* hysteresis.recovery_confirmations
  MinDimensions,        \* min_dimensions_for_halt
  HardHaltOnSingle,     \* hard_halt_on_single
  FallbackState,        \* missing_metrics_fallback_state
  FallbackAction,       \* missing_metrics_fallback_action
  MaxExposure,          \* rank -> cap on gross exposure (state_caps, limits)
  Exposures,            \* the exposures positions are proposed with
  Overrides             \* the states callers pass as previous_state

NORMAL == 0
CAUTION == 1
REDUCED_RISK == 2
CAPITAL_PRESERVATION == 3
TRADING_HALT == 4
RiskState == NORMAL .. TRADING_HALT
NoState == -1
Actions == {"APPROVE", "APPROVE_REDUCED", "REJECT", "HALT"}

ASSUME RiskAssumption ==
  /\ \A s \in Scores \cup {CalmScore} : s.overall \in Nat /\ s.hot \in Nat
  /\ EscalationThreshold \in [1 .. TRADING_HALT -> Nat]
  /\ RecoveryThreshold \in [1 .. TRADING_HALT -> Nat]
  /\ EscalationsNeeded \in Int /\ RecoveriesNeeded \in Int /\ MinDimensions \in Int
  /\ HardHaltOnSingle \in BOOLEAN
  /\ FallbackState \in RiskState
  /\ FallbackAction \in Actions
  /\ MaxExposure \in [RiskState -> Nat]
  /\ Exposures \subseteq Nat /\ Overrides \subseteq RiskState

VARIABLES
  machine,     \* the counters EnsembleStateMachine keeps
  exported,    \* the payload of the last export_state still at hand, or NoExport
  verdict,     \* the decision the last step returned and what it was asked
  heard,       \* ghost: the last evaluations, newest last, since the last forced step
  calm         \* environment: from now on only CalmScore is heard

vars == <<machine, exported, verdict, heard, calm>>

NoExport == [machine |-> NoState]
NoVerdict == [action |-> "NONE"]

-----------------------------------------------------------------------------
(* The pure half of the machine. *)

HighestReached(overall, threshold) ==
  Max({NORMAL} \cup {r \in 1 .. TRADING_HALT : overall >= threshold[r]})

Candidate(overall) == HighestReached(overall, EscalationThreshold)
RecoveryCeiling(overall) == HighestReached(overall, RecoveryThreshold)

HaltConfirmed(s) ==
  HardHaltOnSingle \/ s.hot >= Max({MinDimensions, 1}) \/ s.hot >= 2

\* A halt the dimensions do not confirm is capped one rung below.
EscalationTarget(s) ==
  IF Candidate(s.overall) = TRADING_HALT /\ ~HaltConfirmed(s)
  THEN CAPITAL_PRESERVATION ELSE Candidate(s.overall)

AtLeastOnce(n) == Max({n, 1})

Settled(state) == [state |-> state, escalationStreak |-> 0, recoveryStreak |-> 0,
                   pendingEscalation |-> NoState, pendingRecovery |-> NoState]

StreakRestarted(pending, target, streak) == 1

Streak(pending, target, streak) == IF pending = target THEN streak + 1 ELSE 1
\* An escalation that leaves its streak standing.
EscalateKeepsStreak(m, target) ==
  LET n == Streak(m.pendingEscalation, target, m.escalationStreak) IN
  [m EXCEPT !.state = IF n >= AtLeastOnce(EscalationsNeeded) THEN target ELSE @,
            !.escalationStreak = n, !.pendingEscalation = target,
            !.recoveryStreak = 0, !.pendingRecovery = NoState]

Escalate(m, target) ==
  LET n == Streak(m.pendingEscalation, target, m.escalationStreak) IN
  IF n >= AtLeastOnce(EscalationsNeeded)
  THEN Settled(target)
  ELSE [m EXCEPT !.escalationStreak = n, !.pendingEscalation = target,
                 !.recoveryStreak = 0, !.pendingRecovery = NoState]

\* A blocked evaluation that leaves the recovery streak standing.
RecoverThroughNoise(m, s) ==
  LET below == m.state - 1
      n == Streak(m.pendingRecovery, below, m.recoveryStreak) IN
  IF RecoveryCeiling(s.overall) >= m.state THEN m
  ELSE IF n >= AtLeastOnce(RecoveriesNeeded)
  THEN Settled(below)
  ELSE [m EXCEPT !.recoveryStreak = n, !.pendingRecovery = below,
                 !.escalationStreak = 0, !.pendingEscalation = NoState]

\* Recovery is blocked while the score still justifies the state under the lower
\* thresholds; a pending escalation survives that. Otherwise one rung down.
Recover(m, s) ==
  LET below == m.state - 1
      n == Streak(m.pendingRecovery, below, m.recoveryStreak) IN
  IF RecoveryCeiling(s.overall) >= m.state
  THEN [m EXCEPT !.recoveryStreak = 0, !.pendingRecovery = NoState]
  ELSE IF n >= AtLeastOnce(RecoveriesNeeded)
  THEN Settled(below)
  ELSE [m EXCEPT !.recoveryStreak = n, !.pendingRecovery = below,
                 !.escalationStreak = 0, !.pendingEscalation = NoState]

\* previous_state replaces the state and keeps the counters.
InForce(m, prev) == IF prev = NoState THEN m ELSE [m EXCEPT !.state = prev]

\* The step of transition() from the state in force.
Stepped(m, s) ==
  LET target == EscalationTarget(s) IN
  IF target > m.state THEN Escalate(m, target)
  ELSE IF target < m.state THEN Recover(m, s)
  ELSE Settled(m.state)

-----------------------------------------------------------------------------
(* Decisions. A question q holds what a decision is made of: the state and the *)
(* missing flag of the assessment, the exposure proposed, the engine's reject.  *)

ActionForState(q) ==
  CASE q.state = TRADING_HALT -> "HALT"
    [] q.state # TRADING_HALT /\ q.rejected -> "REJECT"
    [] q.state # TRADING_HALT /\ ~q.rejected /\ q.missing -> FallbackAction
    [] OTHER ->
       LET over == q.exposure > MaxExposure[q.state] IN
       CASE q.state \in {NORMAL, CAPITAL_PRESERVATION} /\ over -> "REJECT"
         [] q.state \in {CAUTION, REDUCED_RISK} /\ over -> "APPROVE_REDUCED"
         [] q.state = CAPITAL_PRESERVATION /\ ~over -> "APPROVE_REDUCED"
         [] q.state = REDUCED_RISK /\ ~over /\ q.exposure > 0 -> "APPROVE_REDUCED"
         [] OTHER -> "APPROVE"

\* The last guard of decision(): a fallback never passes as APPROVE.
Decided(q) ==
  LET action == ActionForState(q) IN
  [state |-> q.state, missing |-> q.missing, exposure |-> q.exposure, rejected |-> q.rejected,
   action |-> IF q.missing /\ action = "APPROVE" THEN FallbackAction ELSE action]

-----------------------------------------------------------------------------

MaxHeard == Max({AtLeastOnce(EscalationsNeeded), AtLeastOnce(RecoveriesNeeded)})

Heard(from, s) ==
  LET all == Append(heard, [from |-> from, target |-> EscalationTarget(s),
                            ceiling |-> RecoveryCeiling(s.overall)]) IN
  IF Len(all) > MaxHeard THEN Tail(all) ELSE all

\* transition(): the machine steps, or is forced.
Transition(s, prev) ==
  LET m == InForce(machine, prev) IN
  /\ machine' = Stepped(m, s)
  /\ heard' = Heard(m.state, s)

ForceState(state) == machine' = Settled(state) /\ heard' = <<>>

\* Bound: an export is at hand until the machine has moved twice since.
Aged == exported' = IF exported # NoExport /\ exported.fresh
                    THEN [exported EXCEPT !.fresh = FALSE] ELSE NoExport

Init ==
  /\ machine = Settled(NORMAL)
  /\ exported = NoExport
  /\ verdict = NoVerdict
  /\ heard = <<>>
  /\ calm = FALSE

\* aggregate(): with critical metrics missing the fallback state is forced.
Aggregate(s, missing, prev) ==
  /\ IF missing THEN ForceState(FallbackState) ELSE Transition(s, prev)
  /\ verdict' = NoVerdict
  /\ Aged
  /\ UNCHANGED calm

\* risk_state(): the machine alone, no assessment.
RiskStateOf(s, prev) ==
  /\ Transition(s, prev)
  /\ verdict' = NoVerdict
  /\ Aged
  /\ UNCHANGED calm

\* decision(metrics=...) and validate_position(): aggregate, then the engine's own verdict; an engine that
\* rejects in TRADING_HALT forces the machine and the assessment.
Engine == {"approves", "rejects", "halted"}

GateStateAsAssessed(after, engine) == after

GateState(after, engine) == IF engine = "halted" THEN TRADING_HALT ELSE after
ValidatePosition(s, missing, exposure, engine) ==
  LET after == IF missing THEN FallbackState ELSE Stepped(machine, s).state
      gate == GateState(after, engine) IN
  /\ IF engine = "halted" THEN ForceState(TRADING_HALT)
     ELSE IF missing THEN ForceState(FallbackState) ELSE Transition(s, NoState)
  /\ verdict' = Decided([state |-> gate, missing |-> missing, exposure |-> exposure,
                         rejected |-> engine # "approves"])
  /\ Aged
  /\ UNCHANGED calm

\* reset(): the operator sets the state and drops the counters.
Reset(state) ==
  /\ ForceState(state)
  /\ verdict' = NoVerdict
  /\ Aged
  /\ UNCHANGED calm

Export ==
  /\ exported' = [machine |-> machine, heard |-> heard, fresh |-> TRUE]
  /\ verdict' = NoVerdict
  /\ UNCHANGED <<machine, heard, calm>>

\* A new process imports the payload.
Restart ==
  /\ exported # NoExport
  /\ machine' = exported.machine
  /\ heard' = exported.heard
  /\ verdict' = NoVerdict
  /\ exported' = NoExport
  /\ UNCHANGED calm

\* The market turns quiet for good and nobody overrides the machine any more.
TurnCalm ==
  /\ ~calm
  /\ calm' = TRUE
  /\ exported' = NoExport
  /\ verdict' = NoVerdict
  /\ UNCHANGED <<machine, heard>>

HearCalm == calm /\ Aggregate(CalmScore, FALSE, NoState)

Next ==
  \/ \E s \in Scores, missing \in BOOLEAN, prev \in Overrides \cup {NoState} :
       ~calm /\ Aggregate(s, missing, prev)
  \/ \E s \in Scores, prev \in Overrides \cup {NoState} : ~calm /\ RiskStateOf(s, prev)
  \/ \E s \in Scores, missing \in BOOLEAN, e \in Exposures, g \in Engine :
       ~calm /\ ValidatePosition(s, missing, e, g)
  \/ \E state \in RiskState : ~calm /\ Reset(state)
  \/ ~calm /\ Export
  \/ ~calm /\ Restart
  \/ TurnCalm
  \/ HearCalm

\* The trading loop keeps assessing the market.
Spec == Init /\ [][Next]_vars /\ WF_vars(HearCalm)

-----------------------------------------------------------------------------

\* The counters belong together: a streak is running exactly when its target is
\* pending, it stays below what it takes, an escalation and a recovery are never
\* both under way, and a pending recovery is for the rung below the one it began on.
RiskTypeOK ==
  /\ machine.state \in RiskState
  /\ machine.escalationStreak \in 0 .. AtLeastOnce(EscalationsNeeded) - 1
  /\ machine.recoveryStreak \in 0 .. AtLeastOnce(RecoveriesNeeded) - 1
  /\ machine.pendingEscalation \in RiskState \cup {NoState}
  /\ machine.pendingRecovery \in RiskState \cup {NoState}
  /\ machine.escalationStreak = 0 <=> machine.pendingEscalation = NoState
  /\ machine.recoveryStreak = 0 <=> machine.pendingRecovery = NoState
  /\ machine.escalationStreak = 0 \/ machine.recoveryStreak = 0

LastHeard(n) == SubSeq(heard, Len(heard) - n + 1, Len(heard))

\* The risk state falls by one rung at a time, and only after RecoveriesNeeded
\* evaluations in a row, all from the state left, whose score was under that state's
\* recovery threshold: across previous_state overrides, blocked evaluations, pending
\* escalations and restarts from an older export. Forced steps (fallback, halt,
\* reset) are outside it.
RecoveryConfirmed ==
  heard # <<>> /\ machine.state < Last(heard).from =>
    LET from == Last(heard).from
        n == AtLeastOnce(RecoveriesNeeded) IN
    /\ machine.state = from - 1
    /\ Len(heard) >= n
    /\ \A i \in 1 .. n : LastHeard(n)[i].from = from /\ LastHeard(n)[i].ceiling < from

\* The pre-trade gate: what the engine rejects or the state caps is never approved in
\* full, missing metrics are never approved, and in TRADING_HALT a rejection is a HALT,
\* whether the ensemble or the engine under it is what halted.
GateIsSafe ==
  verdict # NoVerdict =>
    /\ verdict.rejected => verdict.action \in {"REJECT", "HALT"}
    /\ verdict.missing => verdict.action # "APPROVE"
    /\ verdict.exposure > MaxExposure[verdict.state] => verdict.action # "APPROVE"
    /\ machine.state = TRADING_HALT /\ verdict.rejected => verdict.action = "HALT"

\* Once the market is quiet for good, the machine walks down to NORMAL and stays.
CalmRecovers == calm ~> [](machine.state = NORMAL)

\* RiskStateMachine.md: "Escalation requires `hysteresis.escalation_confirmations`
\* consecutive evaluations targeting the same higher state". A blocked recovery in
\* between does not break the run in the code.
EscalationConfirmed ==
  heard # <<>> /\ machine.state > Last(heard).from =>
    LET n == AtLeastOnce(EscalationsNeeded) IN
    /\ Len(heard) >= n
    /\ \A i \in 1 .. n : LastHeard(n)[i].target = machine.state

=============================================================================
