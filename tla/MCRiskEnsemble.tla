---------------------------- MODULE MCRiskEnsemble ----------------------------
(* The default thresholds interleave (.28 < .35 < .45 < ... < .88): levels 1 .. 8,  *)
(* odd for recovery, even for escalation. The scores meet every branch: quiet,      *)
(* blocked between the two thresholds of a rung, a jump over a rung, a halt with    *)
(* and without the dimensions that confirm it.                                      *)
EXTENDS RiskEnsemble

MCEscalationThreshold == <<2, 4, 6, 8>>
MCRecoveryThreshold == <<1, 3, 5, 7>>
MCMaxExposure == [r \in RiskState |-> TRADING_HALT - r]
MCCalmScore == [overall |-> 0, hot |-> 0]
MCScores ==
  {[overall |-> o, hot |-> 0] : o \in {0, 1, 4, 5, 7}} \cup
  {[overall |-> 8, hot |-> h] : h \in {1, 2}}
MCExposures == {0, 3}
=============================================================================
