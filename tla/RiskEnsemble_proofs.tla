-------------------------- MODULE RiskEnsemble_proofs --------------------------
(***************************************************************************)
(* Proofs about the risk ensemble, for any thresholds, confirmations,      *)
(* exposures, scores and overrides: its counters belong together, the      *)
(* risk state only falls after the recoveries it takes, and the pre-trade  *)
(* gate never approves what it must not.                                   *)
(***************************************************************************)
EXTENDS RiskEnsemble, TLAPS

Machine == [state : RiskState, escalationStreak : Nat, recoveryStreak : Nat,
            pendingEscalation : RiskState \cup {NoState}, pendingRecovery : RiskState \cup {NoState}]

Evaluation == [from : RiskState, target : RiskState, ceiling : RiskState]

\* RiskTypeOK of any machine, so that it can be said of the exported one.
Coherent(m) ==
  /\ m \in Machine
  /\ m.escalationStreak \in 0 .. AtLeastOnce(EscalationsNeeded) - 1
  /\ m.recoveryStreak \in 0 .. AtLeastOnce(RecoveriesNeeded) - 1
  /\ m.escalationStreak = 0 <=> m.pendingEscalation = NoState
  /\ m.recoveryStreak = 0 <=> m.pendingRecovery = NoState
  /\ m.escalationStreak = 0 \/ m.recoveryStreak = 0

-----------------------------------------------------------------------------
(* The ladder.                                                             *)

LEMMA AtLeastOnceFacts ==
  ASSUME NEW n \in Int
  PROVE  AtLeastOnce(n) \in Nat \ {0} /\ AtLeastOnce(n) >= n
<1>1. \E x \in {n, 1} : \A y \in {n, 1} : x >= y
  OBVIOUS
<1>2. AtLeastOnce(n) \in {n, 1} /\ \A y \in {n, 1} : AtLeastOnce(n) >= y
  BY <1>1 DEF AtLeastOnce, Max
<1>3. QED
  BY <1>2

\* Each threshold picks a rung.
LEMMA HighestFacts ==
  ASSUME NEW overall \in Nat, NEW threshold \in [1 .. TRADING_HALT -> Nat]
  PROVE  HighestReached(overall, threshold) \in RiskState
<1> DEFINE S == {NORMAL} \cup {r \in 1 .. TRADING_HALT : overall >= threshold[r]}
<1>1. S \subseteq RiskState /\ NORMAL \in S
  BY DEF RiskState, NORMAL, TRADING_HALT
<1> HIDE DEF S
<1>2. \E x \in S : \A y \in S : x >= y
  BY <1>1 DEF RiskState, NORMAL, TRADING_HALT
<1>3. Max(S) \in S
  BY <1>2 DEF Max
<1>4. QED
  BY <1>1, <1>3 DEF HighestReached, S

LEMMA ScoreFacts ==
  ASSUME NEW s \in Scores \cup {CalmScore}
  PROVE  /\ EscalationTarget(s) \in RiskState
         /\ RecoveryCeiling(s.overall) \in RiskState
<1>1. s.overall \in Nat
  BY RiskAssumption
<1>2. Candidate(s.overall) \in RiskState /\ RecoveryCeiling(s.overall) \in RiskState
  BY <1>1, RiskAssumption, HighestFacts DEF Candidate, RecoveryCeiling
<1>3. QED
  BY <1>2 DEF EscalationTarget, RiskState, NORMAL, TRADING_HALT, CAPITAL_PRESERVATION

-----------------------------------------------------------------------------
(* One step of the machine.                                                *)

LEMMA SettledFacts ==
  ASSUME NEW state \in RiskState
  PROVE  Coherent(Settled(state)) /\ Settled(state).state = state /\ Settled(state).recoveryStreak = 0
<1>1. AtLeastOnce(EscalationsNeeded) \in Nat \ {0} /\ AtLeastOnce(RecoveriesNeeded) \in Nat \ {0}
  BY RiskAssumption, AtLeastOnceFacts
<1>2. QED
  BY <1>1 DEF Settled, Coherent, Machine, RiskState, NoState, NORMAL, TRADING_HALT

LEMMA InForceFacts ==
  ASSUME NEW m, Coherent(m), NEW prev \in Overrides \cup {NoState}
  PROVE  /\ Coherent(InForce(m, prev))
         /\ InForce(m, prev).recoveryStreak = m.recoveryStreak
         /\ InForce(m, prev).pendingRecovery = m.pendingRecovery
<1>1. prev # NoState => prev \in RiskState
  BY RiskAssumption
<1>2. QED
  BY <1>1 DEF InForce, Coherent, Machine

\* A step never leads down, and ends the recovery streak; or it leads one rung down,
\* and the recovery streak was complete; or the recovery streak goes on.
LEMMA SteppedFacts ==
  ASSUME NEW m, Coherent(m), NEW s \in Scores \cup {CalmScore}
  PROVE  LET r == Stepped(m, s)
             below == m.state - 1
             n == Streak(m.pendingRecovery, below, m.recoveryStreak)
             c == RecoveryCeiling(s.overall)
         IN  /\ Coherent(r)
             /\ \/ r.state >= m.state /\ r.recoveryStreak = 0
                \/ /\ r.state = below /\ r.recoveryStreak = 0
                   /\ c < m.state /\ n >= AtLeastOnce(RecoveriesNeeded)
                \/ /\ r.state = m.state /\ r.recoveryStreak = n /\ r.pendingRecovery = below
                   /\ c < m.state
<1> DEFINE r == Stepped(m, s)
           t == EscalationTarget(s)
           c == RecoveryCeiling(s.overall)
           E == AtLeastOnce(EscalationsNeeded)
           R == AtLeastOnce(RecoveriesNeeded)
           below == m.state - 1
           n == Streak(m.pendingRecovery, below, m.recoveryStreak)
           x == Streak(m.pendingEscalation, t, m.escalationStreak)
<1>1. t \in RiskState /\ c \in RiskState /\ E \in Nat \ {0} /\ R \in Nat \ {0}
  BY ScoreFacts, RiskAssumption, AtLeastOnceFacts
<1>2. /\ m \in Machine /\ m.state \in RiskState
      /\ m.escalationStreak \in 0 .. E - 1 /\ m.recoveryStreak \in 0 .. R - 1
      /\ m.escalationStreak = 0 <=> m.pendingEscalation = NoState
      /\ m.recoveryStreak = 0 <=> m.pendingRecovery = NoState
      /\ m.escalationStreak = 0 \/ m.recoveryStreak = 0
  BY DEF Coherent, Machine
<1>3. RiskState \subseteq Nat /\ NoState = -1 /\ NoState \notin RiskState /\ m.state \in Nat
  BY <1>2 DEF RiskState, NoState, NORMAL, TRADING_HALT
<1>4. n \in Nat \ {0} /\ x \in Nat \ {0}
  BY <1>1, <1>2 DEF Streak
<1>5. /\ t > m.state => r = Escalate(m, t)
      /\ t < m.state => r = Recover(m, s) /\ below \in RiskState
      /\ t = m.state => r = Settled(m.state)
  BY <1>1, <1>2, <1>3 DEF Stepped, RiskState, NORMAL, TRADING_HALT
<1>6. /\ x >= E => Escalate(m, t) = Settled(t)
      /\ ~(x >= E) => Escalate(m, t) = [m EXCEPT !.escalationStreak = x, !.pendingEscalation = t,
                                                 !.recoveryStreak = 0, !.pendingRecovery = NoState]
  BY DEF Escalate
<1>7. /\ c >= m.state => Recover(m, s) = [m EXCEPT !.recoveryStreak = 0, !.pendingRecovery = NoState]
      /\ ~(c >= m.state) /\ n >= R => Recover(m, s) = Settled(below)
      /\ ~(c >= m.state) /\ ~(n >= R) =>
            Recover(m, s) = [m EXCEPT !.recoveryStreak = n, !.pendingRecovery = below,
                                      !.escalationStreak = 0, !.pendingEscalation = NoState]
  BY DEF Recover
<1>8. ASSUME NEW k, k \in Machine, k.escalationStreak \in 0 .. E - 1, k.recoveryStreak \in 0 .. R - 1,
             k.escalationStreak = 0 <=> k.pendingEscalation = NoState,
             k.recoveryStreak = 0 <=> k.pendingRecovery = NoState,
             k.escalationStreak = 0 \/ k.recoveryStreak = 0
      PROVE  Coherent(k)
  BY <1>8 DEF Coherent, E, R
<1>9. 0 \in 0 .. E - 1 /\ 0 \in 0 .. R - 1
  BY <1>1
<1> DEFINE Up == r.state >= m.state /\ r.recoveryStreak = 0
           Down == r.state = below /\ r.recoveryStreak = 0 /\ c < m.state /\ n >= R
           On == r.state = m.state /\ r.recoveryStreak = n /\ r.pendingRecovery = below /\ c < m.state
<1> SUFFICES Coherent(r) /\ (Up \/ Down \/ On)
  OBVIOUS
<1> HIDE DEF r, t, c, E, R, below, n, x
<1>10. CASE t > m.state /\ x >= E
  <2>1. Coherent(r) /\ r.state = t /\ r.recoveryStreak = 0
    BY <1>1, <1>5, <1>6, <1>10, SettledFacts
  <2>2. QED
    BY <1>1, <1>2, <1>3, <1>10, <2>1
<1>11. CASE t > m.state /\ ~(x >= E)
  <2>0. r = [m EXCEPT !.escalationStreak = x, !.pendingEscalation = t,
                      !.recoveryStreak = 0, !.pendingRecovery = NoState]
    BY <1>5, <1>6, <1>11
  <2>1. /\ r \in Machine /\ r.state = m.state /\ r.escalationStreak = x
        /\ r.pendingEscalation = t /\ r.recoveryStreak = 0 /\ r.pendingRecovery = NoState
    BY <1>1, <1>2, <1>4, <2>0 DEF Machine
  <2>2. x \in 0 .. E - 1 /\ x # 0 /\ t # NoState
    BY <1>1, <1>3, <1>4, <1>11
  <2>3. Coherent(r)
    BY <1>8, <1>9, <2>1, <2>2
  <2>4. Up
    BY <1>2, <1>3, <2>1
  <2>5. QED
    BY <2>3, <2>4
<1>12. CASE t < m.state /\ c >= m.state
  <2>1. /\ r \in Machine /\ r.state = m.state /\ r.escalationStreak = m.escalationStreak
        /\ r.pendingEscalation = m.pendingEscalation
        /\ r.recoveryStreak = 0 /\ r.pendingRecovery = NoState
    BY <1>2, <1>3, <1>5, <1>7, <1>12 DEF Machine
  <2>2. Coherent(r)
    BY <1>2, <1>8, <1>9, <2>1
  <2>3. Up
    BY <1>2, <1>3, <2>1
  <2>4. QED
    BY <2>2, <2>3
<1>13. CASE t < m.state /\ ~(c >= m.state) /\ n >= R
  <2>1. Coherent(r) /\ r.state = below /\ r.recoveryStreak = 0
    BY <1>5, <1>7, <1>13, SettledFacts
  <2>2. c < m.state
    BY <1>1, <1>2, <1>3, <1>13
  <2>3. Down
    BY <1>13, <2>1, <2>2
  <2>4. QED
    BY <2>1, <2>3
<1>14. CASE t < m.state /\ ~(c >= m.state) /\ ~(n >= R)
  <2>0. /\ below \in RiskState
        /\ r = [m EXCEPT !.recoveryStreak = n, !.pendingRecovery = below,
                         !.escalationStreak = 0, !.pendingEscalation = NoState]
    BY <1>5, <1>7, <1>14
  <2>1. /\ r \in Machine /\ r.state = m.state /\ r.escalationStreak = 0
        /\ r.pendingEscalation = NoState
        /\ r.recoveryStreak = n /\ r.pendingRecovery = below
    BY <1>2, <1>3, <1>4, <2>0 DEF Machine
  <2>2. n \in 0 .. R - 1 /\ n # 0 /\ below # NoState /\ c < m.state
    BY <1>1, <1>2, <1>3, <1>4, <1>5, <1>14
  <2>3. Coherent(r)
    BY <1>8, <1>9, <2>1, <2>2
  <2>4. On
    BY <2>1, <2>2
  <2>5. QED
    BY <2>3, <2>4
<1>15. CASE t = m.state
  <2>1. Coherent(r) /\ r.state = m.state /\ r.recoveryStreak = 0
    BY <1>2, <1>5, <1>15, SettledFacts
  <2>2. r.state >= m.state
    BY <1>3, <2>1
  <2>3. QED
    BY <2>1, <2>2
<1>16. QED
  BY <1>1, <1>2, <1>3, <1>10, <1>11, <1>12, <1>13, <1>14, <1>15
-----------------------------------------------------------------------------
(* What was heard.                                                         *)

\* A running recovery streak was heard: each of its evaluations from the rung above the
\* pending one and under that rung's recovery threshold.
Window(m, h) ==
  /\ h \in Seq(Evaluation) /\ Len(h) <= MaxHeard
  /\ m.recoveryStreak <= Len(h)
  /\ \A i \in 1 .. Len(h) : i > Len(h) - m.recoveryStreak =>
        h[i].from = m.pendingRecovery + 1 /\ h[i].ceiling < h[i].from

\* RecoveryConfirmed of any machine.
Confirmed(m, h) ==
  h # <<>> /\ m.state < h[Len(h)].from =>
    /\ m.state = h[Len(h)].from - 1
    /\ Len(h) >= AtLeastOnce(RecoveriesNeeded)
    /\ \A i \in 1 .. Len(h) : i > Len(h) - AtLeastOnce(RecoveriesNeeded) =>
          h[i].from = h[Len(h)].from /\ h[i].ceiling < h[Len(h)].from

Grounded(m, h) == Coherent(m) /\ Window(m, h) /\ Confirmed(m, h)

LEMMA MaxHeardFacts ==
  /\ MaxHeard \in Nat \ {0} /\ AtLeastOnce(RecoveriesNeeded) \in Nat \ {0}
  /\ AtLeastOnce(RecoveriesNeeded) <= MaxHeard
<1> DEFINE E == AtLeastOnce(EscalationsNeeded)
           R == AtLeastOnce(RecoveriesNeeded)
<1>1. E \in Nat \ {0} /\ R \in Nat \ {0}
  BY RiskAssumption, AtLeastOnceFacts
<1> HIDE DEF E, R
<1>2. \E x \in {E, R} : \A y \in {E, R} : x >= y
  BY <1>1
<1>3. Max({E, R}) \in {E, R} /\ \A y \in {E, R} : Max({E, R}) >= y
  BY <1>2 DEF Max
<1>4. QED
  BY <1>1, <1>3 DEF MaxHeard, E, R

\* The new evaluation comes last; the older ones keep their distance to it.
LEMMA HeardFacts ==
  ASSUME heard \in Seq(Evaluation), Len(heard) <= MaxHeard, NEW from \in RiskState,
         NEW s \in Scores \cup {CalmScore}
  PROVE  LET h == Heard(from, s)
         IN  /\ h \in Seq(Evaluation) /\ Len(h) \in Nat \ {0} /\ Len(h) <= MaxHeard /\ h # <<>>
             /\ h[Len(h)].from = from /\ h[Len(h)].ceiling = RecoveryCeiling(s.overall)
             /\ \/ /\ Len(h) = Len(heard) + 1
                   /\ \A i \in 1 .. Len(heard) : h[i] = heard[i]
                \/ /\ Len(h) = Len(heard) /\ Len(h) = MaxHeard
                   /\ \A i \in 1 .. Len(heard) - 1 : h[i] = heard[i + 1]
<1> DEFINE e == [from |-> from, target |-> EscalationTarget(s), ceiling |-> RecoveryCeiling(s.overall)]
           all == Append(heard, e)
           h == Heard(from, s)
<1>1. e \in Evaluation /\ e.from = from /\ e.ceiling = RecoveryCeiling(s.overall)
  BY ScoreFacts DEF Evaluation
<1>2. h = IF Len(all) > MaxHeard THEN Tail(all) ELSE all
  BY DEF Heard
<1>3. MaxHeard \in Nat \ {0}
  BY MaxHeardFacts
<1> SUFFICES /\ h \in Seq(Evaluation) /\ Len(h) \in Nat \ {0} /\ Len(h) <= MaxHeard /\ h # <<>>
             /\ h[Len(h)] = e
             /\ \/ /\ Len(h) = Len(heard) + 1
                   /\ \A i \in 1 .. Len(heard) : h[i] = heard[i]
                \/ /\ Len(h) = Len(heard) /\ Len(h) = MaxHeard
                   /\ \A i \in 1 .. Len(heard) - 1 : h[i] = heard[i + 1]
  BY <1>1
<1> HIDE DEF e, h
<1>4. /\ all \in Seq(Evaluation) /\ Len(all) = Len(heard) + 1 /\ all[Len(all)] = e /\ Len(heard) \in Nat
      /\ \A i \in 1 .. Len(heard) : all[i] = heard[i]
  BY <1>1
<1> HIDE DEF all
<1>5. CASE ~(Len(all) > MaxHeard)
  BY <1>2, <1>3, <1>4, <1>5
<1>6. CASE Len(all) > MaxHeard
  <2>1. h = Tail(all) /\ all # <<>> /\ Len(all) = MaxHeard + 1 /\ Len(heard) = MaxHeard
    BY <1>2, <1>3, <1>4, <1>6
  <2>2. h \in Seq(Evaluation) /\ Len(h) = Len(all) - 1 /\ \A i \in 1 .. Len(h) : h[i] = all[i + 1]
    BY <1>4, <2>1
  <2>3. Len(h) = MaxHeard /\ Len(h) \in 1 .. Len(h) /\ h # <<>>
    BY <1>3, <2>1, <2>2
  <2>4. h[Len(h)] = e
    BY <1>3, <1>4, <2>1, <2>2, <2>3
  <2>5. \A i \in 1 .. Len(heard) - 1 : h[i] = heard[i + 1]
    BY <1>3, <1>4, <2>1, <2>2, <2>3
  <2>6. QED
    BY <1>3, <2>1, <2>2, <2>3, <2>4, <2>5
<1>7. QED
  BY <1>5, <1>6

\* A transition keeps a grounded machine grounded.
LEMMA TransitionGrounded ==
  ASSUME Grounded(machine, heard), NEW s \in Scores \cup {CalmScore},
         NEW prev \in Overrides \cup {NoState}, Transition(s, prev)
  PROVE  Grounded(machine', heard')
<1> DEFINE m == InForce(machine, prev)
           r == Stepped(m, s)
           h == Heard(m.state, s)
           below == m.state - 1
           n == Streak(m.pendingRecovery, below, m.recoveryStreak)
           c == RecoveryCeiling(s.overall)
           R == AtLeastOnce(RecoveriesNeeded)
<1>1. machine' = r /\ heard' = h
  BY DEF Transition
<1>2. /\ Coherent(m) /\ m.recoveryStreak = machine.recoveryStreak
      /\ m.pendingRecovery = machine.pendingRecovery
  BY InForceFacts DEF Grounded
<1>3. /\ m.state \in RiskState /\ RiskState \subseteq Nat /\ m.recoveryStreak \in Nat
      /\ m.pendingRecovery \in Int /\ m.recoveryStreak <= Len(heard)
  BY <1>2 DEF Coherent, Machine, RiskState, NoState, NORMAL, TRADING_HALT, Grounded, Window
<1>4. /\ heard \in Seq(Evaluation) /\ Len(heard) <= MaxHeard /\ Len(heard) \in Nat
      /\ \A i \in 1 .. Len(heard) : i > Len(heard) - m.recoveryStreak =>
            heard[i].from = m.pendingRecovery + 1 /\ heard[i].ceiling < heard[i].from
  BY <1>2 DEF Grounded, Window
<1>5. /\ h \in Seq(Evaluation) /\ Len(h) \in Nat \ {0} /\ Len(h) <= MaxHeard /\ h # <<>>
      /\ h[Len(h)].from = m.state /\ h[Len(h)].ceiling = c
      /\ \/ /\ Len(h) = Len(heard) + 1
            /\ \A i \in 1 .. Len(heard) : h[i] = heard[i]
         \/ /\ Len(h) = Len(heard) /\ Len(h) = MaxHeard
            /\ \A i \in 1 .. Len(heard) - 1 : h[i] = heard[i + 1]
  <2> HIDE DEF m
  <2>1. m.state \in RiskState /\ heard \in Seq(Evaluation) /\ Len(heard) <= MaxHeard
    BY <1>3, <1>4
  <2>2. QED
    BY <2>1, HeardFacts, Zenon
<1>5a. Len(h) \in Nat \ {0} /\ m.state \in Nat /\ below \in Int /\ below + 1 = m.state
  <2>1. m.state \in Nat /\ Len(h) \in Nat \ {0}
    BY <1>3, <1>5
  <2> HIDE DEF m, h
  <2>2. QED
    BY <2>1
<1>6. MaxHeard \in Nat \ {0} /\ R \in Nat \ {0} /\ R <= MaxHeard
  BY MaxHeardFacts
<1>7. /\ Coherent(r)
      /\ \/ r.state >= m.state /\ r.recoveryStreak = 0
         \/ r.state = below /\ r.recoveryStreak = 0 /\ c < m.state /\ n >= R
         \/ r.state = m.state /\ r.recoveryStreak = n /\ r.pendingRecovery = below /\ c < m.state
  BY <1>2, SteppedFacts
<1>8. /\ r.state \in Nat /\ r.recoveryStreak \in 0 .. R - 1
  BY <1>3, <1>7 DEF Coherent, Machine
<1>9. /\ n = IF m.pendingRecovery = below THEN m.recoveryStreak + 1 ELSE 1
      /\ n \in Nat \ {0}
  BY <1>3 DEF Streak
<1> HIDE DEF m, r, h, n, c, R, below
\* The streak that the evaluation continues or starts was heard.
<1>10. ASSUME c < m.state, NEW i \in 1 .. Len(h), i > Len(h) - n
       PROVE  h[i].from = m.state /\ h[i].ceiling < m.state
  <2>1. CASE i = Len(h)
    BY <1>5, <1>10, <2>1
  <2>2. CASE i # Len(h)
    <3>1. m.pendingRecovery = below /\ n = m.recoveryStreak + 1 /\ m.pendingRecovery + 1 = m.state
      BY <1>5a, <1>9, <1>10, <2>2
    <3>2. CASE Len(h) = Len(heard) + 1 /\ \A k \in 1 .. Len(heard) : h[k] = heard[k]
      <4>1. i \in 1 .. Len(heard) /\ i > Len(heard) - m.recoveryStreak
        <5>1. i > Len(h) - n /\ Len(h) = Len(heard) + 1 /\ n = m.recoveryStreak + 1
          BY <1>10, <3>1, <3>2
        <5>2. QED
          BY <1>3, <1>4, <1>5a, <2>2, <5>1
      <4>2. QED
        BY <1>4, <3>1, <3>2, <4>1
    <3>3. CASE Len(h) = Len(heard) /\ \A k \in 1 .. Len(heard) - 1 : h[k] = heard[k + 1]
      <4>1. i \in 1 .. Len(heard) - 1 /\ i + 1 \in 1 .. Len(heard) /\ i + 1 > Len(heard) - m.recoveryStreak
        BY <1>3, <1>4, <1>10, <2>2, <3>1, <3>3
      <4>2. h[i] = heard[i + 1]
        BY <3>3, <4>1
      <4>3. QED
        BY <1>4, <3>1, <4>1, <4>2
    <3>4. QED
      BY <1>5, <3>2, <3>3
  <2>3. QED
    BY <2>1, <2>2
<1>11. n <= Len(h) \/ (Len(h) = MaxHeard)
  BY <1>3, <1>4, <1>5, <1>9
<1>12. Window(r, h)
  <2>1. CASE r.recoveryStreak = 0
    BY <1>5, <2>1 DEF Window
  <2>2. CASE r.recoveryStreak # 0
    <3>1. r.recoveryStreak = n /\ r.pendingRecovery = below /\ c < m.state
      BY <1>7, <2>2
    <3>2. n <= Len(h)
      BY <1>5, <1>6, <1>8, <1>9, <1>11, <3>1
    <3>3. r.pendingRecovery + 1 = m.state
      BY <1>5a, <3>1
    <3>4. \A i \in 1 .. Len(h) : i > Len(h) - r.recoveryStreak =>
             h[i].from = r.pendingRecovery + 1 /\ h[i].ceiling < h[i].from
      BY <1>10, <3>1, <3>3
    <3>5. QED
      BY <1>5, <3>1, <3>2, <3>4 DEF Window
  <2>3. QED
    BY <2>1, <2>2
<1>13. Confirmed(r, h)
  <2>1. SUFFICES ASSUME r.state < m.state
                 PROVE  /\ r.state = m.state - 1
                        /\ Len(h) >= R
                        /\ \A i \in 1 .. Len(h) : i > Len(h) - R =>
                              h[i].from = m.state /\ h[i].ceiling < m.state
    BY <1>5 DEF Confirmed, R
  <2>2. r.state = below /\ c < m.state /\ n >= R
    BY <1>5a, <1>7, <1>8, <2>1
  <2>3. Len(h) >= R
    BY <1>5, <1>6, <1>9, <1>11, <2>2
  <2>4. ASSUME NEW i \in 1 .. Len(h), i > Len(h) - R
        PROVE  h[i].from = m.state /\ h[i].ceiling < m.state
    <3>1. i > Len(h) - n
      BY <1>5, <1>6, <1>9, <2>2, <2>4
    <3>2. QED
      BY <1>10, <2>2, <3>1
  <2>5. QED
    BY <1>5a, <2>2, <2>3, <2>4 DEF below
<1>14. QED
  BY <1>1, <1>7, <1>12, <1>13 DEF Grounded, h

\* A forced step leaves no counters and nothing heard.
LEMMA ForcedGrounded ==
  ASSUME NEW state \in RiskState, ForceState(state)
  PROVE  Grounded(machine', heard')
<1>1. machine' = Settled(state) /\ heard' = <<>>
  BY DEF ForceState
<1>2. Coherent(machine') /\ machine'.recoveryStreak = 0
  BY <1>1, SettledFacts
<1>3. heard' \in Seq(Evaluation) /\ Len(heard') = 0 /\ MaxHeard \in Nat
  BY <1>1, MaxHeardFacts
<1>4. Window(machine', heard') /\ Confirmed(machine', heard')
  BY <1>1, <1>2, <1>3 DEF Window, Confirmed
<1>5. QED
  BY <1>2, <1>4 DEF Grounded

-----------------------------------------------------------------------------
(* The invariant.                                                          *)

\* The machine is grounded in what it heard, and so is the one exported.
RiskInv ==
  /\ Grounded(machine, heard)
  /\ exported # NoExport =>
        /\ exported = [machine |-> exported.machine, heard |-> exported.heard, fresh |-> exported.fresh]
        /\ Grounded(exported.machine, exported.heard)

\* An export ages without changing.
LEMMA AgedFacts ==
  ASSUME RiskInv, Aged
  PROVE  exported' # NoExport =>
           /\ exported' = [machine |-> exported'.machine, heard |-> exported'.heard, fresh |-> exported'.fresh]
           /\ Grounded(exported'.machine, exported'.heard)
<1>1. SUFFICES ASSUME exported' # NoExport
               PROVE  /\ exported' = [machine |-> exported'.machine, heard |-> exported'.heard,
                                      fresh |-> exported'.fresh]
                      /\ Grounded(exported'.machine, exported'.heard)
  OBVIOUS
<1>2. exported # NoExport /\ exported' = [exported EXCEPT !.fresh = FALSE]
  BY <1>1 DEF Aged
<1>3. /\ exported = [machine |-> exported.machine, heard |-> exported.heard, fresh |-> exported.fresh]
      /\ Grounded(exported.machine, exported.heard)
  BY <1>2 DEF RiskInv
<1>4. exported' = [machine |-> exported.machine, heard |-> exported.heard, fresh |-> FALSE]
  BY <1>2, <1>3
<1>5. exported'.machine = exported.machine /\ exported'.heard = exported.heard /\ exported'.fresh = FALSE
  BY <1>4
<1>6. QED
  BY <1>3, <1>4, <1>5

LEMMA RiskStep ==
  ASSUME RiskInv, [Next]_vars
  PROVE  RiskInv'
<1>0. FallbackState \in RiskState /\ TRADING_HALT \in RiskState /\ NoState \in Overrides \cup {NoState}
  BY RiskAssumption DEF RiskState, NORMAL, TRADING_HALT
<1>1. ASSUME NEW s \in Scores \cup {CalmScore}, NEW missing \in BOOLEAN,
             NEW prev \in Overrides \cup {NoState}, Aggregate(s, missing, prev)
      PROVE  RiskInv'
  <2>1. Aged /\ (ForceState(FallbackState) \/ Transition(s, prev))
    BY <1>1 DEF Aggregate
  <2>2. Grounded(machine', heard')
    BY <1>0, <2>1, ForcedGrounded, TransitionGrounded DEF RiskInv
  <2>3. QED
    BY <2>1, <2>2, AgedFacts DEF RiskInv
<1>2. ASSUME NEW s \in Scores, NEW prev \in Overrides \cup {NoState}, RiskStateOf(s, prev)
      PROVE  RiskInv'
  <2>1. Aged /\ Transition(s, prev)
    BY <1>2 DEF RiskStateOf
  <2>2. Grounded(machine', heard')
    BY <2>1, TransitionGrounded DEF RiskInv
  <2>3. QED
    BY <2>1, <2>2, AgedFacts DEF RiskInv
<1>3. ASSUME NEW s \in Scores, NEW missing \in BOOLEAN, NEW e \in Exposures, NEW g \in Engine,
             ValidatePosition(s, missing, e, g)
      PROVE  RiskInv'
  <2>1. Aged /\ (ForceState(TRADING_HALT) \/ ForceState(FallbackState) \/ Transition(s, NoState))
    BY <1>3 DEF ValidatePosition
  <2>2. Grounded(machine', heard')
    BY <1>0, <2>1, ForcedGrounded, TransitionGrounded DEF RiskInv
  <2>3. QED
    BY <2>1, <2>2, AgedFacts DEF RiskInv
<1>4. ASSUME NEW state \in RiskState, Reset(state)
      PROVE  RiskInv'
  <2>1. Aged /\ ForceState(state)
    BY <1>4 DEF Reset
  <2>2. QED
    BY <2>1, ForcedGrounded, AgedFacts DEF RiskInv
<1>5. CASE Export
  <2>1. /\ exported' = [machine |-> machine, heard |-> heard, fresh |-> TRUE]
        /\ machine' = machine /\ heard' = heard
    BY <1>5 DEF Export
  <2>2. exported'.machine = machine /\ exported'.heard = heard /\ exported'.fresh = TRUE
    BY <2>1
  <2>3. QED
    BY <2>1, <2>2 DEF RiskInv
<1>6. CASE Restart
  BY <1>6 DEF Restart, RiskInv
<1>7. CASE TurnCalm
  BY <1>7 DEF TurnCalm, RiskInv
<1>8. CASE UNCHANGED vars
  BY <1>8 DEF vars, RiskInv
<1>9. QED
  BY <1>0, <1>1, <1>2, <1>3, <1>4, <1>5, <1>6, <1>7, <1>8 DEF Next, HearCalm

LEMMA RiskInit == Init => RiskInv
<1> SUFFICES ASSUME Init PROVE RiskInv
  OBVIOUS
<1>1. machine = Settled(NORMAL) /\ heard = <<>> /\ exported = NoExport /\ NORMAL \in RiskState
  BY DEF Init, RiskState, NORMAL, TRADING_HALT
<1>2. Coherent(machine) /\ machine.recoveryStreak = 0
  BY <1>1, SettledFacts
<1>3. heard \in Seq(Evaluation) /\ Len(heard) = 0 /\ MaxHeard \in Nat
  BY <1>1, MaxHeardFacts
<1>4. Window(machine, heard) /\ Confirmed(machine, heard)
  BY <1>1, <1>2, <1>3 DEF Window, Confirmed
<1>5. QED
  BY <1>1, <1>2, <1>4 DEF RiskInv, Grounded

LEMMA RiskInvariance == Spec => []RiskInv
BY RiskInit, RiskStep, PTL DEF Spec

\* The counters of the machine belong together, across overrides, forced states, resets
\* and restarts from an older export (EnsembleStateMachine).
THEOREM CountersCohere == Spec => []RiskTypeOK
<1>1. RiskInv => RiskTypeOK
  <2>1. SUFFICES ASSUME RiskInv PROVE RiskTypeOK
    OBVIOUS
  <2>2. Coherent(machine)
    BY <2>1 DEF RiskInv, Grounded
  <2>3. QED
    BY <2>2 DEF Coherent, Machine, RiskTypeOK
<1>2. QED
  BY <1>1, RiskInvariance, PTL

\* The risk state falls by one rung at a time, and only after RecoveriesNeeded
\* evaluations in a row from the rung it leaves, all under that rung's recovery
\* threshold (transition, previous_state, import_state).
THEOREM RecoveriesAreConfirmed == Spec => []RecoveryConfirmed
<1>1. RiskInv => RecoveryConfirmed
  <2>1. SUFFICES ASSUME RiskInv, heard # <<>>, machine.state < Last(heard).from
                 PROVE  LET from == Last(heard).from
                            n == AtLeastOnce(RecoveriesNeeded)
                        IN  /\ machine.state = from - 1
                            /\ Len(heard) >= n
                            /\ \A i \in 1 .. n : LastHeard(n)[i].from = from /\ LastHeard(n)[i].ceiling < from
    BY DEF RecoveryConfirmed
  <2> DEFINE n == AtLeastOnce(RecoveriesNeeded)
             from == Last(heard).from
  <2>2. heard \in Seq(Evaluation) /\ Len(heard) \in Nat /\ n \in Nat \ {0}
    BY <2>1, MaxHeardFacts DEF RiskInv, Grounded, Window
  <2>3. from = heard[Len(heard)].from
    BY <2>1, <2>2 DEF Last
  <2>4. /\ machine.state = from - 1
        /\ Len(heard) >= n
        /\ \A i \in 1 .. Len(heard) : i > Len(heard) - n => heard[i].from = from /\ heard[i].ceiling < from
    BY <2>1, <2>3 DEF RiskInv, Grounded, Confirmed
  <2> HIDE DEF n, from
  <2>5. ASSUME NEW i \in 1 .. n
        PROVE  LastHeard(n)[i].from = from /\ LastHeard(n)[i].ceiling < from
    <3> DEFINE k == Len(heard) - n + i
    <3>1. k \in 1 .. Len(heard) /\ k > Len(heard) - n
      BY <2>2, <2>4, <2>5
    <3>2. LastHeard(n)[i] = heard[k]
      BY <2>2, <2>4, <2>5 DEF LastHeard
    <3>3. QED
      BY <2>4, <3>1, <3>2
  <2>6. QED
    BY <2>4, <2>5 DEF n, from
<1>2. QED
  BY <1>1, RiskInvariance, PTL
-----------------------------------------------------------------------------
(* Decisions.                                                              *)

Question == [state : RiskState, missing : BOOLEAN, exposure : Nat, rejected : BOOLEAN]

\* A decision keeps its question and adds the action.
LEMMA DecidedFields ==
  ASSUME NEW q \in Question
  PROVE  /\ Decided(q).state = q.state /\ Decided(q).missing = q.missing
         /\ Decided(q).exposure = q.exposure /\ Decided(q).rejected = q.rejected
         /\ Decided(q).action = IF q.missing /\ ActionForState(q) = "APPROVE" THEN FallbackAction
                                ELSE ActionForState(q)
BY DEF Decided

\* What the table of actions never does.
LEMMA ActionFacts ==
  ASSUME NEW q \in Question, FallbackAction # "APPROVE"
  PROVE  /\ q.state = TRADING_HALT => ActionForState(q) = "HALT"
         /\ q.rejected => ActionForState(q) \in {"REJECT", "HALT"}
         /\ q.exposure > MaxExposure[q.state] => ActionForState(q) # "APPROVE"
<1>1. /\ q.state \in {NORMAL, CAUTION, REDUCED_RISK, CAPITAL_PRESERVATION, TRADING_HALT}
      /\ q.rejected \in BOOLEAN /\ q.missing \in BOOLEAN
  BY DEF Question, RiskState, NORMAL, CAUTION, REDUCED_RISK, CAPITAL_PRESERVATION, TRADING_HALT
<1>2. CASE q.state = TRADING_HALT
  BY <1>2 DEF ActionForState
<1>3. CASE q.state # TRADING_HALT /\ q.rejected
  BY <1>3 DEF ActionForState
<1>4. CASE q.state # TRADING_HALT /\ ~q.rejected /\ q.missing
  BY <1>4 DEF ActionForState
<1>5. CASE q.state # TRADING_HALT /\ ~q.rejected /\ ~q.missing
  BY <1>1, <1>5 DEF ActionForState, NORMAL, CAUTION, REDUCED_RISK, CAPITAL_PRESERVATION, TRADING_HALT
<1>6. QED
  BY <1>1, <1>2, <1>3, <1>4, <1>5

\* Unless the configured fallback is to approve, the gate never approves in full what
\* the engine rejects or the state caps, nor anything on missing metrics, and what it
\* rejects in TRADING_HALT is a HALT (validate_position, decision).
THEOREM GateNeverOverrides ==
  ASSUME FallbackAction # "APPROVE"
  PROVE  Spec => []GateIsSafe
<1>1. Init => GateIsSafe
  BY DEF Init, GateIsSafe
<1>2. ASSUME RiskInv, GateIsSafe, [Next]_vars
      PROVE  GateIsSafe'
  <2>1. CASE UNCHANGED vars
    BY <1>2, <2>1 DEF vars, GateIsSafe
  <2>2. CASE verdict' = NoVerdict
    BY <2>2 DEF GateIsSafe
  <2>3. ASSUME NEW s \in Scores, NEW missing \in BOOLEAN, NEW e \in Exposures, NEW g \in Engine,
               ValidatePosition(s, missing, e, g)
        PROVE  GateIsSafe'
    <3> DEFINE after == IF missing THEN FallbackState ELSE Stepped(machine, s).state
               gate == GateState(after, g)
               q == [state |-> gate, missing |-> missing, exposure |-> e, rejected |-> g # "approves"]
    <3>1. after \in RiskState /\ TRADING_HALT \in RiskState
      <4>1. Coherent(Stepped(machine, s))
        BY <1>2, SteppedFacts DEF RiskInv, Grounded
      <4>2. QED
        BY <4>1, RiskAssumption DEF Coherent, Machine, RiskState, NORMAL, TRADING_HALT
    <3>2. verdict' = Decided(q)
      BY <2>3 DEF ValidatePosition
    <3>3. machine'.state = gate
      <4>1. CASE g = "halted"
        BY <2>3, <4>1, <3>1, SettledFacts DEF ValidatePosition, ForceState, GateState
      <4>2. CASE g # "halted" /\ missing
        BY <2>3, <4>2, <3>1, SettledFacts DEF ValidatePosition, ForceState, GateState
      <4>3. CASE g # "halted" /\ ~missing
        BY <2>3, <4>3 DEF ValidatePosition, Transition, InForce, GateState
      <4>4. QED
        BY <4>1, <4>2, <4>3
    <3>4. gate \in RiskState
      BY <3>1 DEF GateState
    <3> HIDE DEF gate, after
    <3>5. e \in Nat
      BY RiskAssumption
    <3> DEFINE rejected == g # "approves"
    <3>6. rejected \in BOOLEAN
      OBVIOUS
    <3>7. q \in Question
      <4> HIDE DEF rejected
      <4>1. q = [state |-> gate, missing |-> missing, exposure |-> e, rejected |-> rejected]
        BY DEF rejected
      <4> HIDE DEF q
      <4>2. QED
        BY <3>4, <3>5, <3>6, <4>1 DEF Question
    <3>8. q.state = gate
      OBVIOUS
    <3> HIDE DEF q
    <3>9. /\ verdict'.state = q.state /\ verdict'.missing = q.missing
          /\ verdict'.exposure = q.exposure /\ verdict'.rejected = q.rejected
          /\ verdict'.action = IF q.missing /\ ActionForState(q) = "APPROVE" THEN FallbackAction
                               ELSE ActionForState(q)
      BY <3>2, <3>7, DecidedFields
    <3>10. /\ q.state = TRADING_HALT => ActionForState(q) = "HALT"
           /\ q.rejected => ActionForState(q) \in {"REJECT", "HALT"}
           /\ q.exposure > MaxExposure[q.state] => ActionForState(q) # "APPROVE"
      BY <3>7, ActionFacts
    <3>11. /\ verdict'.rejected => verdict'.action \in {"REJECT", "HALT"}
           /\ verdict'.missing => verdict'.action # "APPROVE"
      BY <3>9, <3>10
    <3>12. verdict'.exposure > MaxExposure[verdict'.state] => verdict'.action # "APPROVE"
      BY <3>9, <3>10
    <3>13. machine'.state = TRADING_HALT /\ verdict'.rejected => verdict'.action = "HALT"
      BY <3>3, <3>8, <3>9, <3>10
    <3>14. QED
      BY <3>11, <3>12, <3>13 DEF GateIsSafe
  <2>4. QED
    BY <1>2, <2>1, <2>2, <2>3
       DEF Next, Aggregate, RiskStateOf, Reset, Export, Restart, TurnCalm, HearCalm
<1>3. QED
  BY <1>1, <1>2, RiskInvariance, PTL DEF Spec
=============================================================================
