------------------------------- MODULE Belief -------------------------------
(***************************************************************************)
(* The occupancy belief of core/belief.py on an integer scale.             *)
(*                                                                         *)
(* lambda is a bounded log-odds accumulator.  The model keeps its order:   *)
(* the thresholds the engine derives from its tunables at construction,    *)
(* the clamp, and a relaxation that moves towards the equilibrium without  *)
(* passing it.  The exponential itself is data and is replaced by a        *)
(* first-order step per unit of time, rounded away from zero so that a     *)
(* relaxation always reaches its target, as the clamped reals do up to any *)
(* resolution.                                                             *)
(***************************************************************************)
EXTENDS Integers

CONSTANTS
  LamMin, LamMax,      \* logit(p_min), logit(p_max)
  LamPrior,            \* logit(p_prior)
  LamAttack,           \* logit(p_attack)
  LamOn, LamOff,       \* logit(theta_on), logit(theta_off)
  TauDecay             \* tau_decay, in units of time

(* What the properties need of the thresholds: both within the clamps, the *)
(* lower one below the upper one, the prior below the upper one.  The      *)
(* options flow sets each tunable by itself (config_flow.py 87-98), so it  *)
(* also admits theta_on above p_max, theta_off below p_min, p_prior below  *)
(* p_min, and theta_on, theta_off and p_prior all equal to 0.5: these are  *)
(* excluded here and named in the README.                                  *)
ASSUME BeliefAssumption ==
  /\ LamMin \in Int /\ LamMax \in Int /\ LamAttack \in Int
  /\ LamPrior \in LamMin .. LamMax
  /\ LamOn \in LamMin .. LamMax
  /\ LamOff \in LamMin .. LamMax
  /\ LamOff < LamOn
  /\ LamPrior < LamOn
  /\ TauDecay \in Nat \ {0}

Lams == LamMin .. LamMax

Larger(a, b) == IF a >= b THEN a ELSE b
Smaller(a, b) == IF a <= b THEN a ELSE b

(* A mutant of Clamp: the belief has no ceiling. *)
ClampBelow(lam) == IF lam < LamMin THEN LamMin ELSE lam

(* belief.clamp *)
Clamp(lam) ==
  IF lam \in Lams THEN lam ELSE IF lam > LamMax THEN LamMax ELSE LamMin

(* d / n rounded away from zero: never 0 unless d is. *)
AwayFromZero(d, n) ==
  IF d >= 0 THEN (d + n - 1) \div n ELSE -((n - 1 - d) \div n)

(* belief.decay_toward over one unit of time *)
RelaxOnce(lam, target, tau) == lam - AwayFromZero(lam - target, tau)

(* belief.decay_toward over dt units of time: the closed form is the       *)
(* relaxation of each unit applied in turn, as for the exponential.        *)
DecayToward(lam, target, dt, tau) ==
  LET relaxed[n \in 0 .. dt] ==
        IF n = 0 THEN lam ELSE RelaxOnce(relaxed[n - 1], target, tau)
  IN  relaxed[dt]

(* A mutant of AdvanceBelief: evidence of absence moves nothing. *)
AdvanceBeliefUpOnly(lam, u, dt) ==
  IF u <= 0 THEN lam
  ELSE DecayToward(lam, LamPrior + TauDecay * u, dt, TauDecay)

(* belief.advance: relax towards prior + tau * u under a constant rate u   *)
AdvanceBelief(lam, u, dt) ==
  DecayToward(lam, LamPrior + TauDecay * u, dt, TauDecay)
=============================================================================
