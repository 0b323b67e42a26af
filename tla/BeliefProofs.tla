---------------------------- MODULE BeliefProofs ----------------------------
(***************************************************************************)
(* The arithmetic of beliefs, for any scale of log-odds and any time       *)
(* constants: clamping, relaxing, integrating and fusing into the home;    *)
(* and the least-number principle, by which the recursions over the time   *)
(* passed and the maximum over the zones are reasoned about: it is applied *)
(* to the numbers for which a claim fails, and to the distances from the   *)
(* upper bound.                                                            *)
(***************************************************************************)
EXTENDS Fusion, WellFoundedInduction, TLAPS

(* The least-number principle *)
LEMMA Least ==
  ASSUME NEW T, T \subseteq Nat, T # {}
  PROVE  \E m \in T : \A k \in T : m <= k
<1> DEFINE R == OpToRel(<, Nat)
<1>1. IsWellFoundedOn(R, Nat)
  BY NatLessThanWellFounded
<1>2. \A x, y \in Nat : y < x => <<y, x>> \in R
  BY DEF OpToRel
<1> HIDE DEF R
<1>3. PICK m \in T : \A k \in T : ~ (<<k, m>> \in R)
  BY <1>1, WFMin
<1>4. ASSUME NEW k \in T PROVE m <= k
  <2>1. m \in Nat /\ k \in Nat
    OBVIOUS
  <2>2. ~(k < m)
    BY <1>2, <1>3, <2>1
  <2> QED BY <2>1, <2>2
<1> QED BY <1>4

----------------------------------------------------------------------------
(* Clamping                                                                *)

LEMMA ClampKeeps ==
  ASSUME NEW x
  PROVE  /\ Clamp(x) \in Lams
         /\ x \in Lams => Clamp(x) = x
BY BeliefAssumption DEF Clamp, Lams

LEMMA LamsOrder ==
  /\ LamPrior \in Lams /\ LamOn \in Lams /\ LamOff \in Lams
  /\ Lams \subseteq Int
BY BeliefAssumption DEF Lams

----------------------------------------------------------------------------
(* Relaxing                                                                *)

LEMMA DivUp ==
  ASSUME NEW d \in Nat, NEW n \in Nat \ {0}
  PROVE  (d + n - 1) \div n \in 0 .. d
<1> DEFINE q == (d + n - 1) \div n
<1>1. q \in Int /\ n * q <= d + n - 1 /\ d + n - 1 < n * q + n
  OBVIOUS
<1> HIDE DEF q
<1>2. q >= 0
  <2>1. SUFFICES ASSUME q <= -1 PROVE FALSE
    BY <1>1
  <2>2. n * q <= n * (-1)
    BY <1>1, <2>1
  <2> QED BY <1>1, <2>2
<1>3. q <= d
  <2>1. SUFFICES ASSUME q >= d + 1 PROVE FALSE
    BY <1>1
  <2>2. n * q >= n * (d + 1)
    BY <1>1, <2>1
  <2>3. n * (d + 1) = n * d + n
    OBVIOUS
  <2>4. n * d >= d
    OBVIOUS
  <2> QED BY <1>1, <2>2, <2>3, <2>4
<1> QED BY <1>1, <1>2, <1>3 DEF q

(* What lies between a belief and where it relaxes to *)
Between(lam, target) == {x \in Int : \/ target <= x /\ x <= lam
                                     \/ lam <= x /\ x <= target}

(* One unit of time moves a belief towards its target and not past it. *)
LEMMA RelaxBetween ==
  ASSUME NEW lam \in Int, NEW target \in Int, NEW tau \in Nat \ {0}
  PROVE  RelaxOnce(lam, target, tau) \in Between(lam, target)
<1> DEFINE d == lam - target
<1>1. CASE d >= 0
  <2>1. (d + tau - 1) \div tau \in 0 .. d
    BY <1>1, DivUp
  <2>2. AwayFromZero(d, tau) = (d + tau - 1) \div tau
    BY <1>1 DEF AwayFromZero
  <2> QED BY <1>1, <2>1, <2>2 DEF RelaxOnce, Between
<1>2. CASE d < 0
  <2> DEFINE e == -d
  <2>1. (e + tau - 1) \div tau \in 0 .. e
    BY <1>2, DivUp
  <2>2. AwayFromZero(d, tau) = -((e + tau - 1) \div tau)
    <3>1. tau - 1 - d = e + tau - 1
      OBVIOUS
    <3> QED BY <1>2, <3>1 DEF AwayFromZero
  <2> QED BY <1>2, <2>1, <2>2 DEF RelaxOnce, Between
<1> QED BY <1>1, <1>2

(* Clamping what moved towards a target leaves it between the belief and   *)
(* the clamped target.                                                     *)
LEMMA ClampBetween ==
  ASSUME NEW lam \in Lams, NEW target \in Int, NEW x \in Between(lam, target)
  PROVE  Clamp(x) \in Between(lam, Clamp(target))
BY BeliefAssumption DEF Clamp, Between, Lams

----------------------------------------------------------------------------
(* Relaxing for any time towards one target                                *)

(* The recursion of DecayToward has a solution for any time passed. *)
Decays(f, lam, target, dt, tau) ==
  f = [n \in 0 .. dt |-> IF n = 0 THEN lam
                         ELSE RelaxOnce(f[n - 1], target, tau)]

LEMMA DecayingExists ==
  ASSUME NEW lam, NEW target, NEW tau, NEW dt \in Nat
  PROVE  \E f : Decays(f, lam, target, dt, tau)
<1> DEFINE T == {n \in Nat : ~ \E f : Decays(f, lam, target, n, tau)}
<1>1. SUFFICES ASSUME T # {} PROVE FALSE
  OBVIOUS
<1>2. PICK m \in T : \A k \in T : m <= k
  BY <1>1, Least
<1>3. CASE m = 0
  <2> DEFINE f == [n \in 0 .. 0 |-> lam]
  <2>1. Decays(f, lam, target, 0, tau)
    BY DEF Decays
  <2> QED BY <1>3, <2>1
<1>4. CASE m # 0
  <2>1. m - 1 \in Nat /\ m - 1 \notin T
    BY <1>2, <1>4
  <2>2. PICK g : Decays(g, lam, target, m - 1, tau)
    BY <2>1
  <2> DEFINE f == [n \in 0 .. m |-> IF n = m THEN RelaxOnce(g[m - 1], target, tau)
                                             ELSE g[n]]
  <2>3. ASSUME NEW n \in 0 .. m
        PROVE  f[n] = IF n = 0 THEN lam ELSE RelaxOnce(f[n - 1], target, tau)
    <3>1. CASE n = m
      BY <1>4, <2>1, <3>1
    <3>2. CASE n # m
      <4>1. n \in 0 .. m - 1
        BY <2>1, <3>2
      <4>2. f[n] = g[n]
        BY <3>2
      <4>3. n # 0 => f[n - 1] = g[n - 1]
        BY <4>1
      <4>4. g[n] = IF n = 0 THEN lam ELSE RelaxOnce(g[n - 1], target, tau)
        BY <2>2, <4>1 DEF Decays
      <4> QED BY <4>2, <4>3, <4>4
    <3> QED BY <3>1, <3>2
  <2>4. Decays(f, lam, target, m, tau)
    BY <2>3, Zenon DEF Decays
  <2> QED BY <1>2, <2>4
<1> QED BY <1>3, <1>4

LEMMA DecayIs ==
  ASSUME NEW lam, NEW target, NEW tau, NEW dt \in Nat
  PROVE  \E f : /\ Decays(f, lam, target, dt, tau)
                /\ DecayToward(lam, target, dt, tau) = f[dt]
<1> DEFINE f == CHOOSE g : Decays(g, lam, target, dt, tau)
<1>1. Decays(f, lam, target, dt, tau)
  BY DecayingExists
<1>2. DecayToward(lam, target, dt, tau) = f[dt]
  BY DEF DecayToward, Decays
<1> QED BY <1>1, <1>2

(* However long a belief relaxes, it stays between itself and its target.  *)
LEMMA DecaysBetween ==
  ASSUME NEW lam \in Int, NEW target \in Int, NEW tau \in Nat \ {0},
         NEW dt \in Nat, NEW f, Decays(f, lam, target, dt, tau), NEW n \in 0 .. dt
  PROVE  f[n] \in Between(lam, target)
<1> DEFINE T == {k \in Nat : k <= dt /\ f[k] \notin Between(lam, target)}
<1>1. SUFFICES ASSUME T # {} PROVE FALSE
  OBVIOUS
<1>2. PICK m \in T : \A k \in T : m <= k
  BY <1>1, Least
<1>3. m \in 0 .. dt /\ f[m] \notin Between(lam, target)
  OBVIOUS
<1>4. m # 0
  <2>1. f[0] = lam
    BY DEF Decays
  <2> QED BY <1>3, <2>1 DEF Between
<1>5. f[m - 1] \in Between(lam, target)
  <2>1. m - 1 \in Nat /\ m - 1 <= dt
    BY <1>3, <1>4
  <2>2. m - 1 \notin T
    BY <1>2, <2>1
  <2> QED BY <2>1, <2>2
<1>6. f[m] = RelaxOnce(f[m - 1], target, tau)
  BY <1>3, <1>4 DEF Decays
<1>7. f[m - 1] \in Int
  BY <1>5 DEF Between
<1>8. f[m] \in Between(f[m - 1], target)
  BY <1>6, <1>7, RelaxBetween
<1> QED BY <1>3, <1>5, <1>7, <1>8 DEF Between

LEMMA FadedBetween ==
  ASSUME NEW lam \in Int, NEW dt \in Nat
  PROVE  Faded(lam, dt) \in Between(lam, LamPrior)
<1>1. PICK f : /\ Decays(f, lam, LamPrior, dt, TauHome)
               /\ DecayToward(lam, LamPrior, dt, TauHome) = f[dt]
  BY DecayIs
<1>2. LamPrior \in Int /\ TauHome \in Nat \ {0} /\ dt \in 0 .. dt
  BY BeliefAssumption, FusionAssumption
<1>3. f[dt] \in Between(lam, LamPrior)
  BY <1>1, <1>2, DecaysBetween
<1> QED BY <1>1, <1>3 DEF Faded

----------------------------------------------------------------------------
(* Integrating: unit n is relaxed under the evidence rate u[n].            *)

Unit(lam, u) == RelaxOnce(lam, LamPrior + TauDecay * u, TauDecay)

Integral(f, lam, u, dt) ==
  f = [n \in 0 .. dt |-> IF n = 0 THEN lam
                         ELSE Clamp(Unit(f[n - 1], u[n]))]

LEMMA IntegralExists ==
  ASSUME NEW lam, NEW u, NEW dt \in Nat
  PROVE  \E f : Integral(f, lam, u, dt)
<1> DEFINE T == {n \in Nat : ~ \E f : Integral(f, lam, u, n)}
<1>1. SUFFICES ASSUME T # {} PROVE FALSE
  OBVIOUS
<1>2. PICK m \in T : \A k \in T : m <= k
  BY <1>1, Least
<1>3. CASE m = 0
  <2> DEFINE f == [n \in 0 .. 0 |-> lam]
  <2>1. Integral(f, lam, u, 0)
    BY DEF Integral
  <2> QED BY <1>3, <2>1
<1>4. CASE m # 0
  <2>1. m - 1 \in Nat /\ m - 1 \notin T
    BY <1>2, <1>4
  <2>2. PICK g : Integral(g, lam, u, m - 1)
    BY <2>1
  <2> DEFINE last == Clamp(Unit(g[m - 1], u[m]))
             f == [n \in 0 .. m |-> IF n = m THEN last ELSE g[n]]
  <2>3. ASSUME NEW n \in 0 .. m
        PROVE  f[n] = IF n = 0 THEN lam ELSE Clamp(Unit(f[n - 1], u[n]))
    <3>1. CASE n = m
      BY <1>4, <2>1, <3>1
    <3>2. CASE n # m
      <4>1. n \in 0 .. m - 1
        BY <2>1, <3>2
      <4>2. f[n] = g[n]
        BY <3>2
      <4>3. n # 0 => f[n - 1] = g[n - 1]
        BY <4>1
      <4>4. g[n] = IF n = 0 THEN lam ELSE Clamp(Unit(g[n - 1], u[n]))
        BY <2>2, <4>1 DEF Integral
      <4> QED BY <4>2, <4>3, <4>4
    <3> QED BY <3>1, <3>2
  <2>4. Integral(f, lam, u, m)
    BY <2>3, Zenon DEF Integral
  <2> QED BY <1>2, <2>4
<1> QED BY <1>3, <1>4

(* The belief is within the clamps after every unit. *)
LEMMA IntegralType ==
  ASSUME NEW f, NEW lam \in Lams, NEW u, NEW dt \in Nat, Integral(f, lam, u, dt),
         NEW n \in 0 .. dt
  PROVE  f[n] \in Lams
<1>1. CASE n = 0
  BY <1>1 DEF Integral
<1>2. CASE n # 0
  <2>1. f[n] = Clamp(Unit(f[n - 1], u[n]))
    BY <1>2 DEF Integral
  <2> QED BY <2>1, ClampKeeps
<1> QED BY <1>1, <1>2

(* Two integrations agree from where they meet, as long as their rates do. *)
LEMMA IntegralSame ==
  ASSUME NEW f, NEW lam, NEW u, NEW dt \in Nat, Integral(f, lam, u, dt),
         NEW g, NEW mu, NEW w, NEW e \in Nat, Integral(g, mu, w, e),
         NEW s \in Nat, s + e <= dt, f[s] = mu,
         \A n \in 1 .. e : w[n] = u[s + n]
  PROVE  \A n \in 0 .. e : g[n] = f[s + n]
<1> DEFINE T == {n \in Nat : n <= e /\ g[n] # f[s + n]}
<1>1. SUFFICES ASSUME T # {} PROVE FALSE
  OBVIOUS
<1>2. PICK m \in T : \A k \in T : m <= k
  BY <1>1, Least
<1>3. m \in 0 .. e /\ g[m] # f[s + m]
  OBVIOUS
<1>4. m # 0
  <2>1. g[0] = mu /\ s + 0 = s
    BY DEF Integral
  <2> QED BY <1>3, <2>1
<1>5. g[m - 1] = f[s + (m - 1)]
  <2>1. m - 1 \in Nat /\ m - 1 <= e /\ m - 1 \notin T
    BY <1>2, <1>3, <1>4
  <2> QED BY <2>1
<1>6. s + m \in 0 .. dt /\ s + m # 0 /\ (s + m) - 1 = s + (m - 1) /\ m \in 1 .. e
  BY <1>3, <1>4
<1>7. g[m] = Clamp(Unit(g[m - 1], w[m]))
  BY <1>3, <1>4 DEF Integral
<1>8. f[s + m] = Clamp(Unit(f[(s + m) - 1], u[s + m]))
  <2> HIDE DEF T
  <2> QED BY <1>6 DEF Integral
<1> QED BY <1>3, <1>5, <1>6, <1>7, <1>8

(* Without evidence of presence no belief rises past the onset threshold. *)
LEMMA IntegralBelowOnset ==
  ASSUME NEW f, NEW lam \in Lams, lam < LamOn, NEW u, NEW dt \in Nat,
         Integral(f, lam, u, dt), \A n \in 1 .. dt : u[n] \in Int /\ u[n] <= 0
  PROVE  f[dt] < LamOn
<1> DEFINE T == {n \in Nat : n <= dt /\ ~(f[n] < LamOn)}
<1>1. SUFFICES ASSUME T # {} PROVE FALSE
  OBVIOUS
<1>2. PICK m \in T : \A k \in T : m <= k
  BY <1>1, Least
<1>3. m \in 0 .. dt /\ ~(f[m] < LamOn)
  OBVIOUS
<1>4. m # 0
  BY <1>3 DEF Integral
<1>5. m - 1 \in 0 .. dt /\ f[m - 1] < LamOn
  <2>1. m - 1 \in Nat /\ m - 1 <= dt /\ m - 1 \notin T
    BY <1>2, <1>3, <1>4
  <2> QED BY <2>1
<1>6. f[m - 1] \in Lams /\ f[m - 1] \in Int
  BY <1>5, IntegralType, LamsOrder
<1> DEFINE target == LamPrior + TauDecay * u[m]
<1>7. target \in Int /\ target <= LamPrior
  <2>1. m \in 1 .. dt
    BY <1>3, <1>4
  <2>2. u[m] \in Int /\ u[m] <= 0
    BY <2>1
  <2>3. TauDecay * u[m] \in Int /\ TauDecay * u[m] <= 0
    <3> DEFINE v == u[m]
    <3> HIDE DEF v
    <3>1. v \in Int /\ v <= 0 => TauDecay * v \in Int /\ TauDecay * v <= 0
      BY BeliefAssumption
    <3> QED BY <2>2, <3>1 DEF v
  <2> QED BY <2>3, BeliefAssumption
<1>8. f[m] = Clamp(RelaxOnce(f[m - 1], target, TauDecay))
  <2>1. f[m] = Clamp(Unit(f[m - 1], u[m]))
    <3> HIDE DEF T
    <3> QED BY <1>3, <1>4 DEF Integral
  <2> QED BY <2>1 DEF Unit
<1> HIDE DEF target
<1> DEFINE x == RelaxOnce(f[m - 1], target, TauDecay)
<1>9. x \in Between(f[m - 1], target)
  BY <1>6, <1>7, RelaxBetween, BeliefAssumption
<1> HIDE DEF x
<1>10. x \in Int /\ x < LamOn
  BY <1>5, <1>6, <1>7, <1>9, BeliefAssumption DEF Between
<1>11. Clamp(x) < LamOn
  BY <1>10, BeliefAssumption DEF Clamp, Lams
<1> QED BY <1>3, <1>8, <1>11 DEF x

(* Under a steady rate the belief moves one way, towards the rate's        *)
(* equilibrium and never past it.                                          *)
LEMMA IntegralSteady ==
  ASSUME NEW f, NEW lam \in Lams, NEW u, NEW dt \in Nat, Integral(f, lam, u, dt),
         NEW v \in Int, \A n \in 1 .. dt : u[n] = v
  PROVE  f[dt] \in Between(lam, Clamp(LamPrior + TauDecay * v))
<1> DEFINE target == LamPrior + TauDecay * v
           goal == Clamp(target)
           T == {n \in Nat : n <= dt /\ f[n] \notin Between(lam, goal)}
<1>0. target \in Int /\ goal \in Int /\ lam \in Int
  <2>1. TauDecay * v \in Int /\ LamPrior \in Int
    BY BeliefAssumption
  <2>2. target \in Int
    BY <2>1
  <2> HIDE DEF target
  <2>3. goal \in Lams
    BY ClampKeeps
  <2> HIDE DEF goal
  <2> QED BY <2>2, <2>3, LamsOrder
<1>1. SUFFICES ASSUME T # {} PROVE FALSE
  OBVIOUS
<1>2. PICK m \in T : \A k \in T : m <= k
  BY <1>1, Least
<1>3. m \in 0 .. dt /\ f[m] \notin Between(lam, goal)
  OBVIOUS
<1> HIDE DEF goal
<1>4. m # 0
  <2>1. f[0] = lam
    BY DEF Integral
  <2> QED BY <1>0, <1>3, <2>1 DEF Between
<1>5. m - 1 \in 0 .. dt /\ f[m - 1] \in Between(lam, goal)
  <2>1. m - 1 \in Nat /\ m - 1 <= dt /\ m - 1 \notin T
    BY <1>2, <1>3, <1>4
  <2> QED BY <2>1
<1>6. f[m - 1] \in Lams /\ f[m - 1] \in Int
  BY <1>5, IntegralType, LamsOrder
<1>7. f[m] = Clamp(RelaxOnce(f[m - 1], target, TauDecay))
  <2>1. f[m] = Clamp(Unit(f[m - 1], u[m])) /\ u[m] = v
    <3> HIDE DEF T
    <3> QED BY <1>3, <1>4 DEF Integral
  <2> QED BY <2>1 DEF Unit
<1> HIDE DEF target
<1>8. RelaxOnce(f[m - 1], target, TauDecay) \in Between(f[m - 1], target)
  BY <1>0, <1>6, RelaxBetween, BeliefAssumption
<1>9. f[m] \in Between(f[m - 1], goal)
  BY <1>0, <1>6, <1>7, <1>8, ClampBetween DEF goal
<1> QED BY <1>0, <1>3, <1>5, <1>6, <1>9 DEF Between

(* Under a steady rate it is all the same whether the belief is clamped at *)
(* every unit or once at the end: a trajectory that has left the bounds is *)
(* on its way to an equilibrium outside of them.                           *)
LEMMA RelaxClamped ==
  ASSUME NEW lam \in Lams, NEW target \in Int, NEW x \in Between(lam, target),
         NEW tau \in Nat \ {0}
  PROVE  Clamp(RelaxOnce(Clamp(x), target, tau)) = Clamp(RelaxOnce(x, target, tau))
<1> DEFINE c == Clamp(x)
           near == RelaxOnce(c, target, tau)
           far == RelaxOnce(x, target, tau)
<1>1. x \in Int /\ c \in Int /\ c \in Lams /\ lam \in Int
  BY LamsOrder, ClampKeeps DEF Between
<1>2. near \in Between(c, target) /\ far \in Between(x, target)
  BY <1>1, RelaxBetween
<1>3. CASE x \in Lams
  BY <1>3, ClampKeeps
<1>4. CASE x > LamMax
  <2>1. c = LamMax /\ target >= x
    BY <1>1, <1>4, BeliefAssumption DEF Clamp, Lams, Between
  <2> HIDE DEF c, near, far
  <2>2. near >= LamMax /\ far >= LamMax /\ near \in Int /\ far \in Int
    BY <1>1, <1>2, <1>4, <2>1, BeliefAssumption DEF Between
  <2>3. Clamp(near) = LamMax /\ Clamp(far) = LamMax
    BY <2>2, BeliefAssumption DEF Clamp, Lams
  <2> QED BY <2>3 DEF c, near, far
<1>5. CASE x < LamMin
  <2>1. c = LamMin /\ target <= x
    BY <1>1, <1>5, BeliefAssumption DEF Clamp, Lams, Between
  <2> HIDE DEF c, near, far
  <2>2. near <= LamMin /\ far <= LamMin /\ near \in Int /\ far \in Int
    BY <1>1, <1>2, <1>5, <2>1, BeliefAssumption DEF Between
  <2>3. Clamp(near) = LamMin /\ Clamp(far) = LamMin
    BY <2>2, BeliefAssumption DEF Clamp, Lams
  <2> QED BY <2>3 DEF c, near, far
<1> QED BY <1>1, <1>3, <1>4, <1>5, BeliefAssumption DEF Lams

LEMMA ClampedSegment ==
  ASSUME NEW f, NEW lam \in Lams, NEW u, NEW dt \in Nat, Integral(f, lam, u, dt),
         NEW v \in Int, \A n \in 1 .. dt : u[n] = v
  PROVE  f[dt] = Clamp(AdvanceBelief(lam, v, dt))
<1> DEFINE target == LamPrior + TauDecay * v
<1>1. target \in Int /\ TauDecay \in Nat \ {0} /\ lam \in Int
  <2>1. TauDecay * v \in Int /\ LamPrior \in Int
    BY BeliefAssumption
  <2> QED BY <2>1, BeliefAssumption, LamsOrder
<1>2. PICK g : /\ Decays(g, lam, target, dt, TauDecay)
               /\ DecayToward(lam, target, dt, TauDecay) = g[dt]
  BY DecayIs
<1>3. AdvanceBelief(lam, v, dt) = g[dt]
  BY <1>2 DEF AdvanceBelief
<1>4. ASSUME NEW n \in 1 .. dt
      PROVE  f[n] = Clamp(RelaxOnce(f[n - 1], target, TauDecay))
  <2>1. n \in 0 .. dt /\ n # 0
    OBVIOUS
  <2>2. f[n] = Clamp(Unit(f[n - 1], u[n]))
    BY <2>1 DEF Integral
  <2> QED BY <2>2 DEF Unit
<1> HIDE DEF target
<1> DEFINE T == {n \in Nat : n <= dt /\ f[n] # Clamp(g[n])}
<1>5. SUFFICES ASSUME T # {} PROVE FALSE
  BY <1>3
<1>6. PICK m \in T : \A k \in T : m <= k
  BY <1>5, Least
<1>7. m \in 0 .. dt /\ f[m] # Clamp(g[m])
  OBVIOUS
<1>8. m # 0
  <2>1. f[0] = lam /\ g[0] = lam
    BY <1>2 DEF Integral, Decays
  <2> QED BY <1>7, <2>1, ClampKeeps
<1>9. m - 1 \in 0 .. dt /\ f[m - 1] = Clamp(g[m - 1])
  <2>1. m - 1 \in Nat /\ m - 1 <= dt /\ m - 1 \notin T
    BY <1>6, <1>7, <1>8
  <2> QED BY <2>1
<1>10. g[m] = RelaxOnce(g[m - 1], target, TauDecay)
  BY <1>2, <1>7, <1>8 DEF Decays
<1>11. g[m - 1] \in Between(lam, target)
  BY <1>1, <1>2, <1>9, DecaysBetween
<1>12. f[m] = Clamp(RelaxOnce(f[m - 1], target, TauDecay))
  <2>1. m \in 1 .. dt
    BY <1>7, <1>8
  <2> QED BY <1>4, <2>1
<1> QED BY <1>1, <1>7, <1>9, <1>10, <1>11, <1>12, RelaxClamped

----------------------------------------------------------------------------
(* Fusing: the largest of several bounded numbers *)
LEMMA LargestOf ==
  ASSUME NEW S, S \subseteq Int, S # {}, NEW top \in Int, \A x \in S : x <= top
  PROVE  Max(S) \in S /\ \A x \in S : x <= Max(S)
<1> DEFINE below == {top - x : x \in S}
<1>1. below \subseteq Nat /\ below # {}
  <2>1. \A x \in S : top - x \in Nat
    OBVIOUS
  <2> QED BY <2>1
<1>2. PICK m \in below : \A k \in below : m <= k
  BY <1>1, Least
<1>3. PICK largest \in S : m = top - largest
  OBVIOUS
<1>4. \A x \in S : largest >= x
  <2> TAKE x \in S
  <2>1. top - x \in below
    OBVIOUS
  <2>2. m <= top - x
    BY <1>2, <2>1
  <2> QED BY <1>3, <2>2
<1>5. \E x \in S : \A y \in S : x >= y
  BY <1>4
<1>6. Max(S) \in S /\ \A y \in S : Max(S) >= y
  BY <1>5 DEF Max
<1> QED BY <1>6

(* The strongest of the zones' beliefs *)
LEMMA MaxOfBeliefs ==
  ASSUME NEW S, S \subseteq Lams, S # {}
  PROVE  Max(S) \in S /\ \A x \in S : x <= Max(S)
<1>1. S \subseteq Int /\ LamMax \in Int /\ \A x \in S : x <= LamMax
  BY BeliefAssumption DEF Lams
<1> QED BY <1>1, LargestOf

----------------------------------------------------------------------------
(* One call of the home's fusion                                           *)

Homes == [lam : Lams, on : BOOLEAN]

LEMMA Refreshed ==
  ASSUME NEW h \in Homes, NEW dt \in Nat,
         NEW sh, \A z \in DOMAIN sh : sh[z].lam \in Lams
  PROVE  LET new == RefreshHome(h, sh, dt)
         IN  /\ new \in Homes
             /\ Healthy(sh) = {} => new = h
             /\ Healthy(sh) # {} => new.on = HomeLatch(h.on, new.lam)
             /\ \A z \in HealthyOccupied(sh) : new.lam >= sh[z].lam
             /\ new.lam < h.lam => /\ Healthy(sh) # {} /\ HealthyOccupied(sh) = {}
                                   /\ new.lam >= LamPrior
<1> DEFINE new == RefreshHome(h, sh, dt)
           occupied == {sh[z].lam : z \in HealthyOccupied(sh)}
           ratchet == Larger(h.lam, Max(occupied))
           faded == Faded(h.lam, dt)
<1>1. h.lam \in Lams /\ h.on \in BOOLEAN /\ h.lam \in Int /\ LamPrior \in Lams
      /\ Lams \subseteq Int
  BY BeliefAssumption DEF Homes, Lams
<1>2. HealthyOccupied(sh) \subseteq Healthy(sh) /\ occupied \subseteq Lams
  BY DEF HealthyOccupied, Healthy
<1>3. CASE Healthy(sh) = {}
  <2>1. new = h
    BY <1>3 DEF RefreshHome
  <2> HIDE DEF new
  <2>2. HealthyOccupied(sh) = {} /\ ~(new.lam < h.lam)
    BY <1>1, <1>2, <1>3, <2>1
  <2>3. /\ new \in Homes
        /\ Healthy(sh) = {} => new = h
        /\ Healthy(sh) # {} => new.on = HomeLatch(h.on, new.lam)
        /\ \A z \in HealthyOccupied(sh) : new.lam >= sh[z].lam
        /\ new.lam < h.lam => /\ Healthy(sh) # {} /\ HealthyOccupied(sh) = {}
                              /\ new.lam >= LamPrior
    BY <1>3, <2>1, <2>2
  <2> QED BY <2>3 DEF new
<1>4. CASE Healthy(sh) # {}
  <2>1. new = [lam |-> Clamp(IF occupied # {} THEN ratchet ELSE faded),
               on |-> HomeLatch(h.on, Clamp(IF occupied # {} THEN ratchet ELSE faded))]
    BY <1>4 DEF RefreshHome
  <2>2. new.lam = Clamp(IF occupied # {} THEN ratchet ELSE faded)
        /\ new = [lam |-> new.lam, on |-> HomeLatch(h.on, new.lam)]
    BY <2>1
  <2>3. ASSUME occupied # {}
        PROVE  /\ ratchet \in Lams /\ ratchet >= h.lam
               /\ \A z \in HealthyOccupied(sh) : ratchet >= sh[z].lam
    <3>1. Max(occupied) \in Lams /\ \A x \in occupied : x <= Max(occupied)
      BY <1>2, <2>3, MaxOfBeliefs
    <3>2. ratchet \in Lams /\ ratchet >= h.lam /\ ratchet >= Max(occupied)
      <4> DEFINE top == Max(occupied)
      <4>1. top \in Lams /\ top \in Int /\ h.lam \in Int
        BY <1>1, <3>1
      <4>2. ratchet = IF h.lam >= top THEN h.lam ELSE top
        BY DEF Larger
      <4> HIDE DEF top, ratchet
      <4>3. ratchet \in Lams /\ ratchet >= h.lam /\ ratchet >= top
        BY <1>1, <4>1, <4>2
      <4> QED BY <4>3 DEF top
    <3>3. ASSUME NEW z \in HealthyOccupied(sh) PROVE ratchet >= sh[z].lam
      <4>1. sh[z].lam \in occupied
        OBVIOUS
      <4> DEFINE top == Max(occupied)
                 x == sh[z].lam
      <4> HIDE DEF occupied, ratchet
      <4>2. x <= top /\ x \in Int /\ top \in Int /\ ratchet \in Int /\ ratchet >= top
        BY <1>1, <1>2, <3>1, <3>2, <4>1
      <4> HIDE DEF top, x
      <4>3. ratchet >= x
        BY <4>2
      <4> QED BY <4>3 DEF x
    <3> QED BY <3>2, <3>3
  <2>4. faded \in Between(h.lam, LamPrior) /\ faded \in Lams
    <3>1. faded \in Between(h.lam, LamPrior)
      BY <1>1, FadedBetween
    <3> QED BY <1>1, <3>1, BeliefAssumption DEF Between, Lams
  <2>5. occupied = {} => HealthyOccupied(sh) = {}
    OBVIOUS
  <2> HIDE DEF new, occupied, ratchet, faded
  <2>6. new.lam = IF occupied # {} THEN ratchet ELSE faded
    BY <2>2, <2>3, <2>4, ClampKeeps
  <2>7. new.lam \in Lams /\ new.on = HomeLatch(h.on, new.lam) /\ new \in Homes
    <3>1. new.lam \in Lams
      BY <2>3, <2>4, <2>6
    <3>2. HomeLatch(h.on, new.lam) \in BOOLEAN
      <4>1. new.lam \in Int /\ LamHomeOn \in Int /\ LamHomeOff \in Int /\ h.on \in BOOLEAN
        BY <1>1, <3>1, FusionAssumption
      <4> DEFINE on == h.on
                 lam == new.lam
      <4> HIDE DEF on, lam
      <4>2. HomeLatch(on, lam) = TRUE \/ HomeLatch(on, lam) = FALSE
        BY <4>1 DEF HomeLatch, on, lam
      <4> QED BY <4>2 DEF on, lam
    <3> QED BY <2>2, <3>1, <3>2 DEF Homes
  <2>8. \A z \in HealthyOccupied(sh) : new.lam >= sh[z].lam
    BY <2>3, <2>5, <2>6
  <2>9. ASSUME new.lam < h.lam
        PROVE  HealthyOccupied(sh) = {} /\ new.lam >= LamPrior
    <3>1. occupied = {}
      <4>1. SUFFICES ASSUME occupied # {} PROVE FALSE
        OBVIOUS
      <4>2. new.lam = ratchet /\ ratchet \in Int /\ h.lam \in Int /\ ratchet >= h.lam
        BY <1>1, <2>3, <2>6, <4>1
      <4> QED BY <2>9, <4>2
    <3>2. new.lam = faded
      BY <2>6, <3>1
    <3> QED BY <1>1, <2>4, <2>5, <2>9, <3>1, <3>2 DEF Between
  <2>10. /\ new \in Homes
         /\ Healthy(sh) = {} => new = h
         /\ Healthy(sh) # {} => new.on = HomeLatch(h.on, new.lam)
         /\ \A z \in HealthyOccupied(sh) : new.lam >= sh[z].lam
         /\ new.lam < h.lam => /\ Healthy(sh) # {} /\ HealthyOccupied(sh) = {}
                               /\ new.lam >= LamPrior
    BY <1>4, <2>7, <2>8, <2>9
  <2> QED BY <2>10 DEF new
<1> QED BY <1>3, <1>4
=============================================================================
