--------------------------- MODULE RedisGuardsProofs ---------------------------
(***************************************************************************)
(* Proofs about the guards that live in Redis: the token bucket for every  *)
(* rate, burst, resolution and key lifetime, the lock, the login limiter   *)
(* and the two windows, each for any number of callers.                    *)
(***************************************************************************)
EXTENDS MCRedisGuards, FiniteSetTheorems, TLAPS

(* The token bucket is a potential: what was granted from it and what it   *)
(* still holds grow by no more than accrued from since to last, also when  *)
(* last moves back because scripts run out of the order of their clock     *)
(* readings.                                                               *)
Potential ==
  wrote # -1 => (granted + tokens - Burst) * TicksPerSec <= (last - since) * Rate

IInv == TypeOK /\ RateBound /\ Potential

\* math.floor of the script: at most what accrued, also for negative times.
LEMMA EarnedBound ==
  ASSUME NEW d \in Int
  PROVE  Earned(d) \in Int /\ Earned(d) * TicksPerSec <= d * Rate
  BY ConfigAssumption DEF Earned

\* The refill of the script is an integer of at most Burst, and in a bucket
\* that exists at most its tokens and what accrued since last_update.
LEMMA RemainingBound ==
  ASSUME TypeOK, NEW t \in Int
  PROVE  /\ Remaining(t) \in Int
         /\ Remaining(t) <= Burst
         /\ Present => Remaining(t) <= tokens + Earned(t - last)
<1>1. Earned(t - last) \in Int
  BY EarnedBound DEF TypeOK
<1> QED
  BY <1>1, ConfigAssumption DEF TypeOK, Remaining

\* Products are monotone: cancels the resolution out of the bounds below.
LEMMA TimesMonotone ==
  ASSUME NEW a \in Int, NEW b \in Int, NEW k \in Nat, a <= b
  PROVE  a * k <= b * k
  OBVIOUS

LEMMA DropNat ==
  ASSUME NEW a \in Int, NEW b \in Int, NEW t \in Nat, NEW k \in Nat
  PROVE  (a - b) * k <= (a + t - b) * k
<1>1. a - b \in Int /\ a + t - b \in Int /\ a - b <= a + t - b
  OBVIOUS
<1> QED
  BY <1>1, TimesMonotone

LEMMA InitIInv == Init => IInv
<1> SUFFICES ASSUME Init  PROVE IInv
  OBVIOUS
<1>1. TypeOK
  BY ConfigAssumption DEF Init, TypeOK
<1>2. 0 * TicksPerSec <= Burst * TicksPerSec
  BY TimesMonotone, ConfigAssumption
<1>3. RateBound
  BY <1>2, ConfigAssumption DEF Init, RateBound
<1> QED
  BY <1>1, <1>3 DEF Init, IInv, Potential

\* One script that takes n tokens of a bucket that may be new.
LEMMA ScriptKeepsBound ==
  ASSUME IInv, NEW c \in Callers, NEW n \in Nat,
         Store(c, Remaining(now[c]) - n), Note(c, n),
         n > 0 => Remaining(now[c]) >= n,
         UNCHANGED clock
  PROVE  RateBound' /\ Potential'
<1> DEFINE R == Remaining(now[c])
           E == Earned(now[c] - last)
<1>1. now[c] \in Int /\ now[c] <= clock /\ last \in Int /\ clock \in Int
  BY DEF IInv, TypeOK
<1>2. R \in Int /\ R <= Burst /\ (Present => R <= tokens + E)
  BY <1>1, RemainingBound DEF IInv
<1>3. /\ last' = now[c] /\ tokens' = R - n /\ clock' = clock
      /\ granted' = n + (IF Present THEN granted ELSE 0)
      /\ since' = IF Present THEN since ELSE now[c]
  BY DEF Store, Note
<1>4. Potential'
  <2>1. CASE Present
    <3>1. E \in Int /\ E * TicksPerSec <= (now[c] - last) * Rate
      BY <1>1, EarnedBound
    <3>2. (granted + tokens - Burst) * TicksPerSec <= (last - since) * Rate
      BY <2>1 DEF IInv, Potential, Present
    <3>3. (granted + R - Burst) * TicksPerSec
            <= (granted + tokens + E - Burst) * TicksPerSec
      BY <1>2, <2>1, <3>1, TimesMonotone, ConfigAssumption DEF IInv, TypeOK
    <3>4. (granted + tokens + E - Burst) * TicksPerSec
            = (granted + tokens - Burst) * TicksPerSec + E * TicksPerSec
      BY <3>1, ConfigAssumption DEF IInv, TypeOK
    <3>5. (now[c] - last) * Rate + (last - since) * Rate
            = (now[c] - since) * Rate
      BY <1>1, ConfigAssumption DEF IInv, TypeOK
    <3>6. (granted + R - Burst) * TicksPerSec <= (now[c] - since) * Rate
      <4> HIDE DEF R, E
      <4> QED
        BY <1>1, <1>2, <3>1, <3>2, <3>3, <3>4, <3>5, ConfigAssumption
        DEF IInv, TypeOK
    <3>7. granted' + tokens' - Burst = granted + R - Burst
      BY <1>2, <1>3, <2>1, ConfigAssumption DEF IInv, TypeOK
    <3>8. last' - since' = now[c] - since
      BY <1>3, <2>1
    <3> QED
      BY <3>6, <3>7, <3>8, Zenon DEF Potential
  <2>2. CASE ~Present
    <3>1. (granted' + tokens' - Burst) * TicksPerSec <= 0 * TicksPerSec
      BY <1>2, <1>3, <2>2, TimesMonotone, ConfigAssumption
    <3> QED
      BY <1>1, <1>3, <2>2, <3>1, ConfigAssumption DEF Potential
  <2> QED
    BY <2>1, <2>2
<1>5. RateBound'
  <2>1. CASE n = 0
    BY <1>1, <1>3, <2>1, ConfigAssumption DEF IInv, TypeOK, RateBound
  <2>2. CASE n > 0
    <3>1. PICK g \in Int, s \in Int, t \in Nat :
            g = granted' /\ s = since' /\ t = tokens'
      BY <1>1, <1>2, <1>3, <2>2 DEF IInv, TypeOK
    <3>2. (g + t - Burst) * TicksPerSec <= (now[c] - s) * Rate
      <4>1. wrote' # -1
        BY DEF Store, IInv, TypeOK
      <4> QED
        BY <1>3, <1>4, <3>1, <4>1 DEF Potential
    <3>3. (g - Burst) * TicksPerSec <= (g + t - Burst) * TicksPerSec
      BY DropNat, ConfigAssumption
    <3>4. (now[c] - s) * Rate <= (clock - s) * Rate
      BY <1>1, TimesMonotone, ConfigAssumption
    <3>5. (g - Burst) * TicksPerSec = g * TicksPerSec - Burst * TicksPerSec
      BY ConfigAssumption
    <3>6. g * TicksPerSec <= Burst * TicksPerSec + (clock - s) * Rate
      BY <1>1, <3>2, <3>3, <3>4, <3>5, ConfigAssumption
    <3> QED
      BY <1>3, <3>1, <3>6 DEF RateBound
  <2> QED
    BY <2>1, <2>2
<1> QED
  BY <1>4, <1>5

LEMMA NextIInv == IInv /\ [Next]_vars => IInv'
<1> SUFFICES ASSUME IInv, [Next]_vars
             PROVE  IInv'
  OBVIOUS
<1> USE DEF bucketVars, callVars, historyVars
<1>1. ASSUME NEW c \in Callers, NEW n \in Asks, AllowN(c, n)
      PROVE  IInv'
  BY <1>1, AsksAssumption, ConfigAssumption
  DEF AllowN, IInv, TypeOK, RateBound, Potential
<1>2. ASSUME NEW c \in Callers, Eval(c)
      PROVE  IInv'
  <2>1. PICK n \in Nat : /\ Store(c, Remaining(now[c]) - n) /\ Note(c, n)
                         /\ n > 0 => Remaining(now[c]) >= n
    <3>1. now[c] \in Int /\ ask[c] \in Nat
      <4>1. now[c] \in 0..clock /\ ask[c] \in Asks \cup {0}
        BY DEF IInv, TypeOK
      <4>2. \A n \in Asks : n \in Nat
        BY AsksAssumption, ConfigAssumption
      <4> QED
        BY <4>1, <4>2
    <3>2. Remaining(now[c]) \in Int
      BY <3>1, RemainingBound DEF IInv
    <3>3. CASE Grant(c)
      BY <3>1, <3>3 DEF Grant
    <3>4. CASE Refuse(c)
      <4>1. Remaining(now[c]) - 0 = Remaining(now[c])
        BY <3>2
      <4> QED
        BY <3>4, <4>1 DEF Refuse
    <3> QED
      BY <1>2, <3>3, <3>4 DEF Eval
  <2>2. RateBound' /\ Potential'
    BY <1>2, <2>1, ScriptKeepsBound DEF Eval
  <2>3. TypeOK'
    <3>1. now[c] \in 0..clock /\ Remaining(now[c]) \in Int
          /\ Remaining(now[c]) <= Burst
      BY RemainingBound DEF IInv, TypeOK
    <3> QED
      BY <1>2, <2>1, <3>1, ConfigAssumption
      DEF IInv, TypeOK, Eval, Return, Store, Note
  <2> QED
    BY <2>2, <2>3 DEF IInv
<1>3. ASSUME NEW c \in Callers, EvalFails(c)
      PROVE  IInv'
  BY <1>3 DEF EvalFails, Return, IInv, TypeOK, RateBound, Potential
<1>4. ASSUME NEW c \in Callers, GetRemaining(c)
      PROVE  IInv'
  <2>1. Remaining(clock) \in Int
    BY RemainingBound DEF IInv, TypeOK
  <2> QED
    BY <1>4, <2>1 DEF GetRemaining, IInv, TypeOK, RateBound, Potential
<1>5. CASE Reset
  <2>1. TypeOK'
    BY <1>5, ConfigAssumption DEF Reset, IInv, TypeOK
  <2>2. RateBound'
    BY <1>5 DEF Reset, IInv, RateBound
  <2> QED
    BY <1>5, <2>1, <2>2 DEF Reset, IInv, Potential
<1>6. CASE Tick
  <2>1. (clock - since) * Rate <= (clock' - since) * Rate
    BY <1>6, TimesMonotone, ConfigAssumption DEF Tick, IInv, TypeOK
  <2>2. RateBound'
    BY <1>6, <2>1, ConfigAssumption DEF Tick, IInv, TypeOK, RateBound
  <2> QED
    BY <1>6, <2>2, ConfigAssumption DEF Tick, IInv, TypeOK, Potential
<1>7. CASE UNCHANGED vars
  BY <1>7 DEF vars, IInv, TypeOK, RateBound, Potential
<1> QED
  BY <1>1, <1>2, <1>3, <1>4, <1>5, <1>6, <1>7 DEF Next

\* The tokens granted from one bucket never exceed the burst and what accrued
\* at Rate since it started, for every configuration and every interleaving of
\* clock readings, scripts, expiries and resets (limiter.go:114-133).
THEOREM RateBoundInvariant == Spec => []RateBound
<1>1. IInv => RateBound
  BY DEF IInv
<1> QED
  BY <1>1, InitIInv, NextIInv, PTL DEF Spec

-----------------------------------------------------------------------------
(* Refusals.  A bucket whose scripts ran in the order of their clock       *)
(* readings holds no debt; and what GetRemaining told a caller is a lower  *)
(* bound of what its own script will find, however late it runs.           *)

NoDebt == wrote # -1 /\ inOrder => tokens >= 0

\* The clock reading that the caller's next script runs with, as early as it may be.
ReadingOf(c) == IF pc[c] = "asked" THEN now[c] ELSE clock

ToldHolds == \A c \in Callers : told[c] = 0 \/ told[c] <= Remaining(ReadingOf(c))

RefusalInv == IInv /\ NoDebt /\ ToldHolds

\* A later reading finds as many tokens or more.
LEMMA EarnedMonotone ==
  ASSUME NEW d \in Int, NEW e \in Int, d <= e
  PROVE  Earned(d) <= Earned(e)
<1>1. d * Rate \in Int /\ e * Rate \in Int /\ d * Rate <= e * Rate
  BY TimesMonotone, ConfigAssumption
<1>2. \A x, y \in Int : x <= y => x \div TicksPerSec <= y \div TicksPerSec
  BY ConfigAssumption
<1> QED
  BY <1>1, <1>2 DEF Earned

\* What accrued in some time is less than a token only before the time of a token.
LEMMA EarnedNothing ==
  ASSUME NEW d \in Nat
  PROVE  Earned(d) >= 0 /\ (Earned(d) < 1 => d * Rate < TicksPerSec)
<1>1. d * Rate \in Nat
  BY ConfigAssumption
<1>2. \A x \in Nat : /\ x \div TicksPerSec >= 0
                     /\ x \div TicksPerSec < 1 => x < TicksPerSec
  BY ConfigAssumption
<1> QED
  BY <1>1, <1>2 DEF Earned

LEMMA AskType ==
  ASSUME TypeOK, NEW c \in Callers
  PROVE  ask[c] \in Nat /\ ask[c] <= Burst /\ (pc[c] = "asked" => ask[c] > 0)
<1>1. ask[c] \in Asks \cup {0} /\ (pc[c] = "asked" => ask[c] # 0)
  BY DEF TypeOK
<1>2. \A n \in Asks : n \in Nat /\ n <= Burst /\ n > 0
  BY AsksAssumption, ConfigAssumption
<1> QED
  BY <1>1, <1>2, ConfigAssumption

LEMMA NoDebtStep ==
  ASSUME IInv, NoDebt, [Next]_vars
  PROVE  NoDebt'
<1> USE DEF bucketVars, callVars, historyVars
<1>1. ASSUME NEW c \in Callers, NEW n \in Int, Remaining(now[c]) >= n \/ n = 0,
             Store(c, Remaining(now[c]) - n), Note(c, n)
      PROVE  NoDebt'
  <2>1. /\ now[c] \in Nat /\ last \in Nat /\ tokens \in Int
        /\ Remaining(now[c]) \in Int
    BY RemainingBound DEF IInv, TypeOK
  <2>2. /\ tokens' = Remaining(now[c]) - n
        /\ inOrder' = (Present => inOrder /\ last <= now[c])
    BY <1>1 DEF Store, Note
  <2>3. CASE Present
    <3>1. ASSUME inOrder'
          PROVE  Remaining(now[c]) >= 0
      <4>0. inOrder /\ last <= now[c]
        BY <2>2, <2>3, <3>1, Zenon
      <4>1. tokens >= 0 /\ now[c] - last \in Nat
        BY <2>1, <2>3, <4>0 DEF NoDebt, Present
      <4>2. Earned(now[c] - last) >= 0 /\ Earned(now[c] - last) \in Int
        BY <4>1, EarnedNothing, EarnedBound
      <4> QED
        BY <2>1, <2>3, <4>1, <4>2, ConfigAssumption DEF Remaining
    <3> QED
      BY <1>1, <2>1, <2>2, <3>1 DEF NoDebt
  <2>4. CASE ~Present
    BY <1>1, <2>1, <2>2, <2>4, ConfigAssumption DEF NoDebt, Remaining
  <2> QED
    BY <2>3, <2>4
<1>2. ASSUME NEW c \in Callers, Eval(c)
      PROVE  NoDebt'
  <2>1. Remaining(now[c]) \in Int /\ Remaining(now[c]) - 0 = Remaining(now[c])
    BY RemainingBound DEF IInv, TypeOK
  <2>2. ask[c] \in Int
    BY AskType DEF IInv
  <2>3. CASE Grant(c)
    BY <1>1, <2>2, <2>3 DEF Grant
  <2>4. CASE Refuse(c)
    BY <1>1, <2>1, <2>4 DEF Refuse
  <2> QED
    BY <1>2, <2>3, <2>4 DEF Eval
<1>3. CASE Reset
  BY <1>3 DEF Reset, NoDebt
<1>4. ASSUME UNCHANGED <<wrote, inOrder, tokens>>
      PROVE  NoDebt'
  BY <1>4 DEF NoDebt
<1> QED
  BY <1>2, <1>3, <1>4 DEF Next, AllowN, EvalFails, GetRemaining, Tick, vars

LEMMA RemainingMonotone ==
  ASSUME TypeOK, NEW t \in Int, NEW u \in Int, t <= u
  PROVE  Remaining(t) <= Remaining(u)
<1>1. t - last \in Int /\ u - last \in Int /\ t - last <= u - last /\ tokens \in Int
  BY DEF TypeOK
<1>2. /\ Earned(t - last) \in Int /\ Earned(u - last) \in Int
      /\ Earned(t - last) <= Earned(u - last)
  BY <1>1, EarnedBound, EarnedMonotone
<1> QED
  BY <1>1, <1>2, ConfigAssumption DEF Remaining

\* Between GetRemaining and the caller's script the bucket only gains: time passes, the
\* key expires or is deleted.
LEMMA ToldStep ==
  ASSUME IInv, ToldHolds, [Next]_vars
  PROVE  ToldHolds'
<1> USE DEF bucketVars, callVars, historyVars
<1>1. \A t \in Int : Remaining(t) \in Int /\ Remaining(t) <= Burst
  BY RemainingBound DEF IInv
<1>2. \A c \in Callers : /\ told[c] \in Int /\ ReadingOf(c) \in Int /\ now[c] \in Int
                         /\ now[c] <= clock /\ clock \in Int
                         /\ told[c] = 0 \/ told[c] <= Remaining(ReadingOf(c))
  BY DEF IInv, TypeOK, ReadingOf, ToldHolds
<1>3. /\ pc \in [Callers -> {"idle", "asked"}] /\ now \in [Callers -> Int]
      /\ told \in [Callers -> Int]
  BY DEF IInv, TypeOK
<1>4. UNCHANGED <<clock, bucketVars>> => \A t \in Int : Remaining(t)' = Remaining(t)
  BY DEF Remaining, Present
<1>5. \A t, u \in Int : t <= u => Remaining(t) <= Remaining(u)
  BY RemainingMonotone DEF IInv
<1>6. ASSUME NEW c \in Callers, NEW n \in Asks, AllowN(c, n)
      PROVE  ToldHolds'
  <2>1. \A d \in Callers : ReadingOf(d)' = ReadingOf(d)
    BY <1>3, <1>6 DEF AllowN, ReadingOf
  <2> QED
    BY <1>2, <1>4, <1>6, <2>1 DEF AllowN, ToldHolds
<1>7. ASSUME NEW c \in Callers, Eval(c)
      PROVE  ToldHolds'
  <2>1. told' = [d \in Callers |-> 0]
    BY <1>7 DEF Eval, Grant, Refuse, Note
  <2> QED
    BY <2>1 DEF ToldHolds
<1>8. ASSUME NEW c \in Callers, EvalFails(c)
      PROVE  ToldHolds'
  <2>1. \A d \in Callers : ReadingOf(d)' \in Int /\ ReadingOf(d) <= ReadingOf(d)'
    BY <1>2, <1>3, <1>8 DEF EvalFails, Return, ReadingOf
  <2>2. \A d \in Callers : Remaining(ReadingOf(d)) <= Remaining(ReadingOf(d)')
    BY <1>2, <1>5, <2>1
  <2>3. \A d \in Callers : told'[d] = 0 \/ told'[d] <= Remaining(ReadingOf(d)')
    BY <1>1, <1>2, <1>8, <2>1, <2>2 DEF EvalFails
  <2>4. \A d \in Callers : Remaining(ReadingOf(d))' = Remaining(ReadingOf(d)')
    BY <1>8 DEF EvalFails, Remaining, Present
  <2> QED
    BY <2>3, <2>4 DEF ToldHolds
<1>9. ASSUME NEW c \in Callers, GetRemaining(c)
      PROVE  ToldHolds'
  <2>1. \A d \in Callers : ReadingOf(d)' = ReadingOf(d)
    BY <1>9 DEF GetRemaining, ReadingOf
  <2>2. /\ told' = [told EXCEPT ![c] = Remaining(clock)] /\ ReadingOf(c) = clock
        /\ clock \in Int /\ Remaining(clock) <= Remaining(clock)
    BY <1>1, <1>2, <1>9 DEF GetRemaining, ReadingOf
  <2>3. \A d \in Callers : told'[d] = 0 \/ told'[d] <= Remaining(ReadingOf(d))
    BY <1>2, <1>3, <2>2
  <2> QED
    BY <1>2, <1>4, <1>9, <2>1, <2>3 DEF GetRemaining, ToldHolds
<1>10. ASSUME UNCHANGED told, ~Present'
       PROVE  ToldHolds'
  <2>1. \A t : Remaining(t)' = Burst
    BY <1>10 DEF Remaining
  <2>2. \A d \in Callers : told[d] = 0 \/ told[d] <= Burst
    BY <1>1, <1>2, ConfigAssumption
  <2> QED
    BY <1>10, <2>1, <2>2 DEF ToldHolds
<1>11. CASE Reset
  BY <1>10, <1>11 DEF Reset, Present
<1>12. ASSUME Tick, Present'
       PROVE  ToldHolds'
  <2>1. Present /\ \A t : Remaining(t)' = Remaining(t)
    BY <1>12, ConfigAssumption DEF Tick, Present, Remaining, IInv, TypeOK
  <2>2. \A d \in Callers : ReadingOf(d)' \in Int /\ ReadingOf(d) <= ReadingOf(d)'
    BY <1>2, <1>3, <1>12 DEF Tick, ReadingOf
  <2>3. \A d \in Callers : Remaining(ReadingOf(d)) <= Remaining(ReadingOf(d)')
    BY <1>2, <1>5, <2>2
  <2>4. \A d \in Callers : told'[d] = 0 \/ told'[d] <= Remaining(ReadingOf(d)')
    BY <1>1, <1>2, <1>12, <2>2, <2>3 DEF Tick
  <2>5. \A d \in Callers : Remaining(ReadingOf(d))' = Remaining(ReadingOf(d)')
    BY <1>12, <2>1 DEF Tick, Remaining
  <2> QED
    BY <2>4, <2>5 DEF ToldHolds
<1>13. CASE Tick
  BY <1>10, <1>12, <1>13 DEF Tick
<1>14. CASE UNCHANGED vars
  BY <1>14 DEF vars, ToldHolds, ReadingOf, Remaining, Present
<1> QED
  BY <1>6, <1>7, <1>8, <1>9, <1>11, <1>13, <1>14 DEF Next

LEMMA RefusalInvStep == RefusalInv /\ [Next]_vars => RefusalInv'
  BY NextIInv, NoDebtStep, ToldStep DEF RefusalInv

LEMMA RefusalInvInit == Init => RefusalInv
  BY InitIInv DEF Init, RefusalInv, NoDebt, ToldHolds

\* No caller is refused without cause: not the tokens that GetRemaining told it of, if no
\* other script ran since, and not one token that accrued since last_update, if scripts
\* ran in the order of their clock readings; for every configuration and every
\* interleaving (limiter.go:114-160).
THEOREM RefusalsAreDueTheorem == Spec => RefusalsAreDue
<1>1. ASSUME RefusalInv, NEW c \in Callers, Refuse(c)
      PROVE  /\ ask[c] > told[c]
             /\ ask[c] = 1 /\ inOrder' =>
                  Present /\ (now[c] - last) * Rate < TicksPerSec
  <2>0. TypeOK /\ pc[c] = "asked" /\ Remaining(now[c]) < ask[c]
    BY <1>1 DEF Refuse, RefusalInv, IInv
  <2>1. /\ now[c] \in Nat /\ last \in Nat /\ tokens \in Int /\ told[c] \in Int
        /\ Remaining(now[c]) \in Int
        /\ ask[c] \in Nat /\ ask[c] <= Burst /\ ask[c] > 0
    BY <2>0, RemainingBound, AskType DEF TypeOK
  <2>2. told[c] = 0 \/ told[c] <= Remaining(now[c])
    BY <1>1, <2>0 DEF ToldHolds, ReadingOf, RefusalInv
  <2>3. ask[c] > told[c]
    BY <2>0, <2>1, <2>2
  <2>4. Present
    BY <2>0, <2>1, ConfigAssumption DEF Remaining
  <2>5. ASSUME ask[c] = 1, inOrder'
        PROVE  (now[c] - last) * Rate < TicksPerSec
    <3>1. inOrder /\ last <= now[c]
      BY <1>1, <2>4, <2>5 DEF Refuse, Note
    <3>2. now[c] - last \in Nat /\ tokens >= 0
      BY <1>1, <2>1, <2>4, <3>1 DEF NoDebt, Present, RefusalInv
    <3>3. Earned(now[c] - last) \in Int
      BY <3>2, EarnedBound
    <3>4. Earned(now[c] - last) < 1
      BY <2>0, <2>1, <2>4, <2>5, <3>2, <3>3, ConfigAssumption DEF Remaining
    <3> QED
      BY <3>2, <3>4, EarnedNothing
  <2> QED
    BY <2>3, <2>4, <2>5
<1>2. RefusalInv => [\A c \in Callers : Refuse(c) =>
                        /\ ask[c] > told[c]
                        /\ ask[c] = 1 /\ inOrder' =>
                             Present /\ (now[c] - last) * Rate < TicksPerSec]_vars
  BY <1>1
<1> QED
  BY <1>2, RefusalInvInit, RefusalInvStep, PTL DEF Spec, RefusalsAreDue

-----------------------------------------------------------------------------
(* The lock.  The key is the witness: it holds one value, and it is the    *)
(* value of every process inside whose key did not expire; so there is at  *)
(* most one.                                                               *)

KeyIsSingle == \A p, q \in key : p = q

\* Whoever is inside on good terms still has its value in the key.
InsideHolds == \A p \in Procs : lockPc[p] = "inside" /\ ~expired[p] => p \in key

LockInv == Mutex!TypeOK /\ KeyIsSingle /\ InsideHolds

LEMMA LockInit == Mutex!Init => LockInv
<1> SUFFICES ASSUME Mutex!Init  PROVE LockInv
  OBVIOUS
<1>1. Mutex!TypeOK
  BY DEF Mutex!Init, Mutex!TypeOK, Mutex!Places
<1>2. KeyIsSingle /\ InsideHolds
  BY DEF Mutex!Init, KeyIsSingle, InsideHolds
<1> QED
  BY <1>1, <1>2 DEF LockInv

LEMMA LockNext == LockInv /\ [Mutex!Next]_(Mutex!vars) => LockInv'
<1> SUFFICES ASSUME LockInv, [Mutex!Next]_(Mutex!vars)
             PROVE  LockInv'
  OBVIOUS
<1> USE DEF LockInv, Mutex!TypeOK, KeyIsSingle, InsideHolds, Mutex!Places
<1>1. ASSUME NEW p \in Procs, Mutex!Begin(p)
      PROVE  LockInv'
  \* The forgotten value is not that of a process inside: p is idle.
  <2>1. /\ lockPc[p] = "idle" /\ lockPc' = [lockPc EXCEPT ![p] = "acquire"]
        /\ tries' = [tries EXCEPT ![p] = 0] /\ UNCHANGED <<fresh, expired>>
        /\ key' = IF p \in key THEN {Orphan} ELSE key
    BY <1>1 DEF Mutex!Begin, Mutex!GoTo
  <2>2. CASE p \in key
    BY <2>1, <2>2
  <2>3. CASE p \notin key
    BY <2>1, <2>3
  <2> QED
    BY <2>2, <2>3
<1>2. ASSUME NEW p \in Procs, Mutex!Acquire(p)
      PROVE  LockInv'
  BY <1>2 DEF Mutex!Acquire, Mutex!GoTo
<1>3. ASSUME NEW p \in Procs, Mutex!AcquireFails(p)
      PROVE  LockInv'
  <2>1. /\ lockPc[p] = "acquire" /\ UNCHANGED expired
        /\ tries' = [tries EXCEPT ![p] = @ + 1]
        /\ \E l \in {"idle", "acquire"} : lockPc' = [lockPc EXCEPT ![p] = l]
    BY <1>3 DEF Mutex!AcquireFails, Mutex!GoTo
  <2>2. CASE UNCHANGED <<key, fresh>>
    BY <2>1, <2>2
  \* The failed command set the key, so it was absent: nobody was inside.
  <2>3. CASE key = {} /\ key' = {p} /\ fresh' = TRUE
    BY <2>1, <2>3
  <2> QED
    BY <1>3, <2>2, <2>3 DEF Mutex!AcquireFails
<1>4. ASSUME NEW p \in Procs, Mutex!Refresh(p)
      PROVE  LockInv'
  BY <1>4 DEF Mutex!Refresh
<1>5. ASSUME NEW p \in Procs, Mutex!Leave(p)
      PROVE  LockInv'
  BY <1>5 DEF Mutex!Leave, Mutex!GoTo
<1>6. ASSUME NEW p \in Procs, Mutex!Release(p)
      PROVE  LockInv'
  BY <1>6 DEF Mutex!Release, Mutex!GoTo
<1>7. ASSUME NEW p \in Procs, Mutex!Crash(p)
      PROVE  LockInv'
  BY <1>7 DEF Mutex!Crash, Mutex!GoTo
<1>8. CASE Mutex!Age
  BY <1>8 DEF Mutex!Age
<1>9. CASE Mutex!Expire
  <2>1. /\ key' = {} /\ UNCHANGED <<fresh, lockPc, tries>>
        /\ expired' = [p \in Procs |-> expired[p] \/ p \in key]
    BY <1>9 DEF Mutex!Expire
  <2>2. expired' \in [Procs -> BOOLEAN]
    BY <2>1
  <2>3. \A p \in Procs : ~expired'[p] => ~expired[p] /\ p \notin key
    BY <2>1
  <2> QED
    BY <2>1, <2>2, <2>3
<1>10. CASE UNCHANGED Mutex!vars
  BY <1>10 DEF Mutex!vars
<1> QED
  BY <1>1, <1>2, <1>3, <1>4, <1>5, <1>6, <1>7, <1>8, <1>9, <1>10 DEF Mutex!Next, Mutex!Step

\* Two processes are inside together only if the key of one of them expired under it,
\* for any number of processes, whatever commands fail and whoever dies
\* (lock.go:63-118).
THEOREM OverlapNeedsExpiryInvariant == MCSpec => []OverlapNeedsExpiry
<1>1. MCInit => LockInv
  BY LockInit DEF MCInit
<1>2. LockInv /\ [BucketStep \/ LoginStep \/ LockStep \/ CounterStep \/ SlidingStep]_
             <<part, vars, loginVars, lockVars, windowVars>>
        => LockInv'
  <2>1. [BucketStep \/ LoginStep \/ LockStep \/ CounterStep \/ SlidingStep]_
               <<part, vars, loginVars, lockVars, windowVars>>
          => [Mutex!Next]_(Mutex!vars)
    BY DEF BucketStep, LoginStep, LockStep, CounterStep, SlidingStep, lockVars, Mutex!vars
  <2> QED
    BY <2>1, LockNext
<1>3. LockInv => OverlapNeedsExpiry
  BY DEF LockInv, KeyIsSingle, InsideHolds, OverlapNeedsExpiry, Mutex!OverlapNeedsExpiry
<1> QED
  BY <1>1, <1>2, <1>3, PTL DEF MCSpec

-----------------------------------------------------------------------------
(* The login limiter.  While there is no lockout the failed attempts are   *)
(* those that failed_auth counts, those whose record is on its way and     *)
(* those whose record failed; once there is one, only the requests that    *)
(* were checked before it can still fail.                                  *)

LoginPlaces == {"idle", "check", "rate", "handler", "record", "expire", "lock", "clear"}
At(places) == {w \in Workers : loginPc[w] \in places}
CountAt(places) == Cardinality(At(places))

\* Requests whose failure will be recorded or will lock the account.
Owing == {"record", "lock"} \cup (IF LockoutLimit = 1 THEN {"expire"} ELSE {})
\* Requests that were checked and may still fail.
Checked == {"rate", "handler"}

CountedInv ==
  lockout = 0 /\ failed.n < LockoutLimit => guesses <= failed.n + CountAt({"record"}) + faults
UnlockedInv ==
  lockout = 0 => guesses <= LockoutLimit - 1 + CountAt(Owing) + faults
LockedInv ==
  lockout > 0 => guesses + CountAt(Checked) <= LockoutLimit - 1 + Cardinality(Workers) + faults
ForgottenInv ==
  backend = "redis" /\ failed.n > 0 /\ failed.ttl = 0
    => faults > 0 \/ \E w \in Workers : loginPc[w] = "expire"

LoginInv == Login!TypeOK /\ CountedInv /\ UnlockedInv /\ LockedInv /\ ForgottenInv

LEMMA LoginConstants ==
  /\ IsFiniteSet(Workers) /\ Cardinality(Workers) \in Nat
  /\ LoginLimit \in Nat /\ LockoutLimit \in Nat \ {0}
  /\ Window \in Nat \ {0} /\ LockoutTime \in Nat \ {0} /\ MaxFaults \in Nat
  /\ Login!MaxFailed = LockoutLimit + Cardinality(Workers)
  /\ \A S : Login!Cardinality(S) = Cardinality(S)
<1>1. /\ \A S : Login!Cardinality(S) = Cardinality(S)
      /\ \A S : Login!IsFiniteSet(S) <=> IsFiniteSet(S)
  BY DEF Login!Cardinality, Cardinality, Login!IsFiniteSet, IsFiniteSet
<1>2. IsFiniteSet(Workers)
  BY <1>1, LoginIsAssumed DEF Login!LoginAssumption
<1> QED
  BY <1>1, <1>2, LoginIsAssumed, FS_CardinalityType
  DEF Login!LoginAssumption, Login!MaxFailed

LEMMA CountType ==
  \A places \in SUBSET LoginPlaces :
    /\ IsFiniteSet(At(places)) /\ CountAt(places) \in Nat
    /\ CountAt(places) <= Cardinality(Workers)
<1> SUFFICES ASSUME NEW places \in SUBSET LoginPlaces
             PROVE  /\ IsFiniteSet(At(places)) /\ CountAt(places) \in Nat
                    /\ CountAt(places) <= Cardinality(Workers)
  OBVIOUS
<1>1. At(places) \subseteq Workers
  BY DEF At
<1> QED
  BY <1>1, LoginConstants, FS_Subset, FS_CardinalityType DEF CountAt

\* A request that moves from one place to another.
LEMMA CountMove ==
  ASSUME Login!TypeOK, NEW w \in Workers, NEW l \in LoginPlaces, Login!GoTo(w, l)
  PROVE  \A places \in SUBSET LoginPlaces :
           /\ CountAt(places)' \in Nat
           /\ CountAt(places)' = CountAt(places)
                - (IF loginPc[w] \in places THEN 1 ELSE 0) + (IF l \in places THEN 1 ELSE 0)
<1> SUFFICES ASSUME NEW places \in SUBSET LoginPlaces
             PROVE  /\ CountAt(places)' \in Nat
                    /\ CountAt(places)' = CountAt(places)
                         - (IF loginPc[w] \in places THEN 1 ELSE 0)
                         + (IF l \in places THEN 1 ELSE 0)
  OBVIOUS
<1>1. loginPc' = [loginPc EXCEPT ![w] = l] /\ w \in DOMAIN loginPc
  BY DEF Login!GoTo, Login!TypeOK
<1> DEFINE S == At(places)
<1>2. IsFiniteSet(S) /\ CountAt(places) = Cardinality(S) /\ Cardinality(S) \in Nat
  BY CountType DEF CountAt
<1>3. (w \in S <=> loginPc[w] \in places)
  BY DEF At
<1>4. At(places)' = IF l \in places THEN S \cup {w} ELSE S \ {w}
  BY <1>1 DEF At, Login!TypeOK
<1>5. CountAt(places)' = Cardinality(IF l \in places THEN S \cup {w} ELSE S \ {w})
  BY <1>4 DEF CountAt
<1> HIDE DEF S
<1>6. /\ Cardinality(S \cup {w}) = IF w \in S THEN Cardinality(S) ELSE Cardinality(S) + 1
      /\ Cardinality(S \ {w}) = IF w \in S THEN Cardinality(S) - 1 ELSE Cardinality(S)
  BY <1>2, FS_AddElement, FS_RemoveElement
<1>7. Cardinality(S \cup {w}) \in Nat /\ Cardinality(S \ {w}) \in Nat
  BY <1>2, FS_AddElement, FS_RemoveElement, FS_CardinalityType
<1> QED
  BY <1>2, <1>3, <1>5, <1>6, <1>7

\* A request is in one place only.
LEMMA OwingOrChecked == CountAt(Owing) + CountAt(Checked) <= Cardinality(Workers)
<1>1. /\ IsFiniteSet(At(Owing)) /\ CountAt(Owing) = Cardinality(At(Owing))
      /\ IsFiniteSet(At(Checked)) /\ CountAt(Checked) = Cardinality(At(Checked))
  BY CountType DEF LoginPlaces, Owing, Checked, CountAt
<1>2. Cardinality(At(Owing) \cap At(Checked)) = 0
  <2>1. At(Owing) \cap At(Checked) = {}
    BY DEF At, Owing, Checked
  <2> QED
    BY <2>1, FS_EmptySet
<1>3. Cardinality(At(Owing) \cup At(Checked))
        = Cardinality(At(Owing)) + Cardinality(At(Checked))
  <2>1. Cardinality(At(Owing) \cup At(Checked))
          = Cardinality(At(Owing)) + Cardinality(At(Checked))
              - Cardinality(At(Owing) \cap At(Checked))
    BY <1>1, FS_Union
  <2> QED
    BY <1>1, <1>2, <2>1, FS_CardinalityType
<1>4. At(Owing) \cup At(Checked) \subseteq Workers
  BY DEF At
<1> QED
  BY <1>1, <1>3, <1>4, LoginConstants, FS_Subset

\* A failure that is not counted yet is owed.
LEMMA RecordIsOwing == CountAt({"record"}) <= CountAt(Owing)
<1>1. At({"record"}) \subseteq At(Owing)
  BY DEF At, Owing
<1>2. IsFiniteSet(At(Owing))
  BY CountType DEF LoginPlaces, Owing
<1> QED
  BY <1>1, <1>2, FS_Subset DEF CountAt

\* The three counts after such a move.
LEMMA LoginMove ==
  ASSUME Login!TypeOK, NEW w \in Workers, NEW l \in LoginPlaces, Login!GoTo(w, l)
  PROVE  /\ CountAt({"record"})' = CountAt({"record"})
              - (IF loginPc[w] = "record" THEN 1 ELSE 0) + (IF l = "record" THEN 1 ELSE 0)
         /\ CountAt(Owing)' = CountAt(Owing)
              - (IF loginPc[w] \in Owing THEN 1 ELSE 0) + (IF l \in Owing THEN 1 ELSE 0)
         /\ CountAt(Checked)' = CountAt(Checked)
              - (IF loginPc[w] \in Checked THEN 1 ELSE 0) + (IF l \in Checked THEN 1 ELSE 0)
         /\ \A n \in {CountAt({"record"}), CountAt(Owing), CountAt(Checked),
                      CountAt({"record"})', CountAt(Owing)', CountAt(Checked)'} : n \in Nat
<1>1. {"record"} \in SUBSET LoginPlaces /\ Owing \in SUBSET LoginPlaces
      /\ Checked \in SUBSET LoginPlaces
  BY DEF LoginPlaces, Owing, Checked
<1>2. loginPc[w] \in {"record"} <=> loginPc[w] = "record"
  OBVIOUS
<1>3. l \in {"record"} <=> l = "record"
  OBVIOUS
<1> QED
  BY <1>1, <1>2, <1>3, CountMove, CountType

LEMMA LoginTypes ==
  ASSUME Login!TypeOK
  PROVE  /\ failed.n \in Nat /\ failed.ttl \in Nat /\ guesses \in Nat /\ faults \in Nat
         /\ lockout \in Nat /\ LockoutLimit \in Nat \ {0} /\ LockoutTime \in Nat \ {0}
         /\ Cardinality(Workers) \in Nat
         /\ failed.n <= Login!MaxFailed
         /\ Login!MaxFailed \in Nat /\ Login!MaxFailed >= LockoutLimit
  BY LoginConstants DEF Login!TypeOK

\* A request that goes on: what it does to the counts.
LEMMA RequestCounts ==
  ASSUME LoginInv, NEW w \in Workers, Login!Request(w)
  PROVE  CountedInv' /\ UnlockedInv' /\ LockedInv'
<1> USE DEF LoginInv, CountedInv, UnlockedInv, LockedInv
<1>0. Login!TypeOK
  OBVIOUS
<1>a. /\ failed.n \in Nat /\ failed.ttl \in Nat /\ guesses \in Nat /\ faults \in Nat
      /\ lockout \in Nat /\ LockoutLimit \in Nat \ {0} /\ LockoutTime \in Nat \ {0}
      /\ Cardinality(Workers) \in Nat
      /\ failed.n <= Login!MaxFailed
      /\ Login!MaxFailed \in Nat /\ Login!MaxFailed >= LockoutLimit
  BY LoginTypes
<1>b. /\ "record" \in Owing /\ "lock" \in Owing
      /\ "expire" \in Owing <=> LockoutLimit = 1
      /\ \A l \in {"idle", "check", "rate", "handler", "clear"} : l \notin Owing
  BY DEF Owing
<1>c. CountAt(Owing) <= Cardinality(Workers)
  BY CountType DEF Owing, LoginPlaces
<1>d. (CountAt({"record"}) <= CountAt(Owing))'
  BY RecordIsOwing, PTL
<1>1. CASE Login!Arrive(w) \/ Login!CheckLocal(w) \/ Login!CheckRate(w) \/ Login!CheckLockout(w)
  <2>1. PICK l \in {"idle", "check", "rate", "handler"} :
          /\ Login!GoTo(w, l)
          /\ loginPc[w] \in {"idle", "check", "rate"}
          /\ l \in Checked => \/ loginPc[w] = "rate" \/ lockout = 0 \/ faults' = faults + 1
          /\ faults' \in {faults, faults + 1}
          /\ UNCHANGED <<failed, lockout, guesses>>
    <3>1. CASE Login!Arrive(w)
      BY <3>1 DEF Login!Arrive, Login!keys, Checked
    <3>2. CASE Login!CheckLocal(w)
      BY <1>a, <3>2 DEF Login!CheckLocal, Checked
    <3>3. CASE Login!CheckRate(w)
      BY <3>3 DEF Login!CheckRate, Login!Fault, Checked
    <3>4. CASE Login!CheckLockout(w)
      BY <3>4 DEF Login!CheckLockout, Login!Fault, Login!keys, Checked
    <3> QED
      BY <1>1, <3>1, <3>2, <3>3, <3>4
  <2>2. /\ CountAt({"record"})' = CountAt({"record"})
        /\ CountAt(Owing)' = CountAt(Owing)
        /\ CountAt(Checked)' <= CountAt(Checked) + 1
        /\ l \notin Checked \/ loginPc[w] = "rate" => CountAt(Checked)' <= CountAt(Checked)
        /\ CountAt({"record"}) \in Nat /\ CountAt(Owing) \in Nat /\ CountAt(Checked) \in Nat
        /\ CountAt(Checked)' \in Nat
    BY <1>0, <1>b, <2>1, LoginMove DEF Checked, LoginPlaces
  <2> QED
    BY <1>a, <2>1, <2>2
<1>2. CASE Login!Handler(w)
  <2>1. PICK l \in {"record", "clear", "idle"} :
          /\ Login!GoTo(w, l) /\ loginPc[w] = "handler"
          /\ guesses' = IF l = "record" THEN guesses + 1 ELSE guesses
          /\ UNCHANGED <<failed, lockout, faults>>
    BY <1>2 DEF Login!Handler, Login!keys
  <2>2. /\ CountAt({"record"})' = CountAt({"record"}) + (IF l = "record" THEN 1 ELSE 0)
        /\ CountAt(Owing)' = CountAt(Owing) + (IF l = "record" THEN 1 ELSE 0)
        /\ CountAt(Checked)' = CountAt(Checked) - 1
        /\ CountAt({"record"}) \in Nat /\ CountAt(Owing) \in Nat /\ CountAt(Checked) \in Nat
    BY <1>0, <1>b, <2>1, LoginMove DEF Checked, LoginPlaces
  <2> QED
    BY <1>a, <2>1, <2>2
<1>3. CASE Login!RecordIncr(w)
  <2> DEFINE n == Login!Incr(failed.n, Login!MaxFailed)
  <2>1. n \in Nat /\ (failed.n < LockoutLimit => n = failed.n + 1)
        /\ (failed.n >= LockoutLimit => n >= LockoutLimit)
    BY <1>a DEF Login!Incr
  <2>2. loginPc[w] = "record" /\ UNCHANGED <<lockout, guesses>>
    BY <1>3 DEF Login!RecordIncr
  <2>3. ASSUME failed' = [failed EXCEPT !.n = n], UNCHANGED faults,
               Login!GoTo(w, CASE Login!FirstFailure(n) -> "expire"
                               [] ~Login!FirstFailure(n) /\ Login!LocksOut(n) -> "lock"
                               [] OTHER -> "idle")
        PROVE  CountedInv' /\ UnlockedInv' /\ LockedInv'
    <3>1. failed'.n = n
      BY <1>0, <2>3 DEF Login!TypeOK
    <3>2. PICK l \in {"expire", "lock", "idle"} :
            Login!GoTo(w, l) /\ (l = "idle" => n < LockoutLimit)
                             /\ (l = "expire" => n = 1)
      <4> HIDE DEF n
      <4> QED
        BY <1>a, <2>1, <2>3 DEF Login!FirstFailure, Login!LocksOut
    <3>3. /\ CountAt({"record"})' = CountAt({"record"}) - 1
          /\ l \in Owing => CountAt(Owing)' = CountAt(Owing)
          /\ l \notin Owing => n < LockoutLimit
          /\ CountAt(Checked)' = CountAt(Checked)
          /\ CountAt({"record"}) \in Nat /\ CountAt(Owing) \in Nat /\ CountAt(Checked) \in Nat
          /\ CountAt({"record"})' \in Nat /\ CountAt(Owing)' \in Nat
      <4>1. l \notin Owing => n < LockoutLimit
        BY <1>a, <1>b, <3>2
      <4> HIDE DEF n
      <4> QED
        BY <1>0, <1>b, <2>2, <3>2, <4>1, LoginMove DEF Checked, LoginPlaces
    <3> HIDE DEF n
    <3>4. CountedInv'
      BY <1>a, <2>1, <2>2, <2>3, <3>1, <3>3
    <3>5. UnlockedInv'
      BY <1>a, <1>d, <2>1, <2>2, <2>3, <3>1, <3>3
    <3>6. LockedInv'
      BY <1>a, <2>1, <2>2, <2>3, <3>1, <3>3
    <3> QED
      BY <3>4, <3>5, <3>6
  <2>4. ASSUME faults' = faults + 1, failed' \in {failed, [failed EXCEPT !.n = n]},
               Login!GoTo(w, "idle")
        PROVE  CountedInv' /\ UnlockedInv' /\ LockedInv'
    <3>1. failed'.n \in {failed.n, n}
      BY <1>0, <2>4 DEF Login!TypeOK
    <3>2. /\ CountAt({"record"})' = CountAt({"record"}) - 1
          /\ CountAt(Owing)' = CountAt(Owing) - 1
          /\ CountAt(Checked)' = CountAt(Checked)
          /\ CountAt({"record"}) \in Nat /\ CountAt(Owing) \in Nat /\ CountAt(Checked) \in Nat
      BY <1>0, <1>b, <2>2, <2>4, LoginMove DEF Checked, LoginPlaces
    <3> HIDE DEF n
    <3> QED
      BY <1>a, <2>1, <2>2, <2>4, <3>1, <3>2
  <2> QED
    BY <1>3, <2>3, <2>4 DEF Login!RecordIncr, Login!Fault
<1>4. CASE Login!RecordExpire(w)
  <2>1. PICK l \in {"lock", "idle"} :
          /\ Login!GoTo(w, l) /\ loginPc[w] = "expire"
          /\ l = "lock" <=> LockoutLimit = 1
          /\ faults' \in {faults, faults + 1} /\ UNCHANGED <<lockout, guesses>>
    BY <1>4, <1>a DEF Login!RecordExpire, Login!LocksOut, Login!Fault
  <2>2. failed'.n = failed.n
    BY <1>0, <1>4 DEF Login!RecordExpire, Login!TypeOK
  <2>3. /\ CountAt({"record"})' = CountAt({"record"})
        /\ CountAt(Owing)' = CountAt(Owing) /\ CountAt(Checked)' = CountAt(Checked)
        /\ CountAt({"record"}) \in Nat /\ CountAt(Owing) \in Nat /\ CountAt(Checked) \in Nat
    BY <1>0, <1>b, <2>1, LoginMove DEF Checked, LoginPlaces
  <2> QED
    BY <1>a, <2>1, <2>2, <2>3
<1>5. CASE Login!RecordLock(w)
  <2>1. /\ Login!GoTo(w, "idle") /\ loginPc[w] = "lock"
        /\ \/ lockout' = LockoutTime /\ UNCHANGED faults
           \/ faults' = faults + 1 /\ lockout' \in {lockout, LockoutTime}
        /\ UNCHANGED <<failed, guesses>>
    BY <1>5 DEF Login!RecordLock, Login!Fault
  <2>2. /\ CountAt({"record"})' = CountAt({"record"})
        /\ CountAt(Owing)' = CountAt(Owing) - 1 /\ CountAt(Checked)' = CountAt(Checked)
        /\ CountAt({"record"}) \in Nat /\ CountAt(Owing) \in Nat /\ CountAt(Checked) \in Nat
    BY <1>0, <1>b, <2>1, LoginMove DEF Checked, LoginPlaces
  <2>3. CountAt(Owing) + CountAt(Checked) <= Cardinality(Workers)
    BY OwingOrChecked
  <2> QED
    BY <1>a, <2>1, <2>2, <2>3
<1>6. CASE Login!RecordLocal(w)
  <2>1. /\ Login!GoTo(w, "idle") /\ loginPc[w] = "record" /\ UNCHANGED <<guesses, faults>>
        /\ \/ lockout' = LockoutTime
           \/ failed.n + 1 < LockoutLimit /\ failed'.n = failed.n + 1 /\ UNCHANGED lockout
    BY <1>6, <1>a DEF Login!RecordLocal, Login!LocksOut
  <2>2. /\ CountAt({"record"})' = CountAt({"record"}) - 1
        /\ CountAt(Owing)' = CountAt(Owing) - 1 /\ CountAt(Checked)' = CountAt(Checked)
        /\ CountAt({"record"}) \in Nat /\ CountAt(Owing) \in Nat /\ CountAt(Checked) \in Nat
        /\ CountAt({"record"})' \in Nat /\ CountAt(Owing)' \in Nat
    BY <1>0, <1>b, <2>1, LoginMove DEF Checked, LoginPlaces
  <2>3. CountAt(Owing) + CountAt(Checked) <= Cardinality(Workers)
    BY OwingOrChecked
  <2> QED
    BY <1>a, <1>d, <2>1, <2>2, <2>3
<1>7. CASE Login!Clear(w)
  <2>1. /\ Login!GoTo(w, "idle") /\ loginPc[w] = "clear" /\ UNCHANGED lockout
        /\ \/ failed'.n = 0 /\ guesses' = 0 /\ UNCHANGED faults
           \/ faults' = faults + 1 /\ UNCHANGED <<failed, guesses>>
    BY <1>7 DEF Login!Clear, Login!Fault, Login!Absent
  <2>2. /\ CountAt({"record"})' = CountAt({"record"})
        /\ CountAt(Owing)' = CountAt(Owing) /\ CountAt(Checked)' = CountAt(Checked)
        /\ CountAt({"record"}) \in Nat /\ CountAt(Owing) \in Nat /\ CountAt(Checked) \in Nat
    BY <1>0, <1>b, <2>1, LoginMove DEF Checked, LoginPlaces
  <2>3. CountAt(Checked) <= Cardinality(Workers)
    BY CountType DEF Checked, LoginPlaces
  <2>4. CASE failed'.n = 0 /\ guesses' = 0 /\ UNCHANGED faults
    BY <1>a, <2>1, <2>2, <2>3, <2>4
  <2>5. CASE faults' = faults + 1 /\ UNCHANGED <<failed, guesses>>
    BY <1>a, <2>1, <2>2, <2>5
  <2> QED
    BY <2>1, <2>4, <2>5
<1> QED
  BY <1>1, <1>2, <1>3, <1>4, <1>5, <1>6, <1>7 DEF Login!Request

\* The counts stay while no request moves.
LEMMA CountTypes ==
  /\ CountAt({"record"}) \in Nat /\ CountAt(Owing) \in Nat /\ CountAt(Checked) \in Nat
  /\ CountAt(Owing) <= Cardinality(Workers) /\ CountAt(Checked) <= Cardinality(Workers)
<1>1. {"record"} \in SUBSET LoginPlaces /\ Owing \in SUBSET LoginPlaces
      /\ Checked \in SUBSET LoginPlaces
  BY DEF LoginPlaces, Owing, Checked
<1> QED
  BY <1>1, CountType

\* Whenever the failures are forgotten, counting starts anew.
LEMMA LoginReset ==
  ASSUME Login!TypeOK', guesses' = 0
  PROVE  CountedInv' /\ UnlockedInv' /\ LockedInv'
<1>1. (/\ CountAt({"record"}) \in Nat /\ CountAt(Owing) \in Nat /\ CountAt(Checked) \in Nat
       /\ CountAt(Owing) <= Cardinality(Workers) /\ CountAt(Checked) <= Cardinality(Workers))'
  BY CountTypes, PTL
<1>2. /\ failed'.n \in Nat /\ faults' \in Nat
      /\ LockoutLimit \in Nat \ {0} /\ Cardinality(Workers) \in Nat
  BY LoginConstants DEF Login!TypeOK
<1> QED
  BY <1>1, <1>2 DEF CountedInv, UnlockedInv, LockedInv

LEMMA TickCounts ==
  ASSUME LoginInv, Login!TypeOK', Login!Tick
  PROVE  CountedInv' /\ UnlockedInv' /\ LockedInv'
<1>0. Login!TypeOK
  BY DEF LoginInv
<1>1. CASE lockout = 1 \/ failed.ttl = 1
  BY <1>1, LoginReset DEF Login!Tick
<1>2. CASE ~(lockout = 1 \/ failed.ttl = 1)
  <2>1. UNCHANGED <<loginPc, faults, guesses>> /\ failed' = Login!Aged(failed)
        /\ lockout' = IF lockout > 0 THEN lockout - 1 ELSE 0
    BY <1>2 DEF Login!Tick
  <2>2. failed'.n = failed.n
    BY <1>0, <1>2, <2>1 DEF Login!Aged, Login!TypeOK
  <2>3. lockout' = 0 <=> lockout = 0
    BY <1>0, <1>2, <2>1, LoginTypes
  <2>4. lockout' > 0 => lockout > 0
    BY <1>0, <2>1, LoginTypes
  <2>5. /\ CountAt({"record"})' = CountAt({"record"})
        /\ CountAt(Owing)' = CountAt(Owing) /\ CountAt(Checked)' = CountAt(Checked)
    BY <2>1 DEF CountAt, At
  <2> QED
    BY <2>1, <2>2, <2>3, <2>4, <2>5 DEF LoginInv, CountedInv, UnlockedInv, LockedInv
<1> QED
  BY <1>1, <1>2

\* A crash in which the keys survive costs at most the failures that were owed a record.
LEMMA CrashCounts ==
  ASSUME LoginInv, Login!TypeOK', Login!Crash
  PROVE  CountedInv' /\ UnlockedInv' /\ LockedInv'
<1>0. Login!TypeOK
  BY DEF LoginInv
<1>1. CASE backend = "local"
  BY <1>1, LoginReset DEF Login!Crash
<1>2. CASE backend # "local"
  <2> DEFINE cut == Cardinality(Login!Unrecorded)
  <2>1. /\ loginPc' = [w \in Workers |-> "idle"]
        /\ faults' = faults + cut
        /\ UNCHANGED <<failed, lockout, guesses>>
    BY <1>2, LoginConstants DEF Login!Crash, Login!keys
  <2>2. /\ IsFiniteSet(Login!Unrecorded) /\ cut \in Nat
        /\ CountAt({"record"}) <= cut /\ CountAt(Owing) <= cut
    <3>1. Login!Unrecorded \subseteq Workers
      BY DEF Login!Unrecorded
    <3>2. IsFiniteSet(Login!Unrecorded)
      BY <3>1, LoginConstants, FS_Subset
    <3>3. At({"record"}) \subseteq Login!Unrecorded /\ At(Owing) \subseteq Login!Unrecorded
      BY DEF At, Owing, Login!Unrecorded
    <3> QED
      BY <3>2, <3>3, FS_Subset, FS_CardinalityType DEF CountAt
  <2>3. /\ CountAt({"record"})' = 0 /\ CountAt(Owing)' = 0 /\ CountAt(Checked)' = 0
    <3>1. At({"record"})' = {} /\ At(Owing)' = {} /\ At(Checked)' = {}
      BY <2>1 DEF At, Owing, Checked
    <3> QED
      BY <3>1, FS_EmptySet DEF CountAt
  <2> HIDE DEF cut
  <2>4. /\ failed.n \in Nat /\ faults \in Nat /\ guesses \in Nat /\ lockout \in Nat
        /\ LockoutLimit \in Nat \ {0} /\ Cardinality(Workers) \in Nat
    BY <1>0, LoginTypes
  <2> QED
    BY <2>1, <2>2, <2>3, <2>4, CountTypes DEF LoginInv, CountedInv, UnlockedInv, LockedInv
<1> QED
  BY <1>1, <1>2

\* A failure without expiry: somebody is about to set it, or something failed.
LEMMA ForgottenStep ==
  ASSUME LoginInv, Login!TypeOK', Login!Next
  PROVE  ForgottenInv'
<1>0. Login!TypeOK /\ ForgottenInv /\ faults \in Nat /\ backend' = backend
  BY LoginTypes DEF LoginInv, Login!Next, Login!Request, Login!Arrive, Login!CheckLockout,
     Login!CheckRate, Login!CheckLocal, Login!Handler, Login!RecordIncr, Login!RecordExpire,
     Login!RecordLock, Login!RecordLocal, Login!Clear, Login!Tick, Login!CleanupExpired,
     Login!Crash
<1> SUFFICES ASSUME backend = "redis", failed'.n > 0, failed'.ttl = 0, faults' = 0
             PROVE  \E v \in Workers : loginPc'[v] = "expire"
  BY <1>0, LoginTypes DEF ForgottenInv, Login!TypeOK
<1>a. faults' # faults + 1
  BY <1>0
<1>b. /\ failed.n \in 0 .. Login!MaxFailed /\ failed = [n |-> failed.n, ttl |-> failed.ttl]
      /\ failed.ttl \in Nat /\ Login!MaxFailed \in Nat \ {0} /\ LockoutTime \in Nat \ {0}
  BY <1>0, LoginTypes, LoginConstants DEF Login!TypeOK
\* Where the key stays and nobody leaves "expire", the witness stays.
<1>c. ASSUME NEW w \in Workers, NEW l \in LoginPlaces, Login!GoTo(w, l),
             loginPc[w] # "expire", failed.n > 0, failed.ttl = 0, faults = 0
      PROVE  \E v \in Workers : loginPc'[v] = "expire"
  <2>1. PICK v \in Workers : loginPc[v] = "expire"
    BY <1>0, <1>c DEF ForgottenInv
  <2>2. loginPc'[v] = "expire"
    BY <1>0, <1>c, <2>1 DEF Login!GoTo, Login!TypeOK
  <2> QED
    BY <2>2
<1>1. ASSUME NEW w \in Workers, Login!Request(w)
      PROVE  \E v \in Workers : loginPc'[v] = "expire"
  <2>1. CASE Login!RecordIncr(w)
    <3> DEFINE n == Login!Incr(failed.n, Login!MaxFailed)
    <3>1. /\ loginPc[w] = "record" /\ faults' = faults /\ failed' = [failed EXCEPT !.n = n]
          /\ Login!GoTo(w, CASE Login!FirstFailure(n) -> "expire"
                             [] ~Login!FirstFailure(n) /\ Login!LocksOut(n) -> "lock"
                             [] OTHER -> "idle")
      BY <1>a, <2>1 DEF Login!RecordIncr, Login!Fault
    <3>2. CASE n = 1
      <4>1. Login!GoTo(w, "expire")
        BY <3>1, <3>2 DEF Login!FirstFailure
      <4> QED
        BY <1>0, <4>1 DEF Login!GoTo, Login!TypeOK
    <3>3. CASE n # 1
      <4>1. failed.n > 0
        BY <1>b, <3>3 DEF Login!Incr
      <4>2. failed.ttl = 0
        BY <1>b, <3>1
      <4>3. PICK l \in {"lock", "idle"} : Login!GoTo(w, l)
        <5> HIDE DEF n
        <5> QED
          BY <3>1, <3>3 DEF Login!FirstFailure
      <4> QED
        BY <1>c, <3>1, <4>1, <4>2, <4>3 DEF LoginPlaces
    <3> QED
      BY <3>2, <3>3
  <2>2. CASE Login!RecordExpire(w)
    <3>1. failed' = IF failed.n = 0 THEN failed ELSE [failed EXCEPT !.ttl = LockoutTime]
      BY <1>a, <2>2 DEF Login!RecordExpire, Login!Fault
    <3> QED
      BY <1>b, <3>1
  <2>3. CASE Login!RecordLocal(w)
    BY <2>3 DEF Login!RecordLocal
  <2>4. CASE Login!Clear(w)
    <3>1. failed'.n = 0
      BY <1>a, <2>4 DEF Login!Clear, Login!Fault, Login!Absent
    <3> QED
      BY <3>1
  <2>5. CASE ~(Login!RecordIncr(w) \/ Login!RecordExpire(w) \/ Login!RecordLocal(w)
               \/ Login!Clear(w))
    <3>1. PICK l \in LoginPlaces : Login!GoTo(w, l) /\ loginPc[w] # "expire"
                                   /\ failed' = failed /\ faults' \in {faults, faults + 1}
      <4>1. CASE Login!Arrive(w)
        BY <4>1 DEF Login!Arrive, Login!keys, LoginPlaces
      <4>2. CASE Login!CheckLockout(w)
        BY <4>2 DEF Login!CheckLockout, Login!Fault, Login!keys, LoginPlaces
      <4>3. CASE Login!CheckRate(w)
        BY <4>3 DEF Login!CheckRate, Login!Fault, LoginPlaces
      <4>4. CASE Login!CheckLocal(w)
        BY <4>4 DEF Login!CheckLocal, LoginPlaces
      <4>5. CASE Login!Handler(w)
        BY <4>5 DEF Login!Handler, Login!keys, LoginPlaces
      <4>6. CASE Login!RecordLock(w)
        BY <4>6 DEF Login!RecordLock, Login!Fault, LoginPlaces
      <4> QED
        BY <1>1, <2>5, <4>1, <4>2, <4>3, <4>4, <4>5, <4>6 DEF Login!Request
    <3> QED
      BY <1>a, <1>c, <3>1
  <2> QED
    BY <2>1, <2>2, <2>3, <2>4, <2>5
<1>2. CASE Login!Tick
  <2>1. failed' = Login!Aged(failed) /\ UNCHANGED <<loginPc, faults>>
    BY <1>2 DEF Login!Tick
  <2>2. failed.n > 0 /\ failed.ttl = 0
    BY <1>b, <2>1 DEF Login!Aged, Login!Absent
  <2> QED
    BY <1>0, <2>1, <2>2 DEF ForgottenInv
<1>3. CASE Login!CleanupExpired
  BY <1>3 DEF Login!CleanupExpired
<1>4. CASE Login!Crash
  <2>1. failed' = failed /\ faults' = faults + Cardinality(Login!Unrecorded)
    BY <1>4, LoginConstants DEF Login!Crash, Login!keys
  <2>2. Login!Unrecorded \subseteq Workers
    BY DEF Login!Unrecorded
  <2>3. IsFiniteSet(Login!Unrecorded) /\ Cardinality(Login!Unrecorded) \in Nat
    BY <2>2, LoginConstants, FS_Subset, FS_CardinalityType
  <2>4. faults = 0 /\ Login!Unrecorded = {}
    BY <1>0, <2>1, <2>3, FS_EmptySet
  <2> QED
    BY <1>0, <2>1, <2>4 DEF ForgottenInv, Login!Unrecorded
<1> QED
  BY <1>1, <1>2, <1>3, <1>4 DEF Login!Next

\* INCR stays within the bound that the model gives the counter.
LEMMA IncrBound ==
  ASSUME NEW n \in Nat, NEW bound \in Nat
  PROVE  Login!Incr(n, bound) \in 0 .. bound
BY DEF Login!Incr

LEMMA CountedType ==
  ASSUME Login!TypeOK
  PROVE  Login!Counted \in [n : 0 .. (LoginLimit + 1), ttl : 0 .. Window]
<1>1. /\ rate \in [n : 0 .. (LoginLimit + 1), ttl : 0 .. Window]
      /\ rate.n \in Nat /\ LoginLimit + 1 \in Nat /\ Window \in 0 .. Window
  BY LoginConstants DEF Login!TypeOK
<1>2. Login!Incr(rate.n, LoginLimit + 1) \in 0 .. (LoginLimit + 1)
  BY <1>1, IncrBound
<1> QED
  BY <1>1, <1>2 DEF Login!Counted

\* A key keeps its type while time passes.
LEMMA AgedType ==
  ASSUME NEW N \in Nat, NEW T \in Nat, NEW k \in [n : 0 .. N, ttl : 0 .. T]
  PROVE  Login!Aged(k) \in [n : 0 .. N, ttl : 0 .. T]
BY DEF Login!Aged, Login!Absent

LEMMA LoginTypeStep ==
  ASSUME Login!TypeOK, Login!Next
  PROVE  Login!TypeOK'
<1> DEFINE Rates == [n : 0 .. (LoginLimit + 1), ttl : 0 .. Window]
           Fails == [n : 0 .. Login!MaxFailed, ttl : 0 .. LockoutTime]
<1>a. /\ backend \in {"redis", "local"} /\ rate \in Rates /\ failed \in Fails
      /\ lockout \in 0 .. LockoutTime /\ loginPc \in [Workers -> LoginPlaces]
      /\ faults \in 0 .. MaxFaults /\ guesses \in Nat
  BY DEF Login!TypeOK, LoginPlaces
<1>b. /\ LoginLimit \in Nat /\ Window \in Nat \ {0} /\ LockoutTime \in Nat \ {0}
      /\ MaxFaults \in Nat /\ LockoutLimit \in Nat \ {0}
      /\ Login!MaxFailed \in Nat /\ Login!MaxFailed >= LockoutLimit
  BY LoginTypes, LoginConstants
<1>c. rate.n \in Nat /\ failed.n \in Nat /\ failed.n <= Login!MaxFailed
  BY <1>a, <1>b
<1>d. Login!Absent \in Rates /\ Login!Absent \in Fails
  BY <1>b DEF Login!Absent
<1>e. ASSUME Login!Fault
      PROVE  faults' \in 0 .. MaxFaults
  BY <1>a, <1>b, <1>e DEF Login!Fault
<1>f. ASSUME NEW w \in Workers, NEW l \in LoginPlaces, Login!GoTo(w, l)
      PROVE  loginPc' \in [Workers -> LoginPlaces]
  BY <1>a, <1>f DEF Login!GoTo
<1>g. Login!Counted \in Rates
  BY CountedType
<1> SUFFICES /\ backend' \in {"redis", "local"} /\ rate' \in Rates /\ failed' \in Fails
             /\ lockout' \in 0 .. LockoutTime /\ loginPc' \in [Workers -> LoginPlaces]
             /\ faults' \in 0 .. MaxFaults /\ guesses' \in Nat
  BY LoginConstants DEF Login!TypeOK, LoginPlaces, Login!MaxFailed
<1> HIDE DEF Rates, Fails
<1>1. ASSUME NEW w \in Workers, Login!Request(w)
      PROVE  /\ backend' \in {"redis", "local"} /\ rate' \in Rates /\ failed' \in Fails
             /\ lockout' \in 0 .. LockoutTime /\ loginPc' \in [Workers -> LoginPlaces]
             /\ faults' \in 0 .. MaxFaults /\ guesses' \in Nat
  <2> USE <1>a, <1>e, <1>f DEF LoginPlaces
  <2>1. CASE Login!Arrive(w)
    BY <2>1 DEF Login!Arrive, Login!keys
  <2>2. CASE Login!CheckLockout(w)
    BY <2>2 DEF Login!CheckLockout, Login!keys
  <2>3. CASE Login!CheckRate(w)
    BY <1>g, <2>3 DEF Login!CheckRate
  <2>4. CASE Login!CheckLocal(w)
    <3>1. PICK n \in 0 .. (LoginLimit + 1), l \in {"idle", "handler"} :
            rate' \in {rate, [n |-> n, ttl |-> Window]} /\ Login!GoTo(w, l)
      <4> DEFINE n == IF rate.ttl = 0 THEN 1 ELSE Login!Incr(rate.n, LoginLimit + 1)
      <4>1. n \in 0 .. (LoginLimit + 1)
        <5>1. LoginLimit + 1 \in Nat /\ 1 \in 0 .. (LoginLimit + 1)
          BY <1>b
        <5>2. Login!Incr(rate.n, LoginLimit + 1) \in 0 .. (LoginLimit + 1)
          BY <1>c, <5>1, IncrBound
        <5> QED
          BY <5>1, <5>2
      <4>2. IF lockout > 0
            THEN Login!GoTo(w, "idle") /\ UNCHANGED rate
            ELSE /\ rate' = [n |-> n, ttl |-> Window]
                 /\ Login!GoTo(w, IF n > LoginLimit THEN "idle" ELSE "handler")
        BY <2>4 DEF Login!CheckLocal
      <4> HIDE DEF n
      <4>3. PICK l \in {"idle", "handler"} : Login!GoTo(w, l)
        BY <4>2
      <4>4. rate' \in {rate, [n |-> n, ttl |-> Window]}
        BY <4>2
      <4> QED
        BY <4>1, <4>3, <4>4
    <3>2. [n |-> n, ttl |-> Window] \in Rates
      BY <1>b DEF Rates
    <3> QED
      BY <2>4, <3>1, <3>2 DEF Login!CheckLocal
  <2>5. CASE Login!Handler(w)
    BY <2>5 DEF Login!Handler, Login!keys
  <2>6. CASE Login!RecordIncr(w)
    <3> DEFINE n == Login!Incr(failed.n, Login!MaxFailed)
    <3>1. [failed EXCEPT !.n = n] \in Fails
      BY <1>b, <1>c, IncrBound DEF Fails
    <3> HIDE DEF n
    <3>2. PICK l \in {"expire", "lock", "idle"} : Login!GoTo(w, l)
      BY <2>6 DEF Login!RecordIncr, n
    <3> QED
      BY <2>6, <3>1, <3>2 DEF Login!RecordIncr, n
  <2>7. CASE Login!RecordExpire(w)
    <3>1. [failed EXCEPT !.ttl = LockoutTime] \in Fails
      BY <1>b DEF Fails
    <3> QED
      BY <2>7, <3>1 DEF Login!RecordExpire
  <2>8. CASE Login!RecordLock(w)
    BY <1>b, <2>8 DEF Login!RecordLock
  <2>9. CASE Login!RecordLocal(w)
    <3>1. LockoutTime \in 0 .. LockoutTime
      BY <1>b
    <3>2. \/ failed' = Login!Absent
          \/ /\ failed' = [n |-> failed.n + 1, ttl |-> 0]
             /\ failed.n + 1 \in 0 .. Login!MaxFailed
      BY <1>b, <1>c, <2>9 DEF Login!RecordLocal, Login!LocksOut
    <3>3. failed' \in Fails
      BY <1>b, <1>d, <3>2 DEF Fails
    <3> QED
      BY <2>9, <3>1, <3>3 DEF Login!RecordLocal
  <2>10. CASE Login!Clear(w)
    BY <1>d, <2>10 DEF Login!Clear
  <2> QED
    BY <1>1, <2>1, <2>2, <2>3, <2>4, <2>5, <2>6, <2>7, <2>8, <2>9, <2>10 DEF Login!Request
<1>2. CASE Login!Tick
  <2>1. Login!Aged(rate) \in Rates /\ Login!Aged(failed) \in Fails
    BY <1>a, <1>b, AgedType DEF Rates, Fails
  <2>2. lockout' \in 0 .. LockoutTime
    BY <1>a, <1>b, <1>2 DEF Login!Tick
  <2> QED
    BY <1>a, <1>2, <2>1, <2>2 DEF Login!Tick
<1>3. CASE Login!CleanupExpired
  BY <1>a, <1>d, <1>3 DEF Login!CleanupExpired
<1>4. CASE Login!Crash
  <2>1. Login!Unrecorded \subseteq Workers
    BY DEF Login!Unrecorded
  <2>2. Cardinality(Login!Unrecorded) \in Nat
    BY <2>1, LoginConstants, FS_Subset, FS_CardinalityType
  <2>3. faults' \in 0 .. MaxFaults
    BY <1>a, <1>b, <1>4, <2>2, LoginConstants DEF Login!Crash
  <2>4. loginPc' \in [Workers -> LoginPlaces]
    BY <1>4 DEF Login!Crash, LoginPlaces
  <2>5. 0 \in 0 .. LockoutTime
    BY <1>b
  <2> QED
    BY <1>a, <1>d, <1>4, <2>3, <2>4, <2>5 DEF Login!Crash, Login!keys
<1> QED
  BY <1>1, <1>2, <1>3, <1>4 DEF Login!Next

LEMMA LoginInit == Login!Init => LoginInv
<1> SUFFICES ASSUME Login!Init
             PROVE  LoginInv
  OBVIOUS
<1>1. Login!TypeOK
  BY LoginConstants DEF Login!Init, Login!TypeOK, Login!Absent
<1>2. CountedInv /\ UnlockedInv /\ LockedInv /\ ForgottenInv
  BY CountTypes, LoginConstants
  DEF Login!Init, Login!Absent, CountedInv, UnlockedInv, LockedInv, ForgottenInv
<1> QED
  BY <1>1, <1>2 DEF LoginInv

LEMMA LoginNext == LoginInv /\ [Login!Next]_(Login!vars) => LoginInv'
<1> SUFFICES ASSUME LoginInv, [Login!Next]_(Login!vars)
             PROVE  LoginInv'
  OBVIOUS
<1>1. CASE Login!Next
  <2>1. Login!TypeOK' /\ ForgottenInv'
    BY <1>1, LoginTypeStep, ForgottenStep DEF LoginInv
  <2>2. CountedInv' /\ UnlockedInv' /\ LockedInv'
    <3>1. CASE \E w \in Workers : Login!Request(w)
      BY <3>1, RequestCounts
    <3>2. CASE Login!Tick
      BY <2>1, <3>2, TickCounts
    <3>3. CASE Login!CleanupExpired
      BY <2>1, <3>3, LoginReset DEF Login!CleanupExpired
    <3>4. CASE Login!Crash
      BY <2>1, <3>4, CrashCounts
    <3> QED
      BY <1>1, <3>1, <3>2, <3>3, <3>4 DEF Login!Next
  <2> QED
    BY <2>1, <2>2 DEF LoginInv
<1>2. CASE UNCHANGED Login!vars
  BY <1>2
  DEF LoginInv, Login!vars, Login!keys, Login!TypeOK, CountedInv, UnlockedInv, LockedInv,
      ForgottenInv, CountAt, At
<1> QED
  BY <1>1, <1>2

LEMMA LoginInvariant == MCSpec => []LoginInv
<1>1. MCInit => LoginInv
  BY LoginInit DEF MCInit
<1>2. LoginInv /\ [BucketStep \/ LoginStep \/ LockStep \/ CounterStep \/ SlidingStep]_
             <<part, vars, loginVars, lockVars, windowVars>>
        => LoginInv'
  <2>1. [BucketStep \/ LoginStep \/ LockStep \/ CounterStep \/ SlidingStep]_
               <<part, vars, loginVars, lockVars, windowVars>>
          => [Login!Next]_(Login!vars)
    BY DEF BucketStep, LoginStep, LockStep, CounterStep, SlidingStep, loginVars,
       Login!vars, Login!keys
  <2> QED
    BY <2>1, LoginNext
<1> QED
  BY <1>1, <1>2, PTL DEF MCSpec

\* Between two successes, expiries or unlocks there are at most one failed attempt less
\* than locks the account, one for each request in flight and one for each command that
\* failed, for any number of requests and any limits (rate_limiter.go:149-255).
THEOREM GuessesBoundedInvariant == MCSpec => []GuessesBounded
<1>1. LoginInv => GuessesBounded
  <2> SUFFICES ASSUME LoginInv
               PROVE  guesses <= LockoutLimit - 1 + Cardinality(Workers) + faults
    BY LoginConstants DEF GuessesBounded, Login!GuessesBounded
  <2>1. /\ lockout \in Nat /\ guesses \in Nat /\ faults \in Nat
        /\ LockoutLimit \in Nat \ {0} /\ Cardinality(Workers) \in Nat
    BY LoginTypes DEF LoginInv
  <2>2. CASE lockout = 0
    BY <2>1, <2>2, CountTypes DEF LoginInv, UnlockedInv
  <2>3. CASE lockout # 0
    BY <2>1, <2>3, CountTypes DEF LoginInv, LockedInv
  <2> QED
    BY <2>2, <2>3
<1> QED
  BY <1>1, LoginInvariant, PTL

\* A failed attempt is not held against a client for ever: failed_auth has an expiry
\* unless its request is about to set it or a command failed (rate_limiter.go:185-200).
THEOREM FailuresAreForgottenInvariant == MCSpec => []FailuresAreForgotten
<1>1. LoginInv => FailuresAreForgotten
  BY DEF LoginInv, ForgottenInv, FailuresAreForgotten, Login!FailuresAreForgotten
<1> QED
  BY <1>1, LoginInvariant, PTL

-----------------------------------------------------------------------------
(* The counter.  What passed since the counter expired has numbers of its  *)
(* own up to the limit (NumberedInv); the expiry is a window after all     *)
(* that passed but what is still before EXPIRE, one for each client, and   *)
(* not the first (RenewedInv); so that the expiry catches no more than     *)
(* that (CaughtInv), and the windows that are over are bounded (OverInv).  *)
(* The local bucket is the potential of the token bucket again, for every  *)
(* window (LocalInv).  A counter that stands has someone to blame          *)
(* (BlameInv), and so have those it refused or will (RefusedInv).          *)
CounterRecord == [n : Nat, sent : Nat, done : Nat, ok : BOOLEAN, by : {"redis", "local"},
                  cut : BOOLEAN]
Passage == [at : Nat, as : 1..CounterLimit, by : Clients]

InWindow(t) == {x \in let : t - CounterWidth < x.at /\ x.at <= t}
Current == {x \in let : x.at >= ended}
Caught == {x \in let : ended - CounterWidth < x.at /\ x.at < ended}
Pending(x) == x.by \in counted /\ x.at = sent[x.by] /\ x.as = got[x.by]
LocallyPassed(t) == {x \in requests : x.by = "local" /\ x.ok /\ x.done > t - CounterWidth
                                      /\ x.done <= t}

CounterTypes ==
  /\ ctime \in 0..CounterTime /\ ended \in 0..ctime
  /\ requests \subseteq CounterRecord /\ IsFiniteSet(requests)
  /\ \A x \in requests : x.n < Cardinality(requests) /\ x.sent <= x.done /\ x.done <= ctime
  /\ counted \subseteq Clients
  /\ Cardinality(requests) + Cardinality(counted) <= MaxRequests
  /\ count \in 0..(Cardinality(requests) + Cardinality(counted))
  /\ renewed \in (ctime + 1)..Counter!Never
  /\ sent \in [Clients -> 0..ctime] /\ got \in [Clients -> 0..MaxRequests]
  /\ local \in 0..Counter!Full /\ localAt \in 0..ctime
LetTypes == /\ let \subseteq Passage /\ IsFiniteSet(let)
            /\ \A x \in let : x.at <= ctime

NumberedInv ==
  /\ \A x \in Current : x.as <= count
  /\ \A x, y \in Current : x.as = y.as => x = y
RenewedInv ==
  /\ count = 0 => renewed = Counter!Never
  /\ \A x \in let : x.at + CounterWidth <= renewed \/ Pending(x)
  /\ \A x \in Current : x.as = 1 => x.at + CounterWidth <= renewed
  /\ renewed # Counter!Never => ended + CounterWidth <= renewed
CaughtInv == /\ Cardinality(Caught) <= Cardinality(Clients)
             /\ Cardinality(Caught) < CounterLimit
Bounded(t) == /\ Cardinality(InWindow(t)) <= CounterLimit + Cardinality(Clients)
              /\ Cardinality(InWindow(t)) < 2 * CounterLimit
OverInv == \A t \in Nat : t < ctime => Bounded(t)
LetInv == LetTypes /\ NumberedInv /\ RenewedInv /\ CaughtInv /\ OverInv

LocalInv ==
  /\ \A x \in requests : x.by = "local" => x.done <= localAt
  /\ \A t \in Nat :
       LocallyPassed(t) # {} =>
         LET n == Cardinality(LocallyPassed(t)) IN
         IF localAt <= t
           THEN n * CounterWidth + local
                  <= Counter!Full + (localAt - (t - CounterWidth + 1)) * CounterLimit
           ELSE n * CounterWidth <= Counter!Full + (CounterWidth - 1) * CounterLimit

Before(y, s) == y.sent <= s /\ (s - y.done < CounterWidth \/ y.cut)
BlameInv == count > 0 => \/ counted # {}
                         \/ \E y \in requests : y.cut \/ renewed = y.done + CounterWidth
Refusal(c) == got[c] > CounterLimit =>
                \/ \E y \in requests : Before(y, sent[c])
                \/ \E d \in counted \ {c} : sent[d] <= sent[c]
RefusedInv == /\ \A c \in counted : Refusal(c)
              /\ \A x \in requests : x.by = "redis" /\ ~x.ok => Counter!Blamed(x)

CounterInv == CounterTypes /\ LetInv /\ LocalInv /\ BlameInv /\ RefusedInv

LEMMA CounterConstants ==
  /\ CounterLimit \in Nat \ {0} /\ CounterWidth \in Nat \ {0}
  /\ CounterTime \in Nat /\ MaxRequests \in Nat
  /\ Counter!Full \in Nat /\ Counter!Full = CounterLimit * CounterWidth
  /\ Counter!Full >= CounterWidth
  /\ Counter!Never \in Nat /\ Counter!Never = CounterTime + CounterWidth + 1
  /\ \A S : Counter!Cardinality(S) = Cardinality(S)
  /\ IsFiniteSet(Clients) /\ Cardinality(Clients) \in Nat
<1>1. \A S : Counter!Cardinality(S) = Cardinality(S)
  BY DEF Counter!Cardinality, Cardinality, Counter!IsFiniteSet, IsFiniteSet
<1>2. /\ CounterLimit \in Nat \ {0} /\ CounterWidth \in Nat \ {0}
      /\ CounterTime \in Nat /\ MaxRequests \in Nat
  BY WindowsAreAssumed DEF Counter!CounterAssumption
<1>3. CounterLimit * CounterWidth \in Nat /\ CounterLimit * CounterWidth >= CounterWidth
  BY <1>2
<1>4. IsFiniteSet(Clients) /\ Cardinality(Clients) \in Nat
  BY WindowsAreAssumed, FS_CardinalityType
     DEF Counter!CounterAssumption, Counter!IsFiniteSet, IsFiniteSet
<1> QED
  BY <1>1, <1>2, <1>3, <1>4 DEF Counter!Full, Counter!Never

\* What a set gains with one more element.
LEMMA GainsOne ==
  ASSUME NEW S, IsFiniteSet(S), NEW x, NEW T \in SUBSET (S \cup {x})
  PROVE  IsFiniteSet(T) /\ Cardinality(T) \in Nat /\ Cardinality(T) <= Cardinality(S) + 1
<1>1. /\ IsFiniteSet(S \cup {x}) /\ Cardinality(S) \in Nat
      /\ Cardinality(S \cup {x}) \in {Cardinality(S), Cardinality(S) + 1}
  BY FS_AddElement, FS_CardinalityType
<1>2. /\ IsFiniteSet(T) /\ Cardinality(T) \in Nat
      /\ Cardinality(T) <= Cardinality(S \cup {x})
  BY <1>1, FS_Subset, FS_CardinalityType
<1> QED
  BY <1>1, <1>2

\* A part of a finite set.
LEMMA PartIsSmaller ==
  ASSUME NEW S, IsFiniteSet(S), NEW T \in SUBSET S
  PROVE  /\ IsFiniteSet(T) /\ Cardinality(T) \in Nat /\ Cardinality(S) \in Nat
         /\ Cardinality(T) <= Cardinality(S)
BY FS_Subset, FS_CardinalityType

\* What a function tells apart is no more than its values.
LEMMA ToldApart ==
  ASSUME NEW S, NEW T, IsFiniteSet(T), NEW f,
         \A x \in S : f[x] \in T, \A x, y \in S : f[x] = f[y] => x = y
  PROVE  IsFiniteSet(S) /\ Cardinality(S) \in Nat /\ Cardinality(S) <= Cardinality(T)
<1> DEFINE g == [x \in S |-> f[x]]
<1>1. g \in Injection(S, T)
  BY DEF Injection, IsInjective
<1> HIDE DEF g
<1> QED
  BY <1>1, FS_Injection, FS_CardinalityType

LEMMA CounterInit == Counter!Init => CounterInv
<1> SUFFICES ASSUME Counter!Init  PROVE CounterInv
  OBVIOUS
<1>1. Cardinality({}) = 0 /\ IsFiniteSet({})
  BY FS_EmptySet
<1>2. CounterTypes
  BY <1>1, CounterConstants DEF Counter!Init, CounterTypes
<1>3. LetTypes /\ NumberedInv /\ RenewedInv
  BY <1>1 DEF Counter!Init, LetTypes, NumberedInv, RenewedInv, Current
<1>4. CaughtInv
  <2>1. Caught = {}
    BY DEF Counter!Init, Caught
  <2> QED
    BY <1>1, <2>1, CounterConstants DEF CaughtInv
<1>5. OverInv
  BY DEF Counter!Init, OverInv
<1>6. LocalInv
  <2>1. \A t : LocallyPassed(t) = {}
    BY DEF Counter!Init, LocallyPassed
  <2> QED
    BY <2>1 DEF Counter!Init, LocalInv
<1>7. BlameInv /\ RefusedInv
  BY DEF Counter!Init, BlameInv, RefusedInv
<1> QED
  BY <1>2, <1>3, <1>4, <1>5, <1>6, <1>7 DEF CounterInv, LetInv

-----------------------------------------------------------------------------
\* The counter's windows.

\* Of what passed since the counter expired, the limit at most.
LEMMA CurrentBound ==
  ASSUME LetTypes, NumberedInv
  PROVE  /\ IsFiniteSet(Current) /\ Cardinality(Current) \in Nat
         /\ Cardinality(Current) <= CounterLimit
<1> DEFINE f == [x \in Current |-> x.as]
<1>1. /\ \A x \in Current : f[x] \in 1..CounterLimit
      /\ \A x, y \in Current : f[x] = f[y] => x = y
  BY DEF LetTypes, Passage, NumberedInv, Current
<1>2. IsFiniteSet(1..CounterLimit) /\ Cardinality(1..CounterLimit) = CounterLimit
  BY CounterConstants, FS_Interval
<1> HIDE DEF f
<1> QED
  BY <1>1, <1>2, ToldApart

\* The window that ends now: what passed since the counter expired, and what the expiry
\* caught.
LEMMA PresentWindow ==
  ASSUME ctime \in Nat, ended \in 0..ctime, LetTypes, NumberedInv, CaughtInv
  PROVE  Bounded(ctime)
<1>1. InWindow(ctime) \in SUBSET (Current \cup Caught)
  <2>1. \A x \in let : x.at \in Nat
    BY DEF LetTypes, Passage
  <2> QED
    BY <2>1, CounterConstants DEF InWindow, Current, Caught
<1>2. IsFiniteSet(Caught) /\ Cardinality(Caught) \in Nat
  <2>1. Caught \in SUBSET let
    BY DEF Caught
  <2> QED
    BY <2>1, PartIsSmaller DEF LetTypes
<1>3. /\ IsFiniteSet(Current \cup Caught)
      /\ Cardinality(Current \cup Caught) <= Cardinality(Current) + Cardinality(Caught)
  <2>1. /\ IsFiniteSet(Current) /\ Cardinality(Current) \in Nat
        /\ IsFiniteSet(Caught) /\ Cardinality(Caught) \in Nat
    BY <1>2, CurrentBound
  <2>2. Cardinality(Current \cap Caught) \in Nat
    BY <2>1, FS_Intersection, FS_CardinalityType
  <2>3. /\ IsFiniteSet(Current \cup Caught)
        /\ Cardinality(Current \cup Caught)
             = Cardinality(Current) + Cardinality(Caught) - Cardinality(Current \cap Caught)
    BY <2>1, FS_Union
  <2> QED
    BY <2>1, <2>2, <2>3
<1>4. Cardinality(InWindow(ctime)) <= Cardinality(Current) + Cardinality(Caught)
      /\ Cardinality(InWindow(ctime)) \in Nat
  BY <1>1, <1>2, <1>3, CurrentBound, PartIsSmaller
<1> QED
  BY <1>2, <1>4, CurrentBound, CounterConstants DEF Bounded, CaughtInv

\* Nothing passes in a window that is over.
LEMMA WindowsStay ==
  ASSUME LetTypes, OverInv, ctime \in Nat, ctime' = ctime,
         \A x \in let' : x \in let \/ x.at = ctime
  PROVE  OverInv'
<1> SUFFICES ASSUME NEW t \in Nat, t < ctime
             PROVE  Bounded(t)'
  BY DEF OverInv
<1>1. InWindow(t)' \in SUBSET InWindow(t)
  BY DEF InWindow
<1>2. InWindow(t) \in SUBSET let
  BY DEF InWindow
<1>3. /\ Cardinality(InWindow(t)') \in Nat /\ Cardinality(InWindow(t)) \in Nat
      /\ Cardinality(InWindow(t)') <= Cardinality(InWindow(t))
  BY <1>1, <1>2, PartIsSmaller DEF LetTypes
<1> QED
  BY <1>3, CounterConstants DEF OverInv, Bounded

LEMMA IncrementLet ==
  ASSUME CounterTypes, LetInv, NEW c \in Clients, Counter!Increment(c)
  PROVE  LetInv'
<1> DEFINE new == [at |-> ctime, as |-> count + 1, by |-> c]
<1>1. /\ c \notin counted /\ counted' = counted \cup {c} /\ count' = count + 1
      /\ UNCHANGED <<ctime, renewed, ended>>
      /\ sent' = [sent EXCEPT ![c] = ctime] /\ got' = [got EXCEPT ![c] = count + 1]
      /\ let' = IF count + 1 <= CounterLimit THEN let \cup {new} ELSE let
  BY DEF Counter!Increment
<1>2. /\ ctime \in 0..CounterTime /\ ended \in 0..ctime /\ count \in Nat
      /\ renewed \in Nat /\ renewed <= Counter!Never /\ counted \subseteq Clients
      /\ sent \in [Clients -> 0..ctime] /\ got \in [Clients -> 0..MaxRequests]
  <2>1. renewed \in Nat /\ renewed <= Counter!Never
    BY CounterConstants DEF CounterTypes
  <2>2. Cardinality(requests) \in Nat /\ Cardinality(counted) \in Nat
    BY CounterConstants, PartIsSmaller, FS_CardinalityType DEF CounterTypes
  <2> QED
    BY <2>1, <2>2 DEF CounterTypes
<1>3. /\ LetTypes /\ NumberedInv /\ RenewedInv /\ CaughtInv /\ OverInv
  BY DEF LetInv
<1>4. /\ new.at = ctime /\ new.as = count + 1 /\ new.by = c
      /\ count + 1 <= CounterLimit => new \in Passage
  BY <1>2, CounterConstants DEF Passage
<1> HIDE DEF new
<1>5. \A x \in let' : x \in let \/ (x = new /\ count + 1 <= CounterLimit)
  BY <1>1
<1>6. LetTypes'
  <2>1. IsFiniteSet(let') 
    BY <1>1, <1>3, FS_AddElement DEF LetTypes
  <2> QED
    BY <1>1, <1>2, <1>3, <1>4, <1>5, <2>1 DEF LetTypes
<1>7. NumberedInv'
  <2>1. \A x \in Current' : x \in Current \/ x = new
    BY <1>1, <1>5 DEF Current
  <2>2. \A x \in Current : x.as \in Nat /\ x.as <= count
    BY <1>3, CounterConstants DEF Current, NumberedInv, LetTypes, Passage
  <2> QED
    BY <1>1, <1>2, <1>3, <1>4, <2>1, <2>2 DEF NumberedInv
<1>8. RenewedInv'
  <2>1. ASSUME NEW x \in let'
        PROVE  x.at + CounterWidth <= renewed' \/ Pending(x)'
    <3>1. CASE x \in let
      BY <1>1, <1>2, <1>3, <3>1 DEF RenewedInv, Pending
    <3>2. CASE x = new
      BY <1>1, <1>2, <1>4, <3>2 DEF Pending
    <3> QED
      BY <1>5, <3>1, <3>2
  <2>2. ASSUME NEW x \in Current', x.as = 1
        PROVE  x.at + CounterWidth <= renewed'
    <3>1. CASE x \in let
      BY <1>1, <1>3, <2>2, <3>1 DEF RenewedInv, Current
    <3>2. CASE x = new
      BY <1>1, <1>2, <1>3, <1>4, <2>2, <3>2, CounterConstants DEF RenewedInv
    <3> QED
      BY <1>5, <3>1, <3>2 DEF Current
  <2> QED
    BY <1>1, <1>2, <1>3, <2>1, <2>2 DEF RenewedInv, Counter!Never
<1>9. CaughtInv'
  <2>1. Caught' = Caught
    BY <1>1, <1>2, <1>4 DEF Caught
  <2> QED
    BY <1>3, <2>1 DEF CaughtInv
<1>10. OverInv'
  BY <1>1, <1>2, <1>3, <1>4, <1>5, WindowsStay
<1> QED
  BY <1>6, <1>7, <1>8, <1>9, <1>10 DEF LetInv

\* A pipeline is over: with EXPIRE, or without it and then what it passed is taken back.
PipelineEnds(c) ==
  /\ c \in counted /\ counted' = counted \ {c}
  /\ sent' = [sent EXCEPT ![c] = 0] /\ got' = [got EXCEPT ![c] = 0]
  /\ let' \in SUBSET let
  /\ \/ renewed' = IF count > 0 THEN ctime + CounterWidth ELSE renewed
     \/ renewed' = renewed /\ \A x \in let' : ~(x.by = c /\ Pending(x))
  /\ UNCHANGED <<ctime, count, ended>>

LEMMA PipelineEndsLet ==
  ASSUME CounterTypes, LetInv, NEW c \in Clients, PipelineEnds(c)
  PROVE  LetInv'
<1> USE DEF PipelineEnds
<1>2. /\ ctime \in 0..CounterTime /\ ctime \in Nat /\ ended \in 0..ctime /\ count \in Nat
      /\ renewed \in Nat /\ renewed <= Counter!Never /\ counted \subseteq Clients
      /\ sent \in [Clients -> 0..ctime] /\ got \in [Clients -> 0..MaxRequests]
  <2>1. renewed \in Nat /\ renewed <= Counter!Never
    BY CounterConstants DEF CounterTypes
  <2>2. Cardinality(requests) \in Nat /\ Cardinality(counted) \in Nat
    BY CounterConstants, PartIsSmaller, FS_CardinalityType DEF CounterTypes
  <2> QED
    BY <2>1, <2>2, CounterConstants DEF CounterTypes
<1>3. /\ LetTypes /\ NumberedInv /\ RenewedInv /\ CaughtInv /\ OverInv
  BY DEF LetInv
<1>4. \A x \in let : x.at \in Nat /\ x.at <= ctime
  BY <1>3 DEF LetTypes, Passage
<1>5. LetTypes'
  BY <1>3, FS_Subset DEF LetTypes
<1>6. NumberedInv'
  BY <1>3 DEF NumberedInv, Current
<1>7. RenewedInv'
  <2>1. \/ \A x \in let : x.at + CounterWidth <= renewed'
        \/ renewed' = renewed /\ \A x \in let' : ~(x.by = c /\ Pending(x))
    BY <1>2, <1>3, <1>4, CounterConstants DEF RenewedInv
  <2>2. ASSUME NEW x \in let'
        PROVE  x.at + CounterWidth <= renewed' \/ Pending(x)'
    BY <1>2, <1>3, <2>1, <2>2 DEF RenewedInv, Pending
  <2>3. ASSUME NEW x \in Current', x.as = 1
        PROVE  x.at + CounterWidth <= renewed'
    BY <1>3, <2>1, <2>3 DEF RenewedInv, Current
  <2>4. count' = 0 => renewed' = Counter!Never
    BY <1>2, <1>3 DEF RenewedInv
  <2>5. renewed' # Counter!Never => ended' + CounterWidth <= renewed'
    BY <1>2, <1>3, CounterConstants DEF RenewedInv
  <2> QED
    BY <2>2, <2>3, <2>4, <2>5 DEF RenewedInv, Counter!Never
<1>8. CaughtInv'
  <2>1. Caught' \in SUBSET Caught /\ Caught \in SUBSET let
    BY DEF Caught
  <2>2. /\ Cardinality(Caught') \in Nat /\ Cardinality(Caught) \in Nat
        /\ Cardinality(Caught') <= Cardinality(Caught)
    BY <1>3, <2>1, PartIsSmaller DEF LetTypes
  <2> QED
    BY <1>3, <2>2, CounterConstants DEF CaughtInv
<1>9. OverInv'
  BY <1>2, <1>3, WindowsStay
<1> QED
  BY <1>5, <1>6, <1>7, <1>8, <1>9 DEF LetInv

\* Time passes: of those in the window of the moment the counter expires, each client has
\* one before EXPIRE at most, and the first is not among them.
LEMMA ClockLet ==
  ASSUME CounterTypes, LetInv, Counter!Clock
  PROVE  LetInv'
<1>1. /\ ctime < CounterTime /\ ctime' = ctime + 1
      /\ IF ctime + 1 = renewed
         THEN count' = 0 /\ renewed' = Counter!Never /\ ended' = ctime + 1
         ELSE UNCHANGED <<count, renewed, ended>>
      /\ UNCHANGED <<counted, sent, got, let>>
  BY DEF Counter!Clock
<1>2. /\ ctime \in Nat /\ ended \in 0..ctime /\ renewed \in Nat
      /\ ended \in Nat /\ renewed > ctime /\ counted \subseteq Clients
  BY CounterConstants DEF CounterTypes
<1>3. /\ LetTypes /\ NumberedInv /\ RenewedInv /\ CaughtInv /\ OverInv
  BY DEF LetInv
<1>4. \A x \in let : x.at \in Nat /\ x.at <= ctime /\ x.as \in 1..CounterLimit
                     /\ x.by \in Clients
  BY <1>3 DEF LetTypes, Passage
<1>5. LetTypes'
  BY <1>1, <1>2, <1>3, <1>4 DEF LetTypes
<1>6. OverInv'
  <2>1. \A t \in Nat : t < ctime' => t < ctime \/ t = ctime
    BY <1>1, <1>2
  <2>2. \A t : InWindow(t)' = InWindow(t)
    BY <1>1 DEF InWindow
  <2>3. Bounded(ctime)
    BY <1>2, <1>3, PresentWindow
  <2>4. \A t \in Nat : t < ctime' => Bounded(t)
    BY <1>3, <2>1, <2>3 DEF OverInv
  <2> QED
    BY <2>2, <2>4 DEF OverInv, Bounded
<1>7. CASE ctime + 1 # renewed
  <2>1. UNCHANGED <<count, renewed, ended, counted, sent, got, let>>
    BY <1>1, <1>7
  <2>2. NumberedInv' /\ RenewedInv' /\ CaughtInv'
    BY <1>3, <2>1
       DEF NumberedInv, RenewedInv, CaughtInv, Current, Caught, Pending, Counter!Never
  <2> QED
    BY <1>5, <1>6, <2>2 DEF LetInv
<1>8. CASE ctime + 1 = renewed
  <2>1. /\ count' = 0 /\ renewed' = Counter!Never /\ ended' = ctime + 1 /\ let' = let
        /\ renewed # Counter!Never
    BY <1>1, <1>2, <1>8, CounterConstants
  <2>2. Current' = {}
    BY <1>2, <1>4, <2>1 DEF Current
  <2>3. NumberedInv' /\ RenewedInv'
    BY <1>1, <1>2, <1>4, <2>1, <2>2, CounterConstants
       DEF NumberedInv, RenewedInv, Counter!Never
  <2>4. \A x \in Caught' : /\ x \in let /\ Pending(x) /\ x.at >= ended /\ x.as # 1
                           /\ x.by \in Clients /\ x \in Current
    <3> SUFFICES ASSUME NEW x \in Caught'
                 PROVE  /\ x \in let /\ Pending(x) /\ x.at >= ended /\ x.as # 1
                        /\ x.by \in Clients /\ x \in Current
      OBVIOUS
    <3>1. x \in let /\ x.at + CounterWidth > renewed
      BY <1>2, <1>4, <1>8, <2>1, CounterConstants DEF Caught
    <3>2. x.at >= ended
      <4>1. ended + CounterWidth <= renewed
        BY <1>3, <2>1 DEF RenewedInv
      <4> QED
        BY <1>2, <1>4, <3>1, <4>1, CounterConstants
    <3> QED
      BY <1>2, <1>3, <1>4, <3>1, <3>2, CounterConstants DEF RenewedInv, Current
  <2>5. Cardinality(Caught') \in Nat /\ Cardinality(Caught') <= Cardinality(Clients)
    <3> DEFINE f == [x \in Caught' |-> x.by]
    <3>1. \A x \in Caught' : f[x] \in Clients
      BY <2>4
    <3>2. ASSUME NEW x \in Caught', NEW y \in Caught', f[x] = f[y]
          PROVE  x = y
      <4>1. x.by = y.by /\ x.at = y.at /\ x.as = y.as
        BY <2>4, <3>2 DEF Pending
      <4>2. x \in Passage /\ y \in Passage
        BY <1>3, <2>4 DEF LetTypes
      <4> QED
        BY <4>1, <4>2 DEF Passage
    <3> HIDE DEF f
    <3> QED
      BY <3>1, <3>2, ToldApart, CounterConstants
  <2>6. Cardinality(Caught') < CounterLimit
    <3> DEFINE f == [x \in Caught' |-> x.as]
    <3>1. \A x \in Caught' : f[x] \in 2..CounterLimit
      BY <1>4, <2>4, CounterConstants
    <3>2. \A x, y \in Caught' : f[x] = f[y] => x = y
      BY <1>3, <2>4 DEF NumberedInv
    <3>3. IsFiniteSet(2..CounterLimit) /\ Cardinality(2..CounterLimit) = CounterLimit - 1
      BY CounterConstants, FS_Interval
    <3> HIDE DEF f
    <3> QED
      BY <3>1, <3>2, <3>3, ToldApart, CounterConstants
  <2>7. CaughtInv'
    BY <2>5, <2>6 DEF CaughtInv
  <2> QED
    BY <1>5, <1>6, <2>3, <2>7 DEF LetInv
<1> QED
  BY <1>7, <1>8

-----------------------------------------------------------------------------
\* The counter's requests.
LEMMA LocallyFinite ==
  ASSUME CounterTypes, NEW t
  PROVE  IsFiniteSet(LocallyPassed(t)) /\ Cardinality(LocallyPassed(t)) \in Nat
<1>1. LocallyPassed(t) \in SUBSET requests
  BY DEF LocallyPassed
<1> QED
  BY <1>1, PartIsSmaller DEF CounterTypes

CounterNumbers ==
  /\ ctime \in 0..CounterTime /\ ctime \in Nat /\ ended \in 0..ctime /\ count \in Nat
  /\ renewed \in Nat /\ renewed > ctime /\ renewed <= Counter!Never
  /\ IsFiniteSet(counted) /\ counted \subseteq Clients
  /\ Cardinality(counted) \in Nat /\ Cardinality(requests) \in Nat
  /\ count <= Cardinality(requests) + Cardinality(counted)
  /\ Cardinality(requests) + Cardinality(counted) <= MaxRequests
  /\ sent \in [Clients -> 0..ctime] /\ got \in [Clients -> 0..MaxRequests]
  /\ local \in Nat /\ local <= Counter!Full /\ localAt \in Nat /\ localAt <= ctime
  /\ \A x \in requests : /\ x.n \in Nat /\ x.n < Cardinality(requests)
                         /\ x.sent \in Nat /\ x.done \in Nat
                         /\ x.sent <= x.done /\ x.done <= ctime

LEMMA CounterNumbersHold == CounterTypes => CounterNumbers
<1> SUFFICES ASSUME CounterTypes  PROVE CounterNumbers
  OBVIOUS
<1>1. ctime \in Nat /\ renewed \in Nat /\ renewed > ctime /\ renewed <= Counter!Never
  BY CounterConstants DEF CounterTypes
<1>2. /\ IsFiniteSet(counted) /\ Cardinality(counted) \in Nat /\ Cardinality(requests) \in Nat
  BY CounterConstants, PartIsSmaller, FS_CardinalityType DEF CounterTypes
<1>3. count \in Nat /\ count <= Cardinality(requests) + Cardinality(counted)
  BY <1>2 DEF CounterTypes
<1>4. local \in Nat /\ local <= Counter!Full /\ localAt \in Nat /\ localAt <= ctime
  BY <1>1, CounterConstants DEF CounterTypes
<1>5. \A x \in requests : /\ x.n \in Nat /\ x.n < Cardinality(requests)
                         /\ x.sent \in Nat /\ x.done \in Nat
                         /\ x.sent <= x.done /\ x.done <= ctime
  BY DEF CounterTypes, CounterRecord
<1> QED
  BY <1>1, <1>2, <1>3, <1>4, <1>5 DEF CounterTypes, CounterNumbers

\* A request more: its number is new, and it is in the windows that are open.
LEMMA OneMoreRequest ==
  ASSUME CounterTypes, NEW begun \in 0..ctime, NEW ok \in BOOLEAN,
         NEW by \in {"redis", "local"}, NEW cut \in BOOLEAN,
         Counter!Decided(begun, ok, by, cut), ctime' = ctime
  PROVE  /\ requests' \subseteq CounterRecord /\ IsFiniteSet(requests)'
         /\ Cardinality(requests)' = Cardinality(requests) + 1
         /\ \A x \in requests' :
              x.n < Cardinality(requests)' /\ x.sent <= x.done /\ x.done <= ctime'
         /\ requests \subseteq requests'
         /\ \A x \in requests' \ requests :
              /\ x.n = Cardinality(requests) /\ x.sent = begun /\ x.done = ctime
              /\ x.ok = ok /\ x.by = by /\ x.cut = cut
         /\ \E x \in requests' \ requests : TRUE
<1> DEFINE new == [n |-> Cardinality(requests), sent |-> begun, done |-> ctime, ok |-> ok,
                   by |-> by, cut |-> cut]
<1>1. requests' = requests \cup {new}
  BY CounterConstants DEF Counter!Decided
<1>2. CounterNumbers /\ IsFiniteSet(requests) /\ requests \subseteq CounterRecord
  BY CounterNumbersHold DEF CounterTypes
<1>3. /\ new.n = Cardinality(requests) /\ new.sent = begun /\ new.done = ctime
      /\ new.ok = ok /\ new.by = by /\ new.cut = cut
  OBVIOUS
<1>4. new \in CounterRecord
  BY <1>2 DEF CounterRecord, CounterNumbers
<1> HIDE DEF new
<1>5. new \notin requests
  BY <1>2, <1>3 DEF CounterNumbers
<1>6. IsFiniteSet(requests') /\ Cardinality(requests') = Cardinality(requests) + 1
  BY <1>1, <1>2, <1>5, FS_AddElement
<1>7. ASSUME NEW x \in requests'
      PROVE  x.n < Cardinality(requests') /\ x.sent <= x.done /\ x.done <= ctime'
  BY <1>1, <1>2, <1>3, <1>6 DEF CounterNumbers
<1> QED
  BY <1>1, <1>2, <1>3, <1>4, <1>5, <1>6, <1>7

\* A request that was not let pass by the local bucket changes nothing of it.
LEMMA SameLocally ==
  ASSUME CounterTypes, LocalInv, requests \subseteq requests',
         \A x \in requests' : x \in requests \/ x.by # "local",
         UNCHANGED <<local, localAt>>
  PROVE  LocalInv'
<1>1. \A t : LocallyPassed(t)' = LocallyPassed(t)
  BY DEF LocallyPassed
<1> QED
  BY <1>1 DEF LocalInv, Counter!Full

\* The local bucket decides: a potential.
LEMMA DecidedLocally ==
  ASSUME CounterTypes, LocalInv, ctime' = ctime, localAt' = ctime,
         requests \subseteq requests', IsFiniteSet(requests'),
         local' = IF Counter!Accrued >= CounterWidth THEN Counter!Accrued - CounterWidth
                                                     ELSE Counter!Accrued,
         NEW new, requests' = requests \cup {new}, new.by = "local", new.done = ctime,
         new.ok <=> Counter!Accrued >= CounterWidth
  PROVE  LocalInv' /\ local' \in 0..Counter!Full
<1> DEFINE ok == Counter!Accrued >= CounterWidth
           back == IF ok THEN Counter!Accrued - CounterWidth ELSE Counter!Accrued
<1>0. /\ CounterTypes /\ LocalInv
      /\ ctime \in Nat /\ local \in Nat /\ local <= Counter!Full /\ localAt \in Nat
      /\ localAt <= ctime /\ \A x \in requests : x.done \in Nat
  BY CounterNumbersHold DEF CounterNumbers
<1>1. ctime' = ctime /\ local' = back /\ localAt' = ctime /\ ok \in BOOLEAN
  OBVIOUS
<1>2. /\ Counter!Accrued \in Nat /\ Counter!Accrued <= Counter!Full
      /\ Counter!Accrued <= local + (ctime - localAt) * CounterLimit
  <2>1. (ctime - localAt) * CounterLimit \in Nat
    BY <1>0, CounterConstants
  <2> DEFINE a == local + (ctime - localAt) * CounterLimit
  <2>2. a \in Nat
    BY <1>0, <2>1
  <2>3. Counter!Accrued = IF a < Counter!Full THEN a ELSE Counter!Full
    BY DEF Counter!Accrued
  <2> HIDE DEF a
  <2>4. Counter!Accrued \in Nat /\ Counter!Accrued <= Counter!Full /\ Counter!Accrued <= a
    BY <2>2, <2>3, CounterConstants
  <2> QED
    BY <2>4 DEF a
<1>3. /\ back \in Nat /\ back <= Counter!Full
      /\ ok => back + CounterWidth = Counter!Accrued
      /\ ~ok => back = Counter!Accrued
  BY <1>2, CounterConstants
<1>4. ASSUME NEW t \in Nat
      PROVE  /\ Cardinality(LocallyPassed(t)') \in Nat
             /\ Cardinality(LocallyPassed(t)') <= Cardinality(LocallyPassed(t)) + 1
             /\ ~ok \/ t < ctime => LocallyPassed(t)' = LocallyPassed(t)
  <2>1. LocallyPassed(t)' \in SUBSET (LocallyPassed(t) \cup {new})
    BY DEF LocallyPassed
  <2>2. ~ok \/ t < ctime => LocallyPassed(t)' = LocallyPassed(t)
    BY <1>0 DEF LocallyPassed
  <2> HIDE DEF ok
  <2> QED
    BY <2>1, <2>2, LocallyFinite, GainsOne
<1> HIDE DEF ok, back
<1>9. LocalInv'
  <2>1. \A x \in requests' : x.by = "local" => x.done <= localAt'
    BY <1>0, <1>1 DEF LocalInv
  <2> SUFFICES ASSUME NEW t \in Nat, LocallyPassed(t)' # {}
               PROVE  LET n == Cardinality(LocallyPassed(t)') IN
                      IF localAt' <= t
                        THEN n * CounterWidth + local'
                               <= Counter!Full
                                    + (localAt' - (t - CounterWidth + 1)) * CounterLimit
                        ELSE n * CounterWidth
                               <= Counter!Full + (CounterWidth - 1) * CounterLimit
    BY <2>1 DEF LocalInv, Counter!Full
  <2> DEFINE k == Cardinality(LocallyPassed(t))
             k1 == Cardinality(LocallyPassed(t)')
             from == t - CounterWidth + 1
  <2>2. /\ k \in Nat /\ k1 \in Nat /\ k1 <= k + 1
        /\ ~ok \/ t < ctime => k1 = k /\ LocallyPassed(t) # {}
        /\ LocallyPassed(t) = {} => k = 0
    BY <1>0, <1>4, LocallyFinite, FS_EmptySet
  <2>3. LocallyPassed(t) # {} => from <= localAt
    <3>1. ASSUME LocallyPassed(t) # {}  PROVE from <= localAt
      <4>1. PICK x \in requests : x.by = "local" /\ x.done > t - CounterWidth
        BY <3>1 DEF LocallyPassed
      <4>2. x.done \in Nat /\ x.done <= localAt
        BY <1>0, <4>1 DEF LocalInv
      <4> QED
        BY <1>0, <4>1, <4>2, CounterConstants
    <3> QED
      BY <3>1
  <2>4. from <= ctime
    <3>1. PICK x \in requests' : x.done > t - CounterWidth
      BY DEF LocallyPassed
    <3>2. x.done \in Nat /\ x.done <= ctime
      BY <1>0, <3>1, CounterNumbersHold DEF CounterNumbers
    <3> QED
      BY <1>0, <3>1, <3>2, CounterConstants
  <2>5. LocallyPassed(t) # {} =>
          IF localAt <= t
            THEN k * CounterWidth + local <= Counter!Full + (localAt - from) * CounterLimit
            ELSE k * CounterWidth <= Counter!Full + (CounterWidth - 1) * CounterLimit
    BY <1>0 DEF LocalInv
  <2> HIDE DEF k, k1
  <2>6. /\ k * CounterWidth \in Nat /\ k1 * CounterWidth \in Nat
        /\ k1 * CounterWidth <= k * CounterWidth + CounterWidth
        /\ (CounterWidth - 1) * CounterLimit \in Nat
        /\ (ctime - from) * CounterLimit \in Nat
        /\ (localAt - from) * CounterLimit \in Int
        /\ (ctime - localAt) * CounterLimit \in Nat
        /\ (ctime - from) * CounterLimit
              = (localAt - from) * CounterLimit + (ctime - localAt) * CounterLimit
    BY <1>0, <2>2, <2>4, CounterConstants
  <2>7. CASE ctime > t
    <3>1. k1 = k /\ LocallyPassed(t) # {}
      BY <1>0, <2>2, <2>7
    <3>2. CASE localAt <= t
      <4>1. localAt - from <= CounterWidth - 1
        BY <1>0, <3>2, CounterConstants
      <4>2. (localAt - from) * CounterLimit <= (CounterWidth - 1) * CounterLimit
        BY <1>0, <4>1, CounterConstants
      <4> QED
        BY <1>0, <1>1, <2>5, <2>6, <2>7, <3>1, <3>2, <4>2, CounterConstants DEF k1
    <3>3. CASE localAt > t
      BY <1>0, <1>1, <2>5, <2>7, <3>1, <3>3 DEF k1
    <3> QED
      BY <1>0, <3>2, <3>3
  <2>8. CASE ctime <= t
    <3>1. k1 * CounterWidth + back <= Counter!Full + (ctime - from) * CounterLimit
      <4>1. CASE LocallyPassed(t) = {}
        <5>1. ok /\ k = 0 /\ k * CounterWidth = 0
          BY <2>2, <4>1, CounterConstants
        <5> QED
          BY <1>2, <1>3, <2>6, <5>1, CounterConstants
      <4>2. CASE LocallyPassed(t) # {}
        <5>1. localAt <= t
          BY <1>0, <2>8
        <5>2. k * CounterWidth + local <= Counter!Full + (localAt - from) * CounterLimit
          BY <2>5, <4>2, <5>1
        <5>3. k1 * CounterWidth + back <= k * CounterWidth + Counter!Accrued
          BY <1>2, <1>3, <2>2, <2>6, CounterConstants
        <5> QED
          BY <1>0, <1>2, <1>3, <2>6, <5>2, <5>3, CounterConstants
      <4> QED
        BY <4>1, <4>2
    <3> QED
      BY <1>0, <1>1, <2>8, <3>1 DEF k1
  <2> QED
    BY <1>0, <2>7, <2>8
<1> QED
  BY <1>1, <1>3, <1>9, CounterConstants

\* A pipeline that ends leaves a request to blame in its place.
LEMMA BlameStays ==
  ASSUME CounterTypes, RefusedInv, NEW c \in counted, counted' = counted \ {c},
         sent' = [sent EXCEPT ![c] = 0], got' = [got EXCEPT ![c] = 0],
         requests \subseteq requests', NEW z \in requests', z.sent = sent[c],
         z.n = Cardinality(requests), z.cut \/ z.done = ctime
  PROVE  /\ \A d \in counted' : Refusal(d)'
         /\ \A x \in requests : x.by = "redis" /\ ~x.ok => Counter!Blamed(x)'
         /\ got[c] > CounterLimit /\ z.done = ctime /\ ~z.ok => Counter!Blamed(z)'
<1>1. CounterNumbers
  BY CounterNumbersHold
<1>2. /\ \A d \in counted' : d # c /\ d \in counted /\ d \in Clients
                             /\ sent'[d] = sent[d] /\ got'[d] = got[d]
      /\ c \in Clients
  BY <1>1 DEF CounterNumbers
<1>3. \A s \in 0..ctime : sent[c] <= s => Before(z, s)
  BY <1>1, <1>2, CounterConstants DEF CounterNumbers, Before
<1>4. ASSUME NEW d \in counted'
      PROVE  Refusal(d)'
  <2>1. sent[d] \in 0..ctime
    BY <1>1, <1>2 DEF CounterNumbers
  <2>2. Refusal(d)
    BY <1>2 DEF RefusedInv
  <2>3. \A y : Before(y, sent[d]) <=> Before(y, sent[d])'
    BY <1>2 DEF Before
  <2> QED
    BY <1>2, <1>3, <2>1, <2>2, <2>3 DEF Refusal
<1>5. ASSUME NEW x \in requests, x.by = "redis", ~x.ok
      PROVE  Counter!Blamed(x)'
  <2>1. x.sent \in 0..ctime /\ x.n # z.n
    BY <1>1 DEF CounterNumbers
  <2>2. Counter!Blamed(x)
    BY <1>5 DEF RefusedInv
  <2> QED
    BY <1>2, <1>3, <2>1, <2>2 DEF Counter!Blamed, Before
<1>6. ASSUME got[c] > CounterLimit
      PROVE  Counter!Blamed(z)'
  <2>1. Refusal(c)
    BY DEF RefusedInv
  <2>2. CASE \E y \in requests : Before(y, sent[c])
    <3>1. PICK y \in requests : Before(y, sent[c])
      BY <2>2
    <3>2. y.n # z.n
      BY <1>1 DEF CounterNumbers
    <3> QED
      BY <3>1, <3>2 DEF Counter!Blamed, Before
  <2>3. CASE \E d \in counted \ {c} : sent[d] <= sent[c]
    BY <1>2, <2>3 DEF Counter!Blamed
  <2> QED
    BY <1>6, <2>1, <2>2, <2>3 DEF Refusal
<1> QED
  BY <1>4, <1>5, <1>6

-----------------------------------------------------------------------------
\* CounterInv under every step.
LEMMA IncrementKeeps ==
  ASSUME CounterInv, NEW c \in Clients, Counter!Increment(c)
  PROVE  CounterInv'
<1>1. CounterNumbers /\ CounterTypes /\ LetInv /\ LocalInv /\ BlameInv /\ RefusedInv
  BY CounterNumbersHold DEF CounterInv
<1>2. /\ c \notin counted /\ counted' = counted \cup {c} /\ count' = count + 1
      /\ UNCHANGED <<ctime, renewed, ended, local, localAt, requests>>
      /\ sent' = [sent EXCEPT ![c] = ctime] /\ got' = [got EXCEPT ![c] = count + 1]
      /\ Cardinality(requests) + Cardinality(counted) < MaxRequests
  BY CounterConstants DEF Counter!Increment, Counter!MayAsk, Counter!localVars
<1>3. Cardinality(counted') = Cardinality(counted) + 1 /\ counted' \subseteq Clients
  BY <1>1, <1>2, FS_AddElement DEF CounterNumbers
<1>4. CounterTypes'
  <2>1. /\ count' \in 0..(Cardinality(requests) + Cardinality(counted'))
        /\ Cardinality(requests) + Cardinality(counted') <= MaxRequests
        /\ count + 1 \in 0..MaxRequests
    BY <1>1, <1>2, <1>3, CounterConstants DEF CounterNumbers
  <2>2. /\ sent' \in [Clients -> 0..ctime] /\ got' \in [Clients -> 0..MaxRequests]
    BY <1>1, <1>2, <2>1 DEF CounterNumbers
  <2> QED
    BY <1>1, <1>2, <1>3, <2>1, <2>2 DEF CounterTypes, Counter!Never, Counter!Full
<1>5. LetInv'
  BY <1>1, IncrementLet
<1>6. LocalInv'
  BY <1>1, <1>2, SameLocally
<1>7. BlameInv'
  BY <1>2 DEF BlameInv
<1>8. RefusedInv'
  <2>1. Refusal(c)'
    <3>1. ASSUME count + 1 > CounterLimit
          PROVE  (\E y \in requests : Before(y, ctime)) \/ counted # {}
      <4>1. count > 0
        BY <1>1, <3>1, CounterConstants DEF CounterNumbers
      <4>2. ASSUME NEW y \in requests, y.cut \/ renewed = y.done + CounterWidth
            PROVE  Before(y, ctime)
        BY <1>1, <4>2, CounterConstants DEF CounterNumbers, Before
      <4> QED
        BY <1>1, <4>1, <4>2 DEF BlameInv
    <3>2. sent'[c] = ctime /\ got'[c] = count + 1 /\ counted \subseteq counted' \ {c}
      BY <1>1, <1>2 DEF CounterNumbers
    <3>3. \A d \in counted : sent'[d] <= ctime
      BY <1>1, <1>2 DEF CounterNumbers
    <3> QED
      BY <1>2, <3>1, <3>2, <3>3 DEF Refusal, Before
  <2>2. \A d \in counted : d # c /\ sent'[d] = sent[d] /\ got'[d] = got[d]
    BY <1>1, <1>2 DEF CounterNumbers
  <2>3. ASSUME NEW d \in counted
        PROVE  Refusal(d)'
    BY <1>1, <1>2, <2>2 DEF RefusedInv, Refusal, Before
  <2>4. ASSUME NEW x \in requests, x.by = "redis", ~x.ok
        PROVE  Counter!Blamed(x)'
    BY <1>1, <1>2, <2>2, <2>4 DEF RefusedInv, Counter!Blamed
  <2> QED
    BY <1>2, <2>1, <2>3, <2>4 DEF RefusedInv
<1> QED
  BY <1>4, <1>5, <1>6, <1>7, <1>8 DEF CounterInv

\* A request decided: the types, when a pipeline ends with it or none was there.
LEMMA DecidedTypes ==
  ASSUME CounterTypes, NEW c \in Clients, ctime' = ctime, ended' = ended, count' = count,
         \/ PipelineEnds(c)
         \/ /\ Cardinality(requests) + Cardinality(counted) < MaxRequests
            /\ UNCHANGED <<counted, sent, got, renewed>>
         , requests' \subseteq CounterRecord, IsFiniteSet(requests)',
         Cardinality(requests)' = Cardinality(requests) + 1,
         \A x \in requests' :
           x.n < Cardinality(requests)' /\ x.sent <= x.done /\ x.done <= ctime',
         local' \in 0..Counter!Full, localAt' \in 0..ctime
  PROVE  CounterTypes'
<1>1. CounterNumbers
  BY CounterNumbersHold
<1>2. /\ counted' \subseteq Clients /\ Cardinality(counted') \in Nat
      /\ Cardinality(requests') + Cardinality(counted') <= MaxRequests
      /\ Cardinality(requests) + Cardinality(counted)
           <= Cardinality(requests') + Cardinality(counted')
  <2>1. CASE PipelineEnds(c)
    <3>1. Cardinality(counted') = Cardinality(counted) - 1 /\ counted' \subseteq Clients
          /\ Cardinality(counted') \in Nat
      BY <1>1, <2>1, FS_RemoveElement, FS_CardinalityType DEF CounterNumbers, PipelineEnds
    <3> QED
      BY <1>1, <3>1, CounterConstants DEF CounterNumbers
  <2>2. CASE /\ Cardinality(requests) + Cardinality(counted) < MaxRequests
             /\ counted' = counted
    BY <1>1, <2>2, CounterConstants DEF CounterNumbers
  <2> QED
    BY <2>1, <2>2
<1>3. /\ sent' \in [Clients -> 0..ctime] /\ got' \in [Clients -> 0..MaxRequests]
      /\ renewed' \in (ctime + 1)..Counter!Never
  <2>1. renewed' = renewed \/ renewed' = ctime + CounterWidth
    BY DEF PipelineEnds
  <2>2. renewed' \in (ctime + 1)..Counter!Never
    BY <1>1, <2>1, CounterConstants DEF CounterNumbers
  <2>3. 0 \in 0..ctime /\ 0 \in 0..MaxRequests
    BY <1>1, CounterConstants DEF CounterNumbers
  <2> QED
    BY <1>1, <2>2, <2>3 DEF CounterNumbers, PipelineEnds
<1>4. count' \in 0..(Cardinality(requests') + Cardinality(counted'))
  BY <1>1, <1>2 DEF CounterNumbers
<1> QED
  BY <1>1, <1>2, <1>3, <1>4 DEF CounterTypes, CounterNumbers, Counter!Never, Counter!Full

LEMMA CheckRateLimitKeeps ==
  ASSUME CounterInv, NEW c \in Clients, Counter!CheckRateLimit(c)
  PROVE  CounterInv'
<1> DEFINE ok == got[c] <= CounterLimit
<1>1. CounterNumbers /\ CounterTypes /\ LetInv /\ LocalInv /\ BlameInv /\ RefusedInv
  BY CounterNumbersHold DEF CounterInv
<1>2. /\ PipelineEnds(c) /\ renewed' = IF count > 0 THEN ctime + CounterWidth ELSE renewed
      /\ Counter!Decided(sent[c], ok, "redis", FALSE)
      /\ UNCHANGED <<local, localAt>>
  BY DEF Counter!CheckRateLimit, PipelineEnds, Counter!Over, Counter!Expire,
         Counter!localVars
<1>3. /\ requests' \subseteq CounterRecord /\ IsFiniteSet(requests)'
      /\ Cardinality(requests)' = Cardinality(requests) + 1
      /\ \A x \in requests' :
           x.n < Cardinality(requests)' /\ x.sent <= x.done /\ x.done <= ctime'
      /\ requests \subseteq requests'
      /\ \A x \in requests' \ requests :
           /\ x.n = Cardinality(requests) /\ x.sent = sent[c] /\ x.done = ctime
           /\ x.ok = ok /\ x.by = "redis" /\ x.cut = FALSE
      /\ \E x \in requests' \ requests : TRUE
  <2>1. sent[c] \in 0..ctime /\ ok \in BOOLEAN /\ ctime' = ctime
    BY <1>1, <1>2 DEF CounterNumbers, PipelineEnds
  <2> HIDE DEF ok
  <2> QED
    BY <1>1, <1>2, <2>1, OneMoreRequest
<1>4. CounterTypes'
  <2>1. local' \in 0..Counter!Full /\ localAt' \in 0..ctime
    BY <1>1, <1>2 DEF CounterTypes
  <2>2. ctime' = ctime /\ ended' = ended /\ count' = count
    BY <1>2 DEF PipelineEnds
  <2> QED
    BY <1>1, <1>2, <1>3, <2>1, <2>2, DecidedTypes
<1>5. LetInv'
  BY <1>1, <1>2, PipelineEndsLet
<1>6. LocalInv'
  <2>1. \A x \in requests' : x \in requests \/ x.by # "local"
    BY <1>3
  <2> QED
    BY <1>1, <1>2, <1>3, <2>1, SameLocally
<1>7. PICK z \in requests' \ requests : TRUE
  BY <1>3
<1>8. /\ z.n = Cardinality(requests) /\ z.sent = sent[c] /\ z.done = ctime /\ z.ok = ok
      /\ z.by = "redis"
  BY <1>3
<1>9. BlameInv'
  BY <1>2, <1>8 DEF BlameInv, PipelineEnds
<1>10. RefusedInv'
  <2>1. /\ \A d \in counted' : Refusal(d)'
        /\ \A x \in requests : x.by = "redis" /\ ~x.ok => Counter!Blamed(x)'
        /\ got[c] > CounterLimit /\ z.done = ctime /\ ~z.ok => Counter!Blamed(z)'
    BY <1>1, <1>2, <1>3, <1>8, BlameStays DEF PipelineEnds
  <2>2. ASSUME NEW x \in requests', x \notin requests
        PROVE  x = z
    <3>1. \E n : requests' = requests \cup {n}
      BY <1>2 DEF Counter!Decided
    <3> QED
      BY <2>2, <3>1
  <2>3. ~z.ok => got[c] > CounterLimit
    <3>1. got[c] \in Nat
      BY <1>1, CounterConstants DEF CounterNumbers
    <3>2. ~z.ok => ~ok
      BY <1>8, Zenon
    <3> QED
      BY <3>1, <3>2, CounterConstants
  <2> QED
    BY <1>8, <2>1, <2>2, <2>3 DEF RefusedInv
<1> QED
  BY <1>4, <1>5, <1>6, <1>9, <1>10 DEF CounterInv

LEMMA CheckLocalRateLimitKeeps ==
  ASSUME CounterInv, NEW c \in Clients, Counter!CheckLocalRateLimit(c)
  PROVE  CounterInv'
<1> DEFINE ok == Counter!Accrued >= CounterWidth
           cut == c \in counted
           begun == IF cut THEN sent[c] ELSE ctime
<1>1. CounterNumbers /\ CounterTypes /\ LetInv /\ LocalInv /\ BlameInv /\ RefusedInv
  BY CounterNumbersHold DEF CounterInv
<1>2. /\ Counter!Broken(c) /\ Counter!Decided(begun, ok, "local", cut)
      /\ localAt' = ctime /\ UNCHANGED <<ctime, count, ended>>
      /\ local' = IF ok THEN Counter!Accrued - CounterWidth ELSE Counter!Accrued
  BY DEF Counter!CheckLocalRateLimit
<1>3. \/ /\ ~cut /\ Cardinality(requests) + Cardinality(counted) < MaxRequests
         /\ UNCHANGED <<counted, sent, got, let, renewed>>
      \/ cut /\ PipelineEnds(c)
  <2>1. CASE ~cut
    BY <1>2, <2>1, CounterConstants DEF Counter!Broken, Counter!MayAsk
  <2>2. CASE cut
    <3>1. /\ Counter!Over(c)
          /\ Counter!Expire \/ UNCHANGED renewed
          /\ let' = let \ {[at |-> sent[c], as |-> got[c], by |-> c]}
      BY <1>2, <2>2 DEF Counter!Broken
    <3>2. \A x \in let' : ~(x.by = c /\ Pending(x))
      <4>1. \A x \in let : x = [at |-> x.at, as |-> x.as, by |-> x.by]
        BY <1>1 DEF LetInv, LetTypes, Passage
      <4> QED
        BY <3>1, <4>1 DEF Pending
    <3>3. /\ c \in counted /\ counted' = counted \ {c}
          /\ sent' = [sent EXCEPT ![c] = 0] /\ got' = [got EXCEPT ![c] = 0]
          /\ let' \in SUBSET let /\ UNCHANGED <<ctime, count, ended>>
      BY <1>2, <2>2, <3>1 DEF Counter!Over
    <3>4. \/ renewed' = IF count > 0 THEN ctime + CounterWidth ELSE renewed
          \/ renewed' = renewed
      BY <3>1 DEF Counter!Expire
    <3> QED
      BY <2>2, <3>2, <3>3, <3>4, Zenon DEF PipelineEnds
  <2> QED
    BY <2>1, <2>2
<1>4. begun \in 0..ctime /\ ok \in BOOLEAN /\ cut \in BOOLEAN
  BY <1>1 DEF CounterNumbers
<1> HIDE DEF ok
<1>5. /\ requests' \subseteq CounterRecord /\ IsFiniteSet(requests)'
      /\ Cardinality(requests)' = Cardinality(requests) + 1
      /\ \A x \in requests' :
           x.n < Cardinality(requests)' /\ x.sent <= x.done /\ x.done <= ctime'
      /\ requests \subseteq requests'
      /\ \A x \in requests' \ requests :
           /\ x.n = Cardinality(requests) /\ x.sent = begun /\ x.done = ctime
           /\ x.ok = ok /\ x.by = "local" /\ x.cut = cut
      /\ \E x \in requests' \ requests : TRUE
  <2> HIDE DEF begun, cut
  <2> QED
    BY <1>1, <1>2, <1>4, OneMoreRequest
<1>6. PICK z \in requests' \ requests : TRUE
  BY <1>5
<1>7. /\ z.n = Cardinality(requests) /\ z.sent = begun /\ z.done = ctime /\ z.ok = ok
      /\ z.by = "local" /\ z.cut = cut
  BY <1>5
<1>8. requests' = requests \cup {z}
  <2>1. \E n : requests' = requests \cup {n}
    BY <1>2 DEF Counter!Decided
  <2> QED
    BY <1>6, <2>1
<1>9. LocalInv' /\ local' \in 0..Counter!Full
  BY <1>1, <1>2, <1>5, <1>7, <1>8, DecidedLocally DEF ok
<1>10. CounterTypes'
  <2>1. localAt' \in 0..ctime
    BY <1>1, <1>2 DEF CounterNumbers
  <2> HIDE DEF cut, begun
  <2> QED
    BY <1>1, <1>2, <1>3, <1>5, <1>9, <2>1, DecidedTypes
<1>11. LetInv'
  <2>1. CASE UNCHANGED <<counted, sent, got, let, renewed>>
    <3>1. UNCHANGED <<ctime, count, ended>>
      BY <1>2
    <3> QED
      BY <1>1, <2>1, <3>1
         DEF LetInv, LetTypes, NumberedInv, RenewedInv, CaughtInv, OverInv, Bounded, InWindow,
             Current, Caught, Pending, Counter!Never
  <2>2. CASE PipelineEnds(c)
    BY <1>1, <2>2, PipelineEndsLet
  <2> QED
    BY <1>3, <2>1, <2>2
<1>12. BlameInv'
  <2>1. CASE cut
    BY <1>7, <2>1 DEF BlameInv
  <2>2. CASE ~cut
    BY <1>1, <1>2, <1>3, <1>5, <2>2 DEF BlameInv
  <2> QED
    BY <2>1, <2>2
<1>13. RefusedInv'
  <2>1. /\ \A d \in counted' : Refusal(d)'
        /\ \A x \in requests : x.by = "redis" /\ ~x.ok => Counter!Blamed(x)'
    <3>1. CASE cut /\ PipelineEnds(c)
      <4>1. c \in counted /\ counted' = counted \ {c} /\ requests \subseteq requests'
            /\ sent' = [sent EXCEPT ![c] = 0] /\ got' = [got EXCEPT ![c] = 0]
            /\ z.sent = sent[c] /\ z.cut /\ z.n = Cardinality(requests)
        BY <1>5, <1>7, <3>1 DEF PipelineEnds
      <4> QED
        BY <1>1, <1>6, <4>1, BlameStays
    <3>2. CASE UNCHANGED <<counted, sent, got>>
      <4>1. \A d \in counted : Refusal(d)'
        BY <1>1, <1>5, <3>2 DEF RefusedInv, Refusal, Before
      <4>2. \A x \in requests : x.by = "redis" /\ ~x.ok => Counter!Blamed(x)'
        BY <1>1, <1>5, <3>2 DEF RefusedInv, Counter!Blamed
      <4> QED
        BY <3>2, <4>1, <4>2
    <3> QED
      BY <1>3, <3>1, <3>2
  <2>2. \A x \in requests' : x.by = "redis" => x \in requests
    BY <1>7, <1>8
  <2> QED
    BY <2>1, <2>2 DEF RefusedInv
<1> QED
  BY <1>9, <1>10, <1>11, <1>12, <1>13 DEF CounterInv

LEMMA CounterClockKeeps ==
  ASSUME CounterInv, Counter!Clock
  PROVE  CounterInv'
<1>1. CounterNumbers /\ CounterTypes /\ LetInv /\ LocalInv /\ BlameInv /\ RefusedInv
  BY CounterNumbersHold DEF CounterInv
<1>2. /\ ctime < CounterTime /\ ctime' = ctime + 1
      /\ IF ctime + 1 = renewed
         THEN count' = 0 /\ renewed' = Counter!Never /\ ended' = ctime + 1
         ELSE UNCHANGED <<count, renewed, ended>>
      /\ UNCHANGED <<counted, sent, got, local, localAt, requests>>
  BY DEF Counter!Clock, Counter!localVars
<1>3. CounterTypes'
  <2>1. /\ ctime' \in 0..CounterTime /\ ended' \in 0..ctime'
        /\ renewed' \in (ctime' + 1)..Counter!Never
        /\ count' \in 0..(Cardinality(requests) + Cardinality(counted))
    BY <1>1, <1>2, CounterConstants DEF CounterNumbers
  <2>2. sent \in [Clients -> 0..ctime'] /\ localAt \in 0..ctime'
        /\ \A x \in requests : x.done <= ctime'
    BY <1>1, <1>2 DEF CounterNumbers
  <2> QED
    BY <1>1, <1>2, <2>1, <2>2 DEF CounterTypes, Counter!Never, Counter!Full
<1>4. LetInv'
  BY <1>1, ClockLet
<1>5. LocalInv'
  BY <1>1, <1>2, SameLocally
<1>6. BlameInv'
  BY <1>1, <1>2 DEF BlameInv
<1>7. RefusedInv'
  <2>1. \A d \in counted : Refusal(d)'
    BY <1>1, <1>2 DEF RefusedInv, Refusal, Before
  <2>2. \A x \in requests : x.by = "redis" /\ ~x.ok => Counter!Blamed(x)'
    BY <1>1, <1>2 DEF RefusedInv, Counter!Blamed
  <2> QED
    BY <1>2, <2>1, <2>2 DEF RefusedInv
<1> QED
  BY <1>3, <1>4, <1>5, <1>6, <1>7 DEF CounterInv

LEMMA CounterInvariant == MCSpec => []CounterInv
<1>1. MCInit => CounterInv
  BY CounterInit DEF MCInit
<1>2. CounterInv /\ [BucketStep \/ LoginStep \/ LockStep \/ CounterStep \/ SlidingStep]_
                     <<part, vars, loginVars, lockVars, windowVars>>
        => CounterInv'
  <2> SUFFICES ASSUME CounterInv,
                      [BucketStep \/ LoginStep \/ LockStep \/ CounterStep \/ SlidingStep]_
                        <<part, vars, loginVars, lockVars, windowVars>>
               PROVE  CounterInv'
    OBVIOUS
  <2>1. CASE Counter!Next
    BY <2>1, IncrementKeeps, CheckRateLimitKeeps, CheckLocalRateLimitKeeps, CounterClockKeeps
    DEF Counter!Next, Counter!Middleware
  <2>2. CASE UNCHANGED counterVars
    <3>1. UNCHANGED <<ctime, count, renewed, counted, sent, got, local, localAt, ended, let,
                      requests>>
      BY <2>2 DEF counterVars
    <3>2. CounterTypes' /\ BlameInv' /\ LocalInv'
      BY <3>1, SameLocally
         DEF CounterInv, CounterTypes, BlameInv, Counter!Full, Counter!Never
    <3>3. RefusedInv'
      BY <3>1 DEF CounterInv, RefusedInv, Refusal, Before, Counter!Blamed
    <3>4. LetInv'
      BY <3>1 DEF CounterInv, LetInv, LetTypes, NumberedInv, RenewedInv, CaughtInv, OverInv,
                  Bounded, InWindow, Current, Caught, Pending, Counter!Never
    <3> QED
      BY <3>2, <3>3, <3>4 DEF CounterInv
  <2> QED
    BY <2>1, <2>2 DEF BucketStep, LoginStep, LockStep, CounterStep, SlidingStep, windowVars
<1> QED
  BY <1>1, <1>2, PTL DEF MCSpec

\* What the counter's invariant says of a window.
LEMMA WindowOfCounterHolds == CounterInv => Counter!WindowHolds
<1> SUFFICES ASSUME CounterInv  PROVE Counter!WindowHolds
  OBVIOUS
<1>0. CounterNumbers /\ CounterTypes /\ LetInv /\ LocalInv /\ RefusedInv
  BY CounterNumbersHold DEF CounterInv
<1>1. Counter!TypeOK
  <2>1. count \in 0..MaxRequests /\ renewed \in (ctime + 1)..Counter!Never
        /\ local \in 0..Counter!Full /\ localAt \in 0..ctime /\ ctime \in 0..CounterTime
    BY <1>0, CounterConstants DEF CounterNumbers
  <2>2. \A x \in requests : x.done <= ctime /\ x.by \in {"redis", "local"}
    BY <1>0 DEF CounterTypes, CounterRecord
  <2> QED
    BY <1>0, <2>1, <2>2 DEF CounterNumbers, Counter!TypeOK
<1>2. ASSUME NEW t \in 0..ctime
      PROVE  /\ Counter!PassedByCounter(t) <= CounterLimit + Counter!Cardinality(Clients)
             /\ Counter!PassedByCounter(t) < 2 * CounterLimit
  <2>1. Bounded(t)
    BY <1>0, PresentWindow DEF CounterNumbers, LetInv, OverInv
  <2>2. Counter!PassedByCounter(t) = Cardinality(InWindow(t))
    BY CounterConstants DEF Counter!PassedByCounter, InWindow
  <2> QED
    BY <2>1, <2>2, CounterConstants DEF Bounded
<1>3. ASSUME NEW t \in 0..ctime
      PROVE  Counter!PassedLocally(t) < 2 * CounterLimit
  <2> DEFINE n == Cardinality(LocallyPassed(t))
  <2>1. t \in Nat
    BY <1>3
  <2>2. Counter!PassedLocally(t) = n
    <3>1. {x \in requests : x.by = "local" /\ x.ok /\ t - CounterWidth < x.done
                            /\ x.done <= t} = LocallyPassed(t)
      BY <1>0, <2>1, CounterConstants DEF LocallyPassed, CounterNumbers
    <3> QED
      BY <3>1, CounterConstants DEF Counter!PassedLocally
  <2>4. n \in Nat
    BY <1>0, LocallyFinite
  <2>5. CASE LocallyPassed(t) = {}
    <3>1. n = 0
      BY <2>5, FS_EmptySet
    <3> QED
      BY <2>2, <3>1, CounterConstants
  <2>6. CASE LocallyPassed(t) # {}
    <3>1. IF localAt <= t
            THEN n * CounterWidth + local
                   <= Counter!Full + (localAt - (t - CounterWidth + 1)) * CounterLimit
            ELSE n * CounterWidth <= Counter!Full + (CounterWidth - 1) * CounterLimit
      BY <1>0, <2>1, <2>6 DEF LocalInv
    <3> HIDE DEF n
    <3>2. local \in Nat /\ localAt \in Nat
      BY <1>0 DEF CounterNumbers
    <3>3. localAt <= t =>
            (localAt - (t - CounterWidth + 1)) * CounterLimit
              <= (CounterWidth - 1) * CounterLimit
      BY <2>1, <3>2, CounterConstants
    <3>4. n * CounterWidth <= Counter!Full + (CounterWidth - 1) * CounterLimit
      BY <2>1, <2>4, <3>1, <3>2, <3>3, CounterConstants
    <3>5. Counter!Full + (CounterWidth - 1) * CounterLimit
            = (2 * CounterLimit) * CounterWidth - CounterLimit
      BY CounterConstants
    <3>6. n * CounterWidth < (2 * CounterLimit) * CounterWidth
      BY <2>4, <3>4, <3>5, CounterConstants
    <3>7. n < 2 * CounterLimit
      BY <2>4, <3>6, CounterConstants
    <3> QED
      BY <2>2, <3>7 DEF n
  <2> QED
    BY <2>5, <2>6
<1> QED
  BY <1>0, <1>1, <1>2, <1>3 DEF Counter!WindowHolds, RefusedInv

-----------------------------------------------------------------------------
(* The sorted set.  The expiry is a window after all that passed but what  *)
(* is still before EXPIRE, one for each goroutine (KeyInv); so that of the *)
(* present window the set misses no more than those and what shared a      *)
(* nanosecond (MissedInv).  What the set holds of the window, with what is *)
(* about to be added and was let pass, is bounded by what ZCARD said       *)
(* (HeldInv).  An earlier window may get what was under way (OldInv).      *)
Member == [at : Nat, id : Nat]
Call == [at : Nat, id : Nat, by : Askers]

Held == {x \in passed : x.at > stime - SlidingWidth /\ Sliding!InSet(x)}
Missed == {x \in passed : x.at > stime - SlidingWidth /\ ~Sliding!InSet(x)}
Admitted == {c \in Askers \ stale : askPc[c] = "counted" /\ counts[c] < SlidingLimit}
InCalls(t) == {x \in passed : x.at > t - SlidingWidth /\ x.at <= t}
Flying(t) == {c \in Sliding!Adding \ stale : askNow[c] > t - SlidingWidth /\ askNow[c] <= t}
Underway(x) == askPc[x.by] = "added" /\ askId[x.by] = x.id /\ askNow[x.by] = x.at

SlidingTypes ==
  /\ stime \in 0..SlidingTime
  /\ zset \subseteq Member /\ IsFiniteSet(zset) /\ \A e \in zset : e.at <= stime
  /\ expires \in (stime + 1)..Sliding!Never
  /\ askPc \in [Askers -> Sliding!Place] /\ askNow \in [Askers -> 0..stime]
  /\ counts \in [Askers -> 0..MaxCalls] /\ askId \in [Askers -> 0..MaxCalls]
  /\ adds \in Nat /\ collided \in Nat /\ collided <= adds /\ Cardinality(zset) <= adds
  /\ adds + Cardinality(Sliding!Adding) <= MaxCalls
  /\ stale \subseteq Askers
CallTypes == /\ passed \subseteq Call /\ IsFiniteSet(passed)
             /\ \A x \in passed : x.at <= stime /\ x.id < adds
             /\ \A x, y \in passed : x.id = y.id => x = y

KeyInv == /\ zset = {} => expires = Sliding!Never
          /\ \A x \in passed : x.at + SlidingWidth <= expires \/ Underway(x)
HeldInv == Cardinality(Held) + Cardinality(Admitted) < SlidingLimit + Cardinality(Askers)
MissedInv == Cardinality(Missed) <= Cardinality(Askers) + collided
OldInv == \A t \in Nat : t < stime =>
            Cardinality(InCalls(t)) + Cardinality(Flying(t))
              < SlidingLimit + 3 * Cardinality(Askers) + collided

SlidingInv == SlidingTypes /\ CallTypes /\ KeyInv /\ HeldInv /\ MissedInv /\ OldInv

LEMMA SlidingConstants ==
  /\ IsFiniteSet(Askers) /\ Cardinality(Askers) \in Nat \ {0}
  /\ SlidingLimit \in Nat /\ SlidingWidth \in Nat \ {0}
  /\ SlidingTime \in Nat /\ MaxCalls \in Nat
  /\ Sliding!Never = SlidingTime + SlidingWidth + 1
  /\ \A S : Sliding!Cardinality(S) = Cardinality(S)
<1>1. /\ \A S : Sliding!Cardinality(S) = Cardinality(S)
      /\ \A S : Sliding!IsFiniteSet(S) <=> IsFiniteSet(S)
  BY DEF Sliding!Cardinality, Cardinality, Sliding!IsFiniteSet, IsFiniteSet
<1>2. /\ IsFiniteSet(Askers) /\ Askers # {}
      /\ SlidingLimit \in Nat /\ SlidingWidth \in Nat \ {0}
      /\ SlidingTime \in Nat /\ MaxCalls \in Nat
  BY <1>1, WindowsAreAssumed DEF Sliding!SlidingAssumption
<1>3. Cardinality(Askers) \in Nat /\ Cardinality(Askers) # 0
  BY <1>2, FS_CardinalityType, FS_EmptySet
<1> QED
  BY <1>1, <1>2, <1>3 DEF Sliding!Never

\* Goroutines.
LEMMA AskersFinite ==
  ASSUME NEW S \in SUBSET Askers
  PROVE  IsFiniteSet(S) /\ Cardinality(S) \in Nat /\ Cardinality(S) <= Cardinality(Askers)
BY SlidingConstants, PartIsSmaller

LEMMA CallsFinite ==
  ASSUME CallTypes, NEW S \in SUBSET passed
  PROVE  IsFiniteSet(S) /\ Cardinality(S) \in Nat
BY PartIsSmaller DEF CallTypes

\* What loses an element.
LEMMA LosesOne ==
  ASSUME NEW F, IsFiniteSet(F), NEW c \in F, NEW G \in SUBSET F, c \notin G
  PROVE  /\ Cardinality(G) \in Nat /\ Cardinality(F) \in Nat
         /\ Cardinality(G) + 1 <= Cardinality(F)
<1>1. /\ G \in SUBSET (F \ {c}) /\ IsFiniteSet(F \ {c})
      /\ Cardinality(F \ {c}) = Cardinality(F) - 1
  BY FS_RemoveElement
<1>2. /\ Cardinality(G) \in Nat /\ Cardinality(F) \in Nat
      /\ Cardinality(G) <= Cardinality(F \ {c})
  BY <1>1, PartIsSmaller, FS_CardinalityType
<1> QED
  BY <1>1, <1>2

SlidingNumbers ==
  /\ stime \in Nat /\ stime <= SlidingTime /\ expires \in Nat /\ expires > stime
  /\ expires <= Sliding!Never /\ \A e \in zset : e.at \in Nat /\ e.at <= stime
  /\ \A c \in Askers : askNow[c] \in Nat /\ askNow[c] <= stime /\ counts[c] \in Nat
                       /\ askId[c] \in Nat
  /\ \A x \in passed : x.at \in Nat /\ x.at <= stime /\ x.id \in Nat /\ x.id < adds
                       /\ x.by \in Askers

LEMMA SlidingNumbersHold == SlidingTypes /\ CallTypes => SlidingNumbers
<1> SUFFICES ASSUME SlidingTypes, CallTypes  PROVE SlidingNumbers
  OBVIOUS
<1>1. stime \in Nat /\ stime <= SlidingTime /\ expires \in Nat /\ expires > stime
      /\ expires <= Sliding!Never
  BY SlidingConstants DEF SlidingTypes
<1>2. \A e \in zset : e.at \in Nat /\ e.at <= stime
  BY DEF SlidingTypes, Member
<1>3. \A c \in Askers : askNow[c] \in Nat /\ askNow[c] <= stime /\ counts[c] \in Nat
                        /\ askId[c] \in Nat
  BY <1>1, SlidingConstants DEF SlidingTypes
<1>4. \A x \in passed : x.at \in Nat /\ x.at <= stime /\ x.id \in Nat /\ x.id < adds
                        /\ x.by \in Askers
  BY DEF CallTypes, Call
<1> QED
  BY <1>1, <1>2, <1>3, <1>4 DEF SlidingNumbers

\* Calls only get fewer: nothing is let pass.
LEMMA NothingPasses ==
  ASSUME SlidingTypes, CallTypes, HeldInv, MissedInv, OldInv, stime' = stime,
         collided' = collided, passed' \in SUBSET passed,
         Admitted' \in SUBSET Admitted,
         \A c \in Sliding!Adding' \ stale' :
           \/ askNow'[c] = stime
           \/ c \in Sliding!Adding \ stale /\ askNow'[c] = askNow[c],
         \A x \in passed' : x.at > stime - SlidingWidth =>
                              (Sliding!InSet(x)' <=> Sliding!InSet(x))
  PROVE  HeldInv' /\ MissedInv' /\ OldInv'
<1>1. /\ Held \in SUBSET passed /\ Missed \in SUBSET passed /\ Admitted \in SUBSET Askers
      /\ \A t : InCalls(t) \in SUBSET passed /\ Flying(t) \in SUBSET Askers
  BY DEF Held, Missed, Admitted, InCalls, Flying, Sliding!Adding
<1>2. HeldInv'
  <2>1. Held' \in SUBSET Held
    BY DEF Held
  <2>2. /\ Cardinality(Held') <= Cardinality(Held) /\ Cardinality(Held') \in Nat
        /\ Cardinality(Held) \in Nat
        /\ Cardinality(Admitted') <= Cardinality(Admitted) /\ Cardinality(Admitted') \in Nat
        /\ Cardinality(Admitted) \in Nat
    BY <1>1, <2>1, CallsFinite, AskersFinite, PartIsSmaller
  <2> QED
    BY <2>2, SlidingConstants DEF HeldInv
<1>3. MissedInv'
  <2>1. Missed' \in SUBSET Missed
    BY DEF Missed
  <2>2. /\ Cardinality(Missed') <= Cardinality(Missed) /\ Cardinality(Missed') \in Nat
        /\ Cardinality(Missed) \in Nat
    BY <1>1, <2>1, CallsFinite, PartIsSmaller
  <2> QED
    BY <2>2, SlidingConstants DEF MissedInv, SlidingTypes
<1>4. OldInv'
  <2> SUFFICES ASSUME NEW t \in Nat, t < stime
               PROVE  Cardinality(InCalls(t)') + Cardinality(Flying(t)')
                        < SlidingLimit + 3 * Cardinality(Askers) + collided
    BY DEF OldInv
  <2>1. InCalls(t)' \in SUBSET InCalls(t) /\ Flying(t)' \in SUBSET Flying(t)
    BY DEF InCalls, Flying, SlidingTypes
  <2>2. /\ Cardinality(InCalls(t)') <= Cardinality(InCalls(t))
        /\ Cardinality(InCalls(t)') \in Nat /\ Cardinality(InCalls(t)) \in Nat
        /\ Cardinality(Flying(t)') <= Cardinality(Flying(t))
        /\ Cardinality(Flying(t)') \in Nat /\ Cardinality(Flying(t)) \in Nat
    BY <1>1, <2>1, CallsFinite, AskersFinite, PartIsSmaller
  <2>3. Cardinality(InCalls(t)) + Cardinality(Flying(t))
          < SlidingLimit + 3 * Cardinality(Askers) + collided
    BY DEF OldInv
  <2> QED
    BY <2>2, <2>3, SlidingConstants DEF SlidingTypes
<1> QED
  BY <1>2, <1>3, <1>4

LEMMA SlidingInit == Sliding!Init => SlidingInv
<1> SUFFICES ASSUME Sliding!Init  PROVE SlidingInv
  OBVIOUS
<1>1. Cardinality({}) = 0 /\ IsFiniteSet({})
  BY FS_EmptySet
<1>2. Sliding!Adding = {} /\ Held = {} /\ Missed = {} /\ Admitted = {}
  BY DEF Sliding!Init, Sliding!Adding, Held, Missed, Admitted
<1>3. SlidingTypes
  BY <1>1, <1>2, SlidingConstants DEF Sliding!Init, SlidingTypes, Sliding!Place
<1>4. CallTypes /\ KeyInv
  BY <1>1 DEF Sliding!Init, CallTypes, KeyInv
<1>5. HeldInv /\ MissedInv
  BY <1>1, <1>2, SlidingConstants DEF HeldInv, MissedInv, Sliding!Init
<1>6. OldInv
  BY DEF OldInv, Sliding!Init
<1> QED
  BY <1>3, <1>4, <1>5, <1>6 DEF SlidingInv

LEMMA AddingFinite ==
  /\ IsFiniteSet(Sliding!Adding) /\ Cardinality(Sliding!Adding) \in Nat
  /\ IsFiniteSet(Sliding!Adding') /\ Cardinality(Sliding!Adding') \in Nat
<1>1. Sliding!Adding \in SUBSET Askers /\ Sliding!Adding' \in SUBSET Askers
  BY DEF Sliding!Adding
<1> QED
  BY <1>1, AskersFinite

LEMMA ReadClockKeeps ==
  ASSUME SlidingInv, NEW c \in Askers, Sliding!ReadClock(c)
  PROVE  SlidingInv'
<1>1. /\ SlidingNumbers /\ SlidingTypes /\ CallTypes /\ KeyInv /\ HeldInv /\ MissedInv
      /\ OldInv
  BY SlidingNumbersHold DEF SlidingInv
<1>2. /\ adds + Cardinality(Sliding!Adding) < MaxCalls
      /\ askPc[c] = "idle" /\ askPc' = [askPc EXCEPT ![c] = "asked"]
      /\ askNow' = [askNow EXCEPT ![c] = stime]
      /\ UNCHANGED <<stime, zset, expires, adds, passed, collided, counts, askId, stale>>
  BY SlidingConstants DEF Sliding!ReadClock, Sliding!AskerTo, Sliding!redisVars
<1>3. Sliding!Adding' = Sliding!Adding \cup {c}
  BY <1>1, <1>2 DEF Sliding!Adding, SlidingTypes
<1>4. SlidingTypes'
  <2>1. Cardinality(Sliding!Adding') <= Cardinality(Sliding!Adding) + 1
    BY <1>3, AddingFinite, FS_AddElement
  <2>2. adds + Cardinality(Sliding!Adding') <= MaxCalls
    BY <1>1, <1>2, <2>1, AddingFinite, SlidingConstants DEF SlidingTypes
  <2>3. askPc' \in [Askers -> Sliding!Place] /\ askNow' \in [Askers -> 0..stime]
    BY <1>1, <1>2 DEF SlidingTypes, Sliding!Place
  <2> QED
    BY <1>1, <1>2, <2>2, <2>3 DEF SlidingTypes, Sliding!Never
<1>5. CallTypes'
  BY <1>1, <1>2 DEF CallTypes
<1>6. KeyInv'
  BY <1>1, <1>2 DEF KeyInv, SlidingNumbers, SlidingTypes, Underway, Sliding!Never
<1>7. HeldInv' /\ MissedInv' /\ OldInv'
  <2>1. Admitted' \in SUBSET Admitted
    BY <1>1, <1>2 DEF Admitted, SlidingTypes
  <2>2. \A d \in Sliding!Adding' \ stale' :
          \/ askNow'[d] = stime
          \/ d \in Sliding!Adding \ stale /\ askNow'[d] = askNow[d]
    BY <1>1, <1>2, <1>3 DEF SlidingTypes, Sliding!Adding
  <2>3. \A x : Sliding!InSet(x)' <=> Sliding!InSet(x)
    BY <1>2 DEF Sliding!InSet
  <2> QED
    BY <1>1, <1>2, <2>1, <2>2, <2>3, NothingPasses
<1> QED
  BY <1>4, <1>5, <1>6, <1>7 DEF SlidingInv

LEMMA TrimKeeps ==
  ASSUME SlidingInv, NEW c \in Askers, Sliding!Trim(c)
  PROVE  SlidingInv'
<1>1. /\ SlidingNumbers /\ SlidingTypes /\ CallTypes /\ KeyInv /\ HeldInv /\ MissedInv
      /\ OldInv
  BY SlidingNumbersHold DEF SlidingInv
<1>2. /\ askPc[c] = "asked" /\ askPc' = [askPc EXCEPT ![c] = "trimmed"]
      /\ zset' = {e \in zset : e.at > askNow[c] - SlidingWidth}
      /\ expires' = IF zset' = {} THEN Sliding!Never ELSE expires
      /\ UNCHANGED <<stime, adds, passed, collided, askNow, counts, askId, stale>>
  BY DEF Sliding!Trim, Sliding!AskerTo
<1>3. Sliding!Adding' = Sliding!Adding
  BY <1>1, <1>2 DEF Sliding!Adding, SlidingTypes
<1>4. zset' \in SUBSET zset /\ expires' \in {expires, Sliding!Never}
  BY <1>2
<1>5. SlidingTypes'
  <2>1. IsFiniteSet(zset') /\ Cardinality(zset') <= adds
    <3>1. /\ IsFiniteSet(zset') /\ Cardinality(zset') \in Nat /\ Cardinality(zset) \in Nat
          /\ Cardinality(zset') <= Cardinality(zset)
      BY <1>1, <1>4, PartIsSmaller DEF SlidingTypes
    <3> QED
      BY <1>1, <3>1 DEF SlidingTypes
  <2>2. expires' \in (stime + 1)..Sliding!Never
    BY <1>1, <1>4, SlidingConstants DEF SlidingNumbers
  <2>3. askPc' \in [Askers -> Sliding!Place]
    BY <1>1, <1>2 DEF SlidingTypes, Sliding!Place
  <2> QED
    BY <1>1, <1>2, <1>3, <1>4, <2>1, <2>2, <2>3 DEF SlidingTypes, Sliding!Never
<1>6. CallTypes'
  BY <1>1, <1>2 DEF CallTypes
<1>7. KeyInv'
  <2>1. \A x \in passed : x.at + SlidingWidth <= Sliding!Never
    BY <1>1, SlidingConstants DEF SlidingNumbers
  <2>2. \A x \in passed : x.at + SlidingWidth <= expires' \/ Underway(x)
    BY <1>1, <1>4, <2>1 DEF KeyInv
  <2>3. \A x \in passed : Underway(x) => Underway(x)'
    BY <1>1, <1>2 DEF Underway, SlidingNumbers, SlidingTypes
  <2> QED
    BY <1>2, <2>2, <2>3 DEF KeyInv, Sliding!Never
<1>8. HeldInv' /\ MissedInv' /\ OldInv'
  <2>1. Admitted' \in SUBSET Admitted
    BY <1>1, <1>2 DEF Admitted, SlidingTypes
  <2>2. \A d \in Sliding!Adding' \ stale' :
          \/ askNow'[d] = stime
          \/ d \in Sliding!Adding \ stale /\ askNow'[d] = askNow[d]
    BY <1>2, <1>3
  <2>3. ASSUME NEW x \in passed, x.at > stime - SlidingWidth
        PROVE  Sliding!InSet(x)' <=> Sliding!InSet(x)
    <3>1. x.at > askNow[c] - SlidingWidth
      BY <1>1, <2>3, SlidingConstants DEF SlidingNumbers
    <3> QED
      BY <1>2, <3>1 DEF Sliding!InSet
  <2> QED
    BY <1>1, <1>2, <2>1, <2>2, <2>3, NothingPasses
<1> QED
  BY <1>5, <1>6, <1>7, <1>8 DEF SlidingInv

\* ZCARD: who is let pass saw all that the set holds; the others may have been let pass
\* before.
LEMMA CountKeeps ==
  ASSUME SlidingInv, NEW c \in Askers, Sliding!Count(c)
  PROVE  SlidingInv'
<1>1. /\ SlidingNumbers /\ SlidingTypes /\ CallTypes /\ KeyInv /\ HeldInv /\ MissedInv
      /\ OldInv
  BY SlidingNumbersHold DEF SlidingInv
<1>2. /\ askPc[c] = "trimmed" /\ askPc' = [askPc EXCEPT ![c] = "counted"]
      /\ counts' = [counts EXCEPT ![c] = Cardinality(zset)]
      /\ UNCHANGED <<stime, zset, expires, adds, passed, collided, askNow, askId, stale>>
  BY SlidingConstants DEF Sliding!Count, Sliding!AskerTo, Sliding!redisVars
<1>3. Sliding!Adding' = Sliding!Adding
  BY <1>1, <1>2 DEF Sliding!Adding, SlidingTypes
<1>4. Cardinality(zset) \in Nat /\ adds <= MaxCalls
  BY <1>1, AddingFinite, FS_CardinalityType, SlidingConstants DEF SlidingTypes
<1>5. SlidingTypes'
  <2>1. Cardinality(zset) \in 0..MaxCalls
    BY <1>1, <1>4, SlidingConstants DEF SlidingTypes
  <2>2. askPc' \in [Askers -> Sliding!Place] /\ counts' \in [Askers -> 0..MaxCalls]
    BY <1>1, <1>2, <2>1 DEF SlidingTypes, Sliding!Place
  <2> QED
    BY <1>1, <1>2, <1>3, <2>2 DEF SlidingTypes, Sliding!Never
<1>6. CallTypes'
  BY <1>1, <1>2 DEF CallTypes
<1>7. KeyInv'
  BY <1>1, <1>2 DEF KeyInv, SlidingNumbers, SlidingTypes, Underway, Sliding!Never
<1>8. Held' = Held /\ Missed' = Missed
  BY <1>2 DEF Held, Missed, Sliding!InSet
<1>9. HeldInv'
  <2>1. CASE Cardinality(zset) < SlidingLimit
    <3> DEFINE f == [x \in Held |-> [at |-> x.at, id |-> x.id]]
    <3>1. \A x \in Held : f[x] \in zset
      BY DEF Held, Sliding!InSet
    <3>2. ASSUME NEW x \in Held, NEW y \in Held, f[x] = f[y]
          PROVE  x = y
      <4>1. x.id = y.id
        BY <3>2
      <4> QED
        BY <1>1, <4>1 DEF Held, CallTypes
    <3> HIDE DEF f
    <3>3. Cardinality(Held) \in Nat /\ Cardinality(Held) <= Cardinality(zset)
      BY <1>1, <3>1, <3>2, ToldApart DEF SlidingTypes
    <3>4. Cardinality(Admitted') \in Nat /\ Cardinality(Admitted') <= Cardinality(Askers)
      <4>1. Admitted' \in SUBSET Askers
        BY DEF Admitted
      <4> QED
        BY <4>1, AskersFinite
    <3> QED
      BY <1>4, <1>8, <2>1, <3>3, <3>4, SlidingConstants DEF HeldInv
  <2>2. CASE ~(Cardinality(zset) < SlidingLimit)
    <3>1. Admitted' = Admitted
      BY <1>1, <1>2, <2>2 DEF Admitted, SlidingTypes
    <3> QED
      BY <1>1, <1>8, <3>1 DEF HeldInv
  <2> QED
    BY <2>1, <2>2
<1>10. MissedInv'
  BY <1>1, <1>2, <1>8 DEF MissedInv
<1>11. OldInv'
  <2>1. \A t : InCalls(t)' = InCalls(t) /\ Flying(t)' = Flying(t)
    BY <1>2, <1>3 DEF InCalls, Flying
  <2> QED
    BY <1>1, <1>2, <2>1 DEF OldInv
<1> QED
  BY <1>5, <1>6, <1>7, <1>9, <1>10, <1>11 DEF SlidingInv

\* The pipeline is over.
LEMMA EndKeeps ==
  ASSUME SlidingInv, NEW c \in Askers, Sliding!Answer(c) \/ Sliding!ExecFails(c)
  PROVE  SlidingInv'
<1>1. /\ SlidingNumbers /\ SlidingTypes /\ CallTypes /\ KeyInv /\ HeldInv /\ MissedInv
      /\ OldInv
  BY SlidingNumbersHold DEF SlidingInv
<1>2. /\ askPc[c] # "idle" /\ askPc' = [askPc EXCEPT ![c] = "idle"]
      /\ askNow' = [askNow EXCEPT ![c] = 0] /\ counts' = [counts EXCEPT ![c] = 0]
      /\ askId' = [askId EXCEPT ![c] = 0] /\ stale' = stale \ {c}
      /\ passed' \in SUBSET passed
      /\ UNCHANGED <<stime, zset, adds, collided>>
  BY DEF Sliding!Answer, Sliding!ExecFails, Sliding!Ended
<1>3. \/ expires' = IF zset # {} THEN stime + SlidingWidth ELSE expires
      \/ expires' = expires /\ \A x \in passed' : ~(x.by = c /\ Underway(x))
  <2>1. CASE Sliding!Answer(c)
    BY <2>1 DEF Sliding!Answer, Sliding!Expire
  <2>2. CASE askPc[c] # "added" /\ expires' = expires
    BY <1>2, <2>2 DEF Underway
  <2>3. CASE Sliding!Expire
    BY <2>3 DEF Sliding!Expire
  <2>4. CASE /\ expires' = expires
             /\ passed' = passed \ {[at |-> askNow[c], id |-> askId[c], by |-> c]}
    <3>1. \A x \in passed : x = [at |-> x.at, id |-> x.id, by |-> x.by]
      BY <1>1 DEF CallTypes, Call
    <3> QED
      BY <2>4, <3>1 DEF Underway
  <2> QED
    BY <2>1, <2>2, <2>3, <2>4 DEF Sliding!ExecFails
<1>4. Sliding!Adding' = Sliding!Adding \ {c}
  BY <1>1, <1>2 DEF Sliding!Adding, SlidingTypes
<1>5. expires' \in (stime + 1)..Sliding!Never
  BY <1>1, <1>3, SlidingConstants DEF SlidingNumbers
<1>6. SlidingTypes'
  <2>1. Cardinality(Sliding!Adding') <= Cardinality(Sliding!Adding)
    BY <1>4, AddingFinite, PartIsSmaller
  <2>2. adds + Cardinality(Sliding!Adding') <= MaxCalls
    BY <1>1, <2>1, AddingFinite, SlidingConstants DEF SlidingTypes
  <2>3. /\ askPc' \in [Askers -> Sliding!Place] /\ askNow' \in [Askers -> 0..stime]
        /\ counts' \in [Askers -> 0..MaxCalls] /\ askId' \in [Askers -> 0..MaxCalls]
    <3>1. 0 \in 0..stime /\ 0 \in 0..MaxCalls
      BY <1>1, SlidingConstants DEF SlidingNumbers
    <3> QED
      BY <1>1, <1>2, <3>1 DEF SlidingTypes, Sliding!Place
  <2> QED
    BY <1>1, <1>2, <1>5, <2>2, <2>3 DEF SlidingTypes, Sliding!Never
<1>7. CallTypes'
  <2>1. IsFiniteSet(passed')
    BY <1>1, <1>2, FS_Subset DEF CallTypes
  <2> QED
    BY <1>1, <1>2, <2>1 DEF CallTypes
<1>8. KeyInv'
  <2>1. \/ \A x \in passed : x.at + SlidingWidth <= expires'
        \/ expires' = expires /\ \A x \in passed' : ~(x.by = c /\ Underway(x))
    BY <1>1, <1>3, SlidingConstants DEF KeyInv, SlidingNumbers
  <2>2. ASSUME NEW x \in passed'
        PROVE  x.at + SlidingWidth <= expires' \/ Underway(x)'
    <3>1. x.by \in Askers
      BY <1>1, <1>2 DEF SlidingNumbers
    <3>2. Underway(x) /\ x.by # c => Underway(x)'
      BY <1>1, <1>2, <3>1 DEF Underway, SlidingTypes
    <3> QED
      BY <1>1, <1>2, <2>1, <3>2 DEF KeyInv
  <2>3. zset' = {} => expires' = Sliding!Never
    BY <1>1, <1>2, <1>3 DEF KeyInv
  <2> QED
    BY <2>2, <2>3 DEF KeyInv, Sliding!Never
<1>9. HeldInv' /\ MissedInv' /\ OldInv'
  <2>1. Admitted' \in SUBSET Admitted
    BY <1>1, <1>2 DEF Admitted, SlidingTypes
  <2>2. \A d \in Sliding!Adding' \ stale' :
          \/ askNow'[d] = stime
          \/ d \in Sliding!Adding \ stale /\ askNow'[d] = askNow[d]
    BY <1>1, <1>2, <1>4 DEF SlidingTypes, Sliding!Adding
  <2>3. \A x : Sliding!InSet(x)' <=> Sliding!InSet(x)
    BY <1>2 DEF Sliding!InSet
  <2> QED
    BY <1>1, <1>2, <2>1, <2>2, <2>3, NothingPasses
<1> QED
  BY <1>6, <1>7, <1>8, <1>9 DEF SlidingInv

\* ZADD: a call that was let pass moves from those under way to those that passed.
LEMMA AddKeeps ==
  ASSUME SlidingInv, NEW c \in Askers, Sliding!Add(c)
  PROVE  SlidingInv'
<1> DEFINE new == [at |-> askNow[c], id |-> adds, by |-> c]
           entry == [at |-> askNow[c], id |-> adds]
           lets == counts[c] < SlidingLimit /\ c \notin stale
<1>1. /\ SlidingNumbers /\ SlidingTypes /\ CallTypes /\ KeyInv /\ HeldInv /\ MissedInv
      /\ OldInv
  BY SlidingNumbersHold DEF SlidingInv
<1>2. /\ askPc[c] = "counted" /\ askPc' = [askPc EXCEPT ![c] = "added"]
      /\ \/ zset' = zset \cup {entry} /\ collided' = collided
         \/ zset' = zset /\ zset # {} /\ collided' = collided + 1
      /\ passed' = IF lets THEN passed \cup {new} ELSE passed
      /\ askId' = [askId EXCEPT ![c] = adds] /\ adds' = adds + 1
      /\ UNCHANGED <<stime, expires, askNow, counts, stale>>
  BY DEF Sliding!Add, Sliding!AskerTo, Sliding!Allowed
<1>3. /\ new.at = askNow[c] /\ new.id = adds /\ new.by = c /\ new \in Call
      /\ entry.at = askNow[c] /\ entry.id = adds /\ entry \in Member
  BY <1>1 DEF Call, Member, SlidingNumbers, SlidingTypes
<1>4. entry = [at |-> new.at, id |-> new.id]
  OBVIOUS
<1> HIDE DEF new, entry, lets
<1>5. Sliding!Adding' = Sliding!Adding \ {c} /\ c \in Sliding!Adding
  BY <1>1, <1>2 DEF Sliding!Adding, SlidingTypes
<1>6. /\ Cardinality(Sliding!Adding') = Cardinality(Sliding!Adding) - 1
      /\ adds + 1 <= MaxCalls
  BY <1>1, <1>5, AddingFinite, FS_RemoveElement, SlidingConstants DEF SlidingTypes
<1>7. SlidingTypes'
  <2>1. /\ IsFiniteSet(zset') /\ Cardinality(zset') <= adds + 1
        /\ zset' \subseteq Member /\ \A e \in zset' : e.at <= stime
        /\ collided' \in Nat /\ collided' <= adds + 1
    <3>1. IsFiniteSet(zset') /\ Cardinality(zset') <= Cardinality(zset) + 1
          /\ Cardinality(zset) \in Nat /\ Cardinality(zset') \in Nat
      <4>1. zset' \in SUBSET (zset \cup {entry})
        BY <1>2
      <4> QED
        BY <1>1, <4>1, GainsOne, FS_CardinalityType DEF SlidingTypes
    <3> QED
      BY <1>1, <1>2, <1>3, <3>1 DEF SlidingTypes, SlidingNumbers
  <2>2. /\ askPc' \in [Askers -> Sliding!Place] /\ askId' \in [Askers -> 0..MaxCalls]
    <3>1. adds \in 0..MaxCalls
      BY <1>1, <1>6, SlidingConstants DEF SlidingTypes
    <3> QED
      BY <1>1, <1>2, <3>1 DEF SlidingTypes, Sliding!Place
  <2>3. adds' + Cardinality(Sliding!Adding') <= MaxCalls
    BY <1>1, <1>2, <1>6, AddingFinite, SlidingConstants DEF SlidingTypes
  <2> QED
    BY <1>1, <1>2, <2>1, <2>2, <2>3 DEF SlidingTypes, Sliding!Never
<1>8. \A x \in passed' : x \in passed \/ (x = new /\ lets)
  BY <1>2
<1>9. CallTypes'
  <2>1. IsFiniteSet(passed')
    BY <1>1, <1>2, FS_AddElement DEF CallTypes
  <2>2. \A x \in passed' : x \in Call /\ x.at <= stime /\ x.id < adds'
    BY <1>1, <1>2, <1>3, <1>8 DEF CallTypes, SlidingNumbers, SlidingTypes
  <2>3. \A x, y \in passed' : x.id = y.id => x = y
    BY <1>1, <1>3, <1>8 DEF CallTypes, SlidingNumbers, SlidingTypes
  <2> QED
    BY <1>2, <2>1, <2>2, <2>3 DEF CallTypes
<1>10. KeyInv'
  <2>1. ASSUME NEW x \in passed'
        PROVE  x.at + SlidingWidth <= expires' \/ Underway(x)'
    <3>1. CASE x \in passed
      <4>1. Underway(x) => Underway(x)'
        BY <1>1, <1>2, <3>1 DEF Underway, SlidingNumbers, SlidingTypes
      <4> QED
        BY <1>1, <1>2, <3>1, <4>1 DEF KeyInv
    <3>2. CASE x = new
      BY <1>1, <1>2, <1>3, <3>2 DEF Underway, SlidingTypes
    <3> QED
      BY <1>8, <3>1, <3>2
  <2>2. zset' = {} => expires' = Sliding!Never
    BY <1>1, <1>2 DEF KeyInv
  <2> QED
    BY <2>1, <2>2 DEF KeyInv, Sliding!Never
<1>11. \A x \in passed : Sliding!InSet(x)' <=> Sliding!InSet(x)
  <2>1. \A x \in passed : [at |-> x.at, id |-> x.id] # entry
    <3>1. \A x \in passed : x.id # adds
      BY <1>1 DEF SlidingNumbers, SlidingTypes
    <3> QED
      BY <1>3, <3>1
  <2> QED
    BY <1>2, <2>1 DEF Sliding!InSet
<1>12. /\ IsFiniteSet(Held) /\ IsFiniteSet(Missed) /\ IsFiniteSet(Admitted)
       /\ \A t : IsFiniteSet(InCalls(t)) /\ IsFiniteSet(Flying(t))
  <2>1. /\ Held \in SUBSET passed /\ Missed \in SUBSET passed /\ Admitted \in SUBSET Askers
        /\ \A t : InCalls(t) \in SUBSET passed /\ Flying(t) \in SUBSET Askers
    BY DEF Held, Missed, Admitted, InCalls, Flying, Sliding!Adding
  <2> QED
    BY <1>1, <2>1, CallsFinite, AskersFinite
<1>13. HeldInv'
  <2>1. Held' \in SUBSET (Held \cup {new}) /\ (~lets => Held' \in SUBSET Held)
    BY <1>2, <1>8, <1>11 DEF Held
  <2>2. /\ Admitted' \in SUBSET Admitted
        /\ lets => c \in Admitted /\ c \notin Admitted'
    BY <1>1, <1>2 DEF Admitted, SlidingTypes, lets
  <2>3. /\ Cardinality(Held') + Cardinality(Admitted') <= Cardinality(Held)
                                                             + Cardinality(Admitted)
        /\ Cardinality(Held') \in Nat /\ Cardinality(Admitted') \in Nat
        /\ Cardinality(Held) \in Nat /\ Cardinality(Admitted) \in Nat
    <3>1. CASE lets
      <4>1. /\ Cardinality(Held') \in Nat /\ Cardinality(Held) \in Nat
            /\ Cardinality(Held') <= Cardinality(Held) + 1
        BY <1>12, <2>1, GainsOne, FS_CardinalityType
      <4>2. /\ Cardinality(Admitted') \in Nat /\ Cardinality(Admitted) \in Nat
            /\ Cardinality(Admitted') + 1 <= Cardinality(Admitted)
        BY <1>12, <2>2, <3>1, LosesOne
      <4> QED
        BY <4>1, <4>2
    <3>2. CASE ~lets
      <4>1. /\ Cardinality(Held') \in Nat /\ Cardinality(Held) \in Nat
            /\ Cardinality(Held') <= Cardinality(Held)
        BY <1>12, <2>1, <3>2, PartIsSmaller
      <4>2. /\ Cardinality(Admitted') \in Nat /\ Cardinality(Admitted) \in Nat
            /\ Cardinality(Admitted') <= Cardinality(Admitted)
        BY <1>12, <2>2, PartIsSmaller
      <4> QED
        BY <4>1, <4>2
    <3> QED
      BY <3>1, <3>2
  <2> QED
    BY <1>1, <2>3, SlidingConstants DEF HeldInv
<1>14. MissedInv'
  <2>1. CASE collided' = collided /\ zset' = zset \cup {entry}
    <3>1. [at |-> new.at, id |-> new.id] \in zset'
      BY <1>4, <2>1
    <3>2. Missed' \in SUBSET Missed
      <4> SUFFICES ASSUME NEW x \in passed', x.at > stime' - SlidingWidth,
                          [at |-> x.at, id |-> x.id] \notin zset'
                   PROVE  x \in Missed
        BY DEF Missed, Sliding!InSet
      <4>1. x # new
        BY <3>1
      <4>2. x \in passed /\ ~Sliding!InSet(x)'
        BY <1>8, <4>1 DEF Sliding!InSet
      <4> QED
        BY <1>2, <1>11, <4>2 DEF Missed
    <3>3. /\ Cardinality(Missed') \in Nat /\ Cardinality(Missed) \in Nat
          /\ Cardinality(Missed') <= Cardinality(Missed)
      BY <1>12, <3>2, PartIsSmaller
    <3> QED
      BY <1>1, <2>1, <3>3, SlidingConstants DEF MissedInv, SlidingTypes
  <2>2. CASE collided' = collided + 1
    <3>1. Missed' \in SUBSET (Missed \cup {new})
      BY <1>2, <1>8, <1>11 DEF Missed
    <3>2. /\ Cardinality(Missed') \in Nat /\ Cardinality(Missed) \in Nat
          /\ Cardinality(Missed') <= Cardinality(Missed) + 1
      BY <1>12, <3>1, GainsOne, FS_CardinalityType
    <3> QED
      BY <1>1, <2>2, <3>2, SlidingConstants DEF MissedInv, SlidingTypes
  <2> QED
    BY <1>2, <2>1, <2>2
<1>15. OldInv'
  <2> SUFFICES ASSUME NEW t \in Nat, t < stime
               PROVE  Cardinality(InCalls(t)') + Cardinality(Flying(t)')
                        < SlidingLimit + 3 * Cardinality(Askers) + collided'
    BY <1>2 DEF OldInv
  <2>1. /\ InCalls(t)' \in SUBSET (InCalls(t) \cup {new})
        /\ Flying(t)' \in SUBSET Flying(t) /\ c \notin Flying(t)'
    BY <1>2, <1>5, <1>8 DEF InCalls, Flying
  <2>2. InCalls(t)' \in SUBSET InCalls(t) \/ c \in Flying(t)
    BY <1>2, <1>3, <1>5, <1>8 DEF InCalls, Flying, lets
  <2>3. /\ Cardinality(InCalls(t)') + Cardinality(Flying(t)')
             <= Cardinality(InCalls(t)) + Cardinality(Flying(t))
        /\ Cardinality(InCalls(t)') \in Nat /\ Cardinality(Flying(t)') \in Nat
        /\ Cardinality(InCalls(t)) \in Nat /\ Cardinality(Flying(t)) \in Nat
    <3>1. IsFiniteSet(InCalls(t)) /\ IsFiniteSet(Flying(t))
      BY <1>12
    <3>2. CASE c \in Flying(t)
      <4>1. /\ Cardinality(InCalls(t)') \in Nat /\ Cardinality(InCalls(t)) \in Nat
            /\ Cardinality(InCalls(t)') <= Cardinality(InCalls(t)) + 1
        BY <2>1, <3>1, GainsOne, FS_CardinalityType
      <4>2. /\ Cardinality(Flying(t)') \in Nat /\ Cardinality(Flying(t)) \in Nat
            /\ Cardinality(Flying(t)') + 1 <= Cardinality(Flying(t))
        BY <2>1, <3>1, <3>2, LosesOne
      <4> QED
        BY <4>1, <4>2
    <3>3. CASE InCalls(t)' \in SUBSET InCalls(t)
      <4>1. /\ Cardinality(InCalls(t)') \in Nat /\ Cardinality(InCalls(t)) \in Nat
            /\ Cardinality(InCalls(t)') <= Cardinality(InCalls(t))
        BY <3>1, <3>3, PartIsSmaller
      <4>2. /\ Cardinality(Flying(t)') \in Nat /\ Cardinality(Flying(t)) \in Nat
            /\ Cardinality(Flying(t)') <= Cardinality(Flying(t))
        BY <2>1, <3>1, PartIsSmaller
      <4> QED
        BY <4>1, <4>2
    <3> QED
      BY <2>2, <3>2, <3>3
  <2>4. Cardinality(InCalls(t)) + Cardinality(Flying(t))
          < SlidingLimit + 3 * Cardinality(Askers) + collided
    BY <1>1 DEF OldInv
  <2>5. collided \in Nat /\ collided' \in Nat /\ collided <= collided'
    BY <1>1, <1>2 DEF SlidingTypes
  <2> QED
    BY <2>3, <2>4, <2>5, SlidingConstants
<1> QED
  BY <1>7, <1>9, <1>10, <1>13, <1>14, <1>15 DEF SlidingInv

LEMMA ResetKeeps ==
  ASSUME SlidingInv, Sliding!Reset
  PROVE  SlidingInv'
<1>1. /\ SlidingNumbers /\ SlidingTypes /\ CallTypes
  BY SlidingNumbersHold DEF SlidingInv
<1>2. /\ zset' = {} /\ expires' = Sliding!Never /\ passed' = {}
      /\ stale' = {c \in Askers : askPc[c] # "idle"}
      /\ UNCHANGED <<stime, askPc, askNow, counts, askId, adds, collided>>
  BY DEF Sliding!Reset
<1>3. Cardinality({}) = 0 /\ IsFiniteSet({})
  BY FS_EmptySet
<1>4. Sliding!Adding' = Sliding!Adding
  BY <1>2 DEF Sliding!Adding
<1>5. SlidingTypes'
  <2>1. expires' \in (stime + 1)..Sliding!Never /\ Cardinality(zset') <= adds
    BY <1>1, <1>2, <1>3, SlidingConstants DEF SlidingNumbers, SlidingTypes
  <2> QED
    BY <1>1, <1>2, <1>3, <1>4, <2>1 DEF SlidingTypes, Sliding!Never
<1>6. CallTypes' /\ KeyInv'
  BY <1>2, <1>3 DEF CallTypes, KeyInv, Sliding!Never
<1>7. /\ Held' = {} /\ Missed' = {} /\ Admitted' = {}
      /\ \A t : InCalls(t)' = {} /\ Flying(t)' = {}
  BY <1>2 DEF Held, Missed, Admitted, InCalls, Flying, Sliding!Adding
<1>8. HeldInv' /\ MissedInv'
  <2>1. Cardinality(Held') = 0 /\ Cardinality(Missed') = 0 /\ Cardinality(Admitted') = 0
    BY <1>3, <1>7
  <2>2. collided' \in Nat
    BY <1>1, <1>2 DEF SlidingTypes
  <2> QED
    BY <2>1, <2>2, SlidingConstants DEF HeldInv, MissedInv
<1>9. OldInv'
  <2>1. ASSUME NEW t \in Nat
        PROVE  Cardinality(InCalls(t)') + Cardinality(Flying(t)')
                 < SlidingLimit + 3 * Cardinality(Askers) + collided'
    <3>1. Cardinality(InCalls(t)') = 0 /\ Cardinality(Flying(t)') = 0
      BY <1>3, <1>7
    <3>2. collided' \in Nat
      BY <1>1, <1>2 DEF SlidingTypes
    <3> QED
      BY <3>1, <3>2, SlidingConstants
  <2> QED
    BY <2>1 DEF OldInv
<1> QED
  BY <1>5, <1>6, <1>8, <1>9 DEF SlidingInv

\* The window that ends now.
LEMMA PresentCalls ==
  ASSUME SlidingTypes, CallTypes, HeldInv, MissedInv
  PROVE  /\ Cardinality(InCalls(stime)) \in Nat
         /\ Cardinality(InCalls(stime))
              < SlidingLimit + 2 * Cardinality(Askers) + collided
<1>1. SlidingNumbers
  BY SlidingNumbersHold
<1>2. InCalls(stime) = Held \cup Missed /\ Held \cap Missed = {}
  BY <1>1 DEF InCalls, Held, Missed, SlidingNumbers
<1>3. /\ IsFiniteSet(Held) /\ Cardinality(Held) \in Nat
      /\ IsFiniteSet(Missed) /\ Cardinality(Missed) \in Nat
      /\ Cardinality(Admitted) \in Nat
  <2>1. Held \in SUBSET passed /\ Missed \in SUBSET passed /\ Admitted \in SUBSET Askers
    BY DEF Held, Missed, Admitted
  <2> QED
    BY <2>1, CallsFinite, AskersFinite
<1>4. Cardinality(InCalls(stime)) = Cardinality(Held) + Cardinality(Missed)
  <2>1. Cardinality(Held \cap Missed) = 0
    BY <1>2, FS_EmptySet
  <2>2. Cardinality(Held \cup Missed)
          = Cardinality(Held) + Cardinality(Missed) - Cardinality(Held \cap Missed)
    BY <1>3, FS_Union
  <2> QED
    BY <1>2, <1>3, <2>1, <2>2
<1> QED
  BY <1>3, <1>4, SlidingConstants DEF HeldInv, MissedInv, SlidingTypes

\* Time passes: when the key expires, the set misses of the window what is before EXPIRE.
LEMMA SlidingClockKeeps ==
  ASSUME SlidingInv, Sliding!Clock
  PROVE  SlidingInv'
<1>1. /\ SlidingNumbers /\ SlidingTypes /\ CallTypes /\ KeyInv /\ HeldInv /\ MissedInv
      /\ OldInv
  BY SlidingNumbersHold DEF SlidingInv
<1>2. /\ stime < SlidingTime /\ stime' = stime + 1
      /\ IF stime + 1 = expires THEN zset' = {} /\ expires' = Sliding!Never
                                ELSE zset' = zset /\ expires' = expires
      /\ UNCHANGED <<askPc, askNow, counts, askId, adds, stale, passed, collided>>
  BY DEF Sliding!Clock
<1>3. Cardinality({}) = 0 /\ IsFiniteSet({})
  BY FS_EmptySet
<1>4. /\ Sliding!Adding' = Sliding!Adding /\ Admitted' = Admitted
      /\ \A t : InCalls(t)' = InCalls(t) /\ Flying(t)' = Flying(t)
  BY <1>2 DEF Sliding!Adding, Admitted, InCalls, Flying
<1>5. SlidingTypes'
  <2>1. stime' \in 0..SlidingTime /\ expires' \in (stime' + 1)..Sliding!Never
    BY <1>1, <1>2, SlidingConstants DEF SlidingNumbers
  <2>2. /\ zset' \subseteq Member /\ IsFiniteSet(zset') /\ Cardinality(zset') <= adds
        /\ \A e \in zset' : e.at <= stime'
    <3>1. zset' = {} \/ zset' = zset
      BY <1>2
    <3>2. CASE zset' = {}
      BY <1>1, <1>3, <3>2 DEF SlidingTypes
    <3>3. CASE zset' = zset
      <4>1. \A e \in zset : e.at <= stime'
        BY <1>1, <1>2 DEF SlidingNumbers
      <4> QED
        BY <1>1, <3>3, <4>1 DEF SlidingTypes
    <3> QED
      BY <3>1, <3>2, <3>3
  <2>3. askNow' \in [Askers -> 0..stime']
    BY <1>1, <1>2 DEF SlidingTypes, SlidingNumbers
  <2> QED
    BY <1>1, <1>2, <1>4, <2>1, <2>2, <2>3 DEF SlidingTypes, Sliding!Never
<1>6. CallTypes'
  BY <1>1, <1>2 DEF CallTypes, SlidingNumbers
<1>7. KeyInv'
  <2>1. \A x \in passed : x.at + SlidingWidth <= Sliding!Never
    BY <1>1, SlidingConstants DEF SlidingNumbers
  <2>2. \A x \in passed : Underway(x)' <=> Underway(x)
    BY <1>2 DEF Underway
  <2> QED
    BY <1>1, <1>2, <2>1, <2>2 DEF KeyInv, Sliding!Never
<1>8. /\ Held \in SUBSET passed /\ Missed \in SUBSET passed /\ Admitted \in SUBSET Askers
      /\ \A t : InCalls(t) \in SUBSET passed /\ Flying(t) \in SUBSET Askers
  BY DEF Held, Missed, Admitted, InCalls, Flying, Sliding!Adding
<1>9. HeldInv'
  <2>1. Held' \in SUBSET Held
    <3>1. zset' \in SUBSET zset
      BY <1>2
    <3>2. \A x \in passed : x.at > stime' - SlidingWidth => x.at > stime - SlidingWidth
      BY <1>1, <1>2, SlidingConstants DEF SlidingNumbers
    <3> QED
      BY <1>2, <3>1, <3>2 DEF Held, Sliding!InSet
  <2>2. /\ Cardinality(Held') <= Cardinality(Held) /\ Cardinality(Held') \in Nat
        /\ Cardinality(Held) \in Nat /\ Cardinality(Admitted) \in Nat
    BY <1>1, <1>8, <2>1, CallsFinite, AskersFinite, PartIsSmaller
  <2> QED
    BY <1>1, <1>4, <2>2, SlidingConstants DEF HeldInv
<1>10. MissedInv'
  <2>1. CASE stime + 1 # expires
    <3>1. Missed' \in SUBSET Missed
      <4>1. \A x \in passed : x.at > stime' - SlidingWidth => x.at > stime - SlidingWidth
        BY <1>1, <1>2, SlidingConstants DEF SlidingNumbers
      <4> QED
        BY <1>2, <2>1, <4>1 DEF Missed, Sliding!InSet
    <3>2. /\ Cardinality(Missed') <= Cardinality(Missed) /\ Cardinality(Missed') \in Nat
          /\ Cardinality(Missed) \in Nat
      BY <1>1, <1>8, <3>1, CallsFinite, PartIsSmaller
    <3> QED
      BY <1>1, <1>2, <3>2, SlidingConstants DEF MissedInv, SlidingTypes
  <2>2. CASE stime + 1 = expires
    <3> DEFINE f == [x \in Missed' |-> x.by]
    <3>1. \A x \in Missed' : x \in passed /\ Underway(x) /\ x.by \in Askers
      BY <1>1, <1>2, <2>2, SlidingConstants DEF Missed, KeyInv, SlidingNumbers
    <3>2. \A x \in Missed' : f[x] \in Askers
      BY <3>1
    <3>3. ASSUME NEW x \in Missed', NEW y \in Missed', f[x] = f[y]
          PROVE  x = y
      <4>1. x.id = y.id
        BY <3>1, <3>3 DEF Underway
      <4> QED
        BY <1>1, <3>1, <4>1 DEF CallTypes
    <3> HIDE DEF f
    <3>4. Cardinality(Missed') \in Nat /\ Cardinality(Missed') <= Cardinality(Askers)
      BY <3>2, <3>3, ToldApart, SlidingConstants
    <3> QED
      BY <1>1, <1>2, <3>4, SlidingConstants DEF MissedInv, SlidingTypes
  <2> QED
    BY <2>1, <2>2
<1>11. OldInv'
  <2>1. ASSUME NEW t \in Nat, t < stime + 1
        PROVE  Cardinality(InCalls(t)) + Cardinality(Flying(t))
                 < SlidingLimit + 3 * Cardinality(Askers) + collided
    <3>1. CASE t < stime
      BY <1>1, <3>1 DEF OldInv
    <3>2. CASE t = stime
      <4>1. /\ Cardinality(InCalls(t)) \in Nat
            /\ Cardinality(InCalls(t)) < SlidingLimit + 2 * Cardinality(Askers) + collided
        BY <1>1, <3>2, PresentCalls
      <4>2. Cardinality(Flying(t)) \in Nat /\ Cardinality(Flying(t)) <= Cardinality(Askers)
        BY <1>8, AskersFinite
      <4> QED
        BY <1>1, <4>1, <4>2, SlidingConstants DEF SlidingTypes
    <3> QED
      BY <1>1, <2>1, <3>1, <3>2 DEF SlidingNumbers
  <2> QED
    BY <1>2, <1>4, <2>1 DEF OldInv
<1> QED
  BY <1>5, <1>6, <1>7, <1>9, <1>10, <1>11 DEF SlidingInv

LEMMA SlidingInvariant == MCSpec => []SlidingInv
<1>1. MCInit => SlidingInv
  BY SlidingInit DEF MCInit
<1>2. SlidingInv /\ [BucketStep \/ LoginStep \/ LockStep \/ CounterStep \/ SlidingStep]_
                     <<part, vars, loginVars, lockVars, windowVars>>
        => SlidingInv'
  <2> SUFFICES ASSUME SlidingInv,
                      [BucketStep \/ LoginStep \/ LockStep \/ CounterStep \/ SlidingStep]_
                        <<part, vars, loginVars, lockVars, windowVars>>
               PROVE  SlidingInv'
    OBVIOUS
  <2>1. CASE Sliding!Next
    BY <2>1, SlidingClockKeeps, ResetKeeps, ReadClockKeeps, TrimKeeps, CountKeeps, AddKeeps,
       EndKeeps
    DEF Sliding!Next, Sliding!Allow
  <2>2. CASE UNCHANGED slidingVars
    <3>1. UNCHANGED <<stime, zset, expires, askPc, askNow, counts, askId, adds, stale,
                      passed, collided>>
      BY <2>2 DEF slidingVars
    <3>2. /\ Sliding!Adding' = Sliding!Adding /\ Admitted' = Admitted
          /\ Held' = Held /\ Missed' = Missed
          /\ \A t : InCalls(t)' = InCalls(t) /\ Flying(t)' = Flying(t)
          /\ \A x : Underway(x)' <=> Underway(x)
      BY <3>1 DEF Sliding!Adding, Admitted, Held, Missed, InCalls, Flying, Underway,
                  Sliding!InSet
    <3>3. SlidingTypes' /\ CallTypes' /\ KeyInv'
      BY <3>1, <3>2 DEF SlidingInv, SlidingTypes, CallTypes, KeyInv, Sliding!Never
    <3>4. HeldInv' /\ MissedInv' /\ OldInv'
      BY <3>1, <3>2 DEF SlidingInv, HeldInv, MissedInv, OldInv
    <3> QED
      BY <3>3, <3>4 DEF SlidingInv
  <2> QED
    BY <2>1, <2>2 DEF BucketStep, LoginStep, LockStep, CounterStep, SlidingStep, windowVars
<1> QED
  BY <1>1, <1>2, PTL DEF MCSpec

LEMMA WindowOfCallsHolds == SlidingInv => Sliding!SlidingBound
<1> SUFFICES ASSUME SlidingInv  PROVE Sliding!SlidingBound
  OBVIOUS
<1>0. SlidingNumbers /\ SlidingTypes /\ CallTypes /\ HeldInv /\ MissedInv /\ OldInv
  BY SlidingNumbersHold DEF SlidingInv
<1>1. Sliding!TypeOK
  <2>1. adds \in 0..MaxCalls /\ collided \in 0..MaxCalls
    BY <1>0, AddingFinite, SlidingConstants DEF SlidingTypes
  <2> QED
    BY <1>0, <2>1 DEF SlidingTypes, Sliding!TypeOK
<1>2. ASSUME NEW t \in 0..stime
      PROVE  Sliding!Passed(t) = InCalls(t)
  BY <1>0, SlidingConstants DEF Sliding!Passed, InCalls, SlidingNumbers
<1>3. stime \in 0..stime /\ stime \in Nat
  BY <1>0 DEF SlidingNumbers
<1>4. /\ {x \in Sliding!Passed(stime) : Sliding!InSet(x)} = Held
      /\ {x \in Sliding!Passed(stime) : ~Sliding!InSet(x)} = Missed
  BY <1>0, <1>2, <1>3 DEF InCalls, Held, Missed, SlidingNumbers
<1>5. /\ Held \in SUBSET passed /\ Missed \in SUBSET passed /\ Admitted \in SUBSET Askers
      /\ \A t : InCalls(t) \in SUBSET passed /\ Flying(t) \in SUBSET Askers
  BY DEF Held, Missed, Admitted, InCalls, Flying, Sliding!Adding
<1>6. Cardinality(Held) < SlidingLimit + Cardinality(Askers)
  <2>1. Cardinality(Held) \in Nat /\ Cardinality(Admitted) \in Nat
    BY <1>0, <1>5, CallsFinite, AskersFinite
  <2> QED
    BY <1>0, <2>1, SlidingConstants DEF HeldInv
<1>7. ASSUME NEW t \in 0..stime
      PROVE  Cardinality(InCalls(t)) < SlidingLimit + 3 * Cardinality(Askers) + collided
  <2>1. Cardinality(InCalls(t)) \in Nat /\ Cardinality(Flying(t)) \in Nat
    BY <1>0, <1>5, CallsFinite, AskersFinite
  <2>2. CASE t < stime
    <3>1. Cardinality(InCalls(t)) + Cardinality(Flying(t))
            < SlidingLimit + 3 * Cardinality(Askers) + collided
      BY <1>0, <1>3, <2>2 DEF OldInv
    <3> QED
      BY <1>0, <2>1, <3>1, SlidingConstants DEF SlidingTypes
  <2>3. CASE t = stime
    BY <1>0, <2>1, <2>3, PresentCalls, SlidingConstants DEF SlidingTypes
  <2> QED
    BY <1>3, <2>2, <2>3
<1> QED
  BY <1>0, <1>1, <1>2, <1>4, <1>6, <1>7, SlidingConstants
  DEF Sliding!SlidingBound, MissedInv

\* Neither window lets more requests pass than its limit and what the commands of pipelines
\* that break, interleave or come late account for, the expiry of the key between them
\* included; and what the counter refuses has another request to blame
\* (rate_limiter.go:66-112, lock.go:205-238).
THEOREM WindowsHoldInvariant == MCSpec => []WindowsHold
<1>1. CounterInv /\ SlidingInv => WindowsHold
  BY WindowOfCounterHolds, WindowOfCallsHolds DEF WindowsHold
<1> QED
  BY <1>1, CounterInvariant, SlidingInvariant, PTL
=============================================================================
