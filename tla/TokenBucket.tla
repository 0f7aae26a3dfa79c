----------------------------- MODULE TokenBucket -----------------------------
(***************************************************************************)
(* The rate limiter of the order-management-service for one user           *)
(* (internal/ratelimit/limiter.go).  A call reads the clock of its own     *)
(* process and then runs a Lua script in Redis, which is atomic; between   *)
(* the two, scripts of other calls may run, so scripts can run in another  *)
(* order than their clock readings.  The bucket of a user is a Redis hash  *)
(* that expires TTL after its last write.                                  *)
(*                                                                         *)
(* Time is counted in ticks, TicksPerSec to the second.  Doubles are       *)
(* taken as exact: only their floor reaches the state.                     *)
(***************************************************************************)
EXTENDS Integers

CONSTANTS Callers,      \* goroutines that ask for tokens of this user
          Rate, Burst,  \* Limiter.rate and Limiter.burst
          TicksPerSec,
          TTL,          \* EXPIRE of the key, in ticks
          Asks,         \* numbers of tokens callers ask for
          MaxClock      \* bound: the clock stops here

ASSUME ConfigAssumption == /\ Rate \in Nat \ {0} /\ Burst \in Nat \ {0}
                           /\ TicksPerSec \in Nat \ {0}
                           /\ TTL \in Nat \ {0}
                           /\ MaxClock \in Nat
ASSUME AsksAssumption == Asks \subseteq 1..Burst   \* AllowN refuses the others

VARIABLES
  clock,   \* time.Now(), the same for all callers
  tokens,  \* field tokens of the hash, negative after scripts out of order
  last,    \* its field last_update
  wrote,   \* when it was written and its EXPIRE set; -1: it never was or is
           \* deleted
  pc,      \* [Callers -> {"idle", "asked"}]
  now,     \* [Callers -> Nat], clock reading of the pending call
  ask,     \* [Callers -> Asks \cup {0}], tokens it asks for, 0 if none is pending
  told,    \* [Callers -> Nat], history: what GetRemaining told the caller,
           \* 0 once a script of another call ran
  granted, \* history: tokens taken from the present bucket
  since,   \* history: the last_update the present bucket started with
  inOrder, \* history: its scripts ran in the order of their clock readings
  refusedFrom \* history: now of the first refusal since the last grant, or -1

bucketVars == <<tokens, last, wrote>>
callVars == <<pc, now, ask>>
historyVars == <<told, granted, since, inOrder, refusedFrom>>
vars == <<clock, bucketVars, callVars, historyVars>>

TypeOK == /\ clock \in 0..MaxClock
          /\ tokens \in Int /\ tokens <= Burst
          /\ last \in 0..clock /\ wrote \in -1..clock
          /\ pc \in [Callers -> {"idle", "asked"}]
          /\ now \in [Callers -> 0..clock]
          /\ ask \in [Callers -> Asks \cup {0}]
          /\ \A c \in Callers : pc[c] = "asked" => ask[c] # 0
          /\ told \in [Callers -> Int]
          /\ granted \in Nat
          /\ since \in 0..clock
          /\ inOrder \in BOOLEAN
          /\ refusedFrom \in -1..clock

Init == /\ clock = 0
        /\ tokens = 0 /\ last = 0 /\ wrote = -1
        /\ pc = [c \in Callers |-> "idle"]
        /\ now = [c \in Callers |-> 0]
        /\ ask = [c \in Callers |-> 0]
        /\ told = [c \in Callers |-> 0]
        /\ granted = 0 /\ since = 0 /\ inOrder = TRUE /\ refusedFrom = -1

-----------------------------------------------------------------------------
\* Redis still has the key.
Present == wrote # -1 /\ clock < wrote + TTL

\* Mutants of Earned: rounded up; whole seconds only.
Earned_RoundedUp(ticks) == (ticks * Rate) \div TicksPerSec + 1
Earned_WholeSeconds(ticks) == (ticks \div TicksPerSec) * Rate

\* Tokens that accrue in a time; math.floor rounds a negative one down.
Earned(ticks) == (ticks * Rate) \div TicksPerSec

\* The tokens of the bucket for a caller whose clock read t.
Remaining(t) ==
  IF Present
  THEN LET sum == tokens + Earned(t - last) IN IF sum < Burst THEN sum ELSE Burst
  ELSE Burst

(* AllowN: the clock is read here, and time passes before the script runs. *)
AllowN(c, n) ==
  /\ pc[c] = "idle"
  /\ pc' = [pc EXCEPT ![c] = "asked"]
  /\ now' = [now EXCEPT ![c] = clock]
  /\ ask' = [ask EXCEPT ![c] = n]
  /\ UNCHANGED <<clock, bucketVars, historyVars>>

\* The call is over.
Return(c) == /\ pc' = [pc EXCEPT ![c] = "idle"]
             /\ now' = [now EXCEPT ![c] = 0]
             /\ ask' = [ask EXCEPT ![c] = 0]

\* What either branch of the script does: last_update becomes the caller's
\* clock reading, even if the one stored is later or the request is refused.
Store(c, left) == /\ tokens' = left
                  /\ last' = now[c]
                  /\ wrote' = clock

\* History kept beside the script.
Note(c, taken) ==
  /\ granted' = taken + (IF Present THEN granted ELSE 0)
  /\ since' = IF Present THEN since ELSE now[c]
  /\ inOrder' = (Present => inOrder /\ last <= now[c])
  /\ told' = [d \in Callers |-> 0]
  /\ refusedFrom' = IF taken > 0 THEN -1
                    ELSE IF refusedFrom = -1 THEN now[c] ELSE refusedFrom

(* The two branches of the script.                                         *)
Grant(c) ==
  /\ pc[c] = "asked"
  /\ Remaining(now[c]) >= ask[c]
  /\ Store(c, Remaining(now[c]) - ask[c])
  /\ Note(c, ask[c])

Refuse(c) ==
  /\ pc[c] = "asked"
  /\ Remaining(now[c]) < ask[c]
  /\ Store(c, Remaining(now[c]))
  /\ Note(c, 0)

(* The script runs; tokenBucket returns its result, or an error if Redis   *)
(* did not deliver it.                                                     *)
Eval(c) == (Grant(c) \/ Refuse(c)) /\ Return(c) /\ UNCHANGED clock

(* The script does not run; tokenBucket returns an error.                  *)
EvalFails(c) == /\ pc[c] = "asked"
                /\ Return(c)
                /\ UNCHANGED <<clock, bucketVars, historyVars>>

\* Mutant of GetRemaining: its script rounds the refill up, tokenBucket's down.
GetRemaining_RoundsUp(c) ==
  /\ pc[c] = "idle"
  /\ told' = [told EXCEPT ![c] =
       IF Present /\ tokens + Earned_RoundedUp(clock - last) < Burst
       THEN tokens + Earned_RoundedUp(clock - last) ELSE Burst]
  /\ UNCHANGED <<clock, bucketVars, callVars, granted, since, inOrder,
                 refusedFrom>>

(* GetRemaining: one script that reads.                                    *)
GetRemaining(c) ==
  /\ pc[c] = "idle"
  /\ told' = [told EXCEPT ![c] = Remaining(clock)]
  /\ UNCHANGED <<clock, bucketVars, callVars, granted, since, inOrder,
                 refusedFrom>>

(* Reset deletes the key; the next call starts a new bucket.               *)
Reset ==
  /\ tokens' = 0 /\ last' = 0 /\ wrote' = -1
  /\ UNCHANGED <<clock, callVars, historyVars>>

Tick == /\ clock < MaxClock
        /\ clock' = clock + 1
        /\ UNCHANGED <<bucketVars, callVars, historyVars>>

Next == \/ \E c \in Callers : \/ \E n \in Asks : AllowN(c, n)
                              \/ Eval(c) \/ EvalFails(c)
                              \/ GetRemaining(c)
        \/ Reset
        \/ Tick

Spec == Init /\ [][Next]_vars

-----------------------------------------------------------------------------
(* Properties.                                                             *)

\* However clock readings and scripts are ordered, the tokens granted from one
\* bucket never exceed the burst and what accrued at Rate since it started
\* (limiter.go:114-118).
RateBound == granted * TicksPerSec <= Burst * TicksPerSec + (clock - since) * Rate

\* No caller is refused without cause.  One that GetRemaining told of so many
\* tokens is not refused them as long as no other script runs in between, even
\* if the key expires or is reset meanwhile (limiter.go:160); and while scripts
\* run in the order of their clock readings, one token is refused only to a
\* caller that came before the time of one token had passed since last_update
\* (limiter.go:121).
RefusalsAreDue ==
  [][\A c \in Callers : Refuse(c) =>
       /\ ask[c] > told[c]
       /\ ask[c] = 1 /\ inOrder' =>
            Present /\ (now[c] - last) * Rate < TicksPerSec]_vars

\* "tokens per second per user" (limiter.go:21): as at least one token accrues
\* in a second, a user that keeps asking for one token is not refused at two
\* moments a second apart with no grant between them.
ServedWithinASecond ==
  [][\A c \in Callers :
       Refuse(c) => refusedFrom = -1 \/ now[c] - refusedFrom < TicksPerSec]_vars
=============================================================================
