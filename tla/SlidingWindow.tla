---------------------------- MODULE SlidingWindow ----------------------------
(***************************************************************************)
(* RateLimiter.Allow of shared/go/pkg/redis/lock.go for one key: a sorted  *)
(* set of the times of the requests.  The commands go to Redis in a        *)
(* pipeline, which the commands of other calls and the expiry of the key   *)
(* interleave and a broken connection cuts short.                          *)
(***************************************************************************)
EXTENDS Integers, FiniteSets

CONSTANTS Askers,       \* goroutines that call Allow
          Limit, Width, \* the limit, and the window in ticks
          MaxTime,      \* bound: the clock stops here
          MaxCalls      \* bound on the calls

\* What is assumed of the constants, by the module that gives their values.
SlidingAssumption == /\ IsFiniteSet(Askers) /\ Askers # {}
                     /\ Limit \in Nat /\ Width \in Nat \ {0}
                     /\ MaxTime \in Nat /\ MaxCalls \in Nat

VARIABLES
  time,
  zset, expires,   \* set of [at, id], the sorted set, {} for no key; Never
                   \* without EXPIRE
  askPc, askNow,   \* [Askers -> where Allow is], its clock reading
  counts,          \* [Askers -> what ZCARD said]
  askId,           \* [Askers -> the id of what ZADD added]
  adds,            \* the calls of ZADD so far
  stale,           \* history: calls under way at the last Reset
  passed,          \* history: set of [at, id, by], calls begun since the last
                   \* Reset that ZCARD let pass and no broken pipeline took back
  collided         \* history: calls with the nanosecond of another one

redisVars == <<zset, expires, adds, passed, collided>>
vars == <<time, redisVars, askPc, askNow, counts, askId, stale>>

Never == MaxTime + Width + 1
Place == {"idle", "asked", "trimmed", "counted", "added"}

TypeOK == /\ time \in 0..MaxTime
          /\ \A e \in zset : e.at <= time
          /\ expires \in (time + 1)..Never
          /\ askPc \in [Askers -> Place]
          /\ askNow \in [Askers -> 0..time]
          /\ counts \in [Askers -> 0..MaxCalls]
          /\ askId \in [Askers -> 0..MaxCalls]
          /\ adds \in 0..MaxCalls /\ collided \in 0..MaxCalls
          /\ stale \in SUBSET Askers

(* NewRateLimiter.                                                         *)
Init == /\ time = 0 /\ zset = {} /\ expires = Never
        /\ askPc = [c \in Askers |-> "idle"]
        /\ askNow = [c \in Askers |-> 0] /\ counts = [c \in Askers |-> 0]
        /\ askId = [c \in Askers |-> 0] /\ adds = 0
        /\ stale = {} /\ passed = {} /\ collided = 0

-----------------------------------------------------------------------------
AskerTo(c, from, to) == askPc[c] = from /\ askPc' = [askPc EXCEPT ![c] = to]

Adding == {c \in Askers : askPc[c] \in {"asked", "trimmed", "counted"}}

(* Allow, first: the clock.                                                *)
ReadClock(c) ==
  /\ adds + Cardinality(Adding) < MaxCalls
  /\ AskerTo(c, "idle", "asked")
  /\ askNow' = [askNow EXCEPT ![c] = time]
  /\ UNCHANGED <<time, redisVars, counts, askId, stale>>

(* ZREMRANGEBYSCORE; Redis keeps no key for an empty set.                  *)
Trim(c) ==
  /\ AskerTo(c, "asked", "trimmed")
  /\ zset' = {e \in zset : e.at > askNow[c] - Width}
  /\ expires' = IF zset' = {} THEN Never ELSE expires
  /\ UNCHANGED <<time, askNow, counts, askId, adds, stale, passed, collided>>

(* ZCARD.                                                                  *)
Count(c) ==
  /\ AskerTo(c, "trimmed", "counted")
  /\ counts' = [counts EXCEPT ![c] = Cardinality(zset)]
  /\ UNCHANGED <<time, redisVars, askNow, askId, stale>>

\* Mutant of Allowed: off by one.
Allowed_OneMore(c) == counts[c] <= Limit

Allowed(c) == counts[c] < Limit

(* ZADD, which refused calls do as well.  The member is the time in        *)
(* nanoseconds: two calls in one nanosecond are one member.                *)
Add(c) ==
  /\ AskerTo(c, "counted", "added")
  /\ \/ /\ zset' = zset \cup {[at |-> askNow[c], id |-> adds]}
        /\ UNCHANGED collided
     \/ /\ \E e \in zset : e.at = askNow[c]
        /\ collided' = collided + 1
        /\ UNCHANGED zset
  /\ passed' = IF Allowed(c) /\ c \notin stale
               THEN passed \cup {[at |-> askNow[c], id |-> adds, by |-> c]}
               ELSE passed
  /\ askId' = [askId EXCEPT ![c] = adds]
  /\ adds' = adds + 1
  /\ UNCHANGED <<time, expires, askNow, counts, stale>>

Ended(c) == /\ askPc' = [askPc EXCEPT ![c] = "idle"]
            /\ askNow' = [askNow EXCEPT ![c] = 0]
            /\ counts' = [counts EXCEPT ![c] = 0]
            /\ askId' = [askId EXCEPT ![c] = 0]
            /\ stale' = stale \ {c}

Expire == expires' = IF zset # {} THEN time + Width ELSE expires

(* EXPIRE, which does nothing if the key is gone, and the answer.          *)
Answer(c) == /\ askPc[c] = "added"
             /\ Expire
             /\ Ended(c)
             /\ UNCHANGED <<time, zset, adds, passed, collided>>

(* The pipeline fails after any of its commands: an error, and no answer.  *)
ExecFails(c) ==
  /\ askPc[c] # "idle"
  /\ \/ askPc[c] # "added" /\ UNCHANGED <<expires, passed>>
     \/ /\ askPc[c] = "added"
        /\ Expire \/ UNCHANGED expires
        /\ passed' = passed \ {[at |-> askNow[c], id |-> askId[c], by |-> c]}
  /\ Ended(c)
  /\ UNCHANGED <<time, zset, adds, collided>>

(* Reset deletes the key: the windows begin anew.                          *)
Reset == /\ zset' = {} /\ expires' = Never
         /\ passed' = {}
         /\ stale' = {c \in Askers : askPc[c] # "idle"}
         /\ UNCHANGED <<time, askPc, askNow, counts, askId, adds, collided>>

(* Time passes; Redis drops the key when its expiry comes.                 *)
Clock == /\ time < MaxTime
         /\ time' = time + 1
         /\ IF time + 1 = expires THEN zset' = {} /\ expires' = Never
                                  ELSE UNCHANGED <<zset, expires>>
         /\ UNCHANGED <<askPc, askNow, counts, askId, adds, stale, passed, collided>>

Allow(c) == \/ ReadClock(c) \/ Trim(c) \/ Count(c) \/ Add(c) \/ Answer(c)
            \/ ExecFails(c)

Next == Clock \/ Reset \/ \E c \in Askers : Allow(c)
Spec == Init /\ [][Next]_vars

-----------------------------------------------------------------------------
\* What passed within the window that ends at t.
Passed(t) == {x \in passed : t - Width < x.at /\ x.at <= t}
InSet(x) == [at |-> x.at, id |-> x.id] \in zset

\* Of the calls of the present window that passed, the set holds at most the limit and
\* one for each goroutine but one, which may have counted before the others added; and
\* it misses those that share a nanosecond with another one and at most one for each
\* goroutine, which the expiry of the key caught between ZADD and EXPIRE.  Of any
\* earlier window, one more call for each goroutine may have passed, under way with its
\* old clock when a later call or the expiry removed the entries (lock.go:205-238).
SlidingBound ==
  /\ TypeOK
  /\ Cardinality({x \in Passed(time) : InSet(x)}) < Limit + Cardinality(Askers)
  /\ Cardinality({x \in Passed(time) : ~InSet(x)}) <= Cardinality(Askers) + collided
  /\ \A t \in 0..time :
       Cardinality(Passed(t)) < Limit + 3 * Cardinality(Askers) + collided
=============================================================================
