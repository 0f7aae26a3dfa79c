---------------------------- MODULE MCRedisGuards ----------------------------
(***************************************************************************)
(* Small instances of the guards that live in Redis and share nothing in   *)
(* it: TokenBucket, LoginLimiter, RedisLock, RequestCounter and            *)
(* SlidingWindow.  A behaviour is one of whichever guard `part` names, the *)
(* others stay in their initial states, so that their state spaces add up  *)
(* instead of multiplying.                                                 *)
(***************************************************************************)
EXTENDS TokenBucket

CONSTANTS Workers, LoginLimit, LockoutLimit, Window, LockoutTime, MaxFaults,
          Procs, Orphan, MaxTries,
          Clients, CounterLimit, CounterWidth, CounterTime, MaxRequests,
          Askers, SlidingLimit, SlidingWidth, SlidingTime, MaxCalls

VARIABLES part,
          backend, rate, failed, lockout, loginPc, faults, guesses,
          key, fresh, lockPc, tries, expired,
          ctime, count, renewed, counted, sent, got, local, localAt, ended, let,
          requests,
          stime, zset, expires, askPc, askNow, counts, askId, adds, stale, passed,
          collided

Login == INSTANCE LoginLimiter WITH pc <- loginPc
Mutex == INSTANCE RedisLock WITH pc <- lockPc

ASSUME LoginIsAssumed == Login!LoginAssumption

Counter == INSTANCE RequestCounter
             WITH Limit <- CounterLimit, Width <- CounterWidth,
                  MaxTime <- CounterTime, time <- ctime,
                  expires <- renewed, passed <- let
Sliding == INSTANCE SlidingWindow
             WITH Limit <- SlidingLimit, Width <- SlidingWidth,
                  MaxTime <- SlidingTime, time <- stime

ASSUME WindowsAreAssumed == Counter!CounterAssumption /\ Sliding!SlidingAssumption

loginVars == <<backend, rate, failed, lockout, loginPc, faults, guesses>>
lockVars == <<key, fresh, lockPc, tries, expired>>
counterVars == <<ctime, count, renewed, counted, sent, got, local, localAt, ended,
                 let, requests>>
slidingVars == <<stime, zset, expires, askPc, askNow, counts, askId, adds, stale,
                 passed, collided>>
windowVars == <<counterVars, slidingVars>>

MCInit == /\ part \in {"bucket", "login", "lock", "counter", "sliding"}
          /\ Init /\ Login!Init /\ Mutex!Init /\ Counter!Init /\ Sliding!Init
          /\ backend = "local" => part = "login"

BucketStep == /\ part = "bucket" /\ Next
              /\ UNCHANGED <<part, loginVars, lockVars, windowVars>>
LoginStep == /\ part = "login" /\ Login!Next
             /\ UNCHANGED <<part, vars, lockVars, windowVars>>
LockStep == /\ part = "lock" /\ Mutex!Next
            /\ UNCHANGED <<part, vars, loginVars, windowVars>>
CounterStep == /\ part = "counter" /\ Counter!Next
               /\ UNCHANGED <<part, vars, loginVars, lockVars, slidingVars>>
SlidingStep == /\ part = "sliding" /\ Sliding!Next
               /\ UNCHANGED <<part, vars, loginVars, lockVars, counterVars>>

MCSpec ==
  /\ MCInit
  /\ [][BucketStep \/ LoginStep \/ LockStep \/ CounterStep \/ SlidingStep]_
         <<part, vars, loginVars, lockVars, windowVars>>
  /\ part = "login" => Login!Fairness

\* Each guard's properties under its own name; see the guard's module.
GuessesBounded == Login!GuessesBounded
FailuresAreForgotten == Login!FailuresAreForgotten
LockoutEnds == Login!LockoutEnds
WindowsHold == Counter!WindowHolds /\ Sliding!SlidingBound
OverlapNeedsExpiry == Mutex!TypeOK /\ Mutex!OverlapNeedsExpiry
=============================================================================
