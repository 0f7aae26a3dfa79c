---------------------------- MODULE RequestCounter ----------------------------
(***************************************************************************)
(* RateLimiter of the user-service (middleware/rate_limiter.go) for one    *)
(* client address: a counter in Redis whose expiry every request renews,   *)
(* and a token bucket in the process for the time Redis does not answer.   *)
(* The commands go to Redis in a pipeline, which is no transaction: those  *)
(* of other requests and the expiry of the key come between them, and a    *)
(* broken connection cuts them short.                                      *)
(***************************************************************************)
EXTENDS Integers, FiniteSets

CONSTANTS Clients,      \* goroutines that serve requests of the address
          Limit, Width, \* the limit, and the window in ticks
          MaxTime,      \* bound: the clock stops here
          MaxRequests   \* bound on the requests

\* What is assumed of the constants, by the module that gives their values.
CounterAssumption == /\ IsFiniteSet(Clients)
                     /\ Limit \in Nat \ {0} /\ Width \in Nat \ {0}
                     /\ MaxTime \in Nat /\ MaxRequests \in Nat

VARIABLES
  time,
  count, expires,  \* the counter, 0 for no key; Never without EXPIRE
  counted,         \* SUBSET Clients, those between INCR and EXPIRE
  sent, got,       \* [Clients -> time of the INCR, and what it said]
  local, localAt,  \* the token bucket of x/time/rate: Width units a token
  ended,           \* history: when the counter last expired
  passed,          \* history: set of [at, as, by], what INCR let pass and no
                   \* broken pipeline took back
  requests         \* history: set of [n, sent, done, ok, by, cut], decided

counterVars == <<count, expires, counted, sent, got, ended, passed>>
localVars == <<local, localAt>>
vars == <<time, counterVars, localVars, requests>>

Never == MaxTime + Width + 1
Full == Limit * Width

TypeOK == /\ time \in 0..MaxTime
          /\ count \in 0..MaxRequests /\ expires \in (time + 1)..Never
          /\ counted \in SUBSET Clients
          /\ sent \in [Clients -> 0..time] /\ got \in [Clients -> 0..MaxRequests]
          /\ local \in 0..Full /\ localAt \in 0..time
          /\ ended \in 0..time
          /\ \A x \in requests : x.done <= time /\ x.by \in {"redis", "local"}

(* NewRateLimiter; the local limiter of a client starts full.              *)
Init == /\ time = 0 /\ requests = {}
        /\ count = 0 /\ expires = Never /\ counted = {}
        /\ sent = [c \in Clients |-> 0] /\ got = [c \in Clients |-> 0]
        /\ local = Full /\ localAt = 0
        /\ ended = 0 /\ passed = {}

-----------------------------------------------------------------------------
\* Room for one more request.
MayAsk == Cardinality(requests) + Cardinality(counted) < MaxRequests

(* checkRateLimit, first: INCR, which counts the request whether it passes *)
(* or not and makes a key without expiry if there is none.                 *)
Increment(c) ==
  /\ c \notin counted /\ MayAsk
  /\ count' = count + 1
  /\ counted' = counted \cup {c}
  /\ sent' = [sent EXCEPT ![c] = time] /\ got' = [got EXCEPT ![c] = count + 1]
  /\ passed' = IF count + 1 <= Limit
               THEN passed \cup {[at |-> time, as |-> count + 1, by |-> c]}
               ELSE passed
  /\ UNCHANGED <<time, expires, ended, localVars, requests>>

\* Mutant of Expire: the window is a tick short.
Expire_Short == expires' = IF count > 0 THEN time + Width - 1 ELSE expires

(* EXPIRE, which does nothing if the key has expired since INCR.           *)
Expire == expires' = IF count > 0 THEN time + Width ELSE expires

Over(c) == /\ counted' = counted \ {c}
           /\ sent' = [sent EXCEPT ![c] = 0] /\ got' = [got EXCEPT ![c] = 0]

Decided(since, ok, by, cut) ==
  requests' = requests \cup {[n |-> Cardinality(requests), sent |-> since,
                              done |-> time, ok |-> ok, by |-> by, cut |-> cut]}

(* checkRateLimit, the rest: EXPIRE, TTL and what INCR said.               *)
CheckRateLimit(c) ==
  /\ c \in counted
  /\ Expire
  /\ Over(c)
  /\ Decided(sent[c], got[c] <= Limit, "redis", FALSE)
  /\ UNCHANGED <<time, count, ended, passed, localVars>>

(* The connection broke: before INCR, after it, or after EXPIRE.           *)
Broken(c) == \/ /\ c \notin counted /\ MayAsk
                /\ UNCHANGED <<counted, sent, got, passed, expires>>
             \/ /\ c \in counted
                /\ Over(c)
                /\ passed' = passed \ {[at |-> sent[c], as |-> got[c], by |-> c]}
                /\ Expire \/ UNCHANGED expires

(* checkLocalRateLimit: Limit units a tick accrue, a request takes Width.  *)
Accrued == LET a == local + (time - localAt) * Limit IN
           IF a < Full THEN a ELSE Full
CheckLocalRateLimit(c) ==
  /\ Broken(c)
  /\ local' = IF Accrued >= Width THEN Accrued - Width ELSE Accrued
  /\ localAt' = time
  /\ Decided(IF c \in counted THEN sent[c] ELSE time, Accrued >= Width, "local",
             c \in counted)
  /\ UNCHANGED <<time, count, ended>>

Middleware(c) == Increment(c) \/ CheckRateLimit(c) \/ CheckLocalRateLimit(c)

(* Time passes; Redis drops the key when its expiry comes.                 *)
Clock == /\ time < MaxTime
         /\ time' = time + 1
         /\ IF time + 1 = expires
            THEN count' = 0 /\ expires' = Never /\ ended' = time + 1
            ELSE UNCHANGED <<count, expires, ended>>
         /\ UNCHANGED <<counted, sent, got, passed, localVars, requests>>

Next == Clock \/ \E c \in Clients : Middleware(c)
Spec == Init /\ [][Next]_vars

-----------------------------------------------------------------------------
\* What passed within the window that ends at t: INCR counts where Redis decided.
PassedByCounter(t) == Cardinality({x \in passed : t - Width < x.at /\ x.at <= t})
PassedLocally(t) == Cardinality({x \in requests :
                      x.by = "local" /\ x.ok /\ t - Width < x.done /\ x.done <= t})

\* A refused request x had another one before it whose commands ended less than a
\* window before, have not ended, or were cut short.
Blamed(x) ==
  \/ \E y \in requests : /\ y.n # x.n /\ y.sent <= x.sent
                         /\ x.sent - y.done < Width \/ y.cut
  \/ \E c \in counted : sent[c] <= x.sent

\* In no window does the counter pass more than the limit and one request for each
\* goroutine that the expiry caught between INCR and EXPIRE, nor twice the limit; the
\* local bucket passes fewer than twice the limit too, its burst and what accrues
\* meanwhile.  What the counter refuses has another request to blame
\* (rate_limiter.go:66-112).
WindowHolds ==
  /\ TypeOK
  /\ \A t \in 0..time : /\ PassedByCounter(t) <= Limit + Cardinality(Clients)
                        /\ PassedByCounter(t) < 2 * Limit
                        /\ PassedLocally(t) < 2 * Limit
  /\ \A x \in requests : x.by = "redis" /\ ~x.ok => Blamed(x)
=============================================================================
