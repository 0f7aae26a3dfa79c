------------------------------- MODULE RedisLock -------------------------------
(***************************************************************************)
(* The distributed lock of shared/go/pkg/redis/lock.go: SET NX with an     *)
(* expiry, a Lua script that deletes the key only if it holds the caller's *)
(* value, one that prolongs it, and WithLock and WithLockRetry around      *)
(* them.  Each process runs one call of WithLockRetry at a time (WithLock  *)
(* is the case MaxTries = 1), each with a Lock of its own and so with a    *)
(* value nobody else has: the value is written as the process.             *)
(*                                                                         *)
(* The key lives in Redis, which counts its expiry by its own clock; the   *)
(* holder does not learn of it.  A command may fail before it reached      *)
(* Redis, or after it took effect.                                         *)
(***************************************************************************)
EXTENDS Naturals

CONSTANTS Procs,     \* processes that want the lock
          Orphan,    \* the value of a Lock that its process has forgotten
          MaxTries   \* maxRetries of TryAcquire

VARIABLES key,       \* {} when the key is absent, {p} when it holds p's value
          fresh,     \* less than its time to live has passed since it was written
          pc,        \* where each process is in WithLockRetry
          tries,     \* attempts it has made
          expired    \* history: its key expired while it was inside

vars == <<key, fresh, pc, tries, expired>>

Places == {"idle", "acquire", "inside", "release"}

Init ==
  /\ key = {} /\ fresh = FALSE
  /\ pc = [p \in Procs |-> "idle"]
  /\ tries = [p \in Procs |-> 0]
  /\ expired = [p \in Procs |-> FALSE]

GoTo(p, l) == pc' = [pc EXCEPT ![p] = l]

\* NewLock draws a fresh value: a key that still has p's last one is nobody's now.
Begin(p) ==
  /\ pc[p] = "idle"
  /\ GoTo(p, "acquire") /\ tries' = [tries EXCEPT ![p] = 0]
  /\ key' = IF p \in key THEN {Orphan} ELSE key
  /\ UNCHANGED <<fresh, expired>>

\* SetNX finds the key absent and sets it.
Acquire(p) ==
  /\ pc[p] = "acquire" /\ key = {}
  /\ key' = {p} /\ fresh' = TRUE
  /\ GoTo(p, "inside") /\ expired' = [expired EXCEPT ![p] = FALSE]
  /\ UNCHANGED tries

\* The key is another's, or the command failed, perhaps after it had set the key; then
\* the retry, with the same value, finds the key taken.  The last attempt's error, or
\* the end of the context, gives up: WithLockRetry returns without a Release.
AcquireFails(p) ==
  /\ pc[p] = "acquire"
  /\ \/ UNCHANGED <<key, fresh>>
     \/ key = {} /\ key' = {p} /\ fresh' = TRUE
  /\ tries' = [tries EXCEPT ![p] = @ + 1]
  /\ \/ GoTo(p, "idle")
     \/ tries'[p] < MaxTries /\ GoTo(p, "acquire")
  /\ UNCHANGED expired

\* Refresh, called from fn: the script prolongs the key if it has the value.  The error
\* it returns otherwise is fn's to heed; fn may go on.
Refresh(p) ==
  /\ pc[p] = "inside" /\ p \in key
  /\ fresh' = TRUE
  /\ UNCHANGED <<key, pc, tries, expired>>

\* fn returns.
Leave(p) ==
  /\ pc[p] = "inside"
  /\ GoTo(p, "release")
  /\ UNCHANGED <<key, fresh, tries, expired>>

\* Mutant of Release: DEL without a look at the value.
Release_Unconditional(p) ==
  /\ pc[p] = "release"
  /\ key' \in {{}, key}
  /\ GoTo(p, "idle")
  /\ UNCHANGED <<fresh, tries, expired>>

\* The script deletes the key if it has p's value; an error of the script, or of a
\* context that is over, leaves it to its expiry.  WithLock drops what Release returns.
Release(p) ==
  /\ pc[p] = "release"
  /\ key' \in {key \ {p}, key}
  /\ GoTo(p, "idle")
  /\ UNCHANGED <<fresh, tries, expired>>

\* The time to live runs out, and the key with it: fn may be running, or nobody at all.
Age ==
  /\ key # {} /\ fresh
  /\ fresh' = FALSE
  /\ UNCHANGED <<key, pc, tries, expired>>

Expire ==
  /\ key # {} /\ ~fresh
  /\ key' = {}
  /\ expired' = [p \in Procs |-> expired[p] \/ p \in key]
  /\ UNCHANGED <<fresh, pc, tries>>

\* A process dies; its key stays.
Crash(p) ==
  /\ pc[p] # "idle"
  /\ GoTo(p, "idle")
  /\ UNCHANGED <<key, fresh, tries, expired>>

Step(p) ==
  \/ Begin(p) \/ Acquire(p) \/ AcquireFails(p) \/ Refresh(p) \/ Leave(p) \/ Release(p)

Next ==
  \/ \E p \in Procs : Step(p) \/ Crash(p)
  \/ Age \/ Expire

Spec == Init /\ [][Next]_vars

-----------------------------------------------------------------------------
(* Properties.                                                             *)

TypeOK ==
  /\ key \subseteq Procs \cup {Orphan} /\ fresh \in BOOLEAN
  /\ pc \in [Procs -> Places]
  /\ tries \in [Procs -> Nat]
  /\ expired \in [Procs -> BOOLEAN]

\* Two processes are inside only if the key of one of them expired under it: no failed
\* command, lost reply, crash or late Release of another lets a second one in.
OverlapNeedsExpiry ==
  \A p, q \in Procs :
    p # q /\ pc[p] = "inside" /\ pc[q] = "inside" => expired[p] \/ expired[q]
=============================================================================
