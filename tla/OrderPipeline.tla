---------------------------- MODULE OrderPipeline ----------------------------
(***************************************************************************)
(* The order-management-service from request to response: StreamOrders and *)
(* processOrder (internal/grpc/handler.go), the risk engine and its rules  *)
(* (internal/risk), and OrderExecutor underneath, instantiated as Exec.    *)
(* Every request received on a stream is handled by a goroutine of its own *)
(* (handler.go:111), so requests of one user run concurrently.  Redis      *)
(* holds the fingerprints of the duplicate-order rule.  The process starts *)
(* and stops under its clients (cmd/server/main.go): a graceful stop waits *)
(* for the streams, not for the goroutines they left behind.               *)
(***************************************************************************)
EXTENDS Naturals, FiniteSets

CONSTANTS Orders,       \* order requests, each sent once by a client
          Streams,      \* StreamOrders calls
          Users, TokenUser, \* user ids; the one every token stands for
          Bodies,       \* symbol, side, price and quantity of a request
          StreamOf,     \* [Orders -> Streams]
          BodyOf,       \* [Orders -> Bodies]
          HeaderOf,     \* [Streams -> Header], its authorization metadata
          ClaimOf,      \* [Streams -> Users], its user-id metadata
          RiskEnabled,  \* Engine.enabled
          Cancellers, NoOrder, MaxRetries, LearnsFrom   \* see OrderExecutor

ASSUME PipelineAssumption == /\ StreamOf \in [Orders -> Streams]
                             /\ BodyOf \in [Orders -> Bodies]
                             /\ HeaderOf \in [Streams -> {"absent", "empty",
                                                          "token"}]
                             /\ ClaimOf \in [Streams -> Users]
                             /\ TokenUser \in Users
                             /\ RiskEnabled \in BOOLEAN
                             /\ MaxRetries \in Nat
                             /\ NoOrder \notin Orders
                             /\ LearnsFrom \in {"table", "events"}

VARIABLES
  pc, attempt, kisId, status, brokerId, placed, withdrawn, events, logged,
  ctxDone, cpc, target, readId,      \* the state of OrderExecutor
  life,     \* "down", "up" or "stopping", of the process
  stream,   \* [Streams -> {"new", "open", "closed"}]
  stage,    \* [Orders -> Stage], where processOrder is
  response, \* [Orders -> Response], what the client received
  key,      \* [Fingerprints -> BOOLEAN], order_fingerprint:<f> exists in Redis
  window,   \* [Fingerprints -> SUBSET Orders], history: orders that passed the
            \* rule since the key was last dropped, their SET applied or not
  unset,    \* SUBSET Orders, history: orders that passed it with SET not applied
  earlier   \* [Orders -> SUBSET Orders], history: the window of an order's
            \* fingerprint when its EXISTS found no key

Exec == INSTANCE OrderExecutor

executorVars == <<pc, attempt, kisId, status, brokerId, placed, withdrawn,
                  events, logged, ctxDone, cpc, target, readId>>
handlerVars == <<life, stream, stage, response>>
riskVars == <<key, window, unset, earlier>>
vars == <<executorVars, handlerVars, riskVars>>

Stage == {"unsent", "rateLimit", "priceRules", "dupCheck", "dupSet", "symbol",
          "execute", "reject", "done", "crashed"}
InFlight == Stage \ {"unsent", "done", "crashed"}
Response == {"none", "ACCEPTED", "REJECTED", "lost"}

(* AuthenticationInterceptor: a stream without the header goes on with the *)
(* id its client claims, one with a token as the user of validateToken.    *)
ValidToken(h) == h # "empty"
UserOf(s) == IF HeaderOf[s] = "token" THEN TokenUser ELSE ClaimOf[s]

(* generateFingerprint hashes the user id with the body of the order.      *)
Fingerprints == Users \X Bodies
FingerprintOf(r) == <<UserOf(StreamOf[r]), BodyOf[r]>>

TypeOK == /\ Exec!TypeOK
          /\ life \in {"down", "up", "stopping"}
          /\ stream \in [Streams -> {"new", "open", "closed"}]
          /\ stage \in [Orders -> Stage]
          /\ response \in [Orders -> Response]
          /\ key \in [Fingerprints -> BOOLEAN]
          /\ window \in [Fingerprints -> SUBSET Orders]
          /\ unset \in SUBSET Orders
          /\ earlier \in [Orders -> SUBSET Orders]

Init == /\ Exec!Init
        /\ life = "down"
        /\ stream = [s \in Streams |-> "new"]
        /\ stage = [r \in Orders |-> "unsent"]
        /\ response = [r \in Orders |-> "none"]
        /\ key = [f \in Fingerprints |-> FALSE]
        /\ window = [f \in Fingerprints |-> {}]
        /\ unset = {}
        /\ earlier = [r \in Orders |-> {}]

StageTo(r, l) == stage' = [stage EXCEPT ![r] = l]

\* A step of processOrder that only decides where the request goes next.
Decide(r, from, to) == /\ stage[r] = from
                       /\ \E l \in to : StageTo(r, l)
                       /\ UNCHANGED <<executorVars, life, stream, response, riskVars>>

(* run: the gRPC server serves once the database and Redis answered a ping *)
(* and Kafka gave a producer; until then every failure ends the process.   *)
Start == /\ life = "down"
         /\ life' = "up"
         /\ UNCHANGED <<executorVars, stream, stage, response, riskVars>>

(* StreamOrders: the client connects, or its token is refused.  A server   *)
(* that is stopping takes no new stream.                                   *)
Connect(s) == /\ life = "up"
              /\ stream[s] = "new"
              /\ stream' = [stream EXCEPT ![s] =
                              IF ValidToken(HeaderOf[s]) THEN "open" ELSE "closed"]
              /\ UNCHANGED <<executorVars, life, stage, response, riskVars>>

(* stream.Recv and go processOrder, which begins with validateRequest.     *)
Validated == {"rateLimit", "reject"}
Receive(r) == /\ stream[StreamOf[r]] = "open"
              /\ Decide(r, "unsent", Validated)

(* NewEngine and registerRules: with risk checks on, the rules in the      *)
(* order of the actions below; a disabled engine passes every order.       *)
FirstRule == IF RiskEnabled THEN "priceRules" ELSE "symbol"

(* rateLimiter.Allow (see TokenBucket): allowed, denied, or Redis failed.  *)
CheckRateLimit(r) ==
  Decide(r, "rateLimit",
         IF ctxDone[r] THEN {"reject"} ELSE {"reject", FirstRule})

(* MaxOrderValueRule, PriceDeviationRule and DailyLossLimitRule, in the    *)
(* order of registerRules.  They write nothing but the cached PnL, always  *)
(* zero; a market order passes them with its context ended.                *)
CheckPriceRules(r) == Decide(r, "priceRules", {"dupCheck", "reject"})

\* EXISTS found no key, or its answer is not looked at: SET comes next.
FoundNone(r) ==
  /\ stage[r] = "dupCheck"
  /\ StageTo(r, "dupSet")
  /\ earlier' = [earlier EXCEPT ![r] = window[FingerprintOf(r)]]
  /\ UNCHANGED <<executorVars, life, stream, response, key, window, unset>>

\* Mutant of CheckDuplicate: the answer to EXISTS is not looked at.
CheckDuplicate_Ignored(r) == FoundNone(r) \/ Decide(r, "dupCheck", {"reject"})

(* DuplicateOrderRule.Validate, first half: EXISTS finds the key, finds    *)
(* none, or fails.                                                         *)
CheckDuplicate(r) ==
  \/ ~ctxDone[r] /\ ~key[FingerprintOf(r)] /\ FoundNone(r)
  \/ Decide(r, "dupCheck", {"reject"})

(* Second half: SET with the duplicate window as TTL.  A failure is logged *)
(* and the order passes; the command may have run all the same.            *)
SetFingerprint(r) ==
  LET f == FingerprintOf(r) IN
  /\ stage[r] = "dupSet"
  /\ \E out \in Exec!DbOutcomes(ctxDone[r]) :
       \/ /\ Exec!Applied(out)
          /\ key' = [key EXCEPT ![f] = TRUE]
          /\ UNCHANGED unset
       \/ /\ ~Exec!Applied(out)
          /\ unset' = unset \cup {r}
          /\ UNCHANGED key
  /\ window' = [window EXCEPT ![f] = @ \cup {r}]
  /\ StageTo(r, "symbol")
  /\ UNCHANGED <<executorVars, life, stream, response, earlier>>

(* The duplicate window passes: Redis drops the key.                       *)
ExpireFingerprint(f) ==
  /\ key[f]
  /\ key' = [key EXCEPT ![f] = FALSE]
  /\ window' = [window EXCEPT ![f] = {}]
  /\ UNCHANGED <<executorVars, handlerVars, unset, earlier>>

(* AllowedSymbolRule, the last one, after the fingerprint is set; then     *)
(* orderExecutor.Execute is called.  A disabled engine skips the rule.     *)
RefuseSymbol(r) == RiskEnabled /\ Decide(r, "symbol", {"reject"})

CallExecute(r) == /\ stage[r] = "symbol"
                  /\ Exec!Begin(r)
                  /\ StageTo(r, "execute")
                  /\ UNCHANGED <<life, stream, response, riskVars>>

Execute(r) == /\ Exec!ExecuteStep(r)
              /\ UNCHANGED <<handlerVars, riskVars>>

\* Mutant of Verdict: the error Execute returned is not looked at.
Verdict_ErrorIgnored(r) == IF stage[r] = "execute" THEN "ACCEPTED"
                                                   ELSE "REJECTED"

(* sendResponse: on a closed stream, or on a send error, the response is   *)
(* logged and lost.                                                        *)
Verdict(r) == IF stage[r] = "execute" /\ pc[r] = "ok" THEN "ACCEPTED"
                                                      ELSE "REJECTED"

\* Mutant of Respond: no answer on the early returns.
Respond_OnlyExecuted(r) ==
  /\ stage[r] = "execute" /\ pc[r] \in {"ok", "error"}
  /\ \/ /\ stream[StreamOf[r]] = "open"
        /\ response' = [response EXCEPT ![r] = Verdict(r)]
     \/ response' = [response EXCEPT ![r] = "lost"]
  /\ StageTo(r, "done")
  /\ UNCHANGED <<executorVars, life, stream, riskVars>>

Respond(r) ==
  /\ \/ stage[r] = "reject"
     \/ stage[r] = "execute" /\ pc[r] \in {"ok", "error"}
  /\ \/ /\ stream[StreamOf[r]] = "open"
        /\ response' = [response EXCEPT ![r] = Verdict(r)]
     \/ response' = [response EXCEPT ![r] = "lost"]
  /\ StageTo(r, "done")
  /\ UNCHANGED <<executorVars, life, stream, riskVars>>

(* A stream ends, and with it the context of all its requests: the client  *)
(* leaves, or half-closes while it waits for answers (io.EOF), or the      *)
(* server drops a connection that reached MaxConnectionAge.                *)
EndStreams(S) == /\ stream' = [s \in Streams |-> IF s \in S THEN "closed"
                                                            ELSE stream[s]]
                 /\ Exec!EndContexts({r \in Orders : StreamOf[r] \in S})

Disconnect(s) == /\ stream[s] = "open"
                 /\ EndStreams({s})
                 /\ UNCHANGED <<life, stage, response, riskVars>>

(* The signal, then Server.Stop: GracefulStop returns when no stream is    *)
(* left, and past the shutdown timeout grpcServer.Stop ends those that are.*)
Signal == /\ life = "up"
          /\ life' = "stopping"
          /\ UNCHANGED <<executorVars, stream, stage, response, riskVars>>

OpenStreams == {s \in Streams : stream[s] = "open"}
ForceStop == /\ life = "stopping"
             /\ OpenStreams # {}
             /\ EndStreams(OpenStreams)
             /\ UNCHANGED <<life, stage, response, riskVars>>

(* The process ends with its goroutines; Redis and the database stay.      *)
Gone == /\ Exec!Crash
        /\ stage' = [r \in Orders |-> IF stage[r] \in InFlight THEN "crashed"
                                                               ELSE stage[r]]
        /\ life' = "down"
        /\ UNCHANGED <<response, riskVars>>

(* The rest of run: the producer, Redis and the pool are closed and main   *)
(* returns, whatever processOrder goroutines still run.                    *)
\* Mutant of Exit: the process does not wait for its streams.
Exit_Now == life = "stopping" /\ Gone /\ UNCHANGED stream

Exit == /\ life = "stopping"
        /\ OpenStreams = {}
        /\ Gone
        /\ UNCHANGED stream

Crash == /\ life # "down"
         /\ Gone
         /\ stream' = [s \in Streams |-> IF stream[s] = "open" THEN "closed"
                                                              ELSE stream[s]]

Cancel == /\ life # "down"
          /\ \E c \in Cancellers : \/ Exec!CancelStep(c)
                                   \/ \E o \in Orders : Exec!CancelGetOrder(c, o)
          /\ UNCHANGED <<handlerVars, riskVars>>

ProcessStep(r) ==
  \/ CheckRateLimit(r) \/ CheckPriceRules(r)
  \/ CheckDuplicate(r) \/ SetFingerprint(r)
  \/ RefuseSymbol(r) \/ CallExecute(r) \/ Execute(r) \/ Respond(r)

Next == \/ \E s \in Streams : Connect(s) \/ Disconnect(s)
        \/ \E r \in Orders : Receive(r) \/ ProcessStep(r)
        \/ \E f \in Fingerprints : ExpireFingerprint(f)
        \/ Cancel
        \/ Start \/ Signal \/ ForceStop \/ Exit \/ Crash

(* Goroutines that can run are run; the calls they make return; the        *)
(* shutdown timeout passes.                                                *)
Fairness == /\ \A r \in Orders : WF_vars(ProcessStep(r))
            /\ WF_vars(ForceStop) /\ WF_vars(Exit)

Spec == Init /\ [][Next]_vars
LiveSpec == Spec /\ Fairness

-----------------------------------------------------------------------------
(* Properties.                                                             *)

\* A client that is told ACCEPTED has an order at the broker and a row in the
\* table, whatever happened to its stream and to other requests
\* (handler.go:160-170).
AcceptedIsReal ==
  /\ TypeOK
  /\ \A r \in Orders :
       response[r] = "ACCEPTED" => placed[r] > 0 /\ status[r] # "none"

\* The row of an order that a client was told is ACCEPTED says SENT, or
\* CANCELLED if somebody cancelled it, unless a failed statement was logged
\* and passed over (order_executor.go:78-90).
AcceptedIsRecorded ==
  \A r \in Orders :
    response[r] = "ACCEPTED" => status[r] \in {"SENT", "CANCELLED"} \/ logged[r]

\* Of two orders with one fingerprint in one window the second passes the
\* duplicate rule after the first only if the first one's SET failed; any other
\* two passed because their checks overlapped in time (rules.go:247-266).
RepeatsHaveACause ==
  \A f \in Fingerprints : \A q, r \in window[f] : q \in earlier[r] => q \in unset

\* A stop cuts no request off whose client still waits (server.go:103-127), and
\* a client that was told REJECTED although an order is at the broker owes it
\* to a broker whose answers were lost until the retries were used up, with no
\* row that says otherwise (handler.go:160-170).
UnansweredExplained ==
  \A r \in Orders :
    /\ stage[r] = "crashed" => stream[StreamOf[r]] = "closed"
    /\ response[r] = "REJECTED" =>
         /\ placed[r] > 0 => attempt[r] = MaxRetries + 1
         /\ status[r] # "SENT" /\ brokerId[r] = 0

\* Every request that was received is answered, or its answer is lost with
\* its stream, unless the process dies (handler.go:127-170); and a process
\* told to stop goes down, whatever its clients do (server.go:103-127).
EveryRequestAnswered ==
  /\ \A r \in Orders :
       stage[r] \in InFlight ~> response[r] # "none" \/ stage[r] = "crashed"
  /\ life = "stopping" ~> life = "down"
=============================================================================
