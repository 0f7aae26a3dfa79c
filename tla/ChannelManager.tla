---------------------------- MODULE ChannelManager ----------------------------
(***************************************************************************)
(* ChannelManager (notification-service, internal/channels/manager.go):    *)
(* the registry of the channels, the routing rules, sending to several     *)
(* channels in parallel, the counters, and the health and metrics          *)
(* endpoints that read them.  Two locks: mu guards the channels and the    *)
(* rules, metricsLock the counters.  GetMetrics takes only the second, so  *)
(* that the channels may change while it ranges over them.                 *)
(***************************************************************************)
EXTENDS Naturals, FiniteSets, FiniteSetsExt

CONSTANTS Callers,    \* goroutines that send, one notification each
          Events,     \* event types
          Names,      \* names that channels are registered under, "slack" among
                      \* them
          NameOf,     \* what Name() of the channel registered under a name says
          InitChannels, InitRules,  \* what NewChannelManager is given; the
                      \* rules: a function from some events to sets of names
          NewRules,   \* sets of names that AddRoutingRule may be given
          MaxChanges  \* bound on changes of the registry and of the rules

ManagerAssumption ==
  /\ IsFiniteSet(Callers) /\ IsFiniteSet(Names)
  /\ DOMAIN NameOf = Names /\ InitChannels \subseteq Names
  /\ DOMAIN InitRules \subseteq Events
  /\ \A e \in DOMAIN InitRules : InitRules[e] \subseteq Names
  /\ NewRules \subseteq SUBSET Names
  /\ MaxChanges \in Nat

VARIABLES
  channels,  \* SUBSET Names, the registered ones
  counted,   \* SUBSET Names, those that counters are kept under
  rules,     \* event -> names
  adding,    \* names RegisterChannel has put in channels, without counters yet
  job,       \* [Callers -> Job], a send and its goroutines
  total,     \* [sent, failed]: totalSent, totalFailed
  counter,   \* [Names -> [sent, failed]]
  health,    \* the HealthCheck in progress: [on, left]
  reading,   \* the GetMetrics in progress: [on, left], left to range over
  panicked,  \* "no", "registering": GetMetrics found a channel without counters
             \* while a registration was half done; "settled": at another time;
             \* "conflict": the channels changed under it, which is fatal
  changes, gone, again, \* changes so far; history: names unregistered once,
                        \* and names registered again after that
  stray      \* history: channels under whose Name() there was nothing to count in

registryVars == <<channels, counted, rules, adding, changes, gone, again>>
metricVars == <<total, counter, stray>>
readVars == <<reading, panicked>>
vars == <<registryVars, job, metricVars, health, readVars>>

Result == {"none", "nil", "error"}
Job == [pc : {"idle", "sending", "done"},
        left : SUBSET Names,     \* goroutines still in channel.Send
        sent : SUBSET Names, failed : SUBSET Names,   \* and their answers
        took : SUBSET Names,     \* history: those that took the notification
        toCount : SUBSET Names,  \* totals updated, counter of the channel not
        direct : BOOLEAN,        \* it is a SendToChannel
        result : Result]
NoJob == [pc |-> "idle", left |-> {}, sent |-> {}, failed |-> {}, took |-> {},
          toCount |-> {}, direct |-> FALSE, result |-> "none"]
NoCount == [sent |-> 0, failed |-> 0]

TypeOK ==
  /\ channels \subseteq Names /\ counted \subseteq Names /\ adding \subseteq Names
  /\ DOMAIN rules \subseteq Events /\ \A e \in DOMAIN rules : rules[e] \subseteq Names
  /\ job \in [Callers -> Job]
  /\ DOMAIN counter = Names
  /\ health.on \in BOOLEAN /\ health.left \subseteq Names
  /\ reading.on \in BOOLEAN /\ reading.left \subseteq Names
  /\ panicked \in {"no", "registering", "settled", "conflict"} /\ stray \subseteq Names
  /\ changes \in 0..MaxChanges /\ gone \subseteq Names /\ again \subseteq gone

(* NewChannelManager; setDefaultRoutingRules sends orders to slack and     *)
(* email, risk alerts to all and system alerts to slack and telegram.      *)
DefaultRule(e) == IF e = "risk" THEN {"slack", "telegram", "email"}
                  ELSE IF e = "system" THEN {"slack", "telegram"}
                                       ELSE {"slack", "email"}
KnownEvents == {"order", "position", "risk", "system"}
Init == /\ channels = InitChannels /\ counted = InitChannels
        /\ rules = IF DOMAIN InitRules = {}
                   THEN [e \in Events \cap KnownEvents |-> DefaultRule(e) \cap Names]
                   ELSE InitRules
        /\ adding = {} /\ job = [c \in Callers |-> NoJob]
        /\ total = NoCount /\ counter = [n \in Names |-> NoCount]
        /\ health = [on |-> FALSE, left |-> {}]
        /\ reading = [on |-> FALSE, left |-> {}] /\ panicked = "no"
        /\ changes = 0 /\ gone = {} /\ again = {} /\ stray = {}

\* mu is free for a writer; for a reader only writers matter.
Writable == adding = {} /\ ~health.on
Readable == adding = {}
Change == changes < MaxChanges /\ changes' = changes + 1

-----------------------------------------------------------------------------
(* A change of the channels while GetMetrics ranges over them: the runtime *)
(* may notice, and the range may come to the new one or not.               *)
Disturbed(left) ==
  IF reading.on THEN /\ panicked' \in {panicked, "conflict"}
                     /\ \E l \in left : reading' = [reading EXCEPT !.left = l]
                ELSE UNCHANGED readVars

\* Mutant of RegisterChannel: a name already registered is taken as well.
RegisterChannel_Overwrites(n) ==
  /\ Writable /\ Change
  /\ channels' = channels \cup {n} /\ adding' = {n}
  /\ again' = again \cup ({n} \cap gone)
  /\ Disturbed({reading.left, reading.left \cup {n}})
  /\ UNCHANGED <<counted, rules, job, metricVars, health, gone>>

(* RegisterChannel, under mu: the channel, then the lock of the metrics    *)
(* and new counters.                                                       *)
RegisterChannel(n) ==
  /\ Writable /\ Change
  /\ n \notin channels
  /\ channels' = channels \cup {n} /\ adding' = {n}
  /\ again' = again \cup ({n} \cap gone)
  /\ Disturbed({reading.left, reading.left \cup {n}})
  /\ UNCHANGED <<counted, rules, job, metricVars, health, gone>>

NewCounters(n) ==
  /\ ~reading.on
  /\ n \in adding /\ adding' = {}
  /\ counted' = counted \cup {n}
  /\ counter' = [counter EXCEPT ![n] = NoCount]
  /\ UNCHANGED <<channels, rules, job, total, stray, health, readVars, changes, gone,
                 again>>

(* UnregisterChannel, which leaves the counters; any name will do.         *)
UnregisterChannel(n) ==
  /\ Writable /\ Change
  /\ channels' = channels \ {n} /\ gone' = gone \cup ({n} \cap channels)
  /\ Disturbed({reading.left \ {n}})
  /\ UNCHANGED <<counted, rules, adding, job, metricVars, health, again>>

AddRoutingRule(e, S) ==
  /\ Writable /\ Change
  /\ rules' = [x \in DOMAIN rules \cup {e} |-> IF x = e THEN S ELSE rules[x]]
  /\ UNCHANGED <<channels, counted, adding, job, metricVars, health, readVars,
                 gone, again>>

-----------------------------------------------------------------------------
(* getTargetChannels: the rule; without one, every channel for a critical  *)
(* notification and slack for another.  Unregistered names drop out.       *)
TargetChannels(e, critical) ==
  channels \cap (IF e \in DOMAIN rules THEN rules[e]
                 ELSE IF critical THEN channels ELSE {"slack"})

(* sendToChannels starts a goroutine per channel; none is an error.        *)
StartJob(c, S, direct) ==
  /\ job[c].pc = "idle"
  /\ job' = [job EXCEPT ![c] =
       IF S = {} THEN [NoJob EXCEPT !.pc = "done", !.result = "error"]
                 ELSE [NoJob EXCEPT !.pc = "sending", !.left = S, !.direct = direct]]
  /\ UNCHANGED <<registryVars, metricVars, health, readVars>>

Send(c, e, critical) == Readable /\ StartJob(c, TargetChannels(e, critical), FALSE)
SendToChannels(c, S) == Readable /\ StartJob(c, S \cap channels, FALSE)
SendToChannel(c, n) == Readable /\ StartJob(c, {n} \cap channels, TRUE)

(* channel.Send returns within its 30 s: nil, or an error, though the      *)
(* channel may have taken the notification then as well.  recordSuccess    *)
(* and recordFailure add to the total first.                               *)
Answered(c, n) ==
  /\ n \in job[c].left
  /\ \/ /\ job' = [job EXCEPT ![c].left = @ \ {n}, ![c].sent = @ \cup {n},
                              ![c].took = @ \cup {n}, ![c].toCount = @ \cup {n}]
        /\ total' = [total EXCEPT !.sent = @ + 1]
     \/ /\ \E taken \in {{}, {n}} :
             job' = [job EXCEPT ![c].left = @ \ {n}, ![c].failed = @ \cup {n},
                                ![c].took = @ \cup taken, ![c].toCount = @ \cup {n}]
        /\ total' = [total EXCEPT !.failed = @ + 1]
  /\ UNCHANGED <<registryVars, counter, stray, health, readVars>>

(* SendToChannel counts under the registered name, the others under what   *)
(* the channel says its name is; without a counter there, nothing counts.  *)
Label(c, n) == IF job[c].direct THEN n ELSE NameOf[n]
Recorded(c, n) == /\ job' = [job EXCEPT ![c].toCount = @ \ {n}]
                  /\ stray' = IF Label(c, n) \in counted THEN stray ELSE stray \cup {n}
                  /\ UNCHANGED <<registryVars, total, health, readVars>>

RecordSuccess(c, n) ==
  /\ n \in job[c].toCount /\ n \in job[c].sent
  /\ counter' = IF Label(c, n) \in counted
                THEN [counter EXCEPT ![Label(c, n)].sent = @ + 1] ELSE counter
  /\ Recorded(c, n)

RecordFailure(c, n) ==
  /\ n \in job[c].toCount /\ n \in job[c].failed
  /\ counter' = IF Label(c, n) \in counted
                THEN [counter EXCEPT ![Label(c, n)].failed = @ + 1] ELSE counter
  /\ Recorded(c, n)

(* wg.Wait returned: one success is enough.                                *)
SendReturns(c) ==
  /\ job[c].pc = "sending" /\ job[c].left = {} /\ job[c].toCount = {}
  /\ job' = [job EXCEPT ![c].pc = "done",
                        ![c].result = IF job[c].sent # {} THEN "nil" ELSE "error"]
  /\ UNCHANGED <<registryVars, metricVars, health, readVars>>

-----------------------------------------------------------------------------
(* HealthCheck, for /health: mu is held for reading until every channel    *)
(* has answered.                                                           *)
HealthCheck ==
  /\ Readable /\ ~health.on
  /\ health' = [on |-> TRUE, left |-> channels]
  /\ UNCHANGED <<registryVars, job, metricVars, readVars>>

Checked(n) ==
  /\ health.on /\ n \in health.left
  /\ health' = [health EXCEPT !.left = @ \ {n}]
  /\ UNCHANGED <<registryVars, job, metricVars, readVars>>

HealthChecked ==
  /\ health.on /\ health.left = {}
  /\ health' = [on |-> FALSE, left |-> {}]
  /\ UNCHANGED <<registryVars, job, metricVars, readVars>>

(* GetMetrics, for /metrics: holds metricsLock for reading and ranges over *)
(* the channels, without mu.                                               *)
GetMetrics ==
  /\ ~reading.on
  /\ reading' = [on |-> TRUE, left |-> channels]
  /\ UNCHANGED <<registryVars, job, metricVars, health, panicked>>

(* It loads the counters of one of them.  The map holds nil for a missing  *)
(* one: the handler panics and gives the lock back.                        *)
Loaded(n) ==
  /\ reading.on /\ n \in reading.left
  /\ IF n \in counted
     THEN /\ reading' = [reading EXCEPT !.left = @ \ {n}]
          /\ UNCHANGED panicked
     ELSE /\ reading' = [on |-> FALSE, left |-> {}]
          /\ panicked' = IF adding # {} THEN "registering" ELSE "settled"
  /\ UNCHANGED <<registryVars, job, metricVars, health>>

MetricsRead ==
  /\ reading.on /\ reading.left = {}
  /\ reading' = [on |-> FALSE, left |-> {}]
  /\ UNCHANGED <<registryVars, job, metricVars, health, panicked>>

Sending(c) == \/ \E n \in Names : \/ Answered(c, n)
                                  \/ RecordSuccess(c, n) \/ RecordFailure(c, n)
              \/ SendReturns(c)

Step == \/ \E n \in Names : RegisterChannel(n) \/ NewCounters(n)
                            \/ UnregisterChannel(n) \/ Checked(n) \/ Loaded(n)
        \/ \E e \in Events : \E S \in NewRules : AddRoutingRule(e, S)
        \/ \E c \in Callers :
             \/ \E e \in Events, b \in BOOLEAN : Send(c, e, b)
             \/ \E S \in NewRules : SendToChannels(c, S)
             \/ \E n \in Names : SendToChannel(c, n)
             \/ Sending(c)
        \/ HealthCheck \/ HealthChecked \/ GetMetrics \/ MetricsRead

\* A conflict ends the process.
Next == panicked # "conflict" /\ Step

Spec == Init /\ [][Next]_vars

-----------------------------------------------------------------------------
\* What the endpoints and the callers are told is true although registry and
\* counters have a lock each.  The counters add up to the totals when nothing is
\* being sent, unless a channel was registered twice or one whose Name() is not
\* the name it is registered under had nothing to count in.  Reading them fails
\* only inside a registration or when the channels change meanwhile.  Of a send
\* reported as successful a channel has the notification, of one reported as
\* failed none but such as answered with an error.  And the channels do not
\* change under a health check (manager.go:94-128, 151-268, 300-361).
Settled == \A c \in Callers : job[c].pc # "sending"
ReportsAreTrue ==
  /\ TypeOK
  /\ \A n \in stray : NameOf[n] # n
  /\ Settled /\ again = {} /\ stray = {} =>
       /\ total.sent = MapThenSumSet(LAMBDA n : counter[n].sent, Names)
       /\ total.failed = MapThenSumSet(LAMBDA n : counter[n].failed, Names)
  /\ panicked # "settled"
  /\ \A c \in Callers :
       /\ job[c].result = "nil" => job[c].took # {}
       /\ job[c].result = "error" => job[c].took \subseteq job[c].failed
  /\ health.on => health.left \subseteq channels
=============================================================================
