----------------------------- MODULE MarketFeed -----------------------------
(***************************************************************************)
(* The WebSocket client of the data-ingestion-service                      *)
(* (internal/kis/client.go) and its access token (internal/kis/auth.go).   *)
(* Four goroutines share the connection: the reader, the processor of what *)
(* was read, the heartbeat and the reconnect handler; main starts them,    *)
(* subscribes and stops them.  The mutex is held while a connection is     *)
(* dialled, and else only for moments.                                     *)
(*                                                                         *)
(* Connections are numbered in the order in which they were established.   *)
(***************************************************************************)
EXTENDS Naturals, FiniteSets

CONSTANTS MaxConns,    \* bound: connections that are ever established
          MaxAttempts, \* KISConfig.ReconnectRetries
          BufferSize   \* capacity of messageChan

FeedAssumption ==
  MaxConns \in Nat \ {0} /\ MaxAttempts \in Nat \ {0} /\ BufferSize \in Nat \ {0}

VARIABLES
  conn,      \* Client.conn, 0 for nil
  status,    \* Client.status
  wire,      \* [Connections -> Wire], what became of each connection
  trigger,   \* BOOLEAN, reconnectChan (capacity 1) holds a signal
  inbox,     \* messages in messageChan
  ctxDone,   \* Client.ctx is cancelled
  token,     \* the AuthManager has a token that has not expired
  main,      \* where Start, Subscribe and Stop are
  reader, readConn, \* where readMessages is, and its copy of conn
  processor, \* where processMessages is
  beat, beatConn,   \* where heartbeat is, and its copy of conn
  handler,   \* where handleReconnect is
  attempt    \* attempt of reconnect

connVars == <<conn, status, wire>>
readerVars == <<reader, readConn>>
beatVars == <<beat, beatConn>>
handlerVars == <<handler, attempt>>
vars == <<connVars, trigger, inbox, ctxDone, token, main, readerVars, processor,
          beatVars, handlerVars>>

Connections == 1..MaxConns
Wire == {"none", "up", "broken", "closed"}
Up(c) == wire[c] = "up"
Open == {c \in Connections : wire[c] \in {"up", "broken"}}   \* not closed by us

TypeOK ==
  /\ conn \in Connections \cup {0}
  /\ status \in {"disconnected", "connecting", "connected", "reconnecting"}
  /\ wire \in [Connections -> Wire]
  /\ trigger \in BOOLEAN /\ inbox \in 0..BufferSize
  /\ ctxDone \in BOOLEAN /\ token \in BOOLEAN
  /\ main \in {"connect", "dialing", "subscribe", "running", "stopping",
               "waiting", "stopped", "failed"}
  /\ reader \in {"check", "lock", "read", "done"}
  /\ readConn \in Connections \cup {0} /\ (reader = "read" => readConn # 0)
  /\ processor \in {"wait", "handling", "done"}
  /\ beat \in {"wait", "ping", "done"}
  /\ beatConn \in Connections \cup {0} /\ (beat = "ping" => beatConn # 0)
  /\ handler \in {"wait", "reconnect", "attempt", "connect", "dialing",
                  "exhausted", "done"}
  /\ attempt \in 0..MaxAttempts

Init == /\ conn = 0 /\ status = "disconnected"
        /\ wire = [c \in Connections |-> "none"]
        /\ trigger = FALSE /\ inbox = 0 /\ ctxDone = FALSE /\ token = TRUE
        /\ main = "connect"
        /\ reader = "check" /\ readConn = 0 /\ processor = "wait"
        /\ beat = "wait" /\ beatConn = 0
        /\ handler = "wait" /\ attempt = 0

\* The goroutines run once Start has connected.
Started == main \notin {"connect", "dialing", "failed"}
Locked == main = "dialing" \/ handler = "dialing"

-----------------------------------------------------------------------------
(* connect: the lock is taken and the token asked for; then, with the lock *)
(* held, the connection is dialled and the authentication message sent.    *)
Dial == /\ ~Locked /\ token
        /\ status' = "connecting"
        /\ UNCHANGED <<conn, wire>>
NoToken == /\ ~Locked /\ ~token
           /\ status' = "connecting"
           /\ UNCHANGED <<conn, wire>>
Established ==
  \E c \in Connections :
    /\ wire[c] = "none" /\ \A b \in 1..(c - 1) : wire[b] # "none"
    /\ wire' = [wire EXCEPT ![c] = "up"]
    /\ conn' = c /\ status' = "connected"

-----------------------------------------------------------------------------
(* main: Start, Subscribe, Stop.                                           *)
MainTo(from, to) == main = from /\ main' = to

StartConnect ==
  /\ \/ MainTo("connect", "dialing") /\ Dial
     \/ MainTo("connect", "failed") /\ NoToken
  /\ UNCHANGED <<trigger, inbox, ctxDone, token, readerVars, processor,
                 beatVars, handlerVars>>

StartDialled ==
  /\ \/ MainTo("dialing", "subscribe") /\ Established
     \/ MainTo("dialing", "failed") /\ UNCHANGED connVars
  /\ UNCHANGED <<trigger, inbox, ctxDone, token, readerVars, processor,
                 beatVars, handlerVars>>

\* Service.Start subscribes on the connection there is then, and never again;
\* a failure is logged and the service runs.
Subscribe ==
  /\ MainTo("subscribe", "running")
  /\ ~Locked
  /\ UNCHANGED <<connVars, trigger, inbox, ctxDone, token, readerVars,
                 processor, beatVars, handlerVars>>

StopCancel ==
  /\ MainTo("running", "stopping")
  /\ ctxDone' = TRUE
  /\ UNCHANGED <<connVars, trigger, inbox, token, readerVars, processor,
                 beatVars, handlerVars>>

CloseConn == wire' = [c \in Connections |-> IF c = conn THEN "closed" ELSE wire[c]]

\* Stop closes the connection but keeps conn and status.
StopClose ==
  /\ MainTo("stopping", "waiting")
  /\ ~Locked
  /\ CloseConn
  /\ UNCHANGED <<conn, status, trigger, inbox, ctxDone, token, readerVars,
                 processor, beatVars, handlerVars>>

\* wg.Wait.
StopWait ==
  /\ MainTo("waiting", "stopped")
  /\ reader = "done" /\ processor = "done" /\ beat = "done" /\ handler = "done"
  /\ UNCHANGED <<connVars, trigger, inbox, ctxDone, token, readerVars,
                 processor, beatVars, handlerVars>>

-----------------------------------------------------------------------------
\* Mutant of TriggerReconnect: only while the client is not connected.
TriggerReconnect_OnlyDown == trigger' = (trigger \/ status # "connected")

\* A signal is dropped if one is pending.
TriggerReconnect == trigger' = TRUE

ReaderTo(from, to) == Started /\ reader = from /\ reader' = to

\* Mutant of ReaderCheck: only the send on messageChan looks at the context.
ReaderCheck_NoContext ==
  /\ ReaderTo("check", "lock")
  /\ UNCHANGED <<connVars, trigger, inbox, ctxDone, token, main, readConn,
                 processor, beatVars, handlerVars>>

(* readMessages: ctx is looked at, conn is copied under the lock and read  *)
(* from without it.                                                        *)
ReaderCheck ==
  /\ ReaderTo("check", IF ctxDone THEN "done" ELSE "lock")
  /\ UNCHANGED <<connVars, trigger, inbox, ctxDone, token, main, readConn,
                 processor, beatVars, handlerVars>>

ReaderLock ==
  /\ ReaderTo("lock", IF conn = 0 THEN "check" ELSE "read")
  /\ ~Locked
  /\ readConn' = conn
  /\ UNCHANGED <<connVars, trigger, inbox, ctxDone, token, main, processor,
                 beatVars, handlerVars>>

\* A message: it is buffered, or dropped as the buffer is full, or the reader
\* sees the end of the context at the same time.
ReadMessage ==
  /\ reader = "read" /\ Up(readConn)
  /\ \/ ReaderTo("read", "check") /\ inbox < BufferSize /\ inbox' = inbox + 1
     \/ ReaderTo("read", "check") /\ inbox = BufferSize /\ ~ctxDone
        /\ UNCHANGED inbox
     \/ ReaderTo("read", "done") /\ ctxDone /\ UNCHANGED inbox
  /\ readConn' = 0
  /\ UNCHANGED <<connVars, trigger, ctxDone, token, main, processor,
                 beatVars, handlerVars>>

ReadFails ==
  /\ ReaderTo("read", "check")
  /\ ~Up(readConn) /\ readConn' = 0
  /\ TriggerReconnect
  /\ UNCHANGED <<connVars, inbox, ctxDone, token, main, processor,
                 beatVars, handlerVars>>

ReaderStep == ReaderCheck \/ ReaderLock \/ ReadMessage \/ ReadFails

(* processMessages.                                                        *)
ProcessorTo(from, to) == Started /\ processor = from /\ processor' = to

ProcessorStep ==
  /\ \/ ProcessorTo("wait", "done") /\ ctxDone /\ UNCHANGED inbox
     \/ ProcessorTo("wait", "handling") /\ inbox > 0 /\ inbox' = inbox - 1
     \/ ProcessorTo("handling", "wait") /\ UNCHANGED inbox
  /\ UNCHANGED <<connVars, trigger, ctxDone, token, main, readerVars, beatVars,
                 handlerVars>>

(* heartbeat: conn is copied under the lock and pinged without it.  A      *)
(* write on a broken connection may still go into a buffer.                *)
BeatTo(from, to) == Started /\ beat = from /\ beat' = to

Tick ==
  /\ BeatTo("wait", "ping")
  /\ ~Locked
  /\ status = "connected" /\ conn # 0
  /\ beatConn' = conn
  /\ UNCHANGED <<connVars, trigger, inbox, ctxDone, token, main, readerVars,
                 processor, handlerVars>>

Ping ==
  /\ BeatTo("ping", "wait")
  /\ \/ wire[beatConn] # "closed" /\ UNCHANGED trigger
     \/ ~Up(beatConn) /\ TriggerReconnect
  /\ beatConn' = 0
  /\ UNCHANGED <<connVars, inbox, ctxDone, token, main, readerVars, processor,
                 handlerVars>>

BeatEnds ==
  /\ BeatTo("wait", "done")
  /\ ctxDone
  /\ UNCHANGED <<connVars, trigger, inbox, ctxDone, token, main, readerVars,
                 processor, beatConn, handlerVars>>

-----------------------------------------------------------------------------
(* handleReconnect and reconnect.                                          *)
HandlerTo(from, to) == Started /\ handler = from /\ handler' = to

HandlerEnds ==
  /\ HandlerTo("wait", "done")
  /\ ctxDone
  /\ UNCHANGED <<connVars, trigger, inbox, ctxDone, token, main, readerVars,
                 processor, beatVars, attempt>>

TakeTrigger ==
  /\ HandlerTo("wait", "reconnect")
  /\ trigger /\ trigger' = FALSE
  /\ UNCHANGED <<connVars, inbox, ctxDone, token, main, readerVars, processor,
                 beatVars, attempt>>

\* Mutant of CloseOld: the old connection is let go without being closed.
CloseOld_NotClosed ==
  /\ ~Locked
  /\ HandlerTo("reconnect", "attempt")
  /\ status # "reconnecting" /\ status' = "reconnecting"
  /\ conn' = 0 /\ attempt' = 1
  /\ UNCHANGED <<wire, trigger, inbox, ctxDone, token, main, readerVars,
                 processor, beatVars>>

\* The first critical section of reconnect.  What state the connection is in
\* is not looked at.
CloseOld ==
  /\ ~Locked
  /\ \/ /\ HandlerTo("reconnect", "wait")
        /\ status = "reconnecting"
        /\ UNCHANGED <<connVars, attempt>>
     \/ /\ HandlerTo("reconnect", "attempt")
        /\ status # "reconnecting" /\ status' = "reconnecting"
        /\ CloseConn
        /\ conn' = 0 /\ attempt' = 1
  /\ UNCHANGED <<trigger, inbox, ctxDone, token, main, readerVars, processor,
                 beatVars>>

\* The head of the retry loop; status stays as it is if the context has ended.
Attempt ==
  /\ HandlerTo("attempt", IF ctxDone THEN "wait" ELSE "connect")
  /\ attempt' = IF ctxDone THEN 0 ELSE attempt
  /\ UNCHANGED <<connVars, trigger, inbox, ctxDone, token, main, readerVars,
                 processor, beatVars>>

\* Mutant of AttemptFails: the loop has no end.
AttemptFails_Forever(from) ==
  HandlerTo(from, "attempt") /\ UNCHANGED attempt

\* The handler sleeps and tries again, or has used all attempts.
AttemptFails(from) ==
  \/ HandlerTo(from, "attempt") /\ attempt < MaxAttempts /\ attempt' = attempt + 1
  \/ HandlerTo(from, "exhausted") /\ attempt = MaxAttempts /\ UNCHANGED attempt

Reconnect ==
  /\ \/ HandlerTo("connect", "dialing") /\ Dial /\ UNCHANGED attempt
     \/ NoToken /\ AttemptFails("connect")
     \/ HandlerTo("dialing", "wait") /\ Established /\ attempt' = 0
     \/ AttemptFails("dialing") /\ UNCHANGED connVars
  /\ UNCHANGED <<trigger, inbox, ctxDone, token, main, readerVars, processor,
                 beatVars>>

GiveUp ==
  /\ HandlerTo("exhausted", "wait")
  /\ ~Locked
  /\ status' = "disconnected" /\ attempt' = 0
  /\ UNCHANGED <<conn, wire, trigger, inbox, ctxDone, token, main, readerVars,
                 processor, beatVars>>

HandlerStep == HandlerEnds \/ TakeTrigger \/ CloseOld \/ Attempt \/ Reconnect \/ GiveUp

-----------------------------------------------------------------------------
(* The network breaks a connection; the token expires and is refreshed by  *)
(* startRefreshTask, whose requests may fail for a while.                  *)
Break(c) ==
  /\ Up(c)
  /\ wire' = [wire EXCEPT ![c] = "broken"]
  /\ UNCHANGED <<conn, status, trigger, inbox, ctxDone, token, main, readerVars,
                 processor, beatVars, handlerVars>>

RefreshToken ==
  /\ token' = ~token
  /\ UNCHANGED <<connVars, trigger, inbox, ctxDone, main, readerVars, processor,
                 beatVars, handlerVars>>

StopStep == StopClose \/ StopWait

Next == \/ StartConnect \/ StartDialled \/ Subscribe \/ StopCancel \/ StopStep
        \/ ReaderStep \/ ProcessorStep
        \/ Tick \/ Ping \/ BeatEnds
        \/ HandlerStep
        \/ \E c \in Connections : Break(c)
        \/ RefreshToken

(* The goroutines are scheduled, dialling returns (HandshakeTimeout), a     *)
(* goroutine that waits for the mutex gets it in the end (sync.RWMutex),   *)
(* and a select that finds the end of the context ready again and again    *)
(* chooses it.  On an open connection something is received sooner or      *)
(* later, or it breaks: KIS sends messages of its own to keep a session.   *)
(* Ticks are not assumed: nothing depends on them.                         *)
Fairness == /\ SF_vars(ReaderStep) /\ WF_vars(ProcessorStep)
            /\ WF_vars(Ping) /\ SF_vars(BeatEnds)
            /\ WF_vars(HandlerStep)
            /\ SF_vars(StopStep)

Spec == Init /\ [][Next]_vars
LiveSpec == Spec /\ Fairness

-----------------------------------------------------------------------------
(* Properties.                                                             *)

\* The client has one connection at a time and forgets none: every connection
\* but the present one is closed (client.go:299-303), and while it is not being
\* stopped, "connected" means that the present one is not closed.
OneConnection ==
  /\ TypeOK
  /\ Open \subseteq {conn}
  /\ status = "connected" <=> conn # 0
  /\ conn # 0 /\ ~ctxDone => conn \in Open

\* A broken connection does not stay: although a signal is dropped if one is
\* pending, the handler gets to it (client.go:281-287), and its reconnection
\* ends: the client is connected again, gives up, or is stopped (317-350).
FailureNoticed ==
  /\ \A c \in Connections :
       conn = c /\ wire[c] = "broken" ~> conn # c \/ ctxDone
  /\ handler = "reconnect" ~> handler \in {"wait", "done"}

\* Stop returns (client.go:88-108).
StopReturns == main = "stopping" ~> main = "stopped"
=============================================================================
