------------------------- MODULE NotificationDispatch -------------------------
(***************************************************************************)
(* The notification-service from Kafka to the user: the consumer group of  *)
(* shared/go/pkg/kafka, NotificationConsumer.handleMessage, the retry loops*)
(* of the consumer and of the three channels inside it, the tables of      *)
(* preferences and history, and the shutdown of cmd/server.                *)
(* One partition, hence one goroutine that handles messages one by one.    *)
(***************************************************************************)
EXTENDS Naturals, Sequences, FiniteSets

Channel == {"email", "slack", "telegram"}
Order == <<"email", "slack", "telegram">>    \* ORDER BY channel

\* What getRecipients, getWebhookURL and getChatIDs look up in Notification.Data.
Key == {"email", "emails", "slack_webhook_url",
        "telegram_chat_id", "telegram_chat_ids"}

CONSTANTS
  Log,            \* the partition: a sequence of event kinds, see Kind
  Carries,        \* the keys that the data of the event at an offset has
  Tables,         \* what GetUserPreferences may find: functions from the
                  \* channels that have a row to [enabled, keys, blank]: the
                  \* keys that the config column sets, to a value that is of
                  \* use or (blank) to an empty one or one of another type
  Available,      \* the channels that initChannels created
  DefaultWebhook, \* BOOLEAN, SLACK_DEFAULT_WEBHOOK_URL is set
  Chats,          \* telegram_chat_ids has this many members
  MaxRetries,     \* Notification.MaxRetries, of both loops
  MaxRestarts     \* bound on rebalances and crashes

Kind == {"malformed", "untemplated", "ok"}
Offset == 1..Len(Log)
Nobody == "nobody"
Event == "event"
Destination == 1..Chats

ASSUME DispatchAssumption ==
  /\ Log \in Seq(Kind)
  /\ Carries \in [Offset -> SUBSET Key] /\ Available \subseteq Channel
  /\ DefaultWebhook \in BOOLEAN
  /\ Chats \in Nat \ {0} /\ MaxRetries \in Nat /\ MaxRestarts \in Nat

VARIABLES
  position, marked, committed, \* offsets: handed out, marked, committed
  session,    \* "up", "ending" (its context is cancelled), "over"
  down,       \* "run", "cancelled", "closed", "exited": where main is
  restarts,   \* rebalances and crashes so far
  h,          \* where handleMessage is, see Handler
  prefs,      \* the rows handleMessage read
  data,       \* [Key -> who set it in the event's data, the map that all
              \* notifications of one message share: a channel, or Event]
  delivered,  \* [Offset -> [Channel -> [Destination -> 0..2]]]: none, one, more
  rows,       \* [Offset -> [Channel -> SUBSET {"sent", "failed"}]], the history
  verdict,    \* history: [Offset -> {"none", "nil", "error"}], its last result
  wanted,     \* history: [Offset -> SUBSET Channel], channels it was meant for
  lostAnswer, \* history: <<m, c>> with a delivery reported as an error
  unrecorded, \* history: <<m, c>> whose INSERT into the history failed
  handings    \* history: [Offset -> 0..2], how often a message was handled

groupVars == <<position, marked, committed, session, restarts>>
tableVars == <<delivered, rows, lostAnswer, unrecorded>>
pastVars == <<verdict, wanted, handings>>
vars == <<groupVars, down, h, prefs, data, tableVars, pastVars>>

Handler == [pc : {"idle", "prefs", "merge", "try", "pause", "save"},
            i : 1..3, round : 0..MaxRetries, try : 0..MaxRetries,
            chat : Destination, reached : 0..Chats,
            status : {"sent", "failed"}]
Idle == [pc |-> "idle", i |-> 1, round |-> 0, try |-> 0, chat |-> 1,
         reached |-> 0, status |-> "failed"]

TypeOK ==
  /\ position \in 0..Len(Log) /\ marked \in 0..Len(Log) /\ committed \in 0..Len(Log)
  /\ session \in {"up", "ending", "over"}
  /\ down \in {"run", "cancelled", "closed", "exited"}
  /\ restarts \in 0..MaxRestarts
  /\ h \in Handler
  /\ data \in [Key -> Channel \cup {Event, Nobody}]
  /\ delivered \in [Offset -> [Channel -> [Destination -> 0..2]]]
  /\ rows \in [Offset -> [Channel -> SUBSET {"sent", "failed"}]]
  /\ verdict \in [Offset -> {"none", "nil", "error"}]
  /\ wanted \in [Offset -> SUBSET Channel]
  /\ lostAnswer \subseteq Offset \X Channel
  /\ unrecorded \subseteq Offset \X Channel
  /\ handings \in [Offset -> 0..2]

NoData == [k \in Key |-> Nobody]
NoPrefs == <<>>

Init ==
  /\ position = 0 /\ marked = 0 /\ committed = 0
  /\ session = "up" /\ down = "run" /\ restarts = 0
  /\ h = Idle /\ prefs = NoPrefs /\ data = NoData
  /\ delivered = [m \in Offset |-> [c \in Channel |-> [d \in Destination |-> 0]]]
  /\ rows = [m \in Offset |-> [c \in Channel |-> {}]]
  /\ verdict = [m \in Offset |-> "none"]
  /\ wanted = [m \in Offset |-> {}]
  /\ lostAnswer = {} /\ unrecorded = {}
  /\ handings = [m \in Offset |-> 0]

(* The message and the channel that are being handled.                     *)
m0 == position
c0 == Order[h.i]
Capped(n) == IF n > 2 THEN 2 ELSE n

-----------------------------------------------------------------------------
(* handleMessage returns.  ConsumeClaim marks the message unless there was *)
(* an error; the message then is not handed out again in this session.     *)
Return(result) ==
  /\ h' = Idle /\ prefs' = NoPrefs /\ data' = NoData
  /\ verdict' = [verdict EXCEPT ![m0] = result]
  /\ marked' = IF result = "nil" THEN m0 ELSE marked

\* Mutant of Take: the message is marked when it is handed out.
Take_MarksFirst ==
  /\ h.pc = "idle" /\ session # "over" /\ position < Len(Log)
  /\ position' = position + 1
  /\ handings' = [handings EXCEPT ![position + 1] = Capped(@ + 1)]
  /\ marked' = position + 1
  /\ h' = [Idle EXCEPT !.pc = "prefs"]
  /\ UNCHANGED <<committed, session, restarts, down, prefs, data, tableVars,
                 verdict, wanted>>

(* ConsumeClaim takes a message.  Its select may choose the message when   *)
(* the context of the session has ended as well.                           *)
Take ==
  /\ h.pc = "idle" /\ session # "over" /\ position < Len(Log)
  /\ position' = position + 1
  /\ handings' = [handings EXCEPT ![position + 1] = Capped(@ + 1)]
  /\ h' = [Idle EXCEPT !.pc = "prefs"]
  /\ UNCHANGED <<marked, committed, session, restarts, down, prefs, data,
                 tableVars, verdict, wanted>>

(* The template engine has a template for some of the event types only.    *)
Rendered(m) == Log[m] = "ok"

(* GetUserPreferences found these rows.                                    *)
Found(table) == session = "up" /\ table \in Tables

(* initChannels created it.                                                *)
Initialized(c) == c \in Available

(* The channels that the loop over the preferences does not skip, from     *)
(* place i on.                                                             *)
WantedFrom(table, i) ==
  {j \in i..3 : /\ Order[j] \in DOMAIN table
                /\ table[Order[j]].enabled
                /\ Initialized(Order[j])}
First(S) == CHOOSE j \in S : \A k \in S : j <= k

(* Parsing, or GetUserPreferences, or the template fails.                  *)
Refuse ==
  /\ h.pc = "prefs"
  /\ Return("error")
  /\ UNCHANGED <<position, committed, session, restarts, down, tableVars, wanted, handings>>

(* Parsing, GetUserPreferences, renderNotification; then the loop, which   *)
(* ends at once when no channel is wanted.                                 *)
Prepare(table) ==
  LET todo == WantedFrom(table, 1) IN
  /\ h.pc = "prefs" /\ Found(table) /\ Log[m0] # "malformed"
  /\ IF todo = {}
     THEN /\ Rendered(m0) \/ table = NoPrefs
          /\ Return("nil")
     ELSE /\ Rendered(m0)
          /\ h' = [h EXCEPT !.pc = "merge", !.i = First(todo)]
          /\ prefs' = table
          /\ data' = [k \in Key |-> IF k \in Carries[m0] THEN Event ELSE Nobody]
          /\ UNCHANGED <<verdict, marked>>
  /\ wanted' = [wanted EXCEPT ![m0] = {Order[j] : j \in todo}]
  /\ UNCHANGED <<position, committed, session, restarts, down, tableVars, handings>>

-----------------------------------------------------------------------------
(* A round of sendWithRetry failed: wait for the next, or give up.         *)
RoundFailed(g) ==
  IF g.round < MaxRetries THEN [g EXCEPT !.pc = "pause"]
                          ELSE [g EXCEPT !.pc = "save", !.status = "failed"]

\* Mutant of Merged: what is in the map already is kept.
Merged_KeepsOld(c) == [k \in Key |->
  IF k \in prefs[c].keys /\ data[k] = Nobody THEN c ELSE data[k]]

(* The configuration of channel c is merged into the shared map, whatever  *)
(* keys it has.                                                            *)
Merged(c) == [k \in Key |-> IF k \in prefs[c].keys THEN c
                            ELSE IF k \in prefs[c].blank THEN Nobody
                            ELSE data[k]]

(* The key a channel finds its recipients under: that of a single one      *)
(* comes first.                                                            *)
EmailRecipients(d) == IF d["email"] # Nobody THEN "email" ELSE "emails"
ChatIDs(d) ==
  IF d["telegram_chat_id"] # Nobody THEN "telegram_chat_id" ELSE "telegram_chat_ids"
FoundUnder(d, c) == CASE c = "email" -> EmailRecipients(d)
                      [] c = "telegram" -> ChatIDs(d)
                      [] c = "slack" -> "slack_webhook_url"
ChatCount(d) == IF ChatIDs(d) = "telegram_chat_ids" THEN Chats ELSE 1

(* Whose recipients they are.                                              *)
WebhookURL(d) == IF d["slack_webhook_url"] = Nobody /\ DefaultWebhook
                 THEN "slack" ELSE d["slack_webhook_url"]
Recipient(d, c) == IF c = "slack" THEN WebhookURL(d) ELSE d[FoundUnder(d, c)]

(* A round starts: merge, then Channel.Send, which returns at once when    *)
(* there is nobody to send to.                                             *)
MergeConfig ==
  /\ h.pc = "merge"
  /\ data' = Merged(c0)
  /\ h' = IF Recipient(data', c0) = Nobody
          THEN RoundFailed(h)
          ELSE [h EXCEPT !.pc = "try", !.try = 0, !.chat = 1, !.reached = 0]
  /\ UNCHANGED <<groupVars, down, prefs, tableVars, pastVars>>

(* The channel is through with its recipients.  Telegram is content with   *)
(* one chat; the other channels have one recipient.                        *)
SendResult(g, reached) ==
  IF reached > 0 THEN [g EXCEPT !.pc = "save", !.status = "sent", !.reached = reached]
                 ELSE RoundFailed([g EXCEPT !.reached = reached])

(* A recipient is done with; the next chat, if it is Telegram.             *)
RecipientDone(g, ok) ==
  LET reached == g.reached + ok IN
  IF c0 = "telegram" /\ g.chat < ChatCount(data)
  THEN [g EXCEPT !.chat = @ + 1, !.try = 0, !.reached = reached]
  ELSE SendResult(g, reached)

(* What follows a failed attempt: the next after a pause, or the end, after*)
(* the last one and when the context with its 10 s ends in the pause.      *)
AfterFailure(g) ==
  (IF g.try < MaxRetries /\ session = "up"
   THEN {[g EXCEPT !.try = @ + 1]} ELSE {})
  \cup {RecipientDone(g, 0)}

\* Mutant of Try: the loop goes on after a success.
Try_GoesOn(outcomes) ==
  \E out \in outcomes :
    /\ delivered' = IF out = "fails" THEN delivered
                    ELSE [delivered EXCEPT ![m0][c0][h.chat] = Capped(@ + 1)]
    /\ lostAnswer' = IF out = "unclear" THEN lostAnswer \cup {<<m0, c0>>}
                                        ELSE lostAnswer
    /\ h' \in IF out = "taken" /\ h.try = MaxRetries THEN {RecipientDone(h, 1)}
                                                     ELSE AfterFailure(h)
    /\ UNCHANGED <<groupVars, down, prefs, data, rows, unrecorded, pastVars>>

(* One attempt: it fails, the recipient has the notification, or has it    *)
(* while the answer is lost or cannot be read.                             *)
Try(outcomes) ==
  \E out \in outcomes :
    /\ delivered' = IF out = "fails" THEN delivered
                    ELSE [delivered EXCEPT ![m0][c0][h.chat] = Capped(@ + 1)]
    /\ lostAnswer' = IF out = "unclear" THEN lostAnswer \cup {<<m0, c0>>}
                                        ELSE lostAnswer
    /\ h' \in IF out = "taken" THEN {RecipientDone(h, 1)} ELSE AfterFailure(h)
    /\ UNCHANGED <<groupVars, down, prefs, data, rows, unrecorded, pastVars>>

Outcome == {"taken", "unclear", "fails"}

(* Requests over HTTP are not sent once their context has ended.           *)
WithContext == IF session = "up" THEN Outcome ELSE {"fails"}

(* EmailChannel.sendEmail: SMTP, which is given no context.                *)
SendEmail == h.pc = "try" /\ c0 = "email" /\ Try(Outcome)

(* SlackChannel.sendWebhook.                                               *)
SendWebhook == h.pc = "try" /\ c0 = "slack" /\ Try(WithContext)

(* TelegramChannel.sendMessage, to one of the chats.                       *)
SendMessage == h.pc = "try" /\ c0 = "telegram" /\ Try(WithContext)

(* The consumer's own pause of RetryInterval between rounds.               *)
PauseEnds ==
  /\ h.pc = "pause"
  /\ h' = IF session = "up" THEN [h EXCEPT !.pc = "merge", !.round = @ + 1]
                            ELSE [h EXCEPT !.pc = "save", !.status = "failed"]
  /\ UNCHANGED <<groupVars, down, prefs, data, tableVars, pastVars>>

(* The loop over the preferences goes on after saveHistory.                *)
NextChannel ==
  LET todo == WantedFrom(prefs, h.i + 1) IN
  IF todo = {}
  THEN Return("nil")
  ELSE /\ h' = [Idle EXCEPT !.pc = "merge", !.i = First(todo)]
       /\ UNCHANGED <<prefs, data, verdict, marked>>

(* saveHistory.  An error is logged; a cancelled context is one.           *)
SaveHistory ==
  /\ h.pc = "save" /\ session = "up"
  /\ rows' = [rows EXCEPT ![m0][c0] = @ \cup {h.status}]
  /\ UNCHANGED unrecorded
  /\ NextChannel
  /\ UNCHANGED <<position, committed, session, restarts, down, delivered,
                 lostAnswer, wanted, handings>>

SaveHistoryFails ==
  /\ h.pc = "save"
  /\ unrecorded' = unrecorded \cup {<<m0, c0>>}
  /\ NextChannel
  /\ UNCHANGED <<position, committed, session, restarts, down, delivered, rows,
                 lostAnswer, wanted, handings>>

HandlerStep == \/ Refuse \/ \E table \in Tables : Prepare(table)
               \/ MergeConfig \/ SendEmail \/ SendWebhook \/ SendMessage
               \/ PauseEnds \/ SaveHistory \/ SaveHistoryFails

-----------------------------------------------------------------------------
(* The consumer group.  Marked offsets are committed in the background, or *)
(* by Commit after each message; either way some time later, or never.     *)
Commit ==
  /\ session # "over" /\ committed < marked
  /\ committed' = marked
  /\ UNCHANGED <<position, marked, session, restarts, down, h, prefs, data,
                 tableVars, pastVars>>

(* A rebalance cancels the context of the session.                         *)
Rebalance ==
  /\ session = "up" /\ restarts < MaxRestarts
  /\ session' = "ending" /\ restarts' = restarts + 1
  /\ UNCHANGED <<position, marked, committed, down, h, prefs, data, tableVars, pastVars>>

(* The claim has returned: the session commits once more and is over.      *)
SessionOver ==
  /\ session = "ending" /\ h.pc = "idle"
  /\ committed' \in {committed, marked}
  /\ session' = "over"
  /\ UNCHANGED <<position, marked, restarts, down, h, prefs, data, tableVars, pastVars>>

\* Mutant of NewSession: the loop of Start does not look at its context.
NewSession_IgnoresContext ==
  /\ session = "over" /\ down # "closed" /\ down # "exited"
  /\ position' = committed /\ marked' = committed
  /\ session' = "up"
  /\ UNCHANGED <<committed, restarts, down, h, prefs, data, tableVars, pastVars>>

(* Start calls Consume again, which resumes after the committed offset.    *)
NewSession ==
  /\ session = "over" /\ down = "run"
  /\ position' = committed /\ marked' = committed
  /\ session' = "up"
  /\ UNCHANGED <<committed, restarts, down, h, prefs, data, tableVars, pastVars>>

(* SIGTERM, or Start has returned with an error of Consume: main cancels   *)
(* the context, which ends the session.                                    *)
Cancel ==
  /\ down = "run"
  /\ down' = "cancelled"
  /\ session' = IF session = "up" THEN "ending" ELSE session
  /\ UNCHANGED <<position, marked, committed, restarts, h, prefs, data, tableVars, pastVars>>

(* Consumer.Close waits for Consume to return.                             *)
Close ==
  /\ down = "cancelled" /\ session = "over"
  /\ down' = "closed"
  /\ UNCHANGED <<groupVars, h, prefs, data, tableVars, pastVars>>

(* The graceful timeout is over, whether or not anything was left to do.   *)
Exit ==
  /\ down = "closed"
  /\ down' = "exited"
  /\ UNCHANGED <<groupVars, h, prefs, data, tableVars, pastVars>>

(* The process dies and is started again.                                  *)
Crash ==
  /\ down # "exited" /\ restarts < MaxRestarts
  /\ restarts' = restarts + 1
  /\ position' = committed /\ marked' = committed
  /\ session' = "up" /\ down' = "run"
  /\ h' = Idle /\ prefs' = NoPrefs /\ data' = NoData
  /\ UNCHANGED <<committed, tableVars, pastVars>>

Next == \/ Take \/ HandlerStep
        \/ Commit \/ Rebalance \/ SessionOver \/ NewSession
        \/ Cancel \/ Close \/ Exit \/ Crash

Spec == Init /\ [][Next]_vars

(* Each call returns in the end (SMTP and HTTP servers answer or the       *)
(* connection breaks), and main goes on when it can.                       *)
Fairness == /\ WF_vars(HandlerStep) /\ WF_vars(SessionOver)
            /\ WF_vars(Close) /\ WF_vars(Exit)
LiveSpec == Spec /\ Fairness

-----------------------------------------------------------------------------
(* The history tells the truth: "sent" means that somebody received it,    *)
(* and "failed" that nobody did, except when an answer was lost, another   *)
(* handling of the same message went otherwise, or the row was not written *)
(* (notification_consumer.go:176-189).                                     *)
HistoryIsTrue ==
  \A m \in Offset, c \in Channel :
    LET reached == {d \in Destination : delivered[m][c][d] > 0} IN
    /\ "sent" \in rows[m][c] => reached # {}
    /\ "failed" \in rows[m][c] /\ reached # {} =>
         <<m, c>> \in lostAnswer \/ handings[m] > 1

(* A committed message was handled to its end; and unless that was an      *)
(* error, which a later message then passed over, every channel the user   *)
(* wanted delivered it, or has a failure in the history, or the history    *)
(* could not be written.  (consumer.go:14 promises that a message with an  *)
(* error is processed again; notification_consumer.go:185 that what failed *)
(* is recorded.)  And the history is true.                                 *)
EveryNotificationAccounted ==
  /\ TypeOK /\ HistoryIsTrue
  /\ \A m \in 1..committed :
       /\ verdict[m] # "none"
       /\ verdict[m] = "nil" => \A c \in wanted[m] :
            \/ \E d \in Destination : delivered[m][c][d] > 0
            \/ "failed" \in rows[m][c]
            \/ <<m, c>> \in unrecorded

(* A user is told the same thing twice on one channel only when an answer  *)
(* was lost, which the two nested retry loops cannot know, or the message  *)
(* was handed out again.                                                   *)
DuplicatesExplained ==
  \A m \in Offset, c \in Channel, d \in Destination :
    delivered[m][c][d] > 1 => <<m, c>> \in lostAnswer \/ handings[m] > 1

(* All notifications of a message carry one map, the event's data, into    *)
(* which the configuration of each channel is merged in turn.  Still, a    *)
(* channel sends to the recipient of its own configuration, unless that    *)
(* leaves alone the key the recipient is found under; then it is that of   *)
(* the event, or of a channel that the user wanted and that came before    *)
(* (notification_consumer.go:171, 219; email.go:513, telegram.go:340).     *)
RightRecipient ==
  h.pc = "try" =>
    LET who == Recipient(data, c0)
        key == FoundUnder(data, c0)
    IN  \/ who = c0
        \/ /\ key \notin prefs[c0].keys \cup prefs[c0].blank
           /\ \/ who = Event /\ key \in Carries[m0]
              \/ \E j \in WantedFrom(prefs, 1) :
                   j < h.i /\ who = Order[j] /\ key \in prefs[who].keys

(* Once the context is cancelled the process exits: no retry, pause or new *)
(* session keeps it, unless it crashes and is started again.               *)
ShutdownEnds == down = "cancelled" ~> down \in {"exited", "run"}
=============================================================================
