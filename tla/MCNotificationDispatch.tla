------------------------ MODULE MCNotificationDispatch ------------------------
(***************************************************************************)
(* Small instances for TLC: NotificationDispatch, and the ChannelManager   *)
(* that the HTTP endpoints of the same process read.  A behaviour is one   *)
(* of the part that `part` names; the other does not move.                 *)
(***************************************************************************)
EXTENDS NotificationDispatch

OneFails == <<"malformed", "ok", "untemplated">>

Row(on, keys) == [enabled |-> on, keys |-> keys, blank |-> {}]

\* Email switched off, slack without a webhook; email with the key of slack as well,
\* which has none; telegram with its chats, and with the key of a single chat blank.
SomeTables ==
  { [email |-> Row(FALSE, {"email"}), slack |-> Row(TRUE, {})],
    [email |-> Row(TRUE, {"emails", "slack_webhook_url"}), slack |-> Row(TRUE, {})],
    [telegram |-> Row(TRUE, {"telegram_chat_ids"})],
    [telegram |-> [Row(TRUE, {"telegram_chat_ids"}) EXCEPT !.blank = {"telegram_chat_id"}]],
    NoPrefs }

\* The second event names an e-mail address and a single chat.
SecondCarries == [m \in Offset |-> IF m = 2 THEN {"email", "telegram_chat_id"} ELSE {}]

CONSTANTS Callers, ManagerEvents, ManagerNames, NameOf, InitChannels, InitRules, NewRules,
          MaxChanges

\* A second Slack channel, registered as the backup.
SomeNameOf == [n \in ManagerNames |-> "slack"]
NoRules == <<>>
BothNames == {{"slack", "backup"}}

VARIABLES part, channels, counted, rules, adding, job, total, counter, health,
          reading, panicked, changes, gone, again, stray

Manager == INSTANCE ChannelManager
             WITH Events <- ManagerEvents, Names <- ManagerNames
ASSUME ManagerIsAssumed == Manager!ManagerAssumption
managerVars == <<channels, counted, rules, adding, job, total, counter, health,
                 reading, panicked, changes, gone, again, stray>>

MCInit == Init /\ Manager!Init /\ part \in {"dispatch", "manager"}
DispatchStep == part = "dispatch" /\ Next /\ UNCHANGED <<part, managerVars>>
ManagerStep == part = "manager" /\ Manager!Next /\ UNCHANGED <<part, vars>>

MCSpec == /\ MCInit
          /\ [][DispatchStep \/ ManagerStep]_<<part, vars, managerVars>>
          /\ part = "dispatch" => Fairness

\* The manager's property under its own name; see ChannelManager.
ReportsAreTrue == Manager!ReportsAreTrue
=============================================================================
