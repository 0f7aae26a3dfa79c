------------------------ MODULE NotificationDispatchProofs ------------------------
(***************************************************************************)
(* Proofs about NotificationDispatch for any partition, any tables of      *)
(* preferences, any retry limit, number of chats, rebalances and crashes.  *)
(* IInv says of every message that was handed out how far it has come: it  *)
(* is in hand or accounted for (PastInv); of the one in hand, which        *)
(* channels are behind it and which before it (TodoInv, AheadInv); and of  *)
(* the channel in hand what the rounds so far can have delivered, as long  *)
(* as no answer was lost and the message was handed out once (RoundInv).   *)
(* The second part is about ChannelManager, the other model of MCSpec:     *)
(* sums over finite sets first, then ManagerInv, then ReportsAreTrue.      *)
(***************************************************************************)
EXTENDS MCNotificationDispatch, FiniteSetTheorems, TLAPS

\* handleMessage is in its loop over the preferences.
OnChannel == h.pc \in {"merge", "try", "pause", "save"}

\* The recipient of channel c, or one of them, has message m.
Heard(m, c) == \E d \in Destination : delivered[m][c][d] > 0

\* Nothing was delivered on channel c, nor recorded.
Untouched(m, c) == ~Heard(m, c) /\ rows[m][c] = {}

\* Channel c needs no more of message m: it was delivered, or recorded as failed, or the
\* record was lost.
Settled(m, c) == Heard(m, c) \/ "failed" \in rows[m][c] \/ <<m, c>> \in unrecorded

\* Message m has its verdict.
Accounted(m) == /\ verdict[m] # "none"
                /\ verdict[m] = "nil" => \A c \in wanted[m] : Settled(m, c)

\* Where the offsets and the handler are.
PlaceInv ==
  /\ committed <= marked /\ marked <= position
  /\ h.pc # "idle" => marked < position
  /\ session = "over" => h.pc = "idle"
  /\ h.pc = "prefs" => h.reached = 0
  /\ h.pc = "pause" => h.round < MaxRetries
  /\ h.pc = "try" => h.reached < h.chat

\* What was handed out is in hand or has its verdict.
PastInv == \A m \in 1..position : (m = position /\ h.pc # "idle") \/ Accounted(m)

\* The channels wanted are those of the rows read; the ones before h.i are settled.
TodoInv ==
  OnChannel =>
    /\ h.i \in WantedFrom(prefs, 1)
    /\ wanted[position] = {Order[j] : j \in WantedFrom(prefs, 1)}
    /\ \A j \in WantedFrom(prefs, 1) : j < h.i => Settled(position, Order[j])

\* The rounds count somebody as reached only if somebody was.
SentInv ==
  OnChannel /\ (h.reached > 0 \/ (h.pc = "save" /\ h.status = "sent"))
    => Heard(position, c0)

\* A message that was never handed out is untouched.
NewInv == \A m \in Offset, c \in Channel : handings[m] = 0 => Untouched(m, c)

\* While a message is handed out for the first time, the channels after h.i are untouched.
AheadInv ==
  h.pc # "idle" =>
    /\ handings[position] > 0
    /\ handings[position] = 1 =>
         \A j \in 1..3 : j > h.i \/ h.pc = "prefs" => Untouched(position, Order[j])

\* What the round in hand can have delivered: nothing if it starts, pauses or failed; in
\* the attempts, nothing to the chats that are still to come.
Unheard ==
  /\ h.pc \in {"merge", "pause"} \/ (h.pc = "save" /\ h.status = "failed")
       => ~Heard(position, c0)
  /\ h.pc = "try" =>
       /\ h.reached = 0 => ~Heard(position, c0)
       /\ \A d \in Destination : d >= h.chat => delivered[position][c0][d] = 0

\* That is so the first time, unless an answer was lost; and there is no record yet.
RoundInv ==
  OnChannel /\ handings[position] = 1 =>
    /\ rows[position][c0] = {}
    /\ <<position, c0>> \notin lostAnswer => Unheard

\* A key in the shared map is the event's own, or was set by the configuration of one of
\* the channels wanted, up to the one in hand.
DataInv ==
  OnChannel => \A k \in Key :
    \/ data[k] = Nobody
    \/ data[k] = Event /\ k \in Carries[position]
    \/ \E j \in WantedFrom(prefs, 1) :
         j <= h.i /\ data[k] = Order[j] /\ k \in prefs[Order[j]].keys

IInv == /\ TypeOK /\ PlaceInv /\ PastInv /\ TodoInv /\ SentInv /\ NewInv /\ AheadInv
        /\ RoundInv /\ DataInv /\ HistoryIsTrue /\ DuplicatesExplained /\ RightRecipient

-----------------------------------------------------------------------------
\* Order lists the channels, each once.
LEMMA OrderLists == /\ \A i \in 1..3 : Order[i] \in Channel
                    /\ \A i, j \in 1..3 : Order[i] = Order[j] => i = j
<1>1. Order[1] = "email" /\ Order[2] = "slack" /\ Order[3] = "telegram"
  BY DEF Order
<1>2. \A i \in 1..3 : i = 1 \/ i = 2 \/ i = 3
  OBVIOUS
<1> QED
  BY <1>1, <1>2 DEF Channel

\* The loop goes on with the least of what is left.
LEMMA FirstIsLeast ==
  ASSUME NEW S \in SUBSET (1..3), S # {}
  PROVE  First(S) \in S /\ \A k \in S : First(S) <= k
<1>1. \E j \in S : \A k \in S : j <= k
  <2>1. CASE 1 \in S
    BY <2>1
  <2>2. CASE 1 \notin S /\ 2 \in S
    BY <2>2
  <2>3. CASE 1 \notin S /\ 2 \notin S
    <3>1. \A k \in S : k = 3
      BY <2>3
    <3>2. PICK j \in S : TRUE
      OBVIOUS
    <3> QED
      BY <3>1, <3>2
  <2> QED
    BY <2>1, <2>2, <2>3
<1> QED
  BY <1>1 DEF First

\* While a message is handled there is one, on a channel.
LEMMA InHand ==
  ASSUME TypeOK, PlaceInv, h.pc # "idle"
  PROVE  /\ position \in Offset /\ h.i \in 1..3 /\ c0 \in Channel
         /\ handings[position] \in 0..2
<1>1. h.i \in 1..3
  BY DEF TypeOK, Handler
<1>2. position \in Offset
  BY DispatchAssumption DEF TypeOK, PlaceInv, Offset
<1> QED
  BY <1>1, <1>2, OrderLists DEF c0, TypeOK

-----------------------------------------------------------------------------
\* In the initial state nothing has been handled.
LEMMA InitIInv == Init => IInv
<1> SUFFICES ASSUME Init
             PROVE  IInv
  OBVIOUS
<1>1. /\ h.pc = "idle" /\ h.reached = 0 /\ h \in Handler
  BY DispatchAssumption DEF Init, Idle, Handler, Destination
<1>2. TypeOK
  <2>1. Nobody \in Channel \cup {Nobody}
    OBVIOUS
  <2>2. /\ delivered \in [Offset -> [Channel -> [Destination -> 0..2]]]
        /\ rows \in [Offset -> [Channel -> SUBSET {"sent", "failed"}]]
        /\ data \in [Key -> Channel \cup {Event, Nobody}]
        /\ verdict \in [Offset -> {"none", "nil", "error"}]
        /\ wanted \in [Offset -> SUBSET Channel]
        /\ handings \in [Offset -> 0..2]
    BY DEF Init, NoData
  <2>3. 0 \in 0..Len(Log) /\ 0 \in 0..MaxRestarts
    BY DispatchAssumption
  <2> QED
    BY <1>1, <2>2, <2>3 DEF Init, TypeOK
<1>3. \A m \in Offset, c \in Channel : Untouched(m, c) /\ handings[m] = 0
  BY DEF Init, Untouched, Heard
<1>4. \A m \in Offset, c \in Channel, d \in Destination : delivered[m][c][d] = 0
  BY DEF Init
<1>5. PlaceInv /\ PastInv /\ TodoInv /\ SentInv /\ AheadInv /\ RoundInv /\ DataInv
  BY <1>1 DEF Init, PlaceInv, PastInv, TodoInv, SentInv, AheadInv, RoundInv, DataInv,
              OnChannel
<1>6. NewInv /\ HistoryIsTrue /\ DuplicatesExplained /\ RightRecipient
  BY <1>1, <1>3, <1>4
  DEF NewInv, HistoryIsTrue, DuplicatesExplained, RightRecipient, Untouched, Heard
<1> QED
  BY <1>2, <1>5, <1>6 DEF IInv

-----------------------------------------------------------------------------
\* What the consumer group and main do: nothing happens to a message in hand, and
\* what was handed out is forgotten only as far as it is not committed.
LEMMA GroupStep ==
  ASSUME IInv,
         \/ Commit \/ Rebalance \/ SessionOver \/ NewSession \/ Cancel \/ Close
         \/ Exit \/ Crash \/ UNCHANGED vars
  PROVE  IInv'
<1> USE DEF groupVars, tableVars, pastVars
<1>1. /\ UNCHANGED <<tableVars, pastVars>>
      /\ \/ UNCHANGED <<h, prefs, data, position>>
         \/ /\ h' = Idle /\ data' = NoData /\ position' = committed
            /\ prefs' = NoPrefs
         \/ /\ UNCHANGED <<h, prefs, data>> /\ position' = committed /\ h.pc = "idle"
  BY DEF IInv, PlaceInv, Commit, Rebalance, SessionOver, NewSession, Cancel, Close,
         Exit, Crash, vars
<1>2. TypeOK'
  <2>1. TypeOK /\ PlaceInv
    BY DEF IInv
  <2>2. Idle \in Handler /\ NoData \in [Key -> Channel \cup {Event, Nobody}]
    BY DispatchAssumption DEF Idle, Handler, Destination, NoData
  <2>3. h' \in Handler /\ data' \in [Key -> Channel \cup {Event, Nobody}]
    BY <1>1, <2>1, <2>2 DEF TypeOK
  <2>4. /\ position' \in 0..Len(Log) /\ marked' \in 0..Len(Log)
        /\ committed' \in 0..Len(Log)
        /\ session' \in {"up", "ending", "over"}
        /\ down' \in {"run", "cancelled", "closed", "exited"}
        /\ restarts' \in 0..MaxRestarts
    BY <2>1, DispatchAssumption
    DEF TypeOK, Commit, Rebalance, SessionOver, NewSession, Cancel, Close, Exit, Crash,
        vars
  <2> QED
    BY <1>1, <2>1, <2>3, <2>4 DEF TypeOK
<1>3. PlaceInv'
  <2>1. committed \in Nat /\ marked \in Nat /\ position \in Nat
    BY DispatchAssumption DEF IInv, TypeOK
  <2>2. Idle.pc = "idle"
    BY DEF Idle
  <2> QED
    BY <2>1, <2>2
    DEF IInv, PlaceInv, Commit, Rebalance, SessionOver, NewSession, Cancel, Close,
        Exit, Crash, vars
<1>4. PastInv'
  <2>1. \A m : Accounted(m) => Accounted(m)'
    BY <1>1 DEF Accounted, Settled, Heard
  <2>2. committed \in Nat /\ marked \in Nat /\ position \in Nat
    BY DispatchAssumption DEF IInv, TypeOK
  <2>3. CASE UNCHANGED <<h, position>>
    BY <2>1, <2>3 DEF IInv, PastInv
  <2>4. CASE position' = committed
    <3>1. \A m \in 1..committed : Accounted(m)
      BY <2>2 DEF IInv, PastInv, PlaceInv
    <3> QED
      BY <2>1, <2>4, <3>1 DEF PastInv
  <2> QED
    BY <1>1, <2>3, <2>4
<1>5. NewInv' /\ HistoryIsTrue' /\ DuplicatesExplained'
  BY <1>1 DEF IInv, NewInv, HistoryIsTrue, DuplicatesExplained, Untouched, Heard
<1>6. TodoInv' /\ SentInv' /\ AheadInv' /\ RoundInv' /\ DataInv' /\ RightRecipient'
  <2>1. CASE h'.pc = "idle"
    BY <2>1 DEF TodoInv, SentInv, AheadInv, RoundInv, DataInv, RightRecipient, OnChannel
  <2>2. CASE h'.pc # "idle"
    <3>1. UNCHANGED <<h, prefs, data, position>>
      BY <1>1, <2>2 DEF Idle
    <3> QED
      BY <1>1, <3>1
      DEF IInv, TodoInv, SentInv, AheadInv, RoundInv, DataInv, RightRecipient, OnChannel,
          Unheard, Untouched, Heard, Settled, c0, m0, WantedFrom
  <2> QED
    BY <2>1, <2>2
<1> QED
  BY <1>2, <1>3, <1>4, <1>5, <1>6 DEF IInv

\* A message is handed out: what was handed out before it keeps its verdict.
LEMMA TakeStep ==
  ASSUME IInv, Take
  PROVE  IInv'
<1> DEFINE n == position + 1
<1> USE DEF groupVars, tableVars
<1>1. /\ position' = n /\ n \in Offset /\ h' = [Idle EXCEPT !.pc = "prefs"]
      /\ handings' = [handings EXCEPT ![n] = Capped(@ + 1)]
      /\ h.pc = "idle" /\ session # "over"
      /\ UNCHANGED <<marked, committed, session, restarts, down, prefs, data, tableVars,
                     verdict, wanted>>
  BY DispatchAssumption DEF Take, IInv, TypeOK, Offset
<1>2. /\ h' \in Handler /\ h'.pc = "prefs" /\ h'.i = 1 /\ h'.reached = 0
  BY <1>1, DispatchAssumption DEF Idle, Handler, Destination
<1>3. /\ handings' \in [Offset -> 0..2] /\ handings'[n] > 0
      /\ handings'[n] = 1 => handings[n] = 0
      /\ \A m \in Offset : /\ handings'[m] >= handings[m]
                           /\ m # n => handings'[m] = handings[m]
  <2>1. handings \in [Offset -> 0..2]
    BY DEF IInv, TypeOK
  <2>2. handings'[n] = Capped(handings[n] + 1) /\ handings[n] \in 0..2
    BY <1>1, <2>1
  <2>3. /\ handings'[n] \in 0..2 /\ handings'[n] > 0 /\ handings'[n] >= handings[n]
        /\ handings'[n] = 1 => handings[n] = 0
    BY <2>2 DEF Capped
  <2> QED
    BY <1>1, <2>1, <2>3
<1>4. TypeOK'
  <2>1. n \in 0..Len(Log)
    BY <1>1, DispatchAssumption DEF Offset
  <2> QED
    BY <1>1, <1>2, <1>3, <2>1 DEF IInv, TypeOK
<1>5. PlaceInv'
  BY <1>1, <1>2, DispatchAssumption DEF IInv, PlaceInv, TypeOK
<1>6. PastInv'
  <2>1. \A m : Accounted(m) => Accounted(m)'
    BY <1>1 DEF Accounted, Settled, Heard
  <2>2. \A m \in 1..position : Accounted(m)
    BY <1>1 DEF IInv, PastInv
  <2>3. position \in Nat
    BY DispatchAssumption DEF IInv, TypeOK
  <2> QED
    BY <1>1, <1>2, <2>1, <2>2, <2>3 DEF PastInv
<1>7. \A m, c : Untouched(m, c) => Untouched(m, c)'
  BY <1>1 DEF Untouched, Heard
<1>8. NewInv'
  BY <1>3, <1>7 DEF IInv, NewInv, TypeOK
<1>9. AheadInv'
  <2>1. handings'[n] = 1 => \A j \in 1..3 : Untouched(n, Order[j])
    BY <1>1, <1>3, OrderLists DEF IInv, NewInv
  <2> QED
    BY <1>1, <1>3, <1>7, <2>1 DEF AheadInv
<1>10. HistoryIsTrue' /\ DuplicatesExplained'
  BY <1>1, <1>3 DEF IInv, TypeOK, HistoryIsTrue, DuplicatesExplained
<1>11. TodoInv' /\ SentInv' /\ RoundInv' /\ DataInv' /\ RightRecipient'
  BY <1>2 DEF TodoInv, SentInv, RoundInv, DataInv, RightRecipient, OnChannel
<1> QED
  BY <1>4, <1>5, <1>6, <1>8, <1>9, <1>10, <1>11 DEF IInv

-----------------------------------------------------------------------------
\* handleMessage returns: the message has its verdict and, if that is nil, nothing is
\* open on the channels that were wanted.
LEMMA Returned ==
  ASSUME IInv, h.pc # "idle", NEW r \in {"nil", "error"}, Return(r),
         UNCHANGED <<position, committed, session, restarts, down, delivered,
                     lostAnswer, handings>>,
         rows' \in [Offset -> [Channel -> SUBSET {"sent", "failed"}]],
         unrecorded' \subseteq Offset \X Channel,
         wanted' \in [Offset -> SUBSET Channel],
         NewInv', HistoryIsTrue',
         \A m \in Offset, c \in Channel : Settled(m, c) => Settled(m, c)',
         \A m \in Offset \ {position} : wanted'[m] = wanted[m],
         r = "nil" => \A c \in wanted'[position] : Settled(position, c)'
  PROVE  IInv'
<1>1. /\ position \in Offset /\ position \in 1..position
  BY InHand, DispatchAssumption DEF IInv, TypeOK, Offset
<1>2. /\ h' = Idle /\ Idle \in Handler /\ h'.pc = "idle"
  BY DispatchAssumption DEF Return, Idle, Handler, Destination
<1>3. verdict' = [verdict EXCEPT ![position] = r]
      /\ marked' \in {marked, position}
  BY DEF Return, m0
<1>4. TypeOK'
  <2>1. data' \in [Key -> Channel \cup {Event, Nobody}]
    BY DEF Return, NoData
  <2>2. verdict' \in [Offset -> {"none", "nil", "error"}]
    BY <1>3 DEF IInv, TypeOK
  <2>3. marked' \in 0..Len(Log)
    BY <1>3 DEF IInv, TypeOK
  <2> QED
    BY <1>2, <2>1, <2>2, <2>3 DEF IInv, TypeOK
<1>5. PlaceInv'
  BY <1>2, <1>3, DispatchAssumption DEF IInv, PlaceInv, TypeOK
<1>6. PastInv'
  <2>1. ASSUME NEW m \in 1..position
        PROVE  Accounted(m)'
    <3>1. m \in Offset
      BY <1>1, DispatchAssumption DEF Offset
    <3>2. CASE m = position
      BY <1>1, <1>3, <3>2 DEF Accounted, IInv, TypeOK
    <3>3. CASE m # position
      <4>1. Accounted(m)
        BY <3>3 DEF IInv, PastInv
      <4>2. verdict'[m] = verdict[m] /\ wanted'[m] = wanted[m]
        BY <1>3, <3>1, <3>3 DEF IInv, TypeOK
      <4>3. wanted[m] \subseteq Channel
        BY <3>1 DEF IInv, TypeOK
      <4> QED
        BY <3>1, <4>1, <4>2, <4>3 DEF Accounted
    <3> QED
      BY <3>2, <3>3
  <2> QED
    BY <2>1 DEF PastInv
<1>7. TodoInv' /\ SentInv' /\ AheadInv' /\ RoundInv' /\ DataInv' /\ RightRecipient'
  BY <1>2 DEF TodoInv, SentInv, AheadInv, RoundInv, DataInv, RightRecipient, OnChannel
<1>8. DuplicatesExplained'
  BY DEF IInv, DuplicatesExplained
<1> QED
  BY <1>4, <1>5, <1>6, <1>7, <1>8 DEF IInv

\* A message that is refused.
LEMMA RefuseStep ==
  ASSUME IInv, Refuse
  PROVE  IInv'
<1>1. /\ h.pc # "idle" /\ Return("error")
      /\ UNCHANGED <<position, committed, session, restarts, down, delivered, rows,
                     lostAnswer, unrecorded, wanted, handings>>
  BY DEF Refuse, tableVars
<1>2. NewInv' /\ HistoryIsTrue'
  BY <1>1 DEF IInv, NewInv, HistoryIsTrue, Untouched, Heard
<1>3. \A m \in Offset, c \in Channel : Settled(m, c) => Settled(m, c)'
  BY <1>1 DEF Settled, Heard
<1> QED
  BY <1>1, <1>2, <1>3, Returned DEF IInv, TypeOK

\* A message that is prepared: the first of the channels wanted is next.
LEMMA PrepareStep ==
  ASSUME IInv, NEW table \in Tables, Prepare(table)
  PROVE  IInv'
<1> DEFINE todo == WantedFrom(table, 1)
<1>1. /\ h.pc = "prefs"
      /\ wanted' = [wanted EXCEPT ![position] = {Order[j] : j \in todo}]
      /\ UNCHANGED <<position, committed, session, restarts, down, delivered, rows,
                     lostAnswer, unrecorded, handings>>
  BY DEF Prepare, tableVars, m0
<1>2. /\ position \in Offset /\ todo \in SUBSET (1..3)
      /\ {Order[j] : j \in todo} \subseteq Channel
  BY <1>1, InHand, OrderLists DEF IInv, WantedFrom
<1>3. /\ wanted' \in [Offset -> SUBSET Channel]
      /\ wanted'[position] = {Order[j] : j \in todo}
      /\ \A m \in Offset \ {position} : wanted'[m] = wanted[m]
  BY <1>1, <1>2 DEF IInv, TypeOK
<1>4. NewInv' /\ HistoryIsTrue' /\ DuplicatesExplained'
  BY <1>1 DEF IInv, NewInv, HistoryIsTrue, DuplicatesExplained, Untouched, Heard
<1>5. \A m, c : (Settled(m, c) <=> Settled(m, c)') /\ (Untouched(m, c) <=> Untouched(m, c)')
  BY <1>1 DEF Settled, Heard, Untouched
<1>6. CASE todo = {}
  <2>1. Return("nil")
    BY <1>6 DEF Prepare
  <2>2. \A c \in wanted'[position] : Settled(position, c)'
    BY <1>3, <1>6
  <2> QED
    BY <1>1, <1>3, <1>4, <1>5, <2>1, <2>2, Returned DEF IInv, TypeOK
<1>7. CASE todo # {}
  <2>1. /\ h' = [h EXCEPT !.pc = "merge", !.i = First(todo)]
        /\ prefs' = table /\ UNCHANGED <<verdict, marked>>
        /\ data' = [k \in Key |-> IF k \in Carries[position] THEN Event ELSE Nobody]
    BY <1>7 DEF Prepare, m0
  <2>2. First(todo) \in todo /\ \A k \in todo : First(todo) <= k
    BY <1>2, <1>7, FirstIsLeast
  <2>3. /\ h' \in Handler /\ h'.pc = "merge" /\ h'.i = First(todo) /\ h'.reached = 0
        /\ h'.i \in 1..3
    BY <1>1, <1>2, <2>1, <2>2 DEF IInv, TypeOK, Handler, PlaceInv
  <2>4. TypeOK' /\ PlaceInv'
    BY <1>1, <1>3, <2>1, <2>3 DEF IInv, TypeOK, PlaceInv
  <2>5. PastInv'
    <3>1. ASSUME NEW m \in 1..position, m # position
          PROVE  Accounted(m)'
      <4>1. m \in Offset
        BY <1>2, DispatchAssumption DEF Offset
      <4> QED
        BY <1>3, <1>5, <2>1, <3>1, <4>1 DEF IInv, PastInv, Accounted
    <3> QED
      BY <1>1, <2>3, <3>1 DEF PastInv
  <2>6. TodoInv'
    <3>1. WantedFrom(prefs', 1) = todo /\ h'.i \in todo
      BY <2>1, <2>2, <2>3
    <3>2. \A j \in todo : ~(j < h'.i)
      BY <1>2, <2>2, <2>3
    <3> QED
      BY <1>1, <1>3, <3>1, <3>2 DEF TodoInv, WantedFrom
  <2>7. handings[position] = 1 => \A j \in 1..3 : Untouched(position, Order[j])
    BY <1>1 DEF IInv, AheadInv
  <2>8. AheadInv'
    BY <1>1, <1>5, <2>7 DEF AheadInv, IInv
  <2>9. RoundInv'
    <3>1. handings'[position'] = 1 => Untouched(position, Order[h'.i])
      BY <1>1, <2>3, <2>7
    <3> QED
      BY <1>1, <2>3, <3>1 DEF RoundInv, Unheard, Untouched, Heard, c0
  <2>10. SentInv' /\ RightRecipient'
    BY <2>3 DEF SentInv, RightRecipient
  <2>11. DataInv'
    BY <1>1, <2>1 DEF DataInv
  <2> QED
    BY <1>4, <2>4, <2>5, <2>6, <2>8, <2>9, <2>10, <2>11 DEF IInv
<1> QED
  BY <1>6, <1>7

-----------------------------------------------------------------------------
\* A step of the rounds on the channel in hand touches nothing but that channel.
LEMMA SameChannel ==
  ASSUME IInv, OnChannel, OnChannel', h'.i = h.i,
         UNCHANGED <<groupVars, down, prefs, rows, unrecorded, pastVars>>,
         \A m \in Offset, c \in Channel :
           /\ m # position \/ c # c0 => delivered'[m][c] = delivered[m][c]
           /\ Heard(m, c) => Heard(m, c)'
  PROVE  PastInv' /\ TodoInv' /\ NewInv' /\ AheadInv'
<1> USE DEF groupVars, pastVars
<1>1. /\ position \in Offset /\ h.i \in 1..3 /\ c0 = Order[h.i]
      /\ h.pc # "idle" /\ h.pc # "prefs" /\ h'.pc # "idle" /\ h'.pc # "prefs"
  BY InHand DEF IInv, OnChannel, c0
<1>2. \A m \in Offset, c \in Channel : Settled(m, c) => Settled(m, c)'
  BY DEF Settled
<1>3. \A m \in Offset, c \in Channel :
        m # position \/ c # c0 => (Untouched(m, c) <=> Untouched(m, c)')
  BY DEF Untouched, Heard
<1>4. PastInv'
  <2>1. ASSUME NEW m \in 1..position, m # position
        PROVE  Accounted(m)'
    <3>1. m \in Offset
      BY <1>1, DispatchAssumption DEF Offset
    <3>2. wanted[m] \subseteq Channel
      BY <3>1 DEF IInv, TypeOK
    <3> QED
      BY <1>2, <2>1, <3>1, <3>2 DEF IInv, PastInv, Accounted
  <2> QED
    BY <1>1, <2>1 DEF PastInv
<1>5. TodoInv'
  <2> DEFINE W == WantedFrom(prefs, 1)
  <2>1. W \subseteq 1..3 /\ WantedFrom(prefs', 1) = W
    BY DEF WantedFrom
  <2> HIDE DEF W
  <2>2. /\ h.i \in W /\ wanted[position] = {Order[j] : j \in W}
        /\ \A j \in W : j < h.i => Settled(position, Order[j])
    BY DEF IInv, TodoInv, W
  <2>3. \A j \in W : j < h.i => Settled(position, Order[j])'
    BY <1>1, <1>2, <2>1, <2>2, OrderLists
  <2> QED
    BY <2>1, <2>2, <2>3 DEF TodoInv
<1>6. handings[position] > 0
  <2>1. AheadInv
    BY DEF IInv
  <2> QED
    BY <1>1, <2>1 DEF AheadInv
<1>7. NewInv'
  BY <1>3, <1>6 DEF IInv, NewInv
<1>8. AheadInv'
  <2>1. \A j \in 1..3 : j > h.i => Order[j] # c0 /\ Order[j] \in Channel
    BY <1>1, OrderLists
  <2> QED
    BY <1>1, <1>3, <2>1 DEF IInv, AheadInv
<1> QED
  BY <1>4, <1>5, <1>7, <1>8

\* The map stays as it is, for this channel or a later one.
LEMMA SameData ==
  ASSUME DataInv, TypeOK, OnChannel, h'.i >= h.i, h'.i \in 1..3,
         UNCHANGED <<data, prefs, position>>
  PROVE  DataInv'
<1>1. \A j \in WantedFrom(prefs, 1) : j <= h.i => j <= h'.i
  BY DEF WantedFrom, TypeOK, Handler
<1>2. WantedFrom(prefs', 1) = WantedFrom(prefs, 1)
  BY DEF WantedFrom
<1> QED
  BY <1>1, <1>2 DEF DataInv

\* Nothing but the place in the rounds, and perhaps the shared map, changes.
LEMMA QuietRound ==
  ASSUME IInv, OnChannel, OnChannel', h' \in Handler, h'.i = h.i, PlaceInv', SentInv',
         DataInv', RightRecipient', Unheard => Unheard',
         data' \in [Key -> Channel \cup {Event, Nobody}],
         UNCHANGED <<groupVars, down, prefs, tableVars, pastVars>>
  PROVE  IInv'
<1> USE DEF groupVars, tableVars, pastVars
<1>1. TypeOK'
  BY DEF IInv, TypeOK
<1>2. PastInv' /\ TodoInv' /\ NewInv' /\ AheadInv'
  BY SameChannel DEF Heard
<1>3. HistoryIsTrue' /\ DuplicatesExplained'
  BY DEF IInv, HistoryIsTrue, DuplicatesExplained
<1>4. RoundInv'
  BY DEF IInv, RoundInv, c0
<1> QED
  BY <1>1, <1>2, <1>3, <1>4 DEF IInv

\* What a failed round leads to.
LEMMA RoundFails ==
  ASSUME NEW g \in Handler
  PROVE  /\ RoundFailed(g) \in Handler
         /\ RoundFailed(g).i = g.i /\ RoundFailed(g).reached = g.reached
         /\ \/ RoundFailed(g).pc = "pause" /\ RoundFailed(g).round < MaxRetries
            \/ RoundFailed(g).pc = "save" /\ RoundFailed(g).status = "failed"
  BY DEF RoundFailed, Handler

\* A round starts.
LEMMA MergeStep ==
  ASSUME IInv, MergeConfig
  PROVE  IInv'
<1> USE DEF groupVars, tableVars, pastVars
<1>1. /\ h.pc = "merge" /\ OnChannel /\ h \in Handler /\ c0 \in Channel
      /\ data' = Merged(c0) /\ h.reached \in Nat
      /\ UNCHANGED <<groupVars, down, prefs, tableVars, pastVars>>
  BY InHand, DispatchAssumption DEF MergeConfig, OnChannel, IInv, TypeOK, Handler
<1>2. data' \in [Key -> Channel \cup {Event, Nobody}]
  BY <1>1 DEF Merged, IInv, TypeOK
<1>3. DataInv'
  <2>1. h'.i = h.i /\ h.i \in 1..3 /\ c0 = Order[h.i]
    BY <1>1, RoundFails DEF MergeConfig, Handler, c0
  <2>2. h.i \in WantedFrom(prefs, 1) /\ WantedFrom(prefs', 1) = WantedFrom(prefs, 1)
    BY <1>1 DEF IInv, TodoInv, WantedFrom
  <2> SUFFICES ASSUME NEW k \in Key
               PROVE  \/ data'[k] = Nobody
                      \/ data'[k] = Event /\ k \in Carries[position]
                      \/ \E j \in WantedFrom(prefs, 1) :
                           j <= h.i /\ data'[k] = Order[j] /\ k \in prefs[Order[j]].keys
    BY <1>1, <2>1, <2>2 DEF DataInv
  <2>3. CASE k \in prefs[c0].keys
    BY <1>1, <2>1, <2>2, <2>3 DEF Merged
  <2>4. CASE k \notin prefs[c0].keys
    BY <1>1, <2>4 DEF Merged, IInv, DataInv
  <2> QED
    BY <2>3, <2>4
<1>4. CASE Recipient(data', c0) = Nobody
  <2>1. h' = RoundFailed(h)
    BY <1>4 DEF MergeConfig
  <2>2. /\ h' \in Handler /\ h'.i = h.i /\ h'.reached = h.reached
        /\ \/ h'.pc = "pause" /\ h'.round < MaxRetries
           \/ h'.pc = "save" /\ h'.status = "failed"
    BY <1>1, <2>1, RoundFails
  <2>3. OnChannel' /\ PlaceInv' /\ RightRecipient'
    BY <1>1, <2>2 DEF OnChannel, IInv, PlaceInv, RightRecipient
  <2>4. Unheard => Unheard'
    BY <1>1, <2>2 DEF Unheard, Heard, c0
  <2>5. SentInv'
    BY <1>1, <2>2 DEF IInv, SentInv, Heard, c0, OnChannel
  <2> QED
    BY <1>1, <1>2, <1>3, <2>2, <2>3, <2>4, <2>5, QuietRound
<1>5. CASE Recipient(data', c0) # Nobody
  <2>1. h' = [h EXCEPT !.pc = "try", !.try = 0, !.chat = 1, !.reached = 0]
    BY <1>5 DEF MergeConfig
  <2>2. /\ h' \in Handler /\ h'.i = h.i /\ h'.reached = 0 /\ h'.pc = "try" /\ h'.chat = 1
    <3>1. 0 \in 0..MaxRetries /\ 1 \in Destination /\ 0 \in 0..Chats
      BY DispatchAssumption DEF Destination
    <3> QED
      BY <1>1, <2>1, <3>1 DEF Handler
  <2>3. OnChannel' /\ PlaceInv' /\ SentInv'
    BY <1>1, <2>2 DEF OnChannel, IInv, PlaceInv, SentInv
  <2>4. RightRecipient'
    <3> DEFINE key == FoundUnder(data', c0)
               who == Recipient(data', c0)
    <3>1. c0' = c0 /\ position' = position /\ WantedFrom(prefs', 1) = WantedFrom(prefs, 1)
      BY <1>1, <2>2 DEF c0, WantedFrom
    <3>2. key \in Key
      BY <1>1 DEF FoundUnder, EmailRecipients, ChatIDs, Key, Channel
    <3>3. who = c0 \/ (who # Nobody /\ who = data'[key])
      BY <1>1, <1>5 DEF Recipient, WebhookURL, FoundUnder, Channel
    <3> HIDE DEF key, who
    <3>4. CASE who # c0
      <4>1. who # Nobody /\ who = data'[key]
        BY <3>3, <3>4
      <4>2. key \notin prefs[c0].keys \cup prefs[c0].blank /\ data'[key] = data[key]
        BY <1>1, <3>2, <3>4, <4>1 DEF Merged
      <4>3. \/ who = Event /\ key \in Carries[position]
            \/ \E j \in WantedFrom(prefs, 1) :
                 j <= h.i /\ who = Order[j] /\ key \in prefs[Order[j]].keys
        BY <1>1, <3>2, <4>1, <4>2 DEF IInv, DataInv
      <4>4. ASSUME NEW j \in WantedFrom(prefs, 1), j <= h.i, who = Order[j],
                   key \in prefs[Order[j]].keys
            PROVE  j < h.i /\ key \in prefs[who].keys
        BY <1>1, <3>4, <4>4 DEF c0, Handler, WantedFrom
      <4> QED
        BY <1>1, <2>2, <3>1, <4>2, <4>3, <4>4 DEF RightRecipient, m0, key, who
    <3>5. CASE who = c0
      BY <3>1, <3>5 DEF RightRecipient, who
    <3> QED
      BY <3>4, <3>5
  <2>5. Unheard => Unheard'
    <3>1. \A d \in Destination : delivered[position][c0][d] \in 0..2
      BY <1>1, InHand DEF IInv, TypeOK
    <3> QED
      BY <1>1, <2>2, <3>1 DEF Unheard, Heard, c0
  <2> QED
    BY <1>1, <1>2, <1>3, <2>2, <2>3, <2>4, <2>5, QuietRound
<1> QED
  BY <1>4, <1>5

\* A pause is over.
LEMMA PauseStep ==
  ASSUME IInv, PauseEnds
  PROVE  IInv'
<1> USE DEF groupVars, tableVars, pastVars
<1>1. /\ h.pc = "pause" /\ OnChannel /\ h \in Handler /\ h.round < MaxRetries
      /\ UNCHANGED <<groupVars, down, prefs, data, tableVars, pastVars>>
  BY DEF PauseEnds, OnChannel, IInv, TypeOK, PlaceInv
<1>2. /\ h' \in Handler /\ h'.i = h.i /\ h'.reached = h.reached
      /\ h'.pc = "merge" \/ (h'.pc = "save" /\ h'.status = "failed")
  <2>1. h.round + 1 \in 0..MaxRetries
    BY <1>1, DispatchAssumption DEF Handler
  <2> QED
    BY <1>1, <2>1 DEF PauseEnds, Handler
<1>3. OnChannel' /\ PlaceInv' /\ RightRecipient'
  BY <1>1, <1>2 DEF OnChannel, IInv, PlaceInv, RightRecipient
<1>4. Unheard => Unheard'
  BY <1>1, <1>2 DEF Unheard, Heard, c0
<1>5. SentInv'
  BY <1>1, <1>2 DEF IInv, SentInv, Heard, c0, OnChannel
<1>6. DataInv'
  BY <1>1, <1>2, SameData DEF IInv, Handler
<1> QED
  BY <1>1, <1>2, <1>3, <1>4, <1>5, <1>6, QuietRound DEF IInv, TypeOK

\* What follows when a recipient is done with: the next one, or the end of the round,
\* which failed only if nobody was reached.
LEMMA RecipientIsDone ==
  ASSUME NEW g \in Handler, g.pc = "try", g.reached < g.chat, NEW ok \in {0, 1}
  PROVE  LET e == RecipientDone(g, ok) IN
         /\ e \in Handler /\ e.i = g.i /\ e.reached = g.reached + ok
         /\ \/ e.pc = "try" /\ e.chat = g.chat + 1 /\ e.reached < e.chat
            \/ e.pc = "save" /\ e.status = "sent" /\ e.reached > 0
            \/ e.pc = "pause" /\ e.round < MaxRetries /\ e.reached = 0
            \/ e.pc = "save" /\ e.status = "failed" /\ e.reached = 0
<1> DEFINE r == g.reached + ok
<1>1. /\ g.chat \in 1..Chats /\ g.reached \in 0..Chats /\ Chats \in Nat
      /\ r \in 0..Chats /\ 0 \in 0..MaxRetries
  BY DispatchAssumption DEF Handler, Destination
<1>4. ChatCount(data) \in 1..Chats
  BY DispatchAssumption DEF ChatCount
<1>0. r = g.reached + ok /\ g.reached >= 0 /\ ok >= 0
  BY <1>1
<1> HIDE DEF r
<1>2. CASE c0 = "telegram" /\ g.chat < ChatCount(data)
  <2> DEFINE n == g.chat + 1
             e == [g EXCEPT !.chat = n, !.try = 0, !.reached = r]
  <2>1. RecipientDone(g, ok) = e
    BY <1>2 DEF RecipientDone, r
  <2>2. n \in Destination /\ r < n
    BY <1>0, <1>1, <1>2, <1>4 DEF Destination
  <2> HIDE DEF n
  <2>3. /\ e \in Handler /\ e.i = g.i /\ e.reached = r /\ e.pc = g.pc
        /\ e.chat = n
    BY <1>1, <2>2 DEF Handler
  <2> QED
    BY <1>0, <2>1, <2>2, <2>3 DEF n
<1>3. CASE ~(c0 = "telegram" /\ g.chat < ChatCount(data))
  <2>1. RecipientDone(g, ok) = SendResult(g, r)
    BY <1>3 DEF RecipientDone, r
  <2>2. CASE r > 0
    <3> DEFINE e == [g EXCEPT !.pc = "save", !.status = "sent", !.reached = r]
    <3>1. SendResult(g, r) = e
      BY <2>2 DEF SendResult
    <3>2. /\ e \in Handler /\ e.i = g.i /\ e.reached = r /\ e.pc = "save"
          /\ e.status = "sent"
      BY <1>1 DEF Handler
    <3> HIDE DEF e
    <3> QED
      BY <1>0, <2>1, <2>2, <3>1, <3>2
  <2>3. CASE r = 0
    <3> DEFINE f == [g EXCEPT !.reached = r]
    <3>1. SendResult(g, r) = RoundFailed(f)
      BY <2>3 DEF SendResult
    <3>2. f \in Handler /\ f.i = g.i /\ f.reached = r
      BY <1>1 DEF Handler
    <3> HIDE DEF f
    <3>3. LET e == RoundFailed(f) IN
          /\ e \in Handler /\ e.i = f.i /\ e.reached = f.reached
          /\ \/ e.pc = "pause" /\ e.round < MaxRetries
             \/ e.pc = "save" /\ e.status = "failed"
      BY <3>2, RoundFails
    <3> QED
      BY <1>0, <2>1, <2>3, <3>1, <3>2, <3>3
  <2> QED
    BY <1>1, <2>2, <2>3
<1> QED
  BY <1>2, <1>3

\* One attempt to reach a recipient.
LEMMA TryStep ==
  ASSUME IInv, h.pc = "try", Try(Outcome)
  PROVE  IInv'
<1> USE DEF groupVars, pastVars
<1>1. PICK out \in Outcome :
        /\ delivered' = IF out = "fails" THEN delivered
                        ELSE [delivered EXCEPT ![m0][c0][h.chat] = Capped(@ + 1)]
        /\ lostAnswer' = IF out = "unclear" THEN lostAnswer \cup {<<m0, c0>>}
                                            ELSE lostAnswer
        /\ h' \in IF out = "taken" THEN {RecipientDone(h, 1)} ELSE AfterFailure(h)
        /\ UNCHANGED <<groupVars, down, prefs, data, rows, unrecorded, pastVars>>
  BY DEF Try
<1>2. /\ OnChannel /\ h \in Handler /\ h.chat \in Destination /\ h.reached \in Nat
      /\ position \in Offset /\ c0 \in Channel /\ h.reached < h.chat
      /\ h.chat \in Nat /\ h.try \in 0..MaxRetries
  BY InHand, DispatchAssumption
  DEF IInv, TypeOK, PlaceInv, OnChannel, Handler, Destination
<1> DEFINE D(m, c, d) == delivered[m][c][d]
           Here(m, c, d) == m = position /\ c = c0 /\ d = h.chat /\ out # "fails"
           ok == IF out = "taken" THEN 1 ELSE 0
<1>3. \A m \in Offset, c \in Channel, d \in Destination :
        /\ D(m, c, d) \in 0..2
        /\ delivered'[m][c][d] = IF Here(m, c, d) THEN Capped(D(m, c, d) + 1)
                                                  ELSE D(m, c, d)
        /\ m # position \/ c # c0 => delivered'[m][c] = delivered[m][c]
  <2>1. delivered \in [Offset -> [Channel -> [Destination -> 0..2]]]
    BY DEF IInv, TypeOK
  <2> QED
    BY <1>1, <1>2, <2>1 DEF m0
<1>4. \A m \in Offset, c \in Channel, d \in Destination :
        /\ delivered'[m][c][d] \in 0..2
        /\ delivered'[m][c][d] >= D(m, c, d)
        /\ Here(m, c, d) => delivered'[m][c][d] > 0
        /\ Here(m, c, d) /\ D(m, c, d) = 0 => delivered'[m][c][d] = 1
  <2>1. \A n \in 0..2 : /\ Capped(n + 1) \in 1..2 /\ Capped(n + 1) >= n
                        /\ n = 0 => Capped(n + 1) = 1
    BY DEF Capped
  <2> QED
    BY <1>3, <2>1
<1>5. delivered' \in [Offset -> [Channel -> [Destination -> 0..2]]]
  <2>1. delivered \in [Offset -> [Channel -> [Destination -> 0..2]]]
    BY DEF IInv, TypeOK
  <2>2. \A n \in 0..2 : Capped(n + 1) \in 0..2
    BY DEF Capped
  <2>3. Capped(delivered[position][c0][h.chat] + 1) \in 0..2
    BY <1>2, <1>3, <2>2
  <2> QED
    BY <1>1, <1>2, <2>1, <2>3 DEF m0
<1>6. /\ h' \in Handler /\ h'.i = h.i
      /\ h'.pc = "pause" => h'.round < MaxRetries
      /\ h'.pc = "try" => h'.reached < h'.chat
      /\ h'.pc \in {"try", "pause", "save"}
      /\ h'.reached = h.reached + ok
      /\ h'.pc = "save" /\ h'.status = "sent" => h'.reached > 0
      /\ h'.pc = "pause" \/ (h'.pc = "save" /\ h'.status = "failed") => h'.reached = 0
      /\ h'.pc = "try" => \/ h'.chat = h.chat + 1
                          \/ h'.chat = h.chat /\ out # "taken"
  <2>1. CASE h' = RecipientDone(h, ok)
    <3>1. ok \in {0, 1}
      OBVIOUS
    <3> HIDE DEF ok
    <3>2. /\ h' \in Handler /\ h'.i = h.i /\ h'.reached = h.reached + ok
          /\ \/ h'.pc = "try" /\ h'.chat = h.chat + 1 /\ h'.reached < h'.chat
             \/ h'.pc = "save" /\ h'.status = "sent" /\ h'.reached > 0
             \/ h'.pc = "pause" /\ h'.round < MaxRetries /\ h'.reached = 0
             \/ h'.pc = "save" /\ h'.status = "failed" /\ h'.reached = 0
      BY <1>2, <2>1, <3>1, RecipientIsDone
    <3> QED
      BY <3>2
  <2>2. CASE h' # RecipientDone(h, ok)
    <3>1. /\ h' = [h EXCEPT !.try = @ + 1] /\ h.try < MaxRetries /\ out # "taken"
      BY <1>1, <2>2 DEF AfterFailure
    <3>2. h.try + 1 \in 0..MaxRetries
      BY <1>2, <3>1, DispatchAssumption
    <3> QED
      BY <1>2, <3>1, <3>2 DEF Handler
  <2> QED
    BY <2>1, <2>2
<1> HIDE DEF D, Here
<1>7. TypeOK'
  <2>1. lostAnswer' \subseteq Offset \X Channel
    BY <1>1, <1>2 DEF IInv, TypeOK, m0
  <2> QED
    BY <1>1, <1>5, <1>6, <2>1 DEF IInv, TypeOK
<1>8. OnChannel' /\ PlaceInv'
  BY <1>1, <1>2, <1>6 DEF OnChannel, IInv, PlaceInv
<1>9. \A m \in Offset, c \in Channel : Heard(m, c) => Heard(m, c)'
  BY <1>3, <1>4 DEF Heard, D
<1>10. PastInv' /\ TodoInv' /\ NewInv' /\ AheadInv'
  BY <1>1, <1>2, <1>3, <1>6, <1>8, <1>9, SameChannel
<1>11. c0' = c0 /\ position' = position
  BY <1>1, <1>6 DEF c0
<1>12. SentInv'
  <2>1. CASE h.reached > 0
    BY <1>2, <1>9, <1>11, <2>1 DEF IInv, SentInv, Heard
  <2>2. CASE h.reached = 0 /\ h'.reached > 0
    <3>1. out = "taken"
      BY <1>6, <2>2
    <3>2. delivered'[position][c0][h.chat] > 0
      BY <1>2, <1>4, <3>1 DEF Here
    <3> QED
      BY <1>2, <1>11, <3>2 DEF SentInv, Heard
  <2>3. CASE h'.reached = 0
    BY <1>6, <2>3 DEF SentInv
  <2> QED
    BY <1>2, <1>6, <2>1, <2>2, <2>3
<1>13. RoundInv'
  <2> SUFFICES ASSUME handings[position] = 1, <<position, c0>> \notin lostAnswer'
               PROVE  Unheard'
    BY <1>1, <1>2, <1>11 DEF IInv, RoundInv
  <2>1. out # "unclear" /\ Unheard
    BY <1>1, <1>2 DEF IInv, RoundInv, m0
  <2>2. /\ h.reached = 0 => \A d \in Destination : D(position, c0, d) = 0
        /\ \A d \in Destination : d >= h.chat => D(position, c0, d) = 0
    BY <1>2, <1>3, <2>1 DEF Unheard, Heard, D
  <2>3. CASE out = "fails"
    <3>1. \A d \in Destination : delivered'[position][c0][d] = D(position, c0, d)
      BY <1>2, <1>3, <2>3 DEF Here
    <3>2. h'.reached = h.reached
      BY <1>2, <1>6, <2>3
    <3>3. h'.reached = 0 => ~Heard(position, c0)'
      BY <1>11, <2>2, <3>1, <3>2 DEF Heard
    <3>4. h'.pc = "try" => \A d \in Destination : d >= h'.chat => d >= h.chat
      BY <1>2, <1>6 DEF Destination
    <3> QED
      BY <1>6, <1>11, <2>2, <3>1, <3>3, <3>4 DEF Unheard, Heard
  <2>4. CASE out = "taken"
    <3>1. h'.reached > 0
      BY <1>2, <1>6, <2>4
    <3>2. CASE h'.pc = "try"
      <4>1. h'.chat = h.chat + 1
        BY <1>6, <2>4, <3>2
      <4>2. \A d \in Destination : d >= h'.chat => d # h.chat /\ d >= h.chat
        BY <1>2, <4>1 DEF Destination
      <4>3. \A d \in Destination : d >= h'.chat => delivered'[position][c0][d] = 0
        BY <1>2, <1>3, <2>2, <4>2 DEF Here
      <4> QED
        BY <1>11, <3>1, <3>2, <4>3 DEF Unheard
    <3>3. CASE h'.pc # "try"
      BY <1>6, <3>1, <3>3 DEF Unheard
    <3> QED
      BY <3>2, <3>3
  <2> QED
    BY <2>1, <2>3, <2>4 DEF Outcome
<1>14. handings[position] > 0 /\ handings[position] \in Nat
  BY <1>2 DEF IInv, AheadInv, TypeOK
<1>15. HistoryIsTrue'
  <2> SUFFICES ASSUME NEW m \in Offset, NEW c \in Channel
               PROVE  /\ "sent" \in rows[m][c] => Heard(m, c)'
                      /\ "failed" \in rows[m][c] /\ Heard(m, c)' =>
                           <<m, c>> \in lostAnswer' \/ handings[m] > 1
    BY <1>1 DEF HistoryIsTrue, Heard
  <2>1. /\ "sent" \in rows[m][c] => Heard(m, c)
        /\ "failed" \in rows[m][c] /\ Heard(m, c) =>
             <<m, c>> \in lostAnswer \/ handings[m] > 1
    BY DEF IInv, HistoryIsTrue, Heard
  <2>2. CASE m = position /\ c = c0
    <3>1. rows[m][c] = {} \/ handings[m] > 1
      BY <1>2, <1>14, <2>2 DEF IInv, RoundInv
    <3> QED
      BY <1>9, <2>1, <3>1
  <2>3. CASE m # position \/ c # c0
    <3>1. Heard(m, c)' => Heard(m, c)
      BY <1>3, <2>3 DEF Heard
    <3> QED
      BY <1>1, <1>9, <2>1, <3>1
  <2> QED
    BY <2>2, <2>3
<1>16. DuplicatesExplained'
  <2> SUFFICES ASSUME NEW m \in Offset, NEW c \in Channel, NEW d \in Destination,
                      delivered'[m][c][d] > 1, <<m, c>> \notin lostAnswer',
                      ~(handings[m] > 1)
               PROVE  FALSE
    BY <1>1 DEF DuplicatesExplained
  <2>1. <<m, c>> \notin lostAnswer
    BY <1>1
  <2>2. CASE Here(m, c, d)
    <3>1. Unheard
      BY <1>2, <1>14, <2>1, <2>2 DEF IInv, RoundInv, Here
    <3>2. D(m, c, d) = 0
      BY <1>2, <2>2, <3>1 DEF Unheard, Here, D
    <3> QED
      BY <1>4, <2>2, <3>2
  <2>3. CASE ~Here(m, c, d)
    <3>1. delivered[m][c][d] > 1
      BY <1>3, <2>3 DEF D
    <3> QED
      BY <2>1, <3>1 DEF IInv, DuplicatesExplained
  <2> QED
    BY <2>2, <2>3
<1>17. RightRecipient'
  <2>1. h'.i = h.i /\ UNCHANGED <<data, prefs>>
    BY <1>1, <1>6
  <2> QED
    BY <1>2, <1>11, <2>1 DEF IInv, RightRecipient, m0, WantedFrom
<1>18. DataInv'
  BY <1>1, <1>2, <1>6, SameData DEF IInv, Handler
<1> QED
  BY <1>7, <1>8, <1>10, <1>12, <1>13, <1>15, <1>16, <1>17, <1>18 DEF IInv

\* The outcome on a channel is recorded, or the record lost; then the next channel, or
\* the message is through.
LEMMA SaveStep ==
  ASSUME IInv, SaveHistory \/ SaveHistoryFails
  PROVE  IInv'
<1> DEFINE all == WantedFrom(prefs, 1)
           todo == WantedFrom(prefs, h.i + 1)
<1>1. /\ h.pc = "save" /\ OnChannel /\ NextChannel
      /\ UNCHANGED <<position, committed, session, restarts, down, delivered,
                     lostAnswer, wanted, handings>>
      /\ \/ /\ rows' = [rows EXCEPT ![position][c0] = @ \cup {h.status}]
            /\ unrecorded' = unrecorded
         \/ rows' = rows /\ unrecorded' = unrecorded \cup {<<position, c0>>}
  BY DEF SaveHistory, SaveHistoryFails, OnChannel, m0
<1>2. /\ position \in Offset /\ h.i \in 1..3 /\ c0 \in Channel /\ c0 = Order[h.i]
      /\ h.status \in {"sent", "failed"}
      /\ handings[position] > 0 /\ handings[position] \in Nat
  BY <1>1, InHand DEF IInv, TypeOK, Handler, c0, AheadInv
<1>3. /\ rows' \in [Offset -> [Channel -> SUBSET {"sent", "failed"}]]
      /\ \A m \in Offset, c \in Channel :
           /\ rows[m][c] \subseteq rows'[m][c]
           /\ m # position \/ c # c0 => rows'[m][c] = rows[m][c]
      /\ \/ rows'[position][c0] = rows[position][c0] \cup {h.status}
         \/ rows' = rows /\ <<position, c0>> \in unrecorded'
  <2>1. rows \in [Offset -> [Channel -> SUBSET {"sent", "failed"}]]
    BY DEF IInv, TypeOK
  <2> QED
    BY <1>1, <1>2, <2>1
<1>4. unrecorded \subseteq unrecorded' /\ unrecorded' \subseteq Offset \X Channel
  BY <1>1, <1>2 DEF IInv, TypeOK
<1>5. \A m \in Offset, c \in Channel :
        /\ Heard(m, c) <=> Heard(m, c)'
        /\ Settled(m, c) => Settled(m, c)'
        /\ m # position \/ c # c0 => (Untouched(m, c) => Untouched(m, c)')
  BY <1>1, <1>3, <1>4 DEF Heard, Settled, Untouched
<1>6. h.status = "sent" => Heard(position, c0)
  BY <1>1 DEF IInv, SentInv
<1>7. ASSUME NEW c \in Channel, c = c0
      PROVE  Settled(position, c)'
  <2>1. \/ Heard(position, c) \/ "failed" \in rows'[position][c]
        \/ <<position, c>> \in unrecorded'
    BY <1>2, <1>3, <1>6, <1>7
  <2> QED
    BY <1>1, <2>1 DEF Settled, Heard
<1>8. NewInv'
  BY <1>1, <1>2, <1>5 DEF IInv, NewInv
<1>9. HistoryIsTrue'
  <2> SUFFICES ASSUME NEW m \in Offset, NEW c \in Channel
               PROVE  /\ "sent" \in rows'[m][c] => Heard(m, c)
                      /\ "failed" \in rows'[m][c] /\ Heard(m, c) =>
                           <<m, c>> \in lostAnswer \/ handings[m] > 1
    BY <1>1 DEF HistoryIsTrue, Heard
  <2>1. /\ "sent" \in rows[m][c] => Heard(m, c)
        /\ "failed" \in rows[m][c] /\ Heard(m, c) =>
             <<m, c>> \in lostAnswer \/ handings[m] > 1
    BY DEF IInv, HistoryIsTrue, Heard
  <2>2. CASE m = position /\ c = c0
    <3>1. h.status = "failed" /\ Heard(m, c) /\ <<m, c>> \notin lostAnswer
            => handings[m] > 1
      BY <1>1, <1>2, <2>2 DEF IInv, RoundInv, Unheard
    <3> QED
      BY <1>2, <1>3, <1>6, <2>1, <2>2, <3>1
  <2>3. CASE m # position \/ c # c0
    BY <1>3, <2>1, <2>3
  <2> QED
    BY <2>2, <2>3
<1>10. all \in SUBSET (1..3) /\ todo \in SUBSET (1..3)
       /\ todo = {j \in all : j > h.i}
  BY <1>2 DEF WantedFrom
<1>11. /\ wanted[position] = {Order[j] : j \in all}
       /\ \A j \in all : j < h.i => Settled(position, Order[j])
  BY <1>1 DEF IInv, TodoInv
<1>12. \A j \in all : j <= h.i => Settled(position, Order[j])'
  <2> SUFFICES ASSUME NEW j \in all, j <= h.i
               PROVE  Settled(position, Order[j])'
    OBVIOUS
  <2>1. j \in 1..3 /\ Order[j] \in Channel
    BY <1>10, OrderLists
  <2>2. CASE j = h.i
    BY <1>2, <1>7, <2>1, <2>2
  <2>3. CASE j < h.i
    BY <1>1, <1>2, <1>5, <1>11, <2>1, <2>3
  <2> QED
    BY <1>2, <2>1, <2>2, <2>3
<1> HIDE DEF all
<1>13. CASE todo = {}
  <2>1. Return("nil")
    BY <1>1, <1>13 DEF NextChannel
  <2>2. \A j \in all : j <= h.i
    BY <1>2, <1>10, <1>13
  <2>3. \A c \in wanted'[position] : Settled(position, c)'
    <3> SUFFICES ASSUME NEW c \in wanted[position]
                 PROVE  Settled(position, c)'
      BY <1>1
    <3>1. PICK j \in all : c = Order[j]
      BY <1>11
    <3> QED
      BY <1>12, <2>2, <3>1
  <2> QED
    BY <1>1, <1>3, <1>4, <1>5, <1>8, <1>9, <2>1, <2>3, Returned DEF IInv, TypeOK
<1>14. CASE todo # {}
  <2>0. PICK k \in todo : k = First(todo) /\ \A j \in todo : k <= j
    BY <1>10, <1>14, FirstIsLeast
  <2>1. /\ h' = [Idle EXCEPT !.pc = "merge", !.i = k]
        /\ UNCHANGED <<prefs, data, verdict, marked>>
    BY <1>1, <1>14, <2>0 DEF NextChannel
  <2>2. k \in all /\ k \in 1..3 /\ k > h.i /\ \A j \in all : j < k => j <= h.i
    BY <1>2, <1>10, <2>0
  <2>3. h' \in Handler /\ h'.pc = "merge" /\ h'.i = k /\ h'.reached = 0
    <3>1. Idle \in Handler /\ Idle.reached = 0
      BY DispatchAssumption DEF Idle, Handler, Destination
    <3> QED
      BY <2>1, <2>2, <3>1 DEF Handler, Idle
  <2>4. TypeOK' /\ PlaceInv'
    BY <1>1, <1>3, <1>4, <2>1, <2>3 DEF IInv, TypeOK, PlaceInv
  <2>5. PastInv'
    <3>1. ASSUME NEW m \in 1..position, m # position
          PROVE  Accounted(m)'
      <4>1. m \in Offset
        BY <1>2, DispatchAssumption DEF Offset
      <4>2. wanted[m] \subseteq Channel
        BY <4>1 DEF IInv, TypeOK
      <4> QED
        BY <1>1, <1>5, <2>1, <3>1, <4>1, <4>2 DEF IInv, PastInv, Accounted
    <3> QED
      BY <1>1, <2>3, <3>1 DEF PastInv
  <2>6. TodoInv'
    <3>1. WantedFrom(prefs', 1) = all
      BY <2>1 DEF all
    <3>2. \A j \in all : j < h'.i => Settled(position, Order[j])'
      BY <1>12, <2>2, <2>3
    <3>3. h'.i \in all
      BY <2>2, <2>3
    <3> QED
      BY <1>1, <1>11, <3>1, <3>2, <3>3 DEF TodoInv, WantedFrom
  <2>7. handings[position] = 1 =>
          \A j \in 1..3 : j > h.i => Untouched(position, Order[j])'
    <3>1. \A j \in 1..3 : j > h.i => Order[j] # c0 /\ Order[j] \in Channel
      BY <1>2, OrderLists
    <3> QED
      BY <1>1, <1>2, <1>5, <3>1 DEF IInv, AheadInv
  <2>8. AheadInv'
    <3>1. \A j \in 1..3 : j > h'.i => j > h.i
      BY <1>2, <2>2, <2>3
    <3> QED
      BY <1>1, <1>2, <2>3, <2>7, <3>1 DEF AheadInv, Untouched, Heard
  <2>9. RoundInv'
    <3>1. handings[position] = 1 => Untouched(position, Order[k])'
      BY <2>2, <2>7
    <3>2. handings[position] = 1 =>
            rows'[position][Order[k]] = {} /\ ~Heard(position, Order[k])'
      BY <1>1, <3>1 DEF Untouched
    <3> QED
      BY <1>1, <2>3, <3>2 DEF RoundInv, Unheard, Heard, c0
  <2>10. SentInv' /\ RightRecipient' /\ DuplicatesExplained'
    BY <1>1, <2>3 DEF SentInv, RightRecipient, IInv, DuplicatesExplained
  <2>11. DataInv'
    BY <1>1, <1>2, <2>1, <2>2, <2>3, SameData DEF IInv
  <2> QED
    BY <1>8, <1>9, <2>4, <2>5, <2>6, <2>8, <2>9, <2>10, <2>11 DEF IInv
<1> QED
  BY <1>13, <1>14

-----------------------------------------------------------------------------
\* Every step of the service keeps the invariant.
LEMMA NextIInv == IInv /\ [Next]_vars => IInv'
<1> SUFFICES ASSUME IInv, [Next]_vars
             PROVE  IInv'
  OBVIOUS
<1>1. CASE Take
  BY <1>1, TakeStep
<1>2. CASE Refuse
  BY <1>2, RefuseStep
<1>3. CASE \E table \in Tables : Prepare(table)
  BY <1>3, PrepareStep
<1>4. CASE MergeConfig
  BY <1>4, MergeStep
<1>5. CASE SendEmail \/ SendWebhook \/ SendMessage
  <2>1. h.pc = "try" /\ Try(Outcome)
    BY <1>5 DEF SendEmail, SendWebhook, SendMessage, Try, WithContext, Outcome
  <2> QED
    BY <2>1, TryStep
<1>6. CASE PauseEnds
  BY <1>6, PauseStep
<1>7. CASE SaveHistory \/ SaveHistoryFails
  BY <1>7, SaveStep
<1>8. CASE \/ Commit \/ Rebalance \/ SessionOver \/ NewSession \/ Cancel \/ Close
           \/ Exit \/ Crash \/ UNCHANGED vars
  BY <1>8, GroupStep
<1> QED
  BY <1>1, <1>2, <1>3, <1>4, <1>5, <1>6, <1>7, <1>8 DEF Next, HandlerStep

\* Spec keeps the invariant.
THEOREM IInvInvariant == Spec => []IInv
<1> QED
  BY InitIInv, NextIInv, PTL DEF Spec

\* A message whose offset is committed was handled to its end, every channel wanted has
\* delivered it, or a failed row, or its row was lost, and the history tells the truth,
\* whatever fails, crashes or is rebalanced (notification_consumer.go:106-189).
THEOREM EveryNotificationAccountedInvariant == Spec => []EveryNotificationAccounted
<1>1. IInv => EveryNotificationAccounted
  <2> SUFFICES ASSUME IInv
               PROVE  EveryNotificationAccounted
    OBVIOUS
  <2>1. \A m \in 1..committed : Accounted(m)
    BY DispatchAssumption DEF IInv, PastInv, PlaceInv, TypeOK
  <2> QED
    BY <2>1 DEF IInv, EveryNotificationAccounted, Accounted, Settled, Heard
<1> QED
  BY <1>1, IInvInvariant, PTL

\* Nobody gets a notification twice on a channel unless an answer was lost or the message
\* handed out again, however the two retry loops nest (notification_consumer.go:191-240).
THEOREM DuplicatesExplainedInvariant == Spec => []DuplicatesExplained
<1>1. IInv => DuplicatesExplained
  BY DEF IInv
<1> QED
  BY <1>1, IInvInvariant, PTL

\* A channel sends to the recipient of its own configuration unless that leaves alone the
\* key looked up first, which is then the event's or that of a channel wanted before it,
\* although all channels of a message share one map (notification_consumer.go:171, 219).
THEOREM RightRecipientInvariant == Spec => []RightRecipient
<1>1. IInv => RightRecipient
  BY DEF IInv
<1> QED
  BY <1>1, IInvInvariant, PTL

-----------------------------------------------------------------------------
(* How handleMessage gets on: what is left of liveness without fairness.    *)

Stage(g) == CASE g.pc = "merge" -> 1
              [] g.pc = "try" -> 2
              [] g.pc = "pause" -> 3
              [] OTHER -> 4

\* A later chat, or a later attempt at the same.
Beyond(k, g) == k.chat > g.chat \/ (k.chat = g.chat /\ k.try > g.try)

\* k is later than g: past the preferences, or further in the nesting of the loops over
\* channels, rounds, chats and tries.
Later(k, g) ==
  /\ k.pc # "prefs"
  /\ \/ g.pc = "prefs"
     \/ k.i > g.i
     \/ k.i = g.i /\ k.round > g.round
     \/ k.i = g.i /\ k.round = g.round /\ Stage(k) > Stage(g)
     \/ /\ k.i = g.i /\ k.round = g.round /\ Stage(k) = Stage(g)
        /\ Beyond(k, g)

\* It is a strict order, so no place comes twice while a message is handled.
LEMMA LaterIsStrict ==
  ASSUME DispatchAssumption, NEW g \in Handler, NEW k \in Handler, NEW l \in Handler
  PROVE  /\ ~Later(g, g)
         /\ Later(l, k) /\ Later(k, g) => Later(l, g)
<1> DEFINE Typed(x) == /\ x.i \in Nat /\ x.round \in Nat /\ x.chat \in Nat /\ x.try \in Nat
                       /\ Stage(x) \in Nat
<1>1. \A x \in Handler : Typed(x)
  <2> SUFFICES ASSUME NEW x \in Handler
               PROVE  Typed(x)
    OBVIOUS
  <2>1. /\ x.i \in 1..3 /\ x.round \in 0..MaxRetries /\ x.chat \in Destination
        /\ x.try \in 0..MaxRetries
    BY DEF Handler
  <2>2. x.i \in Nat /\ x.round \in Nat /\ x.try \in Nat
    BY <2>1, DispatchAssumption
  <2>3. x.chat \in Nat
    BY <2>1, DispatchAssumption DEF Destination
  <2>4. Stage(x) \in Nat
    BY DEF Stage
  <2> QED
    BY <2>2, <2>3, <2>4
<1>2. Typed(g) /\ Typed(k) /\ Typed(l)
  BY <1>1
<1> HIDE DEF Typed
<1>i. /\ g.i \in Nat /\ k.i \in Nat /\ l.i \in Nat
      /\ g.round \in Nat /\ k.round \in Nat /\ l.round \in Nat
  BY <1>2 DEF Typed
<1>j. /\ Stage(g) \in Nat /\ Stage(k) \in Nat /\ Stage(l) \in Nat
  BY <1>2 DEF Typed
<1>t. /\ g.chat \in Nat /\ k.chat \in Nat /\ l.chat \in Nat
      /\ g.try \in Nat /\ k.try \in Nat /\ l.try \in Nat
  BY <1>2 DEF Typed
<1>3. ~Later(g, g)
  <2>1. ~(g.i > g.i) /\ ~(g.round > g.round)
    BY <1>i
  <2>2. ~(Stage(g) > Stage(g))
    BY <1>j
  <2>3. ~Beyond(g, g)
    BY <1>t DEF Beyond
  <2> QED
    BY <2>1, <2>2, <2>3 DEF Later
<1>4. ASSUME Later(l, k), Later(k, g), g.pc # "prefs"
      PROVE  Later(l, g)
  <2>1. l.pc # "prefs" /\ l.i >= k.i /\ k.i >= g.i
    BY <1>i, <1>4 DEF Later
  <2>2. CASE l.i > k.i \/ k.i > g.i
    <3>1. l.i > g.i
      BY <1>i, <2>1, <2>2
    <3> QED
      BY <2>1, <3>1 DEF Later
  <2>3. CASE l.i = k.i /\ k.i = g.i
    <3>1. l.round >= k.round /\ k.round >= g.round
      BY <1>i, <1>4, <2>3 DEF Later
    <3>2. CASE l.round > k.round \/ k.round > g.round
      <4>1. l.round > g.round
        BY <1>i, <3>1, <3>2
      <4> QED
        BY <2>1, <2>3, <4>1 DEF Later
    <3>3. CASE l.round = k.round /\ k.round = g.round
      <4>1. /\ Stage(l) > Stage(k) \/ (Stage(l) = Stage(k) /\ Beyond(l, k))
            /\ Stage(k) > Stage(g) \/ (Stage(k) = Stage(g) /\ Beyond(k, g))
        BY <1>i, <1>4, <2>3, <3>3 DEF Later
      <4>2. Beyond(l, k) /\ Beyond(k, g) => Beyond(l, g)
        BY <1>t DEF Beyond
      <4>3. Stage(l) > Stage(g) \/ (Stage(l) = Stage(g) /\ Beyond(l, g))
        BY <1>j, <4>1, <4>2
      <4> QED
        BY <2>1, <2>3, <3>3, <4>3 DEF Later
    <3> QED
      BY <1>i, <3>1, <3>2, <3>3
  <2> QED
    BY <1>i, <2>1, <2>2, <2>3
<1> QED
  BY <1>3, <1>4 DEF Later

\* A round that failed leads to a later place.
LEMMA RoundFailedLater ==
  ASSUME NEW g \in Handler, g.pc \in {"merge", "try"}
  PROVE  /\ Later(RoundFailed(g), g)
         /\ RoundFailed(g).i = g.i /\ RoundFailed(g).round = g.round
         /\ RoundFailed(g).pc \in {"pause", "save"}
  BY DEF RoundFailed, Later, Stage, Handler

\* So does a recipient that is done with.
LEMMA RecipientDoneLater ==
  ASSUME DispatchAssumption, NEW g \in Handler, g.pc = "try", NEW ok \in {0, 1}
  PROVE  Later(RecipientDone(g, ok), g)
<1> DEFINE n == g.reached + ok
           r == [g EXCEPT !.reached = n]
<1>1. n \in Nat /\ g.i \in Nat /\ g.round \in Nat /\ g.chat \in Nat /\ g.try \in Nat
  BY DispatchAssumption DEF Handler, Destination
<1>2. CASE c0 = "telegram" /\ g.chat < ChatCount(data)
  <2>1. RecipientDone(g, ok) = [g EXCEPT !.chat = @ + 1, !.try = 0, !.reached = n]
    BY <1>2 DEF RecipientDone
  <2> QED
    BY <1>1, <2>1 DEF Later, Beyond, Stage, Handler
<1>3. CASE ~(c0 = "telegram" /\ g.chat < ChatCount(data))
  <2>1. RecipientDone(g, ok) = SendResult(g, n)
    BY <1>3 DEF RecipientDone
  <2>2. CASE n > 0
    <3>1. SendResult(g, n) = [g EXCEPT !.pc = "save", !.status = "sent", !.reached = n]
      BY <2>2 DEF SendResult
    <3> DEFINE k == SendResult(g, n)
    <3>2. k.pc = "save" /\ k.i = g.i /\ k.round = g.round
      BY <3>1 DEF Handler
    <3> HIDE DEF k
    <3>3. Later(k, g)
      BY <3>2 DEF Later, Stage
    <3> QED
      BY <2>1, <3>3 DEF k
  <2>3. CASE ~(n > 0)
    <3>1. SendResult(g, n) = RoundFailed(r)
      BY <2>3 DEF SendResult
    <3>2. /\ r.pc = "try" /\ r.i = g.i /\ r.round = g.round
          /\ RoundFailed(r).pc \in {"pause", "save"}
          /\ RoundFailed(r).i = g.i /\ RoundFailed(r).round = g.round
      BY DEF RoundFailed, Handler
    <3> QED
      BY <2>1, <3>1, <3>2 DEF Later, Stage
  <2> QED
    BY <2>2, <2>3
<1> QED
  BY <1>2, <1>3

\* An attempt leads to a later try, a later chat, or out of the round.
LEMMA TryLater ==
  ASSUME IInv, h.pc = "try", NEW outcomes, Try(outcomes)
  PROVE  Later(h', h)
<1>1. h \in Handler
  BY DEF IInv, TypeOK
<1>2. h' \in {RecipientDone(h, 1)} \cup AfterFailure(h)
  BY DEF Try
<1>3. CASE h' \in {RecipientDone(h, 0), RecipientDone(h, 1)}
  BY <1>1, <1>3, RecipientDoneLater, DispatchAssumption
<1>4. CASE h' = [h EXCEPT !.try = @ + 1]
  BY <1>1, <1>4, DispatchAssumption DEF Later, Beyond, Stage, Handler
<1> QED
  BY <1>2, <1>3, <1>4 DEF AfterFailure

\* The next channel is a later one.
LEMMA NextChannelLater ==
  ASSUME IInv, h.pc = "save", NextChannel
  PROVE  h' = Idle \/ Later(h', h)
<1> DEFINE todo == WantedFrom(prefs, h.i + 1)
<1>1. CASE todo = {}
  BY <1>1 DEF NextChannel, Return
<1>2. CASE todo # {}
  <2>1. h.i \in 1..3 /\ todo \subseteq (h.i + 1)..3
    BY DEF IInv, TypeOK, Handler, WantedFrom
  <2>2. First(todo) \in todo
    BY <1>2, <2>1, FirstIsLeast
  <2>3. h' = [Idle EXCEPT !.pc = "merge", !.i = First(todo)]
    BY <1>2 DEF NextChannel
  <2>4. h'.i = First(todo) /\ h'.pc = "merge"
    BY <2>3 DEF Idle
  <2> QED
    BY <2>1, <2>2, <2>4 DEF Later
<1> QED
  BY <1>1, <1>2

\* Each step of handleMessage returns or comes to a later place, and no other step puts it
\* anywhere, except that a message is taken and that the process dies
\* (notification_consumer.go:126-240, and the retry loops of the channels).  As channels,
\* rounds, chats and tries are bounded (TypeOK), a message has boundedly many attempts,
\* however the loops nest and whatever fails in them.
THEOREM HandlerProgress ==
  Spec => [][/\ HandlerStep => h' = Idle \/ Later(h', h)
             /\ HandlerStep \/ Take \/ Crash \/ h' = h]_vars
<1>1. ASSUME IInv, HandlerStep
      PROVE  h' = Idle \/ Later(h', h)
  <2>1. h \in Handler /\ TypeOK
    BY <1>1 DEF IInv, TypeOK
  <2>2. CASE Refuse
    BY <2>2 DEF Refuse, Return
  <2>3. ASSUME NEW table \in Tables, Prepare(table)
        PROVE  h' = Idle \/ Later(h', h)
    <3> DEFINE todo == WantedFrom(table, 1)
    <3>1. CASE todo = {}
      BY <2>3, <3>1 DEF Prepare, Return
    <3>2. CASE todo # {}
      <4>1. h.pc = "prefs" /\ h' = [h EXCEPT !.pc = "merge", !.i = First(todo)]
        BY <2>3, <3>2 DEF Prepare
      <4>2. h'.pc = "merge"
        BY <2>1, <4>1 DEF Handler
      <4> QED
        BY <4>1, <4>2 DEF Later
    <3> QED
      BY <3>1, <3>2
  <2>4. CASE MergeConfig
    <3> h.pc = "merge"
      BY <2>4 DEF MergeConfig
    <3>1. CASE h' = RoundFailed(h)
      <4>1. Later(RoundFailed(h), h)
        BY <2>1, RoundFailedLater
      <4> QED
        BY <3>1, <4>1
    <3>2. CASE h' = [h EXCEPT !.pc = "try", !.try = 0, !.chat = 1, !.reached = 0]
      BY <2>1, <3>2 DEF Later, Stage, Handler
    <3> QED
      BY <2>4, <3>1, <3>2 DEF MergeConfig
  <2>5. CASE SendEmail \/ SendWebhook \/ SendMessage
    BY <1>1, <2>5, TryLater DEF SendEmail, SendWebhook, SendMessage
  <2>6. CASE PauseEnds
    <3>1. CASE h' = [h EXCEPT !.pc = "merge", !.round = @ + 1]
      BY <2>1, <3>1, DispatchAssumption DEF Later, Handler
    <3>2. CASE h' = [h EXCEPT !.pc = "save", !.status = "failed"]
      BY <2>1, <2>6, <3>2 DEF PauseEnds, Later, Stage, Handler
    <3> QED
      BY <2>6, <3>1, <3>2 DEF PauseEnds
  <2>7. CASE SaveHistory \/ SaveHistoryFails
    BY <1>1, <2>7, NextChannelLater DEF SaveHistory, SaveHistoryFails
  <2> QED
    BY <1>1, <2>2, <2>3, <2>4, <2>5, <2>6, <2>7 DEF HandlerStep
<1>2. Next => HandlerStep \/ Take \/ Crash \/ h' = h
  BY DEF Next, Commit, Rebalance, SessionOver, NewSession, Cancel, Close, Exit, groupVars
<1>3. IInv /\ [Next]_vars =>
        [/\ HandlerStep => h' = Idle \/ Later(h', h)
         /\ HandlerStep \/ Take \/ Crash \/ h' = h]_vars
  BY <1>1, <1>2
<1> QED
  BY <1>3, IInvInvariant, PTL DEF Spec

-----------------------------------------------------------------------------
\* ChannelManager: the inductive invariant.
\* What the totals and the counters are, the health check and the metrics.
CountersTyped ==
  /\ total \in [sent : Nat, failed : Nat]
  /\ counter \in [ManagerNames -> [sent : Nat, failed : Nat]]
  /\ health \in [on : BOOLEAN, left : SUBSET ManagerNames]
  /\ reading \in [on : BOOLEAN, left : SUBSET ManagerNames]

\* A registered channel has counters, except inside its registration; one without has
\* counted nothing; and one registered for the first time has none.
RegistryInv ==
  /\ adding \subseteq channels
  /\ \A m, n \in adding : m = n
  /\ channels \subseteq counted \cup adding
  /\ counted \subseteq channels \cup gone
  /\ again = {} => adding \cap counted = {}
  /\ \A n \in ManagerNames : n \notin counted => counter[n] = Manager!NoCount
  /\ \A n \in stray : NameOf[n] # n

\* A send goes to channels with counters; each is still sending, or has answered, and
\* only then has its counter still to come; those that answered without an error took the
\* notification.
SendOf(c) ==
  /\ job[c].left \cup job[c].toCount \subseteq counted
  /\ job[c].left \cap (job[c].sent \cup job[c].failed) = {}
  /\ job[c].sent \cap job[c].failed = {}
  /\ job[c].toCount \subseteq job[c].sent \cup job[c].failed
  /\ job[c].sent \subseteq job[c].took /\ job[c].took \subseteq job[c].sent \cup job[c].failed
  /\ job[c].pc # "sending" => job[c].left = {} /\ job[c].toCount = {}
  /\ job[c].result # "none" =>
       job[c].pc = "done" /\ (job[c].result = "nil" <=> job[c].sent # {})
JobInv == \A c \in Callers : SendOf(c)

\* The counters as columns of pairs: their sum is the size of the stack.
Stack(f, S) == {p \in S \X Nat : p[2] < f[p[1]]}
SentCounts == [n \in ManagerNames |-> counter[n].sent]
FailedCounts == [n \in ManagerNames |-> counter[n].failed]

\* What is in the totals and not in the counters yet.
Pairs(f) == {p \in Callers \X ManagerNames : p[2] \in f[p[1]]}
SentToCount == [c \in Callers |-> job[c].toCount \cap job[c].sent]
FailedToCount == [c \in Callers |-> job[c].toCount \cap job[c].failed]

CountInv ==
  again = {} /\ stray = {} =>
    /\ total.sent = Cardinality(Stack(SentCounts, ManagerNames))
                    + Cardinality(Pairs(SentToCount))
    /\ total.failed = Cardinality(Stack(FailedCounts, ManagerNames))
                      + Cardinality(Pairs(FailedToCount))

EndpointInv == /\ panicked # "settled"
               /\ health.on => health.left \subseteq channels
               /\ reading.left \subseteq counted \cup adding
               /\ ~reading.on => reading.left = {}

ManagerInv == /\ Manager!TypeOK /\ CountersTyped /\ RegistryInv /\ JobInv /\ CountInv
              /\ EndpointInv

-----------------------------------------------------------------------------
\* The counters of the channels add up: sums over finite sets.

\* A set of subsets of a finite set that holds a subset whenever it holds what is left of
\* it without one element, each of them, holds them all: a smallest one missing would be
\* in it.
LEMMA SubsetInduction ==
  ASSUME NEW S, IsFiniteSet(S), NEW G,
         \A T \in SUBSET S : (\A x \in T : T \ {x} \in G) => T \in G
  PROVE  SUBSET S \subseteq G
<1> DEFINE Missing == (SUBSET S) \ G
           Smaller == StrictSubsetOrdering(S)
<1>1. IsWellFoundedOn(Smaller, SUBSET S)
  BY FS_StrictSubsetOrderingWellFounded, FS_FiniteSubsetsOfFinite
<1>2. SUFFICES ASSUME Missing # {} PROVE FALSE
  OBVIOUS
<1> HIDE DEF Smaller
<1>3. PICK T \in Missing : \A U \in Missing : <<U, T>> \notin Smaller
  BY <1>1, <1>2, WFMin
<1>4. ASSUME NEW x \in T
      PROVE  T \ {x} \in G
  <2>1. <<T \ {x}, T>> \in Smaller
    BY DEF Smaller, StrictSubsetOrdering
  <2> QED
    BY <1>3, <2>1
<1> QED
  BY <1>3, <1>4

\* The sum of a function over a finite set is the size of its stack of pairs: a stack is
\* finite, and one more element adds its column.
LEMMA StackColumn ==
  ASSUME NEW T, NEW x \in T, NEW f, f[x] \in Nat, IsFiniteSet(Stack(f, T \ {x}))
  PROVE  /\ IsFiniteSet(Stack(f, T))
         /\ Cardinality(Stack(f, T)) = f[x] + Cardinality(Stack(f, T \ {x}))
<1> DEFINE Last == f[x] - 1
           Heights == 0..Last
           Column == {x} \X Heights
           Others == Stack(f, T \ {x})
<1>1. IsFiniteSet(Heights) /\ Cardinality(Heights) = f[x]
  <2>1. Last \in Int /\ f[x] = IF 0 > Last THEN 0 ELSE Last - 0 + 1
    OBVIOUS
  <2> HIDE DEF Last
  <2> QED
    BY <2>1, FS_Interval
<1>2. IsFiniteSet({x}) /\ Cardinality({x}) = 1
  BY FS_Singleton
<1>3. Column \cap Others = {} /\ Stack(f, T) = Column \cup Others
  BY DEF Stack
<1> HIDE DEF Heights
<1>4. IsFiniteSet(Column) /\ Cardinality(Column) = Cardinality({x}) * Cardinality(Heights)
  BY <1>1, <1>2, FS_Product
<1>5. Cardinality(Column) = f[x]
  BY <1>1, <1>2, <1>4
<1>6. Cardinality({}) = 0
  BY FS_EmptySet
<1>7. IsFiniteSet(Others) /\ Cardinality(Others) \in Nat
  BY FS_CardinalityType
<1> HIDE DEF Column, Others
<1>8. /\ IsFiniteSet(Column \cup Others)
      /\ Cardinality(Column \cup Others)
           = Cardinality(Column) + Cardinality(Others) - Cardinality(Column \cap Others)
  BY <1>4, <1>7, FS_Union
<1>9. Cardinality(Column \cup Others) = f[x] + Cardinality(Others)
  <2>1. Cardinality(Column \cap Others) = 0
    BY <1>3, <1>6
  <2> QED
    BY <1>5, <1>7, <1>8, <2>1
<1> QED
  BY <1>3, <1>8, <1>9 DEF Others

LEMMA StackFinite ==
  ASSUME NEW S, IsFiniteSet(S), NEW f, \A x \in S : f[x] \in Nat
  PROVE  \A T \in SUBSET S : IsFiniteSet(Stack(f, T))
<1> DEFINE G == {T \in SUBSET S : IsFiniteSet(Stack(f, T))}
<1>1. ASSUME NEW T \in SUBSET S, \A x \in T : T \ {x} \in G
      PROVE  T \in G
  <2>1. CASE T = {}
    <3>1. Stack(f, {}) = {}
      BY DEF Stack
    <3> QED
      BY <2>1, <3>1, FS_EmptySet
  <2>2. CASE T # {}
    BY <1>1, <2>2, StackColumn
  <2> QED
    BY <2>1, <2>2
<1> HIDE DEF G
<1>3. SUBSET S \subseteq G
  BY <1>1, SubsetInduction
<1> QED
  BY <1>3 DEF G

\* The fold of the community module, as a recursive function; it exists, and it is the
\* size of the stack.
IsFold(it, f, S) ==
  it = [s \in SUBSET S |-> IF s = {} THEN 0
                          ELSE f[CHOOSE x \in s : TRUE] + it[s \ {CHOOSE x \in s : TRUE}]]

LEMMA FoldExists ==
  ASSUME NEW S, IsFiniteSet(S), NEW f, \A x \in S : f[x] \in Nat
  PROVE  \E it : IsFold(it, f, S)
<1> DEFINE it == [s \in SUBSET S |-> Cardinality(Stack(f, s))]
<1>1. ASSUME NEW s \in SUBSET S
      PROVE  it[s] = IF s = {} THEN 0
                    ELSE f[CHOOSE x \in s : TRUE] + it[s \ {CHOOSE x \in s : TRUE}]
  <2>1. CASE s = {}
    <3>1. Stack(f, {}) = {}
      BY DEF Stack
    <3> QED
      BY <2>1, <3>1, FS_EmptySet
  <2>2. CASE s # {}
    <3> DEFINE x == CHOOSE x \in s : TRUE
    <3>1. x \in s
      BY <2>2
    <3> HIDE DEF x
    <3>2. Cardinality(Stack(f, s)) = f[x] + Cardinality(Stack(f, s \ {x}))
      BY <3>1, StackFinite, StackColumn
    <3>3. s \ {x} \in SUBSET S
      OBVIOUS
    <3>4. it[s] = f[x] + it[s \ {x}]
      BY <3>2, <3>3
    <3> QED
      BY <2>2, <3>4 DEF x
  <2> QED
    BY <2>1, <2>2
<1>2. it = [s \in SUBSET S |-> it[s]]
  OBVIOUS
<1> HIDE DEF it
<1>3. IsFold(it, f, S)
  BY <1>1, <1>2 DEF IsFold
<1> QED
  BY <1>3

LEMMA FoldIsStack ==
  ASSUME NEW S, IsFiniteSet(S), NEW f, \A x \in S : f[x] \in Nat,
         NEW it, IsFold(it, f, S)
  PROVE  it[S] = Cardinality(Stack(f, S))
<1> DEFINE G == {T \in SUBSET S : it[T] = Cardinality(Stack(f, T))}
<1>1. ASSUME NEW T \in SUBSET S, \A x \in T : T \ {x} \in G
      PROVE  T \in G
  <2>1. CASE T = {}
    <3>1. Stack(f, {}) = {}
      BY DEF Stack
    <3>2. it[{}] = 0
      BY DEF IsFold
    <3> QED
      BY <2>1, <3>1, <3>2, FS_EmptySet
  <2>2. CASE T # {}
    <3> DEFINE x == CHOOSE x \in T : TRUE
    <3>1. x \in T
      BY <2>2
    <3>2. it[T] = f[x] + it[T \ {x}]
      BY <2>2 DEF IsFold
    <3> HIDE DEF x
    <3>3. Cardinality(Stack(f, T)) = f[x] + Cardinality(Stack(f, T \ {x}))
      BY <3>1, StackFinite, StackColumn
    <3> QED
      BY <1>1, <3>1, <3>2, <3>3
  <2> QED
    BY <2>1, <2>2
<1> HIDE DEF G
<1>2. SUBSET S \subseteq G
  BY <1>1, SubsetInduction
<1> QED
  BY <1>2 DEF G

\* One more in a column is one more pair.
LEMMA StackGrows ==
  ASSUME NEW S, IsFiniteSet(S), NEW f, \A y \in S : f[y] \in Nat, NEW x \in S,
         NEW g, \A y \in S : g[y] = IF y = x THEN f[y] + 1 ELSE f[y]
  PROVE  Cardinality(Stack(g, S)) = Cardinality(Stack(f, S)) + 1
<1>1. IsFiniteSet(Stack(f, S))
  BY StackFinite
<1>2. Stack(g, S) = Stack(f, S) \cup {<<x, f[x]>>} /\ <<x, f[x]>> \notin Stack(f, S)
  BY DEF Stack
<1> QED
  BY <1>1, <1>2, FS_AddElement

\* The pairs still to count, f, and one channel more, g.
LEMMA ManagerFinite ==
  ASSUME Manager!ManagerAssumption
  PROVE  IsFiniteSet(Callers) /\ IsFiniteSet(ManagerNames)
BY DEF Manager!ManagerAssumption, Manager!IsFiniteSet, IsFiniteSet

LEMMA PairsFinite ==
  ASSUME Manager!ManagerAssumption, NEW f
  PROVE  IsFiniteSet(Pairs(f)) /\ Cardinality(Pairs(f)) \in Nat
<1>1. IsFiniteSet(Callers \X ManagerNames)
  BY ManagerFinite, FS_Product
<1> QED
  BY <1>1, FS_Subset, FS_CardinalityType DEF Pairs

LEMMA PairsStep ==
  ASSUME Manager!ManagerAssumption, NEW c \in Callers, NEW n \in ManagerNames,
         NEW f, n \notin f[c], NEW g, n \in g[c],
         \A d \in Callers : \A m \in ManagerNames :
           d # c \/ m # n => (m \in g[d] <=> m \in f[d])
  PROVE  Cardinality(Pairs(g)) = Cardinality(Pairs(f)) + 1
<1>1. ASSUME NEW d \in Callers, NEW m \in ManagerNames
      PROVE  <<d, m>> \in Pairs(g) <=> <<d, m>> \in Pairs(f) \/ (d = c /\ m = n)
  BY DEF Pairs
<1>2. Pairs(g) = Pairs(f) \cup {<<c, n>>}
  <2>1. ASSUME NEW d \in Callers, NEW m \in ManagerNames
        PROVE  <<d, m>> \in Pairs(g) <=> <<d, m>> \in Pairs(f) \cup {<<c, n>>}
    BY <1>1
  <2>2. /\ Pairs(g) \subseteq Callers \X ManagerNames
        /\ Pairs(f) \cup {<<c, n>>} \subseteq Callers \X ManagerNames
    BY DEF Pairs
  <2> QED
    BY <2>1, <2>2
<1>3. <<c, n>> \notin Pairs(f)
  BY DEF Pairs
<1> QED
  BY <1>2, <1>3, PairsFinite, FS_AddElement

LEMMA PairsSame ==
  ASSUME NEW f, NEW g, \A d \in Callers : g[d] = f[d]
  PROVE  Pairs(g) = Pairs(f)
BY DEF Pairs

LEMMA StackSame ==
  ASSUME NEW S, NEW f, NEW g, \A y \in S : g[y] = f[y]
  PROVE  Stack(g, S) = Stack(f, S)
BY DEF Stack

\* The sums of ReportsAreTrue.
LEMMA SumsAreStacks ==
  ASSUME Manager!ManagerAssumption, CountersTyped
  PROVE  /\ Manager!MapThenSumSet(LAMBDA n : counter[n].sent, ManagerNames)
              = Cardinality(Stack(SentCounts, ManagerNames))
         /\ Manager!MapThenSumSet(LAMBDA n : counter[n].failed, ManagerNames)
              = Cardinality(Stack(FailedCounts, ManagerNames))
<1>f. IsFiniteSet(ManagerNames)
  BY ManagerFinite
<1>1. Manager!MapThenSumSet(LAMBDA n : counter[n].sent, ManagerNames)
        = Cardinality(Stack(SentCounts, ManagerNames))
  <2> DEFINE P(g) == g = [s \in SUBSET ManagerNames |->
                            IF s = {} THEN 0
                            ELSE counter[CHOOSE x \in s : TRUE].sent
                                 + g[s \ {CHOOSE x \in s : TRUE}]]
             fold == CHOOSE g : P(g)
  <2>1. \A x \in ManagerNames : SentCounts[x] \in Nat
    BY DEF CountersTyped, SentCounts
  <2>2. ASSUME NEW g
        PROVE  IsFold(g, SentCounts, ManagerNames) <=> P(g)
    BY DEF SentCounts, IsFold
  <2> HIDE DEF P
  <2>3. \E g : P(g)
    <3>1. PICK g : IsFold(g, SentCounts, ManagerNames)
      BY <1>f, <2>1, FoldExists
    <3> QED
      BY <2>2, <3>1, Zenon
  <2>4. P(fold)
    BY <2>3, Zenon
  <2> USE DEF P
  <2>5. Manager!MapThenSumSet(LAMBDA n : counter[n].sent, ManagerNames)
          = fold[ManagerNames]
    BY DEF Manager!MapThenSumSet, Manager!MapThenFoldSet
  <2> HIDE DEF fold, P
  <2>6. fold[ManagerNames] = Cardinality(Stack(SentCounts, ManagerNames))
    BY <1>f, <2>1, <2>2, <2>4, FoldIsStack
  <2> QED
    BY <2>5, <2>6, Zenon
<1>2. Manager!MapThenSumSet(LAMBDA n : counter[n].failed, ManagerNames)
        = Cardinality(Stack(FailedCounts, ManagerNames))
  <2> DEFINE P(g) == g = [s \in SUBSET ManagerNames |->
                            IF s = {} THEN 0
                            ELSE counter[CHOOSE x \in s : TRUE].failed
                                 + g[s \ {CHOOSE x \in s : TRUE}]]
             fold == CHOOSE g : P(g)
  <2>1. \A x \in ManagerNames : FailedCounts[x] \in Nat
    BY DEF CountersTyped, FailedCounts
  <2>2. ASSUME NEW g
        PROVE  IsFold(g, FailedCounts, ManagerNames) <=> P(g)
    BY DEF FailedCounts, IsFold
  <2> HIDE DEF P
  <2>3. \E g : P(g)
    <3>1. PICK g : IsFold(g, FailedCounts, ManagerNames)
      BY <1>f, <2>1, FoldExists
    <3> QED
      BY <2>2, <3>1, Zenon
  <2>4. P(fold)
    BY <2>3, Zenon
  <2> USE DEF P
  <2>5. Manager!MapThenSumSet(LAMBDA n : counter[n].failed, ManagerNames)
          = fold[ManagerNames]
    BY DEF Manager!MapThenSumSet, Manager!MapThenFoldSet
  <2> HIDE DEF fold, P
  <2>6. fold[ManagerNames] = Cardinality(Stack(FailedCounts, ManagerNames))
    BY <1>f, <2>1, <2>2, <2>4, FoldIsStack
  <2> QED
    BY <2>5, <2>6, Zenon
<1> QED
  BY <1>1, <1>2, Zenon

-----------------------------------------------------------------------------
\* ManagerInv at the start and under every step of the channel manager.
LEMMA ManagerInit ==
  ASSUME Manager!ManagerAssumption, Manager!Init
  PROVE  ManagerInv
<1> USE DEF Manager!Init, Manager!NoCount, Manager!NoJob
<1>1. Manager!TypeOK
  <2>1. DOMAIN rules \subseteq ManagerEvents
        /\ \A e \in DOMAIN rules : rules[e] \subseteq ManagerNames
    BY DEF Manager!ManagerAssumption
  <2>2. job \in [Callers -> Manager!Job]
    BY DEF Manager!Job, Manager!Result
  <2> QED
    BY <2>1, <2>2 DEF Manager!TypeOK, Manager!ManagerAssumption
<1>2. CountersTyped
  BY DEF CountersTyped
<1>3. RegistryInv
  BY DEF RegistryInv
<1>4. JobInv
  BY DEF JobInv, SendOf
<1>5. CountInv
  <2>1. /\ Stack(SentCounts, ManagerNames) = {}
        /\ Stack(FailedCounts, ManagerNames) = {}
    BY DEF Stack, SentCounts, FailedCounts
  <2>2. Pairs(SentToCount) = {} /\ Pairs(FailedToCount) = {}
    BY DEF Pairs, SentToCount, FailedToCount
  <2>3. Cardinality({}) = 0
    BY FS_EmptySet
  <2> QED
    BY <2>1, <2>2, <2>3 DEF CountInv
<1>6. EndpointInv
  BY DEF EndpointInv
<1> QED
  BY <1>1, <1>2, <1>3, <1>4, <1>5, <1>6 DEF ManagerInv

\* What does not move the counters keeps CountInv; nothing takes a name out of `again`.
LEMMA CountsKept ==
  ASSUME ManagerInv, again \subseteq again', stray' = stray, total' = total,
         counter' = counter, job' = job
  PROVE  CountInv'
BY DEF ManagerInv, CountInv, SentCounts, FailedCounts, SentToCount, FailedToCount

\* RegisterChannel, both halves, and UnregisterChannel.
LEMMA RegistrySteps ==
  ASSUME Manager!ManagerAssumption, ManagerInv, NEW n \in ManagerNames,
         \/ Manager!RegisterChannel(n) \/ Manager!NewCounters(n)
         \/ Manager!UnregisterChannel(n)
  PROVE  ManagerInv'
<1> USE DEF ManagerInv, Manager!RegisterChannel, Manager!NewCounters,
            Manager!UnregisterChannel, Manager!Writable, Manager!Change,
            Manager!metricVars, Manager!readVars, Manager!Disturbed
<1>d. \/ UNCHANGED <<reading, panicked>>
      \/ /\ panicked' \in {panicked, "conflict"} /\ reading.on
         /\ \E l \in SUBSET (reading.left \cup (channels' \ channels)) :
              reading' = [reading EXCEPT !.left = l]
  OBVIOUS
<1>e. /\ reading' \in [on : BOOLEAN, left : SUBSET ManagerNames] /\ reading'.on = reading.on
      /\ reading'.left \subseteq reading.left \cup adding'
      /\ ~reading'.on => reading'.left = {}
      /\ panicked' \in {panicked, "conflict"}
  BY <1>d DEF CountersTyped, EndpointInv, RegistryInv
<1>1. Manager!TypeOK'
  BY <1>e DEF Manager!TypeOK, Manager!ManagerAssumption
<1>2. CountersTyped'
  BY <1>e DEF CountersTyped, Manager!NoCount
<1>3. RegistryInv'
  <2>1. CASE Manager!RegisterChannel(n)
    BY <2>1 DEF RegistryInv, Manager!TypeOK
  <2>2. CASE Manager!NewCounters(n)
    BY <2>2 DEF RegistryInv, CountersTyped
  <2>3. CASE Manager!UnregisterChannel(n)
    BY <2>3 DEF RegistryInv
  <2> QED
    BY <2>1, <2>2, <2>3
<1>4. JobInv'
  BY DEF JobInv, SendOf
<1>5. CountInv'
  <2>1. again \subseteq again' /\ stray' = stray /\ total' = total /\ job' = job
    OBVIOUS
  <2>2. CASE again' = {}
    <3>1. counter' = counter
      <4>1. CASE Manager!NewCounters(n)
        <5>1. counter[n] = Manager!NoCount
          BY <2>2, <4>1 DEF RegistryInv
        <5> QED
          BY <4>1, <5>1 DEF CountersTyped
      <4> QED
        BY <4>1
    <3> QED
      BY <2>1, <3>1, CountsKept
  <2>3. CASE again' # {}
    BY <2>3 DEF CountInv
  <2> QED
    BY <2>2, <2>3
<1>6. EndpointInv'
  <2>1. health' = health /\ (health.on => channels' = channels)
    OBVIOUS
  <2>2. reading.on => counted \cup adding \subseteq counted' \cup adding'
    OBVIOUS
  <2> QED
    BY <1>e, <2>1, <2>2 DEF EndpointInv
<1> QED
  BY <1>1, <1>2, <1>3, <1>4, <1>5, <1>6

LEMMA RuleSteps ==
  ASSUME Manager!ManagerAssumption, ManagerInv, NEW e \in ManagerEvents,
         NEW S \in NewRules, Manager!AddRoutingRule(e, S)
  PROVE  ManagerInv'
<1> USE DEF ManagerInv, Manager!AddRoutingRule, Manager!Writable, Manager!Change,
            Manager!metricVars, Manager!readVars
<1>1. Manager!TypeOK'
  <2>1. DOMAIN rules' = DOMAIN rules \cup {e}
        /\ \A x \in DOMAIN rules' : rules'[x] \in {S, rules[x]}
    OBVIOUS
  <2>2. DOMAIN rules' \subseteq ManagerEvents
        /\ \A x \in DOMAIN rules' : rules'[x] \subseteq ManagerNames
    BY DEF Manager!TypeOK, Manager!ManagerAssumption
  <2> QED
    BY <2>2 DEF Manager!TypeOK, Manager!ManagerAssumption
<1>2. CountersTyped' /\ RegistryInv' /\ JobInv' /\ EndpointInv'
  BY DEF CountersTyped, RegistryInv, JobInv, SendOf, EndpointInv
<1>3. CountInv'
  BY CountsKept
<1> QED
  BY <1>1, <1>2, <1>3

\* The health check and the metrics: the counters of a channel are missing only inside its
\* registration.
LEMMA EndpointSteps ==
  ASSUME ManagerInv,
         \/ Manager!HealthCheck \/ Manager!HealthChecked \/ Manager!GetMetrics
         \/ Manager!MetricsRead
         \/ \E n \in ManagerNames : Manager!Checked(n) \/ Manager!Loaded(n)
  PROVE  ManagerInv'
<1> USE DEF ManagerInv, Manager!Readable, Manager!registryVars, Manager!metricVars,
            Manager!readVars
<1>1. UNCHANGED <<channels, counted, rules, adding, job, total, counter, changes, gone,
                  again, stray>>
  BY DEF Manager!HealthCheck, Manager!HealthChecked, Manager!GetMetrics,
         Manager!MetricsRead, Manager!Checked, Manager!Loaded
<1> DEFINE Guard == [on : BOOLEAN, left : SUBSET ManagerNames]
           Goal == /\ health' \in Guard /\ reading' \in Guard
                   /\ health'.on => health'.left \subseteq channels
                   /\ reading'.left \subseteq counted \cup adding
                   /\ ~reading'.on => reading'.left = {}
                   /\ panicked' \in {"no", "registering", "conflict"}
<1>2. Goal
  <2>0. /\ health \in Guard /\ reading \in Guard
        /\ health.on => health.left \subseteq channels
        /\ reading.left \subseteq counted \cup adding
        /\ ~reading.on => reading.left = {}
        /\ panicked \in {"no", "registering", "conflict"}
        /\ channels \subseteq ManagerNames /\ channels \subseteq counted \cup adding
    BY DEF CountersTyped, EndpointInv, RegistryInv, Manager!TypeOK
  <2>1. CASE Manager!HealthCheck
    BY <2>0, <2>1 DEF Manager!HealthCheck
  <2>2. CASE Manager!HealthChecked
    BY <2>0, <2>2 DEF Manager!HealthChecked
  <2>3. CASE Manager!GetMetrics
    BY <2>0, <2>3 DEF Manager!GetMetrics
  <2>4. CASE Manager!MetricsRead
    BY <2>0, <2>4 DEF Manager!MetricsRead
  <2>5. ASSUME NEW n \in ManagerNames, Manager!Checked(n)
        PROVE  Goal
    <3>1. health' = [on |-> health.on, left |-> health.left \ {n}]
      BY <2>0, <2>5 DEF Manager!Checked
    <3> QED
      BY <2>0, <2>5, <3>1 DEF Manager!Checked
  <2>6. ASSUME NEW n \in ManagerNames, Manager!Loaded(n)
        PROVE  Goal
    <3>1. CASE n \in counted
      <4>1. reading' = [on |-> reading.on, left |-> reading.left \ {n}]
        BY <2>0, <2>6, <3>1 DEF Manager!Loaded
      <4> QED
        BY <2>0, <2>6, <3>1, <4>1 DEF Manager!Loaded
    <3>2. CASE n \notin counted
      <4>1. n \in adding
        BY <2>0, <2>6, <3>2 DEF Manager!Loaded
      <4>2. /\ reading' = [on |-> FALSE, left |-> {}] /\ panicked' = "registering"
            /\ health' = health
        BY <2>6, <3>2, <4>1 DEF Manager!Loaded
      <4> QED
        BY <2>0, <4>2
    <3> QED
      BY <3>1, <3>2
  <2> QED
    BY <2>1, <2>2, <2>3, <2>4, <2>5, <2>6
<1>3. CountersTyped' /\ Manager!TypeOK'
  BY <1>1, <1>2 DEF CountersTyped, Manager!TypeOK
<1>4. RegistryInv' /\ JobInv'
  BY <1>1 DEF RegistryInv, JobInv, SendOf
<1>5. CountInv'
  BY <1>1, CountsKept
<1>6. EndpointInv'
  BY <1>1, <1>2 DEF EndpointInv
<1> QED
  BY <1>3, <1>4, <1>5, <1>6

\* A job with some fields changed is the record of its fields.
LEMMA JobFields ==
  ASSUME NEW i \in Manager!Job, NEW k, k = [x \in DOMAIN i |-> k[x]]
  PROVE  k = [pc |-> k.pc, left |-> k.left, sent |-> k.sent, failed |-> k.failed,
              took |-> k.took, toCount |-> k.toCount, direct |-> k.direct,
              result |-> k.result]
<1>1. DOMAIN i = {"pc", "left", "sent", "failed", "took", "toCount", "direct", "result"}
  BY DEF Manager!Job
<1> QED
  BY <1>1

\* Send and SendToChannels: what a job starts with.
LEMMA StartSteps ==
  ASSUME ManagerInv, NEW c \in Callers, NEW S \in SUBSET channels,
         NEW b \in BOOLEAN, Manager!Readable, Manager!StartJob(c, S, b)
  PROVE  ManagerInv'
<1> USE DEF ManagerInv, Manager!Readable, Manager!StartJob, Manager!registryVars,
            Manager!metricVars, Manager!readVars
<1>1. UNCHANGED <<channels, counted, rules, adding, total, counter, health, reading,
                  panicked, changes, gone, again, stray>>
  OBVIOUS
<1>2. PICK j \in Manager!Job :
        /\ job' = [job EXCEPT ![c] = j]
        /\ j.left \subseteq S /\ j.sent = {} /\ j.failed = {} /\ j.toCount = {}
        /\ j.took = {}
        /\ j.pc # "sending" => j.left = {}
        /\ j.result = "none" \/ (j.result = "error" /\ j.pc = "done")
  <2> DEFINE Empty == [Manager!NoJob EXCEPT !.pc = "done", !.result = "error"]
             Full == [Manager!NoJob EXCEPT !.pc = "sending", !.left = S, !.direct = b]
  <2>1. /\ Empty = [pc |-> "done", left |-> {}, sent |-> {}, failed |-> {}, took |-> {},
                    toCount |-> {}, direct |-> FALSE, result |-> "error"]
        /\ Full = [pc |-> "sending", left |-> S, sent |-> {}, failed |-> {}, took |-> {},
                   toCount |-> {}, direct |-> b, result |-> "none"]
    <3>1. Manager!NoJob \in Manager!Job
      BY DEF Manager!NoJob, Manager!Job, Manager!Result
    <3>2. /\ Empty = [x \in DOMAIN Manager!NoJob |-> Empty[x]]
          /\ Full = [x \in DOMAIN Manager!NoJob |-> Full[x]]
      OBVIOUS
    <3>3. /\ Empty.pc = "done" /\ Empty.left = {} /\ Empty.sent = {}
          /\ Empty.failed = {} /\ Empty.toCount = {} /\ Empty.result = "error"
          /\ Empty.took = {} /\ Empty.direct = FALSE
          /\ Full.pc = "sending" /\ Full.left = S /\ Full.sent = {}
          /\ Full.failed = {} /\ Full.toCount = {} /\ Full.result = "none"
          /\ Full.took = {} /\ Full.direct = b
      BY DEF Manager!NoJob
    <3> HIDE DEF Empty, Full
    <3>4. Empty = [pc |-> Empty.pc, left |-> Empty.left, sent |-> Empty.sent,
                   failed |-> Empty.failed, took |-> Empty.took,
                   toCount |-> Empty.toCount, direct |-> Empty.direct,
                   result |-> Empty.result]
      BY <3>1, <3>2, JobFields
    <3>5. Full = [pc |-> Full.pc, left |-> Full.left, sent |-> Full.sent,
                  failed |-> Full.failed, took |-> Full.took,
                  toCount |-> Full.toCount, direct |-> Full.direct,
                  result |-> Full.result]
      BY <3>1, <3>2, JobFields
    <3> QED
      BY <3>3, <3>4, <3>5
  <2> HIDE DEF Empty, Full
  <2>2. Empty \in Manager!Job /\ Full \in Manager!Job
    BY <2>1 DEF Manager!Job, Manager!Result, Manager!TypeOK
  <2>3. job' = [job EXCEPT ![c] = IF S = {} THEN Empty ELSE Full]
    BY DEF Empty, Full
  <2>4. CASE S = {}
    BY <2>1, <2>2, <2>3, <2>4
  <2>5. CASE S # {}
    BY <2>1, <2>2, <2>3, <2>5
  <2> QED
    BY <2>4, <2>5
<1>3. job[c].pc = "idle" /\ job[c].toCount = {}
  BY DEF JobInv, SendOf
<1> HIDE DEF Manager!StartJob
<1>4. \A d \in Callers : job'[d] = IF d = c THEN j ELSE job[d]
  BY <1>2 DEF Manager!TypeOK
<1>5. Manager!TypeOK'
  <2>1. job' \in [Callers -> Manager!Job]
    BY <1>2 DEF Manager!TypeOK
  <2> QED
    BY <1>1, <2>1 DEF Manager!TypeOK
<1>6. CountersTyped' /\ RegistryInv' /\ EndpointInv'
  BY <1>1 DEF CountersTyped, RegistryInv, EndpointInv
<1>7. JobInv'
  <2>1. S \subseteq counted
    BY DEF RegistryInv
  <2>2. ASSUME NEW d \in Callers
        PROVE  SendOf(d)'
    BY <1>1, <1>2, <1>4, <2>1 DEF JobInv, SendOf
  <2> QED
    BY <2>2 DEF JobInv
<1>8. CountInv'
  <2>1. Pairs(SentToCount)' = Pairs(SentToCount)
        /\ Pairs(FailedToCount)' = Pairs(FailedToCount)
    BY <1>2, <1>3, <1>4 DEF Pairs, SentToCount, FailedToCount
  <2> QED
    BY <1>1, <2>1 DEF CountInv, SentCounts, FailedCounts
<1> QED
  BY <1>5, <1>6, <1>7, <1>8

LEMMA ReturnSteps ==
  ASSUME ManagerInv, NEW c \in Callers, Manager!SendReturns(c)
  PROVE  ManagerInv'
<1> USE DEF ManagerInv, Manager!SendReturns, Manager!registryVars, Manager!metricVars,
            Manager!readVars
<1>1. UNCHANGED <<channels, counted, rules, adding, total, counter, health, reading,
                  panicked, changes, gone, again, stray>>
  OBVIOUS
<1>g. job[c].pc = "sending" /\ job[c].left = {} /\ job[c].toCount = {}
  OBVIOUS
<1>2. PICK r \in {"nil", "error"} :
        /\ job' = [job EXCEPT ![c].pc = "done", ![c].result = r]
        /\ r = "nil" <=> job[c].sent # {}
  OBVIOUS
<1> DEFINE j == [pc |-> "done", left |-> job[c].left, sent |-> job[c].sent,
                failed |-> job[c].failed, took |-> job[c].took,
                toCount |-> job[c].toCount, direct |-> job[c].direct, result |-> r]
<1>3. job' = [job EXCEPT ![c] = j]
  <2>1. [job[c] EXCEPT !.pc = "done", !.result = r] = j
    <3> DEFINE k == [job[c] EXCEPT !.pc = "done", !.result = r]
    <3>1. job[c] \in Manager!Job
      BY DEF Manager!TypeOK
    <3>2. k = [x \in DOMAIN job[c] |-> k[x]]
      OBVIOUS
    <3>3. /\ k.pc = "done" /\ k.left = job[c].left /\ k.sent = job[c].sent
          /\ k.failed = job[c].failed /\ k.toCount = job[c].toCount /\ k.result = r
          /\ k.took = job[c].took /\ k.direct = job[c].direct
      BY <3>1 DEF Manager!Job
    <3> HIDE DEF k
    <3>4. k = [pc |-> k.pc, left |-> k.left, sent |-> k.sent, failed |-> k.failed,
               took |-> k.took, toCount |-> k.toCount, direct |-> k.direct,
             result |-> k.result]
      BY <3>1, <3>2, JobFields
    <3>5. k = j
      BY <3>3, <3>4
    <3> QED
      BY <3>5 DEF k
  <2> QED
    BY <1>2, <2>1 DEF Manager!TypeOK
<1>4. Manager!TypeOK'
  <2>1. j \in Manager!Job
    BY DEF Manager!TypeOK, Manager!Job, Manager!Result
  <2> HIDE DEF j
  <2>2. job' \in [Callers -> Manager!Job]
    BY <1>3, <2>1 DEF Manager!TypeOK
  <2> QED
    BY <1>1, <2>2 DEF Manager!TypeOK
<1>5. CountersTyped' /\ RegistryInv' /\ EndpointInv'
  BY <1>1 DEF CountersTyped, RegistryInv, EndpointInv
<1>j. /\ \A d \in Callers : job'[d] = IF d = c THEN j ELSE job[d]
      /\ j.left = job[c].left /\ j.sent = job[c].sent /\ j.failed = job[c].failed
      /\ j.toCount = job[c].toCount /\ j.pc = "done" /\ j.result = r
      /\ j.failed = job[c].failed /\ j.took = job[c].took
  BY <1>3 DEF Manager!TypeOK
<1> HIDE DEF j, Manager!SendReturns
<1>6. JobInv'
  <2>1. ASSUME NEW d \in Callers
        PROVE  SendOf(d)'
    <3>1. CASE d = c
      <4>1. job'[c].pc = "done" /\ (job'[c].result = "nil" <=> job'[c].sent # {})
        BY <1>2, <1>j
      <4>2. SendOf(c)
        BY DEF JobInv
      <4> QED
        BY <1>1, <1>g, <1>j, <3>1, <4>1, <4>2 DEF SendOf
    <3>2. CASE d # c
      BY <1>1, <1>j, <3>2 DEF JobInv, SendOf
    <3> QED
      BY <3>1, <3>2
  <2> QED
    BY <2>1 DEF JobInv
<1>7. CountInv'
  <2>1. Pairs(SentToCount)' = Pairs(SentToCount)
        /\ Pairs(FailedToCount)' = Pairs(FailedToCount)
    BY <1>j DEF Pairs, SentToCount, FailedToCount
  <2> QED
    BY <1>1, <2>1 DEF CountInv, SentCounts, FailedCounts
<1> QED
  BY <1>4, <1>5, <1>6, <1>7

LEMMA StacksInNat ==
  ASSUME Manager!ManagerAssumption, ManagerInv
  PROVE  /\ Cardinality(Stack(SentCounts, ManagerNames)) \in Nat
         /\ Cardinality(Stack(FailedCounts, ManagerNames)) \in Nat
         /\ \A f : Cardinality(Pairs(f)) \in Nat
<1>1. /\ IsFiniteSet(Stack(SentCounts, ManagerNames))
      /\ IsFiniteSet(Stack(FailedCounts, ManagerNames))
  <2>1. /\ \A x \in ManagerNames : SentCounts[x] \in Nat
        /\ \A x \in ManagerNames : FailedCounts[x] \in Nat
    BY DEF ManagerInv, CountersTyped, SentCounts, FailedCounts
  <2> QED
    BY <2>1, ManagerFinite, StackFinite
<1> QED
  BY <1>1, FS_CardinalityType, PairsFinite

Took(c, n) ==
  /\ n \in job[c].left
  /\ job' = [job EXCEPT ![c].left = @ \ {n}, ![c].sent = @ \cup {n},
                        ![c].took = @ \cup {n}, ![c].toCount = @ \cup {n}]
  /\ total' = [total EXCEPT !.sent = @ + 1]
  /\ UNCHANGED <<channels, counted, rules, adding, counter, health, reading, panicked,
                 changes, gone, again, stray>>

\* A channel took the notification: the total goes up, and the channel is one more to count.
LEMMA AnsweredSent ==
  ASSUME Manager!ManagerAssumption, ManagerInv, NEW c \in Callers, NEW n \in ManagerNames,
         Took(c, n)
  PROVE  ManagerInv'
<1> USE DEF ManagerInv, Took
<1> DEFINE k == [job[c] EXCEPT !.left = @ \ {n}, !.sent = @ \cup {n},
                               !.took = @ \cup {n}, !.toCount = @ \cup {n}]
<1>t. job[c] \in Manager!Job
  BY DEF Manager!TypeOK
<1>1. job' = [job EXCEPT ![c] = k]
  BY DEF Manager!TypeOK
<1>2. k = [x \in DOMAIN job[c] |-> k[x]]
  OBVIOUS
<1>3. /\ k.pc = job[c].pc /\ k.left = job[c].left \ {n}
      /\ k.sent = job[c].sent \cup {n} /\ k.failed = job[c].failed
      /\ k.took = job[c].took \cup {n} /\ k.direct = job[c].direct
      /\ k.toCount = job[c].toCount \cup {n} /\ k.result = job[c].result
  BY <1>t DEF Manager!Job
<1> HIDE DEF k
<1>4. k \in Manager!Job
  <2>1. k = [pc |-> k.pc, left |-> k.left, sent |-> k.sent, failed |-> k.failed,
             took |-> k.took, toCount |-> k.toCount, direct |-> k.direct,
             result |-> k.result]
    BY <1>t, <1>2, JobFields
  <2> QED
    BY <1>t, <1>3, <2>1 DEF Manager!Job
<1>5. \A d \in Callers : job'[d] = IF d = c THEN k ELSE job[d]
  BY <1>1 DEF Manager!TypeOK
<1>6. Manager!TypeOK'
  <2>1. job' \in [Callers -> Manager!Job]
    BY <1>1, <1>4 DEF Manager!TypeOK
  <2> QED
    BY <2>1 DEF Manager!TypeOK
<1>u. UNCHANGED <<channels, counted, rules, adding, counter, health, reading, panicked,
                  changes, gone, again, stray>>
  OBVIOUS
<1>7. CountersTyped' /\ total'.sent = total.sent + 1 /\ total'.failed = total.failed
  BY DEF CountersTyped
<1>8. RegistryInv' /\ EndpointInv'
  BY DEF RegistryInv, EndpointInv
<1>9. SendOf(c)
  BY DEF JobInv
<1>l. n \in job[c].left
  OBVIOUS
<1> HIDE DEF Took
<1>10. JobInv'
  <2>1. ASSUME NEW d \in Callers
        PROVE  SendOf(d)'
    <3>1. CASE d = c
      BY <1>l, <1>u, <1>3, <1>5, <1>9, <3>1 DEF SendOf
    <3>2. CASE d # c
      BY <1>u, <1>5, <3>2 DEF JobInv, SendOf
    <3> QED
      BY <3>1, <3>2
  <2> QED
    BY <2>1 DEF JobInv
<1>11. CountInv'
  <2>1. /\ n \notin SentToCount[c] /\ n \in SentToCount'[c]
        /\ \A d \in Callers : \A m \in ManagerNames :
             d # c \/ m # n => (m \in SentToCount'[d] <=> m \in SentToCount[d])
    BY <1>l, <1>u, <1>3, <1>5, <1>9 DEF SendOf, SentToCount
  <2>2. Cardinality(Pairs(SentToCount')) = Cardinality(Pairs(SentToCount)) + 1
    BY <2>1, PairsStep
  <2>3. \A d \in Callers : FailedToCount'[d] = FailedToCount[d]
    BY <1>l, <1>u, <1>3, <1>5, <1>9 DEF SendOf, FailedToCount
  <2>4. Pairs(FailedToCount') = Pairs(FailedToCount)
    BY <2>3, PairsSame
  <2>5. SentCounts' = SentCounts /\ FailedCounts' = FailedCounts
    BY <1>u DEF SentCounts, FailedCounts
  <2>6. CountInv
    OBVIOUS
  <2> QED
    BY <1>u, <1>7, <2>2, <2>4, <2>5, <2>6, StacksInNat DEF CountInv, CountersTyped
<1> QED
  BY <1>6, <1>7, <1>8, <1>10, <1>11

Refused(c, n, taken) ==
  /\ n \in job[c].left
  /\ job' = [job EXCEPT ![c].left = @ \ {n}, ![c].failed = @ \cup {n},
                        ![c].took = @ \cup taken, ![c].toCount = @ \cup {n}]
  /\ total' = [total EXCEPT !.failed = @ + 1]
  /\ UNCHANGED <<channels, counted, rules, adding, counter, health, reading, panicked,
                 changes, gone, again, stray>>

\* A channel answered with an error: the total goes up, and the channel is one more to count.
LEMMA AnsweredFailed ==
  ASSUME Manager!ManagerAssumption, ManagerInv, NEW c \in Callers, NEW n \in ManagerNames,
         NEW taken \in SUBSET {n}, Refused(c, n, taken)
  PROVE  ManagerInv'
<1> USE DEF ManagerInv, Refused
<1> DEFINE k == [job[c] EXCEPT !.left = @ \ {n}, !.failed = @ \cup {n},
                               !.took = @ \cup taken, !.toCount = @ \cup {n}]
<1>t. job[c] \in Manager!Job
  BY DEF Manager!TypeOK
<1>1. job' = [job EXCEPT ![c] = k]
  BY DEF Manager!TypeOK
<1>2. k = [x \in DOMAIN job[c] |-> k[x]]
  OBVIOUS
<1>3. /\ k.pc = job[c].pc /\ k.left = job[c].left \ {n}
      /\ k.failed = job[c].failed \cup {n} /\ k.sent = job[c].sent
      /\ k.took = job[c].took \cup taken /\ k.direct = job[c].direct
      /\ k.toCount = job[c].toCount \cup {n} /\ k.result = job[c].result
  BY <1>t DEF Manager!Job
<1> HIDE DEF k
<1>4. k \in Manager!Job
  <2>1. k = [pc |-> k.pc, left |-> k.left, sent |-> k.sent, failed |-> k.failed,
             took |-> k.took, toCount |-> k.toCount, direct |-> k.direct,
             result |-> k.result]
    BY <1>t, <1>2, JobFields
  <2> QED
    BY <1>t, <1>3, <2>1 DEF Manager!Job
<1>5. \A d \in Callers : job'[d] = IF d = c THEN k ELSE job[d]
  BY <1>1 DEF Manager!TypeOK
<1>6. Manager!TypeOK'
  <2>1. job' \in [Callers -> Manager!Job]
    BY <1>1, <1>4 DEF Manager!TypeOK
  <2> QED
    BY <2>1 DEF Manager!TypeOK
<1>u. UNCHANGED <<channels, counted, rules, adding, counter, health, reading, panicked,
                  changes, gone, again, stray>>
  OBVIOUS
<1>7. CountersTyped' /\ total'.failed = total.failed + 1 /\ total'.sent = total.sent
  BY DEF CountersTyped
<1>8. RegistryInv' /\ EndpointInv'
  BY DEF RegistryInv, EndpointInv
<1>9. SendOf(c)
  BY DEF JobInv
<1>l. n \in job[c].left
  OBVIOUS
<1> HIDE DEF Refused
<1>10. JobInv'
  <2>1. ASSUME NEW d \in Callers
        PROVE  SendOf(d)'
    <3>1. CASE d = c
      BY <1>l, <1>u, <1>3, <1>5, <1>9, <3>1 DEF SendOf
    <3>2. CASE d # c
      BY <1>u, <1>5, <3>2 DEF JobInv, SendOf
    <3> QED
      BY <3>1, <3>2
  <2> QED
    BY <2>1 DEF JobInv
<1>11. CountInv'
  <2>1. /\ n \notin FailedToCount[c] /\ n \in FailedToCount'[c]
        /\ \A d \in Callers : \A m \in ManagerNames :
             d # c \/ m # n => (m \in FailedToCount'[d] <=> m \in FailedToCount[d])
    BY <1>l, <1>u, <1>3, <1>5, <1>9 DEF SendOf, FailedToCount
  <2>2. Cardinality(Pairs(FailedToCount')) = Cardinality(Pairs(FailedToCount)) + 1
    BY <2>1, PairsStep
  <2>3. \A d \in Callers : SentToCount'[d] = SentToCount[d]
    BY <1>l, <1>u, <1>3, <1>5, <1>9 DEF SendOf, SentToCount
  <2>4. Pairs(SentToCount') = Pairs(SentToCount)
    BY <2>3, PairsSame
  <2>5. SentCounts' = SentCounts /\ FailedCounts' = FailedCounts
    BY <1>u DEF SentCounts, FailedCounts
  <2>6. CountInv
    OBVIOUS
  <2> QED
    BY <1>u, <1>7, <2>2, <2>4, <2>5, <2>6, StacksInNat DEF CountInv, CountersTyped
<1> QED
  BY <1>6, <1>7, <1>8, <1>10, <1>11

\* RecordSuccess: the counter of the channel goes up, and there is one less to count.
LEMMA CountedSent ==
  ASSUME Manager!ManagerAssumption, ManagerInv, NEW c \in Callers, NEW n \in ManagerNames,
         Manager!RecordSuccess(c, n)
  PROVE  ManagerInv'
<1> USE DEF ManagerInv, Manager!RecordSuccess, Manager!Recorded, Manager!registryVars,
            Manager!readVars
<1> DEFINE l == Manager!Label(c, n)
<1> DEFINE k == [job[c] EXCEPT !.toCount = @ \ {n}]
<1>t. job[c] \in Manager!Job
  BY DEF Manager!TypeOK
<1>u. UNCHANGED <<channels, counted, rules, adding, total, health, reading, panicked,
                  changes, gone, again>>
  OBVIOUS
<1>1. job' = [job EXCEPT ![c] = k]
  BY DEF Manager!TypeOK
<1>2. k = [x \in DOMAIN job[c] |-> k[x]]
  OBVIOUS
<1>3. /\ k.pc = job[c].pc /\ k.left = job[c].left /\ k.sent = job[c].sent
      /\ k.failed = job[c].failed /\ k.toCount = job[c].toCount \ {n}
      /\ k.took = job[c].took /\ k.direct = job[c].direct
      /\ k.result = job[c].result
  BY <1>t DEF Manager!Job
<1> HIDE DEF k
<1>4. k \in Manager!Job
  <2>1. k = [pc |-> k.pc, left |-> k.left, sent |-> k.sent, failed |-> k.failed,
             took |-> k.took, toCount |-> k.toCount, direct |-> k.direct,
             result |-> k.result]
    BY <1>t, <1>2, JobFields
  <2> QED
    BY <1>t, <1>3, <2>1 DEF Manager!Job
<1>5. \A d \in Callers : job'[d] = IF d = c THEN k ELSE job[d]
  BY <1>1 DEF Manager!TypeOK
<1>9. SendOf(c)
  BY DEF JobInv
<1>g. n \in counted /\ n \in job[c].toCount /\ n \in job[c].sent
  BY <1>9 DEF SendOf
<1> DEFINE q == [sent |-> counter[l].sent + 1, failed |-> counter[l].failed]
<1>s. \/ stray' = stray \cup {n} /\ NameOf[n] # n /\ counter' = counter
      \/ /\ stray' = stray /\ l \in counted /\ l \in ManagerNames
         /\ counter' = [counter EXCEPT ![l] = q]
  <2>1. CASE l \in counted
    <3>1. l \in ManagerNames
      BY <2>1 DEF Manager!TypeOK
    <3>2. counter' = [counter EXCEPT ![l].sent = @ + 1] /\ stray' = stray
      BY <2>1
    <3> HIDE DEF l
    <3>3. counter[l] \in [sent : Nat, failed : Nat]
      BY <3>1 DEF CountersTyped
    <3>4. [counter[l] EXCEPT !.sent = @ + 1] = q
      BY <3>3
    <3> QED
      BY <2>1, <3>1, <3>2, <3>4 DEF CountersTyped
  <2>2. CASE l \notin counted
    <3>1. l # n
      BY <1>g, <2>2
    <3>2. l = NameOf[n]
      BY <3>1 DEF Manager!Label
    <3> QED
      BY <2>2, <3>1, <3>2
  <2> QED
    BY <2>1, <2>2
<1> HIDE DEF l
<1> HIDE DEF Manager!RecordSuccess
<1>d. /\ counter' \in [ManagerNames -> [sent : Nat, failed : Nat]]
      /\ \A m \in ManagerNames : m \notin counted => counter'[m] = counter[m]
      /\ stray' \subseteq ManagerNames /\ \A m \in stray' : NameOf[m] # m
  <2>1. q \in [sent : Nat, failed : Nat] \/ l \notin ManagerNames
    BY DEF CountersTyped
  <2> HIDE DEF q
  <2> QED
    BY <1>s, <2>1 DEF CountersTyped, RegistryInv, Manager!TypeOK
<1>6. Manager!TypeOK'
  <2>1. job' \in [Callers -> Manager!Job]
    BY <1>1, <1>4 DEF Manager!TypeOK
  <2> QED
    BY <1>u, <1>d, <2>1 DEF Manager!TypeOK
<1>7. CountersTyped'
  BY <1>u, <1>d DEF CountersTyped
<1>8. RegistryInv' /\ EndpointInv'
  BY <1>u, <1>d DEF RegistryInv, EndpointInv
<1>10. JobInv'
  <2>1. ASSUME NEW d \in Callers
        PROVE  SendOf(d)'
    <3>1. CASE d = c
      BY <1>u, <1>3, <1>5, <1>9, <3>1 DEF SendOf
    <3>2. CASE d # c
      BY <1>u, <1>5, <3>2 DEF JobInv, SendOf
    <3> QED
      BY <3>1, <3>2
  <2> QED
    BY <2>1 DEF JobInv
<1>11. CountInv'
  <2> SUFFICES ASSUME again' = {} /\ stray' = {}
               PROVE  CountInv'
    BY DEF CountInv
  <2>0. l \in ManagerNames /\ counter' = [counter EXCEPT ![l] = q] /\ stray = {}
    BY <1>s
  <2>1. /\ n \in SentToCount[c] /\ n \notin SentToCount'[c]
        /\ \A d \in Callers : \A m \in ManagerNames :
             d # c \/ m # n => (m \in SentToCount[d] <=> m \in SentToCount'[d])
    BY <1>3, <1>5, <1>g DEF SentToCount
  <2>2. Cardinality(Pairs(SentToCount)) = Cardinality(Pairs(SentToCount')) + 1
    BY <2>1, PairsStep
  <2>3. \A d \in Callers : FailedToCount'[d] = FailedToCount[d]
    BY <1>3, <1>5, <1>9, <1>g DEF SendOf, FailedToCount
  <2>4. Pairs(FailedToCount') = Pairs(FailedToCount)
    BY <2>3, PairsSame
  <2>5. /\ \A y \in ManagerNames : SentCounts[y] \in Nat
        /\ \A y \in ManagerNames :
             SentCounts'[y] = IF y = l THEN SentCounts[y] + 1 ELSE SentCounts[y]
    <3>1. \A y \in ManagerNames : counter'[y] = IF y = l THEN q ELSE counter[y]
      BY <2>0 DEF CountersTyped
    <3>2. q.sent = counter[l].sent + 1
      OBVIOUS
    <3>3. \A y \in ManagerNames : counter[y].sent \in Nat
      BY DEF CountersTyped
    <3> HIDE DEF q
    <3> QED
      BY <3>1, <3>2, <3>3 DEF SentCounts
  <2>6. Cardinality(Stack(SentCounts', ManagerNames))
          = Cardinality(Stack(SentCounts, ManagerNames)) + 1
    BY <2>0, <2>5, ManagerFinite, StackGrows
  <2>7. Stack(FailedCounts', ManagerNames) = Stack(FailedCounts, ManagerNames)
    <3>1. \A y \in ManagerNames : FailedCounts'[y] = FailedCounts[y]
      BY <2>0 DEF FailedCounts, CountersTyped
    <3> QED
      BY <3>1, StackSame
  <2>8. CountInv
    OBVIOUS
  <2> QED
    BY <1>u, <2>2, <2>0, <2>4, <2>6, <2>7, <2>8, StacksInNat DEF CountInv
<1> QED
  BY <1>6, <1>7, <1>8, <1>10, <1>11

\* RecordFailure: the counter of the channel goes up, and there is one less to count.
LEMMA CountedFailed ==
  ASSUME Manager!ManagerAssumption, ManagerInv, NEW c \in Callers, NEW n \in ManagerNames,
         Manager!RecordFailure(c, n)
  PROVE  ManagerInv'
<1> USE DEF ManagerInv, Manager!RecordFailure, Manager!Recorded, Manager!registryVars,
            Manager!readVars
<1> DEFINE l == Manager!Label(c, n)
<1> DEFINE k == [job[c] EXCEPT !.toCount = @ \ {n}]
<1>t. job[c] \in Manager!Job
  BY DEF Manager!TypeOK
<1>u. UNCHANGED <<channels, counted, rules, adding, total, health, reading, panicked,
                  changes, gone, again>>
  OBVIOUS
<1>1. job' = [job EXCEPT ![c] = k]
  BY DEF Manager!TypeOK
<1>2. k = [x \in DOMAIN job[c] |-> k[x]]
  OBVIOUS
<1>3. /\ k.pc = job[c].pc /\ k.left = job[c].left /\ k.sent = job[c].sent
      /\ k.failed = job[c].failed /\ k.toCount = job[c].toCount \ {n}
      /\ k.took = job[c].took /\ k.direct = job[c].direct
      /\ k.result = job[c].result
  BY <1>t DEF Manager!Job
<1> HIDE DEF k
<1>4. k \in Manager!Job
  <2>1. k = [pc |-> k.pc, left |-> k.left, sent |-> k.sent, failed |-> k.failed,
             took |-> k.took, toCount |-> k.toCount, direct |-> k.direct,
             result |-> k.result]
    BY <1>t, <1>2, JobFields
  <2> QED
    BY <1>t, <1>3, <2>1 DEF Manager!Job
<1>5. \A d \in Callers : job'[d] = IF d = c THEN k ELSE job[d]
  BY <1>1 DEF Manager!TypeOK
<1>9. SendOf(c)
  BY DEF JobInv
<1>g. n \in counted /\ n \in job[c].toCount /\ n \in job[c].failed
  BY <1>9 DEF SendOf
<1> DEFINE q == [failed |-> counter[l].failed + 1, sent |-> counter[l].sent]
<1>s. \/ stray' = stray \cup {n} /\ NameOf[n] # n /\ counter' = counter
      \/ /\ stray' = stray /\ l \in counted /\ l \in ManagerNames
         /\ counter' = [counter EXCEPT ![l] = q]
  <2>1. CASE l \in counted
    <3>1. l \in ManagerNames
      BY <2>1 DEF Manager!TypeOK
    <3>2. counter' = [counter EXCEPT ![l].failed = @ + 1] /\ stray' = stray
      BY <2>1
    <3> HIDE DEF l
    <3>3. counter[l] \in [sent : Nat, failed : Nat]
      BY <3>1 DEF CountersTyped
    <3>4. [counter[l] EXCEPT !.failed = @ + 1] = q
      BY <3>3
    <3> QED
      BY <2>1, <3>1, <3>2, <3>4 DEF CountersTyped
  <2>2. CASE l \notin counted
    <3>1. l # n
      BY <1>g, <2>2
    <3>2. l = NameOf[n]
      BY <3>1 DEF Manager!Label
    <3> QED
      BY <2>2, <3>1, <3>2
  <2> QED
    BY <2>1, <2>2
<1> HIDE DEF l
<1> HIDE DEF Manager!RecordFailure
<1>d. /\ counter' \in [ManagerNames -> [sent : Nat, failed : Nat]]
      /\ \A m \in ManagerNames : m \notin counted => counter'[m] = counter[m]
      /\ stray' \subseteq ManagerNames /\ \A m \in stray' : NameOf[m] # m
  <2>1. q \in [sent : Nat, failed : Nat] \/ l \notin ManagerNames
    BY DEF CountersTyped
  <2> HIDE DEF q
  <2> QED
    BY <1>s, <2>1 DEF CountersTyped, RegistryInv, Manager!TypeOK
<1>6. Manager!TypeOK'
  <2>1. job' \in [Callers -> Manager!Job]
    BY <1>1, <1>4 DEF Manager!TypeOK
  <2> QED
    BY <1>u, <1>d, <2>1 DEF Manager!TypeOK
<1>7. CountersTyped'
  BY <1>u, <1>d DEF CountersTyped
<1>8. RegistryInv' /\ EndpointInv'
  BY <1>u, <1>d DEF RegistryInv, EndpointInv
<1>10. JobInv'
  <2>1. ASSUME NEW d \in Callers
        PROVE  SendOf(d)'
    <3>1. CASE d = c
      BY <1>u, <1>3, <1>5, <1>9, <3>1 DEF SendOf
    <3>2. CASE d # c
      BY <1>u, <1>5, <3>2 DEF JobInv, SendOf
    <3> QED
      BY <3>1, <3>2
  <2> QED
    BY <2>1 DEF JobInv
<1>11. CountInv'
  <2> SUFFICES ASSUME again' = {} /\ stray' = {}
               PROVE  CountInv'
    BY DEF CountInv
  <2>0. l \in ManagerNames /\ counter' = [counter EXCEPT ![l] = q] /\ stray = {}
    BY <1>s
  <2>1. /\ n \in FailedToCount[c] /\ n \notin FailedToCount'[c]
        /\ \A d \in Callers : \A m \in ManagerNames :
             d # c \/ m # n => (m \in FailedToCount[d] <=> m \in FailedToCount'[d])
    BY <1>3, <1>5, <1>g DEF FailedToCount
  <2>2. Cardinality(Pairs(FailedToCount)) = Cardinality(Pairs(FailedToCount')) + 1
    BY <2>1, PairsStep
  <2>3. \A d \in Callers : SentToCount'[d] = SentToCount[d]
    BY <1>3, <1>5, <1>9, <1>g DEF SendOf, SentToCount
  <2>4. Pairs(SentToCount') = Pairs(SentToCount)
    BY <2>3, PairsSame
  <2>5. /\ \A y \in ManagerNames : FailedCounts[y] \in Nat
        /\ \A y \in ManagerNames :
             FailedCounts'[y] = IF y = l THEN FailedCounts[y] + 1 ELSE FailedCounts[y]
    <3>1. \A y \in ManagerNames : counter'[y] = IF y = l THEN q ELSE counter[y]
      BY <2>0 DEF CountersTyped
    <3>2. q.failed = counter[l].failed + 1
      OBVIOUS
    <3>3. \A y \in ManagerNames : counter[y].failed \in Nat
      BY DEF CountersTyped
    <3> HIDE DEF q
    <3> QED
      BY <3>1, <3>2, <3>3 DEF FailedCounts
  <2>6. Cardinality(Stack(FailedCounts', ManagerNames))
          = Cardinality(Stack(FailedCounts, ManagerNames)) + 1
    BY <2>0, <2>5, ManagerFinite, StackGrows
  <2>7. Stack(SentCounts', ManagerNames) = Stack(SentCounts, ManagerNames)
    <3>1. \A y \in ManagerNames : SentCounts'[y] = SentCounts[y]
      BY <2>0 DEF SentCounts, CountersTyped
    <3> QED
      BY <3>1, StackSame
  <2>8. CountInv
    OBVIOUS
  <2> QED
    BY <1>u, <2>2, <2>0, <2>4, <2>6, <2>7, <2>8, StacksInNat DEF CountInv
<1> QED
  BY <1>6, <1>7, <1>8, <1>10, <1>11

LEMMA ManagerNext ==
  ASSUME Manager!ManagerAssumption, ManagerInv, Manager!Next
  PROVE  ManagerInv'
<1>1. ASSUME NEW n \in ManagerNames,
             \/ Manager!RegisterChannel(n) \/ Manager!NewCounters(n)
             \/ Manager!UnregisterChannel(n)
      PROVE  ManagerInv'
  BY <1>1, RegistrySteps
<1>2. ASSUME NEW n \in ManagerNames, Manager!Checked(n) \/ Manager!Loaded(n)
      PROVE  ManagerInv'
  BY <1>2, EndpointSteps
<1>3. ASSUME NEW e \in ManagerEvents, NEW S \in NewRules, Manager!AddRoutingRule(e, S)
      PROVE  ManagerInv'
  BY <1>3, RuleSteps
<1>4. ASSUME NEW c \in Callers, NEW e \in ManagerEvents, NEW b \in BOOLEAN,
             Manager!Send(c, e, b)
      PROVE  ManagerInv'
  <2>1. Manager!TargetChannels(e, b) \in SUBSET channels /\ FALSE \in BOOLEAN
    BY DEF Manager!TargetChannels
  <2> QED
    BY <1>4, <2>1, StartSteps DEF Manager!Send
<1>5. ASSUME NEW c \in Callers, NEW S \in NewRules, Manager!SendToChannels(c, S)
      PROVE  ManagerInv'
  <2>1. S \cap channels \in SUBSET channels /\ FALSE \in BOOLEAN
    OBVIOUS
  <2> QED
    BY <1>5, <2>1, StartSteps DEF Manager!SendToChannels
<1>d. ASSUME NEW c \in Callers, NEW n \in ManagerNames, Manager!SendToChannel(c, n)
      PROVE  ManagerInv'
  <2>1. {n} \cap channels \in SUBSET channels /\ TRUE \in BOOLEAN
    OBVIOUS
  <2> QED
    BY <1>d, <2>1, StartSteps DEF Manager!SendToChannel
<1>6. ASSUME NEW c \in Callers, NEW n \in ManagerNames, Manager!Answered(c, n)
      PROVE  ManagerInv'
  <2>1. Took(c, n) \/ \E taken \in SUBSET {n} : Refused(c, n, taken)
    BY <1>6 DEF Manager!Answered, Took, Refused, Manager!registryVars, Manager!readVars
  <2>2. CASE Took(c, n)
    BY <2>2, AnsweredSent
  <2>3. ASSUME NEW taken \in SUBSET {n}, Refused(c, n, taken)
        PROVE  ManagerInv'
    BY <2>3, AnsweredFailed
  <2> QED
    BY <2>1, <2>2, <2>3
<1>7. ASSUME NEW c \in Callers, NEW n \in ManagerNames,
             Manager!RecordSuccess(c, n) \/ Manager!RecordFailure(c, n)
      PROVE  ManagerInv'
  BY <1>7, CountedSent, CountedFailed
<1>8. ASSUME NEW c \in Callers, Manager!SendReturns(c)
      PROVE  ManagerInv'
  BY <1>8, ReturnSteps
<1>9. ASSUME \/ Manager!HealthCheck \/ Manager!HealthChecked \/ Manager!GetMetrics
             \/ Manager!MetricsRead
      PROVE  ManagerInv'
  BY <1>9, EndpointSteps
<1> QED
  BY <1>1, <1>2, <1>3, <1>4, <1>5, <1>d, <1>6, <1>7, <1>8, <1>9
     DEF Manager!Next, Manager!Step, Manager!Sending

\* When nothing is being sent, nothing is left to count, and the sums are the totals.
LEMMA ReportsFollow ==
  ASSUME Manager!ManagerAssumption, ManagerInv
  PROVE  ReportsAreTrue
<1>1. Manager!TypeOK /\ panicked # "settled"
      /\ (health.on => health.left \subseteq channels)
      /\ \A n \in stray : NameOf[n] # n
  BY DEF ManagerInv, EndpointInv, RegistryInv
<1>2. ASSUME NEW c \in Callers
      PROVE  /\ job[c].result = "nil" => job[c].took # {}
             /\ job[c].result = "error" => job[c].took \subseteq job[c].failed
  BY DEF ManagerInv, JobInv, SendOf
<1> DEFINE Sent == Cardinality(Stack(SentCounts, ManagerNames))
           Failed == Cardinality(Stack(FailedCounts, ManagerNames))
<1>3. ASSUME Manager!Settled, again = {}, stray = {}
      PROVE  total.sent = Sent /\ total.failed = Failed
  <2>1. \A c \in Callers : job[c].toCount = {}
    BY <1>3 DEF ManagerInv, JobInv, SendOf, Manager!Settled
  <2>2. Pairs(SentToCount) = {} /\ Pairs(FailedToCount) = {}
    BY <2>1 DEF Pairs, SentToCount, FailedToCount
  <2>3. Cardinality({}) = 0
    BY FS_EmptySet
  <2> QED
    BY <1>3, <2>2, <2>3, StacksInNat DEF ManagerInv, CountInv
<1> HIDE DEF Sent, Failed
<1>4. /\ Manager!MapThenSumSet(LAMBDA n : counter[n].sent, ManagerNames) = Sent
      /\ Manager!MapThenSumSet(LAMBDA n : counter[n].failed, ManagerNames) = Failed
  BY SumsAreStacks, Zenon DEF ManagerInv, Sent, Failed
<1>5. Manager!Settled /\ again = {} /\ stray = {} =>
        /\ total.sent = Manager!MapThenSumSet(LAMBDA n : counter[n].sent, ManagerNames)
        /\ total.failed = Manager!MapThenSumSet(LAMBDA n : counter[n].failed, ManagerNames)
  BY <1>3, <1>4, Zenon
<1> QED
  BY <1>1, <1>2, <1>5, Zenon DEF ReportsAreTrue, Manager!ReportsAreTrue

\* ChannelManager's specification, as the other process of MCSpec, in which the channels
\* may change while the metrics range over them and a channel need not be called what it is
\* registered under: the sums of the counters are the totals when nothing is being sent,
\* unless a channel was registered twice or a misnamed one had nothing to count in; the
\* metrics fail only inside a registration or by a conflict; of a send reported successful
\* a channel has the notification, of one reported failed none but such as answered with an
\* error; and the channels stand still under a health check (manager.go).
THEOREM ManagerReportsAreTrue == MCSpec => []ReportsAreTrue
<1>1. MCInit => ManagerInv
  BY ManagerIsAssumed, ManagerInit DEF MCInit
<1>2. ManagerInv /\ [DispatchStep \/ ManagerStep]_<<part, vars, managerVars>>
        => ManagerInv'
  <2>1. ASSUME ManagerInv, UNCHANGED managerVars
        PROVE  ManagerInv'
    <3>1. UNCHANGED <<channels, counted, rules, adding, job, total, counter, health,
                      reading, panicked, changes, gone, again, stray>>
      BY <2>1 DEF managerVars
    <3>2. Manager!TypeOK'
      BY <2>1, <3>1 DEF ManagerInv, Manager!TypeOK
    <3>3. CountersTyped' /\ RegistryInv' /\ JobInv' /\ EndpointInv'
      BY <2>1, <3>1 DEF ManagerInv, CountersTyped, RegistryInv, JobInv, SendOf,
                        EndpointInv
    <3>4. CountInv'
      BY <2>1, <3>1, CountsKept
    <3> QED
      BY <3>2, <3>3, <3>4 DEF ManagerInv
  <2>2. ASSUME ManagerInv, DispatchStep
        PROVE  ManagerInv'
    BY <2>1, <2>2 DEF DispatchStep
  <2>3. ASSUME ManagerInv, ManagerStep
        PROVE  ManagerInv'
    BY <2>3, ManagerIsAssumed, ManagerNext DEF ManagerStep
  <2> QED
    BY <2>1, <2>2, <2>3
<1>3. ManagerInv => ReportsAreTrue
  BY ManagerIsAssumed, ReportsFollow
<1> QED
  BY <1>1, <1>2, <1>3, PTL DEF MCSpec
=============================================================================
