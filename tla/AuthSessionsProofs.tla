-------------------------- MODULE AuthSessionsProofs --------------------------
(***************************************************************************)
(* Proofs about AuthSessions for any number of workers, accounts and       *)
(* tokens.  The rows only evolve in one direction: an inactive account     *)
(* never changes again, a token keeps its account and what ended it.  So   *)
(* what a handler knew of a row that was gone when it read it is still     *)
(* true when it uses it; GoodAt says what that is at each place.           *)
(***************************************************************************)
EXTENDS AuthSessions, SequenceTheorems, TLAPS

\* An account that is deleted, a token that is of no use any more.
Gone(u, us) == u \in DOMAIN us /\ ~us[u].active
Dead(t, us, ts) ==
  t \in DOMAIN ts /\ (ts[t].revoked \/ ts[t].expired \/ Gone(ts[t].user, us))

Holding == {"owner", "profile", "email", "write", "remove"}

\* What request r knows while the rows are us and ts.
GoodAt(r, us, ts) ==
  /\ r \in Request
  /\ r.pc \in {"check", "create"} =>
       /\ r.kind = "signup" /\ ~r.late /\ r.email \in Emails /\ r.name \in Names
  /\ r.pc = "session" => r.kind \in {"signup", "login"} /\ ~r.late /\ r.user \in DOMAIN us
  /\ r.pc = "find" => /\ r.kind = "login"
                      /\ r.late => \E u : Gone(u, us) /\ us[u].email = r.email
  /\ r.pc = "token" => /\ r.kind \in {"refresh", "logout"}
                       /\ r.tok \in {0} \cup DOMAIN ts
                       /\ r.late /\ r.kind = "refresh" => Dead(r.tok, us, ts)
  /\ r.pc = "revoke" => r.kind = "logout" /\ r.tok \in DOMAIN ts
  /\ r.pc \in Holding => /\ r.kind \in {"refresh", "get", "update", "delete"}
                         /\ r.user \in DOMAIN us
                         /\ r.late => Gone(r.user, us)
                         /\ r.kind = "delete" => r.pc = "remove"
  /\ r.pc \in {"email", "write"} =>
       /\ r.kind = "update" /\ r.row \in UserRow
       /\ ~r.stale /\ r.name = None => r.row.name = us[r.user].name
  /\ r.pc = "email" => r.email \in Emails
  /\ r.pc = "write" /\ ~r.stale /\ r.email = None => r.row.email = us[r.user].email
  /\ r.pc = "answered" =>
       /\ r.late /\ r.kind # "logout" => r.answer \notin {"ok", "created"}
       /\ r.kind = "delete" /\ r.answer = "ok" => Gone(r.user, us)
       /\ r.kind = "logout" /\ r.answer = "ok" /\ r.tok # 0 =>
            r.tok \in DOMAIN ts /\ ts[r.tok].revoked

\* The rows: of their types, no address twice, every token of an account.
RowsAt(us, ts) ==
  /\ us \in Seq(UserRow) /\ Len(us) <= MaxUsers
  /\ ts \in Seq(TokenRow) /\ Len(ts) <= MaxTokens
  /\ \A u, v \in DOMAIN us : us[u].email = us[v].email => u = v
  /\ \A t \in DOMAIN ts : ts[t].user \in DOMAIN us

\* What a client was told is over is over in the tables.
EndedInv ==
  /\ \A u \in ended.users : Gone(u, users)
  /\ \A t \in ended.tokens : t \in DOMAIN tokens /\ tokens[t].revoked

IInv == /\ RowsAt(users, tokens)
        /\ bearer \subseteq DOMAIN users
        /\ req \in [Workers -> Request]
        /\ \A w \in Workers : GoodAt(req[w], users, tokens)
        /\ EndedInv

\* Rows evolve: accounts and tokens stay, inactive accounts do not change, a token stays
\* its account's and stays ended.
Evolves(us, ts, us2, ts2) ==
  /\ DOMAIN us \subseteq DOMAIN us2 /\ DOMAIN ts \subseteq DOMAIN ts2
  /\ \A u \in DOMAIN us : ~us[u].active => us2[u] = us[u]
  /\ \A t \in DOMAIN ts : /\ ts2[t].user = ts[t].user
                          /\ ts[t].revoked => ts2[t].revoked
                          /\ ts[t].expired => ts2[t].expired

\* The name and the address of an account are the same before and after.
SameRow(u, us, us2) == us2[u].name = us[u].name /\ us2[u].email = us[u].email

-----------------------------------------------------------------------------
\* What a request knows survives every step of others: its account's row is the same, or
\* it is marked stale.
LEMMA GoodStays ==
  ASSUME NEW r, NEW us, NEW ts, NEW us2, NEW ts2, GoodAt(r, us, ts),
         RowsAt(us, ts),
         Evolves(us, ts, us2, ts2),
         r.pc \in {"email", "write"} => r.stale \/ SameRow(r.user, us, us2)
  PROVE  GoodAt(r, us2, ts2)
<1>1. \A u : Gone(u, us) => Gone(u, us2) /\ us2[u] = us[u]
  BY DEF Gone, Evolves
<1>2. \A t : Dead(t, us, ts) => Dead(t, us2, ts2)
  BY <1>1 DEF Dead, Evolves
<1>3. DOMAIN us \subseteq DOMAIN us2 /\ DOMAIN ts \subseteq DOMAIN ts2
  BY DEF Evolves
<1>4. r.pc \in Holding => r.user \in DOMAIN us2 /\ (r.late => Gone(r.user, us2))
  BY <1>1, <1>3 DEF GoodAt
<1>5. r.pc = "find" /\ r.late => \E u : Gone(u, us2) /\ us2[u].email = r.email
  BY <1>1 DEF GoodAt
<1>6. r.pc \in {"email", "write"} /\ ~r.stale => SameRow(r.user, us, us2)
  OBVIOUS
<1>7. /\ r.pc \in {"email", "write"} /\ ~r.stale /\ r.name = None
           => r.row.name = us2[r.user].name
      /\ r.pc = "write" /\ ~r.stale /\ r.email = None => r.row.email = us2[r.user].email
  BY <1>6 DEF GoodAt, SameRow
<1>8. r.pc = "answered" =>
        /\ r.kind = "delete" /\ r.answer = "ok" => Gone(r.user, us2)
        /\ r.kind = "logout" /\ r.answer = "ok" /\ r.tok # 0 =>
             r.tok \in DOMAIN ts2 /\ ts2[r.tok].revoked
  BY <1>1 DEF GoodAt, Evolves
<1> QED
  BY <1>2, <1>3, <1>4, <1>5, <1>7, <1>8 DEF GoodAt

\* If the rows do not change, nothing of what a request knows does.
LEMMA EvolvesRefl ==
  ASSUME NEW us, NEW ts
  PROVE  Evolves(us, ts, us, ts)
  BY DEF Evolves

\* One request moves on, the rows evolve and no row that another request holds a fresh
\* copy of changes its name or address: the invariant of the requests stays.
LEMMA OneMoves ==
  ASSUME IInv, NEW w \in Workers, NEW r,
         req' = [req EXCEPT ![w] = r], GoodAt(r, users', tokens'),
         Evolves(users, tokens, users', tokens'),
         \A u \in DOMAIN users : SameRow(u, users, users')
  PROVE  /\ req' \in [Workers -> Request]
         /\ \A v \in Workers : GoodAt(req'[v], users', tokens')
<1>1. req' \in [Workers -> Request]
  BY DEF IInv, GoodAt
<1>2. ASSUME NEW v \in Workers PROVE GoodAt(req'[v], users', tokens')
  <2>1. CASE v = w
    BY <2>1 DEF IInv
  <2>2. CASE v # w
    <3>1. req'[v] = req[v] /\ GoodAt(req[v], users, tokens) /\ RowsAt(users, tokens)
      BY <2>2 DEF IInv
    <3>2. req[v].pc \in {"email", "write"} => SameRow(req[v].user, users, users')
      BY <3>1 DEF GoodAt, Holding
    <3> QED
      BY <3>1, <3>2, GoodStays
  <2> QED
    BY <2>1, <2>2
<1> QED
  BY <1>1, <1>2

\* The same when no row changes.
LEMMA RowsStay ==
  ASSUME IInv, NEW w \in Workers, NEW r, UNCHANGED <<users, tokens, ended>>,
         req' = [req EXCEPT ![w] = r], GoodAt(r, users, tokens),
         bearer' \subseteq DOMAIN users
  PROVE  IInv'
<1>1. \A u \in DOMAIN users : SameRow(u, users, users')
  BY DEF SameRow
<1>2. Evolves(users, tokens, users', tokens') /\ GoodAt(r, users', tokens')
  BY EvolvesRefl
<1>3. /\ req' \in [Workers -> Request]
      /\ \A v \in Workers : GoodAt(req'[v], users', tokens')
  BY <1>1, <1>2, OneMoves
<1> QED
  BY <1>3 DEF IInv, EndedInv, RowsAt

\* The rows that evolve keep what was ended ended.
LEMMA EndedStays ==
  ASSUME EndedInv, Evolves(users, tokens, users', tokens'), UNCHANGED ended
  PROVE  EndedInv'
  BY DEF EndedInv, Evolves, Gone

-----------------------------------------------------------------------------
\* A request that is answered without "ok" knows nothing.
LEMMA GoodAnswer ==
  ASSUME NEW r \in Request, r.kind \in Kinds, NEW a \in Answers, NEW us, NEW ts,
         r.late /\ r.kind # "logout" => a \notin {"ok", "created"},
         r.kind = "delete" /\ a = "ok" => Gone(r.user, us),
         r.kind = "logout" /\ a = "ok" /\ r.tok # 0 =>
           r.tok \in DOMAIN ts /\ ts[r.tok].revoked
  PROVE  /\ Answered(r, a) \in Request
         /\ GoodAt(Answered(r, a), us, ts)
         /\ Answered(r, a).pc = "answered"
<1>0. 0 \in 0 .. MaxUsers /\ 0 \in 0 .. MaxTokens
  BY BoundsAreNaturals
<1> DEFINE q == Answered(r, a)
<1>1. /\ q.kind = r.kind /\ q.pc = "answered" /\ q.email = None /\ q.name = None
      /\ q.user = IF r.kind = "delete" THEN r.user ELSE 0
      /\ q.tok = IF r.kind = "logout" THEN r.tok ELSE 0
      /\ q.row = None /\ q.late = r.late /\ q.stale = FALSE /\ q.answer = a
  BY DEF Answered, IdleRequest
<1>2. q \in Request
  BY <1>0, <1>1, ZenonT(40) DEF Answered, IdleRequest, Request
<1> QED
  BY <1>1, <1>2 DEF GoodAt, Holding

\* The fields of a request as it begins.
LEMMA IdleFields ==
  /\ IdleRequest \in Request /\ IdleRequest.kind = None /\ IdleRequest.pc = "idle"
  /\ ~IdleRequest.late /\ 0 \in 0 .. MaxUsers /\ 0 \in 0 .. MaxTokens
  BY BoundsAreNaturals DEF IdleRequest, Request, Answers

\* A worker that answers keeps the invariant.
LEMMA AnswerKeeps ==
  ASSUME IInv, NEW w \in Workers, NEW a \in Answers, Answer(w, a),
         req[w].pc \notin {"idle", "answered"},
         UNCHANGED <<users, tokens, ended>>, bearer' \subseteq DOMAIN users,
         req[w].late /\ req[w].kind # "logout" => a \notin {"ok", "created"},
         req[w].kind = "delete" /\ a = "ok" => Gone(req[w].user, users),
         req[w].kind = "logout" /\ a = "ok" => req[w].tok = 0
  PROVE  IInv'
<1>1. req[w] \in Request /\ GoodAt(req[w], users, tokens)
  BY DEF IInv
<1>2. req[w].kind \in Kinds
  BY <1>1 DEF GoodAt, Request, Holding, Kinds
<1>3. GoodAt(Answered(req[w], a), users, tokens)
  BY <1>1, <1>2, GoodAnswer
<1>4. req' = [req EXCEPT ![w] = Answered(req[w], a)]
  BY DEF Answer
<1> QED
  BY <1>3, <1>4, RowsStay

-----------------------------------------------------------------------------
(* Requests begin.                                                         *)

LEMMA BeginKeeps ==
  ASSUME IInv, NEW w \in Workers, NEW r, r.kind \in Kinds, Begin(w, r),
         GoodAt(r, users, tokens)
  PROVE  IInv'
<1>1. r \in Request /\ "failed" \in Answers
  BY DEF GoodAt, Answers
<1>2. GoodAt(Answered(r, "failed"), users, tokens)
  BY <1>1, GoodAnswer
<1>3. PICK asked \in {r, Invalid(r)} : req' = [req EXCEPT ![w] = asked]
  BY DEF Begin
<1>4. GoodAt(asked, users, tokens)
  BY <1>2 DEF Invalid
<1>5. UNCHANGED <<users, tokens, ended>> /\ bearer' \subseteq DOMAIN users
  BY DEF Begin, IInv
<1> QED
  BY <1>3, <1>4, <1>5, RowsStay

LEMMA BeginSignupKeeps ==
  ASSUME IInv, NEW w \in Workers, BeginSignup(w)
  PROVE  IInv'
<1>1. PICK e \in Emails, n \in Names :
        Begin(w, [IdleRequest EXCEPT !.kind = "signup", !.pc = "check",
                                     !.email = e, !.name = n])
  BY DEF BeginSignup
<1> DEFINE r == [IdleRequest EXCEPT !.kind = "signup", !.pc = "check",
                                    !.email = e, !.name = n]
<1>2. /\ r \in Request /\ r.kind = "signup" /\ r.pc = "check" /\ ~r.late
      /\ r.email = e /\ r.name = n
  BY IdleFields DEF IdleRequest, Request, Kinds, Answers
<1>3. GoodAt(r, users, tokens)
  BY <1>2 DEF GoodAt, Holding
<1>4. Begin(w, r) /\ r.kind \in Kinds
  BY <1>1, <1>2 DEF Kinds
<1> HIDE DEF r
<1> QED
  BY <1>3, <1>4, BeginKeeps

LEMMA BeginLoginKeeps ==
  ASSUME IInv, NEW w \in Workers, BeginLogin(w)
  PROVE  IInv'
<1>1. PICK e \in Emails :
        Begin(w, [IdleRequest EXCEPT !.kind = "login", !.pc = "find", !.email = e,
                    !.late = GetUserByEmail(e) \cap ended.users # {}])
  BY DEF BeginLogin
<1> DEFINE r == [IdleRequest EXCEPT !.kind = "login", !.pc = "find", !.email = e,
                   !.late = GetUserByEmail(e) \cap ended.users # {}]
<1>2. /\ r \in Request /\ r.kind = "login" /\ r.pc = "find" /\ r.email = e
      /\ r.late <=> GetUserByEmail(e) \cap ended.users # {}
  <2>1. (GetUserByEmail(e) \cap ended.users # {}) \in BOOLEAN
    OBVIOUS
  <2> QED
    BY <2>1, IdleFields DEF IdleRequest, Request, Kinds, Answers
<1>3. r.late => \E u : Gone(u, users) /\ users[u].email = r.email
  BY <1>2 DEF IInv, EndedInv, GetUserByEmail
<1>4. GoodAt(r, users, tokens)
  BY <1>2, <1>3 DEF GoodAt, Holding
<1>5. Begin(w, r) /\ r.kind \in Kinds
  BY <1>1, <1>2 DEF Kinds
<1> HIDE DEF r
<1> QED
  BY <1>4, <1>5, BeginKeeps

LEMMA BeginWithTokenKeeps ==
  ASSUME IInv, NEW w \in Workers, NEW kind \in {"refresh", "logout"},
         BeginWithToken(w, kind)
  PROVE  IInv'
<1>1. PICK t \in {0} \cup {s \in DOMAIN tokens : tokens[s].given} :
        Begin(w, [IdleRequest EXCEPT !.kind = kind, !.pc = "token", !.tok = t,
                    !.late = t # 0 /\ \/ tokens[t].expired
                                      \/ t \in ended.tokens
                                      \/ tokens[t].user \in ended.users])
  BY DEF BeginWithToken
<1> DEFINE late == t # 0 /\ \/ tokens[t].expired
                            \/ t \in ended.tokens
                            \/ tokens[t].user \in ended.users
           r == [IdleRequest EXCEPT !.kind = kind, !.pc = "token", !.tok = t, !.late = late]
<1>2. t \in 0 .. MaxTokens
  BY BoundsAreNaturals, LenProperties DEF IInv, RowsAt
<1>3. late => Dead(t, users, tokens)
  BY DEF Dead, IInv, EndedInv
<1>4. late \in BOOLEAN
  <2>1. t \in DOMAIN tokens => tokens[t] \in TokenRow
    BY LenProperties, ElementOfSeq DEF IInv, RowsAt
  <2>2. tokens[t] \in TokenRow => tokens[t].expired \in BOOLEAN
    BY DEF TokenRow
  <2> QED
    BY <2>1, <2>2
<1>5. r \in Request /\ r.kind = kind /\ r.pc = "token" /\ r.tok = t /\ r.late = late
  <2> HIDE DEF late
  <2> QED
    BY <1>2, <1>4, IdleFields DEF IdleRequest, Request, Kinds, Answers
<1>6. GoodAt(r, users, tokens)
  <2> HIDE DEF late, r
  <2> QED
    BY <1>3, <1>5 DEF GoodAt, Holding
<1>7. Begin(w, r) /\ r.kind \in Kinds
  BY <1>1, <1>5 DEF Kinds
<1> HIDE DEF r
<1> QED
  BY <1>6, <1>7, BeginKeeps

\* A request of account u that the middleware lets through, or not.
LEMMA MiddlewareKeeps ==
  ASSUME IInv, NEW w \in Workers, NEW u \in DOMAIN users, NEW r,
         AuthMiddleware(w, r), r \in Request, r.user = u, r.kind \in {"get", "update", "delete"},
         r.late <=> u \in ended.users,
         r.pc = "remove" \/ (r.pc = "profile" /\ r.kind # "delete")
  PROVE  IInv'
<1>1. r.late => Gone(u, users)
  BY DEF IInv, EndedInv
<1>2. GoodAt(r, users, tokens)
  BY <1>1 DEF GoodAt, Holding
<1>3. /\ "unauthorized" \in Answers /\ r.kind \in Kinds
      /\ GoodAt(Answered(r, "unauthorized"), users, tokens)
  BY GoodAnswer DEF Answers, Kinds
<1>4. Answered(r, "unauthorized").kind = r.kind
  BY DEF Answered, IdleRequest
<1> QED
  BY <1>2, <1>3, <1>4, BeginKeeps DEF AuthMiddleware

LEMMA BeginProfileKeeps ==
  ASSUME IInv, NEW w \in Workers, BeginGet(w) \/ BeginUpdate(w) \/ BeginDelete(w)
  PROVE  IInv'
<1>0. DOMAIN users \subseteq 0 .. MaxUsers
  BY BoundsAreNaturals, LenProperties DEF IInv, RowsAt
<1>1. CASE BeginGet(w)
  <2>1. PICK u \in DOMAIN users :
          AuthMiddleware(w, [IdleRequest EXCEPT !.kind = "get", !.pc = "profile",
                               !.user = u, !.late = u \in ended.users])
    BY <1>1 DEF BeginGet
  <2> DEFINE r == [IdleRequest EXCEPT !.kind = "get", !.pc = "profile",
                                      !.user = u, !.late = u \in ended.users]
  <2>2. /\ r \in Request /\ r.user = u /\ r.kind = "get" /\ r.pc = "profile"
        /\ r.late <=> u \in ended.users
    <3>1. u \in 0 .. MaxUsers /\ (u \in ended.users) \in BOOLEAN
      BY <1>0
    <3> QED
      BY <3>1, IdleFields DEF IdleRequest, Request, Kinds, Answers
  <2>3. /\ AuthMiddleware(w, r) /\ r.kind \in {"get", "update", "delete"}
        /\ r.pc = "remove" \/ (r.pc = "profile" /\ r.kind # "delete")
    BY <2>1, <2>2
  <2> HIDE DEF r
  <2> QED
    BY <2>2, <2>3, MiddlewareKeeps
<1>2. CASE BeginUpdate(w)
  <2>1. PICK u \in DOMAIN users, e \in Emails \cup {None}, n \in Names \cup {None} :
          AuthMiddleware(w, [IdleRequest EXCEPT !.kind = "update", !.pc = "profile",
                    !.user = u, !.email = e, !.name = n, !.late = u \in ended.users])
    BY <1>2 DEF BeginUpdate
  <2> DEFINE r == [IdleRequest EXCEPT !.kind = "update", !.pc = "profile",
                    !.user = u, !.email = e, !.name = n, !.late = u \in ended.users]
  <2>2. /\ r \in Request /\ r.user = u /\ r.kind = "update" /\ r.pc = "profile"
        /\ r.late <=> u \in ended.users
    <3>1. u \in 0 .. MaxUsers /\ (u \in ended.users) \in BOOLEAN
      BY <1>0
    <3> QED
      BY <3>1, IdleFields DEF IdleRequest, Request, Kinds, Answers
  <2>3. /\ AuthMiddleware(w, r) /\ r.kind \in {"get", "update", "delete"}
        /\ r.pc = "remove" \/ (r.pc = "profile" /\ r.kind # "delete")
    BY <2>1, <2>2
  <2> HIDE DEF r
  <2> QED
    BY <2>2, <2>3, MiddlewareKeeps
<1>3. CASE BeginDelete(w)
  <2>1. PICK u \in DOMAIN users :
          AuthMiddleware(w, [IdleRequest EXCEPT !.kind = "delete", !.pc = "remove",
                               !.user = u, !.late = u \in ended.users])
    BY <1>3 DEF BeginDelete
  <2> DEFINE r == [IdleRequest EXCEPT !.kind = "delete", !.pc = "remove",
                                      !.user = u, !.late = u \in ended.users]
  <2>2. /\ r \in Request /\ r.user = u /\ r.kind = "delete" /\ r.pc = "remove"
        /\ r.late <=> u \in ended.users
    <3>1. u \in 0 .. MaxUsers /\ (u \in ended.users) \in BOOLEAN
      BY <1>0
    <3> QED
      BY <3>1, IdleFields DEF IdleRequest, Request, Kinds, Answers
  <2>3. /\ AuthMiddleware(w, r) /\ r.kind \in {"get", "update", "delete"}
        /\ r.pc = "remove" \/ (r.pc = "profile" /\ r.kind # "delete")
    BY <2>1, <2>2
  <2> HIDE DEF r
  <2> QED
    BY <2>2, <2>3, MiddlewareKeeps
<1> QED
  BY <1>1, <1>2, <1>3

-----------------------------------------------------------------------------
(* Calls that read.                                                        *)

\* The answers that a handler gives.
LEMMA AnswerNames ==
  {"created", "ok", "unauthorized", "conflict", "notfound", "failed"} \subseteq Answers
  BY DEF Answers

\* A request that opens a session knows its account.
LEMMA SessionIsGood ==
  ASSUME NEW kind \in {"signup", "login"}, NEW us, NEW ts, NEW u \in DOMAIN us,
         u \in 1 .. MaxUsers, NEW late, late = FALSE
  PROVE  GoodAt([IdleRequest EXCEPT !.kind = kind, !.pc = "session", !.user = u,
                                    !.late = late], us, ts)
<1> DEFINE r == [IdleRequest EXCEPT !.kind = kind, !.pc = "session", !.user = u,
                                    !.late = late]
<1>1. r \in Request /\ r.kind = kind /\ r.pc = "session" /\ ~r.late /\ r.user = u
  <2>1. u \in 0 .. MaxUsers /\ kind \in Kinds
    BY BoundsAreNaturals DEF Kinds
  <2> QED
    BY <2>1, IdleFields DEF IdleRequest, Request, Kinds, Answers
<1> HIDE DEF r
<1>2. GoodAt(r, us, ts)
  BY <1>1 DEF GoodAt, Holding
<1> QED
  BY <1>2 DEF r

\* Places of accounts and tokens are within the bounds.
LEMMA PlacesBounded ==
  ASSUME NEW us, NEW ts, RowsAt(us, ts)
  PROVE  /\ DOMAIN us = 1 .. Len(us) /\ DOMAIN us \subseteq 1 .. MaxUsers
         /\ DOMAIN ts = 1 .. Len(ts) /\ DOMAIN ts \subseteq 1 .. MaxTokens
         /\ \A u \in DOMAIN us : us[u] \in UserRow
         /\ \A t \in DOMAIN ts : ts[t] \in TokenRow
  BY BoundsAreNaturals, LenProperties, ElementOfSeq DEF RowsAt

LEMMA SignupCheckKeeps ==
  ASSUME IInv, NEW w \in Workers, SignupCheck(w)
  PROVE  IInv'
<1>1. /\ req[w] \in Request /\ req[w].pc = "check" /\ GoodAt(req[w], users, tokens)
      /\ UNCHANGED <<users, tokens, ended>> /\ bearer' \subseteq DOMAIN users
  BY DEF SignupCheck, IInv
<1>2. CASE Answer(w, "conflict")
  BY <1>1, <1>2, AnswerKeeps, AnswerNames DEF GoodAt
<1>3. CASE GoTo(w, "create")
  <2> DEFINE r == [req[w] EXCEPT !.pc = "create"]
  <2>1. /\ r \in Request /\ r.pc = "create" /\ r.kind = req[w].kind
        /\ r.late = req[w].late /\ r.email = req[w].email /\ r.name = req[w].name
    BY <1>1 DEF Request
  <2>2. req' = [req EXCEPT ![w] = r]
    BY <1>3 DEF GoTo
  <2> HIDE DEF r
  <2>3. GoodAt(r, users, tokens)
    BY <1>1, <2>1 DEF GoodAt, Holding
  <2> QED
    BY <1>1, <2>2, <2>3, RowsStay
<1> QED
  BY <1>2, <1>3 DEF SignupCheck

LEMMA LoginFindKeeps ==
  ASSUME IInv, NEW w \in Workers, LoginFind(w)
  PROVE  IInv'
<1>1. /\ req[w] \in Request /\ req[w].pc = "find" /\ GoodAt(req[w], users, tokens)
      /\ req[w].kind = "login" /\ RowsAt(users, tokens)
      /\ UNCHANGED <<users, tokens, ended>> /\ bearer' \subseteq DOMAIN users
  BY DEF LoginFind, IInv, GoodAt
<1>2. CASE Answer(w, "unauthorized")
  BY <1>1, <1>2, AnswerKeeps, AnswerNames DEF GoodAt
<1>3. ASSUME NEW u \in GetUserByEmail(req[w].email), users[u].active, Authenticate(w, u)
      PROVE  IInv'
  <2>1. u \in DOMAIN users /\ users[u].email = req[w].email
    BY DEF GetUserByEmail
  \* Another account of the address would be gone.
  <2>2. req[w].late = FALSE
    <3>1. ASSUME req[w].late PROVE FALSE
      <4>1. PICK v : Gone(v, users) /\ users[v].email = req[w].email
        BY <1>1, <3>1 DEF GoodAt
      <4> QED
        BY <1>1, <1>3, <2>1, <4>1 DEF Gone, RowsAt
    <3>2. req[w].late \in BOOLEAN
      BY <1>1 DEF Request
    <3> QED
      BY <3>1, <3>2
  <2>3. u \in 1 .. MaxUsers
    BY <1>1, <2>1, PlacesBounded
  <2> QED
    BY <1>1, <1>3, <2>1, <2>2, <2>3, SessionIsGood, RowsStay DEF Authenticate
<1> QED
  BY <1>2, <1>3 DEF LoginFind

LEMMA RefreshTokenKeeps ==
  ASSUME IInv, NEW w \in Workers, RefreshToken(w)
  PROVE  IInv'
<1>1. /\ req[w] \in Request /\ req[w].pc = "token" /\ req[w].kind = "refresh"
      /\ GoodAt(req[w], users, tokens) /\ RowsAt(users, tokens)
      /\ UNCHANGED <<users, tokens, ended>> /\ bearer' \subseteq DOMAIN users
  BY DEF RefreshToken, IInv, GoodAt
<1>2. CASE Answer(w, "unauthorized")
  BY <1>1, <1>2, AnswerKeeps, AnswerNames DEF GoodAt
<1>3. CASE GetRefreshTokenByHash(req[w].tok) # {}
  <2> DEFINE t == req[w].tok
             r == [req[w] EXCEPT !.pc = "owner", !.user = tokens[t].user]
  <2>1. t \in DOMAIN tokens /\ ~tokens[t].expired /\ ~tokens[t].revoked
    BY <1>3 DEF GetRefreshTokenByHash
  <2>2. tokens[t].user \in DOMAIN users /\ tokens[t].user \in 1 .. MaxUsers
    BY <1>1, <2>1, PlacesBounded DEF RowsAt
  <2>3. req[w].late => Gone(tokens[t].user, users)
    BY <1>1, <2>1 DEF GoodAt, Dead
  <2>4. /\ r \in Request /\ r.pc = "owner" /\ r.kind = "refresh"
        /\ r.late = req[w].late /\ r.user = tokens[t].user
    <3>1. PICK u : u = tokens[t].user
      OBVIOUS
    <3>2. u \in 0 .. MaxUsers
      BY <2>2, <3>1
    <3> QED
      BY <1>1, <3>1, <3>2 DEF Request
  <2>5. req' = [req EXCEPT ![w] = r]
    BY <1>3 DEF RefreshToken
  <2> HIDE DEF r
  <2>6. GoodAt(r, users, tokens)
    BY <2>2, <2>3, <2>4 DEF GoodAt, Holding
  <2> QED
    BY <1>1, <2>5, <2>6, RowsStay
<1> QED
  BY <1>2, <1>3 DEF RefreshToken

LEMMA RefreshOwnerKeeps ==
  ASSUME IInv, NEW w \in Workers, RefreshOwner(w)
  PROVE  IInv'
<1>1. /\ req[w].pc = "owner" /\ GoodAt(req[w], users, tokens)
      /\ UNCHANGED <<users, tokens, ended>>
  BY DEF RefreshOwner, IInv
<1>2. /\ req[w].user \in DOMAIN users
      /\ req[w].late => Gone(req[w].user, users)
      /\ req[w].kind # "delete" /\ req[w].kind # "logout"
  BY <1>1 DEF GoodAt, Holding
<1>3. CASE Answer(w, "unauthorized") /\ UNCHANGED bearer
  BY <1>1, <1>2, <1>3, AnswerKeeps, AnswerNames DEF IInv
<1>4. CASE GetUserByID(req[w].user) # {} /\ GenerateAccessToken(req[w].user) /\ Answer(w, "ok")
  <2>1. ~req[w].late
    BY <1>2, <1>4 DEF GetUserByID, Gone
  <2>2. bearer' \subseteq DOMAIN users
    <3>1. bearer \subseteq DOMAIN users /\ bearer' = bearer \cup {req[w].user}
      BY <1>4 DEF GenerateAccessToken, IInv
    <3> QED
      BY <1>2, <3>1
  <2> QED
    BY <1>1, <1>2, <1>4, <2>1, <2>2, AnswerKeeps, AnswerNames
<1> QED
  BY <1>3, <1>4 DEF RefreshOwner

LEMMA LogoutTokenKeeps ==
  ASSUME IInv, NEW w \in Workers, LogoutToken(w)
  PROVE  IInv'
<1>1. /\ req[w] \in Request /\ req[w].pc = "token" /\ req[w].kind = "logout"
      /\ GoodAt(req[w], users, tokens)
      /\ UNCHANGED <<users, tokens, ended>> /\ bearer' \subseteq DOMAIN users
  BY DEF LogoutToken, IInv
<1>2. CASE req[w].tok = 0 /\ Answer(w, "ok")
  BY <1>1, <1>2, AnswerKeeps, AnswerNames
<1>3. CASE Answer(w, "failed")
  BY <1>1, <1>3, AnswerKeeps, AnswerNames
<1>4. CASE GetRefreshTokenByHash(req[w].tok) # {} /\ GoTo(w, "revoke")
  <2> DEFINE r == [req[w] EXCEPT !.pc = "revoke"]
  <2>1. req[w].tok \in DOMAIN tokens
    BY <1>4 DEF GetRefreshTokenByHash
  <2>2. r \in Request /\ r.pc = "revoke" /\ r.kind = "logout" /\ r.tok = req[w].tok
    BY <1>1 DEF Request
  <2>3. req' = [req EXCEPT ![w] = r]
    BY <1>4 DEF GoTo
  <2> HIDE DEF r
  <2>4. GoodAt(r, users, tokens)
    BY <2>1, <2>2 DEF GoodAt, Holding
  <2> QED
    BY <1>1, <2>3, <2>4, RowsStay
<1> QED
  BY <1>2, <1>3, <1>4 DEF LogoutToken

LEMMA CallFailsKeeps ==
  ASSUME IInv, NEW w \in Workers, CallFails(w)
  PROVE  IInv'
<1>1. bearer' \subseteq DOMAIN users
  BY DEF CallFails, IInv
<1> QED
  BY <1>1, AnswerKeeps, AnswerNames DEF CallFails

LEMMA GetMeKeeps ==
  ASSUME IInv, NEW w \in Workers, GetMe(w)
  PROVE  IInv'
<1>1. /\ req[w].pc = "profile" /\ req[w].kind = "get" /\ GoodAt(req[w], users, tokens)
      /\ UNCHANGED <<users, tokens, ended>> /\ bearer' \subseteq DOMAIN users
  BY DEF GetMe, IInv
<1>2. req[w].late => GetUserByID(req[w].user) = {}
  BY <1>1 DEF GoodAt, Holding, Gone, GetUserByID
<1>3. CASE GetUserByID(req[w].user) # {}
  BY <1>1, <1>2, <1>3, AnswerKeeps, AnswerNames DEF GetMe
<1>4. CASE GetUserByID(req[w].user) = {}
  BY <1>1, <1>4, AnswerKeeps, AnswerNames DEF GetMe
<1> QED
  BY <1>3, <1>4

\* UpdateMe takes its copy: the name is the account's unless it is asked to change it.
LEMMA UpdateReadKeeps ==
  ASSUME IInv, NEW w \in Workers, UpdateRead(w)
  PROVE  IInv'
<1>1. /\ req[w] \in Request /\ req[w].pc = "profile" /\ req[w].kind = "update"
      /\ GoodAt(req[w], users, tokens) /\ RowsAt(users, tokens)
      /\ UNCHANGED <<users, tokens, ended>> /\ bearer' \subseteq DOMAIN users
  BY DEF UpdateRead, IInv, GoodAt
<1>2. req[w].user \in DOMAIN users /\ (req[w].late => Gone(req[w].user, users))
  BY <1>1 DEF GoodAt, Holding
<1>3. CASE Answer(w, "notfound")
  BY <1>1, <1>3, AnswerKeeps, AnswerNames
<1>4. CASE GetUserByID(req[w].user) # {}
  <2> DEFINE u == req[w].user
             row == [users[u] EXCEPT !.name = IF req[w].name = None THEN @ ELSE req[w].name]
  <2>1. ~req[w].late /\ users[u] \in UserRow
    BY <1>1, <1>2, <1>4, PlacesBounded DEF GetUserByID, Gone
  <2>2. /\ row \in UserRow /\ row.email = users[u].email
        /\ req[w].name = None => row.name = users[u].name
    <3>1. req[w].name # None => req[w].name \in Names
      BY <1>1 DEF Request
    <3> QED
      BY <2>1, <3>1 DEF UserRow
  <2>3. CASE Answer(w, "ok")
    BY <1>1, <2>1, <2>3, AnswerKeeps, AnswerNames
  <2>4. ASSUME NEW l \in {"email", "write"},
               l = "email" => req[w].email # None,
               l = "write" => req[w].email = None,
               req' = [req EXCEPT ![w].pc = l, ![w].row = row]
        PROVE  IInv'
    <3> HIDE DEF row
    <3> DEFINE r == [req[w] EXCEPT !.pc = l, !.row = row]
    <3>1. /\ r \in Request /\ r.pc = l /\ r.row = row /\ r.kind = "update"
          /\ r.late = req[w].late /\ r.user = u
          /\ r.name = req[w].name /\ r.email = req[w].email
      BY <1>1, <2>2 DEF Request
    <3>2. req' = [req EXCEPT ![w] = r]
      BY <2>4
    <3>3. l = "email" => req[w].email \in Emails
      BY <1>1, <2>4 DEF Request
    <3> HIDE DEF r
    <3>4. GoodAt(r, users, tokens)
      BY <1>2, <2>1, <2>2, <2>4, <3>1, <3>3 DEF GoodAt, Holding
    <3> QED
      BY <1>1, <3>2, <3>4, RowsStay
  <2>5. \/ Answer(w, "ok")
        \/ req[w].email # None /\ req' = [req EXCEPT ![w].pc = "email", ![w].row = row]
        \/ req[w].email = None /\ req' = [req EXCEPT ![w].pc = "write", ![w].row = row]
    <3>1. CASE req[w].email # None
      BY <1>4, <3>1 DEF UpdateRead
    <3>2. CASE req[w].email = None /\ req[w].name # None
      BY <1>4, <3>2 DEF UpdateRead
    <3>3. CASE req[w].email = None /\ req[w].name = None
      BY <1>4, <3>3 DEF UpdateRead
    <3> QED
      BY <3>1, <3>2, <3>3
  <2> QED
    BY <2>3, <2>4, <2>5
<1>5. CASE GetUserByID(req[w].user) = {}
  BY <1>3, <1>5 DEF UpdateRead
<1> QED
  BY <1>4, <1>5

LEMMA UpdateEmailKeeps ==
  ASSUME IInv, NEW w \in Workers, UpdateEmail(w)
  PROVE  IInv'
<1>1. /\ req[w] \in Request /\ req[w].pc = "email" /\ GoodAt(req[w], users, tokens)
      /\ UNCHANGED <<users, tokens, ended>> /\ bearer' \subseteq DOMAIN users
  BY DEF UpdateEmail, IInv, GoodAt
<1>2. /\ req[w].user \in DOMAIN users /\ (req[w].late => Gone(req[w].user, users))
      /\ req[w].kind = "update" /\ req[w].row \in UserRow /\ req[w].email \in Emails
      /\ ~req[w].stale /\ req[w].name = None => req[w].row.name = users[req[w].user].name
  BY <1>1 DEF GoodAt, Holding
<1>3. CASE Answer(w, "conflict")
  BY <1>1, <1>2, <1>3, AnswerKeeps, AnswerNames
<1>4. CASE req' = [req EXCEPT ![w].pc = "write", ![w].row.email = req[w].email]
  <2> DEFINE row == [req[w].row EXCEPT !.email = req[w].email]
             r == [req[w] EXCEPT !.pc = "write", !.row = row]
  <2>1. row \in UserRow /\ row.name = req[w].row.name
    BY <1>2 DEF UserRow
  <2>2. req' = [req EXCEPT ![w] = r]
    BY <1>4
  <2> HIDE DEF row
  <2>3. /\ r \in Request /\ r.pc = "write" /\ r.row = row /\ r.kind = "update"
        /\ r.late = req[w].late /\ r.user = req[w].user /\ r.stale = req[w].stale
        /\ r.name = req[w].name /\ r.email = req[w].email
    <3>1. r \in Request
      BY <1>1, <2>1 DEF Request
    <3>2. /\ r.pc = "write" /\ r.row = row /\ r.kind = "update"
          /\ r.late = req[w].late /\ r.user = req[w].user /\ r.stale = req[w].stale
          /\ r.name = req[w].name /\ r.email = req[w].email
      BY <1>1, <1>2 DEF Request
    <3> QED
      BY <3>1, <3>2
  <2>4. req[w].email # None
    BY <1>2, NoneIsNoValue
  <2> HIDE DEF r
  <2>5. GoodAt(r, users, tokens)
    BY <1>2, <2>1, <2>3, <2>4 DEF GoodAt, Holding
  <2> QED
    BY <1>1, <2>2, <2>5, RowsStay
<1> QED
  BY <1>3, <1>4 DEF UpdateEmail

-----------------------------------------------------------------------------
(* Statements that write.                                                  *)

\* The rows evolved, one request moved on.
LEMMA ChangeKeeps ==
  ASSUME IInv, NEW w \in Workers, NEW r, req' = [req EXCEPT ![w] = r],
         GoodAt(r, users', tokens'), RowsAt(users', tokens'),
         Evolves(users, tokens, users', tokens'),
         \A u \in DOMAIN users : SameRow(u, users, users'),
         UNCHANGED ended, bearer' \subseteq DOMAIN users'
  PROVE  IInv'
<1>1. /\ req' \in [Workers -> Request]
      /\ \A v \in Workers : GoodAt(req'[v], users', tokens')
  BY OneMoves
<1>2. EndedInv'
  BY EndedStays DEF IInv
<1> QED
  BY <1>1, <1>2 DEF IInv

\* An answer to a request while the rows change.
LEMMA GoodAnswerThen ==
  ASSUME IInv, NEW w \in Workers, NEW a \in Answers,
         req[w].pc \notin {"idle", "answered"},
         req[w].late /\ req[w].kind # "logout" => a \notin {"ok", "created"},
         req[w].kind = "delete" /\ a = "ok" => Gone(req[w].user, users'),
         req[w].kind = "logout" /\ a = "ok" =>
           req[w].tok \in DOMAIN tokens' /\ tokens'[req[w].tok].revoked
  PROVE  GoodAt(Answered(req[w], a), users', tokens')
<1>1. req[w] \in Request /\ GoodAt(req[w], users, tokens)
  BY DEF IInv
<1>2. req[w].kind \in Kinds
  BY <1>1 DEF GoodAt, Request, Holding, Kinds
<1> QED
  BY <1>1, <1>2, GoodAnswer

LEMMA CreateUserEvolves ==
  ASSUME RowsAt(users, tokens), NEW row \in UserRow, CreateUser(row), UNCHANGED tokens,
         UniqueEmail(0, row.email)
  PROVE  /\ RowsAt(users', tokens') /\ Evolves(users, tokens, users', tokens')
         /\ \A u \in DOMAIN users : SameRow(u, users, users')
         /\ Len(users) + 1 \in DOMAIN users' /\ Len(users) + 1 \in 1 .. MaxUsers
         /\ DOMAIN users \subseteq DOMAIN users'
<1>1. users \in Seq(UserRow) /\ Len(users) \in Nat /\ DOMAIN users = 1 .. Len(users)
      /\ Len(users) < MaxUsers /\ users' = Append(users, row)
  BY LenProperties DEF RowsAt, CreateUser
<1>2. /\ users' \in Seq(UserRow) /\ Len(users') = Len(users) + 1
      /\ \A i \in 1 .. Len(users) : users'[i] = users[i]
      /\ users'[Len(users) + 1] = row
  BY <1>1, AppendProperties
<1>3. DOMAIN users' = 1 .. (Len(users) + 1)
  BY <1>2, LenProperties
<1>4. \A u \in DOMAIN users : users[u].email # row.email
  BY <1>1 DEF UniqueEmail, GetUserByEmail
<1>5. \A u, v \in DOMAIN users' : users'[u].email = users'[v].email => u = v
  BY <1>1, <1>2, <1>3, <1>4 DEF RowsAt
<1>6. RowsAt(users', tokens')
  BY <1>1, <1>2, <1>3, <1>5, BoundsAreNaturals DEF RowsAt
<1> QED
  BY <1>1, <1>2, <1>3, <1>6, BoundsAreNaturals DEF Evolves, SameRow

LEMMA SignupCreateKeeps ==
  ASSUME IInv, NEW w \in Workers, SignupCreate(w)
  PROVE  IInv'
<1>1. /\ req[w].pc = "create" /\ GoodAt(req[w], users, tokens) /\ RowsAt(users, tokens)
      /\ UNCHANGED <<tokens, bearer, ended>> /\ bearer \subseteq DOMAIN users
  BY DEF SignupCreate, IInv
<1>2. /\ req[w].kind = "signup" /\ ~req[w].late /\ req[w].email \in Emails
      /\ req[w].name \in Names /\ req[w] \in Request
  BY <1>1 DEF GoodAt
<1>3. CASE Answer(w, "failed") /\ UNCHANGED users
  BY <1>1, <1>2, <1>3, AnswerKeeps, AnswerNames
<1> DEFINE row == [email |-> req[w].email, name |-> req[w].name, active |-> TRUE]
<1>4. CASE UniqueEmail(0, req[w].email) /\ CreateUser(row)
  <2>1. row \in UserRow /\ row.email = req[w].email
    BY <1>2 DEF UserRow
  <2> HIDE DEF row
  <2>2. /\ RowsAt(users', tokens') /\ Evolves(users, tokens, users', tokens')
        /\ \A u \in DOMAIN users : SameRow(u, users, users')
        /\ Len(users) + 1 \in DOMAIN users' /\ Len(users) + 1 \in 1 .. MaxUsers
        /\ bearer' \subseteq DOMAIN users'
    BY <1>1, <1>4, <2>1, CreateUserEvolves
  <2>3. CASE Authenticate(w, Len(users) + 1)
    <3>1. req[w].late = FALSE
      BY <1>2 DEF Request
    <3>2. PICK late : late = req[w].late
      OBVIOUS
    <3>3. GoodAt([IdleRequest EXCEPT !.kind = req[w].kind, !.pc = "session",
                    !.user = Len(users) + 1, !.late = late], users', tokens')
      BY <1>2, <2>2, <3>1, <3>2, SessionIsGood
    <3> QED
      BY <1>1, <2>2, <2>3, <3>2, <3>3, ChangeKeeps DEF Authenticate
  <2>4. CASE Answer(w, "failed")
    <3>1. GoodAt(Answered(req[w], "failed"), users', tokens')
      BY <1>1, <1>2, GoodAnswerThen, AnswerNames
    <3> QED
      BY <1>1, <2>2, <2>4, <3>1, ChangeKeeps DEF Answer
  <2> QED
    BY <1>3, <1>4, <2>3, <2>4 DEF SignupCreate, row
<1> QED
  BY <1>3, <1>4 DEF SignupCreate

LEMMA StartSessionKeeps ==
  ASSUME IInv, NEW w \in Workers, StartSession(w)
  PROVE  IInv'
<1>1. PICK stored \in BOOLEAN :
        /\ CreateRefreshToken(req[w].user, stored)
        /\ IF stored THEN GenerateAccessToken(req[w].user) ELSE UNCHANGED bearer
        /\ Answer(w, CASE ~stored -> "failed"
                       [] stored /\ req[w].kind = "signup" -> "created"
                       [] OTHER -> "ok")
  BY DEF StartSession
<1>2. /\ req[w].pc = "session" /\ GoodAt(req[w], users, tokens) /\ RowsAt(users, tokens)
      /\ UNCHANGED <<users, ended>> /\ bearer \subseteq DOMAIN users
  BY DEF StartSession, IInv
<1>3. /\ req[w].kind \in {"signup", "login"} /\ ~req[w].late
      /\ req[w].user \in DOMAIN users /\ req[w].user \in 1 .. MaxUsers
  BY <1>2, PlacesBounded DEF GoodAt
<1>4. PICK a \in {"failed", "created", "ok"} : Answer(w, a)
  BY <1>1
<1> DEFINE row == [user |-> req[w].user, revoked |-> FALSE, expired |-> FALSE,
                   given |-> stored]
<1>5. row \in TokenRow /\ row.user = req[w].user
  BY <1>3 DEF TokenRow
<1>6. Len(tokens) < MaxTokens /\ tokens' = Append(tokens, row)
  BY <1>1 DEF CreateRefreshToken
<1> HIDE DEF row
<1>7. tokens \in Seq(TokenRow) /\ Len(tokens) \in Nat /\ DOMAIN tokens = 1 .. Len(tokens)
  BY <1>2, LenProperties DEF RowsAt
<1>8. /\ tokens' \in Seq(TokenRow) /\ Len(tokens') = Len(tokens) + 1
      /\ \A i \in 1 .. Len(tokens) : tokens'[i] = tokens[i]
      /\ tokens'[Len(tokens) + 1] = row
  BY <1>5, <1>6, <1>7, AppendProperties
<1>9. DOMAIN tokens' = 1 .. (Len(tokens) + 1)
  BY <1>8, LenProperties
<1>10. RowsAt(users', tokens')
  <2>1. \A t \in DOMAIN tokens' : tokens'[t].user \in DOMAIN users
    BY <1>2, <1>3, <1>5, <1>7, <1>8, <1>9 DEF RowsAt
  <2> QED
    BY <1>2, <1>6, <1>7, <1>8, <2>1, BoundsAreNaturals DEF RowsAt
<1>11. Evolves(users, tokens, users', tokens')
       /\ \A u \in DOMAIN users : SameRow(u, users, users')
  BY <1>2, <1>7, <1>8, <1>9 DEF Evolves, SameRow
<1>12. GoodAt(Answered(req[w], a), users', tokens')
  BY <1>2, <1>3, <1>4, GoodAnswerThen, AnswerNames
<1>13. bearer' \subseteq DOMAIN users'
  BY <1>1, <1>2, <1>3 DEF GenerateAccessToken
<1> QED
  BY <1>2, <1>4, <1>10, <1>11, <1>12, <1>13, ChangeKeeps DEF Answer

LEMMA LogoutRevokeKeeps ==
  ASSUME IInv, NEW w \in Workers, LogoutRevoke(w)
  PROVE  IInv'
<1>1. /\ req[w].pc = "revoke" /\ GoodAt(req[w], users, tokens) /\ RowsAt(users, tokens)
      /\ UNCHANGED <<users, bearer, ended>> /\ bearer \subseteq DOMAIN users
  BY DEF LogoutRevoke, IInv
<1>2. req[w].kind = "logout" /\ req[w].tok \in DOMAIN tokens
  BY <1>1 DEF GoodAt
<1>3. CASE Answer(w, "failed") /\ UNCHANGED tokens
  BY <1>1, <1>2, <1>3, AnswerKeeps, AnswerNames
<1>4. CASE RevokeToken(req[w].tok) /\ Committed(w, "ok")
  <2>1. PICK a \in {"ok", "failed"} : Answer(w, a)
    BY <1>4 DEF Committed
  <2>2. PICK t \in DOMAIN tokens : t = req[w].tok
    BY <1>2
  <2>3. tokens' = [tokens EXCEPT ![t] = [tokens[t] EXCEPT !.revoked = TRUE]]
    BY <1>4, <2>2 DEF RevokeToken
  <2>4. /\ tokens \in Seq(TokenRow) /\ DOMAIN tokens = 1 .. Len(tokens)
        /\ tokens[t] \in TokenRow
    BY <1>1, PlacesBounded DEF RowsAt
  <2> DEFINE row == [tokens[t] EXCEPT !.revoked = TRUE]
  <2>5. /\ row \in TokenRow /\ row.user = tokens[t].user /\ row.revoked
        /\ row.expired = tokens[t].expired
    BY <2>4 DEF TokenRow
  <2>6. tokens' = [tokens EXCEPT ![t] = row]
    BY <2>3
  <2> HIDE DEF row
  <2>7. /\ tokens' \in Seq(TokenRow) /\ Len(tokens') = Len(tokens)
        /\ \A i \in 1 .. Len(tokens) : tokens'[i] = IF i = t THEN row ELSE tokens[i]
    BY <2>4, <2>5, <2>6, ExceptSeq
  <2>8. DOMAIN tokens' = DOMAIN tokens
    BY <2>6
  <2>9. RowsAt(users', tokens') /\ Evolves(users, tokens, users', tokens')
        /\ \A u \in DOMAIN users : SameRow(u, users, users')
    BY <1>1, <2>4, <2>5, <2>7, <2>8 DEF RowsAt, Evolves, SameRow
  <2>10. GoodAt(Answered(req[w], a), users', tokens')
    BY <1>1, <1>2, <2>1, <2>2, <2>4, <2>5, <2>7, <2>8, GoodAnswerThen, AnswerNames
  <2> QED
    BY <1>1, <2>1, <2>9, <2>10, ChangeKeeps DEF Answer
<1> QED
  BY <1>3, <1>4 DEF LogoutRevoke

\* An account's row changes, and was that of an active account: everything evolves.
LEMMA RowChanges ==
  ASSUME RowsAt(users, tokens), NEW u \in DOMAIN users, users[u].active,
         NEW row \in UserRow, UniqueEmail(u, row.email), UNCHANGED tokens,
         users' = [users EXCEPT ![u] = row]
  PROVE  /\ RowsAt(users', tokens') /\ Evolves(users, tokens, users', tokens')
         /\ DOMAIN users' = DOMAIN users /\ users'[u] = row
         /\ \A v \in DOMAIN users : v # u => users'[v] = users[v]
<1>1. users \in Seq(UserRow) /\ DOMAIN users = 1 .. Len(users)
  BY PlacesBounded DEF RowsAt
<1>2. /\ users' \in Seq(UserRow) /\ Len(users') = Len(users)
      /\ \A i \in 1 .. Len(users) : users'[i] = IF i = u THEN row ELSE users[i]
  BY <1>1, ExceptSeq
<1>3. DOMAIN users' = DOMAIN users
  OBVIOUS
<1>4. \A v \in DOMAIN users : v # u => users[v].email # row.email
  BY DEF UniqueEmail, GetUserByEmail
<1>5. \A v, x \in DOMAIN users' : users'[v].email = users'[x].email => v = x
  BY <1>1, <1>2, <1>3, <1>4 DEF RowsAt
<1> QED
  BY <1>1, <1>2, <1>3, <1>5 DEF RowsAt, Evolves

LEMMA DeleteMeKeeps ==
  ASSUME IInv, NEW w \in Workers, DeleteMe(w)
  PROVE  IInv'
<1>1. /\ req[w].pc = "remove" /\ GoodAt(req[w], users, tokens) /\ RowsAt(users, tokens)
      /\ UNCHANGED <<tokens, bearer, ended>> /\ bearer \subseteq DOMAIN users
  BY DEF DeleteMe, IInv
<1>2. /\ req[w].user \in DOMAIN users /\ (req[w].late => Gone(req[w].user, users))
      /\ req[w].kind # "logout"
  BY <1>1 DEF GoodAt, Holding
<1>3. CASE Answer(w, "notfound") /\ UNCHANGED users
  BY <1>1, <1>3, AnswerKeeps, AnswerNames
<1>4. CASE GetUserByID(req[w].user) # {} /\ DeleteUser(req[w].user) /\ Committed(w, "ok")
  <2>1. PICK u \in DOMAIN users : u = req[w].user
    BY <1>2
  <2>2. users[u].active /\ ~req[w].late
    BY <1>2, <1>4, <2>1 DEF GetUserByID, Gone
  <2> DEFINE row == [users[u] EXCEPT !.active = FALSE]
  <2>3. users[u] \in UserRow
    BY <1>1, PlacesBounded
  <2>4. /\ row \in UserRow /\ row.email = users[u].email /\ row.name = users[u].name
        /\ ~row.active
    BY <2>3 DEF UserRow
  <2>5. users' = [users EXCEPT ![u] = row]
    BY <1>4, <2>1 DEF DeleteUser
  <2>6. UniqueEmail(u, row.email)
    BY <1>1, <2>4 DEF UniqueEmail, GetUserByEmail, RowsAt
  <2> HIDE DEF row
  <2>7. /\ RowsAt(users', tokens') /\ Evolves(users, tokens, users', tokens')
        /\ DOMAIN users' = DOMAIN users /\ users'[u] = row
        /\ \A v \in DOMAIN users : v # u => users'[v] = users[v]
    BY <1>1, <2>2, <2>4, <2>5, <2>6, RowChanges
  <2>8. \A v \in DOMAIN users : SameRow(v, users, users')
    BY <2>4, <2>7 DEF SameRow
  <2>9. PICK a \in {"ok", "failed"} : Answer(w, a)
    BY <1>4 DEF Committed
  <2>10. Gone(req[w].user, users')
    BY <2>1, <2>4, <2>7 DEF Gone
  <2>11. GoodAt(Answered(req[w], a), users', tokens')
    BY <1>1, <1>2, <2>2, <2>9, <2>10, GoodAnswerThen, AnswerNames
  <2> QED
    BY <1>1, <2>7, <2>8, <2>9, <2>11, ChangeKeeps DEF Answer
<1> QED
  BY <1>3, <1>4 DEF DeleteMe

\* UpdateUser: copies of the same account that others hold are marked as old.
LEMMA UpdateWriteKeeps ==
  ASSUME IInv, NEW w \in Workers, UpdateWrite(w)
  PROVE  IInv'
<1> DEFINE u == req[w].user
<1>1. /\ req[w].pc = "write" /\ GoodAt(req[w], users, tokens) /\ RowsAt(users, tokens)
      /\ UNCHANGED <<tokens, bearer, ended>> /\ bearer \subseteq DOMAIN users
      /\ req[w] \in Request
  BY DEF UpdateWrite, IInv, GoodAt
<1>2. /\ u \in DOMAIN users /\ (req[w].late => Gone(u, users))
      /\ req[w].kind = "update" /\ req[w].row \in UserRow
  BY <1>1 DEF GoodAt, Holding
<1>3. CASE GetUserByID(u) = {}
  <2>1. Answer(w, "notfound") /\ UNCHANGED users
    BY <1>3 DEF UpdateWrite
  <2> QED
    BY <1>1, <1>2, <2>1, AnswerKeeps, AnswerNames
<1>4. CASE GetUserByID(u) # {} /\ ~UniqueEmail(u, req[w].row.email)
  <2>1. Answer(w, "failed") /\ UNCHANGED users
    BY <1>4 DEF UpdateWrite
  <2> QED
    BY <1>1, <1>2, <2>1, AnswerKeeps, AnswerNames
<1>5. CASE GetUserByID(u) # {} /\ UniqueEmail(u, req[w].row.email)
  <2>1. /\ UpdateUser(u, req[w].row)
        /\ \E a \in {"ok", "failed"} :
             req' = [v \in Workers |->
                       CASE v = w -> Answered(req[v], a)
                         [] v \in Outdated(u, w) -> [req[v] EXCEPT !.stale = TRUE]
                         [] OTHER -> req[v]]
    BY <1>5 DEF UpdateWrite
  <2>2. PICK a \in {"ok", "failed"} :
             req' = [v \in Workers |->
                       CASE v = w -> Answered(req[v], a)
                         [] v \in Outdated(u, w) -> [req[v] EXCEPT !.stale = TRUE]
                         [] OTHER -> req[v]]
    BY <2>1
  <2>3. users[u].active /\ ~req[w].late
    BY <1>2, <1>5 DEF GetUserByID, Gone
  <2> DEFINE row == [req[w].row EXCEPT !.active = TRUE]
  <2>4. row \in UserRow /\ row.email = req[w].row.email
    BY <1>2 DEF UserRow
  <2>5. users' = [users EXCEPT ![u] = row]
    BY <2>1 DEF UpdateUser
  <2> HIDE DEF row
  <2>6. /\ RowsAt(users', tokens') /\ Evolves(users, tokens, users', tokens')
        /\ DOMAIN users' = DOMAIN users
        /\ \A v \in DOMAIN users : v # u => users'[v] = users[v]
    BY <1>1, <1>2, <1>5, <2>3, <2>4, <2>5, RowChanges
  <2>7. ASSUME NEW v \in Workers PROVE GoodAt(req'[v], users', tokens')
    <3>1. CASE v = w
      <4>1. req'[w] = Answered(req[w], a)
        <5>1. w \notin Outdated(u, w)
          BY DEF Outdated
        <5> QED
          BY <2>2, <5>1
      <4>2. GoodAt(Answered(req[w], a), users', tokens')
        BY <1>1, <1>2, <2>2, <2>3, GoodAnswerThen, AnswerNames
      <4> QED
        BY <3>1, <4>1, <4>2
    <3>2. CASE v # w /\ v \in Outdated(u, w)
      <4> DEFINE r == [req[v] EXCEPT !.stale = TRUE]
      <4>1. req'[v] = r
        BY <2>2, <3>2
      <4>2. req[v] \in Request /\ GoodAt(req[v], users, tokens)
        BY DEF IInv
      <4>3. r \in Request
        BY <4>2 DEF Request
      <4>4. /\ r.kind = req[v].kind /\ r.pc = req[v].pc /\ r.email = req[v].email
            /\ r.name = req[v].name /\ r.user = req[v].user /\ r.tok = req[v].tok
            /\ r.row = req[v].row /\ r.late = req[v].late /\ r.stale
            /\ r.answer = req[v].answer
        BY <4>2 DEF Request
      <4> HIDE DEF r
      <4>5. GoodAt(r, users, tokens)
        BY <4>2, <4>3, <4>4 DEF GoodAt
      <4> QED
        BY <1>1, <2>6, <4>1, <4>4, <4>5, GoodStays
    <3>3. CASE v # w /\ v \notin Outdated(u, w)
      <4>1. req'[v] = req[v] /\ GoodAt(req[v], users, tokens)
        BY <2>2, <3>3 DEF IInv
      <4>2. req[v].pc \in {"email", "write"} => req[v].user # u /\ req[v].user \in DOMAIN users
        BY <3>3, <4>1, NoneIsNoRow DEF Outdated, GoodAt, Holding
      <4>3. req[v].pc \in {"email", "write"} => SameRow(req[v].user, users, users')
        BY <2>6, <4>2 DEF SameRow
      <4> QED
        BY <1>1, <2>6, <4>1, <4>3, GoodStays
    <3> QED
      BY <3>1, <3>2, <3>3
  <2>8. req' \in [Workers -> Request]
    BY <2>2, <2>7 DEF GoodAt
  <2>9. EndedInv'
    BY <1>1, <2>6, EndedStays DEF IInv
  <2> QED
    BY <1>1, <2>6, <2>7, <2>8, <2>9 DEF IInv
<1> QED
  BY <1>3, <1>4, <1>5

-----------------------------------------------------------------------------
(* The client, the clock and the process; all steps.                       *)

LEMMA ReplyKeeps ==
  ASSUME IInv, NEW w \in Workers, Reply(w)
  PROVE  IInv'
<1>1. /\ req[w].pc = "answered" /\ GoodAt(req[w], users, tokens) /\ RowsAt(users, tokens)
      /\ UNCHANGED <<users, tokens, bearer>> /\ req' = [req EXCEPT ![w] = IdleRequest]
  BY DEF Reply, IInv
<1>2. GoodAt(IdleRequest, users', tokens')
  BY IdleFields DEF GoodAt, Holding
<1>3. Evolves(users, tokens, users', tokens') /\ \A u \in DOMAIN users : SameRow(u, users, users')
  BY <1>1, EvolvesRefl DEF SameRow
<1>4. /\ req' \in [Workers -> Request]
      /\ \A v \in Workers : GoodAt(req'[v], users', tokens')
  BY <1>1, <1>2, <1>3, OneMoves
<1>5. EndedInv'
  <2>1. /\ req[w].kind = "delete" /\ req[w].answer = "ok" => Gone(req[w].user, users)
        /\ req[w].kind = "logout" /\ req[w].answer = "ok" /\ req[w].tok # 0 =>
             req[w].tok \in DOMAIN tokens /\ tokens[req[w].tok].revoked
    BY <1>1 DEF GoodAt
  <2>2. /\ ended'.users \subseteq ended.users \cup
             (IF req[w].kind = "delete" /\ req[w].answer = "ok" THEN {req[w].user} ELSE {})
        /\ ended'.tokens \subseteq ended.tokens \cup
             (IF req[w].kind = "logout" /\ req[w].answer = "ok" /\ req[w].tok # 0
              THEN {req[w].tok} ELSE {})
    BY DEF Reply
  <2> QED
    BY <1>1, <2>1, <2>2 DEF IInv, EndedInv
<1> QED
  BY <1>1, <1>4, <1>5 DEF IInv

LEMMA RefreshExpiresKeeps ==
  ASSUME IInv, NEW t \in 1 .. MaxTokens, RefreshExpires(t)
  PROVE  IInv'
<1>1. /\ t \in DOMAIN tokens /\ RowsAt(users, tokens)
      /\ UNCHANGED <<users, bearer, req, ended>>
  BY DEF RefreshExpires, IInv
<1>2. tokens \in Seq(TokenRow) /\ DOMAIN tokens = 1 .. Len(tokens) /\ tokens[t] \in TokenRow
  BY <1>1, PlacesBounded DEF RowsAt
<1> DEFINE row == [tokens[t] EXCEPT !.expired = TRUE]
<1>3. /\ row \in TokenRow /\ row.user = tokens[t].user /\ row.expired
      /\ row.revoked = tokens[t].revoked
  BY <1>2 DEF TokenRow
<1>4. tokens' = [tokens EXCEPT ![t] = row]
  BY DEF RefreshExpires
<1> HIDE DEF row
<1>5. /\ tokens' \in Seq(TokenRow) /\ Len(tokens') = Len(tokens)
      /\ \A i \in 1 .. Len(tokens) : tokens'[i] = IF i = t THEN row ELSE tokens[i]
  BY <1>1, <1>2, <1>3, <1>4, ExceptSeq
<1>6. DOMAIN tokens' = DOMAIN tokens
  BY <1>4
<1>7. RowsAt(users', tokens') /\ Evolves(users, tokens, users', tokens')
      /\ \A u \in DOMAIN users : SameRow(u, users, users')
  BY <1>1, <1>2, <1>3, <1>5, <1>6 DEF RowsAt, Evolves, SameRow
<1>8. ASSUME NEW v \in Workers PROVE GoodAt(req'[v], users', tokens')
  <2>1. req'[v] = req[v] /\ GoodAt(req[v], users, tokens)
    BY <1>1 DEF IInv
  <2>2. req[v].pc \in {"email", "write"} => SameRow(req[v].user, users, users')
    BY <1>1 DEF SameRow
  <2> QED
    BY <1>1, <1>7, <2>1, <2>2, GoodStays
<1>9. EndedInv'
  BY <1>1, <1>7, EndedStays DEF IInv
<1> QED
  BY <1>1, <1>7, <1>8, <1>9 DEF IInv

LEMMA RestartKeeps ==
  ASSUME IInv, Restart
  PROVE  IInv'
<1>1. GoodAt(IdleRequest, users, tokens)
  BY IdleFields DEF GoodAt, Holding
<1>2. /\ req' = [w \in Workers |-> IdleRequest]
      /\ UNCHANGED <<users, tokens, bearer, ended>>
  BY DEF Restart
<1> QED
  BY <1>1, <1>2, IdleFields DEF IInv, EndedInv

LEMMA InitIInv == Init => IInv
<1> SUFFICES ASSUME Init PROVE IInv
  OBVIOUS
<1>1. GoodAt(IdleRequest, users, tokens)
  BY IdleFields DEF GoodAt, Holding
<1>2. /\ users \in Seq(UserRow) /\ tokens \in Seq(TokenRow)
      /\ Len(users) = 0 /\ Len(tokens) = 0 /\ DOMAIN users = {} /\ DOMAIN tokens = {}
  BY EmptySeq, LenProperties DEF Init
<1>3. RowsAt(users, tokens)
  BY <1>2, BoundsAreNaturals DEF RowsAt
<1> QED
  BY <1>1, <1>3, IdleFields DEF Init, IInv, EndedInv

LEMMA NextIInv == IInv /\ [Next]_vars => IInv'
<1> SUFFICES ASSUME IInv, [Next]_vars PROVE IInv'
  OBVIOUS
<1>1. ASSUME NEW w \in Workers, Handle(w) PROVE IInv'
  BY <1>1, BeginSignupKeeps, SignupCheckKeeps, SignupCreateKeeps, BeginLoginKeeps,
     LoginFindKeeps, StartSessionKeeps, BeginWithTokenKeeps, RefreshTokenKeeps,
     RefreshOwnerKeeps, LogoutTokenKeeps, LogoutRevokeKeeps, BeginProfileKeeps, GetMeKeeps,
     UpdateReadKeeps, UpdateEmailKeeps, UpdateWriteKeeps, DeleteMeKeeps, CallFailsKeeps,
     ReplyKeeps
  DEF Handle
<1>2. ASSUME NEW t \in 1 .. MaxTokens, RefreshExpires(t) PROVE IInv'
  BY <1>2, RefreshExpiresKeeps
<1>3. CASE \E u \in 1 .. MaxUsers : AccessExpires(u)
  BY <1>3 DEF AccessExpires, IInv, EndedInv, RowsAt
<1>4. CASE Restart
  BY <1>4, RestartKeeps
<1>5. CASE UNCHANGED vars
  BY <1>5 DEF vars, IInv, EndedInv, RowsAt
<1> QED
  BY <1>1, <1>2, <1>3, <1>4, <1>5 DEF Next

LEMMA IInvAlways == Spec => []IInv
  BY InitIInv, NextIInv, PTL DEF Spec

-----------------------------------------------------------------------------
LEMMA IInvTypes == IInv => TypeOK
<1> SUFFICES ASSUME IInv PROVE TypeOK
  OBVIOUS
<1>1. ASSUME NEW S, NEW s \in Seq(S), NEW n \in Nat, Len(s) <= n
      PROVE  s \in BoundedSeq(S, n)
  <2>1. s \in [1 .. Len(s) -> S] /\ Len(s) \in 0 .. n
    BY <1>1, LenProperties
  <2> QED
    BY <2>1 DEF BoundedSeq, SeqOf
<1>2. users \in BoundedSeq(UserRow, MaxUsers) /\ tokens \in BoundedSeq(TokenRow, MaxTokens)
  BY <1>1, BoundsAreNaturals DEF IInv, RowsAt
<1> QED
  BY <1>2 DEF TypeOK, IInv, EndedInv, Gone

\* No two accounts ever have the same address, for any number of requests that look it
\* up before they write it (auth_handler.go:63, user_handler.go:99).
THEOREM EmailsAreUniqueInvariant == Spec => []EmailsAreUnique
<1>1. IInv => EmailsAreUnique
  BY IInvTypes DEF IInv, RowsAt, EmailsAreUnique
<1> QED
  BY <1>1, IInvAlways, PTL

\* A request that begins after its account's deletion, its session's logout or its
\* token's expiry is never served, for any number of requests in flight, accounts and
\* tokens, and after any failure or restart (auth_handler.go:251-264, user_repo.go:86).
THEOREM EndedStaysEndedInvariant == Spec => []EndedStaysEnded
<1>1. IInv => EndedStaysEnded
  BY DEF IInv, GoodAt, EndedStaysEnded
<1> QED
  BY <1>1, IInvAlways, PTL

-----------------------------------------------------------------------------
\* Only its own UpdateUser takes a request from "write" to its answer while the accounts
\* change.
LEMMA OnlyOwnWrite ==
  ASSUME IInv, Next, NEW w \in Workers, req[w].pc = "write", users' # users,
         req'[w].pc = "answered"
  PROVE  UpdateWrite(w)
<1>0. req \in [Workers -> Request]
  BY DEF IInv
<1>1. PICK v \in Workers : SignupCreate(v) \/ UpdateWrite(v) \/ DeleteMe(v)
  <2>1. PICK v \in Workers : Handle(v)
    BY DEF Next, RefreshExpires, AccessExpires, Restart
  <2>2. ~(BeginSignup(v) \/ BeginLogin(v) \/ BeginWithToken(v, "refresh")
          \/ BeginWithToken(v, "logout") \/ BeginGet(v) \/ BeginUpdate(v) \/ BeginDelete(v))
    BY DEF BeginSignup, BeginLogin, BeginWithToken, BeginGet, BeginUpdate, BeginDelete,
           AuthMiddleware, Begin
  <2>3. ~(SignupCheck(v) \/ LoginFind(v) \/ StartSession(v) \/ RefreshToken(v)
          \/ RefreshOwner(v) \/ LogoutToken(v) \/ LogoutRevoke(v) \/ GetMe(v)
          \/ UpdateRead(v) \/ UpdateEmail(v) \/ CallFails(v) \/ Reply(v))
    BY DEF SignupCheck, LoginFind, StartSession, RefreshToken, RefreshOwner, LogoutToken,
           LogoutRevoke, GetMe, UpdateRead, UpdateEmail, CallFails, Reply
  <2> QED
    BY <2>1, <2>2, <2>3 DEF Handle
<1>2. ASSUME v # w PROVE req'[w].pc = req[w].pc
  <2>1. CASE SignupCreate(v)
    BY <1>0, <1>2, <2>1 DEF SignupCreate, Authenticate, Answer
  <2>2. CASE DeleteMe(v)
    BY <1>0, <1>2, <2>2 DEF DeleteMe, Committed, Answer
  <2>3. CASE UpdateWrite(v)
    <3>1. PICK a \in {"ok", "failed"} :
             req' = [x \in Workers |->
                       CASE x = v -> Answered(req[x], a)
                         [] x \in Outdated(req[v].user, v) -> [req[x] EXCEPT !.stale = TRUE]
                         [] OTHER -> req[x]]
      <4>1. CASE GetUserByID(req[v].user) = {}
        BY <2>3, <4>1 DEF UpdateWrite
      <4>2. CASE GetUserByID(req[v].user) # {} /\ ~UniqueEmail(req[v].user, req[v].row.email)
        BY <2>3, <4>2 DEF UpdateWrite
      <4>3. CASE GetUserByID(req[v].user) # {} /\ UniqueEmail(req[v].user, req[v].row.email)
        BY <2>3, <4>3 DEF UpdateWrite
      <4> QED
        BY <4>1, <4>2, <4>3
    <3>2. req'[w] = req[w] \/ req'[w] = [req[w] EXCEPT !.stale = TRUE]
      BY <1>2, <3>1
    <3>3. req[w] \in Request
      BY <1>0
    <3> QED
      BY <3>2, <3>3 DEF Request
  <2> QED
    BY <1>1, <2>1, <2>2, <2>3
<1>3. v = w
  BY <1>2
<1> QED
  BY <1>1, <1>3 DEF SignupCreate, DeleteMe

\* A field that an update was not asked to change is only overwritten if another request
\* wrote the row after the update had read it, for any number of requests
\* (user_handler.go:79-120).
THEOREM OverwritesNeedARaceTheorem == Spec => OverwritesNeedARace
<1> DEFINE Keeps(w) ==
      LET r == req[w] IN
      r.pc = "write" /\ users' # users /\ req'[w].pc = "answered" /\ ~r.stale
        => /\ r.name = None => users'[r.user].name = users[r.user].name
           /\ r.email = None => users'[r.user].email = users[r.user].email
<1>1. ASSUME IInv, Next, NEW w \in Workers PROVE Keeps(w)
  <2> SUFFICES ASSUME req[w].pc = "write", users' # users, req'[w].pc = "answered",
                      ~req[w].stale
               PROVE  /\ req[w].name = None
                           => users'[req[w].user].name = users[req[w].user].name
                      /\ req[w].email = None
                           => users'[req[w].user].email = users[req[w].user].email
    OBVIOUS
  <2>1. UpdateWrite(w)
    BY <1>1, OnlyOwnWrite
  <2>2. /\ req[w].user \in DOMAIN users /\ req[w].row \in UserRow
        /\ req[w].name = None => req[w].row.name = users[req[w].user].name
        /\ req[w].email = None => req[w].row.email = users[req[w].user].email
    BY <1>1 DEF IInv, GoodAt, Holding
  <2>3. UpdateUser(req[w].user, req[w].row)
    <3>1. CASE GetUserByID(req[w].user) = {}
      BY <2>1, <3>1 DEF UpdateWrite
    <3>2. CASE GetUserByID(req[w].user) # {} /\ ~UniqueEmail(req[w].user, req[w].row.email)
      BY <2>1, <3>2 DEF UpdateWrite
    <3>3. CASE GetUserByID(req[w].user) # {} /\ UniqueEmail(req[w].user, req[w].row.email)
      BY <2>1, <3>3 DEF UpdateWrite
    <3> QED
      BY <3>1, <3>2, <3>3
  <2>4. users'[req[w].user] = [req[w].row EXCEPT !.active = TRUE]
    BY <2>2, <2>3 DEF UpdateUser
  <2> QED
    BY <2>2, <2>4 DEF UserRow
<1>2. IInv /\ [Next]_vars => [\A w \in Workers : Keeps(w)]_vars
  BY <1>1
<1> QED
  BY <1>2, IInvAlways, PTL DEF Spec, OverwritesNeedARace
===============================================================================
