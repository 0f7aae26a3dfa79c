------------------------------ MODULE AuthSessions ------------------------------
(***************************************************************************)
(* The user service: accounts (table users), refresh tokens (table         *)
(* refresh_tokens) and access tokens (signed JWTs that nobody stores), as  *)
(* the handlers of internal/handlers reach them.  One action per database  *)
(* call of a handler: net/http runs each request in a goroutine of its     *)
(* own, and no handler opens a transaction, so the requests interleave     *)
(* between their calls.  Any call may fail, before it took effect or after *)
(* (the reply of a committed statement is lost), and the process may die   *)
(* with requests in flight; the tables survive it.                         *)
(*                                                                         *)
(* A worker takes one request at a time; req[w] is what its handler holds. *)
(* A users row is its place in the sequence, so is a refresh token.  A     *)
(* password, a hash or a signature is right or wrong; the fields that no   *)
(* handler branches on (timestamps, addresses, email_verified) are left    *)
(* out.                                                                    *)
(***************************************************************************)
EXTENDS Integers, Sequences, FiniteSets, SequencesExt

CONSTANTS Workers,     \* goroutines that serve requests
          Emails,      \* addresses a client may give
          Names,       \* profile names a client may give
          MaxUsers,    \* bound on the rows of users
          MaxTokens,   \* bound on the rows of refresh_tokens
          None         \* "no such field"

ASSUME BoundsAreNaturals == MaxUsers \in Nat /\ MaxTokens \in Nat
ASSUME NoneIsNoValue == None \notin Emails \cup Names

VARIABLES users,     \* rows of users, in the order of their insertion
          tokens,    \* rows of refresh_tokens, likewise
          bearer,    \* accounts of which an unexpired access token is around
          req,       \* the request each worker is serving
          ended      \* accounts and refresh tokens a client was told are gone

vars == <<users, tokens, bearer, req, ended>>

-----------------------------------------------------------------------------
(* The rows and what the repositories ask of them.                         *)

UserRow == [email : Emails, name : Names, active : BOOLEAN]
ASSUME NoneIsNoRow == None \notin UserRow
TokenRow == [user : 1 .. MaxUsers, revoked : BOOLEAN, expired : BOOLEAN,
             given : BOOLEAN]

Kinds == {"signup", "login", "refresh", "logout", "get", "update", "delete"}
Answers == {None, "created", "ok", "unauthorized", "conflict", "notfound", "failed"}

Request ==
  [kind : Kinds \cup {None}, pc : {"idle", "check", "create", "session", "find",
     "token", "owner", "revoke", "profile", "email", "write", "remove", "answered"},
   email : Emails \cup {None}, name : Names \cup {None},
   user : 0 .. MaxUsers, tok : 0 .. MaxTokens,
   row : UserRow \cup {None},
   late : BOOLEAN,      \* its subject was gone, to a client's knowledge, when it began
   stale : BOOLEAN,     \* its row has been written by another request since it was read
   answer : Answers]

IdleRequest ==
  [kind |-> None, pc |-> "idle", email |-> None, name |-> None, user |-> 0,
   tok |-> 0, row |-> None, late |-> FALSE, stale |-> FALSE, answer |-> None]

\* GetUserByEmail: the row with that address, whether the account is active or not.
GetUserByEmail(e) == {u \in DOMAIN users : users[u].email = e}

\* Mutant of GetUserByID: the WHERE clause forgets is_active.
GetUserByID_Any(u) == {v \in DOMAIN users : v = u}

\* GetUserByID: only the row of an active account.
GetUserByID(u) == {v \in DOMAIN users : v = u /\ users[v].active}

\* GetRefreshTokenByHash: the row, unless it has expired or was revoked.
GetRefreshTokenByHash(t) ==
  {s \in DOMAIN tokens : s = t /\ ~tokens[s].expired /\ ~tokens[s].revoked}

\* Mutant of UniqueEmail: the column has no UNIQUE constraint, the look-ups must do.
UniqueEmail_None(u, e) == TRUE

\* users.email is UNIQUE: a row u may take the address e.
UniqueEmail(u, e) == GetUserByEmail(e) \subseteq {u}

-----------------------------------------------------------------------------
(* Requests.                                                               *)

\* What is left of a request once its handler has answered it.
Answered(r, a) ==
  [IdleRequest EXCEPT !.kind = r.kind, !.pc = "answered", !.late = r.late, !.answer = a,
                      !.user = IF r.kind = "delete" THEN r.user ELSE 0,
                      !.tok = IF r.kind = "logout" THEN r.tok ELSE 0]

\* The handler answers; the connection still holds the answer.
Answer(w, a) == req' = [req EXCEPT ![w] = Answered(@, a)]

GoTo(w, l) == req' = [req EXCEPT ![w].pc = l]

\* The validator, or ValidatePasswordStrength, finds fault with the body: 400.
Invalid(r) == Answered(r, "failed")

\* A request arrives and is routed to its handler, which decodes and validates it.
Begin(w, r) ==
  /\ req[w].pc = "idle"
  /\ \E asked \in {r, Invalid(r)} : req' = [req EXCEPT ![w] = asked]
  /\ UNCHANGED <<users, tokens, bearer, ended>>

BeginSignup(w) ==
  \E e \in Emails, n \in Names :
    Begin(w, [IdleRequest EXCEPT !.kind = "signup", !.pc = "check",
                                 !.email = e, !.name = n])

BeginLogin(w) ==
  \E e \in Emails :
    Begin(w, [IdleRequest EXCEPT !.kind = "login", !.pc = "find", !.email = e,
                !.late = GetUserByEmail(e) \cap ended.users # {}])

\* The body carries a refresh token that was handed out, or one nobody issued (0).
BeginWithToken(w, kind) ==
  \E t \in {0} \cup {s \in DOMAIN tokens : tokens[s].given} :
    Begin(w, [IdleRequest EXCEPT !.kind = kind, !.pc = "token", !.tok = t,
                !.late = t # 0 /\ \/ tokens[t].expired
                                  \/ t \in ended.tokens
                                  \/ tokens[t].user \in ended.users])

\* The signature is ours and the token has not expired; the account is not looked up.
ValidateAccessToken(u) == u \in bearer

\* AuthMiddleware: no valid token, no service.
AuthMiddleware(w, r) ==
  Begin(w, IF ValidateAccessToken(r.user)
           THEN r
           ELSE Answered(r, "unauthorized"))

BeginGet(w) ==
  \E u \in DOMAIN users :
    AuthMiddleware(w, [IdleRequest EXCEPT !.kind = "get", !.pc = "profile",
                         !.user = u, !.late = u \in ended.users])

BeginUpdate(w) ==
  \E u \in DOMAIN users, e \in Emails \cup {None}, n \in Names \cup {None} :
    AuthMiddleware(w, [IdleRequest EXCEPT !.kind = "update", !.pc = "profile",
                         !.user = u, !.email = e, !.name = n, !.late = u \in ended.users])

BeginDelete(w) ==
  \E u \in DOMAIN users :
    AuthMiddleware(w, [IdleRequest EXCEPT !.kind = "delete", !.pc = "remove",
                         !.user = u, !.late = u \in ended.users])

\* A statement, the hasher or the signer returns an error, or something panics: every
\* handler, or RecoveryMiddleware for it, answers 500.
CallFails(w) ==
  /\ req[w].pc \notin {"idle", "answered"}
  /\ Answer(w, "failed")
  /\ UNCHANGED <<users, tokens, bearer, ended>>

\* The statements that write; what they do to the rows.
CreateUser(row) == Len(users) < MaxUsers /\ users' = Append(users, row)
UpdateUser(u, row) == users' = [users EXCEPT ![u] = [row EXCEPT !.active = TRUE]]
DeleteUser(u) == users' = [users EXCEPT ![u].active = FALSE]
CreateRefreshToken(u, given) ==
  /\ Len(tokens) < MaxTokens
  /\ tokens' = Append(tokens, [user |-> u, revoked |-> FALSE, expired |-> FALSE,
                               given |-> given])
RevokeToken(t) == tokens' = [tokens EXCEPT ![t].revoked = TRUE]

\* An access token for account u is signed and handed out.
GenerateAccessToken(u) == bearer' = bearer \cup {u}

\* Verify: the password is that of the hash, or not, or the hash cannot be decoded.
Verify == {"right", "wrong"}

\* A statement that commits may still come back as an error.
Committed(w, a) == \E b \in {a, "failed"} : Answer(w, b)

-----------------------------------------------------------------------------
(* Signup and Login.                                                       *)

\* The account is known: what is left to do is to open a session for it.
Authenticate(w, u) ==
  req' = [req EXCEPT ![w] = [IdleRequest EXCEPT !.kind = req[w].kind, !.pc = "session",
                                                !.user = u, !.late = req[w].late]]

\* Signup looks the address up first.
SignupCheck(w) ==
  /\ req[w].pc = "check"
  /\ IF GetUserByEmail(req[w].email) # {} THEN Answer(w, "conflict") ELSE GoTo(w, "create")
  /\ UNCHANGED <<users, tokens, bearer, ended>>

\* CreateUser.  The driver's message for a duplicate address is longer than the text
\* CreateUser compares it with, so a duplicate is an error like any other.
SignupCreate(w) ==
  /\ req[w].pc = "create"
  /\ IF UniqueEmail(0, req[w].email)
     THEN /\ CreateUser([email |-> req[w].email, name |-> req[w].name, active |-> TRUE])
          /\ \/ Authenticate(w, Len(users) + 1)
             \/ Answer(w, "failed")
     ELSE Answer(w, "failed") /\ UNCHANGED users
  /\ UNCHANGED <<tokens, bearer, ended>>

\* Login reads the account and verifies the password against what it read.
LoginFind(w) ==
  /\ req[w].pc = "find"
  /\ LET active == {u \in GetUserByEmail(req[w].email) : users[u].active}
     IN \E password \in Verify :
          IF active # {} /\ password = "right"
          THEN \E u \in active : Authenticate(w, u)
          ELSE Answer(w, "unauthorized")
  /\ UNCHANGED <<users, tokens, bearer, ended>>

\* CreateRefreshToken, then the pair of tokens goes out with the answer.
StartSession(w) ==
  /\ req[w].pc = "session"
  /\ \E stored \in BOOLEAN :     \* did the statement report success?
       /\ CreateRefreshToken(req[w].user, stored)
       /\ IF stored THEN GenerateAccessToken(req[w].user) ELSE UNCHANGED bearer
       /\ Answer(w, CASE ~stored -> "failed"
                      [] stored /\ req[w].kind = "signup" -> "created"
                      [] OTHER -> "ok")
  /\ UNCHANGED <<users, ended>>

-----------------------------------------------------------------------------
(* Refresh and Logout.                                                     *)

\* Refresh reads the token; unknown, expired and revoked are the same 401.
RefreshToken(w) ==
  /\ req[w].pc = "token" /\ req[w].kind = "refresh"
  /\ IF GetRefreshTokenByHash(req[w].tok) # {}
     THEN req' = [req EXCEPT ![w].pc = "owner", ![w].user = tokens[req[w].tok].user]
     ELSE Answer(w, "unauthorized")
  /\ UNCHANGED <<users, tokens, bearer, ended>>

\* ... then its account, and signs a new access token.
RefreshOwner(w) ==
  /\ req[w].pc = "owner"
  /\ IF GetUserByID(req[w].user) # {}
     THEN GenerateAccessToken(req[w].user) /\ Answer(w, "ok")
     ELSE Answer(w, "unauthorized") /\ UNCHANGED bearer
  /\ UNCHANGED <<users, tokens, ended>>

\* Logout: a token nobody knows is a success, an expired or revoked one an error.
LogoutToken(w) ==
  /\ req[w].pc = "token" /\ req[w].kind = "logout"
  /\ CASE req[w].tok = 0 -> Answer(w, "ok")
       [] GetRefreshTokenByHash(req[w].tok) # {} -> GoTo(w, "revoke")
       [] OTHER -> Answer(w, "failed")
  /\ UNCHANGED <<users, tokens, bearer, ended>>

\* RevokeToken updates the row unless it is revoked already; no row is an error.
LogoutRevoke(w) ==
  /\ req[w].pc = "revoke"
  /\ IF tokens[req[w].tok].revoked
     THEN Answer(w, "failed") /\ UNCHANGED tokens
     ELSE RevokeToken(req[w].tok) /\ Committed(w, "ok")
  /\ UNCHANGED <<users, bearer, ended>>

-----------------------------------------------------------------------------
(* The profile.                                                            *)

\* GetMe reads the account and shows it.
GetMe(w) ==
  /\ req[w].pc = "profile" /\ req[w].kind = "get"
  /\ Answer(w, IF GetUserByID(req[w].user) # {} THEN "ok" ELSE "notfound")
  /\ UNCHANGED <<users, tokens, bearer, ended>>

\* Mutant of UpdateRead: an absent name is written like a given one.
UpdateRead_NoNilCheck(w) ==
  /\ req[w].pc = "profile" /\ req[w].kind = "update"
  /\ IF GetUserByID(req[w].user) = {}
     THEN Answer(w, "notfound")
     ELSE LET row == [users[req[w].user] EXCEPT !.name = req[w].name]
          IN req' = [req EXCEPT ![w].pc = IF req[w].email # None THEN "email" ELSE "write",
                                ![w].row = row]
  /\ UNCHANGED <<users, tokens, bearer, ended>>

\* UpdateMe reads the whole row and puts the new name into its copy.
UpdateRead(w) ==
  /\ req[w].pc = "profile" /\ req[w].kind = "update"
  /\ IF GetUserByID(req[w].user) = {}
     THEN Answer(w, "notfound")
     ELSE LET read == users[req[w].user]
              row == [read EXCEPT !.name = IF req[w].name = None THEN @ ELSE req[w].name]
          IN CASE req[w].email # None ->
                    req' = [req EXCEPT ![w].pc = "email", ![w].row = row]
               [] req[w].email = None /\ req[w].name # None ->
                    req' = [req EXCEPT ![w].pc = "write", ![w].row = row]
               [] OTHER -> Answer(w, "ok")
  /\ UNCHANGED <<users, tokens, bearer, ended>>

\* A new address must not be another account's when it is looked up.
UpdateEmail(w) ==
  /\ req[w].pc = "email"
  /\ IF UniqueEmail(req[w].user, req[w].email)
     THEN req' = [req EXCEPT ![w].pc = "write", ![w].row.email = req[w].email]
     ELSE Answer(w, "conflict")
  /\ UNCHANGED <<users, tokens, bearer, ended>>

\* Other updates that hold a copy of account u now hold an old one.
Outdated(u, except) ==
  {v \in Workers \ {except} : req[v].kind = "update" /\ req[v].user = u /\ req[v].row # None}

\* UpdateUser writes address and name from the copy, both of them, to an active account.
UpdateWrite(w) ==
  LET u == req[w].user IN
  /\ req[w].pc = "write"
  /\ CASE GetUserByID(u) = {} -> Answer(w, "notfound") /\ UNCHANGED users
       [] GetUserByID(u) # {} /\ ~UniqueEmail(u, req[w].row.email) ->
            Answer(w, "failed") /\ UNCHANGED users
       [] OTHER ->
            /\ UpdateUser(u, req[w].row)
            /\ \E a \in {"ok", "failed"} :
                 req' = [v \in Workers |->
                           CASE v = w -> Answered(req[v], a)
                             [] v \in Outdated(u, w) -> [req[v] EXCEPT !.stale = TRUE]
                             [] OTHER -> req[v]]
  /\ UNCHANGED <<tokens, bearer, ended>>

\* DeleteUser only clears is_active: the row, its address and its tokens stay.
DeleteMe(w) ==
  /\ req[w].pc = "remove"
  /\ IF GetUserByID(req[w].user) = {}
     THEN Answer(w, "notfound") /\ UNCHANGED users
     ELSE DeleteUser(req[w].user) /\ Committed(w, "ok")
  /\ UNCHANGED <<tokens, bearer, ended>>

-----------------------------------------------------------------------------
(* The client, the clock and the process.                                  *)

\* The client reads the answer; the next request may use the connection.
Reply(w) ==
  LET r == req[w] IN
  /\ r.pc = "answered"
  /\ req' = [req EXCEPT ![w] = IdleRequest]
  /\ ended' = [users  |-> ended.users \cup
                 (IF r.kind = "delete" /\ r.answer = "ok" THEN {r.user} ELSE {}),
               tokens |-> ended.tokens \cup
                 (IF r.kind = "logout" /\ r.answer = "ok" /\ r.tok # 0
                  THEN {r.tok} ELSE {})]
  /\ UNCHANGED <<users, tokens, bearer>>

\* expires_at of a refresh token passes.
RefreshExpires(t) ==
  /\ t \in DOMAIN tokens /\ ~tokens[t].expired
  /\ tokens' = [tokens EXCEPT ![t].expired = TRUE]
  /\ UNCHANGED <<users, bearer, req, ended>>

\* The last access token signed for account u expires.
AccessExpires(u) ==
  /\ u \in bearer
  /\ bearer' = bearer \ {u}
  /\ UNCHANGED <<users, tokens, req, ended>>

\* A crash, or a shutdown whose ShutdownTimeout ran out; the next process starts idle.
Restart ==
  /\ req # [w \in Workers |-> IdleRequest]
  /\ req' = [w \in Workers |-> IdleRequest]
  /\ UNCHANGED <<users, tokens, bearer, ended>>

Init ==
  /\ users = <<>> /\ tokens = <<>> /\ bearer = {}
  /\ req = [w \in Workers |-> IdleRequest]
  /\ ended = [users |-> {}, tokens |-> {}]

Handle(w) ==
  \/ BeginSignup(w) \/ SignupCheck(w) \/ SignupCreate(w)
  \/ BeginLogin(w) \/ LoginFind(w) \/ StartSession(w)
  \/ BeginWithToken(w, "refresh") \/ RefreshToken(w) \/ RefreshOwner(w)
  \/ BeginWithToken(w, "logout") \/ LogoutToken(w) \/ LogoutRevoke(w)
  \/ BeginGet(w) \/ GetMe(w)
  \/ BeginUpdate(w) \/ UpdateRead(w) \/ UpdateEmail(w) \/ UpdateWrite(w)
  \/ BeginDelete(w) \/ DeleteMe(w)
  \/ CallFails(w) \/ Reply(w)

Next ==
  \/ \E w \in Workers : Handle(w)
  \/ \E t \in 1 .. MaxTokens : RefreshExpires(t)
  \/ \E u \in 1 .. MaxUsers : AccessExpires(u)
  \/ Restart

Spec == Init /\ [][Next]_vars

-----------------------------------------------------------------------------
(* Properties.                                                             *)

\* Type invariant: the rows, the access tokens and the requests keep their types.
TypeOK ==
  /\ users \in BoundedSeq(UserRow, MaxUsers)
  /\ tokens \in BoundedSeq(TokenRow, MaxTokens)
  /\ bearer \subseteq DOMAIN users
  /\ req \in [Workers -> Request]
  /\ ended.users \subseteq DOMAIN users /\ ended.tokens \subseteq DOMAIN tokens

\* However signups and changes of address race between their look-up and their write,
\* no two accounts, deleted ones included, have the same address
\* (auth_handler.go:63, user_handler.go:99).
EmailsAreUnique ==
  /\ TypeOK
  /\ \A u, v \in DOMAIN users : users[u].email = users[v].email => u = v

\* What a client was told is over stays over: a request that begins after its account's
\* deletion, its session's logout or its token's expiry is never served, whatever
\* requests were in flight at the time and whatever failed or restarted since
\* (auth_handler.go:251-264, user_repo.go:86).
EndedStaysEnded ==
  \A w \in Workers :
    req[w].pc = "answered" /\ req[w].late /\ req[w].kind # "logout"
      => req[w].answer \notin {"ok", "created"}

\* UpdateMe changes a field it was not asked to change only if another request wrote
\* the row after UpdateMe had read it: the lost update needs a race, never one client
\* (user_handler.go:79-120).
OverwritesNeedARace ==
  [][\A w \in Workers :
       LET r == req[w] IN
       r.pc = "write" /\ users' # users /\ req'[w].pc = "answered" /\ ~r.stale
         => /\ r.name = None => users'[r.user].name = users[r.user].name
            /\ r.email = None => users'[r.user].email = users[r.user].email]_vars
=============================================================================
