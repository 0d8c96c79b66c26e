------------------------------ MODULE Sessions ------------------------------
(***************************************************************************)
(* Signing up and in, refresh tokens, profiles and passwords: AuthService  *)
(* with UserRepo and RefreshTokenRepo.                                     *)
(*                                                                         *)
(* None of it runs in a transaction.  A request is a sequence of           *)
(* statements that commit one by one; other requests come in between, and  *)
(* it may end after any of them (the client hangs up, the server stops).   *)
(* Access tokens are not stored and not modelled.                          *)
(***************************************************************************)
EXTENDS Naturals, FiniteSets

CONSTANTS
    Users, Tokens,
    Emails, Phones, \* Blank is one of each
    Blank,
    Passwords,
    Slots,      \* requests the server executes at the same time
    Traffic,    \* which of them may be in flight together
    LostDeletes,    \* whether a deletion alone may fail
    None

\* "apart": a client sends one refresh or logout of a session at a time, and
\* one change of a user.  "any": the server enforces nothing.
ASSUME SessionsAssumption ==
    /\ Blank \in Emails /\ Blank \in Phones
    /\ Traffic \in {"apart", "any"} /\ LostDeletes \in BOOLEAN
    /\ None \notin Users \cup Tokens \cup Emails \cup Phones \cup Passwords

VARIABLES
    user,       \* users, by id
    account,    \* accounts and user_accounts of the cash account of a user
    token,      \* refresh_tokens, by token
    spent,      \* tokens ever inserted
    chain,      \* history: the first token of the session a token belongs to
    req,        \* the request each slot serves
    step        \* its next statement

vars == <<user, account, token, spent, chain, req, step>>

-----------------------------------------------------------------------------
(* Rows *)

NoUser == [there |-> FALSE, email |-> None, phone |-> None, password |-> None]
Profile == [there : {TRUE}, email : Emails, phone : Phones, password : Passwords]
UserRow == Profile \cup {NoUser}

\* "bare": without an owner
AccountRow == {"none", "bare", "owned"}

NoToken == [there |-> FALSE, user |-> None]
TokenRow == [there : {TRUE}, user : Users] \cup {NoToken}

\* The unique indexes of users, which blank values are subject to as well.
\* User names are unique like e-mail addresses, and left out.
Taken(u, email, phone) ==
    \E v \in Users \ {u} :
        user[v].there /\ (user[v].email = email \/ user[v].phone = phone)

-----------------------------------------------------------------------------
(* Requests *)

\* token: the one sent, then the one written; current: the password sent; id:
\* what ChangePassword found of the user.
Request(kind, u, k, data) ==
    [kind |-> kind, user |-> u, token |-> k, session |-> None, data |-> data,
     current |-> None, id |-> None]
NoRequest == Request("none", None, None, NoUser)

Goto(r, s) == step' = [step EXCEPT ![r] = s]

Answer(r) ==
    /\ step' = [step EXCEPT ![r] = "idle"]
    /\ req' = [req EXCEPT ![r] = NoRequest]

Start(r, q, s) ==
    /\ step[r] = "idle"
    /\ req' = [req EXCEPT ![r] = q]
    /\ Goto(r, s)
    /\ UNCHANGED <<user, account, token, spent, chain>>

InFlight(kinds) == {s \in Slots : req[s].kind \in kinds}

FreeChain(k) ==
    Traffic = "apart" =>
        \A s \in InFlight({"refresh", "logout"}) : req[s].session # chain[k]

FreeUser(u) ==
    Traffic = "apart" => \A s \in InFlight({"change", "profile"}) : req[s].user # u

-----------------------------------------------------------------------------
(* Signing up *)

\* Signup: one of e-mail and phone is needed; the id is new.
Signup(r) ==
    \E u \in Users, d \in Profile :
        /\ ~user[u].there
        /\ \A s \in InFlight({"signup"}) : req[s].user # u
        /\ d.email # Blank \/ d.phone # Blank
        /\ Start(r, Request("signup", u, None, d), "user")

InsertUser(r) ==
    LET u == req[r].user
        d == req[r].data
    IN
    /\ step[r] = "user"
    /\ IF Taken(u, d.email, d.phone)
       THEN Answer(r) /\ UNCHANGED user
       ELSE /\ user' = [user EXCEPT ![u] = d]
            /\ Goto(r, "account")
            /\ req' = [req EXCEPT ![r].data = NoUser]
    /\ UNCHANGED <<account, token, spent, chain>>

\* Fault: the token is inserted once there is an account, before it is owned.
InsertAccountToken(r) ==
    /\ step[r] = "account"
    /\ account' = [account EXCEPT ![req[r].user] = "bare"]
    /\ Goto(r, "token")
    /\ UNCHANGED <<user, token, spent, chain, req>>

InsertAccount(r) ==
    /\ step[r] = "account"
    /\ account' = [account EXCEPT ![req[r].user] = "bare"]
    /\ Goto(r, "owner")
    /\ UNCHANGED <<user, token, spent, chain, req>>

InsertOwner(r) ==
    /\ step[r] = "owner"
    /\ account' = [account EXCEPT ![req[r].user] = "owned"]
    /\ Goto(r, "token")
    /\ UNCHANGED <<user, token, spent, chain, req>>

\* The last statement of a sign-up, a sign-in and a refresh.
InsertToken(r) ==
    /\ step[r] = "token"
    /\ \E k \in Tokens \ spent :
           /\ token' = [token EXCEPT ![k] =
                  [there |-> TRUE, user |-> req[r].user]]
           /\ chain' = [chain EXCEPT ![k] =
                  IF req[r].session = None THEN k ELSE req[r].session]
           /\ spent' = spent \cup {k}
    /\ Answer(r)
    /\ UNCHANGED <<user, account>>

-----------------------------------------------------------------------------
(* Signing in *)

\* ResolveUserByLogin: by e-mail or phone (or name), as the login looks.
Resolved(login) ==
    {u \in Users : user[u].there /\ login \in {user[u].email, user[u].phone}}

Logins == (Emails \cup Phones) \ {Blank}

Signin(r) ==
    \E login \in Logins, w \in Passwords :
        /\ \E u \in Resolved(login) :
               /\ user[u].password = w
               /\ Start(r, Request("signin", u, None, NoUser), "token")

-----------------------------------------------------------------------------
(* Refreshing and logging out *)

Session(kind, k) == [Request(kind, None, k, NoUser) EXCEPT !.session = chain[k]]

Refresh(r) ==
    \E k \in spent : FreeChain(k) /\ Start(r, Session("refresh", k), "get")

Logout(r) ==
    \E k \in spent : FreeChain(k) /\ Start(r, Session("logout", k), "drop")

\* Fault: the user is not taken from the row.
GetTokenAlone(r) ==
    /\ step[r] = "get"
    /\ IF ~token[req[r].token].there THEN Answer(r)
       ELSE Goto(r, "rotate") /\ UNCHANGED req
    /\ UNCHANGED <<user, account, token, spent, chain>>

\* Without a clock: a token may be found to have expired, after seven days.
GetToken(r) ==
    LET t == token[req[r].token] IN
    /\ step[r] = "get"
    /\ IF ~t.there THEN Answer(r)
       ELSE /\ req' = [req EXCEPT ![r].user = t.user]
            /\ \E s \in {"drop", "find"} : Goto(r, s)
    /\ UNCHANGED <<user, account, token, spent, chain>>

FindUser(r) ==
    /\ step[r] = "find"
    /\ IF user[req[r].user].there THEN Goto(r, "rotate") /\ UNCHANGED req ELSE Answer(r)
    /\ UNCHANGED <<user, account, token, spent, chain>>

Deleted(k) == [token EXCEPT ![k] = NoToken]

\* Fault: the old token is left for later.
RotateLater(r) ==
    /\ step[r] = "rotate"
    /\ Goto(r, "token")
    /\ UNCHANGED <<user, account, token, spent, chain, req>>

\* An error of the deletion is ignored.
Rotate(r) ==
    /\ step[r] = "rotate"
    /\ token' = Deleted(req[r].token) \/ (LostDeletes /\ UNCHANGED token)
    /\ Goto(r, "token")
    /\ UNCHANGED <<user, account, spent, chain, req>>

\* Logout, and the end of an expired token.
Drop(r) ==
    /\ step[r] = "drop"
    /\ token' = Deleted(req[r].token)
    /\ Answer(r)
    /\ UNCHANGED <<user, account, spent, chain>>

-----------------------------------------------------------------------------
(* Profiles and passwords, of users whose requests carry an access token *)

\* One statement.  A value nobody sends stays.
UpdateMyProfile(r) ==
    \E u \in Users, email \in Emails, phone \in Phones :
        /\ step[r] = "idle" /\ user[u].there /\ FreeUser(u)
        /\ ~Taken(u, email, phone)
        /\ user' = [user EXCEPT ![u].email = email, ![u].phone = phone]
        /\ UNCHANGED <<account, token, spent, chain, req, step>>

ChangePassword(r) ==
    \E u \in Users, w, new \in Passwords :
        /\ user[u].there /\ FreeUser(u)
        /\ Start(r, [Request("change", u, None, [NoUser EXCEPT !.password = new])
                         EXCEPT !.current = w], "self")

\* The e-mail address is not null, whatever the user gave.
FindSelf(r) ==
    /\ step[r] = "self"
    /\ req' = [req EXCEPT ![r].id = user[req[r].user].email]
    /\ Goto(r, "compare")
    /\ UNCHANGED <<user, account, token, spent, chain>>

\* Fault: the result of the comparison is ignored.
CompareNothing(r) ==
    /\ step[r] = "compare"
    /\ Goto(r, "update") /\ UNCHANGED req
    /\ UNCHANGED <<user, account, token, spent, chain>>

Compare(r) ==
    /\ step[r] = "compare"
    /\ IF \E u \in Users : /\ user[u].there /\ user[u].email = req[r].id
                           /\ user[u].password = req[r].current
       THEN Goto(r, "update") /\ UNCHANGED req
       ELSE Answer(r)
    /\ UNCHANGED <<user, account, token, spent, chain>>

UpdatePassword(r) ==
    /\ step[r] = "update"
    /\ user' = [user EXCEPT ![req[r].user].password = req[r].data.password]
    /\ Answer(r)
    /\ UNCHANGED <<account, token, spent, chain>>

\* The request ends where it is.
Interrupt(r) ==
    /\ step[r] # "idle"
    /\ Answer(r)
    /\ UNCHANGED <<user, account, token, spent, chain>>

-----------------------------------------------------------------------------
Init ==
    /\ user = [u \in Users |-> NoUser]
    /\ account = [u \in Users |-> "none"]
    /\ token = [k \in Tokens |-> NoToken]
    /\ spent = {}
    /\ chain = [k \in Tokens |-> None]
    /\ req = [r \in Slots |-> NoRequest]
    /\ step = [r \in Slots |-> "idle"]

Next ==
    \E r \in Slots :
           \/ Signup(r) \/ InsertUser(r) \/ InsertAccount(r) \/ InsertOwner(r)
           \/ Signin(r) \/ InsertToken(r)
           \/ Refresh(r) \/ GetToken(r) \/ FindUser(r) \/ Rotate(r)
           \/ Logout(r) \/ Drop(r)
           \/ UpdateMyProfile(r)
           \/ ChangePassword(r) \/ FindSelf(r) \/ Compare(r) \/ UpdatePassword(r)
           \/ Interrupt(r)

Spec == Init /\ [][Next]_vars

-----------------------------------------------------------------------------
(* Properties *)

\* TypeOK: rows have their columns, and a token that is there has been handed
\* out and belongs to a session of an existing user (fk_refresh_tokens_user_id).
TypeOK ==
    /\ user \in [Users -> UserRow]
    /\ account \in [Users -> AccountRow]
    /\ token \in [Tokens -> TokenRow]
    /\ spent \subseteq Tokens
    /\ \A k \in Tokens : /\ chain[k] # None <=> k \in spent
                         /\ token[k].there => k \in spent /\ user[token[k].user].there

\* SessionsAreChains: while a client sends one refresh or logout of a session
\* at a time, and the deletion of the old token does not fail by itself, a
\* session has one good refresh token at most, and none after a logout
\* (AuthService.Refresh, "Rotation", and Logout), also when requests end between
\* the deletion of the old token and the insertion of the new one.
Live(s) == {k \in Tokens : token[k].there /\ chain[k] = s}

\* The requests that have deleted a token and not inserted the next.
Between(s) == {r \in InFlight({"refresh"}) : step[r] = "token" /\ req[r].session = s}

Current(s) ==
    IF Live(s) # {} THEN CHOOSE k \in Live(s) : TRUE
    ELSE IF Between(s) # {} THEN req[CHOOSE r \in Between(s) : TRUE].token
    ELSE None

Chain == INSTANCE SessionChain WITH current <- [s \in Tokens |-> Current(s)]

SessionsAreChains == Chain!Spec

\* OneGoodToken: a refresh replaces the token it was sent, so that of a session
\* one token at most is good (AuthService.Refresh, "Rotation").  Not so where two
\* refreshes with the same token overlap, which both find it, nor where only the
\* deletion fails, whose error is dropped.
OneGoodToken == \A s \in Tokens : Cardinality(Live(s)) <= 1

\* SignupsAnsweredWhole: who gets a token for signing up has an account and
\* owns it, though the rows are inserted one by one (CreateUserWithRefreshToken).
SignupsAnsweredWhole ==
    [][\A r \in Slots :
           req[r].kind = "signup" /\ step[r] = "token" /\ spent' # spent /\ step'[r] = "idle"
               => account[req[r].user] = "owned"]_vars

\* PasswordsChangedByHolders: a password is replaced on behalf of somebody who
\* sent the one it replaces, though it is read by e-mail address and written
\* by id (AuthService.ChangePassword).
PasswordsChangedByHolders ==
    [][\A u \in Users :
           user[u].there /\ user'[u].password # user[u].password =>
               \E r \in Slots : /\ step[r] = "update" /\ step'[r] = "idle"
                                /\ req[r].user = u
                                /\ req[r].current = user[u].password]_vars

\* RefusedForAReason: a sign-up is refused because somebody has its e-mail
\* address or phone number; that both leave the same one out is no reason
\* ("email or phone is required", AuthService.Signup).  The code does not keep
\* this: the blank value is stored, and unique.
RefusedForAReason ==
    \A r \in Slots :
        LET d == req[r].data IN
        step[r] = "user" /\ Taken(req[r].user, d.email, d.phone) =>
            \E v \in Users : \/ user[v].email = d.email /\ d.email # Blank
                             \/ user[v].phone = d.phone /\ d.phone # Blank
=============================================================================
