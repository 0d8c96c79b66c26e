---------------------------- MODULE SessionsProofs ----------------------------
(***************************************************************************)
(* For any users, tokens, addresses and slots: rows stay well formed, and  *)
(* who gets a token for signing up owns an account; while a client sends   *)
(* one request of a session and one change of a user at a time, passwords  *)
(* are changed by who knows them, and sessions are chains of tokens, which *)
(* is what SessionChain promises.                                          *)
(***************************************************************************)
EXTENDS Sessions, TLAPS

Kinds == {"none", "signup", "signin", "refresh", "logout", "change"}
Steps == {"idle", "user", "account", "owner", "token", "get", "find", "rotate",
          "drop", "self", "compare", "update"}
Data == [there : BOOLEAN, email : Emails \cup {None}, phone : Phones \cup {None},
         password : Passwords \cup {None}]
Reqs == [kind : Kinds, user : Users \cup {None}, token : Tokens \cup {None},
         session : Tokens \cup {None}, data : Data, current : Passwords \cup {None},
         id : Emails \cup {None}]

\* A request q whose next statement is s, given the users, the tokens handed out
\* and their sessions: what its statement finds it with.
Fits(q, s, usr, spt, chn) ==
    /\ s = "idle" => q.kind = "none"
    /\ s = "user" => q.user \in Users /\ q.data \in Profile
    /\ s \in {"user", "account", "owner"} => q.kind = "signup"
    /\ s \in {"account", "owner", "token", "find", "rotate", "self", "compare", "update"} =>
           q.user \in Users /\ usr[q.user].there
    /\ s = "token" => q.kind \in {"signup", "signin", "refresh"}
    /\ s \in {"get", "find", "rotate"} => q.kind = "refresh"
    /\ s = "drop" => q.kind \in {"refresh", "logout"}
    /\ s \in {"self", "compare", "update"} => q.kind = "change" /\ q.data.password \in Passwords
    /\ IF q.kind \in {"refresh", "logout"}
       THEN q.token \in spt /\ q.session = chn[q.token]
       ELSE q.session = None

Requests ==
    /\ req \in [Slots -> Reqs] /\ step \in [Slots -> Steps]
    /\ \A r \in Slots : Fits(req[r], step[r], user, spent, chain)

\* A session is named by a token of it.
Chained == chain \in [Tokens -> Tokens \cup {None}] /\ \A k \in spent : chain[k] \in spent

Typed == TypeOK /\ Chained /\ Requests

-----------------------------------------------------------------------------
(* Rows and requests *)

LEMMA Empty ==
    /\ NoUser \in Data /\ NoUser \in UserRow /\ ~NoUser.there
    /\ NoToken \in TokenRow /\ ~NoToken.there
    /\ NoRequest \in Reqs /\ NoRequest.kind = "none" /\ NoRequest.session = None
  BY DEF NoUser, Data, UserRow, NoToken, TokenRow, NoRequest, Request, Reqs, Kinds

LEMMA ThereIsProfile ==
    ASSUME NEW row \in UserRow, row.there
    PROVE  row \in Profile
  BY DEF UserRow, NoUser

LEMMA ThereIsToken ==
    ASSUME NEW row \in TokenRow, row.there
    PROVE  row.user \in Users
<1>1. NoToken.there = FALSE
  BY DEF NoToken
<1>2. row \in [there : {TRUE}, user : Users]
  BY <1>1 DEF TokenRow
<1> QED
  BY <1>2

LEMMA OfToken ==
    ASSUME TypeOK, NEW k \in Tokens
    PROVE  /\ token[k] \in TokenRow
           /\ (chain[k] # None <=> k \in spent)
           /\ token[k].there =>
                  k \in spent /\ token[k].user \in Users /\ user[token[k].user].there
<1>1. token[k] \in TokenRow
  BY DEF TypeOK
<1>2. \A l \in Tokens : /\ (chain[l] # None <=> l \in spent)
                        /\ token[l].there => l \in spent /\ user[token[l].user].there
  BY DEF TypeOK
<1>3. (chain[k] # None <=> k \in spent)
  BY <1>2, Zenon
<1>4. token[k].there => k \in spent /\ user[token[k].user].there
  BY <1>2, Zenon
<1> QED
  BY <1>1, <1>3, <1>4, ThereIsToken

LEMMA ProfileIsRow == Profile \subseteq UserRow /\ \A d \in Profile : d.there /\ d \in Data
  BY DEF Profile, UserRow, Data

\* What a request asks for as it begins.
LEMMA NewRequest ==
    ASSUME NEW kind \in Kinds, NEW u \in Users \cup {None}, NEW k \in Tokens \cup {None},
           NEW d \in Data
    PROVE  LET q == Request(kind, u, k, d) IN
           /\ q \in Reqs
           /\ q.kind = kind /\ q.user = u /\ q.token = k /\ q.session = None /\ q.data = d
  BY DEF Request, Reqs

LEMMA KindOf ==
    /\ \A kind, u, k, d, w : /\ Request(kind, u, k, d).kind = kind
                            /\ [Request(kind, u, k, d) EXCEPT !.current = w].kind = kind
    /\ \A kind, k : Session(kind, k).kind = kind
  BY DEF Request, Session

\* Users, tokens and their sessions only grow.
Grows ==
    /\ \A u \in Users : user[u].there => user'[u].there
    /\ spent \subseteq spent'
    /\ \A k \in spent : chain'[k] = chain[k]

LEMMA FitsStays ==
    ASSUME Grows, NEW q \in Reqs, NEW s \in Steps, Fits(q, s, user, spent, chain)
    PROVE  Fits(q, s, user', spent', chain')
  BY DEF Grows, Fits, Reqs

\* What a step of one request leaves to show.
LEMMA OneRequest ==
    ASSUME Typed, Grows, TypeOK', Chained', NEW r \in Slots, NEW q \in Reqs, NEW s \in Steps,
           req' = [req EXCEPT ![r] = q], step' = [step EXCEPT ![r] = s],
           Fits(q, s, user', spent', chain')
    PROVE  Typed'
<1>1. req' \in [Slots -> Reqs] /\ step' \in [Slots -> Steps]
  BY DEF Typed, Requests
<1>2. ASSUME NEW x \in Slots
      PROVE  Fits(req'[x], step'[x], user', spent', chain')
  <2>1. CASE x = r
    BY <2>1 DEF Typed, Requests
  <2>2. CASE x # r
    <3>1. req'[x] = req[x] /\ step'[x] = step[x]
      BY <2>2 DEF Typed, Requests
    <3>2. /\ req[x] \in Reqs /\ step[x] \in Steps
          /\ Fits(req[x], step[x], user, spent, chain)
      BY DEF Typed, Requests
    <3> HIDE DEF Grows, Fits
    <3> QED
      BY <3>1, <3>2, FitsStays
  <2> QED
    BY <2>1, <2>2
<1> QED
  BY <1>1, <1>2 DEF Typed, Requests

LEMMA OfSlot ==
    ASSUME Typed, NEW r \in Slots
    PROVE  req[r] \in Reqs /\ Fits(req[r], step[r], user, spent, chain)
  BY DEF Typed, Requests

\* Steps that change no rows.
LEMMA RowsKept ==
    ASSUME Typed, UNCHANGED <<user, account, token, spent, chain>>
    PROVE  Grows /\ TypeOK' /\ Chained'
  BY DEF Typed, Grows, TypeOK, Chained

LEMMA MoveKeeps ==
    ASSUME Typed, UNCHANGED <<user, account, token, spent, chain>>,
           NEW r \in Slots, NEW q \in Reqs, NEW s \in Steps,
           req' = [req EXCEPT ![r] = q], step' = [step EXCEPT ![r] = s],
           Fits(q, s, user, spent, chain)
    PROVE  Typed'
<1>1. Grows /\ TypeOK' /\ Chained'
  BY RowsKept
<1>2. Fits(q, s, user', spent', chain')
  OBVIOUS
<1> HIDE DEF Typed, Grows, TypeOK, Chained, Fits
<1> QED
  BY <1>1, <1>2, OneRequest

LEMMA AnswerKeeps ==
    ASSUME Typed, Grows, TypeOK', Chained', NEW r \in Slots, Answer(r)
    PROVE  Typed'
<1>1. Fits(NoRequest, "idle", user', spent', chain')
  BY Empty DEF Fits
<1>2. req' = [req EXCEPT ![r] = NoRequest] /\ step' = [step EXCEPT ![r] = "idle"]
  BY DEF Answer
<1> HIDE DEF Typed, Grows, TypeOK, Chained, Fits, NoRequest
<1> QED
  BY <1>1, <1>2, Empty, OneRequest DEF Steps

\* A request that goes on as it is.
LEMMA GotoFrame ==
    ASSUME Typed, NEW r \in Slots, NEW s, Goto(r, s), UNCHANGED req
    PROVE  req' = [req EXCEPT ![r] = req[r]] /\ step' = [step EXCEPT ![r] = s]
  BY DEF Typed, Requests, Goto
-----------------------------------------------------------------------------
(* Rows, by statement *)

LEMMA InitTyped ==
    ASSUME Init
    PROVE  Typed
<1>1. TypeOK
  BY Empty, SessionsAssumption DEF Init, TypeOK, AccountRow, NoToken
<1>2. Chained
  BY DEF Init, Chained
<1>3. Requests
  BY Empty DEF Init, Requests, Steps, Fits
<1> QED
  BY <1>1, <1>2, <1>3 DEF Typed

LEMMA SignupKeeps ==
    ASSUME Typed, NEW r \in Slots, Signup(r)
    PROVE  Typed'
<1>1. PICK u \in Users, d \in Profile : Start(r, Request("signup", u, None, d), "user")
  BY DEF Signup
<1> DEFINE q == Request("signup", u, None, d)
<1>2. q \in Reqs /\ q.kind = "signup" /\ q.user = u /\ q.data = d /\ q.session = None
  BY ProfileIsRow, NewRequest DEF Kinds
<1>3. Fits(q, "user", user, spent, chain)
  BY <1>2 DEF Fits
<1> HIDE DEF q, Typed, Fits
<1> QED
  BY <1>1, <1>2, <1>3, MoveKeeps DEF Start, Goto, Steps, q

LEMMA SigninKeeps ==
    ASSUME Typed, NEW r \in Slots, Signin(r)
    PROVE  Typed'
<1>1. PICK u \in Users : user[u].there /\ Start(r, Request("signin", u, None, NoUser), "token")
  BY DEF Signin, Resolved
<1> DEFINE q == Request("signin", u, None, NoUser)
<1>2. q \in Reqs /\ q.kind = "signin" /\ q.user = u /\ q.session = None
  BY Empty, NewRequest DEF Kinds
<1>3. Fits(q, "token", user, spent, chain)
  BY <1>1, <1>2 DEF Fits
<1> HIDE DEF q, Typed, Fits
<1> QED
  BY <1>1, <1>2, <1>3, MoveKeeps DEF Start, Goto, Steps, q

LEMMA SessionKeeps ==
    ASSUME Typed, NEW r \in Slots, Refresh(r) \/ Logout(r)
    PROVE  Typed'
<1>1. PICK k \in spent, kind \in {"refresh", "logout"}, s \in {"get", "drop"} :
        /\ Start(r, Session(kind, k), s)
        /\ s = "get" => kind = "refresh"
  BY DEF Refresh, Logout
<1> DEFINE q == Session(kind, k)
<1>2. k \in Tokens /\ chain[k] \in Tokens
  BY SessionsAssumption DEF Typed, TypeOK, Chained
<1>3. q \in Reqs /\ q.kind = kind /\ q.token = k /\ q.session = chain[k]
  <2>1. Request(kind, None, k, NoUser) \in Reqs
    BY <1>2, Empty, NewRequest DEF Kinds
  <2>2. Request(kind, None, k, NoUser).kind = kind /\ Request(kind, None, k, NoUser).token = k
    BY DEF Request
  <2> HIDE DEF Request
  <2> QED
    BY <1>2, <2>1, <2>2 DEF Session, Reqs
<1>4. Fits(q, s, user, spent, chain)
  BY <1>1, <1>3 DEF Fits
<1> HIDE DEF q, Typed, Fits
<1> QED
  BY <1>1, <1>3, <1>4, MoveKeeps DEF Start, Goto, Steps, q

LEMMA ChangeKeeps ==
    ASSUME Typed, NEW r \in Slots, ChangePassword(r)
    PROVE  Typed'
<1>1. PICK u \in Users, w \in Passwords, new \in Passwords :
        /\ user[u].there
        /\ Start(r, [Request("change", u, None, [NoUser EXCEPT !.password = new])
                         EXCEPT !.current = w], "self")
  BY DEF ChangePassword
<1> DEFINE d == [NoUser EXCEPT !.password = new]
           p == Request("change", u, None, d)
           q == [p EXCEPT !.current = w]
<1>2. d \in Data /\ d.password = new
  BY DEF NoUser, Data
<1>3. p \in Reqs /\ p.kind = "change" /\ p.user = u /\ p.data = d /\ p.session = None
  BY <1>2, NewRequest DEF Kinds
<1> HIDE DEF d, p
<1>4. q \in Reqs /\ q.kind = "change" /\ q.user = u /\ q.data = d /\ q.session = None
  BY <1>3 DEF Reqs
<1>5. Fits(q, "self", user, spent, chain)
  BY <1>1, <1>2, <1>4 DEF Fits
<1> HIDE DEF q, Typed, Fits
<1> QED
  BY <1>1, <1>4, <1>5, MoveKeeps DEF Start, Goto, Steps, q, p, d

LEMMA InsertUserKeeps ==
    ASSUME Typed, NEW r \in Slots, InsertUser(r)
    PROVE  Typed'
<1>1. step[r] = "user" /\ UNCHANGED <<account, token, spent, chain>>
  BY DEF InsertUser
<1>2. req[r] \in Reqs /\ Fits(req[r], "user", user, spent, chain)
  BY <1>1, OfSlot
<1> DEFINE u == req[r].user
           d == req[r].data
           q == [req[r] EXCEPT !.data = NoUser]
<1>3. u \in Users /\ d \in Profile /\ req[r].kind = "signup" /\ req[r].session = None
  BY <1>2 DEF Fits
<1>4. CASE Answer(r) /\ UNCHANGED user
  <2>1. Grows /\ TypeOK' /\ Chained'
    BY <1>1, <1>4, RowsKept
  <2> HIDE DEF Typed, Grows, TypeOK, Chained
  <2> QED
    BY <1>4, <2>1, AnswerKeeps
<1>5. CASE /\ user' = [user EXCEPT ![u] = d] /\ Goto(r, "account")
           /\ req' = [req EXCEPT ![r].data = NoUser]
  <2>1. d.there /\ d \in UserRow
    BY <1>3, ProfileIsRow
  <2> HIDE DEF d, u
  <2>2. \A v \in Users : user[v].there => user'[v].there
    BY <1>5, <2>1 DEF Typed, TypeOK
  <2>3. user'[u].there
    BY <1>3, <1>5, <2>1 DEF Typed, TypeOK
  <2>4. Grows /\ Chained'
    BY <1>1, <2>2 DEF Grows, Typed, Chained, TypeOK
  <2>5. TypeOK'
    <3>1. user' \in [Users -> UserRow]
      BY <1>5, <2>1 DEF Typed, TypeOK
    <3>2. ASSUME NEW k \in Tokens, token[k].there
          PROVE  user'[token[k].user].there
      <4>1. token[k].user \in Users /\ user[token[k].user].there
        BY <3>2, OfToken DEF Typed
      <4> QED
        BY <2>2, <4>1
    <3> QED
      BY <1>1, <3>1, <3>2 DEF Typed, TypeOK
  <2>6. q \in Reqs /\ q.kind = "signup" /\ q.user = u /\ q.session = None
    BY <1>2, <1>3, Empty DEF Reqs, u
  <2>7. Fits(q, "account", user', spent', chain')
    BY <1>3, <2>3, <2>6 DEF Fits
  <2>8. req' = [req EXCEPT ![r] = q] /\ step' = [step EXCEPT ![r] = "account"]
    BY <1>5 DEF Goto
  <2> HIDE DEF q, Typed, Grows, TypeOK, Chained, Fits
  <2> QED
    BY <2>4, <2>5, <2>6, <2>7, <2>8, OneRequest DEF Steps
<1> QED
  BY <1>4, <1>5 DEF InsertUser

LEMMA AccountKeeps ==
    ASSUME Typed, NEW r \in Slots, InsertAccount(r) \/ InsertOwner(r)
    PROVE  Typed'
<1>1. PICK a \in {"bare", "owned"}, s \in {"owner", "token"} :
        account' = [account EXCEPT ![req[r].user] = a] /\ Goto(r, s)
  BY DEF InsertAccount, InsertOwner
<1>2. step[r] \in {"account", "owner"} /\ UNCHANGED <<user, token, spent, chain, req>>
  BY DEF InsertAccount, InsertOwner
<1>3. req[r] \in Reqs /\ Fits(req[r], step[r], user, spent, chain)
  BY OfSlot
<1>4. TypeOK'
  BY <1>1, <1>2 DEF Typed, TypeOK, AccountRow
<1>5. Grows /\ Chained'
  BY <1>2 DEF Grows, Typed, Chained
<1>6. Fits(req[r], s, user', spent', chain')
  BY <1>1, <1>2, <1>3 DEF Fits
<1>7. req' = [req EXCEPT ![r] = req[r]] /\ step' = [step EXCEPT ![r] = s]
  BY <1>1, <1>2, GotoFrame
<1> HIDE DEF Typed, Grows, TypeOK, Chained, Fits
<1> QED
  BY <1>3, <1>4, <1>5, <1>6, <1>7, OneRequest DEF Steps

LEMMA InsertTokenKeeps ==
    ASSUME Typed, NEW r \in Slots, InsertToken(r)
    PROVE  Typed'
<1>1. PICK k \in Tokens \ spent :
        /\ token' = [token EXCEPT ![k] = [there |-> TRUE, user |-> req[r].user]]
        /\ chain' = [chain EXCEPT ![k] =
                        IF req[r].session = None THEN k ELSE req[r].session]
        /\ spent' = spent \cup {k}
  BY DEF InsertToken
<1>2. step[r] = "token" /\ Answer(r) /\ UNCHANGED <<user, account>>
  BY DEF InsertToken
<1>3. Fits(req[r], "token", user, spent, chain)
  BY <1>2, OfSlot
<1> DEFINE s == IF req[r].session = None THEN k ELSE req[r].session
<1>4. s \in spent \cup {k} /\ s \in Tokens /\ s # None
  BY <1>3, SessionsAssumption DEF Fits, Typed, TypeOK, Chained
<1>5. chain' \in [Tokens -> Tokens \cup {None}] /\ chain'[k] = s
  BY <1>1, <1>4 DEF Typed, Chained
<1>6. \A l \in Tokens \ {k} : chain'[l] = chain[l] /\ token'[l] = token[l]
  BY <1>1 DEF Typed, Chained, TypeOK
<1> HIDE DEF s
<1>7. spent \subseteq Tokens
  BY DEF Typed, TypeOK
<1>8. Grows /\ Chained'
  BY <1>1, <1>2, <1>4, <1>5, <1>6, <1>7 DEF Grows, Typed, Chained
<1>9. TypeOK'
  <2>1. req[r].user \in Users /\ user[req[r].user].there
    BY <1>3 DEF Fits
  <2>2. token' \in [Tokens -> TokenRow]
    BY <1>1, <2>1 DEF Typed, TypeOK, TokenRow
  <2>3. ASSUME NEW l \in Tokens
        PROVE  /\ (chain'[l] # None <=> l \in spent')
               /\ token'[l].there => l \in spent' /\ user'[token'[l].user].there
    <3>1. CASE l = k
      <4>1. token'[l].user = req[r].user
        BY <1>1, <3>1 DEF Typed, TypeOK
      <4> QED
        BY <1>1, <1>2, <1>4, <1>5, <2>1, <3>1, <4>1
    <3>2. CASE l # k
      <4>1. chain'[l] = chain[l] /\ token'[l] = token[l] /\ (l \in spent') = (l \in spent)
        BY <1>1, <1>6, <3>2
      <4>2. /\ (chain[l] # None <=> l \in spent)
            /\ token[l].there => l \in spent /\ user[token[l].user].there
        BY OfToken DEF Typed
      <4> QED
        BY <1>2, <4>1, <4>2
    <3> QED
      BY <3>1, <3>2
  <2>4. user' \in [Users -> UserRow] /\ account' \in [Users -> AccountRow] /\ spent' \subseteq Tokens
    BY <1>1, <1>2, <1>7 DEF Typed, TypeOK
  <2> QED
    BY <2>2, <2>3, <2>4 DEF TypeOK
<1> HIDE DEF Typed, Grows, TypeOK, Chained
<1> QED
  BY <1>2, <1>8, <1>9, AnswerKeeps
LEMMA DeletedTyped ==
    ASSUME Typed, NEW k, token' = Deleted(k), UNCHANGED <<user, account, spent, chain>>
    PROVE  Grows /\ TypeOK' /\ Chained'
<1>1. \A l \in Tokens : token'[l] \in {token[l], NoToken}
  BY DEF Deleted, Typed, TypeOK
<1>2. token' \in [Tokens -> TokenRow]
  BY Empty DEF Deleted, Typed, TypeOK
<1>3. ASSUME NEW l \in Tokens
      PROVE  /\ (chain'[l] # None <=> l \in spent')
             /\ token'[l].there => l \in spent' /\ user'[token'[l].user].there
  BY <1>1, Empty, OfToken DEF Typed
<1>4. Grows /\ Chained'
  BY DEF Grows, Typed, Chained
<1>5. user' \in [Users -> UserRow] /\ account' \in [Users -> AccountRow] /\ spent' \subseteq Tokens
  BY DEF Typed, TypeOK
<1> QED
  BY <1>2, <1>3, <1>4, <1>5 DEF TypeOK

LEMMA DropKeeps ==
    ASSUME Typed, NEW r \in Slots, Drop(r)
    PROVE  Typed'
<1>1. Grows /\ TypeOK' /\ Chained' /\ Answer(r)
  BY DeletedTyped DEF Drop
<1> HIDE DEF Typed, Grows, TypeOK, Chained
<1> QED
  BY <1>1, AnswerKeeps

LEMMA RotateKeeps ==
    ASSUME Typed, NEW r \in Slots, Rotate(r)
    PROVE  Typed'
<1>1. step[r] = "rotate" /\ UNCHANGED <<user, account, spent, chain, req>> /\ Goto(r, "token")
  BY DEF Rotate
<1>2. Grows /\ TypeOK' /\ Chained'
  <2>1. CASE UNCHANGED token
    BY <1>1, <2>1, RowsKept
  <2>2. CASE token' = Deleted(req[r].token)
    BY <1>1, <2>2, DeletedTyped
  <2> QED
    BY <2>1, <2>2 DEF Rotate
<1>3. req[r] \in Reqs /\ Fits(req[r], "rotate", user, spent, chain)
  BY <1>1, OfSlot
<1>4. Fits(req[r], "token", user', spent', chain')
  BY <1>1, <1>3 DEF Fits
<1>5. req' = [req EXCEPT ![r] = req[r]] /\ step' = [step EXCEPT ![r] = "token"]
  BY <1>1, GotoFrame
<1> HIDE DEF Typed, Grows, TypeOK, Chained, Fits
<1> QED
  BY <1>2, <1>3, <1>4, <1>5, OneRequest DEF Steps

\* Statements that only read: the token, the user, the password.
LEMMA ReadKeeps ==
    ASSUME Typed, NEW r \in Slots,
           GetToken(r) \/ FindUser(r) \/ FindSelf(r) \/ Compare(r)
    PROVE  Typed'
<1>1. UNCHANGED <<user, account, token, spent, chain>>
  BY DEF GetToken, FindUser, FindSelf, Compare
<1>2. req[r] \in Reqs /\ Fits(req[r], step[r], user, spent, chain)
  BY OfSlot
<1>3. CASE Answer(r)
  <2>1. Grows /\ TypeOK' /\ Chained'
    BY <1>1, RowsKept
  <2> HIDE DEF Typed, Grows, TypeOK, Chained
  <2> QED
    BY <1>3, <2>1, AnswerKeeps
<1>4. CASE GetToken(r) /\ ~Answer(r)
  <2> DEFINE k == req[r].token
             q == [req[r] EXCEPT !.user = token[k].user]
  <2>1. PICK s \in {"drop", "find"} :
          req' = [req EXCEPT ![r].user = token[k].user] /\ Goto(r, s)
    BY <1>4 DEF GetToken
  <2>2. step[r] = "get" /\ token[k].there
    BY <1>4 DEF GetToken
  <2>3. k \in Tokens
    BY <1>2, <2>2 DEF Fits, Typed, TypeOK
  <2>4. token[k].user \in Users /\ user[token[k].user].there
    BY <2>2, <2>3, OfToken DEF Typed
  <2>5. q \in Reqs
    BY <1>2, <2>4 DEF Reqs
  <2>6. Fits(q, s, user, spent, chain)
    BY <1>2, <2>2, <2>4 DEF Fits, Reqs
  <2>7. req' = [req EXCEPT ![r] = q] /\ step' = [step EXCEPT ![r] = s]
    BY <2>1 DEF Goto
  <2> HIDE DEF q, Typed, Fits
  <2> QED
    BY <1>1, <2>5, <2>6, <2>7, MoveKeeps DEF Steps
<1>5. CASE (FindUser(r) \/ Compare(r)) /\ ~Answer(r)
  <2>1. PICK s \in {"rotate", "update"} : Goto(r, s) /\ Fits(req[r], s, user, spent, chain)
    <3>1. CASE FindUser(r)
      <4>1. Fits(req[r], "rotate", user, spent, chain)
        BY <1>2, <3>1 DEF FindUser, Fits
      <4> QED
        BY <1>5, <3>1, <4>1 DEF FindUser
    <3>2. CASE Compare(r)
      <4>1. Fits(req[r], "update", user, spent, chain)
        BY <1>2, <3>2 DEF Compare, Fits
      <4> QED
        BY <1>5, <3>2, <4>1 DEF Compare
    <3> QED
      BY <1>5, <3>1, <3>2
  <2>2. UNCHANGED req
    BY <1>5 DEF FindUser, Compare
  <2>3. req' = [req EXCEPT ![r] = req[r]] /\ step' = [step EXCEPT ![r] = s]
    BY <2>1, <2>2, GotoFrame
  <2> HIDE DEF Typed, Fits
  <2> QED
    BY <1>1, <1>2, <2>1, <2>3, MoveKeeps DEF Steps
<1>6. CASE FindSelf(r)
  <2> DEFINE q == [req[r] EXCEPT !.id = user[req[r].user].email]
  <2>1. step[r] = "self" /\ req' = [req EXCEPT ![r] = q] /\ step' = [step EXCEPT ![r] = "compare"]
    BY <1>6 DEF FindSelf, Goto
  <2>2. req[r].user \in Users /\ user[req[r].user].there
    BY <1>2, <2>1 DEF Fits
  <2>3. user[req[r].user] \in Profile
    BY <2>2, ThereIsProfile DEF Typed, TypeOK
  <2>4. q \in Reqs
    BY <1>2, <2>3 DEF Reqs, Profile
  <2>5. Fits(q, "compare", user, spent, chain)
    BY <1>2, <2>1 DEF Fits, Reqs
  <2> HIDE DEF q, Typed, Fits
  <2> QED
    BY <1>1, <2>1, <2>4, <2>5, MoveKeeps DEF Steps
<1> QED
  BY <1>3, <1>4, <1>5, <1>6

\* Profiles change, users stay.
LEMMA UserRowTyped ==
    ASSUME Typed, NEW u \in Users, NEW row \in Profile, user' = [user EXCEPT ![u] = row],
           UNCHANGED <<account, token, spent, chain>>
    PROVE  Grows /\ TypeOK' /\ Chained'
<1>1. row.there /\ row \in UserRow
  BY ProfileIsRow
<1>2. \A v \in Users : user[v].there => user'[v].there
  BY <1>1 DEF Typed, TypeOK
<1>3. user' \in [Users -> UserRow]
  BY <1>1 DEF Typed, TypeOK
<1>4. ASSUME NEW l \in Tokens
      PROVE  /\ (chain'[l] # None <=> l \in spent')
             /\ token'[l].there => l \in spent' /\ user'[token'[l].user].there
  BY <1>2, OfToken DEF Typed
<1>5. Grows /\ Chained'
  BY <1>2 DEF Grows, Typed, Chained
<1>6. token' \in [Tokens -> TokenRow] /\ account' \in [Users -> AccountRow] /\ spent' \subseteq Tokens
  BY DEF Typed, TypeOK
<1> QED
  BY <1>3, <1>4, <1>5, <1>6 DEF TypeOK

LEMMA ProfileKeeps ==
    ASSUME Typed, NEW r \in Slots, UpdateMyProfile(r)
    PROVE  Typed'
<1>1. PICK u \in Users, email \in Emails, phone \in Phones :
        user[u].there /\ user' = [user EXCEPT ![u].email = email, ![u].phone = phone]
  BY DEF UpdateMyProfile
<1> DEFINE row == [user[u] EXCEPT !.email = email, !.phone = phone]
<1>2. user[u] \in Profile
  BY <1>1, ThereIsProfile DEF Typed, TypeOK
<1>3. row \in Profile
  BY <1>2 DEF Profile
<1>4. user' = [user EXCEPT ![u] = row]
  BY <1>1 DEF Typed, TypeOK
<1>5. UNCHANGED <<account, token, spent, chain, req, step>>
  BY DEF UpdateMyProfile
<1>6. Grows /\ TypeOK' /\ Chained'
  <2> HIDE DEF row, Typed
  <2> QED
    BY <1>3, <1>4, <1>5, UserRowTyped
<1>7. Requests'
  <2>1. ASSUME NEW x \in Slots
        PROVE  Fits(req'[x], step'[x], user', spent', chain')
    <3>1. /\ req[x] \in Reqs /\ step[x] \in Steps
          /\ Fits(req[x], step[x], user, spent, chain)
      BY DEF Typed, Requests
    <3> HIDE DEF Fits, Grows
    <3> QED
      BY <1>5, <1>6, <3>1, FitsStays
  <2> QED
    BY <1>5, <2>1 DEF Typed, Requests
<1> QED
  BY <1>6, <1>7 DEF Typed

LEMMA UpdatePasswordKeeps ==
    ASSUME Typed, NEW r \in Slots, UpdatePassword(r)
    PROVE  Typed'
<1> DEFINE u == req[r].user
           row == [user[u] EXCEPT !.password = req[r].data.password]
<1>1. step[r] = "update" /\ Answer(r) /\ UNCHANGED <<account, token, spent, chain>>
  BY DEF UpdatePassword
<1>2. u \in Users /\ user[u].there /\ req[r].data.password \in Passwords
  BY <1>1, OfSlot DEF Fits
<1>3. user[u] \in Profile
  BY <1>2, ThereIsProfile DEF Typed, TypeOK
<1>4. row \in Profile
  BY <1>2, <1>3 DEF Profile
<1>5. user' = [user EXCEPT ![u] = row]
  BY <1>2 DEF UpdatePassword, Typed, TypeOK
<1>6. Grows /\ TypeOK' /\ Chained'
  <2> HIDE DEF row, u, Typed
  <2> QED
    BY <1>1, <1>2, <1>4, <1>5, UserRowTyped
<1> HIDE DEF Typed, Grows, TypeOK, Chained
<1> QED
  BY <1>1, <1>6, AnswerKeeps

LEMMA InterruptKeeps ==
    ASSUME Typed, NEW r \in Slots, Interrupt(r)
    PROVE  Typed'
<1>1. Grows /\ TypeOK' /\ Chained' /\ Answer(r)
  BY RowsKept DEF Interrupt
<1> HIDE DEF Typed, Grows, TypeOK, Chained
<1> QED
  BY <1>1, AnswerKeeps

LEMMA NextTyped ==
    ASSUME Typed, [Next]_vars
    PROVE  Typed'
<1> HIDE DEF Typed
<1>1. ASSUME NEW r \in Slots,
             Signup(r) \/ InsertUser(r) \/ InsertAccount(r) \/ InsertOwner(r)
             \/ Signin(r) \/ InsertToken(r)
      PROVE  Typed'
  BY <1>1, SignupKeeps, InsertUserKeeps, AccountKeeps, SigninKeeps, InsertTokenKeeps
<1>2. ASSUME NEW r \in Slots,
             Refresh(r) \/ GetToken(r) \/ FindUser(r) \/ Rotate(r) \/ Logout(r) \/ Drop(r)
      PROVE  Typed'
  BY <1>2, SessionKeeps, ReadKeeps, RotateKeeps, DropKeeps
<1>3. ASSUME NEW r \in Slots,
             UpdateMyProfile(r) \/ ChangePassword(r) \/ FindSelf(r) \/ Compare(r)
             \/ UpdatePassword(r) \/ Interrupt(r)
      PROVE  Typed'
  BY <1>3, ProfileKeeps, ChangeKeeps, ReadKeeps, UpdatePasswordKeeps, InterruptKeeps
<1>4. CASE UNCHANGED vars
  BY <1>4, Zenon DEF vars, Typed, TypeOK, Chained, Requests
<1> QED
  BY <1>1, <1>2, <1>3, <1>4 DEF Next

\* What a statement finds of its request and of the tables is what the ones
\* before it left, whatever comes in between (AuthService).
THEOREM WellTyped == Spec => []Typed
<1>1. Init => Typed
  BY InitTyped
<1>2. Typed /\ [Next]_vars => Typed'
  BY NextTyped
<1> QED
  BY <1>1, <1>2, PTL DEF Spec

\* Rows fit the schema, and a token that is there was handed out to a user who
\* is there (fk_refresh_tokens_user_id).
THEOREM SessionsTyped == Spec => []TypeOK
<1>1. Typed => TypeOK
  BY DEF Typed
<1> QED
  BY <1>1, WellTyped, PTL
-----------------------------------------------------------------------------
(* Signing up *)

\* A user is signed up by one request, which finds no user and leaves an owner.
Signups ==
    /\ \A r, q \in Slots :
           r # q /\ req[r].kind = "signup" /\ req[q].kind = "signup" =>
               req[r].user # req[q].user
    /\ \A r \in Slots : step[r] = "user" => ~user[req[r].user].there
    /\ \A r \in Slots : step[r] = "token" /\ req[r].kind = "signup" =>
           account[req[r].user] = "owned"

\* The request in r takes a step that does not sign anybody up.
Quiet(r) ==
    /\ \A x \in Slots \ {r} : req'[x] = req[x] /\ step'[x] = step[x]
    /\ req'[r].kind # "signup" /\ step'[r] # "user"
    /\ \A u \in Users : user'[u].there <=> user[u].there
    /\ UNCHANGED account

LEMMA UserOfStep ==
    ASSUME Typed, NEW r \in Slots, step[r] \in {"user", "account", "owner"}
    PROVE  req[r].user \in Users /\ req[r].kind = "signup"
  BY OfSlot DEF Fits

LEMMA QuietKeeps ==
    ASSUME Typed, Signups, NEW r \in Slots, Quiet(r)
    PROVE  Signups'
  BY UserOfStep DEF Signups, Quiet

\* A request that ends, whatever it was.
LEMMA AnswerIs ==
    ASSUME Typed, NEW r \in Slots, Answer(r)
    PROVE  /\ \A x \in Slots \ {r} : req'[x] = req[x] /\ step'[x] = step[x]
           /\ req'[r] = NoRequest /\ step'[r] = "idle" /\ req'[r].kind = "none"
<1> HIDE DEF NoRequest
<1> QED
  BY Empty DEF Answer, Typed, Requests

LEMMA QuietSteps ==
    ASSUME Typed, NEW r \in Slots,
           \/ Signin(r) \/ InsertToken(r) \/ Refresh(r) \/ GetToken(r) \/ FindUser(r)
           \/ Rotate(r) \/ Logout(r) \/ Drop(r) \/ UpdateMyProfile(r) \/ ChangePassword(r)
           \/ FindSelf(r) \/ Compare(r) \/ UpdatePassword(r) \/ Interrupt(r)
    PROVE  Quiet(r)
<1>1. CASE Answer(r) /\ UNCHANGED <<user, account>>
  BY <1>1, AnswerIs DEF Quiet
<1>2. CASE InsertToken(r) \/ Drop(r) \/ Interrupt(r)
  BY <1>1, <1>2 DEF InsertToken, Drop, Interrupt
<1>3. CASE Signin(r) \/ Refresh(r) \/ Logout(r) \/ ChangePassword(r)
  <2>1. \E q : \E s \in {"token", "get", "drop", "self"} : Start(r, q, s) /\ q.kind # "signup"
    <3>1. CASE Signin(r)
      <4>1. PICK u \in Users : Start(r, Request("signin", u, None, NoUser), "token")
        BY <3>1 DEF Signin, Resolved
      <4> QED
        BY <4>1, KindOf
    <3>2. CASE Refresh(r)
      <4>1. PICK k \in spent : Start(r, Session("refresh", k), "get")
        BY <3>2 DEF Refresh
      <4> QED
        BY <4>1, KindOf
    <3>3. CASE Logout(r)
      <4>1. PICK k \in spent : Start(r, Session("logout", k), "drop")
        BY <3>3 DEF Logout
      <4> QED
        BY <4>1, KindOf
    <3>4. CASE ChangePassword(r)
      <4>1. PICK u \in Users, w \in Passwords, new \in Passwords :
              Start(r, [Request("change", u, None, [NoUser EXCEPT !.password = new])
                           EXCEPT !.current = w], "self")
        BY <3>4 DEF ChangePassword
      <4> DEFINE q == [Request("change", u, None, [NoUser EXCEPT !.password = new])
                           EXCEPT !.current = w]
      <4>2. q.kind = "change"
        BY DEF Request
      <4> HIDE DEF q
      <4> QED
        BY <4>1, <4>2 DEF q
    <3> QED
      BY <1>3, <3>1, <3>2, <3>3, <3>4
  <2> QED
    <3>1. PICK q : \E s \in {"token", "get", "drop", "self"} : Start(r, q, s) /\ q.kind # "signup"
      BY <2>1
    <3> QED
      BY <3>1 DEF Start, Goto, Typed, Requests, Quiet
<1>4. CASE (GetToken(r) \/ FindUser(r) \/ Rotate(r) \/ FindSelf(r) \/ Compare(r)) /\ ~Answer(r)
  <2>1. step[r] \in {"get", "find", "rotate", "self", "compare"} /\ UNCHANGED <<user, account>>
    BY <1>4 DEF GetToken, FindUser, Rotate, FindSelf, Compare
  <2>2. req[r] \in Reqs /\ req[r].kind # "signup"
    BY <2>1, OfSlot DEF Fits
  <2>3. PICK s \in {"drop", "find", "rotate", "token", "compare", "update"} : Goto(r, s)
    BY <1>4 DEF GetToken, FindUser, Rotate, FindSelf, Compare
  <2>4. /\ \A x \in Slots \ {r} : req'[x] = req[x]
        /\ req'[r].kind = req[r].kind
    <3>1. CASE UNCHANGED req
      BY <3>1
    <3>2. CASE \E u : req' = [req EXCEPT ![r].user = u]
      BY <2>2, <3>2 DEF Typed, Requests, Reqs
    <3>3. CASE \E i : req' = [req EXCEPT ![r].id = i]
      BY <2>2, <3>3 DEF Typed, Requests, Reqs
    <3> QED
      BY <1>4, <3>1, <3>2, <3>3 DEF GetToken, FindUser, Rotate, FindSelf, Compare
  <2> QED
    BY <2>1, <2>2, <2>3, <2>4 DEF Goto, Typed, Requests, Quiet
<1>5. CASE UpdateMyProfile(r)
  <2>8. PICK u \in Users :
          \E e, f : user' = [user EXCEPT ![u].email = e, ![u].phone = f]
    BY <1>5 DEF UpdateMyProfile
  <2>1. PICK e, f : user' = [user EXCEPT ![u].email = e, ![u].phone = f]
    BY <2>8
  <2>2. user'[u] = [user[u] EXCEPT !.email = e, !.phone = f]
    BY <2>1 DEF Typed, TypeOK
  <2>3. user[u] \in UserRow
    BY DEF Typed, TypeOK
  <2>4. user'[u].there <=> user[u].there
    BY <2>2, <2>3 DEF UserRow, Profile, NoUser
  <2>5. \A v \in Users \ {u} : user'[v] = user[v]
    BY <2>1 DEF Typed, TypeOK
  <2>6. step[r] = "idle" /\ UNCHANGED <<account, req, step>>
    BY <1>5 DEF UpdateMyProfile
  <2>7. req[r].kind = "none"
    BY <2>6, OfSlot DEF Fits
  <2> QED
    BY <2>4, <2>5, <2>6, <2>7 DEF Quiet
<1>6. CASE UpdatePassword(r)
  <2> DEFINE u == req[r].user
  <2>1. u \in Users /\ user[u].there
    BY <1>6, OfSlot DEF UpdatePassword, Fits
  <2>2. user' = [user EXCEPT ![u].password = req[r].data.password]
    BY <1>6 DEF UpdatePassword
  <2> HIDE DEF u
  <2>3. user[u] \in Profile
    BY <2>1, ThereIsProfile DEF Typed, TypeOK
  <2>4. user'[u].there <=> user[u].there
    BY <2>1, <2>2, <2>3 DEF Typed, TypeOK, Profile
  <2>5. \A v \in Users \ {u} : user'[v] = user[v]
    BY <2>2 DEF Typed, TypeOK
  <2> QED
    BY <1>6, <2>4, <2>5, AnswerIs DEF UpdatePassword, Quiet
<1> QED
  BY <1>2, <1>3, <1>4, <1>5, <1>6, <1>1
     DEF GetToken, FindUser, Rotate, FindSelf, Compare

LEMMA SignupSignups ==
    ASSUME Typed, Signups, NEW r \in Slots, Signup(r)
    PROVE  Signups'
<1>1. PICK u \in Users, d \in Profile :
        /\ ~user[u].there
        /\ \A s \in InFlight({"signup"}) : req[s].user # u
        /\ Start(r, Request("signup", u, None, d), "user")
  BY DEF Signup
<1>2. /\ \A x \in Slots \ {r} : req'[x] = req[x] /\ step'[x] = step[x]
      /\ req'[r].user = u /\ step'[r] = "user"
      /\ UNCHANGED <<user, account>>
  BY <1>1 DEF Start, Goto, Typed, Requests, Request
<1>3. \A x \in Slots \ {r} : req[x].kind = "signup" => req[x].user # u
  BY <1>1 DEF InFlight
<1> QED
  BY <1>1, <1>2, <1>3 DEF Signups

LEMMA InsertUserSignups ==
    ASSUME Typed, Signups, NEW r \in Slots, InsertUser(r)
    PROVE  Signups'
<1> DEFINE u == req[r].user
<1>1. step[r] = "user" /\ UNCHANGED account
  BY DEF InsertUser
<1>2. u \in Users /\ req[r].kind = "signup" /\ req[r] \in Reqs
  BY <1>1, OfSlot, UserOfStep
<1>3. CASE Answer(r) /\ UNCHANGED user
  <2>1. Quiet(r)
    BY <1>1, <1>3, AnswerIs DEF Quiet
  <2> QED
    BY <2>1, QuietKeeps
<1>4. CASE /\ user' = [user EXCEPT ![u] = req[r].data] /\ Goto(r, "account")
           /\ req' = [req EXCEPT ![r].data = NoUser]
  <2>1. /\ \A x \in Slots \ {r} : req'[x] = req[x] /\ step'[x] = step[x]
        /\ req'[r].user = u /\ req'[r].kind = "signup" /\ step'[r] = "account"
    BY <1>2, <1>4 DEF Goto, Typed, Requests, Reqs
  <2>2. \A v \in Users \ {u} : user'[v] = user[v]
    BY <1>4 DEF Typed, TypeOK
  <2>3. \A x \in Slots \ {r} : step[x] = "user" => req[x].user \in Users \ {u}
    BY <1>2, UserOfStep DEF Signups
  <2> QED
    BY <1>1, <1>2, <2>1, <2>2, <2>3 DEF Signups
<1> QED
  BY <1>3, <1>4 DEF InsertUser

LEMMA AccountSignups ==
    ASSUME Typed, Signups, NEW r \in Slots, InsertAccount(r) \/ InsertOwner(r)
    PROVE  Signups'
<1> DEFINE u == req[r].user
<1>1. PICK a \in {"bare", "owned"}, s \in {"owner", "token"} :
        account' = [account EXCEPT ![u] = a] /\ Goto(r, s) /\ (s = "token" => a = "owned")
  BY DEF InsertAccount, InsertOwner
<1>2. step[r] \in {"account", "owner"} /\ UNCHANGED <<user, req>>
  BY DEF InsertAccount, InsertOwner
<1>3. u \in Users /\ req[r].kind = "signup"
  BY <1>2, UserOfStep
<1>4. step'[r] = s /\ \A x \in Slots \ {r} : step'[x] = step[x]
  BY <1>1 DEF Goto, Typed, Requests
<1>5. account'[u] = a
  BY <1>1, <1>3 DEF Typed, TypeOK
<1>6. ASSUME NEW x \in Slots, step'[x] = "token", req[x].kind = "signup"
      PROVE  account'[req[x].user] = "owned"
  <2>1. CASE x = r
    BY <1>1, <1>4, <1>5, <1>6, <2>1
  <2>2. CASE x # r
    <3>1. req[x].user # u /\ account[req[x].user] = "owned"
      BY <1>3, <1>4, <1>6, <2>2 DEF Signups
    <3> HIDE DEF u
    <3> QED
      BY <1>1, <3>1 DEF Typed, TypeOK
  <2> QED
    BY <2>1, <2>2
<1>7. \A x \in Slots : step'[x] = "user" => step[x] = "user"
  BY <1>4, <1>1
<1> QED
  BY <1>2, <1>6, <1>7 DEF Signups

LEMMA NextSignups ==
    ASSUME Typed, Signups, [Next]_vars
    PROVE  Signups'
<1>1. CASE UNCHANGED vars
  BY <1>1 DEF vars, Signups
<1>2. CASE Next
  <2> HIDE DEF Typed, Signups
  <2> QED
    BY <1>2, QuietSteps, QuietKeeps, SignupSignups, InsertUserSignups, AccountSignups DEF Next
<1> QED
  BY <1>1, <1>2

\* A sign-up that has come past a statement left its row behind, and nobody else
\* takes the user for his (CreateUserWithRefreshToken).
THEOREM SignupsSound == Spec => []Signups
<1>1. Init => Signups
  BY Empty DEF Init, Signups
<1>2. Typed /\ Signups /\ [Next]_vars => Signups'
  BY NextSignups
<1> QED
  BY <1>1, <1>2, WellTyped, PTL DEF Spec

\* Whoever gets a token for signing up has an account and owns it
\* (CreateUserWithRefreshToken).
THEOREM SignupsWhole == Spec => SignupsAnsweredWhole
<1> DEFINE Whole ==
       \A r \in Slots :
           req[r].kind = "signup" /\ step[r] = "token" /\ spent' # spent /\ step'[r] = "idle"
               => account[req[r].user] = "owned"
<1>1. Signups /\ [Next]_vars => [Whole]_vars
  BY DEF Signups
<1>2. Spec => [][Whole]_vars
  BY <1>1, SignupsSound, PTL DEF Spec
<1> QED
  BY <1>2 DEF SignupsAnsweredWhole
-----------------------------------------------------------------------------
(* Changing passwords, one change of a user at a time *)

UniqueEmails ==
    \A u, v \in Users : u # v /\ user[u].there /\ user[v].there => user[u].email # user[v].email

\* A user has one change in flight, which knows what it has compared.
Changes ==
    /\ \A r, q \in Slots :
           r # q /\ req[r].kind = "change" /\ req[q].kind = "change" =>
               req[r].user # req[q].user
    /\ \A r \in Slots : step[r] = "compare" => req[r].id = user[req[r].user].email
    /\ \A r \in Slots : step[r] = "update" => req[r].current = user[req[r].user].password

Holders == UniqueEmails /\ Changes

LEMMA UserOfChange ==
    ASSUME Typed, NEW r \in Slots, step[r] \in {"self", "compare", "update"}
    PROVE  req[r].user \in Users /\ req[r].kind = "change" /\ user[req[r].user].there
  BY OfSlot DEF Fits

\* What a step of one request leaves to show: the users of other changes are as
\* they were.
LEMMA ChangesKept ==
    ASSUME Typed, Changes, NEW r \in Slots,
           \A x \in Slots \ {r} : req'[x] = req[x] /\ step'[x] = step[x],
           \A x \in Slots \ {r} : step[x] \in {"self", "compare", "update"} =>
               user'[req[x].user] = user[req[x].user],
           req'[r].kind = "change" =>
               \A x \in Slots \ {r} : req[x].kind = "change" => req[x].user # req'[r].user,
           step'[r] = "compare" => req'[r].id = user'[req'[r].user].email,
           step'[r] = "update" => req'[r].current = user'[req'[r].user].password
    PROVE  Changes'
  BY DEF Changes

\* Requests that change no user.
LEMMA OtherSteps ==
    ASSUME Typed, NEW r \in Slots,
           \/ Signup(r) \/ InsertAccount(r) \/ InsertOwner(r) \/ Signin(r) \/ InsertToken(r)
           \/ Refresh(r) \/ GetToken(r) \/ FindUser(r) \/ Rotate(r) \/ Logout(r) \/ Drop(r)
           \/ Interrupt(r)
    PROVE  /\ \A x \in Slots \ {r} : req'[x] = req[x] /\ step'[x] = step[x]
           /\ req'[r].kind # "change" /\ step'[r] \notin {"compare", "update"}
           /\ UNCHANGED user
<1>1. CASE Answer(r) /\ UNCHANGED user
  BY <1>1, AnswerIs
<1>2. CASE InsertToken(r) \/ Drop(r) \/ Interrupt(r)
  BY <1>1, <1>2 DEF InsertToken, Drop, Interrupt
<1>3. CASE Signup(r) \/ Signin(r) \/ Refresh(r) \/ Logout(r)
  <2>1. \E q : \E s \in {"user", "token", "get", "drop"} : Start(r, q, s) /\ q.kind # "change"
    <3>1. CASE Signup(r)
      <4>1. PICK u \in Users, d \in Profile : Start(r, Request("signup", u, None, d), "user")
        BY <3>1 DEF Signup
      <4> QED
        BY <4>1, KindOf
    <3>2. CASE Signin(r)
      <4>1. PICK u \in Users : Start(r, Request("signin", u, None, NoUser), "token")
        BY <3>2 DEF Signin, Resolved
      <4> QED
        BY <4>1, KindOf
    <3>3. CASE Refresh(r)
      <4>1. PICK k \in spent : Start(r, Session("refresh", k), "get")
        BY <3>3 DEF Refresh
      <4> QED
        BY <4>1, KindOf
    <3>4. CASE Logout(r)
      <4>1. PICK k \in spent : Start(r, Session("logout", k), "drop")
        BY <3>4 DEF Logout
      <4> QED
        BY <4>1, KindOf
    <3> QED
      BY <1>3, <3>1, <3>2, <3>3, <3>4
  <2>2. PICK q : \E s \in {"user", "token", "get", "drop"} : Start(r, q, s) /\ q.kind # "change"
    BY <2>1
  <2> QED
    BY <2>2 DEF Start, Goto, Typed, Requests
<1>4. CASE (InsertAccount(r) \/ InsertOwner(r) \/ GetToken(r) \/ FindUser(r) \/ Rotate(r))
           /\ ~Answer(r)
  <2>1. step[r] \in {"account", "owner", "get", "find", "rotate"} /\ UNCHANGED user
    BY <1>4 DEF InsertAccount, InsertOwner, GetToken, FindUser, Rotate
  <2>2. req[r] \in Reqs /\ req[r].kind # "change"
    BY <2>1, OfSlot DEF Fits
  <2>3. PICK s \in {"owner", "token", "drop", "find", "rotate"} : Goto(r, s)
    BY <1>4 DEF InsertAccount, InsertOwner, GetToken, FindUser, Rotate
  <2>4. /\ \A x \in Slots \ {r} : req'[x] = req[x]
        /\ req'[r].kind = req[r].kind
    <3>1. CASE UNCHANGED req
      BY <3>1
    <3>2. CASE \E u : req' = [req EXCEPT ![r].user = u]
      BY <2>2, <3>2 DEF Typed, Requests, Reqs
    <3> QED
      BY <1>4, <3>1, <3>2 DEF InsertAccount, InsertOwner, GetToken, FindUser, Rotate
  <2> QED
    BY <2>1, <2>2, <2>3, <2>4 DEF Goto, Typed, Requests
<1> QED
  BY <1>1, <1>2, <1>3, <1>4 DEF InsertAccount, InsertOwner, GetToken, FindUser, Rotate

LEMMA OtherHolders ==
    ASSUME Typed, Holders, NEW r \in Slots,
           \/ Signup(r) \/ InsertAccount(r) \/ InsertOwner(r) \/ Signin(r) \/ InsertToken(r)
           \/ Refresh(r) \/ GetToken(r) \/ FindUser(r) \/ Rotate(r) \/ Logout(r) \/ Drop(r)
           \/ Interrupt(r)
    PROVE  Holders'
<1>1. /\ \A x \in Slots \ {r} : req'[x] = req[x] /\ step'[x] = step[x]
      /\ req'[r].kind # "change" /\ step'[r] \notin {"compare", "update"}
      /\ UNCHANGED user
  BY OtherSteps
<1>2. Changes'
  BY <1>1, ChangesKept DEF Holders
<1> QED
  BY <1>1, <1>2 DEF Holders, UniqueEmails

LEMMA InsertUserHolders ==
    ASSUME Typed, Signups, Holders, NEW r \in Slots, InsertUser(r)
    PROVE  Holders'
<1> DEFINE u == req[r].user
           d == req[r].data
<1>1. step[r] = "user" /\ u \in Users /\ req[r].kind = "signup" /\ req[r] \in Reqs
  BY OfSlot, UserOfStep DEF InsertUser
<1>2. CASE Answer(r) /\ UNCHANGED user
  <2>1. Changes'
    BY <1>2, AnswerIs, ChangesKept DEF Holders
  <2> QED
    BY <1>2, <2>1 DEF Holders, UniqueEmails
<1>3. CASE /\ ~Taken(u, d.email, d.phone) /\ user' = [user EXCEPT ![u] = d]
           /\ Goto(r, "account") /\ req' = [req EXCEPT ![r].data = NoUser]
  <2>1. /\ \A x \in Slots \ {r} : req'[x] = req[x] /\ step'[x] = step[x]
        /\ req'[r].kind = "signup" /\ step'[r] = "account"
    BY <1>1, <1>3 DEF Goto, Typed, Requests, Reqs
  <2>2. user'[u] = d /\ \A v \in Users \ {u} : user'[v] = user[v]
    BY <1>1, <1>3 DEF Typed, TypeOK
  <2>3. ~user[u].there
    BY <1>1 DEF Signups
  <2>4. \A x \in Slots : step[x] \in {"self", "compare", "update"} => req[x].user \in Users \ {u}
    BY <2>3, UserOfChange
  <2>5. Changes'
    BY <2>1, <2>2, <2>4, ChangesKept DEF Holders
  <2>6. \A v \in Users \ {u} : user[v].there => user[v].email # d.email
    BY <1>3 DEF Taken
  <2>7. UniqueEmails'
    BY <2>2, <2>6 DEF Holders, UniqueEmails
  <2> QED
    BY <2>5, <2>7 DEF Holders
<1> QED
  BY <1>2, <1>3 DEF InsertUser

LEMMA ProfileHolders ==
    ASSUME Typed, Holders, Traffic = "apart", NEW r \in Slots, UpdateMyProfile(r)
    PROVE  Holders'
<1>1. PICK u \in Users, email \in Emails, phone \in Phones :
        /\ user[u].there /\ FreeUser(u) /\ ~Taken(u, email, phone)
        /\ user' = [user EXCEPT ![u].email = email, ![u].phone = phone]
  BY DEF UpdateMyProfile
<1>2. UNCHANGED <<req, step>> /\ step[r] = "idle"
  BY DEF UpdateMyProfile
<1>3. user[u] \in Profile
  BY <1>1, ThereIsProfile DEF Typed, TypeOK
<1>4. user'[u].email = email /\ \A v \in Users \ {u} : user'[v] = user[v]
  BY <1>1, <1>3 DEF Typed, TypeOK, Profile
<1>5. \A x \in Slots : req[x].kind = "change" => req[x].user # u
  BY <1>1 DEF FreeUser, InFlight
<1>6. \A x \in Slots : step[x] \in {"self", "compare", "update"} => req[x].user \in Users \ {u}
  BY <1>5, UserOfChange
<1>7. Changes'
  BY <1>2, <1>4, <1>6 DEF Holders, Changes
<1>8. \A v \in Users \ {u} : user[v].there => user[v].email # email
  BY <1>1 DEF Taken
<1>9. UniqueEmails'
  BY <1>4, <1>8 DEF Holders, UniqueEmails
<1> QED
  BY <1>7, <1>9 DEF Holders

LEMMA ChangeHolders ==
    ASSUME Typed, Holders, Traffic = "apart", NEW r \in Slots, ChangePassword(r)
    PROVE  Holders'
<1>1. PICK u \in Users, w \in Passwords, new \in Passwords :
        /\ FreeUser(u)
        /\ Start(r, [Request("change", u, None, [NoUser EXCEPT !.password = new])
                         EXCEPT !.current = w], "self")
  BY DEF ChangePassword
<1> DEFINE q == [Request("change", u, None, [NoUser EXCEPT !.password = new])
                    EXCEPT !.current = w]
<1>2. q.user = u
  BY DEF Request
<1> HIDE DEF q
<1>3. /\ \A x \in Slots \ {r} : req'[x] = req[x] /\ step'[x] = step[x]
      /\ req'[r].user = u /\ step'[r] = "self" /\ UNCHANGED user
  BY <1>1, <1>2 DEF Start, Goto, Typed, Requests, q
<1>4. \A x \in Slots : req[x].kind = "change" => req[x].user # u
  BY <1>1 DEF FreeUser, InFlight
<1>5. Changes'
  BY <1>3, <1>4, ChangesKept DEF Holders
<1> QED
  BY <1>3, <1>5 DEF Holders, UniqueEmails

LEMMA FindSelfHolders ==
    ASSUME Typed, Holders, NEW r \in Slots, FindSelf(r)
    PROVE  Holders'
<1>1. /\ step[r] = "self" /\ UNCHANGED user
      /\ req' = [req EXCEPT ![r].id = user[req[r].user].email] /\ Goto(r, "compare")
  BY DEF FindSelf
<1>2. req[r] \in Reqs /\ req[r].kind = "change" /\ req[r].user \in Users
  BY <1>1, OfSlot, UserOfChange
<1>3. /\ \A x \in Slots \ {r} : req'[x] = req[x] /\ step'[x] = step[x]
      /\ req'[r].user = req[r].user /\ req'[r].id = user[req[r].user].email
      /\ step'[r] = "compare"
  BY <1>1, <1>2 DEF Goto, Typed, Requests, Reqs
<1>4. \A x \in Slots \ {r} : req[x].kind = "change" => req[x].user # req[r].user
  BY <1>2 DEF Holders, Changes
<1>5. Changes'
  BY <1>1, <1>3, <1>4, ChangesKept DEF Holders
<1> QED
  BY <1>1, <1>5 DEF Holders, UniqueEmails

\* The password compared is that of the user whose address was found, because
\* nobody else has that address.
LEMMA CompareHolders ==
    ASSUME Typed, Holders, NEW r \in Slots, Compare(r)
    PROVE  Holders'
<1>1. step[r] = "compare" /\ UNCHANGED user
  BY DEF Compare
<1>2. req[r].kind = "change" /\ req[r].user \in Users /\ user[req[r].user].there
  BY <1>1, UserOfChange
<1>3. CASE Answer(r)
  <2>1. Changes'
    BY <1>1, <1>3, AnswerIs, ChangesKept DEF Holders
  <2> QED
    BY <1>1, <2>1 DEF Holders, UniqueEmails
<1>4. CASE Goto(r, "update") /\ UNCHANGED req /\
           \E u \in Users : /\ user[u].there /\ user[u].email = req[r].id
                           /\ user[u].password = req[r].current
  <2>1. PICK u \in Users : /\ user[u].there /\ user[u].email = req[r].id
                           /\ user[u].password = req[r].current
    BY <1>4
  <2>2. req[r].id = user[req[r].user].email
    BY <1>1 DEF Holders, Changes
  <2>3. u = req[r].user
    BY <1>2, <2>1, <2>2 DEF Holders, UniqueEmails
  <2>4. step'[r] = "update" /\ \A x \in Slots \ {r} : step'[x] = step[x]
    BY <1>4 DEF Goto, Typed, Requests
  <2>5. \A x \in Slots \ {r} : req[x].kind = "change" => req[x].user # req[r].user
    BY <1>2 DEF Holders, Changes
  <2>6. Changes'
    BY <1>1, <1>4, <2>1, <2>3, <2>4, <2>5, ChangesKept DEF Holders
  <2> QED
    BY <1>1, <2>6 DEF Holders, UniqueEmails
<1> QED
  BY <1>3, <1>4 DEF Compare

LEMMA UpdatePasswordIs ==
    ASSUME Typed, NEW r \in Slots, UpdatePassword(r)
    PROVE  /\ step[r] = "update" /\ req[r].kind = "change" /\ req[r].user \in Users
           /\ \A v \in Users : /\ user'[v].email = user[v].email
                               /\ user'[v].there <=> user[v].there
           /\ \A v \in Users \ {req[r].user} : user'[v] = user[v]
<1> DEFINE u == req[r].user
<1>1. step[r] = "update" /\ u \in Users /\ user[u].there /\ req[r].kind = "change"
  BY UserOfChange DEF UpdatePassword
<1>2. user[u] \in Profile
  BY <1>1, ThereIsProfile DEF Typed, TypeOK
<1>3. user' = [user EXCEPT ![u].password = req[r].data.password]
  BY DEF UpdatePassword
<1> HIDE DEF u
<1>4. \A v \in Users \ {u} : user'[v] = user[v]
  BY <1>3 DEF Typed, TypeOK
<1>5. user'[u].email = user[u].email /\ (user'[u].there <=> user[u].there)
  BY <1>1, <1>2, <1>3 DEF Typed, TypeOK, Profile
<1> QED
  BY <1>1, <1>4, <1>5 DEF u

LEMMA UpdatePasswordHolders ==
    ASSUME Typed, Holders, NEW r \in Slots, UpdatePassword(r)
    PROVE  Holders'
<1>1. \A x \in Slots \ {r} : step[x] \in {"self", "compare", "update"} =>
          req[x].user \in Users \ {req[r].user}
  BY UserOfChange, UpdatePasswordIs DEF Holders, Changes
<1>2. Changes'
  <2>1. /\ \A x \in Slots \ {r} : req'[x] = req[x] /\ step'[x] = step[x]
        /\ req'[r].kind = "none" /\ step'[r] = "idle"
    BY AnswerIs DEF UpdatePassword
  <2>2. \A x \in Slots \ {r} : step[x] \in {"self", "compare", "update"} =>
            user'[req[x].user] = user[req[x].user]
    BY <1>1, UpdatePasswordIs
  <2> QED
    BY <2>1, <2>2, ChangesKept DEF Holders
<1>3. UniqueEmails'
  BY UpdatePasswordIs DEF Holders, UniqueEmails
<1> QED
  BY <1>2, <1>3 DEF Holders

LEMMA NextHolders ==
    ASSUME Typed, Signups, Holders, Traffic = "apart", [Next]_vars
    PROVE  Holders'
<1>1. CASE UNCHANGED vars
  BY <1>1 DEF vars, Holders, UniqueEmails, Changes
<1>2. CASE Next
  <2> HIDE DEF Typed, Signups, Holders
  <2> QED
    BY <1>2, OtherHolders, InsertUserHolders, ProfileHolders, ChangeHolders, FindSelfHolders,
       CompareHolders, UpdatePasswordHolders DEF Next
<1> QED
  BY <1>1, <1>2

\* The step that replaces a password.
LEMMA PasswordStep ==
    ASSUME Typed, Signups, Holders, [Next]_vars,
           NEW u \in Users, user[u].there, user'[u].password # user[u].password
    PROVE  \E r \in Slots : /\ step[r] = "update" /\ step'[r] = "idle"
                            /\ req[r].user = u /\ req[r].current = user[u].password
<1>1. PICK r \in Slots : UpdatePassword(r) \/ InsertUser(r) \/ UpdateMyProfile(r)
  BY DEF vars, Next, Signup, InsertAccount, InsertOwner, Signin, InsertToken, Refresh, Logout,
         GetToken, FindUser, Rotate, Drop, ChangePassword, FindSelf, Compare, Interrupt, Start
<1>2. CASE UpdatePassword(r)
  <2>1. req[r].user = u
    BY <1>2, UpdatePasswordIs
  <2>2. step'[r] = "idle"
    BY <1>2, AnswerIs DEF UpdatePassword
  <2> QED
    BY <1>2, <2>1, <2>2, UpdatePasswordIs DEF Holders, Changes
<1>3. CASE InsertUser(r)
  <2>1. step[r] = "user" /\ user' # user
    BY <1>3 DEF InsertUser
  <2>2. user' = [user EXCEPT ![req[r].user] = req[r].data]
    BY <1>3, <2>1 DEF InsertUser
  <2>3. req[r].user # u
    BY <2>1 DEF Signups
  <2> QED
    BY <2>2, <2>3 DEF Typed, TypeOK
<1>4. CASE UpdateMyProfile(r)
  <2>1. PICK v \in Users, e \in Emails, f \in Phones :
          user' = [user EXCEPT ![v].email = e, ![v].phone = f]
    BY <1>4 DEF UpdateMyProfile
  <2>2. user[u] \in Profile
    BY ThereIsProfile DEF Typed, TypeOK
  <2>3. user'[u].password = user[u].password
    BY <2>1, <2>2 DEF Typed, TypeOK, Profile
  <2> QED
    BY <2>3
<1> QED
  BY <1>1, <1>2, <1>3, <1>4

\* A password is replaced on behalf of somebody who sent the one it replaces,
\* when the changes of a user come one at a time (AuthService.ChangePassword).
THEOREM PasswordsSafe ==
    ASSUME Traffic = "apart"
    PROVE  Spec => PasswordsChangedByHolders
<1> DEFINE Held ==
       \A u \in Users :
           user[u].there /\ user'[u].password # user[u].password =>
               \E r \in Slots : /\ step[r] = "update" /\ step'[r] = "idle"
                                /\ req[r].user = u
                                /\ req[r].current = user[u].password
<1>1. Init => Holders
  BY Empty DEF Init, Holders, UniqueEmails, Changes
<1>2. Typed /\ Signups /\ Holders /\ [Next]_vars => Holders'
  BY NextHolders
<1>3. Spec => []Holders
  BY <1>1, <1>2, WellTyped, SignupsSound, PTL DEF Spec
<1>4. Typed /\ Signups /\ Holders /\ [Next]_vars => [Held]_vars
  <2> HIDE DEF Typed, Signups, Holders
  <2> QED
    BY PasswordStep
<1>5. Spec => [][Held]_vars
  BY <1>3, <1>4, WellTyped, SignupsSound, PTL DEF Spec
<1> QED
  BY <1>5 DEF PasswordsChangedByHolders
-----------------------------------------------------------------------------
(* Sessions, one request of each at a time, when deletions are not lost *)

OfSession == {"refresh", "logout"}

\* A session has one request in flight, and one good token, which a refresh under
\* way holds until it has deleted it.
Chains ==
    /\ \A r, q \in Slots :
           r # q /\ req[r].kind \in OfSession /\ req[q].kind \in OfSession =>
               req[r].session # req[q].session
    /\ \A k, l \in Tokens : token[k].there /\ token[l].there /\ chain[k] = chain[l] => k = l
    /\ \A r \in Slots : req[r].kind = "refresh" /\ step[r] = "token" =>
           \A k \in Tokens : chain[k] = req[r].session => ~token[k].there
    /\ \A r \in Slots : req[r].kind = "refresh" /\ step[r] \in {"find", "rotate", "drop"} =>
           token[req[r].token].there

\* What a request of a session goes by.
LEMMA OfSessionFits ==
    ASSUME Typed, NEW r \in Slots, req[r].kind \in OfSession
    PROVE  /\ req[r].token \in spent /\ req[r].token \in Tokens
           /\ req[r].session = chain[req[r].token] /\ req[r].session \in spent
           /\ req[r].session \in Tokens /\ req[r].session # None
<1>1. req[r].token \in spent /\ req[r].session = chain[req[r].token]
  BY OfSlot DEF Fits, OfSession
<1> QED
  BY <1>1, SessionsAssumption DEF Typed, TypeOK, Chained

\* Steps that leave tokens and sessions alone.
LEMMA ChainsKept ==
    ASSUME Typed, Chains, NEW r \in Slots, UNCHANGED <<token, chain>>,
           \A x \in Slots \ {r} : req'[x] = req[x] /\ step'[x] = step[x],
           req'[r].kind \in OfSession =>
               \A x \in Slots \ {r} : req[x].kind \in OfSession => req[x].session # req'[r].session,
           req'[r].kind = "refresh" =>
               /\ step'[r] # "token"
               /\ step'[r] \in {"find", "rotate", "drop"} => token[req'[r].token].there
    PROVE  Chains'
  BY DEF Chains

\* Requests that have nothing to do with sessions, or end.
LEMMA OtherChainSteps ==
    ASSUME Typed, NEW r \in Slots,
           \/ Signup(r) \/ InsertUser(r) \/ InsertAccount(r) \/ InsertOwner(r) \/ Signin(r)
           \/ UpdateMyProfile(r) \/ ChangePassword(r) \/ FindSelf(r) \/ Compare(r)
           \/ UpdatePassword(r) \/ Interrupt(r)
    PROVE  /\ \A x \in Slots \ {r} : req'[x] = req[x] /\ step'[x] = step[x]
           /\ req'[r].kind \notin OfSession
           /\ Interrupt(r) \/ req[r].kind \notin OfSession
           /\ UNCHANGED <<token, spent, chain>>
<1> USE DEF OfSession
<1>1. CASE Interrupt(r)
  BY <1>1, AnswerIs DEF Interrupt
<1>2. CASE Signup(r) \/ Signin(r) \/ ChangePassword(r)
  <2>1. \E q : \E s \in {"user", "token", "self"} : Start(r, q, s) /\ q.kind \notin OfSession
    <3>1. CASE Signup(r)
      <4>1. PICK u \in Users, d \in Profile : Start(r, Request("signup", u, None, d), "user")
        BY <3>1 DEF Signup
      <4> QED
        BY <4>1, KindOf
    <3>2. CASE Signin(r)
      <4>1. PICK u \in Users : Start(r, Request("signin", u, None, NoUser), "token")
        BY <3>2 DEF Signin, Resolved
      <4> QED
        BY <4>1, KindOf
    <3>3. CASE ChangePassword(r)
      <4>1. PICK u \in Users, w \in Passwords, new \in Passwords :
              Start(r, [Request("change", u, None, [NoUser EXCEPT !.password = new])
                           EXCEPT !.current = w], "self")
        BY <3>3 DEF ChangePassword
      <4> DEFINE q == [Request("change", u, None, [NoUser EXCEPT !.password = new])
                           EXCEPT !.current = w]
      <4>2. q.kind = "change"
        BY DEF Request
      <4> HIDE DEF q
      <4> QED
        BY <4>1, <4>2 DEF q
    <3> QED
      BY <1>2, <3>1, <3>2, <3>3
  <2>2. PICK q : \E s \in {"user", "token", "self"} : Start(r, q, s) /\ q.kind \notin OfSession
    BY <2>1
  <2>3. step[r] = "idle"
    BY <2>2 DEF Start
  <2>4. req[r].kind = "none"
    BY <2>3, OfSlot DEF Fits
  <2> QED
    BY <2>2, <2>4 DEF Start, Goto, Typed, Requests
<1>3. CASE UpdateMyProfile(r)
  <2>1. step[r] = "idle" /\ UNCHANGED <<token, spent, chain, req, step>>
    BY <1>3 DEF UpdateMyProfile
  <2>2. req[r].kind = "none"
    BY <2>1, OfSlot DEF Fits
  <2> QED
    BY <2>1, <2>2
<1>4. CASE InsertUser(r) \/ InsertAccount(r) \/ InsertOwner(r) \/ FindSelf(r) \/ Compare(r)
           \/ UpdatePassword(r)
  <2>1. /\ step[r] \in {"user", "account", "owner", "self", "compare", "update"}
        /\ UNCHANGED <<token, spent, chain>>
    BY <1>4 DEF InsertUser, InsertAccount, InsertOwner, FindSelf, Compare, UpdatePassword
  <2>2. req[r] \in Reqs /\ req[r].kind \notin OfSession
    BY <2>1, OfSlot DEF Fits
  <2>3. CASE Answer(r)
    BY <2>1, <2>2, <2>3, AnswerIs
  <2>4. CASE ~Answer(r)
    <3>1. \E s : Goto(r, s)
      BY <1>4, <2>4 DEF InsertUser, InsertAccount, InsertOwner, FindSelf, Compare, UpdatePassword
    <3>2. PICK s : Goto(r, s)
      BY <3>1
    <3>3. (\A x \in Slots \ {r} : req'[x] = req[x]) /\ req'[r].kind = req[r].kind
      <4>1. CASE UNCHANGED req
        BY <4>1
      <4>2. CASE req' = [req EXCEPT ![r].data = NoUser]
        BY <2>2, <4>2 DEF Typed, Requests, Reqs
      <4>3. CASE \E i : req' = [req EXCEPT ![r].id = i]
        BY <2>2, <4>3 DEF Typed, Requests, Reqs
      <4> QED
        BY <1>4, <2>4, <4>1, <4>2, <4>3
           DEF InsertUser, InsertAccount, InsertOwner, FindSelf, Compare, UpdatePassword
    <3> QED
      BY <2>1, <2>2, <3>2, <3>3 DEF Goto, Typed, Requests
  <2> QED
    BY <2>3, <2>4
<1> QED
  BY <1>1, <1>2, <1>3, <1>4

LEMMA OtherChains ==
    ASSUME Typed, Chains, NEW r \in Slots,
           \/ Signup(r) \/ InsertUser(r) \/ InsertAccount(r) \/ InsertOwner(r) \/ Signin(r)
           \/ UpdateMyProfile(r) \/ ChangePassword(r) \/ FindSelf(r) \/ Compare(r)
           \/ UpdatePassword(r) \/ Interrupt(r)
    PROVE  Chains'
<1>1. /\ \A x \in Slots \ {r} : req'[x] = req[x] /\ step'[x] = step[x]
      /\ req'[r].kind \notin OfSession
      /\ UNCHANGED <<token, spent, chain>>
  BY OtherChainSteps
<1>2. req'[r].kind # "refresh"
  BY <1>1 DEF OfSession
<1> HIDE DEF Typed, Chains
<1> QED
  BY <1>1, <1>2, ChainsKept

LEMMA SessionChains ==
    ASSUME Typed, Chains, Traffic = "apart", NEW r \in Slots, Refresh(r) \/ Logout(r)
    PROVE  Chains'
<1>1. PICK k \in spent, kind \in OfSession, s \in {"get", "drop"} :
        /\ FreeChain(k) /\ Start(r, Session(kind, k), s)
        /\ kind = "refresh" => s = "get"
  BY DEF Refresh, Logout, OfSession
<1>2. Session(kind, k).session = chain[k] /\ Session(kind, k).kind = kind
  BY DEF Session, Request
<1>3. /\ \A x \in Slots \ {r} : req'[x] = req[x] /\ step'[x] = step[x]
      /\ req'[r].kind = kind /\ req'[r].session = chain[k] /\ step'[r] = s
      /\ UNCHANGED <<token, spent, chain>>
  BY <1>1, <1>2 DEF Start, Goto, Typed, Requests
<1>4. \A x \in Slots : req[x].kind \in OfSession => req[x].session # chain[k]
  BY <1>1 DEF FreeChain, InFlight, OfSession
<1> HIDE DEF Typed, Chains
<1> QED
  BY <1>1, <1>3, <1>4, ChainsKept

\* Reading the token and the user: the request stays that of its session.
LEMMA LookupIs ==
    ASSUME Typed, NEW r \in Slots, GetToken(r) \/ FindUser(r)
    PROVE  /\ \A x \in Slots \ {r} : req'[x] = req[x] /\ step'[x] = step[x]
           /\ UNCHANGED <<token, spent, chain>>
           /\ req[r].kind = "refresh" /\ step[r] \in {"get", "find"}
           /\ \/ req'[r] = NoRequest /\ step'[r] = "idle"
              \/ /\ req'[r].kind = "refresh" /\ req'[r].session = req[r].session
                 /\ req'[r].token = req[r].token /\ step'[r] \in {"drop", "find", "rotate"}
                 /\ step[r] = "get" => token[req[r].token].there
<1>1. step[r] \in {"get", "find"} /\ UNCHANGED <<token, spent, chain>>
  BY DEF GetToken, FindUser
<1>2. req[r] \in Reqs /\ req[r].kind = "refresh"
  BY <1>1, OfSlot DEF Fits
<1>3. CASE Answer(r)
  BY <1>1, <1>2, <1>3, AnswerIs
<1>4. CASE GetToken(r) /\ ~Answer(r)
  <2>1. token[req[r].token].there
    BY <1>4 DEF GetToken
  <2>2. PICK s \in {"drop", "find"}, u \in {token[req[r].token].user} :
          req' = [req EXCEPT ![r].user = u] /\ Goto(r, s)
    BY <1>4 DEF GetToken
  <2> QED
    BY <1>1, <1>2, <2>1, <2>2 DEF Goto, Typed, Requests, Reqs
<1>5. CASE FindUser(r) /\ ~Answer(r)
  <2>1. Goto(r, "rotate") /\ UNCHANGED req /\ step[r] = "find"
    BY <1>5 DEF FindUser
  <2> QED
    BY <1>1, <1>2, <2>1 DEF Goto, Typed, Requests
<1> QED
  BY <1>3, <1>4, <1>5

LEMMA LookupChains ==
    ASSUME Typed, Chains, NEW r \in Slots, GetToken(r) \/ FindUser(r)
    PROVE  Chains'
<1>1. CASE req'[r] = NoRequest
  <2>1. req'[r].kind \notin OfSession /\ req'[r].kind # "refresh"
    BY <1>1, Empty DEF OfSession
  <2> HIDE DEF Typed, Chains
  <2> QED
    BY <2>1, LookupIs, ChainsKept
<1>2. CASE req'[r] # NoRequest
  <2>1. /\ req'[r].session = req[r].session /\ req'[r].token = req[r].token
        /\ step'[r] # "token" /\ req[r].kind = "refresh" /\ token[req[r].token].there
    BY <1>2, LookupIs DEF Chains
  <2>2. \A x \in Slots \ {r} : req[x].kind \in OfSession => req[x].session # req[r].session
    BY <2>1 DEF Chains, OfSession
  <2> HIDE DEF Typed, Chains
  <2> QED
    BY <2>1, <2>2, LookupIs, ChainsKept
<1> QED
  BY <1>1, <1>2

\* The deletion of a token of the request in r disturbs no other session.
LEMMA DeletedChains ==
    ASSUME Typed, Chains, NEW r \in Slots, req[r].kind \in OfSession,
           token' = Deleted(req[r].token), UNCHANGED chain,
           \A x \in Slots \ {r} : req'[x] = req[x] /\ step'[x] = step[x],
           \/ req'[r] = NoRequest /\ step'[r] = "idle"
           \/ req'[r] = req[r] /\ step'[r] = "token" /\ token[req[r].token].there
    PROVE  Chains'
<1> DEFINE k == req[r].token
<1>1. k \in Tokens /\ req[r].session = chain[k]
  BY OfSessionFits
<1>2. ~token'[k].there /\ \A l \in Tokens \ {k} : token'[l] = token[l]
  BY <1>1, Empty DEF Deleted, Typed, TypeOK
<1>3. \A l \in Tokens : token'[l].there => token[l].there
  BY <1>2
<1>4. NoRequest.kind \notin OfSession
  BY Empty DEF OfSession
<1>5. ASSUME NEW x \in Slots \ {r}, req[x].kind = "refresh"
      PROVE  req[x].token \in Tokens \ {k}
  <2>1. req[x].session # req[r].session
    BY <1>5 DEF Chains, OfSession
  <2> QED
    BY <1>1, <1>5, <2>1, OfSessionFits DEF OfSession
<1>6. token[k].there => \A l \in Tokens : chain[l] = req[r].session => ~token'[l].there
  BY <1>1, <1>2 DEF Chains
<1> HIDE DEF k, NoRequest
<1>7. \A x, q \in Slots :
           x # q /\ req'[x].kind \in OfSession /\ req'[q].kind \in OfSession =>
               req'[x].session # req'[q].session
  BY <1>4 DEF Chains
<1>8. \A l, m \in Tokens : token'[l].there /\ token'[m].there /\ chain'[l] = chain'[m] => l = m
  BY <1>3 DEF Chains
<1>9. ASSUME NEW x \in Slots, req'[x].kind = "refresh", step'[x] = "token",
             NEW l \in Tokens, chain'[l] = req'[x].session
      PROVE  ~token'[l].there
  BY <1>3, <1>6, <1>9 DEF Chains, k
<1>10. ASSUME NEW x \in Slots, req'[x].kind = "refresh", step'[x] \in {"find", "rotate", "drop"}
       PROVE  token'[req'[x].token].there
  BY <1>2, <1>4, <1>5, <1>10 DEF Chains, OfSession
<1> QED
  BY <1>7, <1>8, <1>9, <1>10 DEF Chains

LEMMA RotateIs ==
    ASSUME Typed, NEW r \in Slots, Rotate(r), LostDeletes = FALSE
    PROVE  /\ token' = Deleted(req[r].token) /\ UNCHANGED <<spent, chain, req>>
           /\ req[r].kind = "refresh" /\ step[r] = "rotate" /\ step'[r] = "token"
           /\ \A x \in Slots \ {r} : step'[x] = step[x]
<1>1. step[r] = "rotate" /\ Goto(r, "token")
  BY DEF Rotate
<1> QED
  BY <1>1, OfSlot DEF Rotate, Fits, Goto, Typed, Requests

LEMMA DropIs ==
    ASSUME Typed, NEW r \in Slots, Drop(r)
    PROVE  /\ token' = Deleted(req[r].token) /\ UNCHANGED <<spent, chain>>
           /\ req[r].kind \in OfSession /\ step[r] = "drop"
           /\ req'[r] = NoRequest /\ step'[r] = "idle"
           /\ \A x \in Slots \ {r} : req'[x] = req[x] /\ step'[x] = step[x]
  BY AnswerIs, OfSlot DEF Drop, Fits, OfSession

LEMMA DeletionChains ==
    ASSUME Typed, Chains, LostDeletes = FALSE, NEW r \in Slots, Rotate(r) \/ Drop(r)
    PROVE  Chains'
<1>1. CASE Rotate(r)
  <2>1. token[req[r].token].there /\ req[r].kind \in OfSession
    BY <1>1, RotateIs DEF Chains, OfSession
  <2> HIDE DEF Typed, Chains
  <2> QED
    BY <1>1, <2>1, RotateIs, DeletedChains
<1>2. CASE Drop(r)
  <2> HIDE DEF Typed, Chains
  <2> QED
    BY <1>2, DropIs, DeletedChains
<1> QED
  BY <1>1, <1>2

LEMMA InsertTokenIs ==
    ASSUME Typed, NEW r \in Slots, InsertToken(r)
    PROVE  \E k \in Tokens \ spent, s \in Tokens :
               /\ s = IF req[r].kind = "refresh" THEN req[r].session ELSE k
               /\ req[r].kind = "refresh" => s \in spent
               /\ token'[k].there /\ chain'[k] = s /\ spent' = spent \cup {k}
               /\ \A l \in Tokens \ {k} : token'[l] = token[l] /\ chain'[l] = chain[l]
               /\ req'[r] = NoRequest /\ step'[r] = "idle" /\ step[r] = "token"
               /\ \A x \in Slots \ {r} : req'[x] = req[x] /\ step'[x] = step[x]
<1>1. PICK k \in Tokens \ spent :
        /\ token' = [token EXCEPT ![k] = [there |-> TRUE, user |-> req[r].user]]
        /\ chain' = [chain EXCEPT ![k] =
                        IF req[r].session = None THEN k ELSE req[r].session]
        /\ spent' = spent \cup {k}
  BY DEF InsertToken
<1>2. step[r] = "token" /\ Answer(r)
  BY DEF InsertToken
<1> DEFINE s == IF req[r].kind = "refresh" THEN req[r].session ELSE k
<1>3. s = IF req[r].session = None THEN k ELSE req[r].session
  <2>1. CASE req[r].kind = "refresh"
    BY <2>1, OfSessionFits DEF OfSession
  <2>2. CASE req[r].kind # "refresh"
    BY <1>2, <2>2, OfSlot DEF Fits
  <2> QED
    BY <2>1, <2>2
<1>4. s \in Tokens /\ (req[r].kind = "refresh" => s \in spent)
  BY OfSessionFits DEF OfSession
<1> HIDE DEF s
<1>5. /\ token'[k].there /\ chain'[k] = s
      /\ \A l \in Tokens \ {k} : token'[l] = token[l] /\ chain'[l] = chain[l]
  BY <1>1, <1>3 DEF Typed, TypeOK, Chained
<1> QED
  BY <1>1, <1>2, <1>4, <1>5, AnswerIs DEF s

\* The tokens of a session that are there belong to no session that begins.
LEMMA InsertTokenChains ==
    ASSUME Typed, Chains, NEW r \in Slots, InsertToken(r)
    PROVE  Chains'
<1>1. PICK k \in Tokens \ spent, s \in Tokens :
        /\ s = IF req[r].kind = "refresh" THEN req[r].session ELSE k
        /\ req[r].kind = "refresh" => s \in spent
        /\ token'[k].there /\ chain'[k] = s /\ spent' = spent \cup {k}
        /\ \A l \in Tokens \ {k} : token'[l] = token[l] /\ chain'[l] = chain[l]
        /\ req'[r] = NoRequest /\ step'[r] = "idle" /\ step[r] = "token"
        /\ \A x \in Slots \ {r} : req'[x] = req[x] /\ step'[x] = step[x]
  BY InsertTokenIs
<1>2. \A l \in Tokens : token[l].there => l \in spent /\ chain[l] \in spent /\ l # k
  BY OfToken DEF Typed, Chained
<1>3. ASSUME NEW l \in Tokens \ {k}, token[l].there
      PROVE  chain[l] # s
  <2>1. CASE req[r].kind = "refresh"
    BY <1>1, <1>3, <2>1 DEF Chains
  <2>2. CASE req[r].kind # "refresh"
    BY <1>1, <1>2, <1>3, <2>2
  <2> QED
    BY <2>1, <2>2
<1>4. ASSUME NEW x \in Slots \ {r}, req[x].kind \in OfSession
      PROVE  req[x].session # s /\ req[x].token \in Tokens \ {k}
  <2>1. req[x].session \in spent /\ req[x].token \in spent /\ req[x].token \in Tokens
    BY <1>4, OfSessionFits
  <2>2. CASE req[r].kind = "refresh"
    <3>1. req[r].kind \in OfSession /\ s = req[r].session
      BY <1>1, <2>2 DEF OfSession
    <3> QED
      BY <1>1, <1>4, <2>1, <3>1 DEF Chains
  <2>3. CASE req[r].kind # "refresh"
    BY <1>1, <2>1, <2>3
  <2> QED
    BY <2>2, <2>3
<1>5. NoRequest.kind \notin OfSession
  BY Empty DEF OfSession
<1> HIDE DEF NoRequest
<1>6. \A x, q \in Slots :
           x # q /\ req'[x].kind \in OfSession /\ req'[q].kind \in OfSession =>
               req'[x].session # req'[q].session
  BY <1>1, <1>5 DEF Chains
<1>7. ASSUME NEW l \in Tokens, NEW m \in Tokens,
             token'[l].there, token'[m].there, chain'[l] = chain'[m]
      PROVE  l = m
  BY <1>1, <1>3, <1>7 DEF Chains
<1>8. ASSUME NEW x \in Slots, req'[x].kind = "refresh", step'[x] = "token",
             NEW l \in Tokens, chain'[l] = req'[x].session
      PROVE  ~token'[l].there
  <2>1. x # r /\ req[x].kind \in OfSession /\ req'[x] = req[x] /\ step'[x] = step[x]
    BY <1>1, <1>8 DEF OfSession
  <2>2. l # k
    BY <1>1, <1>4, <1>8, <2>1
  <2> QED
    BY <1>1, <1>8, <2>1, <2>2 DEF Chains
<1>9. ASSUME NEW x \in Slots, req'[x].kind = "refresh", step'[x] \in {"find", "rotate", "drop"}
      PROVE  token'[req'[x].token].there
  <2>1. x # r /\ req[x].kind \in OfSession /\ req'[x] = req[x] /\ step'[x] = step[x]
    BY <1>1, <1>9 DEF OfSession
  <2> QED
    BY <1>1, <1>4, <1>9, <2>1 DEF Chains
<1> QED
  BY <1>6, <1>7, <1>8, <1>9 DEF Chains

LEMMA NextChains ==
    ASSUME Typed, Chains, Traffic = "apart", LostDeletes = FALSE, [Next]_vars
    PROVE  Chains'
<1>1. CASE UNCHANGED vars
  BY <1>1 DEF vars, Chains
<1>2. CASE Next
  <2> HIDE DEF Typed, Chains
  <2> QED
    BY <1>2, OtherChains, SessionChains, LookupChains, DeletionChains, InsertTokenChains DEF Next
<1> QED
  BY <1>1, <1>2

\* A session has one request in flight and one token that is good, or none while
\* the old one is deleted and the new one not yet inserted, if its client sends
\* one refresh or logout at a time and the deletion does not fail by itself
\* (AuthService.Refresh).
THEOREM ChainsSound ==
    ASSUME Traffic = "apart", LostDeletes = FALSE
    PROVE  Spec => []Chains
<1>1. Init => Chains
  BY Empty DEF Init, Chains, OfSession
<1>2. Typed /\ Chains /\ [Next]_vars => Chains'
  BY NextChains
<1> QED
  BY <1>1, <1>2, WellTyped, PTL DEF Spec
-----------------------------------------------------------------------------
(* The refinement of SessionChain *)

\* The current token of a session that has one, is between two, or has none; and
\* the same after a step.
LEMMA CurrentIs ==
    ASSUME Typed, Chains, NEW s \in Tokens
    PROVE  /\ \A k \in Live(s) : Current(s) = k
           /\ \A r \in Between(s) : Live(s) = {} /\ Current(s) = req[r].token
           /\ Live(s) = {} /\ Between(s) = {} => Current(s) = None
<1>1. ASSUME NEW k \in Live(s)
      PROVE  Current(s) = k
  <2>1. Live(s) = {k}
    BY DEF Live, Chains
  <2> QED
    BY <2>1 DEF Current
<1>2. ASSUME NEW r \in Between(s)
      PROVE  Live(s) = {} /\ Current(s) = req[r].token
  <2>1. Live(s) = {}
    BY DEF Live, Between, InFlight, Chains
  <2>2. Between(s) = {r}
    BY DEF Between, InFlight, Chains, OfSession
  <2> QED
    BY <2>1, <2>2 DEF Current
<1> QED
  BY <1>1, <1>2 DEF Current

LEMMA CurrentBecomes ==
    ASSUME NEW s \in Tokens
    PROVE  /\ \A k : Live(s)' = {k} => Current(s)' = k
           /\ \A r : Live(s)' = {} /\ Between(s)' = {r} => Current(s)' = req'[r].token
           /\ Live(s)' = {} /\ Between(s)' = {} => Current(s)' = None
  BY DEF Current

LEMMA CurrentStays ==
    ASSUME NEW s \in Tokens, Live(s)' = Live(s), Between(s)' = Between(s),
           \A r \in Between(s) : req'[r].token = req[r].token
    PROVE  Current(s)' = Current(s)
<1>1. CASE Live(s) # {}
  BY <1>1 DEF Current
<1>2. CASE Live(s) = {} /\ Between(s) # {}
  <2>1. (CHOOSE r \in Between(s) : TRUE) \in Between(s)
    BY <1>2
  <2> QED
    BY <1>2, <2>1 DEF Current
<1>3. CASE Live(s) = {} /\ Between(s) = {}
  BY <1>3 DEF Current
<1> QED
  BY <1>1, <1>2, <1>3

\* A session that neither the tokens nor the step of the request in r are about.
LEMMA SessionStays ==
    ASSUME NEW s \in Tokens, NEW r \in Slots,
           \A k \in Tokens : token'[k].there /\ chain'[k] = s <=> token[k].there /\ chain[k] = s,
           \A x \in Slots \ {r} : req'[x] = req[x] /\ step'[x] = step[x],
           r \notin Between(s), r \notin Between(s)'
    PROVE  Current(s)' = Current(s)
<1>1. Live(s)' = Live(s)
  BY DEF Live
<1>2. Between(s)' = Between(s)
  BY DEF Between, InFlight
<1>3. \A x \in Between(s) : req'[x].token = req[x].token
  BY DEF Between, InFlight
<1> QED
  BY <1>1, <1>2, <1>3, CurrentStays

bar == [s \in Tokens |-> Current(s)]

\* The steps of the promise, in terms of the current tokens.
LEMMA PromisedClose ==
    ASSUME NEW s \in Tokens, Current(s)' = None, UNCHANGED spent,
           \A x \in Tokens \ {s} : Current(x)' = Current(x)
    PROVE  Chain!Next
<1>1. bar' = [bar EXCEPT ![s] = None]
  BY DEF bar
<1> QED
  BY <1>1 DEF bar, Chain!Next, Chain!Close

LEMMA PromisedOpen ==
    ASSUME NEW s \in Tokens \ spent, Current(s)' = s, spent' = spent \cup {s},
           \A x \in Tokens \ {s} : Current(x)' = Current(x)
    PROVE  Chain!Next
<1>1. bar' = [bar EXCEPT ![s] = s]
  BY DEF bar
<1> QED
  BY <1>1 DEF bar, Chain!Next, Chain!Open

LEMMA PromisedRotate ==
    ASSUME NEW s \in Tokens, NEW k \in Tokens \ spent, Current(s) # None, Current(s)' = k,
           spent' = spent \cup {k}, \A x \in Tokens \ {s} : Current(x)' = Current(x)
    PROVE  Chain!Next
<1>1. bar' = [bar EXCEPT ![s] = k] /\ bar[s] # None
  BY DEF bar
<1> QED
  BY <1>1 DEF bar, Chain!Next, Chain!Rotate

LEMMA PromisedStutter ==
    ASSUME \A s \in Tokens : Current(s)' = Current(s), UNCHANGED spent
    PROVE  UNCHANGED <<bar, spent>>
  BY DEF bar

\* A request that ends between two tokens closes its session.
LEMMA InterruptPromised ==
    ASSUME Typed, Chains, NEW r \in Slots, Interrupt(r)
    PROVE  Chain!Next \/ UNCHANGED <<bar, spent>>
<1>1. /\ \A x \in Slots \ {r} : req'[x] = req[x] /\ step'[x] = step[x]
      /\ req'[r] = NoRequest /\ step'[r] = "idle" /\ UNCHANGED <<token, spent, chain>>
  BY AnswerIs DEF Interrupt
<1>2. \A s \in Tokens : r \notin Between(s)'
  BY <1>1 DEF Between
<1>3. ASSUME NEW s \in Tokens, r \notin Between(s)
      PROVE  Current(s)' = Current(s)
  BY <1>1, <1>2, <1>3, SessionStays
<1>4. CASE \E s \in Tokens : r \in Between(s)
  <2>1. PICK s \in Tokens : r \in Between(s)
    BY <1>4
  <2>2. Live(s) = {} /\ Between(s) = {r}
    BY <2>1, CurrentIs DEF Between, InFlight, Chains, OfSession
  <2>3. Live(s)' = {}
    BY <1>1, <2>2 DEF Live
  <2>4. Between(s)' = {}
    BY <1>1, <1>2, <2>2 DEF Between, InFlight
  <2>5. Current(s)' = None
    BY <2>3, <2>4, CurrentBecomes
  <2>6. \A x \in Tokens \ {s} : r \notin Between(x)
    BY <2>1 DEF Between
  <2> QED
    BY <1>1, <1>3, <2>5, <2>6, PromisedClose
<1>5. CASE \A s \in Tokens : r \notin Between(s)
  BY <1>1, <1>3, <1>5, PromisedStutter
<1> QED
  BY <1>4, <1>5

\* Steps before the deletion of a token.
LEMMA EarlyStutter ==
    ASSUME Typed, NEW r \in Slots,
           \/ Signup(r) \/ InsertUser(r) \/ InsertAccount(r) \/ InsertOwner(r) \/ Signin(r)
           \/ UpdateMyProfile(r) \/ ChangePassword(r) \/ FindSelf(r) \/ Compare(r)
           \/ UpdatePassword(r) \/ Refresh(r) \/ Logout(r) \/ GetToken(r) \/ FindUser(r),
           ~Interrupt(r)
    PROVE  UNCHANGED <<bar, spent>>
<1>1. /\ \A x \in Slots \ {r} : req'[x] = req[x] /\ step'[x] = step[x]
      /\ UNCHANGED <<token, spent, chain>>
      /\ req[r].kind # "refresh" \/ step[r] # "token"
      /\ req'[r].kind # "refresh" \/ step'[r] # "token"
  <2>1. CASE Refresh(r) \/ Logout(r)
    BY <2>1 DEF Refresh, Logout, Start, Goto, Typed, Requests
  <2>2. CASE GetToken(r) \/ FindUser(r)
    BY <2>2, LookupIs
  <2>3. CASE ~(Refresh(r) \/ Logout(r) \/ GetToken(r) \/ FindUser(r))
    BY <2>3, OtherChainSteps DEF OfSession
  <2> QED
    BY <2>1, <2>2, <2>3
<1>2. \A s \in Tokens : r \notin Between(s) /\ r \notin Between(s)'
  BY <1>1 DEF Between, InFlight
<1>3. \A s \in Tokens : Current(s)' = Current(s)
  BY <1>1, <1>2, SessionStays
<1> QED
  BY <1>1, <1>3, PromisedStutter

\* A deleted token stays the current one until the next is inserted.
LEMMA RotatePromised ==
    ASSUME Typed, Chains, LostDeletes = FALSE, NEW r \in Slots, Rotate(r)
    PROVE  UNCHANGED <<bar, spent>>
<1>0. req[r].token \in Tokens /\ req[r].session \in Tokens
  BY RotateIs, OfSessionFits DEF OfSession
<1>a. PICK k \in Tokens, s \in Tokens : k = req[r].token /\ s = req[r].session
  BY <1>0
<1>1. /\ token' = Deleted(k) /\ UNCHANGED <<spent, chain, req>>
      /\ req[r].kind = "refresh" /\ step[r] = "rotate" /\ step'[r] = "token"
      /\ \A x \in Slots \ {r} : step'[x] = step[x]
  BY <1>a, RotateIs
<1>2. k \in Tokens /\ s = chain[k] /\ s \in Tokens /\ token[k].there
  BY <1>1, <1>a, OfSessionFits DEF OfSession, Chains
<1>3. ~token'[k].there /\ \A l \in Tokens \ {k} : token'[l] = token[l]
  BY <1>1, <1>2, Empty DEF Deleted, Typed, TypeOK
<1>4. Current(s) = k
  BY <1>2, CurrentIs DEF Live
<1>5. Live(s)' = {}
  BY <1>1, <1>2, <1>3 DEF Live, Chains
<1>6. Between(s)' = {r}
  <2>1. \A x \in Slots \ {r} : req[x].kind = "refresh" => req[x].session # s
    BY <1>1, <1>a DEF Chains, OfSession
  <2>2. r \in Between(s)'
    BY <1>1, <1>a DEF Between, InFlight
  <2>3. \A x \in Slots \ {r} : x \notin Between(s)'
    BY <1>1, <2>1 DEF Between, InFlight
  <2> QED
    BY <2>2, <2>3 DEF Between, InFlight
<1>7. Current(s)' = k
  BY <1>1, <1>2, <1>5, <1>6, <1>a, CurrentBecomes
<1>8. ASSUME NEW x \in Tokens \ {s}
      PROVE  Current(x)' = Current(x)
  <2>1. \A l \in Tokens : token'[l].there /\ chain'[l] = x <=> token[l].there /\ chain[l] = x
    BY <1>1, <1>2, <1>3
  <2>2. r \notin Between(x) /\ r \notin Between(x)'
    BY <1>1, <1>a DEF Between
  <2> QED
    BY <1>1, <2>1, <2>2, SessionStays
<1> QED
  BY <1>1, <1>2, <1>4, <1>7, <1>8, PromisedStutter

\* A logout, or a token found to have expired, closes the session unless the
\* token was no longer the good one.
LEMMA DropPromised ==
    ASSUME Typed, Chains, NEW r \in Slots, Drop(r)
    PROVE  Chain!Next \/ UNCHANGED <<bar, spent>>
<1>0. req[r].token \in Tokens /\ req[r].session \in Tokens
  BY DropIs, OfSessionFits
<1>a. PICK k \in Tokens, s \in Tokens : k = req[r].token /\ s = req[r].session
  BY <1>0
<1>1. /\ token' = Deleted(k) /\ UNCHANGED <<spent, chain>>
      /\ req[r].kind \in OfSession /\ step[r] = "drop"
      /\ req'[r] = NoRequest /\ step'[r] = "idle"
      /\ \A x \in Slots \ {r} : req'[x] = req[x] /\ step'[x] = step[x]
  BY <1>a, DropIs
<1>2. k \in Tokens /\ s = chain[k] /\ s \in Tokens
  BY <1>1, <1>a, OfSessionFits
<1>3. ~token'[k].there /\ \A l \in Tokens \ {k} : token'[l] = token[l]
  BY <1>1, <1>2, Empty DEF Deleted, Typed, TypeOK
<1>4. \A x \in Tokens : r \notin Between(x) /\ r \notin Between(x)'
  BY <1>1 DEF Between
<1>5. \A x \in Slots : x \notin Between(s)
  <2>1. \A x \in Slots \ {r} : req[x].kind \in OfSession => req[x].session # s
    BY <1>1, <1>a DEF Chains
  <2> QED
    BY <1>2, <1>4, <2>1 DEF Between, InFlight, OfSession
<1>6. ASSUME NEW x \in Tokens, x # s \/ ~token[k].there
      PROVE  Current(x)' = Current(x)
  <2>1. \A l \in Tokens : token'[l].there /\ chain'[l] = x <=> token[l].there /\ chain[l] = x
    BY <1>1, <1>2, <1>3, <1>6
  <2> QED
    BY <1>1, <1>4, <2>1, SessionStays
<1>7. CASE token[k].there
  <2>1. Live(s)' = {}
    BY <1>1, <1>2, <1>3, <1>7 DEF Live, Chains
  <2>2. Between(s)' = {}
    BY <1>1, <1>2, <1>4, <1>5 DEF Between, InFlight
  <2>3. Current(s)' = None
    BY <1>2, <2>1, <2>2, CurrentBecomes
  <2> QED
    BY <1>1, <1>2, <1>6, <2>3, PromisedClose
<1>8. CASE ~token[k].there
  BY <1>1, <1>6, <1>8, PromisedStutter
<1> QED
  BY <1>7, <1>8

\* A new token is the first of a session, or replaces the one deleted before.
LEMMA InsertTokenPromised ==
    ASSUME Typed, Chains, NEW r \in Slots, InsertToken(r)
    PROVE  Chain!Next
<1>1. PICK k \in Tokens \ spent, s \in Tokens :
        /\ s = IF req[r].kind = "refresh" THEN req[r].session ELSE k
        /\ req[r].kind = "refresh" => s \in spent
        /\ token'[k].there /\ chain'[k] = s /\ spent' = spent \cup {k}
        /\ \A l \in Tokens \ {k} : token'[l] = token[l] /\ chain'[l] = chain[l]
        /\ req'[r] = NoRequest /\ step'[r] = "idle" /\ step[r] = "token"
        /\ \A x \in Slots \ {r} : req'[x] = req[x] /\ step'[x] = step[x]
  BY InsertTokenIs
<1>2. \A l \in Tokens : token[l].there => l \in spent /\ chain[l] \in spent
  BY OfToken DEF Typed, Chained
<1>3. \A x \in Tokens : r \notin Between(x)'
  BY <1>1 DEF Between
<1>4. Live(s) = {}
  <2>1. CASE req[r].kind = "refresh"
    BY <1>1, <2>1 DEF Live, Chains
  <2>2. CASE req[r].kind # "refresh"
    BY <1>1, <1>2, <2>2 DEF Live
  <2> QED
    BY <2>1, <2>2
<1>5. Live(s)' = {k}
  <2>1. k \in Live(s)'
    BY <1>1 DEF Live
  <2>2. \A l \in Tokens \ {k} : l \notin Live(s)'
    BY <1>1, <1>4 DEF Live
  <2> QED
    BY <2>1, <2>2 DEF Live
<1>6. Current(s)' = k
  BY <1>5, CurrentBecomes
<1>7. ASSUME NEW x \in Tokens \ {s}
      PROVE  Current(x)' = Current(x)
  <2>1. \A l \in Tokens : token'[l].there /\ chain'[l] = x <=> token[l].there /\ chain[l] = x
    BY <1>1, <1>2
  <2>2. r \notin Between(x)
    BY <1>1 DEF Between, InFlight
  <2> QED
    BY <1>1, <1>3, <2>1, <2>2, SessionStays
<1>8. CASE req[r].kind = "refresh"
  <2>1. r \in Between(s)
    BY <1>1, <1>8 DEF Between, InFlight
  <2>2. req[r].token \in Tokens
    BY <1>8, OfSessionFits DEF OfSession
  <2>3. Current(s) # None
    BY <2>1, <2>2, CurrentIs, SessionsAssumption
  <2> QED
    BY <1>1, <1>6, <1>7, <2>3, PromisedRotate
<1>9. CASE req[r].kind # "refresh"
  BY <1>1, <1>6, <1>7, <1>9, PromisedOpen
<1> QED
  BY <1>8, <1>9

LEMMA StepPromised ==
    ASSUME Typed, Chains, LostDeletes = FALSE, [Next]_vars
    PROVE  [Chain!Next]_<<bar, spent>>
<1>1. CASE UNCHANGED vars
  <2>1. \A s \in Tokens : Live(s)' = Live(s) /\ Between(s)' = Between(s)
    BY <1>1 DEF vars, Live, Between, InFlight
  <2>2. \A s \in Tokens : Current(s)' = Current(s)
    BY <1>1, <2>1, CurrentStays DEF vars
  <2> QED
    BY <1>1, <2>2, PromisedStutter DEF vars
<1>2. CASE Next
  <2> HIDE DEF Typed, Chains, bar
  <2> QED
    BY <1>2, InterruptPromised, EarlyStutter, RotatePromised, DropPromised, InsertTokenPromised
       DEF Next
<1> QED
  BY <1>1, <1>2

\* To a client who sends one refresh or logout of a session at a time, sessions
\* are chains in which one token at most is good and none is good twice, though
\* the old token is deleted and the new one inserted by statements that commit by
\* themselves.  This takes that the deletion of the old token does not fail by
\* itself: the code drops its error and hands out the new token all the same
\* (AuthService.Refresh).
THEOREM SessionsRefine ==
    ASSUME Traffic = "apart", LostDeletes = FALSE
    PROVE  Spec => SessionsAreChains
<1>1. Init => Chain!Init
  BY DEF Init, Chain!Init, Current, Live, Between, InFlight, NoToken
<1>2. Typed /\ Chains /\ [Next]_vars => [Chain!Next]_<<bar, spent>>
  BY StepPromised
<1> QED
  BY <1>1, <1>2, WellTyped, ChainsSound, PTL DEF Spec, SessionsAreChains, Chain!Spec, bar
=============================================================================
