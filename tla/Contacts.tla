------------------------------- MODULE Contacts -------------------------------
(***************************************************************************)
(* The contacts of one user and the users they are linked to:              *)
(* ContactService with ContactRepo, and the profiles AuthService updates.  *)
(*                                                                         *)
(* Every statement commits by itself.  A creation looks up the user whose  *)
(* address the contact has and then inserts; an update reads the contact,  *)
(* looks the user up again when an address is given, and writes back every *)
(* column, read or given.  GetOrCreateByName lists before it creates.      *)
(***************************************************************************)
EXTENDS Naturals, FiniteSets

CONSTANTS
    Users, Emails, Phones, Names,
    Bodies,      \* what a client may give: [name, email, phone], None where it gives nothing
    Blank,       \* an address of blanks
    Slots,       \* requests the server executes at the same time
    MaxContacts, \* bound: contacts ever created
    MaxRequests, \* bound: requests ever made
    None

ContactIds == 1..MaxContacts
Addresses == Emails \cup Phones
Body == [name : Names \cup {None}, email : Emails \cup {Blank, None},
         phone : Phones \cup {Blank, None}]
ContactsAssumption ==
    /\ Bodies \subseteq Body
    /\ MaxContacts \in Nat /\ MaxRequests \in Nat
    /\ None \notin Users /\ None \notin Addresses \cup Names /\ None \notin ContactIds

VARIABLES
    contact, \* contacts, by id
    created, \* ids given out: 1 to created
    email,   \* users.email, unique
    phone,   \* users.phone, unique
    had,     \* history: the addresses each user has had
    req,     \* the request each slot serves
    begun    \* how many requests have begun

contactVars == <<contact, created, email, phone, had, req, begun>>

-----------------------------------------------------------------------------
NoContact == [state |-> "none", name |-> None, email |-> None, phone |-> None, link |-> None]
Idle == [op |-> "none", step |-> "idle", id |-> None, row |-> NoContact, relink |-> FALSE]

\* What a body gives replaces what the row has.
Given(row, body) ==
    [row EXCEPT !.name = IF body.name = None THEN @ ELSE body.name,
                !.email = IF body.email = None THEN @ ELSE body.email,
                !.phone = IF body.phone = None THEN @ ELSE body.phone]

\* The e-mail address decides; the phone number does when there is none.
Present(address) == address \notin {None, Blank}
Address(row) == IF Present(row.email) THEN row.email
                ELSE IF Present(row.phone) THEN row.phone ELSE None

\* FindUserByEmailTx, FindUserByPhoneTx
Find(address) ==
    LET found == {u \in Users : address # None /\ address \in {email[u], phone[u]}}
    IN  IF found = {} THEN None ELSE CHOOSE u \in found : TRUE

Init ==
    /\ contact = [c \in ContactIds |-> NoContact]
    /\ created = 0
    /\ email = [u \in Users |-> None]
    /\ phone = [u \in Users |-> None]
    /\ had = [u \in Users |-> {}]
    /\ req = [r \in Slots |-> Idle]
    /\ begun = 0

At(r, s) == req[r].step = s
Goto(r, s) == req' = [req EXCEPT ![r].step = s]
Answer(r) == req' = [req EXCEPT ![r] = Idle]
NoStore == UNCHANGED <<contact, created, email, phone, had>>

Begin(r) ==
    /\ At(r, "idle")
    /\ begun < MaxRequests /\ begun' = begun + 1
    /\ NoStore
Request(r, op, step, id, row, relink) ==
    req' = [req EXCEPT ![r] =
              [op |-> op, step |-> step, id |-> id, row |-> row, relink |-> relink]]

\* POST /contacts
BeginCreate(r, body) ==
    /\ Begin(r)
    /\ body.name # None
    /\ Request(r, "create", "link", None, Given(NoContact, body), TRUE)

\* PATCH /contacts/{id}
BeginUpdate(r, c, body) ==
    /\ Begin(r)
    /\ Request(r, "update", "read", c, Given(NoContact, body), FALSE)

\* GetOrCreateByName, for a debt that names its contact.
BeginResolve(r, name) ==
    /\ Begin(r)
    /\ Request(r, "create", "list", None, [NoContact EXCEPT !.name = name], TRUE)

\* A contact of that name will do; otherwise one is created.
ListContacts(r) ==
    /\ At(r, "list")
    /\ IF \E c \in ContactIds : contact[c].state = "live" /\ contact[c].name = req[r].row.name
       THEN Answer(r) ELSE Goto(r, "link")
    /\ NoStore /\ UNCHANGED begun

\* GetContactTx; the fields given replace those read.
ReadContact(r) ==
    /\ At(r, "read")
    /\ LET cur == contact[req[r].id]
           body == req[r].row
       IN  IF cur.state # "live" THEN Answer(r)
           ELSE Request(r, "update",
                        IF body.email # None \/ body.phone # None THEN "link" ELSE "write",
                        req[r].id, Given(cur, body), TRUE)
    /\ NoStore /\ UNCHANGED begun

\* The user who has the address now, or none; a lookup that fails finds none.
LinkUser(r) ==
    /\ At(r, "link")
    /\ \E u \in {Find(Address(req[r].row)), None} :
         req' = [req EXCEPT ![r].step = "write", ![r].row.link = u]
    /\ NoStore /\ UNCHANGED begun

\* CreateContactTx; Create then reads the contact back for its answer.
CreateContact(r) ==
    /\ At(r, "write") /\ req[r].op = "create"
    /\ created < MaxContacts /\ created' = created + 1
    /\ contact' = [contact EXCEPT ![created'] = [req[r].row EXCEPT !.state = "live"]]
    /\ Answer(r)
    /\ UNCHANGED <<email, phone, had, begun>>

\* Fault: only the addresses that changed are written, and the link with them.
Sparse(row, new) ==
    [row EXCEPT !.email = IF new.email = None THEN @ ELSE new.email,
                !.phone = IF new.phone = None THEN @ ELSE new.phone,
                !.link = IF new.link = None THEN @ ELSE new.link]

\* Every column is written.
Written(row, new) == [new EXCEPT !.state = row.state]

Updatable(c) == contact[c].state = "live"

\* UpdateContactTx: no error when no row matches.
UpdateContact(r) ==
    /\ At(r, "write") /\ req[r].op = "update"
    /\ contact' = IF Updatable(req[r].id)
                  THEN [contact EXCEPT ![req[r].id] = Written(@, req[r].row)]
                  ELSE contact
    /\ Answer(r)
    /\ UNCHANGED <<created, email, phone, had, begun>>

\* DeleteContactTx.  To delete a contact again only gives its row a later
\* deleted_at, which nothing reads.
DeleteContact(c) ==
    /\ contact[c].state = "live"
    /\ contact' = [contact EXCEPT ![c].state = "deleted"]
    /\ UNCHANGED <<created, email, phone, had, req, begun>>

\* UpdateUserProfileTx: a unique index refuses an address another user has.
UpdateProfile(u, e, p) ==
    /\ e # None \/ p # None
    /\ \A v \in Users \ {u} : (e # None => email[v] # e) /\ (p # None => phone[v] # p)
    /\ email' = IF e = None THEN email ELSE [email EXCEPT ![u] = e]
    /\ phone' = IF p = None THEN phone ELSE [phone EXCEPT ![u] = p]
    /\ had' = [had EXCEPT ![u] = @ \cup ({e, p} \ {None})]
    /\ UNCHANGED <<contact, created, req, begun>>

\* The client leaves, or the connection is lost.
Abort(r) == ~At(r, "idle") /\ Answer(r) /\ NoStore /\ UNCHANGED begun

Next ==
    \/ \E r \in Slots :
         \/ \E b \in Bodies : BeginCreate(r, b)
         \/ \E b \in Bodies, c \in 1..created : BeginUpdate(r, c, b)
         \/ \E n \in Names : BeginResolve(r, n)
         \/ ListContacts(r) \/ ReadContact(r) \/ LinkUser(r)
         \/ CreateContact(r) \/ UpdateContact(r) \/ Abort(r)
    \/ \E c \in ContactIds : DeleteContact(c)
    \/ \E u \in Users, e \in Emails \cup {None}, p \in Phones \cup {None} :
         UpdateProfile(u, e, p)

Spec == Init /\ [][Next]_contactVars

-----------------------------------------------------------------------------
TypeOK ==
    /\ \A c \in ContactIds :
         /\ contact[c].state \in {"none", "live", "deleted"}
         /\ contact[c].link \in Users \cup {None}
    /\ created \in 0..MaxContacts /\ begun \in 0..MaxRequests
    /\ email \in [Users -> Emails \cup {None}]
    /\ phone \in [Users -> Phones \cup {None}]

\* A contact is linked to no one but a user who has had the address the contact
\* has, although the address, the link and the user's profile are read and
\* written by statements of requests that overlap (Update, Create,
\* UpdateMyProfile).
LinksFollowAddresses ==
    \A c \in ContactIds : contact[c].link # None =>
      Address(contact[c]) \in had[contact[c].link]

\* A contact that was deleted is never brought back or changed by an update
\* that read it before.
DeletedContactsStay ==
    [][\A c \in ContactIds : contact[c].state = "deleted" => contact'[c] = contact[c]]_contactVars
=============================================================================
