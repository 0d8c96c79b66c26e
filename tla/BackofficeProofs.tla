--------------------------- MODULE BackofficeProofs ---------------------------
(***************************************************************************)
(* What the smaller parts of the server promise, for any users, rows,      *)
(* requests and bounds.                                                    *)
(***************************************************************************)
EXTENDS Backoffice, DebtLedgerProofs

\* Each part keeps to its own specification, whichever one runs.
LEMMA PartsRun ==
    BackofficeSpec =>
      /\ Spec /\ Fine!Spec /\ Trading!Spec /\ Paging!Spec /\ Knowing!Spec /\ Budgeting!Spec
      /\ Scheduling!Spec /\ Reporting!Spec /\ Queueing!Spec /\ Auditing!Spec /\ Tagging!Spec
<1>1. BackofficeInit =>
        /\ Init /\ Fine!Init /\ Trading!Init /\ Paging!Init /\ Knowing!Init /\ Budgeting!Init
        /\ Scheduling!Init /\ Reporting!Init /\ Queueing!Init /\ Auditing!Init /\ Tagging!Init
  BY DEF BackofficeInit
<1>2. ASSUME [BackofficeNext]_<<part, vars, fine, trading, paging, knowing, budgeting,
                       scheduling, reporting, queueing, auditing, tagging>>
      PROVE  /\ [Next]_vars /\ [Fine!Next]_Fine!vars /\ [Trading!Next]_Trading!tradeVars
             /\ [Paging!Next]_Paging!pageVars /\ [Knowing!Next]_Knowing!contactVars
             /\ [Budgeting!Next]_Budgeting!budgetVars
             /\ [Scheduling!Next]_Scheduling!scheduleVars
             /\ [Reporting!Next]_Reporting!reportVars /\ [Queueing!Next]_Queueing!marketVars
             /\ [Auditing!Next]_Auditing!auditVars /\ [Tagging!Next]_Tagging!tagVars
  <2>1. [Next]_vars BY <1>2 DEF BackofficeNext
  <2>2. [Fine!Next]_Fine!vars BY <1>2 DEF BackofficeNext, fine, Fine!vars
  <2>3. [Trading!Next]_Trading!tradeVars
    BY <1>2 DEF BackofficeNext, trading, Trading!tradeVars
  <2>4. [Paging!Next]_Paging!pageVars BY <1>2 DEF BackofficeNext, paging, Paging!pageVars
  <2>5. [Knowing!Next]_Knowing!contactVars
    BY <1>2 DEF BackofficeNext, knowing, Knowing!contactVars
  <2>6. [Budgeting!Next]_Budgeting!budgetVars
    BY <1>2 DEF BackofficeNext, budgeting, Budgeting!budgetVars
  <2>7. [Scheduling!Next]_Scheduling!scheduleVars
    BY <1>2 DEF BackofficeNext, scheduling, Scheduling!scheduleVars
  <2>8. [Reporting!Next]_Reporting!reportVars
    BY <1>2 DEF BackofficeNext, reporting, Reporting!reportVars
  <2>9. [Queueing!Next]_Queueing!marketVars
    BY <1>2 DEF BackofficeNext, queueing, Queueing!marketVars
  <2>10. [Auditing!Next]_Auditing!auditVars
    BY <1>2 DEF BackofficeNext, auditing, Auditing!auditVars
  <2>11. [Tagging!Next]_Tagging!tagVars
    BY <1>2 DEF BackofficeNext, tagging, Tagging!tagVars
  <2>. QED
    BY <2>1, <2>2, <2>3, <2>4, <2>5, <2>6, <2>7, <2>8, <2>9, <2>10, <2>11
<1>. QED
  BY <1>1, <1>2, PTL
     DEF BackofficeSpec, Spec, Fine!Spec, Trading!Spec, Paging!Spec, Knowing!Spec,
         Budgeting!Spec, Scheduling!Spec, Reporting!Spec, Queueing!Spec, Auditing!Spec,
         Tagging!Spec

-----------------------------------------------------------------------------
(* Contacts.  Every row, and every row a request is about to write, is      *)
(* linked to no one or to someone who has had its address (Linked): an      *)
(* update that gives no address writes those it read, with their link.      *)

ContactRow ==
    [state : {"none", "live", "deleted"}, name : Names \cup {None},
     email : Emails \cup {Blank, None}, phone : Phones \cup {Blank, None},
     link : People \cup {None}]
ContactRequest ==
    [op : {"none", "create", "update"},
     step : {"idle", "list", "read", "link", "write"},
     id : Knowing!ContactIds \cup {None}, row : ContactRow, relink : BOOLEAN]

ContactsTyped ==
    /\ contact \in [Knowing!ContactIds -> ContactRow]
    /\ contacts \in 0..MaxContacts /\ contactsBegun \in 0..ContactRequests
    /\ email \in [People -> Emails \cup {None}]
    /\ phone \in [People -> Phones \cup {None}]
    /\ had \in [People -> SUBSET Knowing!Addresses]
    /\ contactReq \in [Slots -> ContactRequest]
    /\ \A r \in Slots :
         contactReq[r].step = "read" \/ contactReq[r].op = "update" =>
           contactReq[r].id \in Knowing!ContactIds

AddressesHad ==
    \A u \in People : /\ email[u] # None => email[u] \in had[u]
                      /\ phone[u] # None => phone[u] \in had[u]

Linked(row) == row.link # None => Knowing!Address(row) \in had[row.link]
RowsLinked ==
    /\ \A c \in Knowing!ContactIds : Linked(contact[c])
    /\ \A r \in Slots : contactReq[r].step = "write" => Linked(contactReq[r].row)

ContactsGiven ==
    \A c \in Knowing!ContactIds : contact[c].state # "none" => c <= contacts

ContactsInv == ContactsTyped /\ AddressesHad /\ RowsLinked /\ ContactsGiven

\* What is given over a row is a row.
LEMMA GivenIsRow ==
    ASSUME NEW row \in ContactRow, NEW body,
           body.name \in Names \cup {None}, body.email \in Emails \cup {Blank, None},
           body.phone \in Phones \cup {Blank, None}
    PROVE  /\ Knowing!Given(row, body) \in ContactRow
           /\ Knowing!Given(row, body).link = row.link
           /\ body.email = None => Knowing!Given(row, body).email = row.email
           /\ body.phone = None => Knowing!Given(row, body).phone = row.phone
<1>. DEFINE name == IF body.name = None THEN row.name ELSE body.name
            address == IF body.email = None THEN row.email ELSE body.email
            number == IF body.phone = None THEN row.phone ELSE body.phone
            new == [[[row EXCEPT !.name = name] EXCEPT !.email = address] EXCEPT !.phone = number]
<1>1. Knowing!Given(row, body) = new
  BY DEF Knowing!Given, ContactRow
<1>2. name \in Names \cup {None} /\ address \in Emails \cup {Blank, None}
      /\ number \in Phones \cup {Blank, None}
  BY DEF ContactRow
<1>3. /\ body.email = None => address = row.email
      /\ body.phone = None => number = row.phone
  OBVIOUS
<1>. HIDE DEF name, address, number
<1>4. new \in ContactRow /\ new.link = row.link /\ new.email = address /\ new.phone = number
  BY <1>2 DEF ContactRow
<1>. HIDE DEF new
<1>. QED BY <1>1, <1>3, <1>4

\* The address decides for the link, and nothing else of the row does.
LEMMA SameAddressLinked ==
    ASSUME NEW row \in ContactRow, NEW new \in ContactRow, Linked(row),
           new.link = row.link, new.email = row.email, new.phone = row.phone
    PROVE  Linked(new)
  BY DEF Linked, Knowing!Address

\* The user that is found has the address now.
LEMMA FoundHasAddress ==
    ASSUME ContactsTyped, AddressesHad, NEW row \in ContactRow,
           Knowing!Find(Knowing!Address(row)) # None
    PROVE  /\ Knowing!Find(Knowing!Address(row)) \in People
           /\ Knowing!Address(row) \in had[Knowing!Find(Knowing!Address(row))]
<1>. DEFINE a == Knowing!Address(row)
            found == {u \in People : a # None /\ a \in {email[u], phone[u]}}
<1>1. found # {} /\ Knowing!Find(a) \in found
  BY DEF Knowing!Find
<1>. QED BY <1>1 DEF AddressesHad

LEMMA ContactsInit == BackofficeAssumption /\ Knowing!Init => ContactsInv
<1> SUFFICES ASSUME BackofficeAssumption, Knowing!Init PROVE ContactsInv
  OBVIOUS
<1>. USE DEF Knowing!Init
<1>0. Knowing!NoContact \in ContactRow /\ Knowing!NoContact.link = None
  BY DEF Knowing!NoContact, ContactRow
<1>1. Knowing!Idle \in ContactRequest /\ Knowing!Idle.step = "idle" /\ Knowing!Idle.op = "none"
  BY <1>0 DEF Knowing!Idle, ContactRequest
<1>2. ContactsTyped
  BY <1>0, <1>1 DEF ContactsTyped, BackofficeAssumption, Knowing!ContactsAssumption
<1>3. AddressesHad
  BY DEF AddressesHad
<1>4. RowsLinked
  BY <1>0, <1>1 DEF RowsLinked, Linked
<1>5. ContactsGiven
  BY DEF ContactsGiven, Knowing!NoContact
<1>. QED BY <1>2, <1>3, <1>4, <1>5 DEF ContactsInv

\* A request that goes on or ends, and leaves the tables alone.
LEMMA ContactRequestsGoOn ==
    ASSUME ContactsInv, NEW r \in Slots, NEW q \in ContactRequest,
           q.step = "read" \/ q.op = "update" => q.id \in Knowing!ContactIds,
           q.step = "write" => Linked(q.row),
           contactReq' = [contactReq EXCEPT ![r] = q],
           contactsBegun' \in 0..ContactRequests, Knowing!NoStore
    PROVE  ContactsInv'
<1>1. ContactsTyped'
  BY DEF ContactsInv, ContactsTyped, Knowing!NoStore
<1>2. AddressesHad'
  BY DEF ContactsInv, AddressesHad, Knowing!NoStore
<1>3. RowsLinked'
  <2>1. \A s \in Slots : contactReq'[s] = IF s = r THEN q ELSE contactReq[s]
    BY DEF ContactsInv, ContactsTyped
  <2>. QED BY <2>1 DEF ContactsInv, RowsLinked, Linked, Knowing!NoStore
<1>4. ContactsGiven'
  BY DEF ContactsInv, ContactsGiven, Knowing!NoStore
<1>. QED BY <1>1, <1>2, <1>3, <1>4 DEF ContactsInv

\* A contact is written by a request that ends.
LEMMA ContactWritten ==
    ASSUME ContactsInv, NEW r \in Slots, NEW c \in Knowing!ContactIds,
           NEW row \in ContactRow, Linked(row),
           contact' = [contact EXCEPT ![c] = row], Knowing!Answer(r),
           contacts' \in 0..MaxContacts, contacts <= contacts', c <= contacts',
           UNCHANGED <<email, phone, had, contactsBegun>>
    PROVE  ContactsInv'
<1>0. Knowing!Idle \in ContactRequest /\ Knowing!Idle.step = "idle" /\ Knowing!Idle.op = "none"
  BY DEF Knowing!Idle, ContactRequest, Knowing!NoContact, ContactRow
<1>1. ContactsTyped'
  BY <1>0 DEF ContactsInv, ContactsTyped, Knowing!Answer
<1>2. AddressesHad'
  BY DEF ContactsInv, AddressesHad
<1>3. RowsLinked'
  <2>1. \A s \in Slots : contactReq'[s] = IF s = r THEN Knowing!Idle ELSE contactReq[s]
    BY DEF ContactsInv, ContactsTyped, Knowing!Answer
  <2>2. \A d \in Knowing!ContactIds : contact'[d] = IF d = c THEN row ELSE contact[d]
    BY DEF ContactsInv, ContactsTyped
  <2>. QED BY <2>1, <2>2, <1>0 DEF ContactsInv, RowsLinked, Linked
<1>4. ContactsGiven'
  <2>1. \A d \in Knowing!ContactIds : contact'[d] = IF d = c THEN row ELSE contact[d]
    BY DEF ContactsInv, ContactsTyped
  <2>. QED BY <2>1 DEF ContactsInv, ContactsTyped, ContactsGiven, Knowing!ContactIds
<1>. QED BY <1>1, <1>2, <1>3, <1>4 DEF ContactsInv

LEMMA ContactsNext ==
    ASSUME BackofficeAssumption, ContactsInv, [Knowing!Next]_Knowing!contactVars
    PROVE  ContactsInv'
<1>. USE DEF BackofficeAssumption, Knowing!ContactsAssumption
<1>t. ContactsTyped /\ AddressesHad /\ RowsLinked /\ ContactsGiven
  BY DEF ContactsInv
<1>0. Knowing!NoContact \in ContactRow
  BY DEF Knowing!NoContact, ContactRow
<1>i. Knowing!Idle \in ContactRequest /\ Knowing!Idle.step = "idle" /\ Knowing!Idle.op = "none"
  BY <1>0 DEF Knowing!Idle, ContactRequest
<1>r. \A r \in Slots : contactReq[r] \in ContactRequest /\ contactReq[r].row \in ContactRow
  BY <1>t DEF ContactsTyped, ContactRequest
<1>answer. ASSUME NEW r \in Slots, Knowing!Answer(r), Knowing!NoStore,
                  contactsBegun' \in 0..ContactRequests
           PROVE  ContactsInv'
  BY <1>answer, <1>i, ContactRequestsGoOn DEF Knowing!Answer
<1>b. contactsBegun \in 0..ContactRequests /\ ContactRequests \in Nat
  BY <1>t DEF ContactsTyped
<1>g. \A b \in ContactBodies : Knowing!Given(Knowing!NoContact, b) \in ContactRow
  BY <1>0, GivenIsRow DEF Knowing!Body
<1>1. ASSUME NEW r \in Slots, NEW b \in ContactBodies, Knowing!BeginCreate(r, b)
      PROVE  ContactsInv'
  <2>. DEFINE q == [op |-> "create", step |-> "link", id |-> None,
                    row |-> Knowing!Given(Knowing!NoContact, b), relink |-> TRUE]
  <2>1. q \in ContactRequest
    BY <1>g DEF ContactRequest
  <2>2. contactReq' = [contactReq EXCEPT ![r] = q] /\ Knowing!NoStore
        /\ contactsBegun' \in 0..ContactRequests
    BY <1>1, <1>b DEF Knowing!BeginCreate, Knowing!Begin, Knowing!Request
  <2>. QED BY <2>1, <2>2, ContactRequestsGoOn
<1>2. ASSUME NEW r \in Slots, NEW b \in ContactBodies, NEW c \in 1..contacts,
             Knowing!BeginUpdate(r, c, b)
      PROVE  ContactsInv'
  <2>. DEFINE q == [op |-> "update", step |-> "read", id |-> c,
                    row |-> Knowing!Given(Knowing!NoContact, b), relink |-> FALSE]
  <2>0. c \in Knowing!ContactIds
    BY <1>t DEF ContactsTyped, Knowing!ContactIds
  <2>1. q \in ContactRequest
    BY <1>g, <2>0 DEF ContactRequest
  <2>2. contactReq' = [contactReq EXCEPT ![r] = q] /\ Knowing!NoStore
        /\ contactsBegun' \in 0..ContactRequests
    BY <1>2, <1>b DEF Knowing!BeginUpdate, Knowing!Begin, Knowing!Request
  <2>. QED BY <2>0, <2>1, <2>2, ContactRequestsGoOn
<1>3. ASSUME NEW r \in Slots, NEW n \in Names, Knowing!BeginResolve(r, n)
      PROVE  ContactsInv'
  <2>. DEFINE q == [op |-> "create", step |-> "list", id |-> None,
                    row |-> [Knowing!NoContact EXCEPT !.name = n], relink |-> TRUE]
  <2>1. q \in ContactRequest
    BY <1>0 DEF ContactRequest, ContactRow
  <2>2. contactReq' = [contactReq EXCEPT ![r] = q] /\ Knowing!NoStore
        /\ contactsBegun' \in 0..ContactRequests
    BY <1>3, <1>b DEF Knowing!BeginResolve, Knowing!Begin, Knowing!Request
  <2>. QED BY <2>1, <2>2, ContactRequestsGoOn
<1>4. ASSUME NEW r \in Slots, Knowing!ListContacts(r)
      PROVE  ContactsInv'
  <2>. DEFINE q == [contactReq[r] EXCEPT !.step = "link"]
  <2>1. CASE Knowing!Answer(r)
    BY <2>1, <1>4, <1>b, <1>answer DEF Knowing!ListContacts
  <2>2. CASE Knowing!Goto(r, "link")
    <3>1. q \in ContactRequest /\ q.step = "link"
          /\ (q.op = "update" => q.id \in Knowing!ContactIds)
      BY <1>r, <1>t DEF ContactRequest, ContactsTyped
    <3>2. contactReq' = [contactReq EXCEPT ![r] = q]
      BY <2>2, <1>t DEF Knowing!Goto, ContactsTyped, ContactRequest
    <3>. QED BY <3>1, <3>2, <1>4, <1>b, ContactRequestsGoOn DEF Knowing!ListContacts
  <2>. QED BY <1>4, <2>1, <2>2 DEF Knowing!ListContacts
<1>5. ASSUME NEW r \in Slots, Knowing!ReadContact(r)
      PROVE  ContactsInv'
  <2>. DEFINE id == contactReq[r].id
              body == contactReq[r].row
              cur == contact[id]
              q == [op |-> "update",
                    step |-> IF body.email # None \/ body.phone # None
                             THEN "link" ELSE "write",
                    id |-> id, row |-> Knowing!Given(cur, body), relink |-> TRUE]
  <2>0. id \in Knowing!ContactIds /\ cur \in ContactRow /\ Linked(cur)
    BY <1>5, <1>t DEF Knowing!ReadContact, Knowing!At, ContactsTyped, RowsLinked
  <2>1. CASE Knowing!Answer(r)
    BY <2>1, <1>5, <1>b, <1>answer DEF Knowing!ReadContact
  <2>2. CASE contactReq' = [contactReq EXCEPT ![r] = q]
    <3>0. body.name \in Names \cup {None} /\ body.email \in Emails \cup {Blank, None}
          /\ body.phone \in Phones \cup {Blank, None}
      BY <1>r DEF ContactRow
    <3>1. /\ Knowing!Given(cur, body) \in ContactRow
          /\ Knowing!Given(cur, body).link = cur.link
          /\ body.email = None => Knowing!Given(cur, body).email = cur.email
          /\ body.phone = None => Knowing!Given(cur, body).phone = cur.phone
      BY <2>0, <3>0, GivenIsRow
    <3>2. q \in ContactRequest
      BY <2>0, <3>1 DEF ContactRequest
    <3>3. q.step = "write" => Linked(q.row)
      BY <2>0, <3>1, SameAddressLinked
    <3>. QED BY <2>0, <2>2, <3>2, <3>3, <1>5, <1>b, ContactRequestsGoOn
             DEF Knowing!ReadContact
  <2>. QED BY <1>5, <2>1, <2>2 DEF Knowing!ReadContact, Knowing!Request
<1>6. ASSUME NEW r \in Slots, Knowing!LinkUser(r)
      PROVE  ContactsInv'
  <2>1. PICK u \in {Knowing!Find(Knowing!Address(contactReq[r].row)), None} :
          contactReq' = [contactReq EXCEPT ![r].step = "write", ![r].row.link = u]
    BY <1>6 DEF Knowing!LinkUser
  <2>. DEFINE row == [contactReq[r].row EXCEPT !.link = u]
              q == [contactReq[r] EXCEPT !.step = "write", !.row = row]
  <2>2. contactReq' = [contactReq EXCEPT ![r] = q]
    <3>. DEFINE w == contactReq[r]
                q1 == [w EXCEPT !.step = "write"]
    <3>1. w \in ContactRequest /\ contactReq \in [Slots -> ContactRequest]
      BY <1>t DEF ContactsTyped
    <3>2. contactReq' = [contactReq EXCEPT ![r] = [q1 EXCEPT !.row = [q1.row EXCEPT !.link = u]]]
      <4>. DEFINE f == [contactReq EXCEPT ![r] = q1]
      <4>1. contactReq' = [f EXCEPT ![r] = [f[r] EXCEPT !.row = [f[r].row EXCEPT !.link = u]]]
        BY <2>1
      <4>2. f[r] = q1
        BY <3>1
      <4>3. \A new : [f EXCEPT ![r] = new] = [contactReq EXCEPT ![r] = new]
        BY <3>1
      <4>. HIDE DEF f
      <4>. QED BY <4>1, <4>2, <4>3
    <3>3. q1.row = w.row
      BY <3>1 DEF ContactRequest
    <3>. QED BY <3>2, <3>3
  <2>3. u \in People \cup {None}
    BY <1>r, <1>t, FoundHasAddress
  <2>4. row \in ContactRow
    BY <2>3, <1>r DEF ContactRow
  <2>5. q \in ContactRequest /\ q.op = contactReq[r].op /\ q.id = contactReq[r].id
        /\ q.step = "write" /\ q.row = row
    BY <2>4, <1>r DEF ContactRequest
  <2>6. row.link = u /\ Knowing!Address(row) = Knowing!Address(contactReq[r].row)
    BY <1>r DEF ContactRow, Knowing!Address
  <2>7. Linked(row)
    BY <2>6, <2>3, <1>r, <1>t, FoundHasAddress DEF Linked
  <2>8. q.op = "update" => q.id \in Knowing!ContactIds
    BY <2>5, <1>t DEF ContactsTyped
  <2>. HIDE DEF q
  <2>. QED BY <2>2, <2>5, <2>7, <2>8, <1>6, <1>b, ContactRequestsGoOn DEF Knowing!LinkUser
<1>7. ASSUME NEW r \in Slots, Knowing!CreateContact(r)
      PROVE  ContactsInv'
  <2>. DEFINE row == [contactReq[r].row EXCEPT !.state = "live"]
  <2>1. row \in ContactRow
    BY <1>r DEF ContactRow
  <2>2. Linked(row)
    <3>1. Linked(contactReq[r].row)
      BY <1>7, <1>t DEF Knowing!CreateContact, Knowing!At, RowsLinked
    <3>2. row.link = contactReq[r].row.link /\ row.email = contactReq[r].row.email
          /\ row.phone = contactReq[r].row.phone
      BY <1>r DEF ContactRow
    <3>. HIDE DEF row
    <3>. QED BY <3>1, <3>2, <2>1, <1>r, SameAddressLinked
  <2>3. contacts' \in 0..MaxContacts /\ contacts' \in Knowing!ContactIds
        /\ contacts <= contacts' /\ contacts' <= contacts'
    BY <1>7, <1>t DEF Knowing!CreateContact, ContactsTyped, Knowing!ContactIds
  <2>4. contact' = [contact EXCEPT ![contacts'] = row] /\ Knowing!Answer(r)
        /\ UNCHANGED <<email, phone, had, contactsBegun>>
    BY <1>7 DEF Knowing!CreateContact
  <2>. HIDE DEF row
  <2>. QED BY <2>1, <2>2, <2>3, <2>4, ContactWritten
<1>8. ASSUME NEW r \in Slots, Knowing!UpdateContact(r)
      PROVE  ContactsInv'
  <2>. DEFINE id == contactReq[r].id
              row == Knowing!Written(contact[id], contactReq[r].row)
  <2>0. id \in Knowing!ContactIds /\ contact[id] \in ContactRow /\ Linked(contact[id])
    BY <1>8, <1>t DEF Knowing!UpdateContact, ContactsTyped, RowsLinked
  <2>1. CASE Knowing!Updatable(id)
    <3>1. row \in ContactRow /\ row.link = contactReq[r].row.link
          /\ row.email = contactReq[r].row.email /\ row.phone = contactReq[r].row.phone
      BY <2>0, <1>r DEF Knowing!Written, ContactRow
    <3>2. Linked(contactReq[r].row)
      BY <1>8, <1>t DEF Knowing!UpdateContact, Knowing!At, RowsLinked
    <3>3. Linked(row)
      BY <3>1, <3>2, <1>r, SameAddressLinked
    <3>4. contact' = [contact EXCEPT ![id] = row]
      BY <2>0, <2>1, <1>8, <1>t DEF Knowing!UpdateContact, ContactsTyped
    <3>5. contacts' \in 0..MaxContacts /\ contacts <= contacts' /\ id <= contacts'
      BY <2>0, <2>1, <1>8, <1>t
         DEF Knowing!UpdateContact, Knowing!Updatable, ContactsTyped, ContactsGiven
    <3>6. Knowing!Answer(r) /\ UNCHANGED <<email, phone, had, contactsBegun>>
      BY <1>8 DEF Knowing!UpdateContact
    <3>. HIDE DEF row
    <3>. QED BY <2>0, <3>1, <3>3, <3>4, <3>5, <3>6, ContactWritten
  <2>2. CASE ~Knowing!Updatable(id)
    BY <2>2, <1>8, <1>b, <1>answer DEF Knowing!UpdateContact, Knowing!NoStore
  <2>. QED BY <2>1, <2>2
<1>9. ASSUME NEW r \in Slots, Knowing!Abort(r)
      PROVE  ContactsInv'
  BY <1>9, <1>b, <1>answer DEF Knowing!Abort
<1>10. ASSUME NEW c \in Knowing!ContactIds, Knowing!DeleteContact(c)
       PROVE  ContactsInv'
  <2>. DEFINE row == [contact[c] EXCEPT !.state = "deleted"]
  <2>0. contact[c] \in ContactRow /\ Linked(contact[c])
    BY <1>t DEF ContactsTyped, RowsLinked
  <2>1. row \in ContactRow /\ row.link = contact[c].link /\ row.email = contact[c].email
        /\ row.phone = contact[c].phone
    BY <2>0 DEF ContactRow
  <2>2. Linked(row)
    BY <2>0, <2>1, SameAddressLinked
  <2>3. \A d \in Knowing!ContactIds : contact'[d] = IF d = c THEN row ELSE contact[d]
    BY <1>10, <1>t DEF Knowing!DeleteContact, ContactsTyped
  <2>4. contact' \in [Knowing!ContactIds -> ContactRow]
    BY <1>10, <2>1, <1>t DEF Knowing!DeleteContact, ContactsTyped
  <2>. HIDE DEF row
  <2>5. ContactsTyped' /\ AddressesHad'
    BY <1>10, <2>4, <1>t DEF Knowing!DeleteContact, ContactsTyped, AddressesHad
  <2>6. RowsLinked'
    BY <1>10, <2>2, <2>3, <1>t DEF Knowing!DeleteContact, RowsLinked, Linked
  <2>7. ContactsGiven'
    BY <1>10, <2>3, <1>t DEF Knowing!DeleteContact, ContactsGiven
  <2>. QED BY <2>5, <2>6, <2>7 DEF ContactsInv
<1>11. ASSUME NEW u \in People, NEW e \in Emails \cup {None}, NEW p \in Phones \cup {None},
              Knowing!UpdateProfile(u, e, p)
       PROVE  ContactsInv'
  <2>1. had' \in [People -> SUBSET Knowing!Addresses]
        /\ \A v \in People : had[v] \subseteq had'[v]
    BY <1>11, <1>t DEF Knowing!UpdateProfile, ContactsTyped, Knowing!Addresses
  <2>2. ContactsTyped'
    BY <1>11, <2>1, <1>t DEF Knowing!UpdateProfile, ContactsTyped
  <2>3. AddressesHad'
    BY <1>11, <1>t DEF Knowing!UpdateProfile, ContactsTyped, AddressesHad
  <2>4. RowsLinked'
    BY <1>11, <2>1, <1>t, <1>r DEF Knowing!UpdateProfile, RowsLinked, Linked, ContactsTyped,
       ContactRow, Knowing!Address
  <2>5. ContactsGiven'
    BY <1>11, <1>t DEF Knowing!UpdateProfile, ContactsGiven
  <2>. QED BY <2>2, <2>3, <2>4, <2>5 DEF ContactsInv
<1>12. CASE UNCHANGED Knowing!contactVars
  BY <1>12, <1>t DEF Knowing!contactVars, ContactsInv, ContactsTyped, AddressesHad, RowsLinked,
     Linked, ContactsGiven
<1>. QED
  BY <1>1, <1>2, <1>3, <1>4, <1>5, <1>6, <1>7, <1>8, <1>9, <1>10, <1>11, <1>12
     DEF Knowing!Next

LEMMA ContactsKept == Knowing!Spec => []ContactsInv
  BY ContactsInit, ContactsNext, BackofficeAssumption, PTL DEF Knowing!Spec

\* LinksFollowAddresses: a contact is linked to no one but a user who has had the
\* address the contact has, for any contacts, users and overlapping requests
\* (Update, Create, UpdateMyProfile).
THEOREM LinksFollow == BackofficeSpec => []LinksFollowAddresses
<1>1. ContactsInv => Knowing!LinksFollowAddresses
  BY DEF ContactsInv, RowsLinked, Linked, Knowing!LinksFollowAddresses
<1>2. Knowing!LinksFollowAddresses => LinksFollowAddresses
  BY DEF LinksFollowAddresses
<1>. QED BY <1>1, <1>2, ContactsKept, PartsRun, PTL

LEMMA DeletedContactsKept == Knowing!Spec => Knowing!DeletedContactsStay
<1>1. ASSUME ContactsInv, [Knowing!Next]_Knowing!contactVars
      PROVE  \A c \in Knowing!ContactIds :
               contact[c].state = "deleted" => contact'[c] = contact[c]
  <2>. SUFFICES ASSUME NEW c \in Knowing!ContactIds, contact[c].state = "deleted",
                       contact' # contact
                PROVE  contact'[c] = contact[c]
    OBVIOUS
  <2>0. contact \in [Knowing!ContactIds -> ContactRow] /\ contacts \in 0..MaxContacts
        /\ c <= contacts
    BY <1>1 DEF ContactsInv, ContactsTyped, ContactsGiven
  <2>1. ASSUME NEW r \in Slots, Knowing!CreateContact(r)
        PROVE  contact'[c] = contact[c]
    BY <2>0, <2>1 DEF Knowing!CreateContact, Knowing!ContactIds
  <2>2. ASSUME NEW r \in Slots, Knowing!UpdateContact(r)
        PROVE  contact'[c] = contact[c]
    BY <2>0, <2>2 DEF Knowing!UpdateContact, Knowing!Updatable
  <2>3. ASSUME NEW d \in Knowing!ContactIds, Knowing!DeleteContact(d)
        PROVE  contact'[c] = contact[c]
    BY <2>0, <2>3 DEF Knowing!DeleteContact
  <2>. QED
    BY <1>1, <2>1, <2>2, <2>3
       DEF Knowing!Next, Knowing!contactVars, Knowing!BeginCreate, Knowing!BeginUpdate,
           Knowing!BeginResolve, Knowing!Begin, Knowing!ListContacts, Knowing!ReadContact,
           Knowing!LinkUser, Knowing!Abort, Knowing!UpdateProfile, Knowing!NoStore
<1>2. Knowing!Spec => []ContactsInv
  BY ContactsInit, ContactsNext, BackofficeAssumption, PTL DEF Knowing!Spec
<1>. QED BY <1>1, <1>2, PTL DEF Knowing!Spec, Knowing!DeletedContactsStay

-----------------------------------------------------------------------------
(* The audit log.  A transaction that has recorded its change and was not   *)
(* aborted carries the log (Drafted), and no change that a transaction      *)
(* records commits before it.                                               *)

Drafted ==
    \A c \in Changes :
      /\ change[c].state = "recorded" /\ ~broken[c] => draft[c] # Auditing!NoDay
      /\ change[c].inside => change[c].state # "committed"

AuditInv == Auditing!TypeOK /\ Auditing!LogsAreOfChanges /\ Drafted

\* A change gets into another state, and stays where it is recorded.
LEMMA ChangeBecomes ==
    ASSUME Auditing!TypeOK, NEW c \in Changes, NEW s \in Auditing!States,
           Auditing!Becomes(c, s)
    PROVE  /\ change' \in [Changes -> [state : Auditing!States, inside : BOOLEAN]]
           /\ \A d \in Changes : /\ change'[d].inside = change[d].inside
                                 /\ change'[d].state = IF d = c THEN s ELSE change[d].state
  BY DEF Auditing!TypeOK, Auditing!Becomes

LEMMA AuditInit == BackofficeAssumption /\ Auditing!Init => AuditInv
  BY DEF BackofficeAssumption, Auditing!AuditAssumption, Auditing!Init, AuditInv,
         Auditing!TypeOK, Auditing!States, Auditing!NoDay, Auditing!LogsAreOfChanges, Drafted

LEMMA AuditNext ==
    ASSUME BackofficeAssumption, AuditInv, [Auditing!Next]_Auditing!auditVars
    PROVE  AuditInv'
<1>. USE DEF AuditInv, Auditing!TypeOK, Auditing!States, Auditing!NoDay,
             Auditing!LogsAreOfChanges, Drafted, Auditing!Is, Auditing!Becomes
<1>0. AuditDays \in Nat
  BY DEF BackofficeAssumption, Auditing!AuditAssumption
<1>1. ASSUME NEW c \in Changes, NEW inside \in BOOLEAN, Auditing!Make(c, inside)
      PROVE  AuditInv'
  BY <1>1, <1>0 DEF Auditing!Make
<1>2. ASSUME NEW c \in Changes, Auditing!Record(c)
      PROVE  AuditInv'
  <2>1. /\ change' \in [Changes -> [state : Auditing!States, inside : BOOLEAN]]
        /\ \A d \in Changes :
             /\ change'[d].inside = change[d].inside
             /\ change'[d].state = IF d = c THEN "recorded" ELSE change[d].state
    BY <1>2, ChangeBecomes DEF Auditing!Record
  <2>2. Auditing!TypeOK' /\ log' = log
    <3>1. draft' \in [Changes -> 0..Auditing!NoDay] /\ broken' \in [Changes -> BOOLEAN]
      <4>1. day \in 0..Auditing!NoDay
        BY <1>0
      <4>2. \/ draft' = [draft EXCEPT ![c] = day] /\ broken' = broken
            \/ broken' = [broken EXCEPT ![c] = TRUE] /\ draft' = draft
        BY <1>2 DEF Auditing!Record
      <4>3. draft' \in [Changes -> 0..Auditing!NoDay]
        BY <4>1, <4>2
      <4>4. broken' \in [Changes -> BOOLEAN]
        BY <4>2
      <4>. QED BY <4>3, <4>4
    <3>2. log' = log /\ day' = day
      BY <1>2 DEF Auditing!Record
    <3>. QED BY <2>1, <3>1, <3>2
  <2>3. draft'[c] # Auditing!NoDay \/ broken'[c]
    BY <1>2, <1>0 DEF Auditing!Record
  <2>4. \A d \in Changes \ {c} : draft'[d] = draft[d] /\ broken'[d] = broken[d]
    BY <1>2 DEF Auditing!Record
  <2>5. Auditing!LogsAreOfChanges'
    BY <1>2, <2>1, <2>2 DEF Auditing!Record
  <2>6. Drafted'
    BY <2>1, <2>3, <2>4
  <2>. QED BY <2>2, <2>5, <2>6
<1>3. ASSUME NEW c \in Changes, Auditing!Commit(c)
      PROVE  AuditInv'
  <2>. DEFINE s == IF broken[c] THEN "undone" ELSE "logged"
  <2>1. /\ change' \in [Changes -> [state : Auditing!States, inside : BOOLEAN]]
        /\ \A d \in Changes :
             /\ change'[d].inside = change[d].inside
             /\ change'[d].state = IF d = c THEN s ELSE change[d].state
    BY <1>3, ChangeBecomes DEF Auditing!Commit
  <2>2. Auditing!TypeOK'
    BY <1>3, <2>1, <1>0 DEF Auditing!Commit
  <2>3. Auditing!LogsAreOfChanges'
    BY <1>3, <2>1 DEF Auditing!Commit
  <2>4. Drafted'
    BY <1>3, <2>1 DEF Auditing!Commit
  <2>. QED BY <2>2, <2>3, <2>4
<1>4. ASSUME NEW c \in Changes, Auditing!Rollback(c)
      PROVE  AuditInv'
  BY <1>4, <1>0 DEF Auditing!Rollback
<1>5. ASSUME NEW c \in Changes, Auditing!RecordAfter(c)
      PROVE  AuditInv'
  <2>1. /\ change' \in [Changes -> [state : Auditing!States, inside : BOOLEAN]]
        /\ \A d \in Changes :
             /\ change'[d].inside = change[d].inside
             /\ change'[d].state = IF d = c THEN "logged" ELSE change[d].state
    BY <1>5, ChangeBecomes DEF Auditing!RecordAfter
  <2>2. /\ log' \in [Changes -> 0..Auditing!NoDay]
        /\ \A d \in Changes \ {c} : log'[d] = log[d]
    <3>1. day \in 0..Auditing!NoDay
      BY <1>0
    <3>. QED BY <1>5, <3>1 DEF Auditing!RecordAfter
  <2>3. draft' = draft /\ broken' = broken /\ day' = day
    BY <1>5 DEF Auditing!RecordAfter
  <2>4. Auditing!TypeOK'
    BY <2>1, <2>2, <2>3
  <2>5. Auditing!LogsAreOfChanges'
    BY <2>1, <2>2
  <2>6. Drafted'
    BY <2>1, <2>3
  <2>. QED BY <2>4, <2>5, <2>6
<1>6. CASE Auditing!Cleanup
  BY <1>6, <1>0 DEF Auditing!Cleanup
<1>7. CASE Auditing!NextDay
  BY <1>7, <1>0 DEF Auditing!NextDay
<1>8. CASE UNCHANGED Auditing!auditVars
  BY <1>8 DEF Auditing!auditVars
<1>. QED BY <1>1, <1>2, <1>3, <1>4, <1>5, <1>6, <1>7, <1>8 DEF Auditing!Next

LEMMA AuditKept == Auditing!Spec => []AuditInv
  BY AuditInit, AuditNext, BackofficeAssumption, PTL DEF Auditing!Spec

\* LogsMatchChanges: there is no log of a change that was undone, and a change
\* recorded in its transaction is in the log until the retention is over, for any
\* changes and days (Record, WithTx, AuditCleanupJob).
THEOREM LogsMatch == BackofficeSpec => LogsMatchChanges
<1>1. Auditing!Spec => []AuditInv
  BY AuditKept
<1>2. AuditInv => Auditing!LogsAreOfChanges
  BY DEF AuditInv
<1>3. ASSUME AuditInv, [Auditing!Next]_Auditing!auditVars
      PROVE  \A c \in Changes : change[c].inside =>
               /\ change[c].state # "logged" /\ change'[c].state = "logged"
                    => log'[c] # Auditing!NoDay
               /\ log[c] # Auditing!NoDay /\ log'[c] = Auditing!NoDay
                    => day > log[c] + Retention
  <2>. USE DEF AuditInv, Auditing!TypeOK, Auditing!States, Auditing!NoDay, Drafted,
               Auditing!Is, Auditing!Becomes
  <2>0. AuditDays \in Nat /\ Retention \in Nat
    BY BackofficeAssumption DEF BackofficeAssumption, Auditing!AuditAssumption
  <2>. SUFFICES ASSUME NEW c \in Changes, change[c].inside
                PROVE  /\ change[c].state # "logged" /\ change'[c].state = "logged"
                            => log'[c] # Auditing!NoDay
                       /\ log[c] # Auditing!NoDay /\ log'[c] = Auditing!NoDay
                            => day > log[c] + Retention
    OBVIOUS
  <2>1. ASSUME NEW d \in Changes, NEW inside \in BOOLEAN, Auditing!Make(d, inside)
        PROVE  change'[c].state # "logged" \/ change[c].state = "logged"
    BY <2>1 DEF Auditing!Make
  <2>2. ASSUME NEW d \in Changes, Auditing!Commit(d)
        PROVE  /\ change[c].state # "logged" /\ change'[c].state = "logged"
                    => log'[c] # Auditing!NoDay
               /\ log[c] # Auditing!NoDay => log'[c] # Auditing!NoDay
    <3>1. \/ broken[d] /\ Auditing!Becomes(d, "undone") /\ log' = log
          \/ /\ ~broken[d] /\ Auditing!Becomes(d, "logged")
             /\ log' = [log EXCEPT ![d] = IF draft[d] # Auditing!NoDay THEN draft[d] ELSE @]
      BY <2>2 DEF Auditing!Commit
    <3>2. CASE broken[d] /\ Auditing!Becomes(d, "undone") /\ log' = log
      BY <1>3, <3>2, ChangeBecomes
    <3>3. CASE /\ ~broken[d] /\ Auditing!Becomes(d, "logged")
               /\ log' = [log EXCEPT ![d] = IF draft[d] # Auditing!NoDay THEN draft[d] ELSE @]
      <4>1. draft[d] # Auditing!NoDay
        BY <1>3, <2>2, <3>3 DEF Auditing!Commit
      <4>2. log' = [log EXCEPT ![d] = draft[d]]
        BY <3>3, <4>1
      <4>3. change'[c].state = IF c = d THEN "logged" ELSE change[c].state
        BY <1>3, <3>3, ChangeBecomes
      <4>. QED BY <1>3, <4>1, <4>2, <4>3
    <3>. QED BY <3>1, <3>2, <3>3
  <2>3. ASSUME NEW d \in Changes, Auditing!RecordAfter(d)
        PROVE  /\ change[c].state # "logged" => change'[c].state # "logged"
               /\ log[c] # Auditing!NoDay => log'[c] # Auditing!NoDay
    <3>1. change[d].state = "committed" /\ c # d
      BY <1>3, <2>3 DEF Auditing!RecordAfter
    <3>2. change'[c].state = change[c].state
      BY <1>3, <2>3, <3>1, ChangeBecomes DEF Auditing!RecordAfter
    <3>3. log'[c] = log[c]
      BY <1>3, <2>3, <3>1 DEF Auditing!RecordAfter
    <3>. QED BY <3>2, <3>3
  <2>4. ASSUME Auditing!Cleanup
        PROVE  /\ change' = change
               /\ log[c] # Auditing!NoDay /\ log'[c] = Auditing!NoDay
                    => day > log[c] + Retention
    BY <2>4, <2>0 DEF Auditing!Cleanup, Auditing!Old
  <2>5. ASSUME NEW d \in Changes, Auditing!Record(d) \/ Auditing!Rollback(d)
        PROVE  /\ change[c].state # "logged" => change'[c].state # "logged"
               /\ log' = log
    BY <1>3, <2>5, ChangeBecomes DEF Auditing!Record, Auditing!Rollback
  <2>. QED
    BY <1>3, <2>1, <2>2, <2>3, <2>4, <2>5
       DEF Auditing!Next, Auditing!auditVars, Auditing!NextDay, Auditing!Make
<1>4. Auditing!Spec => Auditing!ChangesAreLogged
  BY <1>1, <1>3, PTL DEF Auditing!Spec, Auditing!ChangesAreLogged
<1>. QED BY <1>1, <1>2, <1>4, PartsRun, PTL DEF LogsMatchChanges

-----------------------------------------------------------------------------
(* Tags.  A row that is being created has a name, and a row that was told   *)
(* stays.                                                                   *)

TagAsked ==
    \A r \in Slots : ask[r] # Tagging!Idle =>
      /\ ask[r] \in [id : 1..given, row : Tagging!Row, stored : BOOLEAN]
      /\ \E l \in Tagging!Languages : ask[r].row.name[l] # None

TagsInv ==
    /\ tag \in [Tagging!TagIds -> Tagging!Row \cup {Tagging!NoTag}]
    /\ given \in 0..MaxTags /\ told \subseteq 1..given
    /\ DOMAIN ask = Slots
    /\ TagAsked /\ Tagging!TagsAreTold

LEMMA TagsInit == BackofficeAssumption /\ Tagging!Init => TagsInv
  BY DEF BackofficeAssumption, Tagging!TagsAssumption, Tagging!Init, TagsInv, TagAsked,
         Tagging!TagsAreTold, Tagging!Alike, Tagging!NoTag, Tagging!Languages

LEMMA TagsNext ==
    ASSUME BackofficeAssumption, TagsInv, [Tagging!Next]_Tagging!tagVars
    PROVE  TagsInv'
<1>0. MaxTags \in Nat
  BY DEF BackofficeAssumption, Tagging!TagsAssumption
<1>n. Tagging!Idle.stored = FALSE
  BY DEF Tagging!Idle
<1>1. ASSUME NEW r \in Slots, NEW u \in Taggers, Tagging!Create(r, u)
      PROVE  TagsInv'
  <2>1. PICK names \in [Tagging!Languages -> TagNames \cup {None}] :
          IF \A l \in Tagging!Languages : names[l] = None THEN UNCHANGED ask
          ELSE ask' = [ask EXCEPT ![r] =
                 [id |-> given', row |-> [user |-> u, name |-> names], stored |-> FALSE]]
    BY <1>1 DEF Tagging!Create
  <2>2. given' \in 1..MaxTags /\ given' = given + 1 /\ UNCHANGED <<tag, told>>
    BY <1>1, <1>0 DEF Tagging!Create, TagsInv
  <2>3. [user |-> u, name |-> names] \in Tagging!Row
    BY DEF Tagging!Row
  <2>4. \A i : i \in 1..given => i \in 1..given'
    BY <2>2 DEF TagsInv
  <2>5. CASE UNCHANGED ask
    BY <2>2, <2>4, <2>5 DEF TagsInv, TagAsked, Tagging!TagsAreTold
  <2>6. CASE \E l \in Tagging!Languages : names[l] # None
    <3>. DEFINE q == [id |-> given', row |-> [user |-> u, name |-> names], stored |-> FALSE]
    <3>1. q \in [id : 1..given', row : Tagging!Row, stored : BOOLEAN]
      BY <2>2, <2>3
    <3>2. \E l \in Tagging!Languages : q.row.name[l] # None
      BY <2>6
    <3>3. DOMAIN ask' = Slots /\ \A s \in Slots : ask'[s] = IF s = r THEN q ELSE ask[s]
      BY <2>1, <2>6 DEF TagsInv
    <3>. HIDE DEF q
    <3>4. TagAsked'
      BY <2>4, <3>1, <3>2, <3>3 DEF TagsInv, TagAsked
    <3>. QED BY <2>2, <2>4, <3>3, <3>4 DEF TagsInv, Tagging!TagsAreTold
  <2>. QED BY <2>1, <2>5, <2>6
<1>2. ASSUME NEW r \in Slots, Tagging!CreateTag(r)
      PROVE  TagsInv'
  <2>. DEFINE id == ask[r].id
              row == ask[r].row
  <2>0. ask[r] # Tagging!Idle /\ id \in 1..given /\ id \in Tagging!TagIds
        /\ row \in Tagging!Row /\ \E l \in Tagging!Languages : row.name[l] # None
    BY <1>2, <1>0 DEF Tagging!CreateTag, TagsInv, TagAsked, Tagging!TagIds
  <2>1. CASE \E i \in Tagging!TagIds : Tagging!Alike(tag[i], row)
    BY <2>1, <1>2 DEF Tagging!CreateTag, TagsInv, TagAsked, Tagging!TagsAreTold
  <2>2. CASE ~\E i \in Tagging!TagIds : Tagging!Alike(tag[i], row)
    <3>1. /\ tag' = [tag EXCEPT ![id] = row]
          /\ ask' = [ask EXCEPT ![r].stored = TRUE]
          /\ UNCHANGED <<given, told>>
      BY <2>2, <1>2 DEF Tagging!CreateTag
    <3>2. row # Tagging!NoTag
      BY <2>0 DEF Tagging!NoTag
    <3>3. TagAsked' /\ DOMAIN ask' = Slots
      BY <2>0, <3>1 DEF TagsInv, TagAsked
    <3>4. \A i \in Tagging!TagIds : tag'[i] = IF i = id THEN row ELSE tag[i]
      BY <2>0, <3>1 DEF TagsInv
    <3>5. \A i, j \in Tagging!TagIds : i # j => ~Tagging!Alike(tag'[i], tag'[j])
      <4>1. \A a, b : Tagging!Alike(a, b) => Tagging!Alike(b, a)
        BY DEF Tagging!Alike
      <4>. QED BY <2>2, <3>4, <4>1 DEF TagsInv, Tagging!TagsAreTold
    <3>6. \A i \in told : tag'[i] # Tagging!NoTag
      <4>1. told \subseteq Tagging!TagIds
        BY <1>0 DEF TagsInv, Tagging!TagIds
      <4>2. \A i \in told : tag[i] # Tagging!NoTag
        BY DEF TagsInv, Tagging!TagsAreTold
      <4>. QED BY <3>2, <3>4, <4>1, <4>2
    <3>. QED BY <2>0, <3>1, <3>3, <3>5, <3>6 DEF TagsInv, Tagging!TagsAreTold
  <2>. QED BY <2>1, <2>2
<1>3. ASSUME NEW r \in Slots, Tagging!GetTag(r)
      PROVE  TagsInv'
  <2>1. ask[r] # Tagging!Idle
    BY <1>3, <1>n DEF Tagging!GetTag
  <2>2. told' \subseteq 1..given /\ \A i \in told' : tag[i] # Tagging!NoTag
    BY <2>1, <1>3 DEF Tagging!GetTag, Tagging!Found, TagsInv, TagAsked, Tagging!TagsAreTold
  <2>3. TagAsked' /\ DOMAIN ask' = Slots
    BY <1>3 DEF Tagging!GetTag, TagsInv, TagAsked
  <2>. QED BY <1>3, <2>2, <2>3 DEF Tagging!GetTag, TagsInv, Tagging!TagsAreTold
<1>4. ASSUME NEW r \in Slots, Tagging!Interrupt(r)
      PROVE  TagsInv'
  BY <1>4 DEF Tagging!Interrupt, TagsInv, TagAsked, Tagging!TagsAreTold
<1>5. CASE UNCHANGED Tagging!tagVars
  BY <1>5 DEF Tagging!tagVars, TagsInv, TagAsked, Tagging!TagsAreTold
<1>. QED BY <1>1, <1>2, <1>3, <1>4, <1>5 DEF Tagging!Next

LEMMA TagsKept == Tagging!Spec => []TagsInv
  BY TagsInit, TagsNext, BackofficeAssumption, PTL DEF Tagging!Spec

-----------------------------------------------------------------------------
(* Trades.  As no sale that takes from a lot can be stored, no log is ever   *)
(* written and every plan that is committed is empty (PlansEmpty); a lot is  *)
(* what its purchase bought (LotsWhole).  A trade is replaced once, since    *)
(* only one deletion finds it (Replacements).                                *)

IsTradeRequest(q) ==
    q = [op |-> q.op, step |-> q.step, trade |-> q.trade, body |-> q.body, plan |-> q.plan]

\* A request moves on.
Moved(q, step, plan, trade) ==
    [op |-> q.op, step |-> step, trade |-> trade, body |-> q.body, plan |-> plan]
LEMMA TradeRequestMoves ==
    ASSUME NEW q, IsTradeRequest(q), NEW s, NEW p
    PROVE  /\ [q EXCEPT !.step = s] = Moved(q, s, q.plan, q.trade)
           /\ [q EXCEPT !.step = s, !.plan = p] = Moved(q, s, p, q.trade)
<1>1. [q EXCEPT !.step = s] = Moved(q, s, q.plan, q.trade)
  BY DEF IsTradeRequest, Moved
<1>2. [q EXCEPT !.step = s, !.plan = p] = Moved(q, s, p, q.trade)
  <2>1. [q EXCEPT !.step = s, !.plan = p] = [Moved(q, s, q.plan, q.trade) EXCEPT !.plan = p]
    BY <1>1
  <2>. QED BY <2>1 DEF Moved
<1>. QED BY <1>1, <1>2

\* What a request knows at each step.
Planned(q) ==
    /\ IsTradeRequest(q)
    /\ q.op = "update" \/ q.step \in {"account", "plan", "commit"} => q.body \in TradeBodies
    /\ q.step \in {"find", "lots", "undo"} => q.trade \in Trading!TradeIds
    /\ q.step = "plan" => q.body.side = "sell"
    /\ q.step \in {"account", "undo"} => q.plan = {}
    /\ q.step = "commit" /\ q.body.side = "buy" => q.plan = {}
    /\ q.op = "update" => q.trade \in Trading!TradeIds
    /\ q.step \in {"account", "plan", "commit"} => q.op = "update" \/ q.trade = None

TradesTyped ==
    /\ trades \in [Trading!TradeIds -> TradeBodies \cup {None}]
    /\ held \in [Trading!TradeIds -> Nat \cup {None}]
    /\ entries \in [Trading!TradeIds -> [Trading!Kinds -> {"none", "posted", "deleted"}]]
    /\ used \in 0..MaxTrades /\ tradesBegun \in 0..TradeRequests
    /\ replaces \in [Trading!TradeIds -> Trading!TradeIds \cup {None}]
    /\ access \in {"write", "read", "none"}
    /\ DOMAIN tradeReq = Slots

PlansEmpty ==
    /\ logs = [t \in Trading!TradeIds |-> {}]
    /\ \A r \in Slots : Planned(tradeReq[r])

Bought(t) == trades[t] # None /\ trades[t].side = "buy"
LotsWhole ==
    \A t \in Trading!TradeIds :
      /\ held[t] = IF Bought(t) THEN trades[t].quantity ELSE None
      /\ trades[t] # None => t <= used

TradesInv == TradesTyped /\ PlansEmpty /\ LotsWhole /\ Trading!ChargesFollowTrades

LEMMA TradesInit == BackofficeAssumption /\ Trading!Init => TradesInv
<1> SUFFICES ASSUME BackofficeAssumption, Trading!Init PROVE TradesInv
  OBVIOUS
<1>. USE DEF Trading!Init, BackofficeAssumption, Trading!TradesAssumption
<1>1. TradesTyped
  BY DEF TradesTyped, Trading!NoEntries
<1>2. PlansEmpty
  BY DEF PlansEmpty, Planned, IsTradeRequest, Trading!Idle
<1>3. LotsWhole
  BY DEF LotsWhole, Bought
<1>4. Trading!ChargesFollowTrades
  BY DEF Trading!ChargesFollowTrades, Trading!NoEntries, Trading!Charges, Trading!Kinds
<1>. QED BY <1>1, <1>2, <1>3, <1>4 DEF TradesInv

LEMMA IdleIsPlanned == Planned(Trading!Idle)
  BY DEF Planned, IsTradeRequest, Trading!Idle

\* A request that goes on or ends, and leaves the tables alone.
LEMMA TradeRequestsGoOn ==
    ASSUME TradesInv, NEW r \in Slots, NEW q, Planned(q),
           tradeReq' = [tradeReq EXCEPT ![r] = q], Trading!NoStore,
           tradesBegun' \in 0..TradeRequests, access' \in {"write", "read", "none"}
    PROVE  TradesInv'
<1>1. DOMAIN tradeReq' = Slots /\ \A s \in Slots : Planned(tradeReq'[s])
  BY DEF TradesInv, TradesTyped, PlansEmpty
<1>2. TradesTyped' /\ PlansEmpty'
  BY <1>1 DEF TradesInv, TradesTyped, PlansEmpty, Trading!NoStore
<1>3. LotsWhole' /\ Trading!ChargesFollowTrades'
  BY DEF TradesInv, LotsWhole, Bought, Trading!ChargesFollowTrades, Trading!NoStore
<1>. QED BY <1>2, <1>3 DEF TradesInv

\* An empty plan leaves every lot as it is.
LEMMA NothingReweighed == TradesTyped => Trading!Reweighed({}) = held
  BY DEF TradesTyped, Trading!Reweighed

LEMMA TradesNext ==
    ASSUME BackofficeAssumption, TradesInv, [Trading!Next]_Trading!tradeVars
    PROVE  TradesInv'
<1>0. /\ None \notin TradeBodies /\ None \notin Int /\ TradeBodies \subseteq Trading!Body
      /\ MaxTrades \in Nat /\ TradeRequests \in Nat
  BY DEF BackofficeAssumption, Trading!TradesAssumption
<1>t. TradesTyped /\ PlansEmpty /\ LotsWhole /\ Trading!ChargesFollowTrades
  BY DEF TradesInv
<1>p. \A r \in Slots : Planned(tradeReq[r])
  BY <1>t DEF PlansEmpty
<1>b. tradesBegun \in 0..TradeRequests /\ access \in {"write", "read", "none"}
  BY <1>t DEF TradesTyped
<1>answer. ASSUME NEW r \in Slots, Trading!Answer(r), Trading!NoStore,
                  UNCHANGED <<access, tradesBegun>>
           PROVE  TradesInv'
  BY <1>answer, <1>b, IdleIsPlanned, TradeRequestsGoOn DEF Trading!Answer
<1>begin. ASSUME NEW r \in Slots, NEW op, NEW step, NEW t, NEW b,
                 Trading!Begin(r, op, step, t, b),
                 Planned([op |-> op, step |-> step, trade |-> t, body |-> b, plan |-> {}])
          PROVE  TradesInv'
  <2>1. tradesBegun' \in 0..TradeRequests /\ access' \in {"write", "read", "none"}
    BY <1>begin, <1>b, <1>0 DEF Trading!Begin
  <2>. QED BY <1>begin, <2>1, TradeRequestsGoOn DEF Trading!Begin
<1>1. ASSUME NEW r \in Slots, NEW b \in TradeBodies, Trading!BeginCreate(r, b)
      PROVE  TradesInv'
  BY <1>1, <1>begin DEF Trading!BeginCreate, Planned, IsTradeRequest
<1>2. ASSUME NEW r \in Slots, NEW t \in Trading!TradeIds, NEW b \in TradeBodies,
             Trading!BeginUpdate(r, t, b)
      PROVE  TradesInv'
  BY <1>2, <1>begin DEF Trading!BeginUpdate, Planned, IsTradeRequest
<1>3. ASSUME NEW r \in Slots, NEW t \in Trading!TradeIds, Trading!BeginDelete(r, t)
      PROVE  TradesInv'
  BY <1>3, <1>begin DEF Trading!BeginDelete, Planned, IsTradeRequest
<1>4. ASSUME NEW r \in Slots, Trading!FindAccount(r)
      PROVE  TradesInv'
  <2>. DEFINE s == IF tradeReq[r].body.side = "sell" THEN "plan" ELSE "commit"
              q == Moved(tradeReq[r], s, tradeReq[r].plan, tradeReq[r].trade)
  <2>1. CASE Trading!Answer(r)
    BY <2>1, <1>4, <1>answer DEF Trading!FindAccount
  <2>2. CASE Trading!Goto(r, s)
    <3>1. tradeReq' = [tradeReq EXCEPT ![r] = q]
      BY <2>2, <1>t, <1>p, TradeRequestMoves DEF Trading!Goto, TradesTyped, Planned
    <3>2. Planned(q)
      BY <1>4, <1>p DEF Planned, IsTradeRequest, Moved, Trading!FindAccount, Trading!At
    <3>. QED BY <3>1, <3>2, <1>4, <1>b, TradeRequestsGoOn DEF Trading!FindAccount
  <2>. QED BY <1>4, <2>1, <2>2 DEF Trading!FindAccount
<1>5. ASSUME NEW r \in Slots, Trading!PlanSell(r)
      PROVE  TradesInv'
  <2>1. CASE Trading!Answer(r)
    BY <2>1, <1>5, <1>answer DEF Trading!PlanSell
  <2>2. ASSUME NEW plan,
               tradeReq' = [tradeReq EXCEPT ![r].step = "commit", ![r].plan = plan]
        PROVE  TradesInv'
    <3>. DEFINE q == Moved(tradeReq[r], "commit", plan, tradeReq[r].trade)
    <3>1. tradeReq' = [tradeReq EXCEPT ![r] = q]
      BY <2>2, <1>t, <1>p, TradeRequestMoves DEF TradesTyped, Planned
    <3>2. Planned(q)
      BY <1>5, <1>p DEF Planned, IsTradeRequest, Moved, Trading!PlanSell, Trading!At
    <3>. QED BY <3>1, <3>2, <1>5, <1>b, TradeRequestsGoOn DEF Trading!PlanSell
  <2>. QED BY <1>5, <2>1, <2>2 DEF Trading!PlanSell
<1>6. ASSUME NEW r \in Slots, Trading!CreateTrade(r)
      PROVE  TradesInv'
  <2>. DEFINE b == tradeReq[r].body
              p == tradeReq[r].plan
  <2>0. b \in TradeBodies /\ b # None /\ b \in Trading!Body /\ (b.side = "buy" => p = {})
    BY <1>6, <1>p, <1>0 DEF Trading!CreateTrade, Trading!At, Planned
  <2>1. CASE ~(access = "write" /\ Trading!Storable(b, p)) /\ Trading!NoStore
    BY <2>1, <1>6, <1>answer DEF Trading!CreateTrade
  <2>2. CASE /\ access = "write" /\ Trading!Storable(b, p)
             /\ used < MaxTrades /\ used' = used + 1
             /\ trades' = Trading!WithTrade(used', b)
             /\ entries' = [entries EXCEPT ![used'] = Trading!EntriesFor(b)]
             /\ logs' = [logs EXCEPT ![used'] = p]
             /\ replaces' = [replaces EXCEPT ![used'] = tradeReq[r].trade]
             /\ held' = IF b.side = "buy" THEN Trading!WithLot(used', b.quantity)
                        ELSE Trading!Reweighed(p)
    <3>. DEFINE t == used'
    <3>1. t \in Trading!TradeIds /\ t = used + 1 /\ used' \in 0..MaxTrades
      BY <2>2, <1>t, <1>0 DEF TradesTyped, Trading!TradeIds
    <3>2. p = {} /\ (b.side = "buy" => b.quantity \in Nat)
      <4>1. CASE b.side = "buy"
        BY <4>1, <2>0, <2>2 DEF Trading!Storable, Trading!Body
      <4>2. CASE b.side = "sell"
        BY <4>2, <2>2 DEF Trading!Storable, Trading!LogStorable
      <4>. QED BY <4>1, <4>2, <2>0 DEF Trading!Body
    <3>3. trades' = [trades EXCEPT ![t] = b]
      BY <2>2 DEF Trading!WithTrade
    <3>4. held' = [held EXCEPT ![t] = IF b.side = "buy" THEN b.quantity ELSE None]
      <4>1. CASE b.side = "buy"
        BY <4>1, <2>2 DEF Trading!WithLot
      <4>2. CASE b.side # "buy"
        <5>1. held' = held
          BY <4>2, <2>2, <3>2, <1>t, NothingReweighed
        <5>2. held[t] = None
          BY <3>1, <1>t DEF LotsWhole, Bought, TradesTyped
        <5>. QED BY <4>2, <5>1, <5>2, <1>t DEF TradesTyped
      <4>. QED BY <4>1, <4>2
    <3>5. \A u \in Trading!TradeIds :
            /\ trades'[u] = IF u = t THEN b ELSE trades[u]
            /\ held'[u] = IF u = t THEN IF b.side = "buy" THEN b.quantity ELSE None
                          ELSE held[u]
            /\ entries'[u] = IF u = t THEN Trading!EntriesFor(b) ELSE entries[u]
      BY <3>1, <3>3, <3>4, <2>2, <1>t DEF TradesTyped
    <3>6. logs' = [u \in Trading!TradeIds |-> {}]
      BY <2>2, <3>2, <1>t DEF PlansEmpty
    <3>7. DOMAIN tradeReq' = Slots /\ \A s \in Slots : Planned(tradeReq'[s])
      BY <1>6, <1>t, <1>p, IdleIsPlanned DEF Trading!CreateTrade, Trading!Answer, TradesTyped
    <3>8. Trading!EntriesFor(b) \in [Trading!Kinds -> {"none", "posted", "deleted"}]
      BY DEF Trading!EntriesFor
    <3>9. TradesTyped'
      <4>1. trades' \in [Trading!TradeIds -> TradeBodies \cup {None}]
        BY <3>1, <3>3, <2>0, <1>t DEF TradesTyped
      <4>2. held' \in [Trading!TradeIds -> Nat \cup {None}]
        BY <3>1, <3>4, <3>2, <1>t DEF TradesTyped
      <4>3. entries' \in [Trading!TradeIds -> [Trading!Kinds -> {"none", "posted", "deleted"}]]
        BY <3>1, <3>8, <2>2, <1>t DEF TradesTyped
      <4>4. replaces' \in [Trading!TradeIds -> Trading!TradeIds \cup {None}]
        BY <3>1, <2>2, <1>6, <1>p, <1>t
           DEF TradesTyped, Planned, Trading!CreateTrade, Trading!At
      <4>. QED BY <4>1, <4>2, <4>3, <4>4, <3>1, <3>7, <1>6, <1>b
               DEF TradesTyped, Trading!CreateTrade
    <3>10. PlansEmpty'
      BY <3>6, <3>7 DEF PlansEmpty
    <3>11. LotsWhole'
      BY <3>1, <3>5, <2>0, <1>t DEF LotsWhole, Bought, TradesTyped, Trading!TradeIds
    <3>12. \A c \in Trading!Charges : Trading!EntriesFor(b)[c] = "posted" => c \in b.charges
      BY DEF Trading!EntriesFor, Trading!Kinds, Trading!Charges
    <3>13. Trading!ChargesFollowTrades'
      BY <3>5, <3>12, <2>0, <1>t DEF Trading!ChargesFollowTrades
    <3>. QED BY <3>9, <3>10, <3>11, <3>13 DEF TradesInv
  <2>. QED BY <1>6, <2>1, <2>2 DEF Trading!CreateTrade
<1>7. ASSUME NEW r \in Slots, Trading!FindTrade(r)
      PROVE  TradesInv'
  <2>. DEFINE q == Moved(tradeReq[r], "lots", tradeReq[r].plan, tradeReq[r].trade)
  <2>1. CASE Trading!Answer(r)
    BY <2>1, <1>7, <1>answer DEF Trading!FindTrade
  <2>2. CASE Trading!Goto(r, "lots")
    <3>1. tradeReq' = [tradeReq EXCEPT ![r] = q]
      BY <2>2, <1>t, <1>p, TradeRequestMoves DEF Trading!Goto, TradesTyped, Planned
    <3>2. Planned(q)
      BY <1>7, <1>p DEF Planned, IsTradeRequest, Moved, Trading!FindTrade, Trading!At
    <3>. QED BY <3>1, <3>2, <1>7, <1>b, TradeRequestsGoOn DEF Trading!FindTrade
  <2>. QED BY <1>7, <2>1, <2>2 DEF Trading!FindTrade
<1>8. ASSUME NEW r \in Slots, Trading!CheckLots(r)
      PROVE  TradesInv'
  <2>. DEFINE q == Moved(tradeReq[r], "undo", {}, tradeReq[r].trade)
  <2>0. tradeReq[r].trade \in Trading!TradeIds
    BY <1>8, <1>p DEF Planned, Trading!CheckLots, Trading!At
  <2>1. CASE Trading!Answer(r)
    BY <2>1, <1>8, <1>answer DEF Trading!CheckLots
  <2>2. CASE ~Trading!Answer(r)
    <3>0. Trading!SoldBy(tradeReq[r].trade) = {}
      BY <2>0, <1>t DEF Trading!SoldBy, PlansEmpty
    <3>1. tradeReq' = [tradeReq EXCEPT ![r].step = "undo", ![r].plan = {}]
      BY <2>2, <3>0, <1>8 DEF Trading!CheckLots
    <3>2. tradeReq' = [tradeReq EXCEPT ![r] = q]
      BY <3>1, <1>t, <1>p, TradeRequestMoves DEF TradesTyped, Planned
    <3>3. Planned(q)
      BY <1>8, <1>p DEF Planned, IsTradeRequest, Moved, Trading!CheckLots, Trading!At
    <3>. QED BY <3>2, <3>3, <1>8, <1>b, TradeRequestsGoOn DEF Trading!CheckLots
  <2>. QED BY <2>1, <2>2
<1>9. ASSUME NEW r \in Slots, Trading!DeleteTrade(r)
      PROVE  TradesInv'
  <2>. DEFINE t == tradeReq[r].trade
              p == tradeReq[r].plan
  <2>0. t \in Trading!TradeIds /\ p = {}
    BY <1>9, <1>p DEF Planned, Trading!DeleteTrade, Trading!At
  <2>1. CASE ~Trading!Removable(t)
    BY <2>1, <1>9, <1>answer DEF Trading!DeleteTrade
  <2>2. CASE Trading!Removable(t)
    <3>1. trades' = [trades EXCEPT ![t] = None] /\ logs' = [logs EXCEPT ![t] = {}]
          /\ entries' = [entries EXCEPT ![t] = Trading!Uncharged(t)] /\ used' = used
          /\ UNCHANGED <<replaces, access, tradesBegun>>
      BY <2>2, <1>9 DEF Trading!DeleteTrade, Trading!WithoutTrade, Trading!WithoutLogs
    <3>2. held' = [held EXCEPT ![t] = None]
      BY <2>0, <2>2, <1>9, <1>t, NothingReweighed DEF Trading!DeleteTrade, Trading!Without
    <3>3. \A u \in Trading!TradeIds :
            /\ trades'[u] = IF u = t THEN None ELSE trades[u]
            /\ held'[u] = IF u = t THEN None ELSE held[u]
            /\ entries'[u] = IF u = t THEN Trading!Uncharged(t) ELSE entries[u]
      BY <2>0, <3>1, <3>2, <1>t DEF TradesTyped
    <3>4. Trading!Uncharged(t) \in [Trading!Kinds -> {"none", "posted", "deleted"}]
          /\ \A c \in Trading!Charges : Trading!Uncharged(t)[c] # "posted"
      BY <2>0, <1>t DEF Trading!Uncharged, TradesTyped, Trading!Kinds
    <3>5. DOMAIN tradeReq' = Slots /\ \A s \in Slots : Planned(tradeReq'[s])
      <4>1. CASE Trading!Answer(r)
        BY <4>1, <1>t, <1>p, IdleIsPlanned DEF Trading!Answer, TradesTyped
      <4>2. CASE /\ tradeReq[r].op = "update"
                 /\ tradeReq' = [tradeReq EXCEPT ![r].step = "account", ![r].plan = {}]
        <5>. DEFINE q == Moved(tradeReq[r], "account", {}, t)
        <5>1. tradeReq' = [tradeReq EXCEPT ![r] = q]
          BY <4>2, <1>t, <1>p, TradeRequestMoves DEF TradesTyped, Planned
        <5>2. Planned(q)
          BY <4>2, <1>p DEF Planned, IsTradeRequest, Moved
        <5>. HIDE DEF q
        <5>. QED BY <5>1, <5>2, <1>t, <1>p DEF TradesTyped
      <4>. QED BY <4>1, <4>2, <2>2, <1>9 DEF Trading!DeleteTrade
    <3>6. TradesTyped'
      <4>1. trades' \in [Trading!TradeIds -> TradeBodies \cup {None}]
        BY <2>0, <3>1, <1>t DEF TradesTyped
      <4>2. held' \in [Trading!TradeIds -> Nat \cup {None}]
        BY <2>0, <3>2, <1>t DEF TradesTyped
      <4>3. entries' \in [Trading!TradeIds -> [Trading!Kinds -> {"none", "posted", "deleted"}]]
        BY <2>0, <3>1, <3>4, <1>t DEF TradesTyped
      <4>. QED BY <4>1, <4>2, <4>3, <3>1, <3>5, <1>t DEF TradesTyped
    <3>7. PlansEmpty'
      BY <3>1, <3>5, <1>t DEF PlansEmpty
    <3>8. LotsWhole'
      BY <3>1, <3>3, <1>t DEF LotsWhole, Bought
    <3>9. Trading!ChargesFollowTrades'
      BY <3>3, <3>4, <1>t DEF Trading!ChargesFollowTrades
    <3>. QED BY <3>6, <3>7, <3>8, <3>9 DEF TradesInv
  <2>. QED BY <2>1, <2>2
<1>10. ASSUME NEW r \in Slots, Trading!Abort(r)
       PROVE  TradesInv'
  BY <1>10, <1>answer DEF Trading!Abort
<1>11. ASSUME NEW t \in Trading!TradeIds, NEW k \in Trading!Kinds, Trading!DeleteEntry(t, k)
       PROVE  TradesInv'
  <2>1. entries' \in [Trading!TradeIds -> [Trading!Kinds -> {"none", "posted", "deleted"}]]
    BY <1>11, <1>t DEF Trading!DeleteEntry, TradesTyped
  <2>2. \A u \in Trading!TradeIds, c \in Trading!Charges :
          entries'[u][c] = "posted" => entries[u][c] = "posted"
    BY <1>11, <1>t DEF Trading!DeleteEntry, TradesTyped, Trading!Kinds
  <2>3. TradesTyped' /\ PlansEmpty' /\ LotsWhole'
    BY <1>11, <2>1, <1>t DEF Trading!DeleteEntry, TradesTyped, PlansEmpty, LotsWhole, Bought
  <2>4. Trading!ChargesFollowTrades'
    BY <1>11, <2>2, <1>t DEF Trading!DeleteEntry, Trading!ChargesFollowTrades
  <2>. QED BY <2>3, <2>4 DEF TradesInv
<1>12. CASE Trading!Unshare
  BY <1>12, <1>t DEF Trading!Unshare, Trading!NoStore, TradesInv, TradesTyped, PlansEmpty,
     LotsWhole, Bought, Trading!ChargesFollowTrades
<1>13. CASE UNCHANGED Trading!tradeVars
  BY <1>13, <1>t DEF Trading!tradeVars, TradesInv, TradesTyped, PlansEmpty,
     LotsWhole, Bought, Trading!ChargesFollowTrades
<1>. QED
  BY <1>1, <1>2, <1>3, <1>4, <1>5, <1>6, <1>7, <1>8, <1>9, <1>10, <1>11, <1>12, <1>13
     DEF Trading!Next

LEMMA TradesKept == Trading!Spec => []TradesInv
  BY TradesInit, TradesNext, BackofficeAssumption, PTL DEF Trading!Spec

\* ChargesFollowTrades: no fee or tax stays in the ledger without its trade,
\* whichever of any requests deletes or replaces the trade (DeleteTrade,
\* UpdateTrade).
THEOREM ChargesFollow == BackofficeSpec => []ChargesFollowTrades
<1>1. TradesInv => ChargesFollowTrades
  BY DEF TradesInv, ChargesFollowTrades
<1>. QED BY <1>1, TradesKept, PartsRun, PTL

\* An update between its deletion and its creation.
Replacing(q) == q.op = "update" /\ q.step \in {"account", "plan", "commit"}

\* What was replaced is gone, and is replaced by one trade or by one update.
Replacements ==
    /\ \A t \in Trading!TradeIds : replaces[t] # None =>
         /\ t <= used /\ replaces[t] <= used /\ trades[replaces[t]] = None
         /\ \A u \in Trading!TradeIds \ {t} : replaces[u] # replaces[t]
    /\ \A r \in Slots : Replacing(tradeReq[r]) =>
         /\ tradeReq[r].trade <= used /\ trades[tradeReq[r].trade] = None
         /\ \A t \in Trading!TradeIds : replaces[t] # tradeReq[r].trade
         /\ \A s \in Slots \ {r} :
              Replacing(tradeReq[s]) => tradeReq[s].trade # tradeReq[r].trade

\* Nothing is added to trades that are replaced or about to be.
LEMMA ReplacementsStay ==
    ASSUME Replacements, UNCHANGED <<trades, used, replaces>>,
           \A r \in Slots : Replacing(tradeReq'[r]) =>
             Replacing(tradeReq[r]) /\ tradeReq'[r].trade = tradeReq[r].trade
    PROVE  Replacements'
  BY DEF Replacements

LEMMA ReplacementsNext ==
    ASSUME BackofficeAssumption, TradesInv, Replacements, [Trading!Next]_Trading!tradeVars
    PROVE  Replacements'
<1>0. None \notin TradeBodies /\ None \notin Trading!TradeIds /\ MaxTrades \in Nat
  BY DEF BackofficeAssumption, Trading!TradesAssumption
<1>t. TradesTyped /\ LotsWhole /\ (\A r \in Slots : Planned(tradeReq[r]))
  BY DEF TradesInv, PlansEmpty
<1>i. ~Replacing(Trading!Idle)
  BY DEF Replacing, Trading!Idle
<1>answer. ASSUME NEW r \in Slots, Trading!Answer(r), UNCHANGED <<trades, used, replaces>>
           PROVE  Replacements'
  BY <1>answer, <1>t, <1>i, ReplacementsStay DEF Trading!Answer, TradesTyped
<1>goes. ASSUME NEW r \in Slots, NEW q, tradeReq' = [tradeReq EXCEPT ![r] = q],
                UNCHANGED <<trades, used, replaces>>,
                Replacing(q) => Replacing(tradeReq[r]) /\ q.trade = tradeReq[r].trade
         PROVE  Replacements'
  BY <1>goes, <1>t, ReplacementsStay DEF TradesTyped
<1>begin. ASSUME NEW r \in Slots, NEW op, NEW step, NEW t, NEW b,
                 Trading!Begin(r, op, step, t, b), op # "update" \/ step = "find"
          PROVE  Replacements'
  BY <1>begin, <1>goes DEF Trading!Begin, Trading!NoStore, Replacing
<1>1. ASSUME NEW r \in Slots,
             \/ \E b \in TradeBodies : Trading!BeginCreate(r, b)
             \/ \E t \in Trading!TradeIds, b \in TradeBodies : Trading!BeginUpdate(r, t, b)
             \/ \E t \in Trading!TradeIds : Trading!BeginDelete(r, t)
      PROVE  Replacements'
  BY <1>1, <1>begin DEF Trading!BeginCreate, Trading!BeginUpdate, Trading!BeginDelete
<1>2. ASSUME NEW r \in Slots, NEW s, NEW p,
             \/ tradeReq' = [tradeReq EXCEPT ![r].step = s]
             \/ tradeReq' = [tradeReq EXCEPT ![r].step = s, ![r].plan = p],
             UNCHANGED <<trades, used, replaces>>,
             s \in {"plan", "commit"} => tradeReq[r].step \in {"account", "plan"},
             s \in {"plan", "commit", "lots", "undo"}
      PROVE  Replacements'
  <2>. DEFINE q1 == Moved(tradeReq[r], s, tradeReq[r].plan, tradeReq[r].trade)
              q2 == Moved(tradeReq[r], s, p, tradeReq[r].trade)
  <2>1. tradeReq' = [tradeReq EXCEPT ![r] = q1] \/ tradeReq' = [tradeReq EXCEPT ![r] = q2]
    BY <1>2, <1>t, TradeRequestMoves DEF Planned, TradesTyped
  <2>2. \A q \in {q1, q2} :
          Replacing(q) => Replacing(tradeReq[r]) /\ q.trade = tradeReq[r].trade
    BY <1>2 DEF Replacing, Moved
  <2>. QED BY <1>2, <2>1, <2>2, <1>goes
<1>3. ASSUME NEW r \in Slots, Trading!FindAccount(r) \/ Trading!PlanSell(r)
      PROVE  Replacements'
  BY <1>3, <1>answer, <1>2
     DEF Trading!FindAccount, Trading!PlanSell, Trading!Goto, Trading!At, Trading!NoStore
<1>4. ASSUME NEW r \in Slots, Trading!FindTrade(r) \/ Trading!CheckLots(r)
      PROVE  Replacements'
  BY <1>4, <1>answer, <1>2
     DEF Trading!FindTrade, Trading!CheckLots, Trading!Goto, Trading!NoStore
<1>5. ASSUME NEW r \in Slots, Trading!CreateTrade(r)
      PROVE  Replacements'
  <2>1. CASE Trading!NoStore
    BY <2>1, <1>5, <1>answer DEF Trading!CreateTrade, Trading!NoStore
  <2>2. CASE /\ used < MaxTrades /\ used' = used + 1
             /\ trades' = Trading!WithTrade(used', tradeReq[r].body)
             /\ replaces' = [replaces EXCEPT ![used'] = tradeReq[r].trade]
    <3>. DEFINE n == used'
                o == tradeReq[r].trade
    <3>1. n \in Trading!TradeIds /\ n = used + 1 /\ used \in Nat
      BY <2>2, <1>0, <1>t DEF TradesTyped, Trading!TradeIds
    <3>2. /\ \A u \in Trading!TradeIds : replaces'[u] = IF u = n THEN o ELSE replaces[u]
          /\ \A u \in Trading!TradeIds : u <= used => trades'[u] = trades[u]
      BY <2>2, <3>1, <1>t DEF TradesTyped, Trading!WithTrade, Trading!TradeIds
    <3>3. o # None => o \in Trading!TradeIds /\ Replacing(tradeReq[r])
      BY <1>5, <1>t DEF Trading!CreateTrade, Trading!At, Planned, Replacing
    <3>4. \A s \in Slots : Replacing(tradeReq'[s]) => s # r /\ tradeReq'[s] = tradeReq[s]
      BY <1>5, <1>i, <1>t DEF Trading!CreateTrade, Trading!Answer, TradesTyped
    <3>5. \A s \in Slots : Replacing(tradeReq[s]) => tradeReq[s].trade \in Trading!TradeIds
      BY <1>t DEF Planned, Replacing
    <3>6. ASSUME NEW t \in Trading!TradeIds, replaces'[t] # None
          PROVE  /\ t <= used' /\ replaces'[t] <= used' /\ trades'[replaces'[t]] = None
                 /\ \A u \in Trading!TradeIds \ {t} : replaces'[u] # replaces'[t]
      <4>1. CASE t = n
        BY <4>1, <3>1, <3>2, <3>3, <3>6 DEF Replacements, Trading!TradeIds
      <4>2. CASE t # n
        <5>1. replaces'[t] = replaces[t] /\ replaces[t] \in Trading!TradeIds
          BY <4>2, <3>2, <3>6, <1>t DEF TradesTyped
        <5>2. o # replaces[t]
          BY <5>1, <3>3, <1>0 DEF Replacements
        <5>. QED BY <5>1, <5>2, <3>1, <3>2, <3>6 DEF Replacements, Trading!TradeIds
      <4>. QED BY <4>1, <4>2
    <3>7. ASSUME NEW s \in Slots, Replacing(tradeReq'[s])
          PROVE  /\ tradeReq'[s].trade <= used' /\ trades'[tradeReq'[s].trade] = None
                 /\ \A t \in Trading!TradeIds : replaces'[t] # tradeReq'[s].trade
                 /\ \A u \in Slots \ {s} :
                      Replacing(tradeReq'[u]) => tradeReq'[u].trade # tradeReq'[s].trade
      <4>1. s # r /\ tradeReq'[s] = tradeReq[s] /\ tradeReq[s].trade \in Trading!TradeIds
        BY <3>4, <3>5, <3>7
      <4>2. o # tradeReq[s].trade
        BY <4>1, <3>3, <3>7, <1>0 DEF Replacements
      <4>. QED BY <4>1, <4>2, <3>1, <3>2, <3>4, <3>7 DEF Replacements, Trading!TradeIds
    <3>. QED BY <3>6, <3>7 DEF Replacements
  <2>. QED BY <1>5, <2>1, <2>2 DEF Trading!CreateTrade
<1>6. ASSUME NEW r \in Slots, Trading!DeleteTrade(r)
      PROVE  Replacements'
  <2>. DEFINE t == tradeReq[r].trade
  <2>0. t \in Trading!TradeIds
    BY <1>6, <1>t DEF Planned, Trading!DeleteTrade, Trading!At
  <2>1. CASE ~Trading!Removable(t)
    BY <2>1, <1>6, <1>answer DEF Trading!DeleteTrade, Trading!NoStore
  <2>2. CASE Trading!Removable(t)
    <3>1. trades[t] # None /\ t <= used
      BY <2>0, <2>2, <1>t DEF Trading!Removable, LotsWhole
    <3>2. used' = used /\ replaces' = replaces /\ trades' = [trades EXCEPT ![t] = None]
      BY <2>2, <1>6 DEF Trading!DeleteTrade, Trading!WithoutTrade
    <3>3. \A u \in Trading!TradeIds : trades[u] = None \/ u = t => trades'[u] = None
      BY <3>2, <1>t DEF TradesTyped
    <3>4. \A u \in Trading!TradeIds : replaces[u] # t /\ (replaces[u] # None => replaces[u] \in Trading!TradeIds)
      BY <3>1, <2>0, <1>0, <1>t DEF Replacements, TradesTyped
    <3>5. \A s \in Slots : Replacing(tradeReq[s]) =>
            tradeReq[s].trade # t /\ tradeReq[s].trade \in Trading!TradeIds
      BY <3>1, <1>t DEF Replacements, Replacing, Planned
    <3>6. \A s \in Slots : Replacing(tradeReq'[s]) =>
            \/ s = r /\ tradeReq'[s].trade = t
            \/ s # r /\ tradeReq'[s] = tradeReq[s]
      <4>1. CASE Trading!Answer(r)
        BY <4>1, <1>i, <1>t DEF Trading!Answer, TradesTyped
      <4>2. CASE tradeReq' = [tradeReq EXCEPT ![r].step = "account", ![r].plan = {}]
        <5>1. tradeReq' = [tradeReq EXCEPT ![r] = Moved(tradeReq[r], "account", {}, t)]
          BY <4>2, <1>t, TradeRequestMoves DEF TradesTyped, Planned
        <5>. QED BY <5>1, <1>t DEF TradesTyped, Moved
      <4>. QED BY <4>1, <4>2, <2>2, <1>6 DEF Trading!DeleteTrade
    <3>7. \A u \in Trading!TradeIds : replaces'[u] # None =>
            /\ u <= used' /\ replaces'[u] <= used' /\ trades'[replaces'[u]] = None
            /\ \A v \in Trading!TradeIds \ {u} : replaces'[v] # replaces'[u]
      BY <3>2, <3>3, <3>4 DEF Replacements
    <3>8. ASSUME NEW s \in Slots, Replacing(tradeReq'[s])
          PROVE  /\ tradeReq'[s].trade <= used' /\ trades'[tradeReq'[s].trade] = None
                 /\ \A u \in Trading!TradeIds : replaces'[u] # tradeReq'[s].trade
                 /\ \A v \in Slots \ {s} :
                      Replacing(tradeReq'[v]) => tradeReq'[v].trade # tradeReq'[s].trade
      <4>1. CASE s = r
        BY <4>1, <3>1, <3>2, <3>3, <3>4, <3>5, <3>6, <3>8, <2>0
      <4>2. CASE s # r
        <5>1. Replacing(tradeReq[s]) /\ tradeReq'[s] = tradeReq[s]
          BY <4>2, <3>6, <3>8
        <5>2. \A v \in Slots \ {s} :
                Replacing(tradeReq'[v]) => tradeReq'[v].trade # tradeReq[s].trade
          BY <5>1, <3>5, <3>6 DEF Replacements
        <5>. QED BY <5>1, <5>2, <3>2, <3>3, <3>5 DEF Replacements
      <4>. QED BY <4>1, <4>2
    <3>. QED BY <3>7, <3>8 DEF Replacements
  <2>. QED BY <2>1, <2>2
<1>7. ASSUME NEW r \in Slots, Trading!Abort(r)
      PROVE  Replacements'
  BY <1>7, <1>answer DEF Trading!Abort, Trading!NoStore
<1>8. ASSUME NEW t \in Trading!TradeIds, NEW k \in Trading!Kinds, Trading!DeleteEntry(t, k)
      PROVE  Replacements'
  BY <1>8, ReplacementsStay DEF Trading!DeleteEntry
<1>9. CASE Trading!Unshare \/ UNCHANGED Trading!tradeVars
  BY <1>9, ReplacementsStay DEF Trading!Unshare, Trading!NoStore, Trading!tradeVars
<1>. QED
  BY <1>1, <1>3, <1>4, <1>5, <1>6, <1>7, <1>8, <1>9 DEF Trading!Next

LEMMA ReplacementsKept == Trading!Spec => []Replacements
<1>1. BackofficeAssumption /\ Trading!Init => Replacements
  BY DEF Trading!Init, Replacements, Replacing, Trading!Idle
<1>. QED BY <1>1, TradesKept, ReplacementsNext, BackofficeAssumption, PTL DEF Trading!Spec

\* TradesReplacedOnce: what an update replaced is gone with its lot, and one
\* trade at most replaces it, whatever trades are made, updated and deleted at
\* the same time (UpdateTrade, DeleteTrade).
THEOREM TradesReplaced == BackofficeSpec => []TradesReplacedOnce
<1>0. BackofficeAssumption
  BY BackofficeAssumption
<1>1. ASSUME TradesInv, Replacements
      PROVE  TradesReplacedOnce
  <2>1. \A t \in Trading!TradeIds : replaces[t] # None => replaces[t] \in Trading!TradeIds
    BY <1>1 DEF TradesInv, TradesTyped
  <2>. QED BY <1>1, <2>1 DEF TradesInv, LotsWhole, Bought, Replacements, TradesReplacedOnce,
                             Trading!TradesReplacedOnce
<1>. QED BY <1>1, TradesKept, ReplacementsKept, PartsRun, PTL

-----------------------------------------------------------------------------
(* The calendar, for any date since 1 March of year 0: a date is what its   *)
(* year, month and day say, and a later month is a later date.              *)

LEMMA Quotient ==
    ASSUME NEW n \in Int, NEW k \in Nat \ {0}
    PROVE  n \div k \in Int /\ k * (n \div k) <= n /\ n < k * (n \div k) + k
  OBVIOUS

LEMMA Remainder ==
    ASSUME NEW n \in Int, NEW k \in Nat \ {0}
    PROVE  n % k \in 0..(k - 1) /\ n = k * (n \div k) + (n % k)
  OBVIOUS

\* A quotient is known by its bounds.
LEMMA QuotientIs ==
    ASSUME NEW n \in Int, NEW k \in {4, 12, 100, 400}, NEW q \in Int,
           k * q <= n, n < k * q + k
    PROVE  n \div k = q
<1>1. CASE k = 4
  BY <1>1
<1>2. CASE k = 12
  BY <1>2
<1>3. CASE k = 100
  BY <1>3
<1>4. CASE k = 400
  BY <1>4
<1>. QED BY <1>1, <1>2, <1>3, <1>4

LEMMA MonthOfYear ==
    ASSUME NEW n \in Int, NEW q \in Int, 12 * q <= n, n < 12 * q + 12
    PROVE  n % 12 = n - 12 * q
  OBVIOUS

\* The year and the day of the year, within 400 years.
LEMMA YearOfEra ==
    ASSUME NEW e \in Int, NEW a \in Int, NEW b \in Int, NEW c \in Int, NEW y \in Int,
           0 <= e, e <= 146096,
           1460 * a <= e, e < 1460 * a + 1460,
           36524 * b <= e, e < 36524 * b + 36524,
           146096 * c <= e, e < 146096 * c + 146096,
           365 * y <= e - a + b - c, e - a + b - c < 365 * y + 365
    PROVE  0 <= y /\ y <= 399
  OBVIOUS

LEMMA DayOfYear ==
    ASSUME NEW e \in Int, NEW a \in Int, NEW b \in Int, NEW c \in Int, NEW y \in Int,
           NEW k \in Int, NEW h \in Int, NEW d \in Int,
           0 <= e, e <= 146096,
           1460 * a <= e, e < 1460 * a + 1460,
           36524 * b <= e, e < 36524 * b + 36524,
           146096 * c <= e, e < 146096 * c + 146096,
           365 * y <= e - a + b - c, e - a + b - c < 365 * y + 365,
           4 * k <= y, y < 4 * k + 4, 100 * h <= y, y < 100 * h + 100,
           d = e - (365 * y + k - h)
    PROVE  0 <= d /\ d <= 366
  BY SMTT(30)

LEMMA YearEnds ==
    ASSUME NEW e \in Int, NEW a \in Int, NEW b \in Int, NEW c \in Int, NEW y \in Int,
           NEW k \in Int, NEW h \in Int, NEW l \in Int,
           0 <= e, e <= 146096,
           1460 * a <= e, e < 1460 * a + 1460,
           36524 * b <= e, e < 36524 * b + 36524,
           146096 * c <= e, e < 146096 * c + 146096,
           365 * y <= e - a + b - c, e - a + b - c < 365 * y + 365,
           4 * k <= y + 1, y + 1 < 4 * k + 4, 100 * h <= y + 1, y + 1 < 100 * h + 100,
           400 * l <= y + 1, y + 1 < 400 * l + 400
    PROVE  e < 365 * (y + 1) + k - h + l
  BY SMTT(30)

\* A month of a year that begins in March, and how many leap years there were up to it.
Falls(i, y, x, a, b, c) ==
    /\ i = 12 * y + x + 2 /\ x \in 0..11
    /\ y \in Int /\ a \in Int /\ 4 * a <= y /\ y < 4 * a + 4
    /\ b \in Int /\ 100 * b <= y /\ y < 100 * b + 100
    /\ c \in Int /\ 400 * c <= y /\ y < 400 * c + 400

\* A date of a month, which is one of a year that begins in March.
LEMMA DateOf ==
    ASSUME NEW i, NEW y, NEW x, NEW a, NEW b, NEW c, Falls(i, y, x, a, b, c), NEW d \in Int
    PROVE  OnDay(i, d) = 365 * y + a - b + c + (153 * x + 2) \div 5 + d - 1
<1>. DEFINE year == i \div 12
            month == (i % 12) + 1
<1>0. i \in Int /\ y \in Int /\ x \in 0..11 /\ i = 12 * y + x + 2
  BY DEF Falls
<1>1. year \in Int /\ month \in 1..12 /\ i = 12 * year + month - 1
  <2>1. i \in Int
    BY <1>0
  <2>2. i \div 12 \in Int /\ i % 12 \in 0..11 /\ i = 12 * (i \div 12) + (i % 12)
    BY ONLY <2>1
  <2>. QED BY <2>1, <2>2
<1>2. OnDay(i, d) = Day(year, month, d)
  BY DEF OnDay
<1>. HIDE DEF year, month
<1>3. (IF month <= 2 THEN year - 1 ELSE year) = y
  BY <1>0, <1>1
<1>4. (month + 9) % 12 = x
  <2>1. CASE month <= 2
    BY <2>1, <1>0, <1>1
  <2>2. CASE month > 2
    BY <2>2, <1>0, <1>1
  <2>. QED BY <2>1, <2>2, <1>1
<1>5. y \div 4 = a /\ y \div 100 = b /\ y \div 400 = c
  BY QuotientIs DEF Falls
<1>. QED BY <1>2, <1>3, <1>4, <1>5 DEF Day

\* A date has its day in its month, and comes before the first of the next one.
LEMMA RoundTrip ==
    ASSUME NEW n \in Int
    PROVE  /\ Month(n) \in Int /\ Civil(n).day \in Int
           /\ OnDay(Month(n), Civil(n).day) = n
           /\ 1 <= Civil(n).day /\ n < OnDay(Month(n) + 1, 1)
<1>. DEFINE era == n \div 146097
            e == n % 146097
            a == e \div 1460
            b == e \div 36524
            c == e \div 146096
            y == (e - a + b - c) \div 365
            k == y \div 4
            h == y \div 100
            d == e - (365 * y + k - h)
            m == (5 * d + 2) \div 153
            first == (153 * m + 2) \div 5
            year == y + 400 * era + (IF m < 10 THEN 0 ELSE 1)
            month == IF m < 10 THEN m + 3 ELSE m - 9
            day1 == d - first + 1
<1>1. era \in Int /\ e \in Int /\ 0 <= e /\ e <= 146096 /\ n = 146097 * era + e
  BY Quotient, Remainder
<1>2. /\ a \in Int /\ 1460 * a <= e /\ e < 1460 * a + 1460
      /\ b \in Int /\ 36524 * b <= e /\ e < 36524 * b + 36524
      /\ c \in Int /\ 146096 * c <= e /\ e < 146096 * c + 146096
  BY <1>1, Quotient
<1>. HIDE DEF e, era, a, b, c
<1>3. y \in Int /\ 365 * y <= e - a + b - c /\ e - a + b - c < 365 * y + 365
  BY <1>1, <1>2, Quotient
<1>. HIDE DEF y
<1>4. 0 <= y /\ y <= 399
  BY <1>1, <1>2, <1>3, YearOfEra
<1>5. /\ k \in Int /\ 4 * k <= y /\ y < 4 * k + 4
      /\ h \in Int /\ 100 * h <= y /\ y < 100 * h + 100
  BY <1>3, Quotient
<1>. HIDE DEF k, h
<1>6. d \in Int /\ 0 <= d /\ d <= 366
  BY <1>1, <1>2, <1>3, <1>5, DayOfYear
<1>7. m \in Int /\ 153 * m <= 5 * d + 2 /\ 5 * d + 2 < 153 * m + 153
  BY <1>1, <1>3, <1>5, <1>6, Quotient
<1>8. 0 <= m /\ m <= 11
  BY <1>6, <1>7
<1>9. Civil(n) = [year |-> year, month |-> month, day |-> day1]
  BY DEF Civil, e, era, a, b, c, y, k, h
<1>. HIDE DEF m, d
<1>10. first \in Int /\ 5 * first <= 153 * m + 2 /\ 153 * m + 2 < 5 * first + 5
  BY <1>7, Quotient
<1>. HIDE DEF first
<1>11. year \in Int /\ month \in 1..12 /\ day1 \in Int
  BY <1>1, <1>3, <1>6, <1>7, <1>8, <1>10
<1>12. Month(n) = year * 12 + month - 1
  BY <1>9 DEF Month
<1>13. Month(n) \div 12 = year /\ (Month(n) % 12) + 1 = month
  <2>1. 12 * year <= Month(n) /\ Month(n) < 12 * year + 12 /\ Month(n) \in Int
    BY <1>11, <1>12
  <2>2. Month(n) \div 12 = year
    BY <1>11, <2>1, QuotientIs
  <2>3. Month(n) % 12 = Month(n) - 12 * year
    BY <1>11, <2>1, MonthOfYear
  <2>. QED BY <1>11, <1>12, <2>2, <2>3
<1>14. (IF month <= 2 THEN year - 1 ELSE year) = y + 400 * era /\ (month + 9) % 12 = m
  <2>1. CASE m < 10
    BY <2>1, <1>1, <1>3, <1>7, <1>8
  <2>2. CASE m >= 10
    BY <2>2, <1>1, <1>3, <1>7, <1>8
  <2>. QED BY <2>1, <2>2, <1>7
<1>15. /\ (y + 400 * era) \div 4 = k + 100 * era
       /\ (y + 400 * era) \div 100 = h + 4 * era
       /\ (y + 400 * era) \div 400 = era
  BY <1>1, <1>3, <1>4, <1>5, QuotientIs
<1>16. Day(year, month, day1) = n
  <2>1. Day(year, month, day1)
          = 365 * (y + 400 * era) + (k + 100 * era) - (h + 4 * era) + era + first + day1 - 1
    BY <1>14, <1>15 DEF Day, first
  <2>2. d = e - (365 * y + k - h) /\ day1 = d - first + 1
    BY DEF d
  <2>. HIDE DEF day1
  <2>. QED BY <2>1, <2>2, <1>1, <1>3, <1>5, <1>6, <1>10, <1>11
<1>17. d = e - (365 * y + k - h) /\ day1 = d - first + 1
  BY DEF d
<1>. HIDE DEF day1
<1>18. 1 <= day1
  BY <1>6, <1>7, <1>10, <1>17
<1>. DEFINE Y == y + 400 * era
            A == k + 100 * era
            B == h + 4 * era
<1>19. Month(n) + 1 = 12 * Y + (m + 1) + 2
  BY <1>1, <1>3, <1>7, <1>8, <1>12
<1>20. n < OnDay(Month(n) + 1, 1)
  <2>1. CASE m < 11
    <3>. DEFINE x == m + 1
                next == (153 * x + 2) \div 5
    <3>1. x \in 0..11 /\ next \in Int /\ d < next
      <4>1. x \in 0..11 /\ 153 * x + 2 \in Int /\ x = m + 1
        BY <2>1, <1>7, <1>8
      <4>. HIDE DEF x
      <4>2. next \in Int /\ 153 * x + 2 < 5 * next + 5
        <5>. DEFINE p == 153 * x + 2
        <5>1. p \in Int
          BY <4>1
        <5>. HIDE DEF p
        <5>2. p \div 5 \in Int /\ p < 5 * (p \div 5) + 5
          BY ONLY <5>1
        <5>. QED BY <5>2 DEF p
      <4>. HIDE DEF next
      <4>3. /\ d \in Int /\ m \in Int /\ next \in Int
            /\ 5 * d + 2 < 153 * m + 153 /\ 153 * (m + 1) + 2 < 5 * next + 5
        BY <4>1, <4>2, <1>6, <1>7
      <4>4. d < next
        BY ONLY <4>3
      <4>. QED BY <4>1, <4>2, <4>4
    <3>2. OnDay(Month(n) + 1, 1) = 365 * Y + A - B + era + next + 1 - 1
      <4>1. Falls(Month(n) + 1, Y, x, A, B, era) /\ 1 \in Int
        <5>1. Y \in Int /\ A \in Int /\ B \in Int /\ era \in Int /\ x \in 0..11
          BY <1>1, <1>3, <1>5, <3>1
        <5>2. /\ 4 * A <= Y /\ Y < 4 * A + 4 /\ 100 * B <= Y /\ Y < 100 * B + 100
              /\ 400 * era <= Y /\ Y < 400 * era + 400
          BY <1>1, <1>3, <1>4, <1>5
        <5>3. Month(n) + 1 = 12 * Y + x + 2
          BY <1>19
        <5>. HIDE DEF Y, A, B, x
        <5>. QED BY <5>1, <5>2, <5>3 DEF Falls
      <4>. HIDE DEF Y, A, B, x
      <4>2. OnDay(Month(n) + 1, 1)
              = 365 * Y + A - B + era + (153 * x + 2) \div 5 + 1 - 1
        BY <4>1, DateOf
      <4>. QED BY <4>2
    <3>. HIDE DEF next, x
    <3>. QED BY <3>1, <3>2, <1>1, <1>3, <1>5, <1>6, <1>17
  <2>2. CASE m = 11
    <3>. DEFINE z == y + 1
                Z == z + 400 * era
                kz == z \div 4
                hz == z \div 100
                lz == z \div 400
                P == kz + 100 * era
                Q == hz + 4 * era
                R == lz + era
    <3>1. z \in Int /\ z = y + 1
      BY <1>3
    <3>. HIDE DEF z
    <3>2. /\ kz \in Int /\ 4 * kz <= z /\ z < 4 * kz + 4
          /\ hz \in Int /\ 100 * hz <= z /\ z < 100 * hz + 100
          /\ lz \in Int /\ 400 * lz <= z /\ z < 400 * lz + 400
      BY <3>1, Quotient
    <3>. HIDE DEF kz, hz, lz
    <3>3. e < 365 * (y + 1) + kz - hz + lz
      BY <3>1, <3>2, <1>1, <1>2, <1>3, YearEnds
    <3>4. /\ Z \in Int /\ P \in Int /\ Q \in Int /\ R \in Int
          /\ Falls(Month(n) + 1, Z, 0, P, Q, R)
      <4>1. Month(n) + 1 = 12 * Z + 0 + 2
        BY <2>2, <3>1, <1>1, <1>3, <1>19
      <4>. QED BY <3>1, <3>2, <4>1, <1>1 DEF Falls
    <3>5. OnDay(Month(n) + 1, 1) = 365 * Z + P - Q + R + 0 + 1 - 1
      <4>1. (153 * 0 + 2) \div 5 = 0 /\ 1 \in Int
        OBVIOUS
      <4>. HIDE DEF Z, P, Q, R
      <4>2. OnDay(Month(n) + 1, 1)
              = 365 * Z + P - Q + R + (153 * 0 + 2) \div 5 + 1 - 1
        BY <3>4, <4>1, DateOf
      <4>. QED BY <3>4, <4>1, <4>2
    <3>6. n = 146097 * era + e /\ OnDay(Month(n) + 1, 1) = 365 * Z + P - Q + R
      <4>. HIDE DEF P, Q, R, Z
      <4>. QED BY <3>4, <3>5, <1>1
    <3>. QED BY <3>1, <3>2, <3>3, <3>6, <1>1, <1>3
  <2>. QED BY <2>1, <2>2, <1>7, <1>8
<1>. QED BY <1>9, <1>11, <1>12, <1>13, <1>16, <1>18, <1>20 DEF OnDay

\* A day more or less is the next or the last one, whatever the month.
LEMMA DayShift ==
    ASSUME NEW m \in Int, NEW d \in Int, NEW k \in Int
    PROVE  OnDay(m, d + k) = OnDay(m, d) + k
<1>. DEFINE year == m \div 12
            month == (m % 12) + 1
            y == IF month <= 2 THEN year - 1 ELSE year
            x == (month + 9) % 12
            base == 365 * y + y \div 4 - y \div 100 + y \div 400 + (153 * x + 2) \div 5
<1>1. base \in Int
  OBVIOUS
<1>2. OnDay(m, d + k) = base + (d + k) - 1 /\ OnDay(m, d) = base + d - 1
  BY DEF OnDay, Day
<1>. HIDE DEF base
<1>. QED BY <1>1, <1>2

LEMMA AddDays ==
    ASSUME NEW n \in Int, NEW k \in Int
    PROVE  AddDate(n, 0, k) = n + k
<1>1. Month(n) \in Int /\ Civil(n).day \in Int /\ OnDay(Month(n), Civil(n).day) = n
  BY RoundTrip
<1>2. AddDate(n, 0, k) = OnDay(Month(n), Civil(n).day + k)
  BY <1>1 DEF AddDate
<1>3. OnDay(Month(n), Civil(n).day + k) = OnDay(Month(n), Civil(n).day) + k
  BY ONLY <1>1, DayShift
<1>. QED BY <1>1, <1>2, <1>3

\* Leap years do not make later years begin earlier.
LEMMA LeapDays ==
    ASSUME NEW y \in Int, NEW a \in Int, NEW b \in Int, NEW c \in Int,
           NEW z \in Int, NEW i \in Int, NEW j \in Int, NEW k \in Int,
           4 * a <= y, y < 4 * a + 4, 100 * b <= y, y < 100 * b + 100,
           400 * c <= y, y < 400 * c + 400,
           4 * i <= z, z < 4 * i + 4, 100 * j <= z, z < 100 * j + 100,
           400 * k <= z, z < 400 * k + 400,
           y <= z
    PROVE  a - b + c <= i - j + k
  BY SMTT(30)

\* A later month is later on the same day.
LEMMA MonthsGrow ==
    ASSUME NEW m \in Int, NEW n \in Int, NEW d \in Int, m < n
    PROVE  OnDay(m, d) \in Int /\ OnDay(n, d) \in Int /\ OnDay(m, d) < OnDay(n, d)
<1>. DEFINE y(i) == IF (i % 12) + 1 <= 2 THEN i \div 12 - 1 ELSE i \div 12
            x(i) == ((i % 12) + 10) % 12
            leap(i) == y(i) \div 4 - y(i) \div 100 + y(i) \div 400
            first(i) == (153 * x(i) + 2) \div 5
<1>1. ASSUME NEW i \in Int
      PROVE  /\ y(i) \in Int /\ x(i) \in 0..11 /\ i = 12 * y(i) + x(i) + 2
             /\ leap(i) \in Int /\ first(i) \in 0..337
             /\ 5 * first(i) <= 153 * x(i) + 2 /\ 153 * x(i) + 2 < 5 * first(i) + 5
             /\ OnDay(i, d) = 365 * y(i) + leap(i) + first(i) + d - 1
  <2>1. y(i) \in Int /\ x(i) \in 0..11 /\ i = 12 * y(i) + x(i) + 2
    OBVIOUS
  <2>2. OnDay(i, d) = 365 * y(i) + y(i) \div 4 - y(i) \div 100 + y(i) \div 400
                        + (153 * x(i) + 2) \div 5 + d - 1
    <3>1. (i % 12) + 1 + 9 = (i % 12) + 10
      OBVIOUS
    <3>. QED BY <3>1 DEF OnDay, Day
  <2>. HIDE DEF y, x
  <2>3. leap(i) \in Int /\ first(i) \in Int /\ 5 * first(i) <= 153 * x(i) + 2
        /\ 153 * x(i) + 2 < 5 * first(i) + 5
    BY <2>1
  <2>4. OnDay(i, d) = 365 * y(i) + leap(i) + first(i) + d - 1
    BY <2>1, <2>2, <2>3
  <2>. HIDE DEF leap, first
  <2>. QED BY <2>1, <2>3, <2>4
<1>2. ASSUME y(m) <= y(n)
      PROVE  leap(m) <= leap(n)
  <2>. DEFINE ym == y(m) yn == y(n)
  <2>1. ym \in Int /\ yn \in Int /\ ym <= yn
    BY <1>1, <1>2
  <2>. HIDE DEF ym, yn
  <2>2. ym \div 4 - ym \div 100 + ym \div 400 <= yn \div 4 - yn \div 100 + yn \div 400
    <3>. DEFINE a == ym \div 4 b == ym \div 100 c == ym \div 400
                i == yn \div 4 j == yn \div 100 k == yn \div 400
    <3>1. /\ a \in Int /\ 4 * a <= ym /\ ym < 4 * a + 4
          /\ b \in Int /\ 100 * b <= ym /\ ym < 100 * b + 100
          /\ c \in Int /\ 400 * c <= ym /\ ym < 400 * c + 400
      BY <2>1
    <3>2. /\ i \in Int /\ 4 * i <= yn /\ yn < 4 * i + 4
          /\ j \in Int /\ 100 * j <= yn /\ yn < 100 * j + 100
          /\ k \in Int /\ 400 * k <= yn /\ yn < 400 * k + 400
      BY <2>1
    <3>. HIDE DEF a, b, c, i, j, k
    <3>3. a - b + c <= i - j + k
      BY <2>1, <3>1, <3>2, LeapDays
    <3>. QED BY <3>3 DEF a, b, c, i, j, k
  <2>. QED BY <2>2 DEF ym, yn
<1>. HIDE DEF y, x, leap, first
<1>. DEFINE year1 == y(m) month1 == x(m) leap1 == leap(m) first1 == first(m) date1 == OnDay(m, d)
            year2 == y(n) month2 == x(n) leap2 == leap(n) first2 == first(n) date2 == OnDay(n, d)
<1>3. /\ year1 \in Int /\ month1 \in 0..11 /\ m = 12 * year1 + month1 + 2
      /\ leap1 \in Int /\ first1 \in 0..337
      /\ 5 * first1 <= 153 * month1 + 2 /\ 153 * month1 + 2 < 5 * first1 + 5
      /\ date1 = 365 * year1 + leap1 + first1 + d - 1
  BY <1>1
<1>4. /\ year2 \in Int /\ month2 \in 0..11 /\ n = 12 * year2 + month2 + 2
      /\ leap2 \in Int /\ first2 \in 0..337
      /\ 5 * first2 <= 153 * month2 + 2 /\ 153 * month2 + 2 < 5 * first2 + 5
      /\ date2 = 365 * year2 + leap2 + first2 + d - 1
  BY <1>1
<1>5. year1 <= year2 => leap1 <= leap2
  BY <1>2
<1>. HIDE DEF year1, month1, leap1, first1, date1,
              year2, month2, leap2, first2, date2
<1>6. year1 <= year2
  BY <1>3, <1>4
<1>7. date1 < date2
  <2>1. CASE year1 < year2
    BY <2>1, <1>3, <1>4, <1>5
  <2>2. CASE year1 = year2
    BY <2>2, <1>3, <1>4, <1>5
  <2>. QED BY <2>1, <2>2, <1>3, <1>4, <1>6
<1>8. date1 \in Int /\ date2 \in Int
  BY <1>3, <1>4
<1>. QED BY <1>7, <1>8 DEF date1, date2

-----------------------------------------------------------------------------
(* Budgets: a budget keeps its period and what it was created with, and     *)
(* updates only write the amount and the threshold of those not deleted.    *)

BudgetRow == [state : {"none", "live", "deleted"}, period : {"month", "week", "custom"},
              start : Int, end : Int, category : Categories \cup {None},
              amount : Int, threshold : Int]

BudgetTyped ==
    /\ budget \in [Budgeting!BudgetIds -> BudgetRow]
    /\ budgets \in 0..MaxBudgets /\ budgetsBegun \in 0..BudgetRequests
    /\ budgetReq \in [Slots -> [id : Budgeting!BudgetIds \cup {None}, row : BudgetRow]]
    /\ \A r \in Slots : budgetReq[r] # Budgeting!Idle => budgetReq[r].id \in Budgeting!BudgetIds

BudgetsAsMade ==
    \A b \in Budgeting!BudgetIds :
      /\ Budgeting!Threshold(budget[b].threshold)
      /\ budget[b].state # "none" =>
           /\ b <= budgets
           /\ budget[b].end = Budgeting!EndOf(budget[b].period, budget[b].start, budget[b].end)

BudgetsInv == BudgetTyped /\ BudgetsAsMade

LEMMA BudgetIdsAre ==
    /\ MaxBudgets \in Nat /\ BudgetRequests \in Nat
    /\ Budgeting!BudgetIds = 1..MaxBudgets /\ Budgeting!NoBudget \in BudgetRow
    /\ Budgeting!Idle \in [id : Budgeting!BudgetIds \cup {None}, row : BudgetRow]
    /\ BudgetBodies \subseteq Budgeting!Body /\ Patches \subseteq [amount : Int, threshold : Int]
<1>1. MaxBudgets \in Nat /\ BudgetRequests \in Nat /\ BudgetBodies \subseteq Budgeting!Body
      /\ Patches \subseteq [amount : Int, threshold : Int]
  BY BackofficeAssumption DEF BackofficeAssumption, Budgeting!BudgetsAssumption
<1>2. Budgeting!NoBudget \in BudgetRow
  BY DEF Budgeting!NoBudget, BudgetRow, Budgeting!Absent
<1>3. Budgeting!Idle \in [id : Budgeting!BudgetIds \cup {None}, row : BudgetRow]
  BY <1>2 DEF Budgeting!Idle
<1>. QED BY <1>1, <1>2, <1>3 DEF Budgeting!BudgetIds

LEMMA BudgetsInit == Budgeting!Init => BudgetsInv
<1>. SUFFICES ASSUME Budgeting!Init
              PROVE  BudgetsInv
  OBVIOUS
<1>1. budget = [b \in Budgeting!BudgetIds |-> Budgeting!NoBudget] /\ budgets = 0
      /\ budgetReq = [r \in Slots |-> Budgeting!Idle] /\ budgetsBegun = 0
  BY DEF Budgeting!Init
<1>2. BudgetTyped
  BY <1>1, BudgetIdsAre DEF BudgetTyped
<1>3. BudgetsAsMade
  BY <1>1 DEF BudgetsAsMade, Budgeting!NoBudget, Budgeting!Threshold, Budgeting!Absent
<1>. QED BY <1>2, <1>3 DEF BudgetsInv

\* Every part reads the calendar alike.
LEMMA SameDates ==
    ASSUME NEW n, NEW m, NEW d
    PROVE  /\ Budgeting!AddDate(n, m, d) = AddDate(n, m, d)
           /\ Budgeting!SameDayNextMonth(n, m) = SameDayNextMonth(n, m)
           /\ Scheduling!AddDate(n, m, d) = AddDate(n, m, d)
<1>1. /\ \A i : Budgeting!Civil(i) = Civil(i)
      /\ \A i : Scheduling!Civil(i) = Civil(i)
  BY DEF Budgeting!Civil, Scheduling!Civil, Civil
<1>2. /\ \A i : Budgeting!Month(i) = Month(i)
      /\ \A i : Scheduling!Month(i) = Month(i)
  BY <1>1 DEF Budgeting!Month, Scheduling!Month, Month
<1>3. /\ \A i, j : Budgeting!OnDay(i, j) = OnDay(i, j)
      /\ \A i, j : Scheduling!OnDay(i, j) = OnDay(i, j)
  BY DEF Budgeting!OnDay, Scheduling!OnDay, OnDay, Budgeting!Day, Scheduling!Day, Day
<1>. QED
  BY <1>1, <1>2, <1>3 DEF Budgeting!AddDate, Scheduling!AddDate, AddDate,
     Budgeting!SameDayNextMonth, SameDayNextMonth

\* The dates of a period are dates.
LEMMA EndIs ==
    ASSUME NEW period, NEW start \in Int, NEW end \in Int
    PROVE  /\ Budgeting!EndOf(period, start, end) \in Int
           /\ Budgeting!EndOf(period, start, Budgeting!EndOf(period, start, end))
                = Budgeting!EndOf(period, start, end)
           /\ period = "week" => Budgeting!EndOf(period, start, end) = start + 6
           /\ period = "month" =>
                Budgeting!EndOf(period, start, end) = OnDay(Month(start) + 1, Civil(start).day) - 1
<1>1. CASE period = "custom"
  BY <1>1 DEF Budgeting!EndOf
<1>2. CASE period = "week"
  <2>1. Budgeting!AddDate(start, 0, 6) = start + 6
    BY AddDays, SameDates
  <2>2. Budgeting!EndOf(period, start, end) = start + 6
        /\ Budgeting!EndOf(period, start, start + 6) = start + 6
    BY <1>2, <2>1 DEF Budgeting!EndOf
  <2>. QED BY <1>2, <2>2
<1>3. CASE period \notin {"custom", "week"}
  <2>. DEFINE next == OnDay(Month(start) + 1, Civil(start).day)
  <2>1. Month(start) \in Int /\ Civil(start).day \in Int
    BY RoundTrip
  <2>2. next \in Int
    <3>. DEFINE m == Month(start) d == Civil(start).day
    <3>1. m \in Int /\ d \in Int /\ m + 1 \in Int /\ m < m + 1
      BY <2>1
    <3>. HIDE DEF m, d
    <3>2. OnDay(m + 1, d) \in Int
      BY <3>1, MonthsGrow
    <3>. QED BY <3>2 DEF m, d
  <2>3. Budgeting!AddDate(start, 1, 0) = next
    <3>1. AddDate(start, 1, 0) = next
      BY <2>1 DEF AddDate
    <3>. QED BY <3>1, SameDates
  <2>. HIDE DEF next
  <2>4. Budgeting!AddDate(next, 0, -1) = next - 1
    <3>1. Budgeting!AddDate(next, 0, -1) = next + (-1)
      BY <2>2, AddDays, SameDates
    <3>. QED BY <3>1, <2>2
  <2>5. Budgeting!EndOf(period, start, end) = next - 1
        /\ Budgeting!EndOf(period, start, next - 1) = next - 1
    BY <1>3, <2>3, <2>4 DEF Budgeting!EndOf
  <2>. QED BY <1>3, <2>2, <2>5 DEF next
<1>. QED BY <1>1, <1>2, <1>3

LEMMA BudgetsNext == BudgetsInv /\ [Budgeting!Next]_Budgeting!budgetVars => BudgetsInv'
<1>. SUFFICES ASSUME BudgetsInv, [Budgeting!Next]_Budgeting!budgetVars
              PROVE  BudgetsInv'
  OBVIOUS
<1>. USE BudgetIdsAre
<1>t. BudgetTyped /\ BudgetsAsMade
  BY DEF BudgetsInv
<1>1. ASSUME NEW body \in BudgetBodies, Budgeting!CreateBudget(body)
      PROVE  BudgetsInv'
  <2>. DEFINE b == budgets + 1
              end == Budgeting!EndOf(body.period, body.start, body.end)
              row == [state |-> "live", period |-> body.period, start |-> body.start,
                      end |-> end, category |-> body.category, amount |-> body.amount,
                      threshold |-> body.threshold]
  <2>1. b \in Budgeting!BudgetIds /\ budgets' = b /\ b <= MaxBudgets
        /\ Budgeting!Threshold(body.threshold)
        /\ budget' = [budget EXCEPT ![b] = row]
        /\ UNCHANGED <<budgetReq, budgetsBegun>>
    BY <1>1, <1>t DEF Budgeting!CreateBudget, BudgetTyped
  <2>2. body \in Budgeting!Body
    OBVIOUS
  <2>3. /\ body.period \in {"month", "week", "custom"} /\ body.start \in Int /\ body.end \in Int
        /\ body.category \in Categories /\ body.amount \in Int /\ body.threshold \in Int
    BY <2>2 DEF Budgeting!Body
  <2>4. end \in Int /\ end = Budgeting!EndOf(body.period, body.start, end)
    BY <2>3, EndIs
  <2>. HIDE DEF end
  <2>5. row \in BudgetRow
    BY <2>3, <2>4 DEF BudgetRow
  <2>6. row.state = "live" /\ row.period = body.period /\ row.start = body.start /\ row.end = end
        /\ row.threshold = body.threshold
    OBVIOUS
  <2>. HIDE DEF row
  <2>7. BudgetTyped'
    BY <2>1, <2>5, <1>t DEF BudgetTyped
  <2>8. BudgetsAsMade'
    <3>. SUFFICES ASSUME NEW c \in Budgeting!BudgetIds
                  PROVE  /\ Budgeting!Threshold(budget'[c].threshold)
                         /\ budget'[c].state # "none" =>
                              /\ c <= budgets'
                              /\ budget'[c].end = Budgeting!EndOf(budget'[c].period, budget'[c].start, budget'[c].end)
      BY DEF BudgetsAsMade
    <3>1. CASE c = b
      <4>1. budget'[c] = row
        BY <3>1, <2>1, <1>t DEF BudgetTyped
      <4>. QED BY <3>1, <4>1, <2>1, <2>4, <2>6
    <3>2. CASE c # b
      <4>1. budget'[c] = budget[c]
        BY <3>2, <2>1, <1>t DEF BudgetTyped
      <4>. QED BY <4>1, <2>1, <1>t DEF BudgetsAsMade, BudgetTyped
    <3>. QED BY <3>1, <3>2
  <2>. QED BY <2>7, <2>8 DEF BudgetsInv
<1>2. ASSUME NEW r \in Slots, NEW b \in Budgeting!BudgetIds, NEW p \in Patches,
             Budgeting!ReadBudget(r, b, p)
      PROVE  BudgetsInv'
  <2>. DEFINE amount == IF p.amount = Budgeting!Absent THEN budget[b].amount ELSE p.amount
              threshold == IF p.threshold = Budgeting!Absent THEN budget[b].threshold ELSE p.threshold
              row == [[budget[b] EXCEPT !.amount = amount] EXCEPT !.threshold = threshold]
  <2>1. budget[b] \in BudgetRow
    BY <1>t DEF BudgetTyped
  <2>2. amount \in Int /\ threshold \in Int
    BY <2>1 DEF BudgetRow
  <2>3. budgetReq' = [budgetReq EXCEPT ![r] = [id |-> b, row |-> row]]
    BY <1>2, <2>1 DEF Budgeting!ReadBudget, BudgetRow
  <2>. HIDE DEF amount, threshold
  <2>4. row \in BudgetRow
    BY <2>1, <2>2 DEF BudgetRow
  <2>. HIDE DEF row
  <2>5. UNCHANGED <<budget, budgets>> /\ budgetsBegun' \in 0..BudgetRequests
    BY <1>2, <1>t DEF Budgeting!ReadBudget, BudgetTyped
  <2>6. BudgetTyped'
    BY <2>3, <2>4, <2>5, <1>t DEF BudgetTyped
  <2>7. BudgetsAsMade'
    BY <2>5, <1>t DEF BudgetsAsMade
  <2>. QED BY <2>6, <2>7 DEF BudgetsInv
<1>3. ASSUME NEW r \in Slots, Budgeting!UpdateBudget(r)
      PROVE  BudgetsInv'
  <2>. DEFINE b == budgetReq[r].id
              row == budgetReq[r].row
              new == Budgeting!Updated(b, row)
  <2>1. b \in Budgeting!BudgetIds /\ row \in BudgetRow /\ budget[b] \in BudgetRow
    BY <1>3, <1>t DEF Budgeting!UpdateBudget, BudgetTyped
  <2>2. UNCHANGED <<budgets, budgetsBegun>> /\ budgetReq' = [budgetReq EXCEPT ![r] = Budgeting!Idle]
        /\ budget' = IF Budgeting!Threshold(row.threshold) THEN [budget EXCEPT ![b] = new] ELSE budget
    BY <1>3 DEF Budgeting!UpdateBudget
  <2>3. new = budget[b] \/ new = [[budget[b] EXCEPT !.amount = row.amount] EXCEPT !.threshold = row.threshold]
    BY <2>1 DEF Budgeting!Updated, BudgetRow
  <2>4. row.amount \in Int /\ row.threshold \in Int
    BY <2>1 DEF BudgetRow
  <2>. HIDE DEF new, row, b
  <2>5. /\ new \in BudgetRow /\ new.state = budget[b].state /\ new.period = budget[b].period
        /\ new.start = budget[b].start /\ new.end = budget[b].end
        /\ new.threshold \in {row.threshold, budget[b].threshold}
    BY <2>1, <2>3, <2>4 DEF BudgetRow
  <2>6. BudgetTyped'
    BY <2>1, <2>2, <2>5, <1>t DEF BudgetTyped
  <2>7. BudgetsAsMade'
    <3>. SUFFICES ASSUME NEW c \in Budgeting!BudgetIds
                  PROVE  /\ Budgeting!Threshold(budget'[c].threshold)
                         /\ budget'[c].state # "none" =>
                              /\ c <= budgets'
                              /\ budget'[c].end = Budgeting!EndOf(budget'[c].period, budget'[c].start, budget'[c].end)
      BY DEF BudgetsAsMade
    <3>1. CASE c = b /\ Budgeting!Threshold(row.threshold)
      <4>1. budget'[c] = new
        BY <3>1, <2>1, <2>2, <1>t DEF BudgetTyped
      <4>. QED BY <3>1, <4>1, <2>1, <2>2, <2>5, <1>t DEF BudgetsAsMade
    <3>2. CASE c # b \/ ~Budgeting!Threshold(row.threshold)
      <4>1. budget'[c] = budget[c]
        BY <3>2, <2>1, <2>2, <1>t DEF BudgetTyped
      <4>. QED BY <4>1, <2>2, <1>t DEF BudgetsAsMade
    <3>. QED BY <3>1, <3>2
  <2>. QED BY <2>6, <2>7 DEF BudgetsInv
<1>4. ASSUME NEW r \in Slots, Budgeting!Abort(r)
      PROVE  BudgetsInv'
  <2>1. UNCHANGED <<budget, budgets, budgetsBegun>>
        /\ budgetReq' = [budgetReq EXCEPT ![r] = Budgeting!Idle]
    BY <1>4 DEF Budgeting!Abort
  <2>. QED BY <2>1, <1>t DEF BudgetsInv, BudgetTyped, BudgetsAsMade
<1>5. ASSUME NEW b \in Budgeting!BudgetIds, Budgeting!DeleteBudget(b)
      PROVE  BudgetsInv'
  <2>. DEFINE new == [budget[b] EXCEPT !.state = "deleted"]
  <2>1. budget' = [budget EXCEPT ![b] = new] /\ UNCHANGED <<budgets, budgetReq, budgetsBegun>>
        /\ budget[b].state = "live" /\ budget[b] \in BudgetRow
    BY <1>5, <1>t DEF Budgeting!DeleteBudget, BudgetTyped
  <2>2. /\ new \in BudgetRow /\ new.period = budget[b].period
        /\ new.start = budget[b].start /\ new.end = budget[b].end
        /\ new.threshold = budget[b].threshold
    BY <2>1 DEF BudgetRow
  <2>. HIDE DEF new
  <2>3. BudgetTyped'
    BY <2>1, <2>2, <1>t DEF BudgetTyped
  <2>4. \A c \in Budgeting!BudgetIds : budget'[c] = IF c = b THEN new ELSE budget[c]
    BY <2>1, <1>t DEF BudgetTyped
  <2>5. BudgetsAsMade'
    BY <2>1, <2>2, <2>4, <1>t DEF BudgetsAsMade
  <2>. QED BY <2>3, <2>5 DEF BudgetsInv
<1>6. ASSUME NEW b \in Budgeting!BudgetIds, Budgeting!ShowBudget(b)
      PROVE  BudgetsInv'
  BY <1>6, <1>t DEF Budgeting!ShowBudget, BudgetsInv, BudgetTyped, BudgetsAsMade
<1>7. ASSUME NEW e \in Expenses, Budgeting!Book(e)
      PROVE  BudgetsInv'
  BY <1>7, <1>t DEF Budgeting!Book, BudgetsInv, BudgetTyped, BudgetsAsMade
<1>8. CASE UNCHANGED Budgeting!budgetVars
  BY <1>8, <1>t DEF Budgeting!budgetVars, BudgetsInv, BudgetTyped, BudgetsAsMade
<1>. QED BY <1>1, <1>2, <1>3, <1>4, <1>5, <1>6, <1>7, <1>8 DEF Budgeting!Next

LEMMA BudgetsKept == Budgeting!Spec => []BudgetsInv
  BY BudgetsInit, BudgetsNext, PTL DEF Budgeting!Spec

\* PeriodsTile: budgets of one month or week after the other share no day and
\* leave none out, for any dates a client may give (normalizeBudgetPeriod).
THEOREM PeriodsTileAlways == BackofficeSpec => []PeriodsTile
<1>1. ASSUME BudgetsInv
      PROVE  Budgeting!PeriodsTile
  <2>. SUFFICES ASSUME NEW b \in Budgeting!BudgetIds, NEW c \in Budgeting!BudgetIds,
                       budget[b].state # "none", budget[c].state # "none",
                       \/ /\ budget[b].period = "month"
                          /\ SameDayNextMonth(budget[b].start, budget[c].start)
                       \/ budget[b].period = "week" /\ budget[c].start = budget[b].start + 7
                PROVE  /\ Budgeting!Window(budget[b]) \cap Budgeting!Window(budget[c]) = {}
                       /\ budget[c].start - 1 \in Budgeting!Window(budget[b])
    BY SameDates DEF Budgeting!PeriodsTile
  <2>. DEFINE start == budget[b].start
              later == budget[c].start
              end == budget[b].end
  <2>1. start \in Int /\ later \in Int /\ end \in Int /\ budget[c].end \in Int
    BY <1>1 DEF BudgetsInv, BudgetTyped, BudgetRow
  <2>2. end = Budgeting!EndOf(budget[b].period, start, end)
    BY <1>1 DEF BudgetsInv, BudgetsAsMade
  <2>3. start < later /\ end = later - 1
    <3>1. CASE budget[b].period = "week" /\ later = start + 7
      BY <3>1, <2>1, <2>2, EndIs
    <3>2. CASE budget[b].period = "month" /\ SameDayNextMonth(start, later)
      <4>1. /\ Month(start) \in Int /\ Civil(start).day \in Int
            /\ OnDay(Month(start), Civil(start).day) = start
            /\ OnDay(Month(later), Civil(later).day) = later
        BY <2>1, RoundTrip
      <4>2. later = OnDay(Month(start) + 1, Civil(start).day)
        BY <3>2, <4>1 DEF SameDayNextMonth
      <4>3. end = later - 1
        BY <3>2, <4>2, <2>1, <2>2, EndIs
      <4>4. start < later
        <5>. DEFINE m == Month(start) d == Civil(start).day
        <5>1. m \in Int /\ d \in Int /\ m + 1 \in Int /\ m < m + 1
          BY <4>1
        <5>. HIDE DEF m, d
        <5>2. OnDay(m, d) < OnDay(m + 1, d)
          BY <5>1, MonthsGrow
        <5>. QED BY <5>2, <4>1, <4>2 DEF m, d
      <4>. QED BY <4>3, <4>4
    <3>. QED BY <3>1, <3>2
  <2>4. Budgeting!Window(budget[b]) = start..end /\ Budgeting!Window(budget[c]) = later..budget[c].end
    BY DEF Budgeting!Window
  <2>. QED BY <2>1, <2>3, <2>4
<1>2. Budgeting!PeriodsTile => PeriodsTile
  BY DEF PeriodsTile
<1>. QED BY <1>1, <1>2, BudgetsKept, PartsRun, PTL

\* No update writes a budget that was deleted after it was read.
LEMMA DeletedBudgetsKept == Budgeting!Spec => Budgeting!DeletedBudgetsStay
<1>1. ASSUME BudgetsInv, [Budgeting!Next]_Budgeting!budgetVars,
             NEW b \in Budgeting!BudgetIds, budget[b].state = "deleted"
      PROVE  budget'[b] = budget[b]
  <2>. USE BudgetIdsAre
  <2>t. BudgetTyped /\ BudgetsAsMade
    BY <1>1 DEF BudgetsInv
  <2>1. ASSUME NEW body \in BudgetBodies, Budgeting!CreateBudget(body)
        PROVE  budget'[b] = budget[b]
    <3>1. b <= budgets /\ budgets' = budgets + 1
      BY <1>1, <2>1, <2>t DEF BudgetsAsMade, Budgeting!CreateBudget
    <3>2. b # budgets'
      BY <3>1, <2>t DEF BudgetTyped
    <3>. QED BY <3>2, <2>1, <2>t DEF Budgeting!CreateBudget, BudgetTyped
  <2>2. ASSUME NEW r \in Slots, Budgeting!UpdateBudget(r)
        PROVE  budget'[b] = budget[b]
    BY <1>1, <2>2, <2>t DEF Budgeting!UpdateBudget, Budgeting!Updated, BudgetTyped
  <2>3. ASSUME NEW c \in Budgeting!BudgetIds, Budgeting!DeleteBudget(c)
        PROVE  budget'[b] = budget[b]
    BY <1>1, <2>3, <2>t DEF Budgeting!DeleteBudget, BudgetTyped
  <2>4. CASE UNCHANGED budget
    BY <2>4
  <2>. QED BY <1>1, <2>1, <2>2, <2>3, <2>4
        DEF Budgeting!Next, Budgeting!budgetVars, Budgeting!ReadBudget, Budgeting!Abort,
            Budgeting!ShowBudget, Budgeting!Book
<1>2. BudgetsInv /\ [Budgeting!Next]_Budgeting!budgetVars =>
        [\A b \in Budgeting!BudgetIds : budget[b].state = "deleted" => budget'[b] = budget[b]]_Budgeting!budgetVars
  BY <1>1
<1>. QED BY <1>2, BudgetsKept, PTL DEF Budgeting!Spec, Budgeting!DeletedBudgetsStay

\* DeletedRowsStay: an update changes no contact and no budget that was deleted
\* after the update had read it.
THEOREM DeletedRowsKept == BackofficeSpec => DeletedRowsStay
  BY DeletedContactsKept, DeletedBudgetsKept, PartsRun, PTL DEF DeletedRowsStay

-----------------------------------------------------------------------------
(* The schedule of a rotating savings group.                                *)

ScheduleInv ==
    /\ group # Scheduling!NoGroup =>
         group.start \in Starts /\ group.frequency \in Scheduling!Frequencies
    /\ history \in [Scheduling!Records ->
                      [kind : {"none", "collected", "payout"}, cycle : 0..(Scheduling!Count + 1),
                       amount : Nat, slots : Nat]]

LEMMA CountIs ==
    /\ Scheduling!Count \in Nat /\ 1 <= Scheduling!Count
    /\ Starts \subseteq Nat /\ SavedAmounts \subseteq Nat /\ UserSlots \in Nat
    /\ MaxRecords \in Nat /\ Contribution \in Nat /\ Interest \in Nat
<1>1. Members \in Int /\ Starts \subseteq Nat /\ SavedAmounts \subseteq Nat /\ UserSlots \in Nat
      /\ MaxRecords \in Nat /\ Contribution \in Nat /\ Interest \in Nat
  BY BackofficeAssumption DEF BackofficeAssumption, Scheduling!ScheduleAssumption
<1>. QED BY <1>1 DEF Scheduling!Count

LEMMA ScheduleInit == Scheduling!Init => ScheduleInv
<1>1. Scheduling!NoCycle \in 0..(Scheduling!Count + 1)
  BY CountIs DEF Scheduling!NoCycle
<1>. QED
  BY <1>1 DEF Scheduling!Init, ScheduleInv, Scheduling!NoRecord

LEMMA ScheduleNext == ScheduleInv /\ [Scheduling!Next]_Scheduling!scheduleVars => ScheduleInv'
<1>. SUFFICES ASSUME ScheduleInv, [Scheduling!Next]_Scheduling!scheduleVars
              PROVE  ScheduleInv'
  OBVIOUS
<1>. DEFINE row == [kind : {"none", "collected", "payout"}, cycle : 0..(Scheduling!Count + 1),
                    amount : Nat, slots : Nat]
<1>0. Scheduling!NoRecord \in row
  BY CountIs DEF Scheduling!NoRecord, Scheduling!NoCycle
<1>1. ASSUME NEW s \in Starts, NEW f \in Scheduling!Frequencies, Scheduling!CreateGroup(s, f)
      PROVE  ScheduleInv'
  BY <1>1 DEF Scheduling!CreateGroup, ScheduleInv
<1>2. ASSUME NEW kind \in {"collected", "payout"}, NEW c \in 0..(Scheduling!Count + 1),
             NEW a \in SavedAmounts, NEW n \in 0..UserSlots, Scheduling!Record(kind, c, a, n)
      PROVE  ScheduleInv'
  <2>. DEFINE new == [kind |-> kind, cycle |-> c, amount |-> a, slots |-> n]
  <2>1. PICK k \in Scheduling!Records : history' = [history EXCEPT ![k] = new]
    BY <1>2 DEF Scheduling!Record
  <2>2. new \in row
    BY CountIs
  <2>3. UNCHANGED group
    BY <1>2 DEF Scheduling!Record
  <2>. HIDE DEF new
  <2>4. history' \in [Scheduling!Records -> row]
    BY <2>1, <2>2 DEF ScheduleInv
  <2>. QED BY <2>3, <2>4 DEF ScheduleInv
<1>3. ASSUME NEW k \in Scheduling!Records, Scheduling!Remove(k)
      PROVE  ScheduleInv'
  <2>1. UNCHANGED group
        /\ history' = [j \in Scheduling!Records |->
                         IF j < k THEN history[j]
                         ELSE IF j < MaxRecords THEN history[j + 1] ELSE Scheduling!NoRecord]
    BY <1>3 DEF Scheduling!Remove
  <2>2. ASSUME NEW j \in Scheduling!Records, j < MaxRecords
        PROVE  j + 1 \in Scheduling!Records
    BY <2>2, CountIs DEF Scheduling!Records
  <2>. HIDE DEF row
  <2>3. history \in [Scheduling!Records -> row]
    BY DEF ScheduleInv, row
  <2>4. history' \in [Scheduling!Records -> row]
    BY <1>0, <2>1, <2>2, <2>3
  <2>. QED BY <2>1, <2>4 DEF ScheduleInv, row
<1>4. CASE UNCHANGED Scheduling!scheduleVars
  BY <1>4 DEF Scheduling!scheduleVars, ScheduleInv
<1>. QED BY <1>1, <1>2, <1>3, <1>4 DEF Scheduling!Next

LEMMA ScheduleKept == Scheduling!Spec => []ScheduleInv
  BY ScheduleInit, ScheduleNext, PTL DEF Scheduling!Spec

\* Every set of cycles has a first one.
LEMMA FirstCycle ==
    ASSUME NEW S \in SUBSET Nat, S # {}
    PROVE  Scheduling!Min(S) \in S /\ \A n \in S : Scheduling!Min(S) <= n
<1>1. Scheduling!Min(S) = Min(S)
  BY DEF Scheduling!Min, Min
<1>. QED BY <1>1, FirstOf

\* The schedule names later dates for later cycles, and the next payment is for
\* the first cycle that is not paid, for any group, start and frequency
\* (generateSchedule).
LEMMA DueOrdered == ScheduleInv => Scheduling!DueInOrder
<1>1. ASSUME ScheduleInv
      PROVE  Scheduling!DueInOrder
  <2>. SUFFICES ASSUME group # Scheduling!NoGroup
                PROVE  /\ \A i, j \in Scheduling!Cycles :
                            i < j => Scheduling!Due(i) < Scheduling!Due(j)
                       /\ \A d \in Scheduling!NextDue : \A i \in Scheduling!Unpaid : d <= Scheduling!Due(i)
    BY DEF Scheduling!DueInOrder
  <2>1. group.start \in Int
    <3>1. group.start \in Starts
      BY <1>1 DEF ScheduleInv
    <3>2. group.start \in Nat
      BY <3>1, CountIs, Zenon
    <3>. QED BY <3>2
  <2>2. ASSUME NEW i \in Scheduling!Cycles
        PROVE  /\ Scheduling!Due(i) \in Int
               /\ \A j \in Scheduling!Cycles : i < j => Scheduling!Due(i) < Scheduling!Due(j)
    <3>. DEFINE m == Month(group.start) d == Civil(group.start).day
    <3>1. m \in Int /\ d \in Int
      BY <2>1, RoundTrip
    <3>2. Scheduling!Cycles \subseteq Nat
      BY CountIs DEF Scheduling!Cycles
    <3>3. CASE group.frequency = "weekly"
      <4>1. ASSUME NEW j \in Scheduling!Cycles
            PROVE  Scheduling!Due(j) = group.start + (j - 1) * 7
        <5>1. (j - 1) * 7 \in Int
          BY <3>2
        <5>2. AddDate(group.start, 0, (j - 1) * 7) = group.start + (j - 1) * 7
          BY <2>1, <5>1, AddDays
        <5>. QED BY <3>3, <5>2, SameDates DEF Scheduling!Due
      <4>. QED BY <2>1, <3>2, <4>1
    <3>4. CASE group.frequency # "weekly"
      <4>1. ASSUME NEW j \in Scheduling!Cycles
            PROVE  Scheduling!Due(j) = OnDay(m + (j - 1), d)
        <5>1. Scheduling!Due(j) = AddDate(group.start, j - 1, 0)
          BY <3>4, SameDates DEF Scheduling!Due
        <5>2. AddDate(group.start, j - 1, 0) = OnDay(m + (j - 1), d + 0)
          BY DEF AddDate
        <5>. HIDE DEF m, d
        <5>3. d + 0 = d
          BY <3>1
        <5>. QED BY <5>1, <5>2, <5>3
      <4>. HIDE DEF m, d
      <4>2. OnDay(m + (i - 1), d) \in Int
        <5>1. m + (i - 1) \in Int /\ m + i \in Int /\ m + (i - 1) < m + i
          BY <3>1, <3>2
        <5>. QED BY <3>1, <5>1, MonthsGrow
      <4>3. ASSUME NEW j \in Scheduling!Cycles, i < j
            PROVE  OnDay(m + (i - 1), d) < OnDay(m + (j - 1), d)
        <5>1. m + (i - 1) \in Int /\ m + (j - 1) \in Int /\ m + (i - 1) < m + (j - 1)
          BY <3>1, <3>2, <4>3
        <5>. QED BY <3>1, <5>1, MonthsGrow
      <4>. QED BY <4>1, <4>2, <4>3
    <3>. QED BY <3>3, <3>4
  <2>3. ASSUME NEW e \in Scheduling!NextDue, NEW i \in Scheduling!Unpaid
        PROVE  e <= Scheduling!Due(i)
    <3>1. Scheduling!Unpaid \in SUBSET Nat /\ Scheduling!Unpaid # {}
          /\ Scheduling!Unpaid \subseteq Scheduling!Cycles
      BY <2>3, CountIs DEF Scheduling!Unpaid, Scheduling!Cycles
    <3>. DEFINE first == Scheduling!Min(Scheduling!Unpaid)
    <3>2. e = Scheduling!Due(first)
      BY <2>3, <3>1 DEF Scheduling!NextDue
    <3>3. first \in Scheduling!Unpaid /\ first <= i
      BY <3>1, FirstCycle
    <3>. HIDE DEF first
    <3>4. first \in Scheduling!Cycles /\ i \in Scheduling!Cycles /\ first \in Nat /\ i \in Nat
      BY <3>1, <3>3
    <3>. QED BY <2>2, <3>2, <3>3, <3>4
  <2>. QED BY <2>2, <2>3
<1>. QED BY <1>1

-----------------------------------------------------------------------------
(* Market data jobs: a request for one security has its one job before it   *)
(* or, once it was answered, in the stream.                                 *)

AnswerRow == [kind : {"free", "one", "many"}, jobs : Seq(Queueing!Job), ids : Seq(0..MaxQueue),
              enqueued : Nat, done : BOOLEAN]

MarketTyped ==
    /\ stream \in Seq(Queueing!Job)
    /\ todo \in [Slots -> Seq(Queueing!Job)] /\ answer \in [Slots -> AnswerRow]

Waits(r) == ~answer[r].done /\ answer[r].ids = << >> /\ todo[r] = answer[r].jobs
Answered(r) ==
    /\ todo[r] = << >> /\ Len(answer[r].ids) = 1
    /\ answer[r].ids[1] \in DOMAIN stream /\ stream[answer[r].ids[1]] = answer[r].jobs[1]
OneQueued ==
    \A r \in Slots : answer[r].kind = "one" =>
      Len(answer[r].jobs) = 1 /\ (Waits(r) \/ Answered(r))

MarketInv == MarketTyped /\ OneQueued

LEMMA JobsAre ==
    /\ MaxQueue \in Nat /\ Market \notin Symbols /\ Securities \subseteq Symbols
    /\ Asked \subseteq Seq(Symbols)
    /\ Queueing!Of("sync", Market) \in Queueing!Job
    /\ \A s \in Symbols, type \in Queueing!Types : Queueing!Of(type, s) \in Queueing!Job
<1>1. MaxQueue \in Nat /\ Market \notin Symbols /\ Securities \subseteq Symbols
      /\ Asked \subseteq Seq(Symbols)
  BY BackofficeAssumption DEF BackofficeAssumption, Queueing!MarketAssumption
<1>. QED BY <1>1 DEF Queueing!Of, Queueing!Job

\* A request that was accepted waits.
LEMMA Accepted ==
    ASSUME MarketInv, NEW r \in Slots, NEW kind \in {"one", "many"},
           NEW jobs \in Seq(Queueing!Job), kind = "one" => Len(jobs) = 1,
           Queueing!Accept(r, kind, jobs)
    PROVE  MarketInv'
<1>. DEFINE empty == jobs = << >>
            new == [kind |-> kind, jobs |-> jobs, ids |-> << >>, enqueued |-> 0, done |-> empty]
<1>0. MarketTyped /\ OneQueued
  BY DEF MarketInv
<1>3. << >> \in Seq(0..MaxQueue) /\ empty \in BOOLEAN
  OBVIOUS
<1>a. Len(jobs) = 1 => empty = FALSE
  OBVIOUS
<1>2. todo' = [todo EXCEPT ![r] = jobs] /\ answer' = [answer EXCEPT ![r] = new] /\ stream' = stream
  BY DEF Queueing!Accept
<1>. HIDE DEF empty
<1>4. new \in AnswerRow
  BY <1>3 DEF AnswerRow
<1>5. /\ new.kind = kind /\ new.jobs = jobs /\ new.ids = << >>
      /\ kind = "one" => new.done = FALSE
  BY <1>a
<1>. HIDE DEF new
<1>6. MarketTyped'
  BY <1>0, <1>2, <1>4 DEF MarketTyped
<1>7. OneQueued'
  <2>. SUFFICES ASSUME NEW q \in Slots, answer'[q].kind = "one"
                PROVE  Len(answer'[q].jobs) = 1 /\ (Waits(q)' \/ Answered(q)')
    BY DEF OneQueued
  <2>1. CASE q = r
    <3>1. answer'[q] = new /\ todo'[q] = jobs
      BY <1>0, <1>2, <2>1 DEF MarketTyped
    <3>. QED BY <1>5, <3>1 DEF Waits
  <2>2. CASE q # r
    <3>1. answer'[q] = answer[q] /\ todo'[q] = todo[q]
      BY <1>0, <1>2, <2>2 DEF MarketTyped
    <3>. QED BY <1>0, <1>2, <3>1 DEF OneQueued, Waits, Answered
  <2>. QED BY <2>1, <2>2
<1>. QED BY <1>6, <1>7 DEF MarketInv

\* What is put together piece by piece exists.
LEMMA Pieces ==
    ASSUME NEW n \in Nat, NEW g
    PROVE  \E f : f = [i \in 0..n |-> IF i = 0 THEN << >> ELSE f[i - 1] \o g[i]]
<1>. DEFINE Built(f, k) == f = [i \in 0..k |-> IF i = 0 THEN << >> ELSE f[i - 1] \o g[i]]
            Missing == {k \in 0..n : \A f : ~Built(f, k)}
<1>0. /\ Missing \in SUBSET Nat
      /\ \A k \in 0..n : k \notin Missing => \E f : Built(f, k)
      /\ \A k \in Missing : k \in 0..n /\ \A f : ~Built(f, k)
  <2>. HIDE DEF Built
  <2>. QED OBVIOUS
<1>. HIDE DEF Missing
<1>1. CASE Missing = {}
  <2>1. n \in 0..n /\ n \notin Missing
    BY <1>1
  <2>2. \E f : Built(f, n)
    BY <1>0, <2>1, Zenon
  <2>. QED BY <2>2
<1>2. CASE Missing # {}
  <2>. DEFINE m == Scheduling!Min(Missing)
  <2>1. m \in Missing /\ \A k \in Missing : m <= k
    BY <1>0, <1>2, FirstCycle
  <2>. HIDE DEF m
  <2>2. m \in Nat /\ m \in 0..n /\ ~\E f : Built(f, m)
    <3>. HIDE DEF Built
    <3>. QED BY <1>0, <2>1
  <2>3. CASE m = 0
    <3>1. Built([i \in 0..0 |-> << >>], 0)
      OBVIOUS
    <3>. HIDE DEF Built
    <3>. QED BY <3>1, <2>2, <2>3
  <2>4. CASE m # 0
    <3>1. m - 1 \in 0..n /\ m - 1 \notin Missing
      <4>1. m - 1 \in 0..n /\ ~(m <= m - 1)
        BY <2>2, <2>4
      <4>. QED BY <2>1, <4>1
    <3>2. PICK f : Built(f, m - 1)
      <4>1. \E f : Built(f, m - 1)
        <5>. HIDE DEF Built
        <5>. QED BY <1>0, <3>1, Zenon
      <4>. QED BY <4>1
    <3>. DEFINE h == [i \in 0..m |-> IF i = m THEN f[m - 1] \o g[m] ELSE f[i]]
    <3>3. \A i \in 0..m : h[i] = IF i = 0 THEN << >> ELSE h[i - 1] \o g[i]
      <4>1. ASSUME NEW i \in 0..m, i = m
            PROVE  h[i] = IF i = 0 THEN << >> ELSE h[i - 1] \o g[i]
        BY <4>1, <2>2, <2>4
      <4>2. ASSUME NEW i \in 0..m, i # m
            PROVE  h[i] = IF i = 0 THEN << >> ELSE h[i - 1] \o g[i]
        <5>1. i \in 0..(m - 1)
          BY <4>2, <2>2
        <5>2. h[i] = f[i] /\ (i # 0 => h[i - 1] = f[i - 1])
          BY <4>2, <5>1, <2>2
        <5>3. f[i] = IF i = 0 THEN << >> ELSE f[i - 1] \o g[i]
          BY <3>2, <5>1
        <5>. QED BY <5>2, <5>3
      <4>. QED BY <4>1, <4>2
    <3>4. h = [i \in 0..m |-> h[i]]
      OBVIOUS
    <3>. HIDE DEF h
    <3>5. Built(h, m)
      BY <3>3, <3>4
    <3>. HIDE DEF Built
    <3>. QED BY <3>5, <2>2
  <2>. QED BY <2>3, <2>4
<1>. QED BY <1>1, <1>2

\* The jobs for many symbols are jobs.
LEMMA ManyAreJobs ==
    ASSUME NEW symbols \in Seq(Symbols), NEW types \in SUBSET Queueing!Types
    PROVE  Queueing!JobsOf(symbols, types) \in Seq(Queueing!Job)
<1>. DEFINE one(s) == (IF "prices" \in types THEN <<Queueing!Of("prices", s)>> ELSE << >>)
                      \o (IF "events" \in types THEN <<Queueing!Of("events", s)>> ELSE << >>)
            piece(i) == IF symbols[i] \in Securities THEN one(symbols[i]) ELSE << >>
            upTo == CHOOSE f : f = [i \in 0..Len(symbols) |->
                                      IF i = 0 THEN << >> ELSE f[i - 1] \o piece(i)]
<1>1. Queueing!JobsOf(symbols, types) = upTo[Len(symbols)]
  BY DEF Queueing!JobsOf
<1>2. Len(symbols) \in Nat
  OBVIOUS
<1>3. ASSUME NEW i \in 1..Len(symbols)
      PROVE  piece(i) \in Seq(Queueing!Job)
  <2>1. symbols[i] \in Symbols
    OBVIOUS
  <2>2. Queueing!Of("prices", symbols[i]) \in Queueing!Job
        /\ Queueing!Of("events", symbols[i]) \in Queueing!Job
    BY <2>1, JobsAre DEF Queueing!Types
  <2>. QED BY <2>2
<1>. HIDE DEF one, piece
<1>4. upTo = [i \in 0..Len(symbols) |-> IF i = 0 THEN << >> ELSE upTo[i - 1] \o piece(i)]
  <2>. DEFINE g == [i \in 1..Len(symbols) |-> piece(i)]
  <2>1. PICK f : f = [i \in 0..Len(symbols) |-> IF i = 0 THEN << >> ELSE f[i - 1] \o g[i]]
    <3>. HIDE DEF g
    <3>. QED BY <1>2, Pieces
  <2>2. f = [i \in 0..Len(symbols) |-> IF i = 0 THEN << >> ELSE f[i - 1] \o piece(i)]
    <3>1. \A i \in 0..Len(symbols) : i # 0 => g[i] = piece(i)
      BY <1>2
    <3>. HIDE DEF g
    <3>. QED BY <2>1, <3>1
  <2>. QED BY <2>2
<1>. HIDE DEF upTo
<1>. DEFINE Wrong == {i \in 0..Len(symbols) : upTo[i] \notin Seq(Queueing!Job)}
<1>5. Wrong = {}
  <2>. SUFFICES ASSUME Wrong # {}
                PROVE  FALSE
    OBVIOUS
  <2>. DEFINE m == Scheduling!Min(Wrong)
  <2>1. m \in Wrong /\ \A k \in Wrong : m <= k
    <3>1. Wrong \in SUBSET Nat
      BY <1>2
    <3>. HIDE DEF Wrong
    <3>. QED BY <3>1, FirstCycle
  <2>. HIDE DEF m
  <2>2. m \in 0..Len(symbols) /\ upTo[m] \notin Seq(Queueing!Job)
    BY <2>1
  <2>3. upTo[m] = IF m = 0 THEN << >> ELSE upTo[m - 1] \o piece(m)
    BY <1>4, <2>2
  <2>4. CASE m = 0
    BY <2>2, <2>3, <2>4
  <2>5. CASE m # 0
    <3>1. m - 1 \in 0..Len(symbols) /\ m \in 1..Len(symbols) /\ ~(m <= m - 1)
      BY <1>2, <2>2, <2>5
    <3>2. upTo[m - 1] \in Seq(Queueing!Job)
      BY <2>1, <3>1
    <3>. QED BY <1>3, <2>2, <2>3, <2>5, <3>1, <3>2
  <2>. QED BY <2>4, <2>5
<1>. QED BY <1>1, <1>2, <1>5

LEMMA MarketInit == Queueing!Init => MarketInv
  BY JobsAre DEF Queueing!Init, Queueing!Free, MarketInv, MarketTyped, OneQueued, AnswerRow

\* What is appended: the places there were stay, and the new ones hold the job.
LEMMA JobAdded ==
    ASSUME NEW s \in Seq(Queueing!Job), NEW job \in Queueing!Job, NEW n \in Nat
    PROVE  LET t == s \o [i \in 1..n |-> job]
           IN  /\ t \in Seq(Queueing!Job)
               /\ \A i \in DOMAIN s : i \in DOMAIN t /\ t[i] = s[i]
               /\ n > 0 => Len(s) + n \in DOMAIN t /\ t[Len(s) + n] = job
<1>. DEFINE added == [i \in 1..n |-> job]
            t == s \o added
<1>1. added \in Seq(Queueing!Job) /\ Len(added) = n
  OBVIOUS
<1>2. n > 0 => added[n] = job
  OBVIOUS
<1>. HIDE DEF added
<1>3. t \in Seq(Queueing!Job) /\ Len(t) = Len(s) + n
  BY <1>1
<1>4. ASSUME NEW i \in DOMAIN s
      PROVE  i \in DOMAIN t /\ t[i] = s[i]
  BY <1>1, <1>3, <1>4
<1>5. ASSUME n > 0
      PROVE  Len(s) + n \in DOMAIN t /\ t[Len(s) + n] = job
  BY <1>1, <1>2, <1>3, <1>5
<1>. HIDE DEF t
<1>6. /\ t \in Seq(Queueing!Job)
      /\ \A i \in DOMAIN s : i \in DOMAIN t /\ t[i] = s[i]
      /\ n > 0 => Len(s) + n \in DOMAIN t /\ t[Len(s) + n] = job
  BY <1>3, <1>4, <1>5
<1>. QED BY <1>6 DEF t, added

LEMMA MarketNext == MarketInv /\ [Queueing!Next]_Queueing!marketVars => MarketInv'
<1>. SUFFICES ASSUME MarketInv, [Queueing!Next]_Queueing!marketVars
              PROVE  MarketInv'
  OBVIOUS
<1>0. MarketTyped /\ OneQueued
  BY DEF MarketInv
<1>1. ASSUME NEW r \in Slots, NEW s \in Symbols,
             Queueing!EnqueuePrices(r, s) \/ Queueing!EnqueueEvents(r, s)
      PROVE  MarketInv'
  <2>1. PICK type \in Queueing!Types : Queueing!Accept(r, "one", <<Queueing!Of(type, s)>>)
    BY <1>1 DEF Queueing!EnqueuePrices, Queueing!EnqueueEvents, Queueing!Types
  <2>2. Queueing!Of(type, s) \in Queueing!Job
    BY JobsAre
  <2>. DEFINE jobs == <<Queueing!Of(type, s)>>
  <2>3. jobs \in Seq(Queueing!Job) /\ Len(jobs) = 1
    BY <2>2
  <2>. HIDE DEF jobs
  <2>4. Queueing!Accept(r, "one", jobs)
    BY <2>1 DEF jobs
  <2>. QED BY <2>3, <2>4, Accepted
<1>2. ASSUME NEW r \in Slots, Queueing!EnqueueMarketSync(r)
      PROVE  MarketInv'
  <2>. DEFINE jobs == <<Queueing!Of("sync", Market)>>
  <2>1. Queueing!Accept(r, "one", jobs)
    BY <1>2 DEF Queueing!EnqueueMarketSync
  <2>2. jobs \in Seq(Queueing!Job) /\ Len(jobs) = 1
    BY JobsAre
  <2>. HIDE DEF jobs
  <2>. QED BY <2>1, <2>2, Accepted
<1>3. ASSUME NEW r \in Slots, NEW ss \in Asked, NEW ts \in SUBSET Queueing!Types,
             Queueing!EnqueueBySymbols(r, ss, ts)
      PROVE  MarketInv'
  <2>. DEFINE jobs == Queueing!JobsOf(ss, ts)
  <2>1. Queueing!Accept(r, "many", jobs)
    BY <1>3 DEF Queueing!EnqueueBySymbols
  <2>2. jobs \in Seq(Queueing!Job)
    BY JobsAre, ManyAreJobs
  <2>. HIDE DEF jobs
  <2>. QED BY <2>1, <2>2, Accepted
<1>4. ASSUME NEW r \in Slots, NEW n \in 0..2, NEW id \in 0..MaxQueue, Queueing!Append1(r, n, id)
      PROVE  MarketInv'
  <2>. DEFINE job == Head(todo[r])
              rest == Tail(todo[r])
              was == answer[r]
              empty == rest = << >>
              new == [kind |-> was.kind, jobs |-> was.jobs, ids |-> Append(was.ids, id),
                      enqueued |-> was.enqueued + 1, done |-> empty]
  <2>1. todo[r] \in Seq(Queueing!Job) /\ todo[r] # << >> /\ was \in AnswerRow
    BY <1>4, <1>0 DEF Queueing!Append1, MarketTyped
  <2>2. job \in Queueing!Job /\ rest \in Seq(Queueing!Job) /\ Len(rest) = Len(todo[r]) - 1
    BY <2>1
  <2>3. /\ stream' = stream \o [i \in 1..n |-> job]
        /\ id # 0 => n > 0 /\ id = Len(stream) + n
    BY <1>4 DEF Queueing!Append1, Queueing!XAdd
  <2>4. \/ /\ was.kind = "one" /\ id = 0
           /\ todo' = [todo EXCEPT ![r] = << >>] /\ answer' = [answer EXCEPT ![r] = Queueing!Free]
        \/ /\ ~(was.kind = "one" /\ id = 0)
           /\ todo' = [todo EXCEPT ![r] = rest] /\ answer' = [answer EXCEPT ![r] = new]
    BY <1>4 DEF Queueing!Append1, Queueing!Reported
  <2>5. /\ stream' \in Seq(Queueing!Job)
        /\ \A i \in DOMAIN stream : i \in DOMAIN stream' /\ stream'[i] = stream[i]
        /\ id # 0 => id \in DOMAIN stream' /\ stream'[id] = job
    <3>1. stream \in Seq(Queueing!Job) /\ n \in Nat
      BY <1>0 DEF MarketTyped
    <3>. HIDE DEF job
    <3>. QED BY <3>1, <2>2, <2>3, JobAdded
  <2>6. /\ was.kind \in {"free", "one", "many"} /\ was.jobs \in Seq(Queueing!Job)
        /\ was.ids \in Seq(0..MaxQueue) /\ was.enqueued \in Nat
    BY <2>1 DEF AnswerRow
  <2>7. empty \in BOOLEAN
    OBVIOUS
  <2>8. Len(rest) = 0 => rest = << >> /\ empty = TRUE
    <3>. HIDE DEF rest
    <3>1. Len(rest) = 0 => rest = << >>
      BY <2>2
    <3>. QED BY <3>1
  <2>9. Append(was.ids, id) \in Seq(0..MaxQueue)
    BY <2>6
  <2>. HIDE DEF empty
  <2>10. new \in AnswerRow
    BY <2>6, <2>7, <2>9 DEF AnswerRow
  <2>11. new.kind = was.kind /\ new.jobs = was.jobs /\ new.ids = Append(was.ids, id)
         /\ new.done = empty
    OBVIOUS
  <2>12. Queueing!Free \in AnswerRow /\ Queueing!Free.kind = "free"
    BY JobsAre DEF Queueing!Free, AnswerRow
  <2>. HIDE DEF new
  <2>13. MarketTyped'
    <3>1. << >> \in Seq(Queueing!Job)
      OBVIOUS
    <3>. HIDE DEF rest, job, was
    <3>2. todo' \in [Slots -> Seq(Queueing!Job)]
      BY <1>0, <2>2, <2>4, <3>1 DEF MarketTyped
    <3>3. answer' \in [Slots -> AnswerRow]
      BY <1>0, <2>4, <2>10, <2>12 DEF MarketTyped
    <3>. QED BY <2>5, <3>2, <3>3 DEF MarketTyped
  <2>14. OneQueued'
    <3>. SUFFICES ASSUME NEW q \in Slots, answer'[q].kind = "one"
                  PROVE  Len(answer'[q].jobs) = 1 /\ (Waits(q)' \/ Answered(q)')
      BY DEF OneQueued
    <3>1. CASE q # r
      <4>1. answer'[q] = answer[q] /\ todo'[q] = todo[q]
        BY <1>0, <2>4, <3>1 DEF MarketTyped
      <4>. QED BY <1>0, <2>5, <4>1 DEF OneQueued, Waits, Answered
    <3>2. CASE q = r
      <4>1. answer'[r] = new /\ todo'[r] = rest /\ was.kind = "one" /\ id # 0
        BY <1>0, <2>4, <2>11, <2>12, <3>2 DEF MarketTyped
      <4>2. Waits(r) /\ Len(was.jobs) = 1
        BY <1>0, <2>1, <4>1 DEF OneQueued, Answered
      <4>3. was.ids = << >> /\ todo[r] = was.jobs
        BY <4>2 DEF Waits
      <4>4. Len(rest) = 0 /\ rest = << >> /\ job = was.jobs[1]
        BY <2>1, <2>2, <2>6, <2>8, <4>2, <4>3
      <4>5. new.ids = <<id>>
        BY <2>11, <4>3
      <4>6. Answered(r)'
        <5>1. Len(new.ids) = 1 /\ new.ids[1] = id
          BY <4>5
        <5>2. answer'[r].ids[1] = id /\ Len(answer'[r].ids) = 1 /\ answer'[r].jobs[1] = job
              /\ todo'[r] = << >>
          BY <2>11, <4>1, <4>4, <5>1
        <5>. QED BY <2>5, <4>1, <5>2 DEF Answered
      <4>. QED BY <2>11, <3>2, <4>1, <4>2, <4>6
    <3>. QED BY <3>1, <3>2
  <2>. QED BY <2>13, <2>14 DEF MarketInv
<1>5. ASSUME NEW r \in Slots, Queueing!End(r)
      PROVE  MarketInv'
  <2>1. todo' = [todo EXCEPT ![r] = << >>] /\ answer' = [answer EXCEPT ![r] = Queueing!Free]
        /\ stream' = stream
    BY <1>5 DEF Queueing!End
  <2>2. Queueing!Free \in AnswerRow /\ Queueing!Free.kind = "free"
    BY JobsAre DEF Queueing!Free, AnswerRow
  <2>3. MarketTyped'
    BY <1>0, <2>1, <2>2 DEF MarketTyped
  <2>4. OneQueued'
    BY <1>0, <2>1, <2>2 DEF MarketTyped, OneQueued, Waits, Answered
  <2>. QED BY <2>3, <2>4 DEF MarketInv
<1>6. CASE UNCHANGED Queueing!marketVars
  BY <1>0, <1>6 DEF Queueing!marketVars, MarketInv, MarketTyped, OneQueued, Waits, Answered
<1>. QED BY <1>1, <1>2, <1>3, <1>4, <1>5, <1>6 DEF Queueing!Next

LEMMA MarketKept == Queueing!Spec => []MarketInv
  BY MarketInit, MarketNext, PTL DEF Queueing!Spec

\* AnswersHold: a job that was acknowledged for one security is in the stream
\* under the id that was answered, whatever is appended twice or by others
\* (XADD in EnqueueSecurityPricesDaily and its like), and a tag that was answered
\* is stored, once (TagService.Create).
THEOREM AnswersKept == BackofficeSpec => []AnswersHold
<1>1. MarketInv => Queueing!AnsweredAreQueued
  <2>. SUFFICES ASSUME MarketInv, NEW r \in Slots, answer[r].kind = "one", answer[r].done
                PROVE  /\ answer[r].ids[1] \in DOMAIN stream
                       /\ stream[answer[r].ids[1]] = answer[r].jobs[1]
    BY DEF Queueing!AnsweredAreQueued
  <2>1. Answered(r)
    BY DEF MarketInv, OneQueued, Waits
  <2>. QED BY <2>1 DEF Answered
<1>2. TagsInv => Tagging!TagsAreTold
  BY DEF TagsInv
<1>3. Queueing!AnsweredAreQueued /\ Tagging!TagsAreTold => AnswersHold
  BY DEF AnswersHold
<1>. QED BY <1>1, <1>2, <1>3, MarketKept, TagsKept, PartsRun, PTL

-----------------------------------------------------------------------------
(* Pages: the entry at a place of the list, and what a page holds of it.    *)

LEMMA PagesAre ==
    /\ Latest \in Nat /\ Limits \subseteq Nat /\ Filters \subseteq SUBSET Paging!Entries
    /\ Paging!Entries \subseteq Nat /\ IsFiniteSet(Paging!Entries)
    /\ \A asked \in Nat : Paging!Limit(asked) \in Nat \ {0}
<1>1. /\ Latest \in Nat /\ Limits \subseteq Nat /\ Filters \subseteq SUBSET Paging!Entries
      /\ DefaultLimit \in Nat \ {0} /\ MaxLimit \in Nat /\ DefaultLimit <= MaxLimit
  BY BackofficeAssumption DEF BackofficeAssumption, Paging!PagesAssumption
<1>2. Paging!Entries = 1..Latest
  BY DEF Paging!Entries
<1>. QED BY <1>1, <1>2, FS_Interval DEF Paging!Limit

\* Every part counts alike.
LEMMA SameCount ==
    ASSUME NEW S
    PROVE  Paging!Cardinality(S) = Cardinality(S)
  BY DEF Paging!Cardinality, Cardinality

\* Later entries come first, each at a place of its own.
LEMMA Ranks ==
    ASSUME NEW S \in SUBSET Paging!Entries
    PROVE  /\ IsFiniteSet(S)
           /\ \A e : Paging!Rank(e, S) \in Nat
           /\ \A e, f \in S : f > e => Paging!Rank(f, S) < Paging!Rank(e, S)
<1>1. IsFiniteSet(S) /\ S \subseteq Nat
  BY PagesAre, FS_Subset
<1>2. ASSUME NEW e
      PROVE  /\ IsFiniteSet({g \in S : g > e}) /\ Cardinality({g \in S : g > e}) \in Nat
  <2>. DEFINE T == {g \in S : g > e}
  <2>1. T \in SUBSET S
    OBVIOUS
  <2>. HIDE DEF T
  <2>2. IsFiniteSet(T) /\ Cardinality(T) \in Nat
    BY <1>1, <2>1, FS_Subset, FS_CardinalityType
  <2>. QED BY <2>2 DEF T
<1>3. ASSUME NEW e \in S, NEW f \in S, f > e
      PROVE  Cardinality({g \in S : g > f}) < Cardinality({g \in S : g > e})
  <2>. DEFINE T == {g \in S : g > e}
              U == {g \in S : g > f}
  <2>1. U \in SUBSET T /\ f \in T /\ f \notin U
    <3>1. e \in Nat /\ f \in Nat /\ f > e
      BY <1>1, <1>3
    <3>2. ASSUME NEW g \in S, g > f
          PROVE  g > e
      <4>1. g \in Nat
        BY <1>1
      <4>. QED BY <3>1, <3>2, <4>1
    <3>3. U \in SUBSET T
      BY <3>2
    <3>4. f \in T /\ ~(f > f)
      BY <3>1
    <3>. QED BY <3>3, <3>4
  <2>2. IsFiniteSet(T) /\ Cardinality(T) \in Nat /\ Cardinality(U) \in Nat
    BY <1>2
  <2>. HIDE DEF T, U
  <2>3. Cardinality(U) <= Cardinality(T) /\ (Cardinality(T) = Cardinality(U) => T = U)
    BY <2>1, <2>2, FS_Subset
  <2>4. Cardinality(U) < Cardinality(T)
    BY <2>1, <2>2, <2>3
  <2>. QED BY <2>4 DEF T, U
<1>4. \A e : Paging!Rank(e, S) = Cardinality({g \in S : g > e})
  BY SameCount DEF Paging!Rank
<1>. QED BY <1>1, <1>2, <1>3, <1>4

\* There is an entry at every place before another.
LEMMA PlaceTaken ==
    ASSUME NEW S \in SUBSET Paging!Entries, NEW e \in S, NEW m \in Nat, m < Paging!Rank(e, S)
    PROVE  \E f \in S : f > e /\ Paging!Rank(f, S) = m
<1>. DEFINE T == {f \in S : f > e}
            k == Paging!Rank(e, S)
            h == [f \in T |-> Paging!Rank(f, S)]
<1>1. k \in Nat /\ IsFiniteSet(S) /\ k = Cardinality(T)
  BY Ranks, SameCount DEF Paging!Rank
<1>2. IsFiniteSet(T) /\ S \subseteq Nat
  <2>1. T \in SUBSET S
    OBVIOUS
  <2>. HIDE DEF T
  <2>. QED BY <1>1, <2>1, FS_Subset, PagesAre
<1>3. IsFiniteSet(0..(k - 1)) /\ Cardinality(0..(k - 1)) = k
  <2>1. 0 \in Int /\ k - 1 \in Int /\ (IF 0 > k - 1 THEN 0 ELSE (k - 1) - 0 + 1) = k
    BY <1>1
  <2>. HIDE DEF k
  <2>. QED BY <2>1, FS_Interval
<1>4. h \in Injection(T, 0..(k - 1))
  <2>1. \A f \in T : Paging!Rank(f, S) \in 0..(k - 1)
    BY <1>1, Ranks
  <2>2. \A f, g \in T : Paging!Rank(f, S) = Paging!Rank(g, S) => f = g
    <3>. SUFFICES ASSUME NEW f \in T, NEW g \in T, f # g
                  PROVE  Paging!Rank(f, S) # Paging!Rank(g, S)
      OBVIOUS
    <3>1. f \in S /\ g \in S /\ (f > g \/ g > f)
      BY <1>2
    <3>2. Paging!Rank(f, S) \in Nat /\ Paging!Rank(g, S) \in Nat
          /\ (Paging!Rank(f, S) < Paging!Rank(g, S) \/ Paging!Rank(g, S) < Paging!Rank(f, S))
      BY <3>1, Ranks
    <3>. QED BY <3>2
  <2>. HIDE DEF T, k
  <2>. QED BY <2>1, <2>2 DEF Injection, IsInjective
<1>. HIDE DEF T, k
<1>5. h \in Surjection(T, 0..(k - 1))
  <2>. HIDE DEF h
  <2>. QED BY <1>1, <1>3, <1>4, FS_Injection
<1>6. m \in 0..(k - 1)
  BY <1>1 DEF k
<1>7. PICK f \in T : h[f] = m
  BY <1>5, <1>6 DEF Surjection
<1>. QED BY <1>7 DEF T

\* As many entries as its number are before a place.
LEMMA PlacesBefore ==
    ASSUME NEW S \in SUBSET Paging!Entries, NEW e \in S, NEW m \in Nat, m <= Paging!Rank(e, S)
    PROVE  /\ IsFiniteSet({f \in S : Paging!Rank(f, S) < m})
           /\ Cardinality({f \in S : Paging!Rank(f, S) < m}) = m
<1>1. PICK g \in S : Paging!Rank(g, S) = m
  <2>1. CASE m = Paging!Rank(e, S)
    BY <2>1
  <2>2. CASE m # Paging!Rank(e, S)
    <3>1. m < Paging!Rank(e, S)
      BY <2>2, Ranks
    <3>. QED BY <3>1, PlaceTaken
  <2>. QED BY <2>1, <2>2
<1>2. {f \in S : Paging!Rank(f, S) < m} = {f \in S : f > g}
  <2>1. ASSUME NEW f \in S
        PROVE  Paging!Rank(f, S) < m <=> f > g
    <3>1. f \in Nat /\ g \in Nat /\ Paging!Rank(f, S) \in Nat
      BY PagesAre, Ranks
    <3>2. CASE f > g
      BY <1>1, <3>1, <3>2, Ranks
    <3>3. CASE f = g
      BY <1>1, <3>1, <3>3
    <3>4. CASE g > f
      BY <1>1, <3>1, <3>4, Ranks
    <3>. QED BY <3>1, <3>2, <3>3, <3>4
  <2>. QED BY <2>1
<1>3. IsFiniteSet({f \in S : f > g})
  <2>. DEFINE T == {f \in S : f > g}
  <2>1. T \in SUBSET S
    OBVIOUS
  <2>. HIDE DEF T
  <2>2. IsFiniteSet(T)
    BY <2>1, Ranks, FS_Subset
  <2>. QED BY <2>2 DEF T
<1>4. Paging!Rank(g, S) = Cardinality({f \in S : f > g})
  BY SameCount DEF Paging!Rank
<1>. QED BY <1>1, <1>2, <1>3, <1>4

\* A page holds the entries of its places, and when no more follow, no entry has
\* a later place.
LEMMA PageHolds ==
    ASSUME NEW S \in SUBSET Paging!Entries, NEW page \in Nat, NEW lim \in Nat \ {0}
    PROVE  LET off == Paging!Offset(page, lim)
           IN  /\ off \in Nat
               /\ \A e \in S : e \in Paging!Page(S, page, lim) <=>
                    off <= Paging!Rank(e, S) /\ Paging!Rank(e, S) < off + lim
               /\ Paging!Page(S, page, lim) \subseteq S
               /\ ~Paging!More(S, page, lim, 0) => \A e \in S : Paging!Rank(e, S) < off + lim
<1>. DEFINE off == Paging!Offset(page, lim)
            rank(e) == Paging!Rank(e, S)
            before(m) == {f \in S : rank(f) < m}
            Sel == Paging!Selected(S, page, lim)
<1>1. off \in Nat
  BY DEF Paging!Offset
<1>2. Sel = {e \in S : rank(e) >= off /\ rank(e) < off + lim + 1}
  BY DEF Paging!Selected
<1>3. IsFiniteSet(S) /\ \A e \in S : rank(e) \in Nat
  BY Ranks
<1>4. ASSUME NEW e \in S, NEW m \in Nat, m <= rank(e)
      PROVE  IsFiniteSet(before(m)) /\ Cardinality(before(m)) = m
  BY <1>4, PlacesBefore
<1>5. ASSUME NEW e \in Sel
      PROVE  Paging!Rank(e, Sel) = rank(e) - off
  <2>. DEFINE T == {f \in S : f > e}
              U == {f \in Sel : f > e}
  <2>1. e \in S /\ off <= rank(e) /\ rank(e) < off + lim + 1 /\ rank(e) \in Nat
    BY <1>1, <1>2, <1>3
  <2>2. U = T \ before(off)
    <3>1. ASSUME NEW f \in S, f > e
          PROVE  f \in Sel <=> ~(rank(f) < off)
      <4>1. rank(f) < rank(e) /\ rank(f) \in Nat
        BY <2>1, <3>1, Ranks
      <4>. HIDE DEF rank, off, Sel
      <4>. QED BY <1>1, <1>2, <2>1, <4>1
    <3>2. Sel \subseteq S
      BY <1>2
    <3>. HIDE DEF rank, off, Sel
    <3>. QED BY <3>1, <3>2
  <2>3. before(off) \subseteq T
    <3>1. ASSUME NEW f \in S, rank(f) < off
          PROVE  f > e
      <4>1. e \in Nat /\ f \in Nat
        BY <2>1, PagesAre
      <4>2. f = e \/ f > e \/ e > f
        BY <4>1
      <4>3. e > f => rank(e) < rank(f)
        BY <2>1, Ranks
      <4>4. rank(f) \in Nat /\ rank(f) < rank(e)
        BY <1>1, <1>3, <2>1, <3>1
      <4>. HIDE DEF rank
      <4>. QED BY <2>1, <4>2, <4>3, <4>4
    <3>. HIDE DEF rank, off
    <3>. QED BY <3>1
  <2>4. IsFiniteSet(T) /\ Cardinality(T) = rank(e)
    <3>1. T \in SUBSET S
      OBVIOUS
    <3>2. rank(e) = Cardinality(T)
      BY SameCount DEF Paging!Rank
    <3>. HIDE DEF T, rank
    <3>. QED BY <1>3, <3>1, <3>2, FS_Subset
  <2>5. IsFiniteSet(before(off)) /\ Cardinality(before(off)) = off
    BY <1>1, <1>4, <2>1
  <2>6. Paging!Rank(e, Sel) = Cardinality(U)
    BY SameCount DEF Paging!Rank
  <2>. DEFINE B == before(off)
  <2>. HIDE DEF T, U, B
  <2>7. Cardinality(T \ B) = Cardinality(T) - Cardinality(T \cap B)
    BY <2>4, FS_Difference
  <2>8. T \cap B = B
    BY <2>3 DEF B
  <2>. QED BY <2>2, <2>4, <2>5, <2>6, <2>7, <2>8 DEF B
<1>6. ASSUME NEW e \in S
      PROVE  e \in Paging!Page(S, page, lim) <=> off <= rank(e) /\ rank(e) < off + lim
  <2>1. e \in Paging!Page(S, page, lim) <=> e \in Sel /\ Paging!Rank(e, Sel) < lim
    BY DEF Paging!Page
  <2>2. e \in Sel => Paging!Rank(e, Sel) = rank(e) - off
    BY <1>5
  <2>3. e \in Sel <=> off <= rank(e) /\ rank(e) < off + lim + 1
    BY <1>1, <1>2, <1>3
  <2>4. rank(e) \in Nat
    BY <1>3
  <2>. HIDE DEF rank, off, Sel
  <2>. QED BY <1>1, <2>1, <2>2, <2>3, <2>4
<1>7. Paging!Page(S, page, lim) \subseteq S
  BY DEF Paging!Page, Paging!Selected
<1>8. ASSUME NEW e \in S, off + lim <= rank(e)
      PROVE  Paging!More(S, page, lim, 0)
  <2>. DEFINE last == off + lim
  <2>1. PICK g \in S : rank(g) = last
    <3>1. CASE last = rank(e)
      BY <3>1
    <3>2. CASE last # rank(e)
      <4>1. last \in Nat /\ last < rank(e)
        BY <1>1, <1>3, <1>8, <3>2
      <4>. HIDE DEF last
      <4>. QED BY <4>1, PlaceTaken
    <3>. QED BY <3>1, <3>2
  <2>. DEFINE A == before(last)
              B == before(off)
  <2>2. IsFiniteSet(A) /\ Cardinality(A) = last /\ IsFiniteSet(B) /\ Cardinality(B) = off
    <3>1. last \in Nat /\ last <= rank(e) /\ off <= rank(e)
      BY <1>1, <1>3, <1>8
    <3>. HIDE DEF last, off, rank
    <3>. QED BY <1>1, <1>4, <3>1
  <2>3. Sel = (A \ B) \cup {g}
    <3>1. ASSUME NEW f \in S
          PROVE  rank(f) = last <=> f = g
      <4>1. f \in Nat /\ g \in Nat /\ rank(f) \in Nat /\ rank(g) \in Nat
        BY PagesAre, <1>3
      <4>2. f # g => rank(f) < rank(g) \/ rank(g) < rank(f)
        <5>1. (f > g => rank(f) < rank(g)) /\ (g > f => rank(g) < rank(f))
          BY Ranks
        <5>. HIDE DEF rank
        <5>. QED BY <4>1, <5>1
      <4>. HIDE DEF rank, last
      <4>. QED BY <2>1, <4>1, <4>2
    <3>2. ASSUME NEW f \in S
          PROVE  f \in Sel <=> (rank(f) < last /\ ~(rank(f) < off)) \/ f = g
      <4>1. rank(f) \in Nat
        BY <1>3
      <4>2. f \in Sel <=> rank(f) >= off /\ rank(f) < off + lim + 1
        BY <1>2
      <4>. HIDE DEF rank, off, Sel
      <4>. QED BY <1>1, <3>1, <4>1, <4>2
    <3>3. Sel \subseteq S
      BY <1>2
    <3>. HIDE DEF rank, off, Sel, last
    <3>. QED BY <3>2, <3>3
  <2>4. g \notin A \ B /\ B \subseteq A
    <3>1. \A f \in S : rank(f) \in Nat /\ (rank(f) < off => rank(f) < last)
      BY <1>1, <1>3
    <3>. HIDE DEF rank, off
    <3>. QED BY <1>1, <2>1, <3>1
  <2>. HIDE DEF A, B
  <2>5. IsFiniteSet(A \ B) /\ Cardinality(A \ B) = last - off
    <3>1. A \cap B = B
      BY <2>4
    <3>2. IsFiniteSet(A \ B) /\ Cardinality(A \ B) = Cardinality(A) - Cardinality(A \cap B)
      BY <2>2, FS_Difference
    <3>. QED BY <2>2, <3>1, <3>2
  <2>6. Cardinality((A \ B) \cup {g}) = Cardinality(A \ B) + 1
    BY <2>4, <2>5, FS_AddElement
  <2>7. Cardinality(Sel) = lim + 1
    <3>. HIDE DEF Sel
    <3>. QED BY <1>1, <2>3, <2>5, <2>6
  <2>8. Paging!Cardinality(Sel) > lim
    BY <2>7, SameCount
  <2>. QED BY <2>8 DEF Paging!More
<1>9. ~Paging!More(S, page, lim, 0) => \A e \in S : rank(e) < off + lim
  <2>1. \A e \in S : ~(off + lim <= rank(e)) => rank(e) < off + lim
    <3>. HIDE DEF off, rank
    <3>. QED BY <1>1, <1>3
  <2>. QED BY <1>8, <2>1
<1>. QED BY <1>1, <1>6, <1>7, <1>9

WalkRow == [step : {"idle", "count", "query", "done"}, filter : SUBSET Paging!Entries,
            limit : Nat, page : Nat, total : Nat, since : SUBSET Paging!Entries,
            seen : SUBSET Paging!Entries, twice : BOOLEAN, added : BOOLEAN, removed : BOOLEAN]

PageTyped ==
    /\ live \in SUBSET Paging!Entries /\ walk \in WalkRow
    /\ export \in [rows : 0..Latest, of : 0..Latest]

Wanted == live \cap walk.filter
Passed == Paging!Offset(walk.page, Paging!Limit(walk.limit))

\* What was there since the walk began is still there or was deleted; what the
\* walk has not seen of it is not before the next page, and the places it has
\* seen are before it.
WalkOrdered ==
    /\ walk.step = "idle" => walk.seen = {} /\ walk.since = {} /\ ~walk.twice
    /\ walk.step # "idle" => walk.since \subseteq Wanted /\ walk.page > 0
    /\ walk.step \in {"count", "query"} /\ ~walk.removed =>
         \A e \in walk.since \ walk.seen : Passed <= Paging!Rank(e, Wanted)
    /\ walk.step \in {"count", "query"} /\ ~walk.added =>
         \A e \in walk.seen : Paging!Rank(e, Wanted) < Passed
    /\ Paging!NothingMissed /\ Paging!NothingTwice

PagesInv == PageTyped /\ WalkOrdered

\* Entries that come put others further back, and those that go bring them
\* forward.
LEMMA RanksMove ==
    ASSUME NEW S \in SUBSET Paging!Entries, NEW T \in SUBSET Paging!Entries, S \subseteq T,
           NEW e
    PROVE  /\ Paging!Rank(e, S) \in Nat /\ Paging!Rank(e, T) \in Nat
           /\ Paging!Rank(e, S) <= Paging!Rank(e, T)
<1>. DEFINE A == {f \in S : f > e}
            B == {f \in T : f > e}
<1>1. A \in SUBSET B /\ B \in SUBSET T
  OBVIOUS
<1>2. Paging!Rank(e, S) = Cardinality(A) /\ Paging!Rank(e, T) = Cardinality(B)
  BY SameCount DEF Paging!Rank
<1>. HIDE DEF A, B
<1>3. IsFiniteSet(B)
  BY <1>1, Ranks, FS_Subset
<1>4. Cardinality(A) <= Cardinality(B)
  BY <1>1, <1>3, FS_Subset
<1>5. Paging!Rank(e, S) \in Nat /\ Paging!Rank(e, T) \in Nat
  BY Ranks
<1>. QED BY <1>2, <1>4, <1>5

\* So does one that moves forward.
LEMMA MovesForward ==
    ASSUME NEW S \in SUBSET Paging!Entries, NEW e \in S, NEW f \in Paging!Entries \ S, f > e,
           NEW p \in Paging!Entries
    PROVE  Paging!Rank(p, S) <= Paging!Rank(p, (S \ {e}) \cup {f})
<1>. DEFINE T == (S \ {e}) \cup {f}
            A == {g \in S : g > p}
            B == {g \in T : g > p}
<1>1. A \in SUBSET S /\ T \in SUBSET Paging!Entries /\ B \in SUBSET T
      /\ e \in Nat /\ f \in Nat /\ p \in Nat
  BY PagesAre
<1>2. Paging!Rank(p, S) = Cardinality(A) /\ Paging!Rank(p, T) = Cardinality(B)
  BY SameCount DEF Paging!Rank
<1>3. CASE e > p
  <2>1. e \in A /\ f \notin A /\ B = (A \ {e}) \cup {f}
    BY <1>1, <1>3
  <2>. HIDE DEF A, B, T
  <2>2. IsFiniteSet(A) /\ Cardinality(A) \in Nat
    BY <1>1, Ranks, FS_Subset, FS_CardinalityType
  <2>3. Cardinality(A \ {e}) = Cardinality(A) - 1 /\ IsFiniteSet(A \ {e})
    BY <2>1, <2>2, FS_RemoveElement
  <2>4. Cardinality((A \ {e}) \cup {f}) = Cardinality(A \ {e}) + 1
    BY <2>1, <2>3, FS_AddElement
  <2>5. Paging!Rank(p, S) <= Paging!Rank(p, T)
    BY <1>2, <2>1, <2>2, <2>3, <2>4
  <2>. QED BY <2>5 DEF T
<1>4. CASE ~(e > p)
  <2>1. A \in SUBSET B
    BY <1>4
  <2>. HIDE DEF A, B, T
  <2>2. IsFiniteSet(B) /\ Cardinality(A) <= Cardinality(B)
    BY <1>1, <2>1, Ranks, FS_Subset
  <2>3. Paging!Rank(p, S) <= Paging!Rank(p, T)
    BY <1>2, <2>2
  <2>. QED BY <2>3 DEF T
<1>. QED BY <1>3, <1>4

\* An edit that takes nothing from a list or back in it brings no place of it
\* forward; one that brings nothing to it or forward puts none further back.
LEMMA EditMoves ==
    ASSUME NEW S \in SUBSET Paging!Entries, NEW F \in SUBSET Paging!Entries,
           NEW e \in S, NEW f \in Paging!Entries \ S, NEW p \in Paging!Entries
    PROVE  LET W == S \cap F
               V == ((S \ {e}) \cup {f}) \cap F
           IN  /\ Paging!Rank(p, W) \in Nat /\ Paging!Rank(p, V) \in Nat
               /\ ~(e \in F /\ (f \in F => f < e)) => Paging!Rank(p, W) <= Paging!Rank(p, V)
               /\ ~(f \in F /\ (e \in F => f > e)) => Paging!Rank(p, V) <= Paging!Rank(p, W)
<1>. DEFINE W == S \cap F
            V == ((S \ {e}) \cup {f}) \cap F
<1>1. W \in SUBSET Paging!Entries /\ V \in SUBSET Paging!Entries
  OBVIOUS
<1>2. /\ e \in Nat /\ f \in Nat /\ e # f
      /\ e \in F => e \in W /\ e \notin V
      /\ f \in F => f \in V /\ f \notin W
      /\ e \notin F => W \subseteq V
      /\ f \notin F => V \subseteq W
      /\ e \in F /\ f \in F => V = (W \ {e}) \cup {f} /\ W = (V \ {f}) \cup {e}
  BY PagesAre
<1>. HIDE DEF W, V
<1>3. Paging!Rank(p, W) \in Nat /\ Paging!Rank(p, V) \in Nat
  BY <1>1, Ranks
<1>4. e \notin F => Paging!Rank(p, W) <= Paging!Rank(p, V)
  BY <1>1, <1>2, RanksMove
<1>5. f \notin F => Paging!Rank(p, V) <= Paging!Rank(p, W)
  BY <1>1, <1>2, RanksMove
<1>6. e \in F /\ f \in F /\ f > e => Paging!Rank(p, W) <= Paging!Rank(p, V)
  <2>. SUFFICES ASSUME e \in F, f \in F, f > e
                PROVE  Paging!Rank(p, W) <= Paging!Rank(p, V)
    OBVIOUS
  <2>1. e \in W /\ f \in Paging!Entries \ W
    BY <1>2
  <2>2. Paging!Rank(p, W) <= Paging!Rank(p, (W \ {e}) \cup {f})
    BY <1>1, <2>1, MovesForward
  <2>. QED BY <1>2, <2>2
<1>7. e \in F /\ f \in F /\ f < e => Paging!Rank(p, V) <= Paging!Rank(p, W)
  <2>. SUFFICES ASSUME e \in F, f \in F, f < e
                PROVE  Paging!Rank(p, V) <= Paging!Rank(p, W)
    OBVIOUS
  <2>1. f \in V /\ e \in Paging!Entries \ V /\ e > f
    BY <1>2
  <2>2. Paging!Rank(p, V) <= Paging!Rank(p, (V \ {f}) \cup {e})
    BY <1>1, <2>1, MovesForward
  <2>. QED BY <1>2, <2>2
<1>8. f < e \/ f > e
  BY <1>2
<1>. QED BY <1>3, <1>4, <1>5, <1>6, <1>7, <1>8 DEF W, V

LEMMA PagesInit == Paging!Init => PagesInv
<1>. SUFFICES ASSUME Paging!Init
              PROVE  PagesInv
  OBVIOUS
<1>1. live = {} /\ walk = Paging!NoWalk /\ export = [rows |-> 0, of |-> 0]
  BY DEF Paging!Init
<1>2. Paging!NoWalk \in WalkRow
  BY DEF Paging!NoWalk, WalkRow
<1>3. PageTyped
  BY <1>1, <1>2, PagesAre DEF PageTyped
<1>4. WalkOrdered
  BY <1>1 DEF WalkOrdered, Paging!NoWalk, Paging!NothingMissed, Paging!NothingTwice
<1>. QED BY <1>3, <1>4 DEF PagesInv

\* A count of entries is one that there may be.
LEMMA CountsAre ==
    ASSUME NEW S \in SUBSET Paging!Entries
    PROVE  Paging!Cardinality(S) \in 0..Latest /\ Paging!Cardinality(S) \in Nat
<1>1. Paging!Entries = 1..Latest /\ Latest \in Nat
  BY PagesAre DEF Paging!Entries
<1>2. Cardinality(Paging!Entries) = Latest
  BY <1>1, FS_Interval
<1>3. Cardinality(S) <= Cardinality(Paging!Entries) /\ Cardinality(S) \in Nat
  BY PagesAre, FS_Subset, FS_CardinalityType
<1>. QED BY <1>1, <1>2, <1>3, SameCount

LEMMA PagesNext == PagesInv /\ [Paging!Next]_Paging!pageVars => PagesInv'
<1>. SUFFICES ASSUME PagesInv, [Paging!Next]_Paging!pageVars
              PROVE  PagesInv'
  OBVIOUS
<1>0. PageTyped /\ WalkOrdered
  BY DEF PagesInv
<1>a. /\ live \in SUBSET Paging!Entries /\ walk \in WalkRow
      /\ walk.step \in {"idle", "count", "query", "done"} /\ walk.filter \in SUBSET Paging!Entries
      /\ walk.limit \in Nat /\ walk.page \in Nat /\ walk.since \in SUBSET Paging!Entries
      /\ walk.seen \in SUBSET Paging!Entries /\ Wanted \in SUBSET Paging!Entries
  BY <1>0 DEF PageTyped, WalkRow, Wanted
<1>b. Passed \in Nat
  BY <1>a, PagesAre DEF Passed, Paging!Offset
<1>1. ASSUME NEW e \in Paging!Entries, Paging!Create(e)
      PROVE  PagesInv'
  <2>1. live' = live \cup {e} /\ export' = export
        /\ walk' = [walk EXCEPT !.added = (walk.step # "idle")]
    BY <1>1 DEF Paging!Create
  <2>2. /\ walk' \in WalkRow /\ walk'.step = walk.step /\ walk'.filter = walk.filter
        /\ walk'.limit = walk.limit /\ walk'.page = walk.page /\ walk'.since = walk.since
        /\ walk'.seen = walk.seen
    BY <1>a, <2>1 DEF WalkRow
  <2>3. walk'.twice = walk.twice /\ walk'.removed = walk.removed
        /\ (walk.step # "idle" => walk'.added)
    BY <1>a, <2>1 DEF WalkRow
  <2>4. PageTyped'
    BY <1>0, <2>1, <2>2 DEF PageTyped
  <2>5. Wanted \subseteq Wanted' /\ Wanted' \in SUBSET Paging!Entries /\ Passed' = Passed
    BY <1>a, <2>1, <2>2 DEF Wanted, Passed
  <2>6. ASSUME walk.step \in {"count", "query"}, ~walk.removed,
               NEW f \in walk.since \ walk.seen
        PROVE  Passed <= Paging!Rank(f, Wanted')
    <3>1. f \in Wanted /\ Passed <= Paging!Rank(f, Wanted)
      BY <1>0, <2>6 DEF WalkOrdered
    <3>2. Paging!Rank(f, Wanted) \in Nat /\ Paging!Rank(f, Wanted') \in Nat
          /\ Paging!Rank(f, Wanted) <= Paging!Rank(f, Wanted')
      BY <1>a, <2>5, <3>1, RanksMove
    <3>. QED BY <1>b, <3>1, <3>2
  <2>7. WalkOrdered'
    <3>1. walk'.step = "idle" => walk'.seen = {} /\ walk'.since = {} /\ ~walk'.twice
      BY <1>0, <2>2, <2>3 DEF WalkOrdered
    <3>2. walk'.step # "idle" => walk'.since \subseteq Wanted' /\ walk'.page > 0
      BY <1>0, <2>2, <2>5 DEF WalkOrdered
    <3>3. walk'.step \in {"count", "query"} /\ ~walk'.removed =>
            \A f \in walk'.since \ walk'.seen : Passed' <= Paging!Rank(f, Wanted')
      BY <2>2, <2>3, <2>5, <2>6
    <3>4. walk'.step \in {"count", "query"} => walk'.added
      BY <2>2, <2>3
    <3>5. Paging!NothingMissed'
      BY <1>0, <2>2, <2>3 DEF WalkOrdered, Paging!NothingMissed
    <3>6. Paging!NothingTwice'
      BY <1>0, <2>2, <2>3 DEF WalkOrdered, Paging!NothingTwice
    <3>. QED BY <3>1, <3>2, <3>3, <3>4, <3>5, <3>6 DEF WalkOrdered
  <2>. QED BY <2>4, <2>7 DEF PagesInv
<1>2. ASSUME NEW e \in Paging!Entries, Paging!Delete(e)
      PROVE  PagesInv'
  <2>1. live' = live \ {e} /\ export' = export
    BY <1>2 DEF Paging!Delete
  <2>2. CASE walk.step = "idle"
    <3>1. walk' = walk
      BY <1>2, <2>2 DEF Paging!Delete
    <3>2. PageTyped'
      BY <1>0, <2>1, <3>1 DEF PageTyped
    <3>3. WalkOrdered'
      BY <1>0, <2>2, <3>1 DEF WalkOrdered, Paging!NothingMissed, Paging!NothingTwice
    <3>. QED BY <3>2, <3>3 DEF PagesInv
  <2>3. CASE walk.step # "idle"
    <3>. DEFINE rest == walk.since \ {e}
    <3>1. walk' = [walk EXCEPT !.removed = TRUE, !.since = rest]
      BY <1>2, <2>3, <1>a DEF Paging!Delete, WalkRow
    <3>2. rest \in SUBSET Paging!Entries
      BY <1>a
    <3>. HIDE DEF rest
    <3>3. /\ walk' \in WalkRow /\ walk'.step = walk.step /\ walk'.filter = walk.filter
          /\ walk'.limit = walk.limit /\ walk'.page = walk.page /\ walk'.since = rest
          /\ walk'.seen = walk.seen
      BY <1>a, <3>1, <3>2 DEF WalkRow
    <3>4. walk'.twice = walk.twice /\ walk'.added = walk.added /\ walk'.removed
      BY <1>a, <3>1 DEF WalkRow
    <3>5. PageTyped'
      BY <1>0, <2>1, <3>3 DEF PageTyped
    <3>6. Wanted' \subseteq Wanted /\ Wanted' \in SUBSET Paging!Entries /\ Passed' = Passed
          /\ Wanted' = Wanted \ {e}
      BY <1>a, <2>1, <3>3 DEF Wanted, Passed
    <3>7. ASSUME walk.step \in {"count", "query"}, ~walk.added, NEW f \in walk.seen
          PROVE  Paging!Rank(f, Wanted') < Passed
      <4>1. Paging!Rank(f, Wanted) < Passed
        BY <1>0, <3>7 DEF WalkOrdered
      <4>2. Paging!Rank(f, Wanted) \in Nat /\ Paging!Rank(f, Wanted') \in Nat
            /\ Paging!Rank(f, Wanted') <= Paging!Rank(f, Wanted)
        BY <1>a, <3>6, <3>7, RanksMove
      <4>. QED BY <1>b, <4>1, <4>2
    <3>8. WalkOrdered'
      <4>1. walk'.step # "idle"
        BY <2>3, <3>3
      <4>2. walk'.since \subseteq Wanted' /\ walk'.page > 0
        BY <1>0, <2>3, <3>3, <3>6 DEF WalkOrdered, rest
      <4>3. walk'.step \in {"count", "query"} /\ ~walk'.added =>
              \A f \in walk'.seen : Paging!Rank(f, Wanted') < Passed'
        BY <3>3, <3>4, <3>6, <3>7
      <4>4. Paging!NothingMissed'
        BY <3>4 DEF Paging!NothingMissed
      <4>5. Paging!NothingTwice'
        BY <1>0, <3>4 DEF WalkOrdered, Paging!NothingTwice
      <4>. QED BY <3>4, <4>1, <4>2, <4>3, <4>4, <4>5 DEF WalkOrdered
    <3>. QED BY <3>5, <3>8 DEF PagesInv
  <2>. QED BY <2>2, <2>3
<1>3. ASSUME NEW filter \in Filters, NEW limit \in Limits, Paging!Start(filter, limit)
      PROVE  PagesInv'
  <2>. DEFINE all == live \cap filter
  <2>1. walk' = [Paging!NoWalk EXCEPT !.step = "count", !.filter = filter, !.limit = limit,
                                     !.page = 1, !.since = all]
        /\ UNCHANGED <<live, export>>
    BY <1>3 DEF Paging!Start
  <2>2. filter \in SUBSET Paging!Entries /\ limit \in Nat /\ all \in SUBSET Paging!Entries
    BY <1>a, PagesAre
  <2>. HIDE DEF all
  <2>3. Paging!NoWalk \in WalkRow /\ Paging!NoWalk.seen = {} /\ Paging!NoWalk.twice = FALSE
    BY DEF Paging!NoWalk, WalkRow
  <2>4. /\ walk' \in WalkRow /\ walk'.step = "count" /\ walk'.filter = filter
        /\ walk'.limit = limit /\ walk'.page = 1 /\ walk'.since = all /\ walk'.seen = {}
    BY <2>1, <2>2, <2>3 DEF WalkRow
  <2>5. walk'.twice = FALSE
    BY <2>1, <2>3 DEF WalkRow
  <2>6. PageTyped'
    BY <1>0, <2>1, <2>4 DEF PageTyped
  <2>7. Wanted' = all /\ Passed' = 0 /\ Wanted' \in SUBSET Paging!Entries
    <3>1. Paging!Limit(limit) \in Nat
      BY <2>2, PagesAre
    <3>. QED BY <2>1, <2>2, <2>4, <3>1 DEF Wanted, Passed, Paging!Offset, all
  <2>8. \A f \in all : 0 <= Paging!Rank(f, all)
    BY <2>2, Ranks
  <2>9. WalkOrdered'
    BY <2>4, <2>5, <2>7, <2>8 DEF WalkOrdered, Paging!NothingMissed, Paging!NothingTwice
  <2>. QED BY <2>6, <2>9 DEF PagesInv
<1>4. CASE Paging!Count
  <2>. DEFINE n == Paging!Cardinality(Wanted)
  <2>1. walk.step = "count" /\ walk' = [walk EXCEPT !.step = "query", !.total = n]
        /\ UNCHANGED <<live, export>>
    BY <1>4 DEF Paging!Count, Wanted
  <2>2. n \in Nat
    BY <1>a, CountsAre
  <2>. HIDE DEF n
  <2>3. /\ walk' \in WalkRow /\ walk'.step = "query" /\ walk'.filter = walk.filter
        /\ walk'.limit = walk.limit /\ walk'.page = walk.page /\ walk'.since = walk.since
        /\ walk'.seen = walk.seen
    BY <1>a, <2>1, <2>2 DEF WalkRow
  <2>4. walk'.twice = walk.twice /\ walk'.added = walk.added /\ walk'.removed = walk.removed
    BY <1>a, <2>1 DEF WalkRow
  <2>5. PageTyped'
    BY <1>0, <2>1, <2>3 DEF PageTyped
  <2>6. Wanted' = Wanted /\ Passed' = Passed
    BY <2>1, <2>3 DEF Wanted, Passed
  <2>7. WalkOrdered'
    BY <1>0, <2>1, <2>3, <2>4, <2>6 DEF WalkOrdered, Paging!NothingMissed, Paging!NothingTwice
  <2>. QED BY <2>5, <2>7 DEF PagesInv
<1>5. CASE Paging!Query
  <2>. DEFINE lim == Paging!Limit(walk.limit)
              page == Paging!Page(Wanted, walk.page, lim)
              more == Paging!More(Wanted, walk.page, lim, walk.total)
              step == IF more THEN "count" ELSE "done"
              number == IF more THEN walk.page + 1 ELSE walk.page
              seen == walk.seen \cup page
              twice == walk.twice \/ page \cap walk.seen # {}
  <2>1. walk.step = "query" /\ UNCHANGED <<live, export>>
        /\ walk' = [walk EXCEPT !.step = step, !.page = number, !.seen = seen, !.twice = twice]
    BY <1>5, <1>a DEF Paging!Query, Wanted, WalkRow
  <2>2. lim \in Nat \ {0}
    BY <1>a, PagesAre
  <2>. HIDE DEF lim
  <2>3. /\ \A e \in Wanted : e \in page <=> Passed <= Paging!Rank(e, Wanted)
                                            /\ Paging!Rank(e, Wanted) < Passed + lim
        /\ page \subseteq Wanted
        /\ ~more => \A e \in Wanted : Paging!Rank(e, Wanted) < Passed + lim
    <3>1. more <=> Paging!More(Wanted, walk.page, lim, 0)
      BY DEF Paging!More
    <3>2. Passed = Paging!Offset(walk.page, lim)
      BY DEF Passed, lim
    <3>. QED BY <1>a, <2>2, <3>1, <3>2, PageHolds
  <2>4. walk.page > 0
    BY <1>0, <2>1 DEF WalkOrdered
  <2>5. more \in BOOLEAN /\ twice \in BOOLEAN
    BY DEF Paging!More
  <2>6. Paging!Offset(walk.page + 1, lim) = Passed + lim
    <3>1. Paging!Offset(walk.page + 1, lim) = walk.page * lim
      BY <1>a DEF Paging!Offset
    <3>2. Passed = (walk.page - 1) * lim
      BY <2>4 DEF Passed, Paging!Offset, lim
    <3>3. walk.page * lim = (walk.page - 1) * lim + lim
      BY <1>a, <2>2
    <3>. QED BY <3>1, <3>2, <3>3
  <2>. HIDE DEF page, more
  <2>7. step \in {"count", "done"} /\ number \in Nat /\ number > 0 /\ seen \in SUBSET Paging!Entries
    BY <1>a, <2>3, <2>4
  <2>. HIDE DEF step, number, seen, twice
  <2>8. /\ walk' \in WalkRow /\ walk'.step = step /\ walk'.filter = walk.filter
        /\ walk'.limit = walk.limit /\ walk'.page = number /\ walk'.since = walk.since
        /\ walk'.seen = seen
    BY <1>a, <2>1, <2>5, <2>7 DEF WalkRow
  <2>9. walk'.twice = twice /\ walk'.added = walk.added /\ walk'.removed = walk.removed
    BY <1>a, <2>1, <2>5 DEF WalkRow
  <2>10. PageTyped'
    BY <1>0, <2>1, <2>8 DEF PageTyped
  <2>11. Wanted' = Wanted /\ (more => Passed' = Passed + lim)
    BY <2>1, <2>6, <2>8 DEF Wanted, Passed, lim, number
  <2>12. walk.since \subseteq Wanted
    BY <1>0, <2>1 DEF WalkOrdered
  <2>13. \A e : Paging!Rank(e, Wanted) \in Nat
    BY <1>a, Ranks
  <2>14. ASSUME ~walk.removed, NEW e \in walk.since \ seen
         PROVE  Passed + lim <= Paging!Rank(e, Wanted)
    <3>1. e \in Wanted /\ e \notin page /\ e \in walk.since \ walk.seen
      BY <2>12, <2>14 DEF seen
    <3>2. Passed <= Paging!Rank(e, Wanted)
      BY <1>0, <2>1, <2>14, <3>1 DEF WalkOrdered
    <3>. QED BY <1>b, <2>2, <2>3, <2>13, <3>1, <3>2
  <2>15. ASSUME ~walk.added, NEW e \in seen
         PROVE  Paging!Rank(e, Wanted) < Passed + lim
    <3>1. CASE e \in page
      BY <2>3, <2>15, <3>1
    <3>2. CASE e \in walk.seen
      <4>1. Paging!Rank(e, Wanted) < Passed
        BY <1>0, <2>1, <2>15, <3>2 DEF WalkOrdered
      <4>. QED BY <1>b, <2>2, <2>13, <2>15, <4>1
    <3>. QED BY <2>15, <3>1, <3>2 DEF seen
  <2>16. ASSUME ~walk.added
         PROVE  ~twice
    <3>1. ~walk.twice
      BY <1>0, <2>16 DEF WalkOrdered, Paging!NothingTwice
    <3>2. ASSUME NEW e \in page, e \in walk.seen
          PROVE  FALSE
      <4>1. e \in Wanted /\ Passed <= Paging!Rank(e, Wanted)
        BY <2>3, <3>2
      <4>2. Paging!Rank(e, Wanted) < Passed
        BY <1>0, <2>1, <2>16, <3>2, <4>1 DEF WalkOrdered
      <4>. QED BY <1>b, <2>13, <4>1, <4>2
    <3>. QED BY <3>1, <3>2 DEF twice
  <2>17. WalkOrdered'
    <3>1. walk'.step # "idle" /\ walk'.since \subseteq Wanted' /\ walk'.page > 0
      BY <2>7, <2>8, <2>11, <2>12
    <3>2. walk'.step \in {"count", "query"} => more
      BY <2>8 DEF step
    <3>3. walk'.step \in {"count", "query"} /\ ~walk'.removed =>
            \A e \in walk'.since \ walk'.seen : Passed' <= Paging!Rank(e, Wanted')
      BY <2>8, <2>9, <2>11, <2>14, <3>2
    <3>4. walk'.step \in {"count", "query"} /\ ~walk'.added =>
            \A e \in walk'.seen : Paging!Rank(e, Wanted') < Passed'
      BY <2>8, <2>9, <2>11, <2>15, <3>2
    <3>5. Paging!NothingMissed'
      <4>1. ASSUME walk'.step = "done", ~walk.removed, NEW e \in walk.since
            PROVE  e \in seen
        <5>1. ~more
          BY <2>8, <4>1 DEF step
        <5>2. Paging!Rank(e, Wanted) < Passed + lim /\ Paging!Rank(e, Wanted) \in Nat
          BY <2>3, <2>12, <2>13, <4>1, <5>1
        <5>. QED BY <1>b, <2>2, <2>14, <4>1, <5>2
      <4>. QED BY <2>8, <2>9, <4>1 DEF Paging!NothingMissed
    <3>6. Paging!NothingTwice'
      BY <2>9, <2>16 DEF Paging!NothingTwice
    <3>. QED BY <3>1, <3>3, <3>4, <3>5, <3>6 DEF WalkOrdered
  <2>. QED BY <2>10, <2>17 DEF PagesInv
<1>6. CASE Paging!Leave
  <2>1. walk' = Paging!NoWalk /\ UNCHANGED <<live, export>>
    BY <1>6 DEF Paging!Leave
  <2>2. Paging!NoWalk \in WalkRow
    BY DEF Paging!NoWalk, WalkRow
  <2>3. PageTyped'
    BY <1>0, <2>1, <2>2 DEF PageTyped
  <2>4. WalkOrdered'
    BY <2>1 DEF WalkOrdered, Paging!NoWalk, Paging!NothingMissed, Paging!NothingTwice
  <2>. QED BY <2>3, <2>4 DEF PagesInv
<1>7. CASE Paging!Export
  <2>1. UNCHANGED <<live, walk>>
        /\ export' = [rows |-> Paging!Cardinality(Paging!ListForExport), of |-> Paging!Cardinality(live)]
    BY <1>7 DEF Paging!Export
  <2>2. Paging!ListForExport \in SUBSET Paging!Entries
    BY <1>a DEF Paging!ListForExport, Paging!Page, Paging!Selected
  <2>3. Paging!Cardinality(Paging!ListForExport) \in 0..Latest /\ Paging!Cardinality(live) \in 0..Latest
    BY <1>a, <2>2, CountsAre
  <2>4. PageTyped'
    BY <1>0, <2>1, <2>3 DEF PageTyped
  <2>5. WalkOrdered'
    BY <1>0, <2>1 DEF WalkOrdered, Paging!NothingMissed, Paging!NothingTwice, Wanted, Passed
  <2>. QED BY <2>4, <2>5 DEF PagesInv
<1>9. ASSUME NEW e \in Paging!Entries, NEW f \in Paging!Entries, Paging!Edit(e, f)
      PROVE  PagesInv'
  <2>1. e \in live /\ f \in Paging!Entries \ live
        /\ live' = (live \ {e}) \cup {f} /\ export' = export
    BY <1>9 DEF Paging!Edit
  <2>2. CASE walk.step = "idle"
    <3>1. walk' = walk
      BY <1>9, <2>2 DEF Paging!Edit
    <3>2. PageTyped'
      BY <1>0, <2>1, <3>1 DEF PageTyped
    <3>3. WalkOrdered'
      BY <1>0, <2>2, <3>1 DEF WalkOrdered, Paging!NothingMissed, Paging!NothingTwice
    <3>. QED BY <3>2, <3>3 DEF PagesInv
  <2>3. CASE walk.step # "idle"
    <3>. DEFINE rest == walk.since \ {e}
                gone == e \in walk.filter /\ (f \in walk.filter => f < e)
                came == f \in walk.filter /\ (e \in walk.filter => f > e)
                removed == walk.removed \/ gone
                added == walk.added \/ came
    <3>1. walk' = [walk EXCEPT !.since = rest, !.removed = removed, !.added = added]
      BY <1>9, <2>3, <1>a DEF Paging!Edit, WalkRow
    <3>2. rest \in SUBSET Paging!Entries /\ removed \in BOOLEAN /\ added \in BOOLEAN
      BY <1>a DEF WalkRow
    <3>. HIDE DEF rest, gone, came, removed, added
    <3>3. /\ walk' \in WalkRow /\ walk'.step = walk.step /\ walk'.filter = walk.filter
          /\ walk'.limit = walk.limit /\ walk'.page = walk.page /\ walk'.since = rest
          /\ walk'.seen = walk.seen
      BY <1>a, <3>1, <3>2 DEF WalkRow
    <3>4. walk'.twice = walk.twice /\ walk'.added = added /\ walk'.removed = removed
      BY <1>a, <3>1, <3>2 DEF WalkRow
    <3>5. PageTyped'
      BY <1>0, <2>1, <3>3 DEF PageTyped
    <3>6. Wanted' = ((live \ {e}) \cup {f}) \cap walk.filter /\ Passed' = Passed
          /\ Wanted' \in SUBSET Paging!Entries
      BY <1>a, <2>1, <3>3 DEF Wanted, Passed
    <3>7. ASSUME NEW p \in Paging!Entries
          PROVE  /\ Paging!Rank(p, Wanted) \in Nat /\ Paging!Rank(p, Wanted') \in Nat
                 /\ ~gone => Paging!Rank(p, Wanted) <= Paging!Rank(p, Wanted')
                 /\ ~came => Paging!Rank(p, Wanted') <= Paging!Rank(p, Wanted)
      BY <1>a, <2>1, <3>6, EditMoves DEF Wanted, gone, came
    <3>8. ASSUME walk.step \in {"count", "query"}, ~removed, NEW p \in rest \ walk.seen
          PROVE  Passed <= Paging!Rank(p, Wanted')
      <4>1. p \in walk.since \ walk.seen /\ p \in Paging!Entries /\ ~walk.removed /\ ~gone
        BY <1>a, <3>8 DEF rest, removed
      <4>2. Passed <= Paging!Rank(p, Wanted)
        BY <1>0, <3>8, <4>1 DEF WalkOrdered
      <4>. QED BY <1>b, <3>7, <4>1, <4>2
    <3>9. ASSUME walk.step \in {"count", "query"}, ~added, NEW p \in walk.seen
          PROVE  Paging!Rank(p, Wanted') < Passed
      <4>1. p \in Paging!Entries /\ ~walk.added /\ ~came
        BY <1>a, <3>9 DEF added
      <4>2. Paging!Rank(p, Wanted) < Passed
        BY <1>0, <3>9, <4>1 DEF WalkOrdered
      <4>. QED BY <1>b, <3>7, <4>1, <4>2
    <3>10. rest \subseteq Wanted' /\ walk.page > 0
      <4>1. walk.since \subseteq Wanted /\ walk.page > 0
        BY <1>0, <2>3 DEF WalkOrdered
      <4>. QED BY <3>6, <4>1 DEF rest, Wanted
    <3>11. WalkOrdered'
      <4>1. walk'.step # "idle" /\ walk'.since \subseteq Wanted' /\ walk'.page > 0
        BY <2>3, <3>3, <3>10
      <4>2. walk'.step \in {"count", "query"} /\ ~walk'.removed =>
              \A p \in walk'.since \ walk'.seen : Passed' <= Paging!Rank(p, Wanted')
        BY <3>3, <3>4, <3>6, <3>8
      <4>3. walk'.step \in {"count", "query"} /\ ~walk'.added =>
              \A p \in walk'.seen : Paging!Rank(p, Wanted') < Passed'
        BY <3>3, <3>4, <3>6, <3>9
      <4>4. Paging!NothingMissed'
        BY <1>0, <3>3, <3>4 DEF WalkOrdered, Paging!NothingMissed, rest, removed
      <4>5. Paging!NothingTwice'
        BY <1>0, <3>4 DEF WalkOrdered, Paging!NothingTwice, added
      <4>. QED BY <4>1, <4>2, <4>3, <4>4, <4>5 DEF WalkOrdered
    <3>. QED BY <3>5, <3>11 DEF PagesInv
  <2>. QED BY <2>2, <2>3
<1>8. CASE UNCHANGED Paging!pageVars
  BY <1>0, <1>8 DEF Paging!pageVars, PagesInv, PageTyped, WalkOrdered, Paging!NothingMissed,
     Paging!NothingTwice, Wanted, Passed
<1>. QED BY <1>1, <1>2, <1>3, <1>4, <1>5, <1>6, <1>7, <1>8, <1>9 DEF Paging!Next

LEMMA PagesKept == Paging!Spec => []PagesInv
  BY PagesInit, PagesNext, PTL DEF Paging!Spec

\* WalksAreWhole: a walk to the last page has seen every entry that was there all
\* the time and not edited if nothing was deleted, taken out of the list or moved
\* back in it, and none twice if nothing was added to it or moved forward, for any
\* entries, filters, limits and edits (ListTransactionsTx, patchTransactionTx).
THEOREM WalksWhole == BackofficeSpec => []WalksAreWhole
<1>1. PagesInv => WalksAreWhole
  BY DEF PagesInv, WalkOrdered, WalksAreWhole
<1>. QED BY <1>1, PagesKept, PartsRun, PTL

-----------------------------------------------------------------------------
(* The debts in parts of a cent are debts like any others: what is proved  *)
(* of DebtLedger for any amounts holds of them.                            *)

FineLedger == INSTANCE DebtLedgerProofs WITH
    Debts <- FineDebts, Principals <- FinePrincipals, Amounts <- FineAmounts,
    Subunits <- FineSubunits, debt <- fineDebt, txn <- fineTxn, link <- fineLink

LEMMA FineIsLedger == FineLedger!ConstantsAssumption /\ (Fine!Spec <=> FineLedger!Spec)
<1>1. Fine!ConstantsAssumption
  BY BackofficeAssumption DEF BackofficeAssumption
<1>2. FineLedger!ConstantsAssumption
  BY <1>1 DEF Fine!ConstantsAssumption, FineLedger!ConstantsAssumption, Fine!Permissions,
     FineLedger!Permissions, Fine!AppStatus, FineLedger!AppStatus, Fine!DbStatus,
     FineLedger!DbStatus
<1>3. Fine!Init <=> FineLedger!Init
  BY DEF Fine!Init, FineLedger!Init, Fine!NoDebt, FineLedger!NoDebt, Fine!NoTxn,
     FineLedger!NoTxn, Fine!NoLink, FineLedger!NoLink
<1>4. [Fine!Next]_Fine!vars <=> [FineLedger!Next]_FineLedger!vars
  BY DEF Fine!Next, Fine!vars, Fine!CreateNext, Fine!UpdateNext, Fine!PaymentNext,
     Fine!DeleteNext, Fine!CreateBy, Fine!Shares, Fine!CreateDebt, Fine!CreateTransaction,
     Fine!UpdateDebt, Fine!DeleteDebt, Fine!AddPayment, Fine!Repay, Fine!RecordPayment,
     Fine!DeleteTransaction, Fine!Cleaned, Fine!TxnExists, Fine!TxnVisible, Fine!DebtVisible,
     Fine!AfterUpdate, Fine!AfterRefund, Fine!PaymentLink, Fine!AfterPayment, Fine!SetDebt,
     Fine!Allocation, Fine!Payments, Fine!SplitPayments, Fine!AmountPayments,
     Fine!RoundCents, Fine!RowAccepted, Fine!Writer, Fine!Member, Fine!NoLink, Fine!NoTxn,
     Fine!NewDebt, Fine!NoDebt, Fine!DbStatus, FineLedger!Next, FineLedger!vars,
     FineLedger!CreateNext, FineLedger!UpdateNext, FineLedger!PaymentNext,
     FineLedger!DeleteNext, FineLedger!CreateBy, FineLedger!Shares, FineLedger!CreateDebt,
     FineLedger!CreateTransaction, FineLedger!UpdateDebt, FineLedger!DeleteDebt,
     FineLedger!AddPayment, FineLedger!Repay, FineLedger!RecordPayment,
     FineLedger!DeleteTransaction, FineLedger!Cleaned, FineLedger!TxnExists,
     FineLedger!TxnVisible, FineLedger!DebtVisible, FineLedger!AfterUpdate,
     FineLedger!AfterRefund, FineLedger!PaymentLink, FineLedger!AfterPayment,
     FineLedger!SetDebt, FineLedger!Allocation, FineLedger!Payments,
     FineLedger!SplitPayments, FineLedger!AmountPayments, FineLedger!RoundCents,
     FineLedger!RowAccepted, FineLedger!Writer, FineLedger!Member, FineLedger!NoLink,
     FineLedger!NoTxn, FineLedger!NewDebt, FineLedger!NoDebt, FineLedger!DbStatus
<1>. QED BY <1>2, <1>3, <1>4, PTL DEF Fine!Spec, FineLedger!Spec

\* CentsNeverUnderstated: whatever parts of a cent payments have, what a live
\* debt still owes and what its links say was paid are never less than its
\* principal together (AddPaymentTx, CleanupTransactionLinksTx).
THEOREM CentsNeverTooLow == BackofficeSpec => []CentsNeverUnderstated
<1>1. FineLedger!Spec => []FineLedger!NeverUnderstated
  BY FineIsLedger, FineLedger!DebtsNeverUnderstated
<1>2. FineLedger!NeverUnderstated => CentsNeverUnderstated
  <2>1. \A d : FineLedger!Paid(d) = Fine!Paid(d)
    BY DEF FineLedger!Paid, Fine!Paid, FineLedger!PaymentsOf, Fine!PaymentsOf,
       FineLedger!MapThenSumSet, Fine!MapThenSumSet,
       FineLedger!MapThenFoldSet, Fine!MapThenFoldSet
  <2>2. FineLedger!NeverUnderstated => Fine!NeverUnderstated
    BY <2>1 DEF FineLedger!NeverUnderstated, Fine!NeverUnderstated
  <2>. QED BY <2>2 DEF CentsNeverUnderstated
<1>. QED BY <1>1, <1>2, FineIsLedger, PartsRun, PTL

-----------------------------------------------------------------------------
(* The types of all parts.                                                 *)

LEMMA FineTypes == Fine!Spec => []Fine!TypeOK
<1>1. FineLedger!Spec => []FineLedger!TypeOK
  BY FineIsLedger, FineLedger!TypeCorrect
<1>2. FineLedger!TypeOK => Fine!TypeOK
  BY DEF FineLedger!TypeOK, Fine!TypeOK, FineLedger!DebtRow, Fine!DebtRow, FineLedger!TxnRow,
     Fine!TxnRow, FineLedger!LinkRow, Fine!LinkRow, FineLedger!RowAccepted, Fine!RowAccepted,
     FineLedger!AppStatus, Fine!AppStatus, FineLedger!DbStatus, Fine!DbStatus
<1>. QED BY <1>1, <1>2, FineIsLedger, PTL

LEMMA SpentTyped == Budgeting!Spec => [](spent \subseteq Expenses)
<1>1. Budgeting!Init => spent \subseteq Expenses
  BY DEF Budgeting!Init
<1>2. spent \subseteq Expenses /\ [Budgeting!Next]_Budgeting!budgetVars => (spent \subseteq Expenses)'
  BY DEF Budgeting!Next, Budgeting!budgetVars, Budgeting!CreateBudget, Budgeting!ReadBudget,
     Budgeting!UpdateBudget, Budgeting!Abort, Budgeting!DeleteBudget, Budgeting!ShowBudget,
     Budgeting!Book
<1>. QED BY <1>1, <1>2, PTL DEF Budgeting!Spec

LEMMA ReportsTyped == Reporting!Spec => []Reporting!TypeOK
<1>1. FirstDay \in Nat /\ LastDay \in Nat /\ FirstDay <= LastDay
  BY BackofficeAssumption DEF BackofficeAssumption, Reporting!ReportsAssumption
<1>2. Reporting!Init => Reporting!TypeOK
  BY <1>1 DEF Reporting!Init, Reporting!TypeOK
<1>3. Reporting!TypeOK /\ [Reporting!Next]_Reporting!reportVars => Reporting!TypeOK'
  BY <1>1 DEF Reporting!TypeOK, Reporting!Next, Reporting!reportVars, Reporting!Book,
     Reporting!Delete, Reporting!NextDay
<1>. QED BY <1>2, <1>3, PTL DEF Reporting!Spec

\* TypesOK: every part stays within its types, for any values of the constants.
THEOREM TypesKept == BackofficeSpec => []TypesOK
<1>1. ASSUME TradesInv PROVE Trading!TypeOK
  <2>1. \A t \in Trading!TradeIds : logs[t] = {}
    BY <1>1 DEF TradesInv, PlansEmpty
  <2>2. TradesTyped
    BY <1>1 DEF TradesInv
  <2>. QED BY <2>1, <2>2 DEF TradesTyped, Trading!TypeOK
<1>2. ASSUME PagesInv PROVE Paging!TypeOK
  <2>1. PageTyped
    BY <1>2 DEF PagesInv
  <2>. QED BY <2>1 DEF PageTyped, WalkRow, Paging!TypeOK
<1>3. ASSUME ContactsInv PROVE Knowing!TypeOK
  <2>1. ContactsTyped
    BY <1>3 DEF ContactsInv
  <2>2. ASSUME NEW c \in Knowing!ContactIds
        PROVE  contact[c].state \in {"none", "live", "deleted"} /\ contact[c].link \in People \cup {None}
    <3>1. contact[c] \in ContactRow
      BY <2>1, <2>2 DEF ContactsTyped
    <3>. QED BY <3>1 DEF ContactRow
  <2>. QED BY <2>1, <2>2 DEF ContactsTyped, Knowing!TypeOK
<1>4. ASSUME BudgetsInv, spent \subseteq Expenses PROVE Budgeting!TypeOK
  <2>1. BudgetTyped /\ BudgetsAsMade
    BY <1>4 DEF BudgetsInv
  <2>2. ASSUME NEW b \in Budgeting!BudgetIds
        PROVE  /\ budget[b].state \in {"none", "live", "deleted"}
               /\ budget[b].category \in Categories \cup {None}
               /\ Budgeting!Threshold(budget[b].threshold)
    <3>1. budget[b] \in BudgetRow
      BY <2>1, <2>2 DEF BudgetTyped
    <3>. QED BY <2>1, <2>2, <3>1 DEF BudgetRow, BudgetsAsMade
  <2>. QED BY <1>4, <2>1, <2>2 DEF BudgetTyped, Budgeting!TypeOK
<1>5. ASSUME ScheduleInv PROVE Scheduling!TypeOK
  <2>1. group.frequency \in Scheduling!Frequencies \cup {"none"}
    BY <1>5 DEF ScheduleInv, Scheduling!NoGroup
  <2>2. ASSUME NEW k \in Scheduling!Records
        PROVE  history[k].cycle \in 0..(Scheduling!Count + 1) /\ history[k].amount \in Nat
    BY <1>5, <2>2 DEF ScheduleInv
  <2>. QED BY <2>1, <2>2 DEF Scheduling!TypeOK
<1>6. ASSUME MarketInv PROVE Queueing!TypeOK
  <2>1. MarketTyped
    BY <1>6 DEF MarketInv
  <2>. QED BY <2>1 DEF MarketTyped, AnswerRow, Queueing!TypeOK
<1>7. ASSUME TagsInv PROVE Tagging!TypeOK
  <2>1. ASSUME NEW r \in Slots PROVE ask[r] = Tagging!Idle \/ ask[r].id \in 1..given
    BY <1>7, <2>1 DEF TagsInv, TagAsked
  <2>. QED BY <1>7, <2>1 DEF TagsInv, Tagging!TypeOK
<1>8. AuditInv => Auditing!TypeOK
  BY DEF AuditInv
<1>9. TypeOK /\ Fine!TypeOK /\ TradesInv /\ PagesInv /\ ContactsInv /\ BudgetsInv
      /\ spent \subseteq Expenses /\ ScheduleInv /\ Reporting!TypeOK /\ MarketInv
      /\ AuditInv /\ TagsInv => TypesOK
  BY <1>1, <1>2, <1>3, <1>4, <1>5, <1>6, <1>7, <1>8 DEF TypesOK
<1>. QED BY <1>9, PartsRun, TypeCorrect, FineTypes, TradesKept, PagesKept, ContactsKept,
            BudgetsKept, SpentTyped, ScheduleKept, ReportsTyped, MarketKept, AuditKept, TagsKept, PTL

-----------------------------------------------------------------------------
(* The sums the modules compute. *)

LEMMA AmountIsSum ==
    ASSUME NEW T, IsFiniteSet(T), NEW w, \A e \in T : w[e] = e.amount
    PROVE  Reporting!Amount(T) = Sum(w, T)
<1>. DEFINE Body(g) == [U \in SUBSET T |->
                         IF U = {} THEN 0 ELSE (Chosen(U)).amount + g[U \ {Chosen(U)}]]
            it == CHOOSE g : g = Body(g)
<1>1. Reporting!Amount(T) = it[T]
  BY DEF Reporting!Amount, Reporting!MapThenSumSet, Reporting!MapThenFoldSet, Chosen
<1>2. ASSUME NEW g
      PROVE  g = Body(g) <=> Adds(g, w, T)
  <2>1. ASSUME NEW U \in SUBSET T, U # {}
        PROVE  (Chosen(U)).amount = w[Chosen(U)]
    BY <2>1, ChosenIsIn
  <2>. QED BY <2>1 DEF Adds
<1>3. it = Body(it)
  <2>1. \E g : g = Body(g)
    BY <1>2, AddsExists
  <2>. HIDE DEF Body
  <2>. QED BY <2>1
<1>4. Adds(it, w, T)
  BY <1>2, <1>3
<1>. HIDE DEF it
<1>. QED BY <1>1, <1>4, AddsSum

LEMMA ReceivedIsSum ==
    ASSUME NEW T, IsFiniteSet(T), NEW w, \A e \in T : w[e] = Reporting!Arrives(e)
    PROVE  Reporting!Received(T) = Sum(w, T)
<1>. DEFINE Body(g) == [U \in SUBSET T |->
                         IF U = {} THEN 0 ELSE Reporting!Arrives(Chosen(U)) + g[U \ {Chosen(U)}]]
            it == CHOOSE g : g = Body(g)
<1>1. Reporting!Received(T) = it[T]
  BY DEF Reporting!Received, Reporting!MapThenSumSet, Reporting!MapThenFoldSet, Chosen
<1>2. ASSUME NEW g
      PROVE  g = Body(g) <=> Adds(g, w, T)
  <2>1. ASSUME NEW U \in SUBSET T, U # {}
        PROVE  Reporting!Arrives(Chosen(U)) = w[Chosen(U)]
    BY <2>1, ChosenIsIn
  <2>. QED BY <2>1 DEF Adds
<1>3. it = Body(it)
  <2>1. \E g : g = Body(g)
    BY <1>2, AddsExists
  <2>. HIDE DEF Body
  <2>. QED BY <2>1
<1>4. Adds(it, w, T)
  BY <1>2, <1>3
<1>. HIDE DEF it
<1>. QED BY <1>1, <1>4, AddsSum

LEMMA SentIsSum ==
    ASSUME NEW T, IsFiniteSet(T), NEW w, \A e \in T : w[e] = Reporting!Leaves(e)
    PROVE  Reporting!Sent(T) = Sum(w, T)
<1>. DEFINE Body(g) == [U \in SUBSET T |->
                         IF U = {} THEN 0 ELSE Reporting!Leaves(Chosen(U)) + g[U \ {Chosen(U)}]]
            it == CHOOSE g : g = Body(g)
<1>1. Reporting!Sent(T) = it[T]
  BY DEF Reporting!Sent, Reporting!MapThenSumSet, Reporting!MapThenFoldSet, Chosen
<1>2. ASSUME NEW g
      PROVE  g = Body(g) <=> Adds(g, w, T)
  <2>1. ASSUME NEW U \in SUBSET T, U # {}
        PROVE  Reporting!Leaves(Chosen(U)) = w[Chosen(U)]
    BY <2>1, ChosenIsIn
  <2>. QED BY <2>1 DEF Adds
<1>3. it = Body(it)
  <2>1. \E g : g = Body(g)
    BY <1>2, AddsExists
  <2>. HIDE DEF Body
  <2>. QED BY <2>1
<1>4. Adds(it, w, T)
  BY <1>2, <1>3
<1>. HIDE DEF it
<1>. QED BY <1>1, <1>4, AddsSum

LEMMA TotalBalanceIsSum ==
    ASSUME IsFiniteSet(Booked), NEW w, \A a \in Booked : w[a] = Reporting!Balances[a]
    PROVE  Reporting!TotalBalance = Sum(w, Booked)
<1>. DEFINE Body(g) == [U \in SUBSET Booked |->
                         IF U = {} THEN 0
                         ELSE Reporting!Balances[Chosen(U)] + g[U \ {Chosen(U)}]]
            it == CHOOSE g : g = Body(g)
<1>1. Reporting!TotalBalance = it[Booked]
  BY DEF Reporting!TotalBalance, Reporting!MapThenSumSet, Reporting!MapThenFoldSet, Chosen
<1>2. ASSUME NEW g
      PROVE  g = Body(g) <=> Adds(g, w, Booked)
  <2>1. ASSUME NEW U \in SUBSET Booked, U # {}
        PROVE  Reporting!Balances[Chosen(U)] = w[Chosen(U)]
    BY <2>1, ChosenIsIn
  <2>. QED BY <2>1 DEF Adds
<1>3. it = Body(it)
  <2>1. \E g : g = Body(g)
    BY <1>2, AddsExists
  <2>. HIDE DEF Body
  <2>. QED BY <2>1
<1>4. Adds(it, w, Booked)
  BY <1>2, <1>3
<1>. HIDE DEF it
<1>. QED BY <1>1, <1>4, AddsSum

LEMMA TotalIncomeIsSum ==
    ASSUME NEW rows, IsFiniteSet(rows), NEW w,
           \A m \in rows : w[m] = Reporting!Row("income", m)
    PROVE  Reporting!TotalIncome(rows) = Sum(w, rows)
<1>. DEFINE Body(g) == [U \in SUBSET rows |->
                         IF U = {} THEN 0
                         ELSE Reporting!Row("income", Chosen(U)) + g[U \ {Chosen(U)}]]
            it == CHOOSE g : g = Body(g)
<1>1. Reporting!TotalIncome(rows) = it[rows]
  BY DEF Reporting!TotalIncome, Reporting!MapThenSumSet, Reporting!MapThenFoldSet, Chosen
<1>2. ASSUME NEW g
      PROVE  g = Body(g) <=> Adds(g, w, rows)
  <2>1. ASSUME NEW U \in SUBSET rows, U # {}
        PROVE  Reporting!Row("income", Chosen(U)) = w[Chosen(U)]
    BY <2>1, ChosenIsIn
  <2>. QED BY <2>1 DEF Adds
<1>3. it = Body(it)
  <2>1. \E g : g = Body(g)
    BY <1>2, AddsExists
  <2>. HIDE DEF Body
  <2>. QED BY <2>1
<1>4. Adds(it, w, rows)
  BY <1>2, <1>3
<1>. HIDE DEF it
<1>. QED BY <1>1, <1>4, AddsSum

LEMMA AskedIsSum ==
    ASSUME NEW T, IsFiniteSet(T), NEW w, \A i \in T : w[i] = Scheduling!Expected(i)
    PROVE  Scheduling!TotalExpected(T) = Sum(w, T)
<1>. DEFINE Body(g) == [U \in SUBSET T |->
                         IF U = {} THEN 0
                         ELSE Scheduling!Expected(Chosen(U)) + g[U \ {Chosen(U)}]]
            it == CHOOSE g : g = Body(g)
<1>1. Scheduling!TotalExpected(T) = it[T]
  BY DEF Scheduling!TotalExpected, Scheduling!MapThenSumSet, Scheduling!MapThenFoldSet, Chosen
<1>2. ASSUME NEW g
      PROVE  g = Body(g) <=> Adds(g, w, T)
  <2>1. ASSUME NEW U \in SUBSET T, U # {}
        PROVE  Scheduling!Expected(Chosen(U)) = w[Chosen(U)]
    BY <2>1, ChosenIsIn
  <2>. QED BY <2>1 DEF Adds
<1>3. it = Body(it)
  <2>1. \E g : g = Body(g)
    BY <1>2, AddsExists
  <2>. HIDE DEF Body
  <2>. QED BY <2>1
<1>4. Adds(it, w, T)
  BY <1>2, <1>3
<1>. HIDE DEF it
<1>. QED BY <1>1, <1>4, AddsSum

LEMMA PaidIsSum ==
    ASSUME NEW T, IsFiniteSet(T), NEW w, \A k \in T : w[k] = history[k].amount
    PROVE  Scheduling!Amount(T) = Sum(w, T)
<1>. DEFINE Body(g) == [U \in SUBSET T |->
                         IF U = {} THEN 0
                         ELSE history[Chosen(U)].amount + g[U \ {Chosen(U)}]]
            it == CHOOSE g : g = Body(g)
<1>1. Scheduling!Amount(T) = it[T]
  BY DEF Scheduling!Amount, Scheduling!MapThenSumSet, Scheduling!MapThenFoldSet, Chosen
<1>2. ASSUME NEW g
      PROVE  g = Body(g) <=> Adds(g, w, T)
  <2>1. ASSUME NEW U \in SUBSET T, U # {}
        PROVE  history[Chosen(U)].amount = w[Chosen(U)]
    BY <2>1, ChosenIsIn
  <2>. QED BY <2>1 DEF Adds
<1>3. it = Body(it)
  <2>1. \E g : g = Body(g)
    BY <1>2, AddsExists
  <2>. HIDE DEF Body
  <2>. QED BY <2>1
<1>4. Adds(it, w, T)
  BY <1>2, <1>3
<1>. HIDE DEF it
<1>. QED BY <1>1, <1>4, AddsSum

\* The slots collected are some number.
LEMMA CollectedInt ==
    ASSUME ScheduleInv, NEW i
    PROVE  Scheduling!Collected(i) \in Int
<1>. DEFINE T == {k \in Scheduling!Records : /\ history[k].kind = "payout"
                                             /\ history[k].cycle < i}
            w == [k \in Scheduling!Records |-> history[k].slots]
            Body(g) == [U \in SUBSET T |->
                         IF U = {} THEN 0
                         ELSE history[Chosen(U)].slots + g[U \ {Chosen(U)}]]
            it == CHOOSE g : g = Body(g)
<1>1. Scheduling!Collected(i) = it[T]
  BY DEF Scheduling!Collected, Scheduling!MapThenSumSet, Scheduling!MapThenFoldSet, Chosen
<1>0. IsFiniteSet(T)
  <2>1. IsFiniteSet(Scheduling!Records)
    BY CountIs, FS_Interval DEF Scheduling!Records
  <2>2. T \in SUBSET Scheduling!Records
    OBVIOUS
  <2>. HIDE DEF T
  <2>. QED BY <2>1, <2>2, FS_Subset
<1>5. \A k \in T : w[k] \in Int /\ w[k] = history[k].slots
  BY DEF ScheduleInv
<1>. HIDE DEF T, w
<1>2. ASSUME NEW g
      PROVE  g = Body(g) <=> Adds(g, w, T)
  <2>1. ASSUME NEW U \in SUBSET T, U # {}
        PROVE  history[Chosen(U)].slots = w[Chosen(U)]
    BY <1>5, <2>1, ChosenIsIn
  <2>. QED BY <2>1 DEF Adds
<1>3. it = Body(it)
  <2>1. \E g : g = Body(g)
    BY <1>0, <1>2, AddsExists
  <2>. HIDE DEF Body
  <2>. QED BY <2>1
<1>4. Adds(it, w, T)
  BY <1>2, <1>3
<1>. HIDE DEF it
<1>6. it[T] = Sum(w, T) /\ Sum(w, T) \in Int
  BY <1>0, <1>4, <1>5, AddsSum, SumInt
<1>. QED BY <1>1, <1>6

-----------------------------------------------------------------------------
(* The sums of a schedule and of the reports.                               *)

\* A cycle asks for a whole amount.
LEMMA ExpectedInt ==
    ASSUME ScheduleInv, NEW i, Scheduling!Paid(i) = {}
    PROVE  Scheduling!Expected(i) \in Int
<1>1. Scheduling!Collected(i) \in Int /\ UserSlots \in Int
      /\ Contribution \in Int /\ Interest \in Int
  BY CollectedInt, CountIs
<1>2. ASSUME NEW a \in Int, NEW b \in Int, NEW c \in Int, NEW d \in Int
      PROVE  a * (c + d) + (b - a) * c \in Int
  OBVIOUS
<1>. QED BY <1>1, <1>2 DEF Scheduling!Expected

\* The one payment of a cycle is what the cycle asks for.
LEMMA OnePayment ==
    ASSUME ScheduleInv, NEW i, Scheduling!Paid(i) # {}, Cardinality(Scheduling!Paid(i)) <= 1
    PROVE  \E k \in Scheduling!Payments :
              /\ Scheduling!Paid(i) = {k} /\ Scheduling!Expected(i) = history[k].amount
<1>1. IsFiniteSet(Scheduling!Paid(i)) /\ Scheduling!Paid(i) \in SUBSET Scheduling!Payments
      /\ Scheduling!Payments \in SUBSET Nat
  <2>1. IsFiniteSet(Scheduling!Records) /\ Scheduling!Records \in SUBSET Nat
    BY CountIs, FS_Interval DEF Scheduling!Records
  <2>2. Scheduling!Paid(i) \in SUBSET Scheduling!Records
        /\ Scheduling!Paid(i) \in SUBSET Scheduling!Payments
        /\ Scheduling!Payments \in SUBSET Scheduling!Records
    BY DEF Scheduling!Paid, Scheduling!Payments
  <2>. QED BY <2>1, <2>2, FS_Subset
<1>2. Cardinality(Scheduling!Paid(i)) = 1
  BY <1>1, FS_CardinalityType, FS_EmptySet
<1>3. PICK k : Scheduling!Paid(i) = {k}
  BY <1>1, <1>2, FS_Singleton
<1>4. k \in Scheduling!Payments /\ k \in Nat
  BY <1>1, <1>3
<1>5. Scheduling!Max({k}) = k
  BY <1>4 DEF Scheduling!Max
<1>6. Scheduling!Expected(i) = history[k].amount
  BY <1>3, <1>5 DEF Scheduling!Expected
<1>. QED BY <1>3, <1>4, <1>6

\* RemainingIsUnpaid: while every payment names a cycle of its own, what remains
\* of a group's schedule is what its unpaid cycles ask for, whatever was paid and
\* paid out, in any order, and however many there are (ListGroups, GetGroupDetail).
LEMMA RemainingUnpaid == ScheduleInv => Scheduling!RemainingIsUnpaid
<1>. SUFFICES ASSUME ScheduleInv,
                     \A k \in Scheduling!Payments : history[k].cycle \in Scheduling!Cycles,
                     \A i \in Scheduling!Cycles : Scheduling!Cardinality(Scheduling!Paid(i)) <= 1
              PROVE  Scheduling!Remaining = Scheduling!TotalExpected(Scheduling!Unpaid)
  BY DEF Scheduling!RemainingIsUnpaid
<1>. DEFINE Cycles == Scheduling!Cycles
            Unpaid == Scheduling!Unpaid
            Done == {i \in Cycles : Scheduling!Paid(i) # {}}
            Made == Scheduling!Payments
            asks == [i \in Cycles |-> Scheduling!Expected(i)]
            pays == [k \in Made |-> history[k].amount]
            cycle == [k \in Made |-> history[k].cycle]
<1>1. \A i \in Cycles : Cardinality(Scheduling!Paid(i)) <= 1
  <2>1. \A S : Scheduling!Cardinality(S) = Cardinality(S)
    BY DEF Scheduling!Cardinality, Cardinality
  <2>. QED BY <2>1
<1>2. IsFiniteSet(Cycles) /\ IsFiniteSet(Made) /\ IsFiniteSet(Unpaid) /\ IsFiniteSet(Done)
      /\ Unpaid \cap Done = {} /\ Unpaid \cup Done = Cycles
  <2>1. IsFiniteSet(Cycles) /\ IsFiniteSet(Scheduling!Records)
    BY CountIs, FS_Interval DEF Scheduling!Cycles, Scheduling!Records
  <2>2. Made \in SUBSET Scheduling!Records /\ Unpaid \in SUBSET Cycles /\ Done \in SUBSET Cycles
        /\ Unpaid \cap Done = {} /\ Unpaid \cup Done = Cycles
    BY DEF Scheduling!Payments, Scheduling!Unpaid
  <2>. HIDE DEF Cycles, Made, Unpaid, Done
  <2>. QED BY <2>1, <2>2, FS_Subset
<1>3. \A k \in Made : pays[k] \in Int /\ pays[k] = history[k].amount
  BY DEF ScheduleInv, Scheduling!Payments
<1>4. ASSUME NEW i \in Done
      PROVE  \E k \in Made : Keyed(Made, cycle, {i}) = {k} /\ asks[i] = pays[k]
  <2>1. PICK k \in Made : Scheduling!Paid(i) = {k} /\ Scheduling!Expected(i) = history[k].amount
    BY <1>1, OnePayment
  <2>2. Keyed(Made, cycle, {i}) = Scheduling!Paid(i)
    BY DEF Scheduling!Paid, Keyed
  <2>. QED BY <2>1, <2>2
<1>5. \A k \in Made : cycle[k] \in Done
  <2>. SUFFICES ASSUME NEW k \in Made PROVE cycle[k] \in Done
    OBVIOUS
  <2>1. cycle[k] \in Cycles /\ k \in Scheduling!Paid(cycle[k])
    BY DEF Scheduling!Paid
  <2>. QED BY <2>1
<1>6. \A i \in Cycles : asks[i] \in Int /\ asks[i] = Scheduling!Expected(i)
  <2>. SUFFICES ASSUME NEW i \in Cycles PROVE asks[i] \in Int
    OBVIOUS
  <2>1. CASE Scheduling!Paid(i) = {}
    BY <2>1, ExpectedInt
  <2>2. CASE Scheduling!Paid(i) # {}
    BY <2>2, <1>3, <1>4
  <2>. QED BY <2>1, <2>2
<1>. HIDE DEF Cycles, Unpaid, Done, Made, asks, pays, cycle
<1>7. \A i \in Done : asks[i] = Sum(pays, Keyed(Made, cycle, {i}))
  <2>. SUFFICES ASSUME NEW i \in Done
                PROVE  asks[i] = Sum(pays, Keyed(Made, cycle, {i}))
    OBVIOUS
  <2>1. PICK k \in Made : Keyed(Made, cycle, {i}) = {k} /\ asks[i] = pays[k]
    BY <1>4
  <2>2. Sum(pays, {k}) = pays[k] + Sum(pays, {k} \ {k})
    <3>1. IsFiniteSet({k}) /\ k \in {k} /\ \A j \in {k} : pays[j] \in Int
      BY <1>3, FS_Singleton
    <3>. QED BY <3>1, SumOfRest
  <2>3. Sum(pays, {k} \ {k}) = 0 /\ pays[k] \in Int
    <3>1. {k} \ {k} = {}
      OBVIOUS
    <3>. QED BY <3>1, <1>3, SumNothing
  <2>4. Sum(pays, {k}) = pays[k]
    BY <2>2, <2>3
  <2>. QED BY <2>1, <2>4
<1>8. Sum(asks, Done) = Sum(pays, Made)
  <2>1. Keyed(Made, cycle, Done) = Made
    BY <1>5 DEF Keyed
  <2>2. Parted(asks, Done, pays, Made, cycle)
    BY <1>3, <1>7 DEF Parted
  <2>3. Sum(asks, Done) = Sum(pays, Keyed(Made, cycle, Done))
    BY <1>2, <2>2, SumByKey
  <2>. QED BY <2>1, <2>3
<1>9. Sum(asks, Unpaid \cup Done) = Sum(asks, Unpaid) + Sum(asks, Done)
  BY <1>2, <1>6, SumOfUnion
<1>10. Sum(asks, Unpaid) \in Int /\ Sum(asks, Done) \in Int
  BY <1>2, <1>6, SumInt
<1>11. Scheduling!TotalExpected(Cycles) = Sum(asks, Cycles) /\ Scheduling!TotalExpected(Unpaid) = Sum(asks, Unpaid)
  BY <1>2, <1>6, AskedIsSum
<1>12. Scheduling!Amount(Made) = Sum(pays, Made)
  BY <1>2, <1>3, PaidIsSum
<1>13. Scheduling!Remaining = Scheduling!TotalExpected(Cycles) - Scheduling!Amount(Made)
  BY DEF Scheduling!Remaining, Cycles, Made
<1>14. Scheduling!Remaining = Scheduling!TotalExpected(Unpaid)
  <2>1. Sum(asks, Cycles) = Sum(asks, Unpaid) + Sum(asks, Done)
    BY <1>2, <1>9
  <2>. QED BY <1>8, <1>10, <1>11, <1>12, <1>13, <2>1
<1>. QED BY <1>14 DEF Unpaid

LEMMA BookingsAre ==
    /\ IsFiniteSet(Booked) /\ IsFiniteSet(Bookings) /\ FirstDay \in Nat /\ LastDay \in Nat
    /\ Months \in Nat /\ 1 <= Months
    /\ \A e \in Bookings :
         /\ e.amount \in Int /\ e.day \in Int
         /\ e.type \in {"income", "expense"} => e.account \in Booked
         /\ e.type = "transfer" => /\ e.from \in Booked /\ e.to \in Booked
                                   /\ e.fromAmount \in Int /\ e.toAmount \in Int
                                   /\ e.fromAmount = 0 <=> e.toAmount = 0
<1>1. /\ Reporting!IsFiniteSet(Booked) /\ Reporting!IsFiniteSet(Bookings)
      /\ Bookings \subseteq Reporting!Entry /\ FirstDay \in Nat /\ LastDay \in Nat
      /\ Months \in Nat \ {0}
      /\ \A e \in Bookings : e.type = "transfer" => (e.fromAmount = 0 <=> e.toAmount = 0)
  BY BackofficeAssumption DEF BackofficeAssumption, Reporting!ReportsAssumption, Reporting!Null
<1>2. \A S : Reporting!IsFiniteSet(S) <=> IsFiniteSet(S)
  BY DEF Reporting!IsFiniteSet, IsFiniteSet
<1>3. \A e \in Reporting!Entry :
         /\ e.amount \in Int /\ e.day \in Int
         /\ e.type \in {"income", "expense"} => e.account \in Booked
         /\ e.type = "transfer" => /\ e.from \in Booked /\ e.to \in Booked
                                   /\ e.fromAmount \in Int /\ e.toAmount \in Int
  BY DEF Reporting!Entry
<1>. QED BY <1>1, <1>2, <1>3

\* What the entries of some kind bring to each account adds up to all they bring.
Brings(p, S, k, w) ==
    /\ S \in SUBSET Bookings
    /\ \A e \in S : k[e] \in Booked /\ w[e] \in Int
    /\ \A a \in Booked : p[a] = Sum(w, Keyed(S, k, {a}))

LEMMA AllAccounts ==
    ASSUME NEW S, NEW k, NEW w, NEW p, Brings(p, S, k, w)
    PROVE  /\ Sum(p, Booked) = Sum(w, S) /\ Sum(w, S) \in Int
           /\ \A a \in Booked : p[a] \in Int
<1>1. IsFiniteSet(S) /\ IsFiniteSet(Booked) /\ \A e \in S : w[e] \in Int
  BY BookingsAre, FS_Subset DEF Brings
<1>2. \A T \in SUBSET S : Sum(w, T) \in Int
  <2>. SUFFICES ASSUME NEW T \in SUBSET S PROVE Sum(w, T) \in Int
    OBVIOUS
  <2>1. IsFiniteSet(T) /\ (\A e \in T : w[e] \in Int)
    BY <1>1, FS_Subset
  <2>. QED BY <2>1, SumInt
<1>3. \A I : Keyed(S, k, I) \in SUBSET S
  BY DEF Keyed
<1>4. \A a \in Booked : p[a] = Sum(w, Keyed(S, k, {a}))
  BY <1>2, <1>3 DEF Brings
<1>8. \A a \in Booked : p[a] \in Int
  BY <1>2, <1>3, <1>4
<1>5. Sum(p, Booked) = Sum(w, Keyed(S, k, Booked))
  <2>1. Parted(p, Booked, w, S, k)
    BY <1>1, <1>4 DEF Parted
  <2>. QED BY <1>1, <2>1, SumByKey
<1>6. Keyed(S, k, Booked) = S
  BY DEF Keyed, Brings
<1>7. S \in SUBSET S
  OBVIOUS
<1>. QED BY <1>2, <1>8, <1>5, <1>6, <1>7

\* BalancesAddUp: however many accounts and entries there are, all balances
\* together are what was earned less what was spent, and what transfers with
\* amounts of their own gained: what any other takes from one account it brings to
\* another (ListAccountBalancesForUserTx).
LEMMA BalancesTogether == Reporting!TypeOK => Reporting!BalancesAddUp
<1>. DEFINE posted == {e \in booked : e.status = "posted"}
            earned == Reporting!Flow("income", posted)
            paid == Reporting!Flow("expense", posted)
            moved == Reporting!Flow("transfer", posted)
            exchanged == {e \in moved : e.toAmount # Reporting!Null}
            plain == moved \ exchanged
            account == [e \in Bookings |-> e.account]
            from == [e \in Bookings |-> e.from]
            to == [e \in Bookings |-> e.to]
            amount == [e \in Bookings |-> e.amount]
            arrives == [e \in Bookings |-> Reporting!Arrives(e)]
            leaves == [e \in Bookings |-> Reporting!Leaves(e)]
            i == [a \in Booked |-> Sum(amount, Keyed(earned, account, {a}))]
            x == [a \in Booked |-> Sum(amount, Keyed(paid, account, {a}))]
            in == [a \in Booked |-> Sum(arrives, Keyed(moved, to, {a}))]
            out == [a \in Booked |-> Sum(leaves, Keyed(moved, from, {a}))]
            b == [a \in Booked |-> i[a] - x[a] + in[a] - out[a]]
<1>. SUFFICES ASSUME Reporting!TypeOK
              PROVE  Reporting!TotalBalance = Reporting!Amount(earned) - Reporting!Amount(paid)
                       + Reporting!Received(exchanged) - Reporting!Sent(exchanged)
  BY DEF Reporting!BalancesAddUp
<1>0. /\ \A e \in earned : e \in Bookings /\ e.type = "income"
      /\ \A e \in paid : e \in Bookings /\ e.type = "expense"
      /\ \A e \in moved : e \in Bookings /\ e.type = "transfer"
  BY DEF Reporting!TypeOK, Reporting!Flow
<1>1. /\ earned \in SUBSET Bookings /\ paid \in SUBSET Bookings /\ moved \in SUBSET Bookings
      /\ \A e \in earned : account[e] \in Booked
      /\ \A e \in paid : account[e] \in Booked
      /\ \A e \in moved : to[e] \in Booked /\ from[e] \in Booked
  <2>. HIDE DEF earned, paid, moved
  <2>. QED BY <1>0, BookingsAre
<1>2. /\ \A e \in earned \cup paid : amount[e] = e.amount /\ amount[e] \in Int
      /\ \A e \in moved : /\ arrives[e] = Reporting!Arrives(e) /\ arrives[e] \in Int
                          /\ leaves[e] = Reporting!Leaves(e) /\ leaves[e] \in Int
      /\ \A e \in plain : arrives[e] = leaves[e]
  <2>1. \A e \in earned \cup paid : amount[e] = e.amount /\ amount[e] \in Int
    <3>. HIDE DEF earned, paid
    <3>. QED BY <1>1, BookingsAre
  <2>2. ASSUME NEW e \in moved
        PROVE  /\ arrives[e] = Reporting!Arrives(e) /\ arrives[e] \in Int
               /\ leaves[e] = Reporting!Leaves(e) /\ leaves[e] \in Int
               /\ e \in plain => arrives[e] = leaves[e]
    <3>1. /\ e \in Bookings /\ e.type = "transfer"
          /\ e \in plain => e.toAmount = 0
      BY <1>0, <2>2 DEF Reporting!Null
    <3>2. /\ e.amount \in Int /\ e.fromAmount \in Int /\ e.toAmount \in Int
          /\ e.fromAmount = 0 <=> e.toAmount = 0
      BY <3>1, BookingsAre
    <3>3. arrives[e] = Reporting!Arrives(e) /\ leaves[e] = Reporting!Leaves(e)
      BY <3>1
    <3>. HIDE DEF arrives, leaves, plain
    <3>. QED BY <3>1, <3>2, <3>3 DEF Reporting!Arrives, Reporting!Leaves, Reporting!Null
  <2>3. plain \subseteq moved
    OBVIOUS
  <2>. HIDE DEF earned, paid, moved, plain, amount, arrives, leaves
  <2>. QED BY <2>1, <2>2, <2>3
<1>3. /\ exchanged \subseteq moved /\ plain \subseteq moved /\ moved = exchanged \cup plain
      /\ exchanged \cap plain = {}
  <2>. HIDE DEF moved
  <2>. QED OBVIOUS
<1>4. Brings(i, earned, account, amount) /\ Brings(x, paid, account, amount)
      /\ Brings(in, moved, to, arrives) /\ Brings(out, moved, from, leaves)
  <2>. HIDE DEF earned, paid, moved, account, from, to, amount, arrives, leaves, plain
  <2>. QED BY <1>1, <1>2 DEF Brings
<1>5. \A a \in Booked : /\ Keyed(earned, account, {a}) = {e \in earned : e.account = a}
                         /\ Keyed(paid, account, {a}) = {e \in paid : e.account = a}
                         /\ Keyed(moved, to, {a}) = {e \in moved : e.to = a}
                         /\ Keyed(moved, from, {a}) = {e \in moved : e.from = a}
  <2>. HIDE DEF earned, paid, moved
  <2>. QED BY <1>1 DEF Keyed
<1>6. /\ \A T \in SUBSET earned : Reporting!Amount(T) = Sum(amount, T)
      /\ \A T \in SUBSET paid : Reporting!Amount(T) = Sum(amount, T)
      /\ \A T \in SUBSET moved : Reporting!Received(T) = Sum(arrives, T)
                                /\ Reporting!Sent(T) = Sum(leaves, T)
  <2>. HIDE DEF earned, paid, moved, plain, amount, arrives, leaves
  <2>1. \A T : T \in SUBSET earned \/ T \in SUBSET paid \/ T \in SUBSET moved => IsFiniteSet(T)
    BY <1>1, BookingsAre, FS_Subset
  <2>2. \A T \in SUBSET earned : Reporting!Amount(T) = Sum(amount, T)
    BY <1>2, <2>1, AmountIsSum
  <2>3. \A T \in SUBSET paid : Reporting!Amount(T) = Sum(amount, T)
    BY <1>2, <2>1, AmountIsSum
  <2>4. \A T \in SUBSET moved : Reporting!Received(T) = Sum(arrives, T)
    BY <1>2, <2>1, ReceivedIsSum
  <2>5. \A T \in SUBSET moved : Reporting!Sent(T) = Sum(leaves, T)
    BY <1>2, <2>1, SentIsSum
  <2>. QED BY <2>2, <2>3, <2>4, <2>5
<1>7. \A a \in Booked : Reporting!Balances[a] = b[a] /\ b[a] = i[a] - x[a] + in[a] - out[a]
  <2>. SUFFICES ASSUME NEW a \in Booked
                PROVE  Reporting!Balances[a] = b[a] /\ b[a] = i[a] - x[a] + in[a] - out[a]
    OBVIOUS
  <2>1. Reporting!Balances[a]
          = Reporting!Amount({e \in earned : e.account = a})
            - Reporting!Amount({e \in paid : e.account = a})
            + Reporting!Received({e \in moved : e.to = a})
            - Reporting!Sent({e \in moved : e.from = a})
    BY DEF Reporting!Balances, Reporting!Balance
  <2>2. /\ i[a] = Sum(amount, Keyed(earned, account, {a}))
        /\ x[a] = Sum(amount, Keyed(paid, account, {a}))
        /\ in[a] = Sum(arrives, Keyed(moved, to, {a}))
        /\ out[a] = Sum(leaves, Keyed(moved, from, {a}))
        /\ b[a] = i[a] - x[a] + in[a] - out[a]
    <3>. HIDE DEF earned, paid, moved, account, from, to, amount, arrives, leaves
    <3>. QED OBVIOUS
  <2>3. /\ {e \in earned : e.account = a} \in SUBSET earned
        /\ {e \in paid : e.account = a} \in SUBSET paid
        /\ {e \in moved : e.to = a} \in SUBSET moved /\ {e \in moved : e.from = a} \in SUBSET moved
    <3>. HIDE DEF earned, paid, moved
    <3>. QED OBVIOUS
  <2>. HIDE DEF earned, paid, moved, plain, account, from, to, amount, arrives, leaves, i, x, in, out, b
  <2>4. /\ Reporting!Amount({e \in earned : e.account = a}) = i[a]
        /\ Reporting!Amount({e \in paid : e.account = a}) = x[a]
    BY <1>5, <1>6, <2>2, <2>3
  <2>5. /\ Reporting!Received({e \in moved : e.to = a}) = in[a]
        /\ Reporting!Sent({e \in moved : e.from = a}) = out[a]
    BY <1>5, <1>6, <2>2, <2>3
  <2>. QED BY <2>1, <2>2, <2>4, <2>5
<1>. HIDE DEF earned, paid, moved, exchanged, plain, account, from, to, amount, arrives, leaves,
              i, x, in, out, b
<1>8. /\ Sum(i, Booked) = Sum(amount, earned) /\ Sum(amount, earned) \in Int
      /\ Sum(x, Booked) = Sum(amount, paid) /\ Sum(amount, paid) \in Int
      /\ Sum(in, Booked) = Sum(arrives, moved) /\ Sum(out, Booked) = Sum(leaves, moved)
      /\ \A a \in Booked : i[a] \in Int /\ x[a] \in Int /\ in[a] \in Int /\ out[a] \in Int
  BY <1>4, AllAccounts
<1>9. IsFiniteSet(Booked) /\ IsFiniteSet(exchanged) /\ IsFiniteSet(plain)
  BY <1>1, <1>3, BookingsAre, FS_Subset
<1>10. Sum(b, Booked) = Sum(i, Booked) - Sum(x, Booked) + Sum(in, Booked) - Sum(out, Booked)
  <2>1. FourTerms(b, i, x, in, out, Booked)
    BY <1>7, <1>8 DEF FourTerms
  <2>. QED BY <1>9, <2>1, SumOfFour
<1>11. Reporting!TotalBalance = Sum(b, Booked)
  BY <1>7, <1>9, TotalBalanceIsSum
<1>12. /\ Sum(arrives, moved) = Sum(arrives, exchanged) + Sum(arrives, plain)
       /\ Sum(leaves, moved) = Sum(leaves, exchanged) + Sum(leaves, plain)
  BY <1>2, <1>3, <1>9, SumOfUnion
<1>13. Sum(arrives, plain) = Sum(leaves, plain)
  BY <1>2, <1>9, SumAlike
<1>14. /\ Sum(arrives, plain) \in Int /\ Sum(arrives, exchanged) \in Int
       /\ Sum(leaves, exchanged) \in Int
  BY <1>2, <1>3, <1>9, SumInt
<1>15. /\ Reporting!Amount(earned) = Sum(amount, earned) /\ Reporting!Amount(paid) = Sum(amount, paid)
       /\ Reporting!Received(exchanged) = Sum(arrives, exchanged)
       /\ Reporting!Sent(exchanged) = Sum(leaves, exchanged)
  BY <1>3, <1>6
<1>. QED BY <1>8, <1>10, <1>11, <1>12, <1>13, <1>14, <1>15

\* Later days are in the same month or in later ones.
LEMMA MonthsFollow ==
    ASSUME NEW n \in Int, NEW later \in Int, n <= later
    PROVE  Month(n) <= Month(later)
<1>. DEFINE i == Month(n)
            j == Month(later)
<1>1. /\ i \in Int /\ OnDay(i, Civil(n).day) = n /\ 1 <= Civil(n).day /\ Civil(n).day \in Int
      /\ j \in Int /\ later < OnDay(j + 1, 1)
  BY RoundTrip
<1>. DEFINE d == Civil(n).day
<1>. HIDE DEF i, j, d
<1>2. OnDay(i, 1) \in Int /\ OnDay(i, 1) <= n
  <2>1. OnDay(i, 1 + (d - 1)) = OnDay(i, 1) + (d - 1)
    <3>1. 1 \in Int /\ d - 1 \in Int
      BY <1>1 DEF d
    <3>. QED BY <1>1, <3>1, DayShift
  <2>2. 1 + (d - 1) = d /\ d \in Int /\ 1 <= d /\ OnDay(i, d) = n
    BY <1>1 DEF d
  <2>3. OnDay(i, 1) \in Int
    <3>1. i < i + 1 /\ i + 1 \in Int /\ 1 \in Int
      BY <1>1
    <3>. QED BY <1>1, <3>1, MonthsGrow
  <2>. QED BY <2>1, <2>2, <2>3
<1>3. CASE j < i
  <2>1. j + 1 = i \/ j + 1 < i
    BY <1>1, <1>3
  <2>2. j + 1 \in Int /\ 1 \in Int
    BY <1>1
  <2>3. OnDay(j + 1, 1) <= OnDay(i, 1) /\ OnDay(j + 1, 1) \in Int
    <3>1. CASE j + 1 = i
      BY <1>2, <3>1
    <3>2. CASE j + 1 < i
      BY <1>1, <1>2, <2>2, <3>2, MonthsGrow
    <3>. QED BY <2>1, <3>1, <3>2
  <2>. QED BY <1>1, <1>2, <2>3
<1>4. CASE i <= j
  BY <1>4 DEF i, j
<1>. QED BY <1>1, <1>3, <1>4

\* A day of a month falls into it or into a later one.
LEMMA MonthReached ==
    ASSUME NEW m \in Int, NEW d \in Int, 1 <= d
    PROVE  OnDay(m, d) \in Int /\ m <= Month(OnDay(m, d))
<1>. DEFINE n == OnDay(m, d)
            j == Month(n)
<1>1. OnDay(m, 1) \in Int
  <2>1. m < m + 1 /\ m + 1 \in Int /\ 1 \in Int
    OBVIOUS
  <2>. QED BY <2>1, MonthsGrow
<1>2. n \in Int /\ OnDay(m, 1) <= n
  <2>1. d - 1 \in Int /\ 1 + (d - 1) = d /\ 1 \in Int
    OBVIOUS
  <2>2. OnDay(m, 1 + (d - 1)) = OnDay(m, 1) + (d - 1)
    BY <2>1, DayShift
  <2>. QED BY <1>1, <2>1, <2>2
<1>. HIDE DEF n
<1>3. j \in Int /\ n < OnDay(j + 1, 1)
  BY <1>2, RoundTrip
<1>. HIDE DEF j
<1>4. CASE j < m
  <2>1. j + 1 \in Int /\ 1 \in Int /\ (j + 1 = m \/ j + 1 < m)
    BY <1>3, <1>4
  <2>2. OnDay(j + 1, 1) <= OnDay(m, 1) /\ OnDay(j + 1, 1) \in Int
    <3>1. CASE j + 1 = m
      BY <1>1, <3>1
    <3>2. CASE j + 1 < m
      BY <2>1, <3>2, MonthsGrow
    <3>. QED BY <2>1, <3>1, <3>2
  <2>. QED BY <1>1, <1>2, <1>3, <2>2
<1>5. CASE m <= j
  BY <1>2, <1>5 DEF n, j
<1>. QED BY <1>3, <1>4, <1>5

\* The first month of the cash flow is not after the current one, and no more
\* months before it than there should be.
LEMMA FirstMonthIs ==
    ASSUME NEW n \in Int
    PROVE  /\ Reporting!FirstMonth(n) \in Int /\ Month(n) \in Int
           /\ Reporting!FirstMonth(n) <= Month(n)
           /\ Month(n) + 1 - Months <= Reporting!FirstMonth(n)
<1>. DEFINE m == Month(n)
            d == Civil(n).day
            first == m + (1 - Months)
            on == OnDay(first, d)
<1>1. m \in Int /\ d \in Int /\ 1 <= d /\ OnDay(m, d) = n /\ d + 0 = d
  BY RoundTrip
<1>2. Months \in Int /\ 1 <= Months
  BY BookingsAre
<1>3. Reporting!FirstMonth(n) = Month(on)
  <2>1. /\ \A i : Reporting!Civil(i) = Civil(i)
        /\ \A i : Reporting!Month(i) = Month(i)
        /\ \A i, j : Reporting!OnDay(i, j) = OnDay(i, j)
    <3>1. \A i : Reporting!Civil(i) = Civil(i)
      BY DEF Reporting!Civil, Civil
    <3>2. \A i : Reporting!Month(i) = Month(i)
      BY <3>1 DEF Reporting!Month, Month
    <3>3. \A i, j : Reporting!OnDay(i, j) = OnDay(i, j)
      BY DEF Reporting!OnDay, OnDay, Reporting!Day, Day
    <3>. QED BY <3>1, <3>2, <3>3
  <2>2. Reporting!AddDate(n, 1 - Months, 0) = OnDay(Month(n) + (1 - Months), Civil(n).day + 0)
    BY <2>1 DEF Reporting!AddDate
  <2>. QED BY <1>1, <2>1, <2>2 DEF Reporting!FirstMonth
<1>. HIDE DEF m, d
<1>4. first \in Int /\ first <= m /\ first = m + 1 - Months
  BY <1>1, <1>2
<1>. HIDE DEF first
<1>5. on \in Int /\ first <= Month(on)
  BY <1>1, <1>4, MonthReached
<1>6. on <= n
  <2>1. CASE first = m
    BY <1>1, <1>5, <2>1
  <2>2. CASE first < m
    BY <1>1, <1>4, <2>2, MonthsGrow
  <2>. QED BY <1>1, <1>4, <2>1, <2>2
<1>. HIDE DEF on
<1>7. Month(on) <= Month(n) /\ Month(on) \in Int
  BY <1>5, <1>6, MonthsFollow, RoundTrip
<1>. QED BY <1>1, <1>3, <1>4, <1>5, <1>7 DEF m

\* What is earned in each of a number of months adds up to what is earned in all.
LEMMA AllMonths ==
    ASSUME Reporting!TypeOK, NEW i \in Int, NEW j \in Int
    PROVE  Reporting!TotalIncome(i..j)
             = Reporting!Amount({e \in Reporting!Flow("income", booked) :
                                   Reporting!Month(e.day) >= i /\ Reporting!Month(e.day) <= j})
<1>. DEFINE S == Reporting!Flow("income", booked)
            k == [e \in S |-> Reporting!Month(e.day)]
            w == [e \in S |-> e.amount]
            rows == i..j
            p == [m \in rows |-> Reporting!Row("income", m)]
<1>1. S \in SUBSET Bookings
  BY DEF Reporting!TypeOK, Reporting!Flow
<1>2. \A e \in S : k[e] = Reporting!Month(e.day) /\ k[e] \in Int /\ w[e] = e.amount /\ w[e] \in Int
  <2>. SUFFICES ASSUME NEW e \in S PROVE Reporting!Month(e.day) \in Int /\ e.amount \in Int
    OBVIOUS
  <2>1. e.day \in Int /\ e.amount \in Int
    BY <1>1, BookingsAre
  <2>2. Reporting!Month(e.day) = Month(e.day)
    BY DEF Reporting!Month, Month, Reporting!Civil, Civil
  <2>. QED BY <2>1, <2>2, RoundTrip
<1>3. \A m \in rows : Reporting!Row("income", m) = Reporting!Amount(Keyed(S, k, {m}))
  <2>. SUFFICES ASSUME NEW m \in rows
                PROVE  Reporting!Row("income", m) = Reporting!Amount(Keyed(S, k, {m}))
    OBVIOUS
  <2>1. {e \in S : Reporting!Month(e.day) = m} = Keyed(S, k, {m})
    <3>. HIDE DEF S, k
    <3>. QED BY <1>2 DEF Keyed
  <2>. QED BY <2>1 DEF Reporting!Row
<1>4. {e \in S : Reporting!Month(e.day) >= i /\ Reporting!Month(e.day) <= j} = Keyed(S, k, rows)
  <2>. HIDE DEF S, k
  <2>. QED BY <1>2 DEF Keyed
<1>5. \A m \in rows : p[m] = Reporting!Row("income", m)
  OBVIOUS
<1>6. IsFiniteSet(rows) /\ IsFiniteSet(S)
  BY <1>1, BookingsAre, FS_Subset, FS_Interval
<1>. HIDE DEF S, k, w, rows, p
<1>7. \A I : /\ Reporting!Amount(Keyed(S, k, I)) = Sum(w, Keyed(S, k, I))
  <2>. SUFFICES ASSUME NEW I
                PROVE  Reporting!Amount(Keyed(S, k, I)) = Sum(w, Keyed(S, k, I))
    OBVIOUS
  <2>1. Keyed(S, k, I) \in SUBSET S
    BY DEF Keyed
  <2>2. IsFiniteSet(Keyed(S, k, I)) /\ \A e \in Keyed(S, k, I) : w[e] = e.amount
    BY <1>2, <1>6, <2>1, FS_Subset
  <2>. QED BY <2>2, AmountIsSum
<1>8. \A m \in rows : p[m] = Sum(w, Keyed(S, k, {m}))
  BY <1>3, <1>5, <1>7
<1>9. \A e \in S : w[e] \in Int
  BY <1>2
<1>10. Sum(p, rows) = Sum(w, Keyed(S, k, rows))
  <2>1. Parted(p, rows, w, S, k)
    BY <1>8, <1>9 DEF Parted
  <2>. QED BY <1>6, <2>1, SumByKey
<1>11. Reporting!TotalIncome(rows) = Sum(p, rows)
  BY <1>5, <1>6, TotalIncomeIsSum
<1>12. Reporting!TotalIncome(rows) = Reporting!Amount(Keyed(S, k, rows))
  BY <1>7, <1>10, <1>11
<1>. QED BY <1>4, <1>12 DEF rows, S

\* CashflowIsRecent: on any day, with any entries and any number of months asked
\* for, the cash flow ends with the current month, begins no earlier than it
\* should, and counts every month's income once (GetCashflowTx).
LEMMA CashflowRecent == Reporting!TypeOK => Reporting!CashflowIsRecent
<1>. SUFFICES ASSUME Reporting!TypeOK, NEW dbNow \in {today, today + 1}
              PROVE  LET rows == Reporting!Rows(today, dbNow)
                     IN  /\ Reporting!Month(today) \in rows
                         /\ Reporting!Cardinality(Reporting!Rows(today, today)) <= Months
                         /\ Reporting!TotalIncome(rows)
                              = Reporting!Amount({e \in Reporting!Flow("income", booked) :
                                  /\ Reporting!Month(e.day) >= Reporting!FirstMonth(today)
                                  /\ Reporting!Month(e.day) <= Reporting!Month(dbNow)})
  BY DEF Reporting!CashflowIsRecent
<1>. DEFINE first == Reporting!FirstMonth(today)
<1>1. today \in Int /\ dbNow \in Int /\ today <= dbNow
  BY BookingsAre DEF Reporting!TypeOK
<1>2. \A n : Reporting!Month(n) = Month(n)
  BY DEF Reporting!Month, Month, Reporting!Civil, Civil
<1>3. /\ first \in Int /\ Month(today) \in Int /\ first <= Month(today)
      /\ Month(today) + 1 - Months <= first
  BY <1>1, FirstMonthIs
<1>4. Month(dbNow) \in Int /\ Month(today) <= Month(dbNow)
  BY <1>1, RoundTrip, MonthsFollow
<1>5. \A n : Reporting!Rows(today, n) = first..Month(n)
  BY <1>2 DEF Reporting!Rows
<1>. HIDE DEF first
<1>6. Reporting!Month(today) \in first..Month(dbNow)
  BY <1>2, <1>3, <1>4
<1>7. Reporting!Cardinality(first..Month(today)) <= Months
  <2>1. Reporting!Cardinality(first..Month(today)) = Cardinality(first..Month(today))
    BY DEF Reporting!Cardinality, Cardinality
  <2>2. Cardinality(first..Month(today)) = Month(today) - first + 1
    BY <1>3, FS_Interval
  <2>3. Months \in Int
    BY BookingsAre
  <2>. QED BY <2>1, <2>2, <2>3, <1>3
<1>8. Reporting!TotalIncome(first..Month(dbNow))
        = Reporting!Amount({e \in Reporting!Flow("income", booked) :
            Reporting!Month(e.day) >= first /\ Reporting!Month(e.day) <= Month(dbNow)})
  BY <1>3, <1>4, AllMonths
<1>. QED BY <1>2, <1>5, <1>6, <1>7, <1>8 DEF first

\* ScheduleAddsUp, for groups of any size, any terms and any history.
THEOREM SchedulesAddUp == BackofficeSpec => []ScheduleAddsUp
<1>1. ScheduleInv => Scheduling!DueInOrder /\ Scheduling!RemainingIsUnpaid
  BY DueOrdered, RemainingUnpaid
<1>. QED BY <1>1, ScheduleKept, PartsRun, PTL DEF ScheduleAddsUp

\* ReportsAddUp, for any accounts, entries and days.
THEOREM DashboardsAddUp == BackofficeSpec => []ReportsAddUp
<1>1. Reporting!TypeOK => Reporting!BalancesAddUp /\ Reporting!CashflowIsRecent
  BY BalancesTogether, CashflowRecent
<1>. QED BY <1>1, ReportsTyped, PartsRun, PTL DEF ReportsAddUp
=============================================================================
