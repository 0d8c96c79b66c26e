--------------------------------- MODULE Tags ---------------------------------
(***************************************************************************)
(* The tags of users: TagService and TagRepo.  A tag has a name in one or  *)
(* both of two languages, and is stored and then read back for the answer, *)
(* in two statements that commit by themselves.  Tags are neither changed  *)
(* nor deleted.  TagService.GetOrCreateByName has no caller and is left    *)
(* out, like colours.                                                      *)
(***************************************************************************)
EXTENDS Naturals, FiniteSets

CONSTANTS
    Users,
    Names,   \* names as clients spell them, without blanks around them
    Lower,   \* their lower case
    MaxTags, \* bound: ids ever given out
    Slots,   \* requests the server executes at the same time
    None

Languages == {"vi", "en"}
TagIds == 1..MaxTags
TagsAssumption ==
    /\ MaxTags \in Nat /\ None \notin Names
    /\ Lower \in [Names -> Names] /\ \A n \in Names : Lower[Lower[n]] = Lower[n]

VARIABLES
    tag,   \* the tags table, by id: a row, or NoTag
    given, \* ids given out: 1 to given
    ask,   \* the row each slot creates, under its id
    told   \* ids answered to a client as created

tagVars == <<tag, given, ask, told>>

-----------------------------------------------------------------------------
Row == [user : Users, name : [Languages -> Names \cup {None}]]
NoTag == [user |-> None, name |-> [l \in Languages |-> None]]
Idle == [id |-> 0, row |-> NoTag, stored |-> FALSE]

\* uq_tags_user_name_vi and uq_tags_user_name_en
Alike(r1, r2) ==
    /\ r1.user = r2.user
    /\ \E l \in Languages :
         r1.name[l] # None /\ r2.name[l] # None /\ Lower[r1.name[l]] = Lower[r2.name[l]]

Init ==
    /\ tag = [i \in TagIds |-> NoTag] /\ given = 0
    /\ ask = [r \in Slots |-> Idle] /\ told = {}

\* A tag without any name is refused.
Create(r, u) ==
    /\ ask[r] = Idle
    /\ given < MaxTags /\ given' = given + 1
    /\ \E names \in [Languages -> Names \cup {None}] :
         IF \A l \in Languages : names[l] = None THEN UNCHANGED ask
         ELSE ask' = [ask EXCEPT ![r] =
                        [id |-> given', row |-> [user |-> u, name |-> names], stored |-> FALSE]]
    /\ UNCHANGED <<tag, told>>

CreateTag(r) ==
    /\ ask[r] # Idle /\ ~ask[r].stored
    /\ IF \E i \in TagIds : Alike(tag[i], ask[r].row)
       THEN ask' = [ask EXCEPT ![r] = Idle] /\ UNCHANGED tag
       ELSE /\ tag' = [tag EXCEPT ![ask[r].id] = ask[r].row]
            /\ ask' = [ask EXCEPT ![r].stored = TRUE]
    /\ UNCHANGED <<given, told>>

\* What GetTag finds for a user: the user's own tag of that id.
Found(u, i) == tag[i] # NoTag /\ tag[i].user = u

GetTag(r) ==
    /\ ask[r].stored
    /\ told' = IF Found(ask[r].row.user, ask[r].id) THEN told \cup {ask[r].id} ELSE told
    /\ ask' = [ask EXCEPT ![r] = Idle]
    /\ UNCHANGED <<tag, given>>

\* The request ends before it is answered; the client may ask again.
Interrupt(r) ==
    /\ ask[r] # Idle
    /\ ask' = [ask EXCEPT ![r] = Idle]
    /\ UNCHANGED <<tag, given, told>>

Next == \E r \in Slots :
    (\E u \in Users : Create(r, u)) \/ CreateTag(r) \/ GetTag(r) \/ Interrupt(r)

Spec == Init /\ [][Next]_tagVars

-----------------------------------------------------------------------------
TypeOK ==
    /\ tag \in [TagIds -> Row \cup {NoTag}]
    /\ given \in 0..MaxTags /\ told \subseteq 1..given
    /\ \A r \in Slots : ask[r] = Idle \/ ask[r].id \in 1..given

\* A tag that was answered is there, and however creations overlap or are asked
\* for again after an interruption no user has two tags that differ in the case
\* of letters only (TagService.Create).
TagsAreTold ==
    /\ \A i \in told : tag[i] # NoTag
    /\ \A i, j \in TagIds : i # j => ~Alike(tag[i], tag[j])
=============================================================================
