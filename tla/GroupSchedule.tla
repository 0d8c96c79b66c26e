----------------------------- MODULE GroupSchedule -----------------------------
(***************************************************************************)
(* The schedule of a rotating savings group and the summary made from it:  *)
(* generateSchedule and ListGroups of RotatingSavingsService.              *)
(*                                                                         *)
(* Nothing of it is stored: it follows from the group's terms and the      *)
(* contributions and payouts recorded so far, in any order and for any     *)
(* cycle.  Amounts are whole here; what a payout will bring is left out.   *)
(***************************************************************************)
EXTENDS Calendar, FiniteSets, FiniteSetsExt

CONSTANTS
    Members,      \* member_count
    UserSlots,    \* user_slots, at least 1
    Contribution, \* contribution_amount
    Interest,     \* fixed_interest_amount
    Starts,       \* dates a group may start at
    Amounts,      \* what a member may pay or be paid
    MaxRecords    \* bound: contributions and payouts recorded at a time

ScheduleAssumption ==
    /\ Members \in Int /\ UserSlots \in Nat \ {0} /\ Contribution \in Nat
    /\ MaxRecords \in Nat /\ Interest \in Nat /\ Starts \subseteq Nat /\ Amounts \subseteq Nat

VARIABLES
    group,  \* when the group started and how often it pays, or NoGroup
    history \* its contributions, by id

scheduleVars == <<group, history>>

-----------------------------------------------------------------------------
Frequencies == {"weekly", "monthly", "custom"}
NoGroup == [start |-> 0, frequency |-> "none"]
Records == 1..MaxRecords

Count == IF Members <= 0 THEN 10 ELSE Members
Cycles == 1..Count

\* No cycle number.  It counts for no cycle, and neither does one after the last.
NoCycle == Count + 1
NoRecord == [kind |-> "none", cycle |-> NoCycle, amount |-> 0, slots |-> 0]

Due(i) == IF group.frequency = "weekly" THEN AddDate(group.start, 0, (i - 1) * 7)
          ELSE AddDate(group.start, i - 1, 0)

Payments == {k \in Records : history[k].kind \notin {"payout", "none"}}
Paid(i) == {k \in Payments : history[k].cycle = i}
Amount(records) == MapThenSumSet(LAMBDA k : history[k].amount, records)

\* Slots of the user's that were paid out before the cycle.
Collected(i) ==
    MapThenSumSet(LAMBDA k : history[k].slots,
                  {k \in Records : /\ history[k].kind = "payout"
                                   /\ history[k].cycle < i})

\* ListContributionsTx lists the contributions of a cycle by their time: the
\* last one is what was paid.
Expected(i) ==
    IF Paid(i) # {} THEN history[Max(Paid(i))].amount
    ELSE Collected(i) * (Contribution + Interest)
         + (UserSlots - Collected(i)) * Contribution

TotalExpected(cycles) == MapThenSumSet(Expected, cycles)

\* Fault: payouts count as paid.
RemainingAfterPayouts ==
    TotalExpected(Cycles) - Amount({k \in Records : history[k].kind # "none"})

\* ListGroups and GetGroupDetail
Remaining == TotalExpected(Cycles) - Amount(Payments)

Unpaid == {i \in Cycles : Paid(i) = {}}
NextDue == IF Unpaid = {} THEN {} ELSE {Due(Min(Unpaid))}

-----------------------------------------------------------------------------
Init ==
    /\ group = NoGroup
    /\ history = [k \in Records |-> NoRecord]

CreateGroup(start, frequency) ==
    /\ group = NoGroup
    /\ group' = [start |-> start, frequency |-> frequency]
    /\ UNCHANGED history

\* CreateContribution: no number of a cycle is refused, 0 neither.
Record(kind, cycle, amount, slots) ==
    /\ group # NoGroup
    /\ \E k \in Records :
         /\ history[k] = NoRecord /\ \A j \in 1..(k - 1) : history[j] # NoRecord
         /\ history' = [history EXCEPT ![k] = [kind |-> kind, cycle |-> cycle,
                                               amount |-> amount, slots |-> slots]]
    /\ UNCHANGED group

\* DeleteContribution: later ones keep their order.
Remove(k) ==
    /\ history[k] # NoRecord
    /\ history' = [j \in Records |-> IF j < k THEN history[j]
                                     ELSE IF j < MaxRecords THEN history[j + 1] ELSE NoRecord]
    /\ UNCHANGED group

Next ==
    \/ \E s \in Starts, f \in Frequencies : CreateGroup(s, f)
    \/ \E kind \in {"collected", "payout"}, i \in 0..(Count + 1),
          a \in Amounts, n \in 0..UserSlots : Record(kind, i, a, n)
    \/ \E k \in Records : Remove(k)

Spec == Init /\ [][Next]_scheduleVars

-----------------------------------------------------------------------------
TypeOK ==
    /\ group.frequency \in Frequencies \cup {"none"}
    /\ \A k \in Records : history[k].cycle \in 0..(Count + 1) /\ history[k].amount \in Nat

\* Whatever day of the month a group starts at, its cycles fall due one after
\* the other, and the next payment is the first that has not been made
\* (generateSchedule: AddDate carries days a month lacks into the next).
DueInOrder ==
    group # NoGroup =>
      /\ \A i, j \in Cycles : i < j => Due(i) < Due(j)
      /\ \A d \in NextDue : \A i \in Unpaid : d <= Due(i)

\* While every payment names a cycle of its own, what remains is what the unpaid
\* cycles ask for, whatever has been paid out and whatever was paid for the
\* others (ListGroups, GetGroupDetail).
RemainingIsUnpaid ==
    /\ \A k \in Payments : history[k].cycle \in Cycles
    /\ \A i \in Cycles : Cardinality(Paid(i)) <= 1
    => Remaining = TotalExpected(Unpaid)
=============================================================================
