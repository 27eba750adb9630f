----------------------------- MODULE Entitlement -----------------------------
(* What one account is promised, with no flag, no rows and no failures: PRO   *)
(* lasts to a point in time, a payment or a gift moves that point on by its   *)
(* own number of days, once, and only an administrator's withdrawal brings it *)
(* back.  PRO set by hand has no end until the first payment or gift gives it *)
(* one: its days then count from the moment they were bought.  Module Billing *)
(* is shown to implement this when the requests of one account do not         *)
(* overlap, and shown not to when they do.                                    *)
EXTENDS Naturals

CONSTANTS
    Id,         \* payment charge ids and the ids of admin grants
    Days,       \* Days[i]: the number of days i buys, 0 when the plan is not for sale
    MaxTime,    \* bound on the clock
    Forever,    \* the end of a PRO flag set by hand, which has none
    Nobody      \* the id of a change that is no credit

VARIABLES
    now,        \* the clock
    until,      \* when PRO ends, or ended
    credited,   \* what was paid or given, and added
    due         \* the change in hand: a payment, a gift or a withdrawal, and its moment
vars == <<now, until, credited, due>>

Change(kind, i, t) == [kind |-> kind, id |-> i, at |-> t]
Nothing == Change("none", Nobody, 0)

Init == /\ now = 0
        /\ until \in {0, Forever}
        /\ credited = {}
        /\ due = Nothing

Tick == /\ now < MaxTime
        /\ now' = now + 1
        /\ UNCHANGED <<until, credited, due>>

(* One change is taken in hand at a time, at a moment of the clock. *)
Take(kind, i) == /\ due = Nothing
                 /\ due' = Change(kind, i, now)
                 /\ UNCHANGED <<now, until, credited>>

Buy(i)      == Days[i] > 0 /\ Take("credit", i)
AskBack     == Take("withdraw", Nobody)

(* It may come to nothing. *)
Drop == /\ due # Nothing
        /\ due' = Nothing
        /\ UNCHANGED <<now, until, credited>>

(* Days are added to what was left at that moment, and to the moment itself   *)
(* when nothing was, or the end was open.                                     *)
Credit == /\ due.kind = "credit" /\ due.id \notin credited
          /\ until' = Days[due.id] + (IF until # Forever /\ until > due.at THEN until ELSE due.at)
          /\ credited' = credited \cup {due.id}
          /\ due' = Nothing
          /\ UNCHANGED now

Withdraw == /\ due.kind = "withdraw"
            /\ until' = due.at
            /\ due' = Nothing
            /\ UNCHANGED <<now, credited>>

Next == Tick \/ (\E i \in Id : Buy(i)) \/ AskBack \/ Drop \/ Credit \/ Withdraw

Spec == Init /\ [][Next]_vars
=============================================================================
