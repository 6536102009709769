------------------------------ MODULE EventFlag ------------------------------
(***************************************************************************)
(* What the ready flag of a file promises to its pollers: a one-slot       *)
(* mailbox for announcements.  A poll takes the announcement in two steps  *)
(* (it takes it, then it empties the slot) and an announcement made in     *)
(* between is swallowed; one made while another waits falls together with  *)
(* it; a write withdraws it.  Nothing else is lost and nothing is reported *)
(* twice.                                                                  *)
(***************************************************************************)
EXTENDS Naturals

VARIABLES
    pending,      \* an announcement waits for a poll
    delivering,   \* a poll has taken one and not yet emptied the slot
    announced,    \* announcements made
    delivered     \* polls that reported one

vars == <<pending, delivering, announced, delivered>>

Init == pending = FALSE /\ delivering = FALSE /\ announced = 0 /\ delivered = 0

Announce ==
    /\ announced' = announced + 1
    /\ pending' = ~delivering
    /\ UNCHANGED <<delivering, delivered>>

Deliver ==
    /\ pending
    /\ pending' = FALSE
    /\ delivering' = TRUE
    /\ delivered' = delivered + 1
    /\ UNCHANGED announced

EmptySlot ==
    /\ delivering
    /\ delivering' = FALSE
    /\ UNCHANGED <<pending, announced, delivered>>

Withdraw ==
    /\ ~delivering
    /\ pending' = FALSE
    /\ UNCHANGED <<delivering, announced, delivered>>

Next == Announce \/ Deliver \/ EmptySlot \/ Withdraw

Spec == Init /\ [][Next]_vars
=============================================================================
