---------------------------- MODULE BillingSlots ----------------------------
(***************************************************************************)
(* withBillingSlot: the billings of a process that run at once.  A billing *)
(* that finds the limit reached waits; one that ends wakes the first that  *)
(* waits, which goes on later, when its promise is served, and does not    *)
(* look at the limit again.                                                *)
(***************************************************************************)
EXTENDS Integers, Sequences, FiniteSets

CONSTANTS Bills,  \* billings of the process, each done again and again
          Slots   \* BILL_CONCURRENCY

ASSUME SlotsAssumption == Slots \in Nat \ {0} /\ IsFiniteSet(Bills)

VARIABLES billingInFlight,
          billingWaiters,
          slot    \* each billing: "out", "waits", "woken", "runs"

slotVars == <<billingInFlight, billingWaiters, slot>>

SlotsInit ==
    /\ billingInFlight = 0 /\ billingWaiters = <<>>
    /\ slot = [b \in Bills |-> "out"]

Run(b) ==
    /\ billingInFlight' = billingInFlight + 1
    /\ slot' = [slot EXCEPT ![b] = "runs"]
    /\ UNCHANGED billingWaiters

Enter(b) ==
    /\ slot[b] = "out"
    /\ \/ billingInFlight < Slots /\ Run(b)
       \/ /\ billingInFlight >= Slots
          /\ billingWaiters' = Append(billingWaiters, b)
          /\ slot' = [slot EXCEPT ![b] = "waits"]
          /\ UNCHANGED billingInFlight

GoOn(b) == slot[b] = "woken" /\ Run(b)

\* Mutant: only a billing that leaves the limit reached wakes another.
LeaveWakingAtLimit(b) ==
    /\ slot[b] = "runs"
    /\ billingInFlight' = billingInFlight - 1
    /\ LET wakes == billingWaiters # <<>> /\ billingInFlight > Slots
       IN  /\ billingWaiters' = IF wakes THEN Tail(billingWaiters) ELSE billingWaiters
           /\ slot' = [c \in Bills |-> IF c = b THEN "out"
                                       ELSE IF wakes /\ c = Head(billingWaiters) THEN "woken"
                                       ELSE slot[c]]

\* The finally of withBillingSlot, however the billing ended.
Leave(b) ==
    /\ slot[b] = "runs"
    /\ billingInFlight' = billingInFlight - 1
    /\ LET wakes == billingWaiters # <<>>
       IN  /\ billingWaiters' = IF wakes THEN Tail(billingWaiters) ELSE billingWaiters
           /\ slot' = [c \in Bills |-> IF c = b THEN "out"
                                       ELSE IF wakes /\ c = Head(billingWaiters) THEN "woken"
                                       ELSE slot[c]]

SlotsNext == \E b \in Bills : Enter(b) \/ GoOn(b) \/ Leave(b)

SlotsSpec == SlotsInit /\ [][SlotsNext]_slotVars

-----------------------------------------------------------------------------
\* No wake-up is lost: while a billing waits, every slot is taken or on its way to one that was
\* woken.
SlotsInUse ==
    billingWaiters # <<>> =>
        billingInFlight + Cardinality({b \in Bills : slot[b] = "woken"}) >= Slots

\* "At most BILL_CONCURRENCY billings run at once": a billing that comes between the end of one
\* and the moment the one it woke goes on takes the slot as well.
AtMostSlots == billingInFlight <= Slots

\* The billing of a call that waits for its slot gets it.
EveryBillRuns == \A b \in Bills : slot[b] = "waits" ~> slot[b] = "runs"
=============================================================================
