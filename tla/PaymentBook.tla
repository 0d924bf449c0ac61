----------------------------- MODULE PaymentBook -----------------------------
(***************************************************************************)
(* What the payment service promises: a book of payments kept beside the   *)
(* provider's own, in which every operation happens at one instant.  An    *)
(* entry by card stands for a charge with the same key and amount, or says *)
(* that it failed, and never says more than the provider did; what is      *)
(* entered is never struck out; and the invoice is paid only on the        *)
(* strength of an entry.  Billing is shown to implement this book however  *)
(* many payments, refunds and webhook calls are in flight, and wherever    *)
(* they are cut short.                                                     *)
(***************************************************************************)
EXTENDS Naturals

CONSTANT Key     \* the keys of payments

VARIABLES
    charge,   \* charge[k]: what the provider was asked for with key k, or NoCharge
    back,     \* back[k]: what it gave back of that
    entry,    \* entry[k]: what the book says of the payment with key k, or NoEntry
    paid      \* the invoice is paid

\* The provider's first answer to a key is its answer to every later call with it.
Charge == [amount : Nat, answer : {"succeeded", "requires_action"}, taken : BOOLEAN]
NoCharge == [amount |-> 0, answer |-> "error", taken |-> FALSE]

Entry == [status : {"failed", "succeeded", "refunded"}, amount : Nat,
          provider : {"stripe", "manual"}, known : BOOLEAN]
NoEntry == [status |-> "absent"]

\* The entry has the id of the charge.
ByCard(e) == e # NoEntry /\ e.provider = "stripe" /\ e.known

Init ==
    /\ charge = [k \in Key |-> NoCharge]
    /\ back = [k \in Key |-> 0]
    /\ entry = [k \in Key |-> NoEntry]
    /\ paid = FALSE

-----------------------------------------------------------------------------
(* The provider *)

\* A key is used once; the money is taken at once, or when the customer has acted.
Ask(k) ==
    /\ charge[k] = NoCharge
    /\ charge'[k] \in Charge
    /\ charge'[k].taken = (charge'[k].answer = "succeeded")
    /\ charge' = [charge EXCEPT ![k] = charge'[k]]
    /\ UNCHANGED <<back, entry, paid>>

Take(k) ==
    /\ charge[k].answer = "requires_action" /\ ~charge[k].taken
    /\ charge' = [charge EXCEPT ![k].taken = TRUE]
    /\ UNCHANGED <<back, entry, paid>>

\* A part; all parts together are no more than was taken.
GiveBack(k) ==
    /\ charge[k].taken
    /\ \E sum \in back[k] + 1 .. charge[k].amount : back' = [back EXCEPT ![k] = sum]
    /\ UNCHANGED <<charge, entry, paid>>

-----------------------------------------------------------------------------
(* The book *)

\* An entry that agrees with the charge of its key; without a charge it says failed.
Agrees(e, c) ==
    IF e.known THEN c # NoCharge /\ e.amount = c.amount /\ (e.status = "succeeded" => c.taken)
               ELSE e.status = "failed"

\* A payment that succeeds pays the invoice.
Enter(k) ==
    /\ entry[k] = NoEntry
    /\ entry'[k] \in Entry /\ entry'[k].status # "refunded"
    /\ entry'[k].provider = "stripe" => Agrees(entry'[k], charge[k])
    /\ entry' = [entry EXCEPT ![k] = entry'[k]]
    /\ paid' = (paid \/ entry'[k].status = "succeeded")
    /\ UNCHANGED <<charge, back>>

Confirm(k) ==
    /\ ByCard(entry[k]) /\ charge[k].taken
    /\ entry' = [entry EXCEPT ![k].status = "succeeded"]
    /\ UNCHANGED <<charge, back, paid>>

Refund(k) ==
    /\ entry[k] # NoEntry /\ entry[k].status # "failed"
    /\ entry[k].provider = "stripe" => back[k] > 0
    /\ entry' = [entry EXCEPT ![k].status = "refunded"]
    /\ UNCHANGED <<charge, back, paid>>

\* The invoice follows a confirmed payment.
Pay(k) ==
    /\ ByCard(entry[k]) /\ charge[k].taken
    /\ paid' = TRUE
    /\ UNCHANGED <<charge, back, entry>>

\* A later charge, or a check-out, makes an invoice one that is to be paid.
Reopen ==
    /\ paid' = FALSE
    /\ UNCHANGED <<charge, back, entry>>

Next ==
    \/ Reopen
    \/ \E k \in Key : Ask(k) \/ Take(k) \/ GiveBack(k)
    \/ \E k \in Key : Enter(k) \/ Confirm(k) \/ Refund(k) \/ Pay(k)

book == <<charge, back, entry, paid>>

Spec == Init /\ [][Next]_book

=============================================================================
