------------------------------- MODULE Billing -------------------------------
(***************************************************************************)
(* One invoice, and everything that moves money against it: payments at    *)
(* the desk and in the guest portal, the provider's webhook, charges,      *)
(* discounts, refunds and the finalising at check-out.  Every handler      *)
(* reads the invoice, awaits, and writes what it computed from that read   *)
(* by id alone; a payment asks the provider in between, outside any        *)
(* transaction.  The idempotency key of a desk payment is its attempt      *)
(* number, one more than the payments recorded when it was counted.        *)
(*                                                                         *)
(* Prices are integers before VAT, and cents are not rounded.              *)
(***************************************************************************)
EXTENDS Naturals, FiniteSets

CONSTANTS
    Cashiers,      \* slots for requests that pay or check out
    Billers,       \* slots for requests that charge, discount or refund
    Hooks,         \* slots for calls of the provider's webhook
    Amounts,       \* amounts a request may name
    RoomCharge,    \* what the stay costs before VAT
    Vat,           \* VAT as a multiple of the price
    MaxAttempt,    \* bound: highest attempt number
    MaxLines,      \* bound: charges and discounts entered, each
    MaxStops       \* bound: payments that end between charge and record

ASSUME PriceAssumption == /\ Amounts \subseteq Nat \ {0}
                          /\ RoomCharge \in Nat \ {0}
                          /\ Vat \in Nat
ASSUME BoundsAssumption == MaxAttempt \in Nat /\ MaxLines \in Nat /\ MaxStops \in Nat

VARIABLES
    inv,       \* the invoice: status, subtotal, total
    lines,     \* its line items: count and sum of the charges and of the discounts
    desk,      \* desk[n]: the payment recorded under attempt n, or NoPayment
    portal,    \* attempts recorded by the portal: all failed, under keys of their own
    intents,   \* intents[n]: what Stripe did with key n, or NoIntent
    back,      \* back[n]: money Stripe gave back on payment n
    refunds,   \* refunds[n]: sum of the refunds recorded as succeeded
    out,       \* the guest has checked out
    stops,     \* history: payments that ended between the charge and its record
    overtaken, \* history: a figure was written over a subtotal changed since it was read
    req        \* req[w] is what slot w remembers across its awaits

tables == <<inv, lines, desk, portal, refunds, out>>
provider == <<intents, back>>
history == <<stops, overtaken>>
vars == <<tables, provider, history, req>>

Slots == Cashiers \cup Billers \cup Hooks
Attempt == 1 .. MaxAttempt

-----------------------------------------------------------------------------
(* Types *)

InvoiceStatus == {"draft", "finalized", "paid"}
InvoiceRow == [status : InvoiceStatus, subtotal : Nat, total : Nat]

Lines == [charged : Nat, charges : Nat, discounted : Nat, discounts : Nat]

\* known: providerPaymentId is the intent's id, not that of a failed call.
PaymentRow == [status : {"succeeded", "failed", "refunded"}, amount : Nat,
               provider : {"stripe", "manual"}, known : BOOLEAN]
NoPayment == [status |-> "absent"]

Answer == {"succeeded", "requires_action", "error"}

\* answer is what the first call with the key was told; taken, whether money moved.
Intent == [amount : Nat, answer : Answer, taken : BOOLEAN]
NoIntent == [amount |-> 0, answer |-> "error", taken |-> FALSE]

Idle == [pc |-> "idle"]

Request ==
    {Idle}
    \cup [pc : {"count"}, amount : Nat, provider : {"stripe", "manual"}]
    \cup [pc : {"charge"}, n : Attempt, amount : Nat, provider : {"stripe", "manual"}]
    \cup [pc : {"record"}, n : Attempt, amount : Nat, provider : {"stripe", "manual"},
          answer : Answer]
    \cup [pc : {"portal_count"}]
    \cup [pc : {"portal_record"}, n : Attempt]
    \cup [pc : {"finalize"}, seen : InvoiceStatus]
    \cup [pc : {"add_charge", "discount"}, seen : InvoiceRow, amount : Nat]
    \cup [pc : {"give_back"}, n : Attempt, amount : Nat]
    \cup [pc : {"record_refund"}, n : Attempt, amount : Nat, answer : {"succeeded", "failed"}]
    \cup [pc : {"confirm_invoice"}, n : Attempt]

TypeOK ==
    /\ inv \in InvoiceRow
    /\ lines \in Lines
    /\ desk \in [Attempt -> PaymentRow \cup {NoPayment}]
    /\ portal \subseteq Attempt
    /\ intents \in [Attempt -> Intent]
    /\ back \in [Attempt -> Nat]
    /\ refunds \in [Attempt -> Nat]
    /\ out \in BOOLEAN
    /\ stops \in 0 .. MaxStops
    /\ overtaken \in BOOLEAN
    /\ req \in [Slots -> Request]

Gross(net) == net * (1 + Vat)

\* ReservationsService.create writes the draft invoice with the room charge.
Init ==
    /\ inv = [status |-> "draft", subtotal |-> RoomCharge, total |-> Gross(RoomCharge)]
    /\ lines = [charged |-> 0, charges |-> RoomCharge, discounted |-> 0, discounts |-> 0]
    /\ desk = [n \in Attempt |-> NoPayment]
    /\ portal = {}
    /\ intents = [n \in Attempt |-> NoIntent]
    /\ back = [n \in Attempt |-> 0]
    /\ refunds = [n \in Attempt |-> 0]
    /\ out = FALSE
    /\ stops = 0
    /\ overtaken = FALSE
    /\ req = [w \in Slots |-> Idle]

-----------------------------------------------------------------------------
(* Helpers *)

Await(w, memory) == req[w] = Idle /\ req' = [req EXCEPT ![w] = memory]

GoOn(w, memory) == req' = [req EXCEPT ![w] = memory]

Finish(w) == GoOn(w, Idle)

Recorded == {n \in Attempt : desk[n] # NoPayment}

\* Mutant: attempts that failed do not count.
AttemptAfterSuccess == Cardinality({n \in Recorded : desk[n].status # "failed"}) + 1

\* The attempt number the next payment gets: all payments count, whoever made them.
NextAttempt == Cardinality(Recorded) + Cardinality(portal) + 1

\* The row that stands for the intent of key n: found by providerPaymentId.
HasIntentRow(n) == desk[n] # NoPayment /\ desk[n].provider = "stripe" /\ desk[n].known

-----------------------------------------------------------------------------
(* Payments at the desk *)

\* initiatePayment; initiatePrePayment asks in addition that the amount is within the
\* total, and then does the same.  No amount means the invoice's total.
ReadInvoice(w, amount, by) ==
    /\ inv.status # "paid"
    /\ Await(w, [pc |-> "count", amount |-> amount, provider |-> by])
    /\ UNCHANGED <<tables, provider, history>>

CountAttempts(w) ==
    /\ req[w].pc = "count"
    /\ NextAttempt <= MaxAttempt
    /\ GoOn(w, [pc |-> "charge", n |-> NextAttempt, amount |-> req[w].amount,
                provider |-> req[w].provider])
    /\ UNCHANGED <<tables, provider, history>>

ThenRecord(w, answer) ==
    GoOn(w, [pc |-> "record", n |-> req[w].n, amount |-> req[w].amount,
             provider |-> req[w].provider, answer |-> answer])

\* The manual provider takes the clerk's word, and refuses a token kept for tests.
ChargeManual(w) ==
    /\ req[w].pc = "charge"
    /\ req[w].provider = "manual"
    /\ \E answer \in {"succeeded", "error"} : ThenRecord(w, answer)
    /\ UNCHANGED <<tables, provider, history>>

\* A new key: the card is charged, or the customer has to act, or it is declined.
ChargeStripe(w) ==
    /\ req[w].pc = "charge"
    /\ req[w].provider = "stripe"
    /\ intents[req[w].n] = NoIntent
    /\ \E answer \in Answer :
        /\ ThenRecord(w, answer)
        /\ intents' = IF answer = "error" THEN intents
                      ELSE [intents EXCEPT ![req[w].n] =
                              [amount |-> req[w].amount, answer |-> answer,
                               taken |-> answer = "succeeded"]]
    /\ UNCHANGED <<tables, back, history>>

\* A key Stripe knows: the first answer again, or an error if the amount is another.
ReplayStripe(w) ==
    /\ req[w].pc = "charge"
    /\ req[w].provider = "stripe"
    /\ LET intent == intents[req[w].n]
       IN /\ intent # NoIntent
          /\ ThenRecord(w, IF intent.amount = req[w].amount THEN intent.answer ELSE "error")
    /\ UNCHANGED <<tables, provider, history>>

\* The card is charged and the answer lost: the provider object reports an error.
LoseAnswer(w) ==
    /\ req[w].pc = "charge"
    /\ req[w].provider = "stripe"
    /\ intents[req[w].n] = NoIntent
    /\ stops < MaxStops
    /\ stops' = stops + 1
    /\ ThenRecord(w, "error")
    /\ intents' = [intents EXCEPT ![req[w].n] =
                      [amount |-> req[w].amount, answer |-> "succeeded", taken |-> TRUE]]
    /\ UNCHANGED <<tables, back, overtaken>>

\* Mutant: a payment that waits for the customer is taken for one that succeeded.
PaymentTooSoon(memory) ==
    [status   |-> IF memory.answer = "error" THEN "failed" ELSE "succeeded",
     amount   |-> memory.amount,
     provider |-> memory.provider,
     known    |-> memory.provider = "stripe" /\ memory.answer # "error"]

PaymentOf(memory) ==
    [status   |-> IF memory.answer = "succeeded" THEN "succeeded" ELSE "failed",
     amount   |-> memory.amount,
     provider |-> memory.provider,
     known    |-> memory.provider = "stripe" /\ memory.answer # "error"]

\* Mutant: the invoice is marked paid whatever the provider answered.
RecordPaymentPaid(w) ==
    /\ req[w].pc = "record"
    /\ LET n == req[w].n
       IN IF desk[n] # NoPayment
          THEN UNCHANGED tables
          ELSE /\ desk' = [desk EXCEPT ![n] = PaymentOf(req[w])]
               /\ inv' = [inv EXCEPT !.status = "paid"]
               /\ UNCHANGED <<lines, portal, refunds, out>>
    /\ Finish(w)
    /\ UNCHANGED <<provider, history>>

\* One transaction; the unique key rejects a second payment with the same attempt.
RecordPayment(w) ==
    /\ req[w].pc = "record"
    /\ LET n == req[w].n
       IN IF desk[n] # NoPayment
          THEN UNCHANGED tables
          ELSE /\ desk' = [desk EXCEPT ![n] = PaymentOf(req[w])]
               /\ inv' = IF req[w].answer = "succeeded" THEN [inv EXCEPT !.status = "paid"]
                         ELSE inv
               /\ UNCHANGED <<lines, portal, refunds, out>>
    /\ Finish(w)
    /\ UNCHANGED <<provider, history>>

-----------------------------------------------------------------------------
(* The provider's webhook, and payments in the guest portal *)

\* External: the customer completes the authentication, and the card is charged.
Settle(n) ==
    /\ intents[n].answer = "requires_action"
    /\ ~intents[n].taken
    /\ intents' = [intents EXCEPT ![n].taken = TRUE]
    /\ UNCHANGED <<tables, back, history, req>>

\* payment_intent.succeeded, delivered at any time after, and any number of times.
WebhookPayment(w, n) ==
    /\ intents[n].taken
    /\ Await(w, [pc |-> "confirm_invoice", n |-> n])
    /\ desk' = IF HasIntentRow(n) THEN [desk EXCEPT ![n].status = "succeeded"] ELSE desk
    /\ UNCHANGED <<inv, lines, portal, refunds, out, provider, history>>

\* The second updateMany: it does not look at what the payment's status is.
ConfirmInvoice(w) ==
    /\ req[w].pc = "confirm_invoice"
    /\ inv' = IF HasIntentRow(req[w].n) /\ inv.status = "finalized"
              THEN [inv EXCEPT !.status = "paid"] ELSE inv
    /\ Finish(w)
    /\ UNCHANGED <<lines, desk, portal, refunds, out, provider, history>>

ReadForPortal(w) ==
    /\ inv.status # "paid"
    /\ Await(w, [pc |-> "portal_count"])
    /\ UNCHANGED <<tables, provider, history>>

CountForPortal(w) ==
    /\ req[w].pc = "portal_count"
    /\ NextAttempt <= MaxAttempt
    /\ GoOn(w, [pc |-> "portal_record", n |-> NextAttempt])
    /\ UNCHANGED <<tables, provider, history>>

\* No provider is called: the attempt is recorded as failed, under the portal's own key.
RecordPortal(w) ==
    /\ req[w].pc = "portal_record"
    /\ portal' = portal \cup {req[w].n}
    /\ Finish(w)
    /\ UNCHANGED <<inv, lines, desk, refunds, out, provider, history>>

-----------------------------------------------------------------------------
(* Charges and discounts *)

ReadForCharge(w, amount) ==
    /\ lines.charged < MaxLines
    /\ Await(w, [pc |-> "add_charge", seen |-> inv, amount |-> amount])
    /\ UNCHANGED <<tables, provider, history>>

Overtakes(w) == overtaken' = (overtaken \/ req[w].seen.subtotal # inv.subtotal)

\* A paid invoice is reopened; the total forgets earlier discounts.
WriteCharge(w) ==
    /\ req[w].pc = "add_charge"
    /\ LET seen == req[w].seen
           subtotal == seen.subtotal + req[w].amount
       IN /\ inv' = [status   |-> IF seen.status = "paid" THEN "finalized" ELSE inv.status,
                     subtotal |-> subtotal,
                     total    |-> Gross(subtotal)]
          /\ lines' = [lines EXCEPT !.charged = lines.charged + 1,
                                    !.charges = lines.charges + req[w].amount]
    /\ Overtakes(w)
    /\ Finish(w)
    /\ UNCHANGED <<desk, portal, refunds, out, provider, stops>>

ReadForDiscount(w, amount) ==
    /\ inv.status # "paid"
    /\ amount <= inv.total
    /\ lines.discounted < MaxLines
    /\ Await(w, [pc |-> "discount", seen |-> inv, amount |-> amount])
    /\ UNCHANGED <<tables, provider, history>>

\* Mutant: the discount's line item is not entered.
WriteDiscountUnlisted(w) ==
    /\ req[w].pc = "discount"
    /\ inv' = [inv EXCEPT !.total = req[w].seen.total - req[w].amount]
    /\ Overtakes(w)
    /\ Finish(w)
    /\ UNCHANGED <<lines, desk, portal, refunds, out, provider, stops>>

WriteDiscount(w) ==
    /\ req[w].pc = "discount"
    /\ inv' = [inv EXCEPT !.total = req[w].seen.total - req[w].amount]
    /\ lines' = [lines EXCEPT !.discounted = lines.discounted + 1,
                              !.discounts = lines.discounts + req[w].amount]
    /\ Overtakes(w)
    /\ Finish(w)
    /\ UNCHANGED <<desk, portal, refunds, out, provider, stops>>

-----------------------------------------------------------------------------
(* Check-out *)

\* Inside the transaction that has taken the reservation: no second one gets here.
BeginCheckOut(w) ==
    /\ ~out
    /\ \A v \in Slots : req[v].pc # "finalize"
    /\ Await(w, [pc |-> "finalize", seen |-> inv.status])
    /\ UNCHANGED <<tables, provider, history>>

CommitCheckOut(w) ==
    /\ req[w].pc = "finalize"
    /\ out' = TRUE
    /\ inv' = IF req[w].seen = "paid" THEN inv ELSE [inv EXCEPT !.status = "finalized"]
    /\ Finish(w)
    /\ UNCHANGED <<lines, desk, portal, refunds, provider, history>>

-----------------------------------------------------------------------------
(* Refunds *)

\* Mutant: a refund is not compared with the payment.
ReadForRefundOfAny(w, n, amount) ==
    /\ desk[n].status = "succeeded"
    /\ Await(w, [pc |-> "give_back", n |-> n, amount |-> amount])
    /\ UNCHANGED <<tables, provider, history>>

\* Each refund is compared with the payment, not with what was refunded before.
ReadForRefund(w, n, amount) ==
    /\ desk[n].status = "succeeded"
    /\ amount <= desk[n].amount
    /\ Await(w, [pc |-> "give_back", n |-> n, amount |-> amount])
    /\ UNCHANGED <<tables, provider, history>>

ThenRecordRefund(w, answer) ==
    GoOn(w, [pc |-> "record_refund", n |-> req[w].n, amount |-> req[w].amount,
             answer |-> answer])

\* The manual provider says yes, and moves no money itself.
GiveBackByHand(w) ==
    /\ req[w].pc = "give_back"
    /\ desk[req[w].n].provider = "manual"
    /\ ThenRecordRefund(w, "succeeded")
    /\ UNCHANGED <<tables, provider, history>>

\* Stripe gives back no more than it took; it, or the call, may fail all the same.
GiveBackOnCard(w) ==
    /\ req[w].pc = "give_back"
    /\ LET n == req[w].n
       IN /\ desk[n].provider = "stripe"
          /\ \/ /\ intents[n].taken
                /\ back[n] + req[w].amount <= intents[n].amount
                /\ back' = [back EXCEPT ![n] = back[n] + req[w].amount]
                /\ ThenRecordRefund(w, "succeeded")
             \/ ThenRecordRefund(w, "failed") /\ UNCHANGED back
    /\ UNCHANGED <<tables, intents, history>>

\* Mutant: the refund is recorded whatever the provider answered.
RecordRefundUnasked(w) ==
    /\ req[w].pc = "record_refund"
    /\ refunds' = [refunds EXCEPT ![req[w].n] = refunds[req[w].n] + req[w].amount]
    /\ desk' = [desk EXCEPT ![req[w].n].status = "refunded"]
    /\ Finish(w)
    /\ UNCHANGED <<inv, lines, portal, out, provider, history>>

RecordRefund(w) ==
    /\ req[w].pc = "record_refund"
    /\ LET n == req[w].n
       IN IF req[w].answer = "succeeded"
          THEN /\ refunds' = [refunds EXCEPT ![n] = refunds[n] + req[w].amount]
               /\ desk' = [desk EXCEPT ![n].status = "refunded"]
          ELSE UNCHANGED <<refunds, desk>>
    /\ Finish(w)
    /\ UNCHANGED <<inv, lines, portal, out, provider, history>>

-----------------------------------------------------------------------------
(* What cuts a request short *)

\* An await throws before money moves, or between the webhook's two updates.
Abandon(w) ==
    /\ req[w].pc \notin {"idle", "record", "record_refund"}
    /\ Finish(w)
    /\ UNCHANGED <<tables, provider, history>>

\* The process stops, or the database fails, after money moved and before its record.
Stop(w) ==
    /\ req[w].pc \in {"record", "record_refund"}
    /\ stops < MaxStops
    /\ stops' = stops + 1
    /\ Finish(w)
    /\ UNCHANGED <<tables, provider, overtaken>>

-----------------------------------------------------------------------------
CashierStep(w) ==
    \/ \E amount \in Amounts \cup {inv.total}, by \in {"stripe", "manual"} :
          ReadInvoice(w, amount, by)
    \/ CountAttempts(w)
    \/ ChargeManual(w) \/ ChargeStripe(w) \/ ReplayStripe(w) \/ LoseAnswer(w)
    \/ RecordPayment(w)
    \/ ReadForPortal(w) \/ CountForPortal(w) \/ RecordPortal(w)
    \/ BeginCheckOut(w) \/ CommitCheckOut(w)

BillerStep(w) ==
    \/ \E amount \in Amounts :
        \/ ReadForCharge(w, amount)
        \/ ReadForDiscount(w, amount)
        \/ \E n \in Attempt : ReadForRefund(w, n, amount)
    \/ WriteCharge(w) \/ WriteDiscount(w)
    \/ GiveBackByHand(w) \/ GiveBackOnCard(w) \/ RecordRefund(w)

Next ==
    \/ \E w \in Cashiers : CashierStep(w)
    \/ \E w \in Billers : BillerStep(w)
    \/ \E w \in Hooks : (\E n \in Attempt : WebhookPayment(w, n)) \/ ConfirmInvoice(w)
    \/ \E w \in Slots : Abandon(w) \/ Stop(w)
    \/ \E n \in Attempt : Settle(n)

Spec == Init /\ [][Next]_vars

-----------------------------------------------------------------------------
(* Properties that hold however many requests are in flight *)

(***************************************************************************)
(* A payment recorded as succeeded or refunded through Stripe is one whose *)
(* money was taken, with the amount recorded: a retry that finds its key   *)
(* used, a decline and a lost answer are never recorded as money.          *)
(***************************************************************************)
RecordedWasTaken ==
    \A n \in Recorded :
        desk[n].provider = "stripe" /\ desk[n].status # "failed" =>
            intents[n].taken /\ intents[n].amount = desk[n].amount

(***************************************************************************)
(* An invoice is paid only if a payment recorded on it moved money, by     *)
(* whichever of the desk's transaction and the webhook's two updates said  *)
(* so.  The payment itself may say failed: a webhook whose first update    *)
(* comes before the payment's record, and the second after it.             *)
(***************************************************************************)
PaidHasMoney ==
    inv.status = "paid" =>
        \E n \in Recorded : desk[n].status # "failed" \/ (HasIntentRow(n) /\ intents[n].taken)

(***************************************************************************)
(* The invoice agrees with its line items, its subtotal with their sum and *)
(* its total with the subtotal and VAT less at most the discounts entered, *)
(* until a charge or a discount is written over a subtotal that changed    *)
(* since the request read it.  Nothing else in flight does harm: payments, *)
(* check-outs, a reopened invoice, two discounts of the same total.        *)
(***************************************************************************)
TotalsAddUp ==
    ~overtaken =>
        /\ inv.subtotal = lines.charges
        /\ inv.total <= Gross(inv.subtotal)
        /\ Gross(inv.subtotal) <= inv.total + lines.discounts

\* The book of payments, which knows nothing of requests, lines and totals.
Book ==
    INSTANCE PaymentBook WITH
        Key <- Attempt, charge <- intents, entry <- desk, paid <- (inv.status = "paid")

(***************************************************************************)
(* Billing implements the book of payments: every step of a handler is one *)
(* step of the book or none.  A card entry has its charge, of the same     *)
(* amount, or says failed; it succeeds only when the money was taken, is   *)
(* refunded only when some was given back, and is never lost; whatever     *)
(* requests, retries and webhooks are in flight, and wherever they stop.   *)
(***************************************************************************)
ImplementsPaymentBook == Book!Spec

-----------------------------------------------------------------------------
(* Properties that need one cashier or one biller *)

(***************************************************************************)
(* Refunds recorded on a payment are together no more than the payment,    *)
(* and on a card no more than was given back, though each is compared with *)
(* the payment alone, may be cut short after the money moved, and a        *)
(* redelivered webhook makes a refunded payment refundable again.  It      *)
(* needs one biller.                                                       *)
(***************************************************************************)
RefundsWithinPayment ==
    \A n \in Recorded :
        /\ refunds[n] <= desk[n].amount
        /\ desk[n].provider = "stripe" => refunds[n] <= back[n] /\ back[n] <= desk[n].amount

TakenUnrecorded ==
    {n \in Attempt : /\ intents[n].taken
                     /\ ~HasIntentRow(n)
                     /\ \A w \in Cashiers : req[w].pc = "record" => req[w].n # n}

(***************************************************************************)
(* Money is taken without a payment that stands for it only where a        *)
(* request was cut short: every such charge has its stop or lost answer.   *)
(* It needs one cashier, for two share an attempt number.                  *)
(***************************************************************************)
UnrecordedOnlyByStop == Cardinality(TakenUnrecorded) <= stops

=============================================================================
