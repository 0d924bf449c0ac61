---------------------------- MODULE BillingProofs ----------------------------
(***************************************************************************)
(* Theorems about Billing for any number of requests, amounts and bounds.  *)
(* The first two parts and the last, which is about the book of payments,  *)
(* hold whatever is in flight; the third is about one biller (OneBiller),  *)
(* the fourth about one cashier (OneCashier).                              *)
(***************************************************************************)
EXTENDS Billing, FiniteSetTheorems, TLAPS

USE DEF history

-----------------------------------------------------------------------------
(* What a request remembers, and what it relies on *)

\* An intent that Stripe knows has an answer other than "error", and has taken the money
\* if it said so.  A row that has the intent's id agrees with it on the amount.
RowMatches(n) ==
    /\ intents[n].answer = "error" => intents[n] = NoIntent
    /\ intents[n].answer = "succeeded" => intents[n].taken
    /\ HasIntentRow(n) => intents[n].answer # "error" /\ intents[n].amount = desk[n].amount
    /\ desk[n] # NoPayment /\ desk[n].provider = "stripe" /\ desk[n].status # "failed"
          => intents[n].taken /\ intents[n].amount = desk[n].amount

\* Who discounts has seen a total at least as high, who records a card payment has the
\* answer of its intent, who refunds has a payment that did not fail, and who confirms an
\* invoice has an intent that took the money.
MemoryMatches(w) ==
    /\ req[w].pc = "discount" => req[w].amount <= req[w].seen.total
    /\ req[w].pc = "record" /\ req[w].provider = "stripe" /\ req[w].answer # "error"
          => /\ intents[req[w].n].answer = req[w].answer
             /\ intents[req[w].n].amount = req[w].amount
    /\ req[w].pc \in {"give_back", "record_refund"}
          => desk[req[w].n] # NoPayment /\ desk[req[w].n].status # "failed"
    /\ req[w].pc = "confirm_invoice" => intents[req[w].n].taken

MoneyInv ==
    /\ TypeOK
    /\ \A n \in Attempt : RowMatches(n)
    /\ \A w \in Slots : MemoryMatches(w)
    /\ PaidHasMoney

\* No step forgets an intent, or a payment, or takes back that one succeeded.
Keeps ==
    \A n \in Attempt :
        /\ intents[n].answer # "error" =>
              /\ intents'[n].answer = intents[n].answer
              /\ intents'[n].amount = intents[n].amount
              /\ intents[n].taken => intents'[n].taken
        /\ desk[n] # NoPayment =>
              /\ desk'[n] # NoPayment
              /\ desk'[n].amount = desk[n].amount
              /\ desk'[n].provider = desk[n].provider
              /\ desk'[n].known = desk[n].known
              /\ desk[n].status # "failed" => desk'[n].status # "failed"

-----------------------------------------------------------------------------
(* Types *)

\* Which fields a request has at each of its awaits.
LEMMA RequestFields ==
    ASSUME NEW r \in Request
    PROVE  /\ r.pc = "count" => r.amount \in Nat /\ r.provider \in {"stripe", "manual"}
           /\ r.pc \in {"charge", "record"} =>
                 r.n \in Attempt /\ r.amount \in Nat /\ r.provider \in {"stripe", "manual"}
           /\ r.pc = "record" => r.answer \in Answer
           /\ r.pc = "portal_record" => r.n \in Attempt
           /\ r.pc = "finalize" => r.seen \in InvoiceStatus
           /\ r.pc \in {"add_charge", "discount"} => r.seen \in InvoiceRow /\ r.amount \in Nat
           /\ r.pc \in {"give_back", "record_refund"} => r.n \in Attempt /\ r.amount \in Nat
           /\ r.pc = "record_refund" => r.answer \in {"succeeded", "failed"}
           /\ r.pc = "confirm_invoice" => r.n \in Attempt
  BY DEF Request, Idle

LEMMA GrossNat ==
    ASSUME NEW a \in Nat, NEW b \in Nat
    PROVE  Gross(a) \in Nat /\ Gross(a + b) = Gross(a) + Gross(b)
  BY PriceAssumption DEF Gross

\* Counted payments are finitely many, so the next attempt has a number.
LEMMA Counting ==
    ASSUME TypeOK
    PROVE  /\ IsFiniteSet(Attempt)
           /\ IsFiniteSet(Recorded) /\ Cardinality(Recorded) \in Nat
           /\ IsFiniteSet(portal) /\ Cardinality(portal) \in Nat
           /\ NextAttempt \in Nat \ {0}
  <1>1. IsFiniteSet(Attempt)
    BY FS_Interval, BoundsAssumption DEF Attempt
  <1>2. Recorded \subseteq Attempt /\ portal \subseteq Attempt
    BY DEF Recorded, TypeOK
  <1>3. IsFiniteSet(Recorded) /\ IsFiniteSet(portal)
    BY <1>1, <1>2, FS_Subset
  <1>4. Cardinality(Recorded) \in Nat /\ Cardinality(portal) \in Nat
    BY <1>3, FS_CardinalityType
  <1>5. NextAttempt \in Nat \ {0}
    BY <1>4 DEF NextAttempt
  <1>6. QED
    BY <1>1, <1>3, <1>4, <1>5

\* A slot that gets a memory of the right type, and the others keep theirs.
LEMMA Turn ==
    ASSUME TypeOK, NEW w \in Slots, NEW memory \in Request, GoOn(w, memory)
    PROVE  /\ req' \in [Slots -> Request]
           /\ req'[w] = memory
           /\ \A v \in Slots \ {w} : req'[v] = req[v]
  BY DEF TypeOK, GoOn

LEMMA NoPaymentIsNone == NoPayment \notin PaymentRow
  <1>1. \A p \in PaymentRow : p.status \in {"succeeded", "failed", "refunded"}
    BY DEF PaymentRow
  <1>2. NoPayment.status = "absent"
    BY DEF NoPayment
  <1>3. QED
    BY <1>1, <1>2

-----------------------------------------------------------------------------
(* What is kept, carried over to the next state *)

LEMMA MemoryCarried ==
    ASSUME MoneyInv, Keeps, NEW v \in Slots, req'[v] = req[v]
    PROVE  MemoryMatches(v)'
  <1>1. req[v] \in Request /\ MemoryMatches(v)
    BY DEF MoneyInv, TypeOK
  <1>2. req[v].pc = "record" => req[v].n \in Attempt
    BY <1>1, RequestFields
  <1>3. req[v].pc \in {"give_back", "record_refund"} => req[v].n \in Attempt
    BY <1>1, RequestFields
  <1>4. req[v].pc = "confirm_invoice" => req[v].n \in Attempt
    BY <1>1, RequestFields
  <1>5. \A n \in Attempt : intents[n].taken => intents[n].answer # "error"
    BY DEF MoneyInv, RowMatches, NoIntent
  <1>6. QED
    BY <1>1, <1>2, <1>3, <1>4, <1>5 DEF MemoryMatches, Keeps

\* Money on a payment stays on it.
LEMMA MoneyCarried ==
    ASSUME MoneyInv, Keeps,
           inv'.status = "paid" => \/ inv.status = "paid"
                                   \/ \E n \in Attempt : desk'[n] # NoPayment
                                         /\ \/ desk'[n].status # "failed"
                                            \/ HasIntentRow(n)' /\ intents'[n].taken
    PROVE  PaidHasMoney'
  <1>1. \A n \in Attempt : intents[n].taken => intents[n].answer # "error"
    BY DEF MoneyInv, RowMatches, NoIntent
  <1>2. CASE inv.status = "paid"
    <2>1. PICK n \in Attempt : /\ desk[n] # NoPayment
                               /\ desk[n].status # "failed" \/ (HasIntentRow(n) /\ intents[n].taken)
      BY <1>2 DEF MoneyInv, PaidHasMoney, Recorded
    <2>2. desk'[n] # NoPayment
      BY <2>1 DEF Keeps
    <2>3. desk'[n].status # "failed" \/ (HasIntentRow(n)' /\ intents'[n].taken)
      BY <1>1, <2>1 DEF Keeps, HasIntentRow
    <2>4. QED
      BY <2>2, <2>3 DEF PaidHasMoney, Recorded
  <1>3. QED
    BY <1>2 DEF PaidHasMoney, Recorded

\* A step that writes no invoice, payment or intent.
LEMMA QuietCarries ==
    ASSUME MoneyInv, TypeOK', UNCHANGED <<inv, desk, intents>>,
           NEW w \in Slots, \A v \in Slots \ {w} : req'[v] = req[v],
           MemoryMatches(w)'
    PROVE  MoneyInv' /\ Keeps
  <1>1. Keeps
    BY DEF Keeps
  <1>2. \A n \in Attempt : RowMatches(n)'
    BY DEF MoneyInv, RowMatches, HasIntentRow
  <1>3. PaidHasMoney'
    BY DEF MoneyInv, PaidHasMoney, Recorded, HasIntentRow
  <1>4. \A v \in Slots : MemoryMatches(v)'
    BY <1>1, MemoryCarried
  <1>5. QED
    BY <1>1, <1>2, <1>3, <1>4 DEF MoneyInv

-----------------------------------------------------------------------------
(* The steps that write no invoice, payment or intent *)

LEMMA QuietTurn ==
    ASSUME MoneyInv, NEW w \in Slots, NEW memory \in Request, GoOn(w, memory),
           UNCHANGED <<inv, lines, desk, intents, refunds, out>>,
           portal' \subseteq Attempt, back' \in [Attempt -> Nat], stops' \in 0 .. MaxStops,
           overtaken' \in BOOLEAN,
           memory.pc \in {"discount", "record", "give_back", "record_refund", "confirm_invoice"}
              => MemoryMatches(w)'
    PROVE  MoneyInv' /\ Keeps
  <1>1. /\ req' \in [Slots -> Request] /\ req'[w] = memory
        /\ \A v \in Slots \ {w} : req'[v] = req[v]
    BY Turn DEF MoneyInv
  <1>2. TypeOK'
    BY <1>1 DEF MoneyInv, TypeOK
  <1>3. MemoryMatches(w)'
    BY <1>1 DEF MemoryMatches
  <1>4. QED
    BY <1>1, <1>2, <1>3, QuietCarries

LEMMA IdleRequest == Idle \in Request /\ Idle.pc = "idle"
  BY DEF Request, Idle

\* Requests that are read, counted or asked of a provider, and leave no mark yet.
LEMMA PaymentReads ==
    ASSUME MoneyInv, NEW w \in Slots,
           \/ \E amount \in Amounts \cup {inv.total}, by \in {"stripe", "manual"} :
                 ReadInvoice(w, amount, by)
           \/ CountAttempts(w)
           \/ ReadForPortal(w) \/ CountForPortal(w)
           \/ BeginCheckOut(w)
    PROVE  MoneyInv' /\ Keeps
  <1> USE DEF MoneyInv, TypeOK, tables, provider
  <1>1. ASSUME NEW amount \in Amounts \cup {inv.total}, NEW by \in {"stripe", "manual"},
               ReadInvoice(w, amount, by)
        PROVE  MoneyInv' /\ Keeps
    <2>1. amount \in Nat
      BY PriceAssumption DEF InvoiceRow
    <2>2. [pc |-> "count", amount |-> amount, provider |-> by] \in Request
      BY <2>1 DEF Request
    <2>3. QED
      BY <1>1, <2>2, QuietTurn DEF ReadInvoice, Await, GoOn
  <1>2. NextAttempt <= MaxAttempt => NextAttempt \in Attempt
    BY Counting, BoundsAssumption DEF Attempt
  <1>3. CASE CountAttempts(w)
    <2> DEFINE memory == [pc |-> "charge", n |-> NextAttempt, amount |-> req[w].amount,
                          provider |-> req[w].provider]
    <2>1. req[w].amount \in Nat /\ req[w].provider \in {"stripe", "manual"}
      BY <1>3, RequestFields DEF CountAttempts
    <2>2. memory \in Request
      BY <1>2, <1>3, <2>1 DEF Request, CountAttempts
    <2>3. QED
      BY <1>3, <2>2, QuietTurn DEF CountAttempts
  <1>4. CASE ReadForPortal(w)
    <2>1. [pc |-> "portal_count"] \in Request
      BY DEF Request
    <2>2. QED
      BY <1>4, <2>1, QuietTurn DEF ReadForPortal, Await, GoOn
  <1>5. CASE CountForPortal(w)
    <2>1. [pc |-> "portal_record", n |-> NextAttempt] \in Request
      BY <1>2, <1>5 DEF Request, CountForPortal
    <2>2. QED
      BY <1>5, <2>1, QuietTurn DEF CountForPortal
  <1>6. CASE BeginCheckOut(w)
    <2>1. [pc |-> "finalize", seen |-> inv.status] \in Request
      BY DEF Request, InvoiceRow
    <2>2. QED
      BY <1>6, <2>1, QuietTurn DEF BeginCheckOut, Await, GoOn
  <1>7. QED
    BY <1>1, <1>3, <1>4, <1>5, <1>6

\* The manual provider and a key that Stripe knows: no money moves, an answer is remembered.
LEMMA ProviderAnswers ==
    ASSUME MoneyInv, NEW w \in Slots, ChargeManual(w) \/ ReplayStripe(w)
    PROVE  MoneyInv' /\ Keeps
  <1> USE DEF MoneyInv, TypeOK, tables, provider, ThenRecord
  <1> DEFINE memory(answer) == [pc |-> "record", n |-> req[w].n, amount |-> req[w].amount,
                                provider |-> req[w].provider, answer |-> answer]
  <1>1. /\ req[w].n \in Attempt /\ req[w].amount \in Nat
        /\ req[w].provider \in {"stripe", "manual"}
    BY RequestFields DEF ChargeManual, ReplayStripe
  <1>2. \A answer \in Answer : memory(answer) \in Request
    BY <1>1 DEF Request
  <1>3. CASE ChargeManual(w)
    <2>1. PICK answer \in {"succeeded", "error"} : GoOn(w, memory(answer))
      BY <1>3 DEF ChargeManual
    <2>2. memory(answer) \in Request /\ memory(answer).provider = "manual"
      BY <1>2, <1>3 DEF Answer, ChargeManual
    <2>3. req'[w] = memory(answer)
      BY <2>1, <2>2, Turn
    <2>4. MemoryMatches(w)'
      BY <2>2, <2>3 DEF MemoryMatches
    <2>5. QED
      BY <1>3, <2>1, <2>2, <2>4, QuietTurn DEF ChargeManual
  <1>4. CASE ReplayStripe(w)
    <2> DEFINE intent == intents[req[w].n]
               answer == IF intent.amount = req[w].amount THEN intent.answer ELSE "error"
    <2>1. intent \in Intent /\ answer \in Answer
      BY <1>1 DEF Intent, Answer
    <2>2. GoOn(w, memory(answer)) /\ memory(answer) \in Request
      BY <1>2, <1>4, <2>1 DEF ReplayStripe
    <2>3. req'[w] = memory(answer)
      BY <2>2, Turn
    <2>4. MemoryMatches(w)'
      BY <1>4, <2>3 DEF MemoryMatches, ReplayStripe
    <2>5. QED
      BY <1>4, <2>2, <2>4, QuietTurn DEF ReplayStripe
  <1>5. QED
    BY <1>3, <1>4

\* What a biller reads, and the money it gives back before the refund is recorded.
LEMMA BillerReads ==
    ASSUME MoneyInv, NEW w \in Slots,
           \/ \E amount \in Amounts :
                \/ ReadForCharge(w, amount) \/ ReadForDiscount(w, amount)
                \/ \E n \in Attempt : ReadForRefund(w, n, amount)
           \/ GiveBackByHand(w) \/ GiveBackOnCard(w)
    PROVE  MoneyInv' /\ Keeps
  <1> USE DEF MoneyInv, TypeOK, tables, provider
  <1>1. ASSUME NEW amount \in Amounts, ReadForCharge(w, amount)
        PROVE  MoneyInv' /\ Keeps
    <2>1. [pc |-> "add_charge", seen |-> inv, amount |-> amount] \in Request
      BY PriceAssumption DEF Request
    <2>2. QED
      BY <1>1, <2>1, QuietTurn DEF ReadForCharge, Await, GoOn
  <1>2. ASSUME NEW amount \in Amounts, ReadForDiscount(w, amount)
        PROVE  MoneyInv' /\ Keeps
    <2> DEFINE memory == [pc |-> "discount", seen |-> inv, amount |-> amount]
    <2>1. memory \in Request
      BY PriceAssumption DEF Request
    <2>2. GoOn(w, memory)
      BY <1>2 DEF ReadForDiscount, Await, GoOn
    <2>3. req'[w] = memory
      BY <2>1, <2>2, Turn
    <2>4. MemoryMatches(w)'
      BY <1>2, <2>3 DEF MemoryMatches, ReadForDiscount
    <2>5. QED
      BY <1>2, <2>1, <2>2, <2>4, QuietTurn DEF ReadForDiscount
  <1>3. ASSUME NEW amount \in Amounts, NEW n \in Attempt, ReadForRefund(w, n, amount)
        PROVE  MoneyInv' /\ Keeps
    <2> DEFINE memory == [pc |-> "give_back", n |-> n, amount |-> amount]
    <2>1. memory \in Request
      BY PriceAssumption DEF Request
    <2>2. GoOn(w, memory)
      BY <1>3 DEF ReadForRefund, Await, GoOn
    <2>3. req'[w] = memory
      BY <2>1, <2>2, Turn
    <2>4. desk'[n] # NoPayment /\ desk'[n].status # "failed"
      BY <1>3 DEF ReadForRefund, NoPayment
    <2>5. MemoryMatches(w)'
      BY <2>3, <2>4 DEF MemoryMatches
    <2>6. QED
      BY <1>3, <2>1, <2>2, <2>5, QuietTurn DEF ReadForRefund
  <1>4. ASSUME req[w].pc = "give_back", NEW answer \in {"succeeded", "failed"},
               ThenRecordRefund(w, answer), back' \in [Attempt -> Nat],
               UNCHANGED <<tables, intents, history>>
        PROVE  MoneyInv' /\ Keeps
    <2> DEFINE memory == [pc |-> "record_refund", n |-> req[w].n, amount |-> req[w].amount,
                          answer |-> answer]
    <2>1. req[w].n \in Attempt /\ req[w].amount \in Nat
      BY <1>4, RequestFields
    <2>2. memory \in Request
      BY <2>1 DEF Request
    <2>3. GoOn(w, memory)
      BY <1>4 DEF ThenRecordRefund
    <2>4. req'[w] = memory
      BY <2>2, <2>3, Turn
    <2>5. MemoryMatches(w)'
      BY <1>4, <2>4 DEF MemoryMatches
    <2>6. QED
      BY <1>4, <2>2, <2>3, <2>5, QuietTurn
  <1>5. CASE GiveBackByHand(w)
    BY <1>4, <1>5 DEF GiveBackByHand
  <1>6. CASE GiveBackOnCard(w)
    <2>1. req[w].n \in Attempt /\ req[w].amount \in Nat
      BY <1>6, RequestFields DEF GiveBackOnCard
    <2>2. back' \in [Attempt -> Nat]
      BY <1>6, <2>1 DEF GiveBackOnCard
    <2>3. QED
      BY <1>4, <1>6, <2>2 DEF GiveBackOnCard
  <1>7. QED
    BY <1>1, <1>2, <1>3, <1>5, <1>6

LEMMA QuietEnds ==
    ASSUME MoneyInv, NEW w \in Slots, RecordPortal(w) \/ Abandon(w) \/ Stop(w)
    PROVE  MoneyInv' /\ Keeps
  <1> USE DEF MoneyInv, TypeOK, tables, provider
  <1>1. GoOn(w, Idle)
    BY DEF RecordPortal, Abandon, Stop, Finish
  <1>2. CASE RecordPortal(w)
    <2>1. portal' \subseteq Attempt
      BY <1>2, RequestFields DEF RecordPortal
    <2>2. QED
      BY <1>1, <1>2, <2>1, IdleRequest, QuietTurn DEF RecordPortal
  <1>3. CASE Abandon(w)
    BY <1>1, <1>3, IdleRequest, QuietTurn DEF Abandon
  <1>4. CASE Stop(w)
    <2>1. stops' \in 0 .. MaxStops
      BY <1>4, BoundsAssumption DEF Stop
    <2>2. QED
      BY <1>1, <1>4, <2>1, IdleRequest, QuietTurn DEF Stop
  <1>5. QED
    BY <1>2, <1>3, <1>4

-----------------------------------------------------------------------------
(* The steps that write the invoice, a payment or an intent *)

LEMMA MoneyTurn ==
    ASSUME MoneyInv, Keeps, NEW w \in Slots, NEW memory \in Request, GoOn(w, memory),
           inv' \in InvoiceRow, lines' \in Lines, desk' \in [Attempt -> PaymentRow \cup {NoPayment}],
           intents' \in [Attempt -> Intent], refunds' \in [Attempt -> Nat], out' \in BOOLEAN,
           stops' \in 0 .. MaxStops, overtaken' \in BOOLEAN, UNCHANGED <<portal, back>>,
           \A n \in Attempt : RowMatches(n)',
           memory.pc # "idle" => MemoryMatches(w)',
           PaidHasMoney'
    PROVE  MoneyInv' /\ Keeps
  <1>1. /\ req' \in [Slots -> Request] /\ req'[w] = memory
        /\ \A v \in Slots \ {w} : req'[v] = req[v]
    BY Turn DEF MoneyInv
  <1>2. TypeOK'
    BY <1>1 DEF MoneyInv, TypeOK
  <1>3. MemoryMatches(w)'
    BY <1>1 DEF MemoryMatches
  <1>4. \A v \in Slots : MemoryMatches(v)'
    BY <1>1, <1>3, MemoryCarried
  <1>5. QED
    BY <1>2, <1>4 DEF MoneyInv

\* A first call with a key: what is remembered is what the intent says, or an error.
LEMMA CardCharged ==
    ASSUME MoneyInv, NEW w \in Slots, ChargeStripe(w) \/ LoseAnswer(w)
    PROVE  MoneyInv' /\ Keeps
  <1> USE DEF MoneyInv, TypeOK, tables, provider, ThenRecord
  <1> DEFINE n == req[w].n
             memory(answer) == [pc |-> "record", n |-> n, amount |-> req[w].amount,
                                provider |-> req[w].provider, answer |-> answer]
             intent(answer) == [amount |-> req[w].amount, answer |-> answer,
                                taken |-> answer = "succeeded"]
  <1>1. /\ n \in Attempt /\ req[w].amount \in Nat /\ req[w].provider = "stripe"
        /\ intents[n] = NoIntent
    BY RequestFields DEF ChargeStripe, LoseAnswer
  <1>2. PICK answer, said \in Answer :
           /\ answer \in {said, "error"}
           /\ GoOn(w, memory(answer))
           /\ intents' = IF said = "error" THEN intents
                         ELSE [intents EXCEPT ![n] = intent(said)]
           /\ stops' \in 0 .. MaxStops
           /\ UNCHANGED <<tables, back, overtaken>>
    <2>1. CASE ChargeStripe(w)
      <3>1. PICK answer \in Answer :
               /\ GoOn(w, memory(answer))
               /\ intents' = IF answer = "error" THEN intents
                             ELSE [intents EXCEPT ![n] = intent(answer)]
        BY <2>1 DEF ChargeStripe
      <3>2. QED
        BY <2>1, <3>1 DEF ChargeStripe
    <2>2. CASE LoseAnswer(w)
      <3>1. /\ GoOn(w, memory("error"))
            /\ intents' = [intents EXCEPT ![n] = intent("succeeded")]
            /\ UNCHANGED <<tables, back, overtaken>>
        BY <2>2 DEF LoseAnswer
      <3>2. stops' \in 0 .. MaxStops
        BY <2>2, BoundsAssumption DEF LoseAnswer
      <3>3. QED
        BY <3>1, <3>2 DEF Answer
    <2>3. QED
      BY <2>1, <2>2
  <1>3. memory(answer) \in Request
    BY <1>1 DEF Request
  <1>4. req'[w] = memory(answer)
    BY <1>2, <1>3, Turn
  <1>5. intents' \in [Attempt -> Intent]
    BY <1>1, <1>2 DEF Intent
  <1>6. /\ \A m \in Attempt \ {n} : intents'[m] = intents[m]
        /\ said # "error" => intents'[n] = intent(said)
        /\ said = "error" => intents'[n] = NoIntent
    BY <1>1, <1>2
  <1>7. intents[n].answer = "error" /\ ~intents[n].taken
    BY <1>1 DEF NoIntent
  <1>8. Keeps
    BY <1>2, <1>6, <1>7 DEF Keeps
  <1>9. ASSUME NEW m \in Attempt  PROVE RowMatches(m)'
    <2>1. CASE m = n
      <3>1. /\ ~HasIntentRow(n)
            /\ ~(desk[n] # NoPayment /\ desk[n].provider = "stripe" /\ desk[n].status # "failed")
        BY <1>1, <1>7 DEF RowMatches
      <3>2. QED
        BY <1>2, <1>6, <2>1, <3>1 DEF RowMatches, HasIntentRow, NoIntent
    <2>2. CASE m # n
      BY <1>2, <1>6, <2>2 DEF RowMatches, HasIntentRow
    <2>3. QED
      BY <2>1, <2>2
  <1>10. MemoryMatches(w)'
    BY <1>2, <1>4, <1>6 DEF MemoryMatches
  <1>11. PaidHasMoney'
    BY <1>2, <1>8, MoneyCarried
  <1>12. QED
    BY <1>2, <1>3, <1>5, <1>8, <1>9, <1>10, <1>11, MoneyTurn

\* The payment that is recorded has the answer of its intent.
LEMMA PaymentRecorded ==
    ASSUME MoneyInv, NEW w \in Slots, RecordPayment(w)
    PROVE  MoneyInv' /\ Keeps
  <1> USE DEF MoneyInv, TypeOK, tables, provider
  <1> DEFINE n == req[w].n
             row == PaymentOf(req[w])
  <1>1. /\ n \in Attempt /\ req[w].amount \in Nat /\ req[w].answer \in Answer
        /\ req[w].provider \in {"stripe", "manual"} /\ req[w].pc = "record"
    BY RequestFields DEF RecordPayment
  <1>2. GoOn(w, Idle) /\ UNCHANGED <<provider, history>>
    BY DEF RecordPayment, Finish
  <1>3. CASE desk[n] # NoPayment
    BY <1>2, <1>3, IdleRequest, QuietTurn DEF RecordPayment
  <1>4. CASE desk[n] = NoPayment
    <2>1. /\ desk' = [desk EXCEPT ![n] = row]
          /\ inv' = IF req[w].answer = "succeeded" THEN [inv EXCEPT !.status = "paid"] ELSE inv
          /\ UNCHANGED <<lines, portal, refunds, out>>
      BY <1>4 DEF RecordPayment
    <2>2. row \in PaymentRow
      BY <1>1 DEF PaymentOf, PaymentRow
    <2>3. inv' \in InvoiceRow
      BY <2>1 DEF InvoiceRow, InvoiceStatus
    <2>4. desk' \in [Attempt -> PaymentRow \cup {NoPayment}] /\ desk'[n] = row
      BY <1>1, <2>1, <2>2
    <2>5. row # NoPayment
      BY <2>2, NoPaymentIsNone
    <2>6. Keeps
      BY <1>2, <1>4, <2>1 DEF Keeps
    <2>7. ASSUME NEW m \in Attempt  PROVE RowMatches(m)'
      <3>1. CASE m = n
        <4>1. /\ row.known <=> req[w].provider = "stripe" /\ req[w].answer # "error"
              /\ row.status # "failed" <=> req[w].answer = "succeeded"
              /\ row.provider = req[w].provider /\ row.amount = req[w].amount
          BY DEF PaymentOf
        <4>2. req[w].provider = "stripe" /\ req[w].answer # "error"
                 => /\ intents[n].answer = req[w].answer
                    /\ intents[n].amount = req[w].amount
          BY <1>1 DEF MemoryMatches
        <4>3. RowMatches(n)
          BY <1>1
        <4>4. QED
          BY <1>2, <2>4, <3>1, <4>1, <4>2, <4>3 DEF RowMatches, HasIntentRow, NoIntent
      <3>2. CASE m # n
        BY <1>2, <2>1, <3>2 DEF RowMatches, HasIntentRow
      <3>3. QED
        BY <3>1, <3>2
    <2>8. req[w].answer = "succeeded" => desk'[n] # NoPayment /\ desk'[n].status # "failed"
      BY <2>4, <2>5 DEF PaymentOf
    <2>9. PaidHasMoney'
      BY <1>1, <2>1, <2>6, <2>8, MoneyCarried
    <2>10. QED
      BY <1>2, <2>1, <2>3, <2>4, <2>6, <2>7, <2>9, IdleRequest, MoneyTurn
  <1>5. QED
    BY <1>3, <1>4

\* The customer settles: money is taken on an intent whose rows already agree with it.
LEMMA CustomerSettles ==
    ASSUME MoneyInv, NEW n \in Attempt, Settle(n)
    PROVE  MoneyInv' /\ Keeps
  <1> USE DEF MoneyInv, TypeOK, tables
  <1>1. intents' \in [Attempt -> Intent]
    BY DEF Settle, Intent
  <1>2. /\ intents'[n] = [intents[n] EXCEPT !.taken = TRUE]
        /\ \A m \in Attempt \ {n} : intents'[m] = intents[m]
    BY DEF Settle
  <1>3. intents[n] \in Intent
    OBVIOUS
  <1>4. /\ intents'[n].amount = intents[n].amount /\ intents'[n].answer = intents[n].answer
        /\ intents'[n].taken
    BY <1>2, <1>3 DEF Intent
  <1>5. UNCHANGED <<inv, lines, desk, portal, refunds, out, back, history, req>>
    BY DEF Settle
  <1>6. Keeps
    BY <1>2, <1>4, <1>5 DEF Keeps
  <1>7. \A w \in Slots : MemoryMatches(w)'
    BY <1>5, <1>6, MemoryCarried
  <1>8. \A m \in Attempt : RowMatches(m)'
    BY <1>2, <1>4, <1>5 DEF RowMatches, HasIntentRow, Settle
  <1>9. PaidHasMoney'
    BY <1>5, <1>6, MoneyCarried
  <1>10. TypeOK'
    BY <1>1, <1>5
  <1>11. QED
    BY <1>6, <1>7, <1>8, <1>9, <1>10

\* The webhook marks a payment whose intent has taken the money, and remembers which.
LEMMA HookMarks ==
    ASSUME MoneyInv, NEW w \in Slots, NEW n \in Attempt, WebhookPayment(w, n)
    PROVE  MoneyInv' /\ Keeps
  <1> USE DEF MoneyInv, TypeOK, provider
  <1> DEFINE memory == [pc |-> "confirm_invoice", n |-> n]
  <1>1. memory \in Request
    BY DEF Request
  <1>2. /\ GoOn(w, memory)
        /\ UNCHANGED <<inv, lines, portal, refunds, out, provider, history>>
    BY DEF WebhookPayment, Await, GoOn
  <1>3. req'[w] = memory
    BY <1>1, <1>2, Turn
  <1>4. MemoryMatches(w)'
    BY <1>2, <1>3 DEF MemoryMatches, WebhookPayment
  <1>5. CASE ~HasIntentRow(n)
    <2>1. desk' = desk
      BY <1>5 DEF WebhookPayment
    <2>2. QED
      BY <1>1, <1>2, <1>4, <2>1, QuietTurn
  <1>6. CASE HasIntentRow(n)
    <2>1. desk[n] \in PaymentRow
      BY <1>6 DEF HasIntentRow
    <2>2. desk' = [desk EXCEPT ![n].status = "succeeded"]
      BY <1>6 DEF WebhookPayment
    <2>3. /\ desk'[n] = [desk[n] EXCEPT !.status = "succeeded"]
          /\ \A m \in Attempt \ {n} : desk'[m] = desk[m]
      BY <2>2
    <2>4. desk'[n] \in PaymentRow
      BY <2>1, <2>3 DEF PaymentRow
    <2>5. desk' \in [Attempt -> PaymentRow \cup {NoPayment}] /\ desk'[n] # NoPayment
      BY <2>2, <2>3, <2>4, NoPaymentIsNone
    <2>6. /\ desk'[n].status = "succeeded" /\ desk'[n].amount = desk[n].amount
          /\ desk'[n].provider = desk[n].provider /\ desk'[n].known = desk[n].known
      BY <2>1, <2>3 DEF PaymentRow
    <2>7. Keeps
      BY <1>2, <2>3, <2>5, <2>6 DEF Keeps
    <2>8. RowMatches(n)'
      BY <1>2, <1>6, <2>6 DEF RowMatches, HasIntentRow, WebhookPayment
    <2>9. ASSUME NEW m \in Attempt \ {n}  PROVE RowMatches(m)'
      BY <1>2, <2>3 DEF RowMatches, HasIntentRow
    <2>10. PaidHasMoney'
      BY <1>2, <2>7, MoneyCarried
    <2>11. QED
      BY <1>1, <1>2, <1>4, <2>5, <2>7, <2>8, <2>9, <2>10, MoneyTurn
  <1>7. QED
    BY <1>5, <1>6

\* A refund is recorded on a payment that did not fail.
LEMMA RefundRecorded ==
    ASSUME MoneyInv, NEW w \in Slots, RecordRefund(w)
    PROVE  MoneyInv' /\ Keeps
  <1> USE DEF MoneyInv, TypeOK, provider
  <1>1. PICK n \in Attempt :
        /\ n = req[w].n /\ req[w].amount \in Nat /\ req[w].pc = "record_refund"
        /\ desk[n] # NoPayment /\ desk[n].status # "failed"
    BY RequestFields DEF RecordRefund, MemoryMatches
  <1>2. GoOn(w, Idle) /\ UNCHANGED <<inv, lines, portal, out, provider, history>>
    BY DEF RecordRefund, Finish
  <1>3. CASE req[w].answer # "succeeded"
    BY <1>2, <1>3, IdleRequest, QuietTurn DEF RecordRefund
  <1>4. CASE req[w].answer = "succeeded"
    <2>1. /\ refunds' = [refunds EXCEPT ![n] = refunds[n] + req[w].amount]
          /\ desk' = [desk EXCEPT ![n].status = "refunded"]
      BY <1>1, <1>4 DEF RecordRefund
    <2>2. refunds' \in [Attempt -> Nat]
      BY <1>1, <2>1
    <2>3. /\ desk'[n] = [desk[n] EXCEPT !.status = "refunded"]
          /\ \A m \in Attempt \ {n} : desk'[m] = desk[m]
      BY <1>1, <2>1
    <2>4. desk[n] \in PaymentRow
      BY <1>1
    <2>5. desk'[n] \in PaymentRow
      BY <2>3, <2>4 DEF PaymentRow
    <2>6. desk' \in [Attempt -> PaymentRow \cup {NoPayment}] /\ desk'[n] # NoPayment
      BY <1>1, <2>1, <2>3, <2>5, NoPaymentIsNone
    <2>7. /\ desk'[n].status = "refunded" /\ desk'[n].amount = desk[n].amount
          /\ desk'[n].provider = desk[n].provider /\ desk'[n].known = desk[n].known
      BY <2>3, <2>4 DEF PaymentRow
    <2>8. Keeps
      BY <1>2, <2>3, <2>6, <2>7 DEF Keeps
    <2>9. RowMatches(n)
      BY <1>1
    <2>10. RowMatches(n)'
      <3>1. intents'[n] = intents[n]
        BY <1>2
      <3>2. HasIntentRow(n)' <=> HasIntentRow(n)
        BY <1>1, <2>6, <2>7 DEF HasIntentRow
      <3>3. QED
        BY <1>1, <2>7, <2>9, <3>1, <3>2 DEF RowMatches
    <2>11. \A m \in Attempt : RowMatches(m)'
      <3>1. ASSUME NEW m \in Attempt \ {n}  PROVE RowMatches(m)'
        BY <1>2, <2>3 DEF RowMatches, HasIntentRow
      <3>2. QED
        BY <2>10, <3>1
    <2>12. PaidHasMoney'
      BY <1>2, <2>8, MoneyCarried
    <2>13. inv' \in InvoiceRow /\ lines' \in Lines /\ out' \in BOOLEAN /\ stops' \in 0 .. MaxStops
           /\ intents' \in [Attempt -> Intent] /\ UNCHANGED <<portal, back>>
      BY <1>2
    <2>14. QED
      BY <1>2, <2>2, <2>6, <2>8, <2>11, <2>12, <2>13, IdleRequest, MoneyTurn
  <1>5. QED
    BY <1>3, <1>4

\* One more charge, or discount, and its amount.
LEMMA LineEntered ==
    ASSUME NEW old \in Lines, NEW amount \in Nat
    PROVE  /\ [old EXCEPT !.charged = old.charged + 1, !.charges = old.charges + amount] \in Lines
           /\ [old EXCEPT !.discounted = old.discounted + 1,
                          !.discounts = old.discounts + amount] \in Lines
  <1>1. /\ old.charged \in Nat /\ old.charges \in Nat
        /\ old.discounted \in Nat /\ old.discounts \in Nat
    BY DEF Lines
  <1>2. /\ old.charged + 1 \in Nat /\ old.charges + amount \in Nat
        /\ old.discounted + 1 \in Nat /\ old.discounts + amount \in Nat
    BY <1>1
  <1>3. \A a, b \in Nat : /\ [old EXCEPT !.charged = a, !.charges = b] \in Lines
                         /\ [old EXCEPT !.discounted = a, !.discounts = b] \in Lines
    BY DEF Lines
  <1>4. QED
    BY <1>2, <1>3

\* The invoice alone is written; it becomes paid only where the webhook's money is known.
LEMMA InvoiceWritten ==
    ASSUME MoneyInv, NEW w \in Slots,
           ConfirmInvoice(w) \/ WriteCharge(w) \/ WriteDiscount(w) \/ CommitCheckOut(w)
    PROVE  MoneyInv' /\ Keeps
  <1> USE DEF MoneyInv, TypeOK, provider
  <1>1. /\ GoOn(w, Idle)
        /\ UNCHANGED <<desk, portal, refunds, intents, back, stops>>
        /\ overtaken' \in BOOLEAN
    BY DEF ConfirmInvoice, WriteCharge, WriteDiscount, CommitCheckOut, Finish, Overtakes
  <1>2. Keeps
    BY <1>1 DEF Keeps
  <1>3. \A n \in Attempt : RowMatches(n)'
    BY <1>1 DEF RowMatches, HasIntentRow
  <1>4. /\ inv' \in InvoiceRow /\ lines' \in Lines /\ out' \in BOOLEAN
        /\ inv'.status = "paid" =>
              \/ inv.status = "paid"
              \/ \E n \in Attempt : HasIntentRow(n) /\ intents[n].taken
    <2>1. CASE ConfirmInvoice(w)
      <3>1. req[w].n \in Attempt /\ intents[req[w].n].taken
        BY <2>1, RequestFields DEF ConfirmInvoice, MemoryMatches
      <3>2. inv' = inv \/ (inv' = [inv EXCEPT !.status = "paid"] /\ HasIntentRow(req[w].n))
        BY <2>1 DEF ConfirmInvoice
      <3>3. [inv EXCEPT !.status = "paid"] \in InvoiceRow
        BY DEF InvoiceRow, InvoiceStatus
      <3>4. QED
        BY <2>1, <3>1, <3>2, <3>3 DEF ConfirmInvoice
    <2>2. CASE WriteCharge(w)
      <3> DEFINE seen == req[w].seen
                 subtotal == seen.subtotal + req[w].amount
      <3>1. seen \in InvoiceRow /\ req[w].amount \in Nat
        BY <2>2, RequestFields DEF WriteCharge
      <3>2. subtotal \in Nat
        BY <3>1 DEF InvoiceRow
      <3>3. Gross(subtotal) \in Nat
        BY <3>2, GrossNat
      <3>4. inv' = [status   |-> IF seen.status = "paid" THEN "finalized" ELSE inv.status,
                    subtotal |-> subtotal, total |-> Gross(subtotal)]
        BY <2>2 DEF WriteCharge
      <3>5. inv' \in InvoiceRow
        BY <3>2, <3>3, <3>4 DEF InvoiceRow, InvoiceStatus
      <3>6. lines' \in Lines
        <4>1. lines' = [lines EXCEPT !.charged = lines.charged + 1,
                                     !.charges = lines.charges + req[w].amount]
          BY <2>2 DEF WriteCharge
        <4>2. QED
          BY <3>1, <4>1, LineEntered
      <3>7. inv'.status = "paid" => inv.status = "paid"
        BY <3>4
      <3>8. QED
        BY <2>2, <3>5, <3>6, <3>7 DEF WriteCharge
    <2>3. CASE WriteDiscount(w)
      <3> DEFINE total == req[w].seen.total - req[w].amount
      <3>1. req[w].seen \in InvoiceRow /\ req[w].amount \in Nat
            /\ req[w].amount <= req[w].seen.total
        BY <2>3, RequestFields DEF WriteDiscount, MemoryMatches
      <3>2. total \in Nat
        BY <3>1 DEF InvoiceRow
      <3>3. inv' = [inv EXCEPT !.total = total]
        BY <2>3 DEF WriteDiscount
      <3>4. inv' \in InvoiceRow /\ inv'.status = inv.status
        BY <3>2, <3>3 DEF InvoiceRow
      <3>5. lines' \in Lines
        <4>1. lines' = [lines EXCEPT !.discounted = lines.discounted + 1,
                                     !.discounts = lines.discounts + req[w].amount]
          BY <2>3 DEF WriteDiscount
        <4>2. QED
          BY <3>1, <4>1, LineEntered
      <3>6. QED
        BY <2>3, <3>4, <3>5 DEF WriteDiscount
    <2>4. CASE CommitCheckOut(w)
      <3>1. inv' = inv \/ inv' = [inv EXCEPT !.status = "finalized"]
        BY <2>4 DEF CommitCheckOut
      <3>2. inv' \in InvoiceRow /\ (inv'.status = "paid" => inv.status = "paid")
        BY <3>1 DEF InvoiceRow, InvoiceStatus
      <3>3. QED
        BY <2>4, <3>2 DEF CommitCheckOut
    <2>5. QED
      BY <2>1, <2>2, <2>3, <2>4
  <1>5. PaidHasMoney'
    BY <1>1, <1>2, <1>4, MoneyCarried DEF HasIntentRow
  <1>6. QED
    BY <1>1, <1>2, <1>3, <1>4, <1>5, IdleRequest, MoneyTurn

-----------------------------------------------------------------------------
LEMMA MoneyInit == Init => MoneyInv
  <1> SUFFICES ASSUME Init  PROVE  MoneyInv
    OBVIOUS
  <1>1. inv \in InvoiceRow /\ lines \in Lines
    BY GrossNat, PriceAssumption DEF Init, InvoiceRow, InvoiceStatus, Lines
  <1>2. intents \in [Attempt -> Intent]
    BY DEF Init, Intent, NoIntent, Answer
  <1>3. stops \in 0 .. MaxStops
    BY BoundsAssumption DEF Init
  <1>4. TypeOK
    BY <1>1, <1>2, <1>3, IdleRequest DEF Init, TypeOK
  <1>5. \A n \in Attempt : RowMatches(n)
    BY DEF Init, RowMatches, HasIntentRow, NoIntent
  <1>6. \A w \in Slots : MemoryMatches(w)
    BY IdleRequest DEF Init, MemoryMatches
  <1>7. PaidHasMoney
    BY DEF Init, PaidHasMoney
  <1>8. QED
    BY <1>4, <1>5, <1>6, <1>7 DEF MoneyInv

LEMMA MoneyStep == MoneyInv /\ [Next]_vars => MoneyInv' /\ Keeps
  <1> SUFFICES ASSUME MoneyInv, [Next]_vars  PROVE MoneyInv' /\ Keeps
    OBVIOUS
  <1>1. ASSUME NEW w \in Cashiers, CashierStep(w)  PROVE MoneyInv' /\ Keeps
    <2>1. w \in Slots
      BY DEF Slots
    <2>2. QED
      BY <1>1, <2>1, PaymentReads, ProviderAnswers, CardCharged, PaymentRecorded, QuietEnds,
         InvoiceWritten
      DEF CashierStep
  <1>2. ASSUME NEW w \in Billers, BillerStep(w)  PROVE MoneyInv' /\ Keeps
    <2>1. w \in Slots
      BY DEF Slots
    <2>2. QED
      BY <1>2, <2>1, BillerReads, InvoiceWritten, RefundRecorded DEF BillerStep
  <1>3. ASSUME NEW w \in Hooks, (\E n \in Attempt : WebhookPayment(w, n)) \/ ConfirmInvoice(w)
        PROVE  MoneyInv' /\ Keeps
    <2>1. w \in Slots
      BY DEF Slots
    <2>2. QED
      BY <1>3, <2>1, HookMarks, InvoiceWritten
  <1>4. ASSUME NEW w \in Slots, Abandon(w) \/ Stop(w)  PROVE MoneyInv' /\ Keeps
    BY <1>4, QuietEnds
  <1>5. ASSUME NEW n \in Attempt, Settle(n)  PROVE MoneyInv' /\ Keeps
    BY <1>5, CustomerSettles
  <1>6. CASE UNCHANGED vars
    BY <1>6 DEF vars, tables, provider, MoneyInv, TypeOK, RowMatches, MemoryMatches,
                HasIntentRow, PaidHasMoney, Recorded, Keeps
  <1>7. QED
    BY <1>1, <1>2, <1>3, <1>4, <1>5, <1>6 DEF Next

LEMMA MoneyInvariant == Spec => []MoneyInv
  BY MoneyInit, MoneyStep, PTL DEF Spec

\* The invoice, its lines, the payments, the intents and every request have their types.
THEOREM BillingTypes == Spec => []TypeOK
  <1>1. MoneyInv => TypeOK
    BY DEF MoneyInv
  <1>2. QED
    BY <1>1, MoneyInvariant, PTL

\* However many payments, retries, webhooks and refunds are in flight, and wherever they
\* are cut short, a card payment recorded as money is money taken, of that amount.
THEOREM CardMoneyWasTaken == Spec => []RecordedWasTaken
  <1>1. MoneyInv => RecordedWasTaken
    BY DEF MoneyInv, RowMatches, RecordedWasTaken, Recorded
  <1>2. QED
    BY <1>1, MoneyInvariant, PTL

\* An invoice is marked paid only over a payment on it that moved money.
THEOREM PaidIsBacked == Spec => []PaidHasMoney
  <1>1. MoneyInv => PaidHasMoney
    BY DEF MoneyInv
  <1>2. QED
    BY <1>1, MoneyInvariant, PTL

-----------------------------------------------------------------------------
(* What is billed: charges and discounts *)

BillerPc == {"add_charge", "discount", "give_back", "record_refund"}

\* A step that is not the biller's.
NotBilled ==
    /\ UNCHANGED <<lines, refunds, back, overtaken>>
    /\ inv'.subtotal = inv.subtotal /\ inv'.total = inv.total
    /\ \A v \in Slots : req'[v].pc \in BillerPc => req'[v] = req[v]
    /\ \A n \in Attempt : desk[n] # NoPayment /\ desk[n].provider = "manual" => desk'[n] = desk[n]

LEMMA OtherMemory ==
    ASSUME TypeOK, NEW w \in Slots, NEW memory, GoOn(w, memory), memory.pc \notin BillerPc
    PROVE  \A v \in Slots : req'[v].pc \in BillerPc => req'[v] = req[v]
  BY DEF TypeOK, GoOn

\* The cashiers, the webhook and the customer leave what is billed and refunded alone.
LEMMA OthersDoNotBill ==
    ASSUME MoneyInv,
           \/ \E w \in Cashiers : CashierStep(w)
           \/ \E w \in Hooks : (\E n \in Attempt : WebhookPayment(w, n)) \/ ConfirmInvoice(w)
           \/ \E w \in Slots : Abandon(w) \/ Stop(w)
           \/ \E n \in Attempt : Settle(n)
           \/ UNCHANGED vars
    PROVE  NotBilled
  <1> USE DEF MoneyInv, TypeOK, tables, provider
  <1>1. \A status : /\ [inv EXCEPT !.status = status].subtotal = inv.subtotal
                    /\ [inv EXCEPT !.status = status].total = inv.total
    BY DEF InvoiceRow
  <1>2. ASSUME NEW w \in Slots, NEW memory, GoOn(w, memory), memory.pc \notin BillerPc,
               UNCHANGED <<lines, desk, refunds, back, overtaken>>,
               inv' = inv \/ \E status \in InvoiceStatus : inv' = [inv EXCEPT !.status = status]
        PROVE  NotBilled
    <2>1. inv'.subtotal = inv.subtotal /\ inv'.total = inv.total
      BY <1>1, <1>2
    <2>2. QED
      BY <1>2, <2>1, OtherMemory DEF NotBilled
  <1> USE DEF BillerPc
  <1>3. ASSUME NEW w \in Cashiers, CashierStep(w)  PROVE NotBilled
    <2>1. w \in Slots
      BY DEF Slots
    <2>2. CASE \E amount \in Amounts \cup {inv.total}, by \in {"stripe", "manual"} :
                  ReadInvoice(w, amount, by)
      BY <1>2, <2>1, <2>2 DEF ReadInvoice, Await, GoOn
    <2>3. CASE CountAttempts(w)
      BY <1>2, <2>1, <2>3 DEF CountAttempts
    <2>4. CASE ChargeManual(w) \/ ChargeStripe(w) \/ ReplayStripe(w) \/ LoseAnswer(w)
      <3>1. PICK answer : ThenRecord(w, answer)
        BY <2>4 DEF ChargeManual, ChargeStripe, ReplayStripe, LoseAnswer
      <3>2. UNCHANGED <<inv, lines, desk, refunds, back, overtaken>>
        BY <2>4 DEF ChargeManual, ChargeStripe, ReplayStripe, LoseAnswer
      <3>3. QED
        BY <1>2, <2>1, <3>1, <3>2 DEF ThenRecord
    <2>5. CASE RecordPayment(w)
      <3>1. GoOn(w, Idle) /\ UNCHANGED <<lines, refunds, back, overtaken>>
        BY <2>5 DEF RecordPayment, Finish
      <3>2. inv' = inv \/ inv' = [inv EXCEPT !.status = "paid"]
        BY <2>5 DEF RecordPayment
      <3>3. \A n \in Attempt : desk[n] # NoPayment => desk'[n] = desk[n]
        BY <2>5 DEF RecordPayment
      <3>4. \A v \in Slots : req'[v].pc \in BillerPc => req'[v] = req[v]
        BY <2>1, <3>1, IdleRequest, OtherMemory
      <3>5. QED
        BY <1>1, <3>1, <3>2, <3>3, <3>4 DEF NotBilled
    <2>6. CASE ReadForPortal(w) \/ CountForPortal(w)
      BY <1>2, <2>1, <2>6 DEF ReadForPortal, CountForPortal, Await, GoOn
    <2>7. CASE RecordPortal(w)
      BY <1>2, <2>1, <2>7, IdleRequest DEF RecordPortal, Finish
    <2>8. CASE BeginCheckOut(w)
      BY <1>2, <2>1, <2>8 DEF BeginCheckOut, Await, GoOn
    <2>9. CASE CommitCheckOut(w)
      <3>1. inv' = inv \/ inv' = [inv EXCEPT !.status = "finalized"]
        BY <2>9 DEF CommitCheckOut
      <3>2. QED
        BY <1>2, <2>1, <2>9, <3>1, IdleRequest DEF CommitCheckOut, Finish, InvoiceStatus
    <2>10. QED
      BY <1>3, <2>2, <2>3, <2>4, <2>5, <2>6, <2>7, <2>8, <2>9 DEF CashierStep
  <1>4. ASSUME NEW w \in Hooks, NEW n \in Attempt, WebhookPayment(w, n)  PROVE NotBilled
    <2>1. w \in Slots
      BY DEF Slots
    <2>2. GoOn(w, [pc |-> "confirm_invoice", n |-> n]) /\ UNCHANGED <<inv, lines, refunds, back, overtaken>>
      BY <1>4 DEF WebhookPayment, Await, GoOn
    <2>3. \A v \in Slots : req'[v].pc \in BillerPc => req'[v] = req[v]
      BY <2>1, <2>2, OtherMemory
    <2>4. \A m \in Attempt : desk[m].provider # "stripe" => desk'[m] = desk[m]
      BY <1>4 DEF WebhookPayment, HasIntentRow
    <2>5. QED
      BY <2>2, <2>3, <2>4 DEF NotBilled
  <1>5. ASSUME NEW w \in Hooks, ConfirmInvoice(w)  PROVE NotBilled
    <2>1. w \in Slots
      BY DEF Slots
    <2>2. inv' = inv \/ inv' = [inv EXCEPT !.status = "paid"]
      BY <1>5 DEF ConfirmInvoice
    <2>3. QED
      BY <1>2, <1>5, <2>1, <2>2, IdleRequest DEF ConfirmInvoice, Finish, InvoiceStatus
  <1>6. ASSUME NEW w \in Slots, Abandon(w) \/ Stop(w)  PROVE NotBilled
    BY <1>2, <1>6, IdleRequest DEF Abandon, Stop, Finish
  <1>7. ASSUME NEW n \in Attempt, Settle(n)  PROVE NotBilled
    BY <1>7 DEF Settle, NotBilled
  <1>8. CASE UNCHANGED vars
    BY <1>8 DEF vars, NotBilled
  <1>9. QED
    BY <1>3, <1>4, <1>5, <1>6, <1>7, <1>8

\* Until something was overtaken, a subtotal read was never higher than it is now; and where
\* it is what it was, the total read with it agrees with the line items as they are now.
DiscountAgrees(w) ==
    ~overtaken /\ req[w].pc = "discount" =>
        /\ req[w].seen.subtotal <= inv.subtotal
        /\ req[w].seen.subtotal = inv.subtotal =>
              /\ req[w].seen.total <= Gross(inv.subtotal)
              /\ Gross(inv.subtotal) <= req[w].seen.total + lines.discounts

TotalsInv ==
    /\ MoneyInv
    /\ TotalsAddUp
    /\ \A w \in Slots : DiscountAgrees(w)

\* Where no figure is written, only a discount that is read now is new.
LEMMA FiguresStay ==
    ASSUME TotalsInv, MoneyInv', UNCHANGED <<lines, overtaken>>,
           inv'.subtotal = inv.subtotal, inv'.total = inv.total,
           \A v \in Slots : req'[v].pc = "discount" => req'[v] = req[v] \/ req'[v].seen = inv
    PROVE  TotalsInv'
  <1>1. TotalsAddUp'
    BY DEF TotalsInv, TotalsAddUp, Gross
  <1>2. inv.subtotal \in Nat
    BY DEF TotalsInv, MoneyInv, TypeOK, InvoiceRow
  <1>3. ASSUME NEW v \in Slots  PROVE DiscountAgrees(v)'
    <2>1. CASE req'[v] = req[v]
      BY <2>1 DEF TotalsInv, DiscountAgrees, Gross
    <2>2. CASE req'[v].pc = "discount" => req'[v].seen = inv
      BY <1>2, <2>2 DEF TotalsInv, TotalsAddUp, DiscountAgrees, Gross
    <2>3. QED
      BY <2>1, <2>2
  <1>4. QED
    BY <1>1, <1>3 DEF TotalsInv

\* A charge over the subtotal it read adds its amount to the sum and to the subtotal, and
\* the total forgets discounts; a subtotal that someone else has read is lower from now on,
\* or nothing was added.
LEMMA ChargeAddsUp ==
    ASSUME TotalsInv, MoneyInv', NEW w \in Billers, WriteCharge(w)
    PROVE  TotalsInv'
  <1> USE DEF TotalsInv, MoneyInv, TypeOK
  <1> DEFINE subtotal == req[w].seen.subtotal + req[w].amount
  <1>1. /\ w \in Slots /\ req[w].amount \in Nat /\ req[w].pc = "add_charge"
        /\ req[w].seen \in InvoiceRow
    BY RequestFields DEF Slots, WriteCharge
  <1>2. SUFFICES ASSUME ~overtaken'
                 PROVE  TotalsAddUp' /\ \A v \in Slots : DiscountAgrees(v)'
    BY DEF TotalsAddUp, DiscountAgrees
  <1>3. ~overtaken /\ req[w].seen.subtotal = inv.subtotal
    BY <1>2 DEF WriteCharge, Overtakes
  <1>4. inv.subtotal \in Nat /\ inv.subtotal = lines.charges /\ lines.discounts \in Nat
    BY <1>3 DEF TotalsAddUp, InvoiceRow, Lines
  <1>5. subtotal = inv.subtotal + req[w].amount /\ subtotal \in Nat /\ Gross(subtotal) \in Nat
    <2>1. subtotal = inv.subtotal + req[w].amount /\ subtotal \in Nat
      BY <1>1, <1>3, <1>4
    <2>2. QED
      BY <2>1, GrossNat
  <1>6. inv'.subtotal = subtotal /\ inv'.total = Gross(subtotal)
    BY DEF WriteCharge
  <1>7. lines'.charges = lines.charges + req[w].amount /\ lines'.discounts = lines.discounts
    BY DEF WriteCharge, Lines
  <1>8. TotalsAddUp'
    BY <1>4, <1>5, <1>6, <1>7 DEF TotalsAddUp, Gross
  <1>9. ASSUME NEW v \in Slots  PROVE DiscountAgrees(v)'
    <2>1. v # w => req'[v] = req[v]
      BY <1>1 DEF WriteCharge, Finish, GoOn
    <2>2. req'[w].pc # "discount"
      BY <1>1 DEF WriteCharge, Finish, GoOn, Idle
    <2>3. SUFFICES ASSUME req'[v].pc = "discount"
                   PROVE  DiscountAgrees(v)'
      BY DEF DiscountAgrees
    <2>4. req'[v] = req[v] /\ req[v].pc = "discount" /\ req[v] \in Request
      BY <2>1, <2>2, <2>3
    <2>5. req[v].seen \in InvoiceRow
      BY <2>4, RequestFields
    <2>6. req[v].seen.subtotal \in Nat /\ req[v].seen.subtotal <= inv.subtotal
      BY <1>3, <2>4, <2>5 DEF DiscountAgrees, InvoiceRow
    <2>7. req[v].seen.subtotal <= inv'.subtotal
      BY <1>1, <1>4, <1>5, <1>6, <2>6
    <2>8. ASSUME req[v].seen.subtotal = inv'.subtotal
          PROVE  /\ req[v].seen.total <= Gross(inv'.subtotal)
                 /\ Gross(inv'.subtotal) <= req[v].seen.total + lines'.discounts
      <3>1. inv'.subtotal = inv.subtotal /\ req[v].seen.subtotal = inv.subtotal
        BY <1>1, <1>4, <1>5, <1>6, <2>6, <2>8
      <3>2. QED
        BY <1>3, <1>7, <2>4, <3>1 DEF DiscountAgrees
    <2>9. QED
      BY <2>4, <2>7, <2>8 DEF DiscountAgrees, Gross
  <1>10. QED
    BY <1>8, <1>9

\* A discount takes its amount off the total it read, which agreed with the line items of
\* the subtotal as it still is.
LEMMA DiscountAddsUp ==
    ASSUME TotalsInv, MoneyInv', NEW w \in Billers, WriteDiscount(w)
    PROVE  TotalsInv'
  <1> USE DEF TotalsInv, MoneyInv, TypeOK
  <1>1. /\ w \in Slots /\ req[w].amount \in Nat /\ req[w].pc = "discount"
        /\ req[w].seen \in InvoiceRow
    BY RequestFields DEF Slots, WriteDiscount
  <1>2. SUFFICES ASSUME ~overtaken'
                 PROVE  TotalsAddUp' /\ \A v \in Slots : DiscountAgrees(v)'
    BY DEF TotalsAddUp, DiscountAgrees
  <1>3. ~overtaken /\ req[w].seen.subtotal = inv.subtotal
    BY <1>2 DEF WriteDiscount, Overtakes
  <1>4. /\ req[w].seen.total \in Nat /\ req[w].amount <= req[w].seen.total
        /\ inv.subtotal \in Nat /\ Gross(inv.subtotal) \in Nat /\ lines.discounts \in Nat
    BY <1>1, GrossNat DEF MemoryMatches, InvoiceRow, Lines
  <1>5. /\ req[w].seen.total <= Gross(inv.subtotal)
        /\ Gross(inv.subtotal) <= req[w].seen.total + lines.discounts
    BY <1>1, <1>3 DEF DiscountAgrees
  <1>6. inv'.subtotal = inv.subtotal /\ inv'.total = req[w].seen.total - req[w].amount
    BY DEF WriteDiscount, InvoiceRow
  <1>7. lines'.charges = lines.charges /\ lines'.discounts = lines.discounts + req[w].amount
    BY DEF WriteDiscount, Lines
  <1>8. Gross(inv'.subtotal) = Gross(inv.subtotal)
    BY <1>6
  <1>9. /\ inv'.total <= Gross(inv.subtotal)
        /\ Gross(inv.subtotal) <= inv'.total + lines'.discounts
    BY <1>1, <1>4, <1>5, <1>6, <1>7
  <1>10. TotalsAddUp'
    BY <1>3, <1>6, <1>7, <1>8, <1>9 DEF TotalsAddUp, Gross
  <1>11. ASSUME NEW v \in Slots  PROVE DiscountAgrees(v)'
    <2>1. v # w => req'[v] = req[v]
      BY <1>1 DEF WriteDiscount, Finish, GoOn
    <2>2. req'[w].pc # "discount"
      BY <1>1 DEF WriteDiscount, Finish, GoOn, Idle
    <2>3. SUFFICES ASSUME req'[v].pc = "discount"
                   PROVE  DiscountAgrees(v)'
      BY DEF DiscountAgrees
    <2>4. req'[v] = req[v] /\ req[v].pc = "discount" /\ req[v] \in Request
      BY <2>1, <2>2, <2>3
    <2>5. req[v].seen.total \in Nat
      BY <2>4, RequestFields DEF InvoiceRow
    <2>6. /\ req[v].seen.subtotal <= inv.subtotal
          /\ req[v].seen.subtotal = inv.subtotal =>
                /\ req[v].seen.total <= Gross(inv.subtotal)
                /\ Gross(inv.subtotal) <= req[v].seen.total + lines.discounts
      BY <1>3, <2>4 DEF DiscountAgrees
    <2>7. req[v].seen.subtotal = inv.subtotal =>
             Gross(inv.subtotal) <= req[v].seen.total + lines'.discounts
      BY <1>1, <1>4, <1>7, <2>5, <2>6
    <2>8. QED
      BY <1>6, <2>4, <2>6, <2>7 DEF DiscountAgrees, Gross
  <1>12. QED
    BY <1>10, <1>11

LEMMA TotalsInvariant == Spec => []TotalsInv
  <1>1. Init => TotalsInv
    <2> SUFFICES ASSUME Init  PROVE TotalsInv
      OBVIOUS
    <2>1. MoneyInv
      BY MoneyInit
    <2>2. TotalsAddUp
      <3>1. inv.subtotal = RoomCharge /\ inv.total = Gross(RoomCharge)
            /\ lines.charges = RoomCharge /\ lines.discounts = 0
        BY DEF Init
      <3>2. Gross(RoomCharge) \in Nat
        BY PriceAssumption, GrossNat
      <3>3. QED
        BY <3>1, <3>2 DEF TotalsAddUp
    <2>3. \A w \in Slots : DiscountAgrees(w)
      BY IdleRequest DEF Init, DiscountAgrees
    <2>4. QED
      BY <2>1, <2>2, <2>3 DEF TotalsInv
  <1>2. TotalsInv /\ [Next]_vars => TotalsInv'
    <2> SUFFICES ASSUME TotalsInv, [Next]_vars  PROVE TotalsInv'
      OBVIOUS
    <2>1. MoneyInv' /\ TypeOK
      BY MoneyStep DEF TotalsInv, MoneyInv
    <2>2. ASSUME NEW w \in Billers, WriteCharge(w) \/ WriteDiscount(w)  PROVE TotalsInv'
      BY <2>1, <2>2, ChargeAddsUp, DiscountAddsUp
    <2>3. ASSUME NEW w \in Billers, NEW amount \in Amounts,
                 \/ ReadForCharge(w, amount) \/ ReadForDiscount(w, amount)
                 \/ \E n \in Attempt : ReadForRefund(w, n, amount)
          PROVE  TotalsInv'
      <3>1. UNCHANGED <<inv, lines, overtaken>>
        BY <2>3 DEF ReadForCharge, ReadForDiscount, ReadForRefund, tables
      <3>2. \A v \in Slots : req'[v].pc = "discount" => req'[v] = req[v] \/ req'[v].seen = inv
        BY <2>1, <2>3 DEF ReadForCharge, ReadForDiscount, ReadForRefund, Await, TypeOK, Slots
      <3>3. QED
        BY <2>1, <3>1, <3>2, FiguresStay
    <2>4. ASSUME NEW w \in Billers, GiveBackByHand(w) \/ GiveBackOnCard(w) \/ RecordRefund(w)
          PROVE  TotalsInv'
      <3>1. UNCHANGED <<inv, lines, overtaken>>
        BY <2>4 DEF GiveBackByHand, GiveBackOnCard, RecordRefund, tables
      <3>2. PICK memory : GoOn(w, memory) /\ memory.pc # "discount"
        BY <2>4, IdleRequest
        DEF GiveBackByHand, GiveBackOnCard, RecordRefund, ThenRecordRefund, Finish
      <3>3. \A v \in Slots : req'[v].pc = "discount" => req'[v] = req[v]
        BY <2>1, <3>2 DEF GoOn, TypeOK, Slots
      <3>4. QED
        BY <2>1, <3>1, <3>3, FiguresStay
    <2>5. CASE \/ \E w \in Cashiers : CashierStep(w)
               \/ \E w \in Hooks : (\E n \in Attempt : WebhookPayment(w, n)) \/ ConfirmInvoice(w)
               \/ \E w \in Slots : Abandon(w) \/ Stop(w)
               \/ \E n \in Attempt : Settle(n)
               \/ UNCHANGED vars
      <3>1. NotBilled
        BY <2>5, OthersDoNotBill DEF TotalsInv
      <3>2. QED
        BY <2>1, <3>1, FiguresStay DEF NotBilled, BillerPc
    <2>6. QED
      BY <2>2, <2>3, <2>4, <2>5 DEF Next, BillerStep
  <1>3. QED
    BY <1>1, <1>2, PTL DEF Spec

\* However many charges, discounts and payments are in flight, the invoice agrees with its
\* line items until a figure is written over a subtotal that has changed since it was read.
THEOREM TotalsUnlessOvertaken == Spec => []TotalsAddUp
  <1>1. TotalsInv => TotalsAddUp
    BY DEF TotalsInv
  <1>2. QED
    BY <1>1, TotalsInvariant, PTL

-----------------------------------------------------------------------------
(* One biller: refunds are handled one at a time *)

OneBiller == \A a, b \in Billers : a = b

\* Money given back on a card was taken on it; nothing was given back on a payment that is
\* not there or failed; a payment by hand is refunded once; and the property itself.
RefundsMatch(n) ==
    /\ back[n] <= intents[n].amount
    /\ desk[n] = NoPayment \/ desk[n].status = "failed" => back[n] = 0 /\ refunds[n] = 0
    /\ desk[n] # NoPayment =>
          /\ desk[n].provider = "manual" /\ desk[n].status = "succeeded" => refunds[n] = 0
          /\ refunds[n] <= desk[n].amount
          /\ desk[n].provider = "stripe" => refunds[n] <= back[n] /\ back[n] <= desk[n].amount

\* What the biller has read is still so: that a payment by hand was not refunded, and that
\* the money given back and not recorded yet is still to record.
BillerSees(w) ==
    /\ req[w].pc \in BillerPc => w \in Billers
    /\ req[w].pc \in {"give_back", "record_refund"} =>
          /\ req[w].amount <= desk[req[w].n].amount
          /\ desk[req[w].n].provider = "manual" => desk[req[w].n].status = "succeeded"
    /\ /\ req[w].pc = "record_refund" /\ req[w].answer = "succeeded"
       /\ desk[req[w].n].provider = "stripe"
       => refunds[req[w].n] + req[w].amount <= back[req[w].n]

BillerInv ==
    /\ MoneyInv
    /\ \A n \in Attempt : RefundsMatch(n)
    /\ \A w \in Slots : BillerSees(w)

LEMMA NotBilledCarries ==
    ASSUME BillerInv, MoneyInv', Keeps, NotBilled
    PROVE  BillerInv'
  <1> USE DEF BillerInv
  <1>1. ASSUME NEW n \in Attempt  PROVE RefundsMatch(n)'
    <2>1. RefundsMatch(n) /\ RowMatches(n) /\ back' = back /\ refunds' = refunds
      BY DEF NotBilled, MoneyInv
    <2>2. back'[n] <= intents'[n].amount
      <3>1. CASE intents[n].answer = "error"
        <4>1. back[n] <= 0
          BY <2>1, <3>1 DEF RefundsMatch, RowMatches, NoIntent
        <4>2. intents'[n].amount \in Nat /\ back[n] \in Nat
          BY DEF MoneyInv, TypeOK, Intent
        <4>3. QED
          BY <2>1, <4>1, <4>2
      <3>2. CASE intents[n].answer # "error"
        BY <2>1, <3>2 DEF Keeps, RefundsMatch
      <3>3. QED
        BY <3>1, <3>2
    <2>3. desk'[n] = NoPayment \/ desk'[n].status = "failed" => back'[n] = 0 /\ refunds'[n] = 0
      BY <2>1 DEF Keeps, RefundsMatch
    <2>4. CASE desk[n] = NoPayment
      <3>1. back'[n] = 0 /\ refunds'[n] = 0
        BY <2>1, <2>4 DEF RefundsMatch
      <3>2. desk'[n] # NoPayment => desk'[n].amount \in Nat
        BY DEF MoneyInv, TypeOK, PaymentRow
      <3>3. QED
        BY <2>2, <3>1, <3>2 DEF RefundsMatch
    <2>5. CASE desk[n] # NoPayment
      <3>1. /\ desk'[n] # NoPayment /\ desk'[n].amount = desk[n].amount
            /\ desk'[n].provider = desk[n].provider
            /\ desk[n].provider = "manual" => desk'[n].status = desk[n].status
        BY <2>5 DEF Keeps, NotBilled
      <3>2. QED
        BY <2>1, <2>2, <2>3, <2>5, <3>1 DEF RefundsMatch
    <2>6. QED
      BY <2>4, <2>5
  <1>2. ASSUME NEW v \in Slots  PROVE BillerSees(v)'
    <2>1. CASE req'[v].pc \notin BillerPc
      BY <2>1 DEF BillerSees, BillerPc
    <2>2. CASE req'[v].pc \in BillerPc
      <3>1. req'[v] = req[v] /\ BillerSees(v) /\ MemoryMatches(v)
        BY <2>2 DEF NotBilled, MoneyInv
      <3>2. req[v].pc \in {"give_back", "record_refund"} => req[v].n \in Attempt
        BY RequestFields DEF MoneyInv, TypeOK
      <3>3. ASSUME req[v].pc \in {"give_back", "record_refund"}
            PROVE  /\ desk'[req[v].n].amount = desk[req[v].n].amount
                   /\ desk'[req[v].n].provider = desk[req[v].n].provider
                   /\ desk[req[v].n].provider = "manual" => desk'[req[v].n] = desk[req[v].n]
        BY <3>1, <3>2, <3>3 DEF MemoryMatches, Keeps, NotBilled
      <3>4. refunds' = refunds /\ back' = back
        BY DEF NotBilled
      <3>5. QED
        BY <3>1, <3>3, <3>4 DEF BillerSees
    <2>3. QED
      BY <2>1, <2>2
  <1>3. QED
    BY <1>1, <1>2

-----------------------------------------------------------------------------
\* With one biller, a slot that does not bill now has nothing billed in the next state.
LEMMA BillerAlone ==
    ASSUME OneBiller, BillerInv, NEW w \in Billers, NEW memory \in Request, GoOn(w, memory)
    PROVE  /\ req'[w] = memory
           /\ \A v \in Slots \ {w} : req'[v].pc \notin BillerPc
  <1>1. w \in Slots /\ TypeOK
    BY DEF Slots, BillerInv, MoneyInv
  <1>2. req'[w] = memory /\ \A v \in Slots \ {w} : req'[v] = req[v]
    BY <1>1, Turn
  <1>3. \A v \in Slots \ {w} : req[v].pc \notin BillerPc
    BY DEF OneBiller, BillerInv, BillerSees
  <1>4. QED
    BY <1>2, <1>3

\* Nothing billed and nothing remembered by the others: what is left is the biller's memory.
LEMMA BillerTurn ==
    ASSUME OneBiller, BillerInv, MoneyInv', NEW w \in Billers, NEW memory \in Request,
           GoOn(w, memory), \A n \in Attempt : RefundsMatch(n)',
           memory.pc \in BillerPc => BillerSees(w)'
    PROVE  BillerInv'
  <1>1. req'[w] = memory /\ \A v \in Slots \ {w} : req'[v].pc \notin BillerPc
    BY BillerAlone
  <1>2. \A v \in Slots : req'[v].pc \in BillerPc => BillerSees(v)'
    BY <1>1
  <1>3. \A v \in Slots : BillerSees(v)'
    BY <1>2 DEF BillerSees, BillerPc
  <1>4. QED
    BY <1>3 DEF BillerInv

LEMMA BillerReadsStill ==
    ASSUME OneBiller, BillerInv, MoneyInv', NEW w \in Billers, NEW amount \in Amounts,
           \/ ReadForCharge(w, amount) \/ ReadForDiscount(w, amount)
           \/ \E n \in Attempt : ReadForRefund(w, n, amount)
    PROVE  BillerInv'
  <1> USE DEF BillerInv, MoneyInv, TypeOK, tables, provider
  <1>1. w \in Slots /\ amount \in Nat
    BY PriceAssumption DEF Slots
  <1>2. UNCHANGED <<inv, lines, desk, refunds, intents, back>>
    BY DEF ReadForCharge, ReadForDiscount, ReadForRefund
  <1>3. \A n \in Attempt : RefundsMatch(n)'
    BY <1>2 DEF RefundsMatch
  <1>4. CASE ReadForCharge(w, amount) \/ ReadForDiscount(w, amount)
    <2>1. PICK memory : /\ GoOn(w, memory) /\ memory.pc \in {"add_charge", "discount"}
                        /\ memory.seen = inv /\ memory \in Request
      BY <1>1, <1>4 DEF ReadForCharge, ReadForDiscount, Await, GoOn, Request
    <2>2. req'[w] = memory
      BY <2>1, BillerAlone
    <2>3. BillerSees(w)'
      BY <1>2, <2>1, <2>2 DEF BillerSees
    <2>4. QED
      BY <1>3, <2>1, <2>3, BillerTurn
  <1>5. ASSUME NEW n \in Attempt, ReadForRefund(w, n, amount)
        PROVE  BillerInv'
    <2> DEFINE memory == [pc |-> "give_back", n |-> n, amount |-> amount]
    <2>1. memory \in Request /\ GoOn(w, memory)
      BY <1>1, <1>5 DEF Request, ReadForRefund, Await, GoOn
    <2>2. req'[w] = memory
      BY <2>1, BillerAlone
    <2>3. desk'[n].status = "succeeded" /\ amount <= desk'[n].amount
      BY <1>2, <1>5 DEF ReadForRefund
    <2>4. BillerSees(w)'
      BY <2>2, <2>3 DEF BillerSees
    <2>5. QED
      BY <1>3, <2>1, <2>4, BillerTurn
  <1>6. QED
    BY <1>4, <1>5

\* Charges and discounts refund nothing.
LEMMA LinesRefundNothing ==
    ASSUME OneBiller, BillerInv, MoneyInv', NEW w \in Billers, WriteCharge(w) \/ WriteDiscount(w)
    PROVE  BillerInv'
  <1>1. \A n \in Attempt : RefundsMatch(n)'
    BY DEF BillerInv, RefundsMatch, WriteCharge, WriteDiscount, provider
  <1>2. GoOn(w, Idle)
    BY DEF WriteCharge, WriteDiscount, Finish
  <1>3. QED
    BY <1>1, <1>2, IdleRequest, BillerTurn DEF BillerPc

\* Money goes back on a card within what was taken, and its record is still to come.
LEMMA BackWithin ==
    ASSUME OneBiller, BillerInv, MoneyInv', NEW w \in Billers,
           GiveBackByHand(w) \/ GiveBackOnCard(w)
    PROVE  BillerInv'
  <1> USE DEF BillerInv, MoneyInv, TypeOK, tables, provider
  <1>1. PICK n \in Attempt :
           /\ n = req[w].n /\ req[w].amount \in Nat /\ w \in Slots /\ req[w].pc = "give_back"
    BY RequestFields DEF Slots, GiveBackByHand, GiveBackOnCard
  <1>2. /\ desk[n] # NoPayment /\ desk[n].status # "failed"
        /\ req[w].amount <= desk[n].amount
        /\ desk[n].provider = "manual" => desk[n].status = "succeeded"
    BY <1>1 DEF MemoryMatches, BillerSees
  <1>3. UNCHANGED <<inv, lines, desk, refunds, intents>>
    BY DEF GiveBackByHand, GiveBackOnCard
  <1>4. PICK answer \in {"succeeded", "failed"} :
           /\ ThenRecordRefund(w, answer)
           /\ \/ /\ back' = back
                 /\ answer = "succeeded" => desk[n].provider = "manual"
              \/ /\ back' = [back EXCEPT ![n] = back[n] + req[w].amount]
                 /\ desk[n].provider = "stripe"
                 /\ back[n] + req[w].amount <= intents[n].amount
    <2>1. CASE GiveBackByHand(w)
      BY <1>1, <2>1 DEF GiveBackByHand
    <2>2. CASE GiveBackOnCard(w)
      BY <1>1, <2>2 DEF GiveBackOnCard
    <2>3. QED
      BY <2>1, <2>2
  <1> DEFINE memory == [pc |-> "record_refund", n |-> n, amount |-> req[w].amount,
                        answer |-> answer]
  <1>5. memory \in Request /\ GoOn(w, memory)
    BY <1>1, <1>4 DEF Request, ThenRecordRefund
  <1>6. req'[w] = memory
    BY <1>5, BillerAlone
  <1>7. /\ back[n] \in Nat /\ refunds[n] \in Nat /\ intents[n].amount \in Nat
        /\ desk[n].amount \in Nat /\ desk[n].provider \in {"stripe", "manual"}
    BY <1>1, <1>2 DEF Intent, PaymentRow
  <1>8. CASE back' = back /\ (answer = "succeeded" => desk[n].provider = "manual")
    <2>1. \A m \in Attempt : RefundsMatch(m)'
      BY <1>3, <1>8 DEF RefundsMatch
    <2>2. BillerSees(w)'
      BY <1>2, <1>3, <1>6, <1>8 DEF BillerSees
    <2>3. QED
      BY <1>5, <2>1, <2>2, BillerTurn
  <1>9. CASE /\ back' = [back EXCEPT ![n] = back[n] + req[w].amount]
              /\ desk[n].provider = "stripe"
              /\ back[n] + req[w].amount <= intents[n].amount
    <2>1. back'[n] = back[n] + req[w].amount /\ \A m \in Attempt \ {n} : back'[m] = back[m]
      BY <1>9
    <2>2. intents[n].amount = desk[n].amount
      BY <1>2, <1>9 DEF RowMatches
    <2>3. refunds[n] <= back[n]
      BY <1>2, <1>9 DEF RefundsMatch
    <2>4. RefundsMatch(n)'
      BY <1>1, <1>2, <1>3, <1>7, <1>9, <2>1, <2>2, <2>3 DEF RefundsMatch
    <2>5. \A m \in Attempt \ {n} : RefundsMatch(m)'
      BY <1>3, <2>1 DEF RefundsMatch
    <2>6. refunds'[n] + req[w].amount <= back'[n]
      BY <1>1, <1>3, <1>7, <2>1, <2>3
    <2>7. BillerSees(w)'
      BY <1>2, <1>3, <1>6, <1>9, <2>6 DEF BillerSees
    <2>8. QED
      BY <1>5, <2>4, <2>5, <2>7, BillerTurn
  <1>10. QED
    BY <1>4, <1>8, <1>9

\* The record brings the refunds up to what was given back, or, by hand, is the first.
LEMMA RefundWithin ==
    ASSUME OneBiller, BillerInv, MoneyInv', NEW w \in Billers, RecordRefund(w)
    PROVE  BillerInv'
  <1> USE DEF BillerInv, MoneyInv, TypeOK, provider
  <1>1. PICK n \in Attempt :
           /\ n = req[w].n /\ req[w].amount \in Nat /\ w \in Slots /\ req[w].pc = "record_refund"
    BY RequestFields DEF Slots, RecordRefund
  <1>2. /\ desk[n] # NoPayment /\ desk[n].status # "failed"
        /\ req[w].amount <= desk[n].amount
        /\ desk[n].provider = "manual" => desk[n].status = "succeeded"
        /\ req[w].answer = "succeeded" /\ desk[n].provider = "stripe"
              => refunds[n] + req[w].amount <= back[n]
    BY <1>1 DEF MemoryMatches, BillerSees
  <1>3. UNCHANGED <<inv, lines, intents, back>> /\ GoOn(w, Idle)
    BY DEF RecordRefund, Finish
  <1>4. CASE req[w].answer # "succeeded"
    <2>1. \A m \in Attempt : RefundsMatch(m)'
      BY <1>3, <1>4 DEF RefundsMatch, RecordRefund
    <2>2. QED
      BY <1>3, <2>1, IdleRequest, BillerTurn DEF BillerPc
  <1>5. CASE req[w].answer = "succeeded"
    <2>1. /\ refunds'[n] = refunds[n] + req[w].amount
          /\ desk'[n] = [desk[n] EXCEPT !.status = "refunded"]
          /\ \A m \in Attempt \ {n} : refunds'[m] = refunds[m] /\ desk'[m] = desk[m]
      BY <1>1, <1>5 DEF RecordRefund
    <2>2. /\ back[n] \in Nat /\ refunds[n] \in Nat /\ desk[n] \in PaymentRow
          /\ desk[n].amount \in Nat /\ desk[n].provider \in {"stripe", "manual"}
      BY <1>2 DEF PaymentRow
    <2>3. /\ desk'[n].status = "refunded" /\ desk'[n].amount = desk[n].amount
          /\ desk'[n].provider = desk[n].provider /\ desk'[n] # NoPayment
      BY <2>1, <2>2 DEF PaymentRow, NoPayment
    <2>4. RefundsMatch(n)
      OBVIOUS
    <2>5. refunds[n] + req[w].amount <= desk[n].amount
      BY <1>1, <1>2, <1>5, <2>2, <2>4 DEF RefundsMatch
    <2>6. RefundsMatch(n)'
      BY <1>1, <1>2, <1>3, <1>5, <2>1, <2>2, <2>3, <2>4, <2>5 DEF RefundsMatch
    <2>7. \A m \in Attempt \ {n} : RefundsMatch(m)'
      BY <1>3, <2>1 DEF RefundsMatch
    <2>8. QED
      BY <1>3, <2>6, <2>7, IdleRequest, BillerTurn DEF BillerPc
  <1>6. QED
    BY <1>4, <1>5

LEMMA BillerInvariant ==
    ASSUME OneBiller
    PROVE  Spec => []BillerInv
  <1>1. Init => BillerInv
    <2> SUFFICES ASSUME Init  PROVE BillerInv
      OBVIOUS
    <2>1. MoneyInv
      BY MoneyInit
    <2>2. \A n \in Attempt : RefundsMatch(n)
      BY DEF Init, RefundsMatch, NoIntent
    <2>3. \A w \in Slots : BillerSees(w)
      BY IdleRequest DEF Init, BillerSees, BillerPc
    <2>4. QED
      BY <2>1, <2>2, <2>3 DEF BillerInv
  <1>2. BillerInv /\ [Next]_vars => BillerInv'
    <2> SUFFICES ASSUME BillerInv, [Next]_vars  PROVE BillerInv'
      OBVIOUS
    <2>1. MoneyInv' /\ Keeps
      BY MoneyStep DEF BillerInv
    <2>2. ASSUME NEW w \in Billers, BillerStep(w)  PROVE BillerInv'
      BY <2>1, <2>2, BillerReadsStill, LinesRefundNothing, BackWithin, RefundWithin
      DEF BillerStep
    <2>3. CASE \/ \E w \in Cashiers : CashierStep(w)
               \/ \E w \in Hooks : (\E n \in Attempt : WebhookPayment(w, n)) \/ ConfirmInvoice(w)
               \/ \E w \in Slots : Abandon(w) \/ Stop(w)
               \/ \E n \in Attempt : Settle(n)
               \/ UNCHANGED vars
      <3>1. NotBilled
        BY <2>3, OthersDoNotBill DEF BillerInv
      <3>2. QED
        BY <2>1, <3>1, NotBilledCarries
    <2>4. QED
      BY <2>2, <2>3 DEF Next
  <1>3. QED
    BY <1>1, <1>2, PTL DEF Spec

\* With one biller no payment is refunded beyond its amount, though refunds are cut short
\* after the money moved and webhooks make a refunded payment refundable again.
THEOREM OneBillerRefundsWithin ==
    ASSUME OneBiller
    PROVE  Spec => []RefundsWithinPayment
  <1>1. BillerInv => RefundsWithinPayment
    BY DEF BillerInv, RefundsMatch, RefundsWithinPayment, Recorded
  <1>2. QED
    BY <1>1, BillerInvariant, PTL

-----------------------------------------------------------------------------
(* One cashier: payments, at the desk or in the portal, are made one at a time *)

OneCashier == \A a, b \in Cashiers : a = b

NumberedPc == {"charge", "record", "portal_record"}

\* The cashier has the answer of intent n, and is about to record it.
Pending(n) ==
    \E w \in Cashiers : /\ req[w].pc = "record"
                        /\ req[w].provider = "stripe"
                        /\ req[w].answer # "error"
                        /\ req[w].n = n

\* Intents that Stripe knows, whether or not the money moved yet, and nobody will record.
Adrift == {n \in Attempt : intents[n].answer # "error" /\ ~HasIntentRow(n) /\ ~Pending(n)}

\* The attempts recorded are numbered from one without a gap, each at the desk or in the
\* portal, so the next number was never recorded.
Numbered ==
    /\ Recorded \cap portal = {}
    /\ Recorded \cup portal = 1 .. (NextAttempt - 1)

\* The number counted is still the next one when it is recorded.
StillNext(w) == req[w].pc \in NumberedPc => w \in Cashiers /\ req[w].n = NextAttempt

CashierInv ==
    /\ MoneyInv
    /\ Numbered
    /\ \A w \in Slots : StillNext(w)
    /\ Cardinality(Adrift) <= stops

LEMMA AdriftFinite ==
    ASSUME TypeOK
    PROVE  IsFiniteSet(Adrift) /\ Cardinality(Adrift) \in Nat
  <1>1. Adrift \subseteq Attempt
    BY DEF Adrift
  <1>2. QED
    BY <1>1, Counting, FS_Subset, FS_CardinalityType

\* No intent comes adrift where answers stay and what was pending is pending or recorded.
LEMMA AdriftShrinks ==
    ASSUME CashierInv, MoneyInv', Keeps, stops' = stops,
           \A n \in Attempt : \/ intents'[n].answer = intents[n].answer
                              \/ Pending(n)',
           \A n \in Attempt : Pending(n) => Pending(n)' \/ HasIntentRow(n)'
    PROVE  Cardinality(Adrift') <= stops'
  <1>1. Adrift' \subseteq Adrift
    BY DEF Adrift, HasIntentRow, Keeps
  <1>2. IsFiniteSet(Adrift) /\ Cardinality(Adrift) \in Nat
    BY AdriftFinite DEF CashierInv, MoneyInv
  <1>3. Cardinality(Adrift') <= Cardinality(Adrift) /\ Cardinality(Adrift') \in Nat
    BY <1>1, <1>2, FS_Subset, FS_CardinalityType
  <1>4. stops \in Nat /\ Cardinality(Adrift) <= stops
    BY BoundsAssumption DEF CashierInv, MoneyInv, TypeOK
  <1>5. QED
    BY <1>2, <1>3, <1>4

\* A request that is cut short sets at most its own intent adrift.
LEMMA AdriftGrows ==
    ASSUME CashierInv, MoneyInv', Keeps, stops' = stops + 1, NEW k,
           \A n \in Attempt \ {k} : \/ intents'[n].answer = intents[n].answer
                                    \/ Pending(n)',
           \A n \in Attempt \ {k} : Pending(n) => Pending(n)' \/ HasIntentRow(n)'
    PROVE  Cardinality(Adrift') <= stops'
  <1>1. Adrift' \subseteq Adrift \cup {k}
    BY DEF Adrift, HasIntentRow, Keeps
  <1>2. IsFiniteSet(Adrift) /\ Cardinality(Adrift) \in Nat
    BY AdriftFinite DEF CashierInv, MoneyInv
  <1>3. /\ IsFiniteSet(Adrift \cup {k})
        /\ Cardinality(Adrift \cup {k}) \in {Cardinality(Adrift), Cardinality(Adrift) + 1}
    BY <1>2, FS_AddElement
  <1>4. Cardinality(Adrift') <= Cardinality(Adrift \cup {k}) /\ Cardinality(Adrift') \in Nat
    BY <1>1, <1>3, FS_Subset, FS_CardinalityType
  <1>5. stops \in Nat /\ Cardinality(Adrift) <= stops
    BY BoundsAssumption DEF CashierInv, MoneyInv, TypeOK
  <1>6. QED
    BY <1>2, <1>3, <1>4, <1>5

\* Where nothing is recorded the next number stays what it is.
LEMMA SameNumber ==
    ASSUME CashierInv, Keeps, UNCHANGED portal,
           \A n \in Attempt : desk[n] = NoPayment => desk'[n] = NoPayment
    PROVE  Numbered' /\ NextAttempt' = NextAttempt
  <1>1. Recorded' = Recorded
    BY DEF Recorded, Keeps
  <1>2. QED
    BY <1>1 DEF CashierInv, Numbered, NextAttempt

\* The steps of others than the cashier record nothing, and answer nothing.
LEMMA OthersDoNotPay ==
    ASSUME CashierInv, MoneyInv', Keeps, UNCHANGED <<portal, stops>>,
           \A n \in Attempt : desk[n] = NoPayment => desk'[n] = NoPayment,
           \A n \in Attempt : intents'[n].answer = intents[n].answer,
           \A v \in Slots : req[v].pc = "record" \/ req'[v].pc \in NumberedPc =>
                               req'[v] = req[v]
    PROVE  CashierInv'
  <1> USE DEF CashierInv
  <1>1. Numbered' /\ NextAttempt' = NextAttempt
    BY SameNumber
  <1>2. \A v \in Slots : StillNext(v)'
    BY <1>1 DEF StillNext
  <1>3. \A n \in Attempt : Pending(n) => Pending(n)'
    BY DEF Pending, NumberedPc, Slots
  <1>4. Cardinality(Adrift') <= stops'
    BY <1>3, AdriftShrinks
  <1>5. QED
    BY <1>1, <1>2, <1>4

LEMMA QuietSlot ==
    ASSUME TypeOK, NEW w \in Slots, NEW memory, GoOn(w, memory),
           memory.pc \notin NumberedPc, req[w].pc # "record"
    PROVE  \A v \in Slots : req[v].pc = "record" \/ req'[v].pc \in NumberedPc =>
                               req'[v] = req[v]
  BY DEF TypeOK, GoOn

LEMMA NobodyElsePays ==
    ASSUME CashierInv, MoneyInv', Keeps,
           \/ \E w \in Billers : BillerStep(w)
           \/ \E w \in Hooks : (\E n \in Attempt : WebhookPayment(w, n)) \/ ConfirmInvoice(w)
           \/ \E w \in Slots : Abandon(w)
           \/ \E n \in Attempt : Settle(n)
           \/ UNCHANGED vars
    PROVE  CashierInv'
  <1> USE DEF tables, provider
  <1>1. TypeOK
    BY DEF CashierInv, MoneyInv
  <1>2. ASSUME NEW w \in Slots, NEW memory, GoOn(w, memory),
               memory.pc \notin NumberedPc, req[w].pc # "record",
               \A n \in Attempt : desk[n] = NoPayment => desk'[n] = NoPayment,
               UNCHANGED <<portal, stops, intents>>
        PROVE  CashierInv'
    BY <1>1, <1>2, QuietSlot, OthersDoNotPay
  <1> USE DEF NumberedPc
  <1>3. ASSUME NEW n \in Attempt, desk[n] # NoPayment, NEW status
        PROVE  \A m \in Attempt : desk[m] = NoPayment =>
                  [desk EXCEPT ![n].status = status][m] = NoPayment
    BY <1>1, <1>3 DEF TypeOK
  <1>4. ASSUME NEW w \in Billers, BillerStep(w)  PROVE CashierInv'
    <2>1. w \in Slots
      BY DEF Slots
    <2>2. CASE \E amount \in Amounts :
                  \/ ReadForCharge(w, amount) \/ ReadForDiscount(w, amount)
                  \/ \E n \in Attempt : ReadForRefund(w, n, amount)
      BY <1>2, <2>1, <2>2, IdleRequest
      DEF ReadForCharge, ReadForDiscount, ReadForRefund, Await, GoOn
    <2>3. CASE WriteCharge(w) \/ WriteDiscount(w)
      BY <1>2, <2>1, <2>3, IdleRequest DEF WriteCharge, WriteDiscount, Finish
    <2>4. CASE GiveBackByHand(w) \/ GiveBackOnCard(w)
      <3>1. PICK answer : ThenRecordRefund(w, answer)
        BY <2>4 DEF GiveBackByHand, GiveBackOnCard
      <3>2. req[w].pc = "give_back" /\ UNCHANGED <<desk, portal, stops, intents>>
        BY <2>4 DEF GiveBackByHand, GiveBackOnCard
      <3>3. QED
        BY <1>2, <2>1, <3>1, <3>2 DEF ThenRecordRefund
    <2>5. CASE RecordRefund(w)
      <3>1. PICK n \in Attempt : n = req[w].n /\ desk[n] # NoPayment
        BY <1>1, <2>1, <2>5, RequestFields DEF RecordRefund, CashierInv, MoneyInv, MemoryMatches, TypeOK
      <3>2. \A m \in Attempt : desk[m] = NoPayment => desk'[m] = NoPayment
        <4>1. desk' \in {desk, [desk EXCEPT ![n].status = "refunded"]}
          BY <2>5, <3>1 DEF RecordRefund
        <4>2. \A m \in Attempt : desk[m] = NoPayment =>
                 [desk EXCEPT ![n].status = "refunded"][m] = NoPayment
          BY <1>3, <3>1
        <4>3. QED
          BY <4>1, <4>2
      <3>3. QED
        BY <1>2, <2>1, <2>5, <3>2, IdleRequest DEF RecordRefund, Finish
    <2>6. QED
      BY <1>4, <2>2, <2>3, <2>4, <2>5 DEF BillerStep
  <1>5. ASSUME NEW w \in Hooks, NEW n \in Attempt, WebhookPayment(w, n)  PROVE CashierInv'
    <2>1. w \in Slots
      BY DEF Slots
    <2>2. \A m \in Attempt : desk[m] = NoPayment => desk'[m] = NoPayment
      BY <1>3, <1>5 DEF WebhookPayment, HasIntentRow
    <2>3. QED
      BY <1>2, <1>5, <2>1, <2>2, IdleRequest DEF WebhookPayment, Await, GoOn
  <1>6. ASSUME NEW w \in Hooks, ConfirmInvoice(w)  PROVE CashierInv'
    <2>1. w \in Slots
      BY DEF Slots
    <2>2. QED
      BY <1>2, <1>6, <2>1, IdleRequest DEF ConfirmInvoice, Finish
  <1>7. ASSUME NEW w \in Slots, Abandon(w)  PROVE CashierInv'
    BY <1>2, <1>7, IdleRequest DEF Abandon, Finish
  <1>8. ASSUME NEW n \in Attempt, Settle(n)  PROVE CashierInv'
    <2>1. \A m \in Attempt : intents'[m].answer = intents[m].answer
      BY <1>1, <1>8 DEF Settle, TypeOK, Intent
    <2>2. QED
      BY <1>8, <2>1, OthersDoNotPay DEF Settle
  <1>9. CASE UNCHANGED vars
    BY <1>9, OthersDoNotPay DEF vars
  <1>10. QED
    BY <1>4, <1>5, <1>6, <1>7, <1>8, <1>9

\* What the cashier's step leaves to show.
LEMMA CashierTurn ==
    ASSUME OneCashier, CashierInv, MoneyInv', Keeps, Numbered',
           NEW w \in Cashiers, NEW memory, GoOn(w, memory),
           memory.pc \in NumberedPc => memory.n = NextAttempt',
           Cardinality(Adrift') <= stops'
    PROVE  CashierInv'
  <1>1. w \in Slots /\ req'[w] = memory /\ \A v \in Slots \ {w} : req'[v] = req[v]
    BY DEF Slots, CashierInv, MoneyInv, TypeOK, GoOn
  <1>2. StillNext(w)'
    BY <1>1 DEF StillNext
  <1>3. ASSUME NEW v \in Slots \ {w}  PROVE StillNext(v)'
    <2>1. req[v].pc \notin NumberedPc
      BY DEF OneCashier, CashierInv, StillNext
    <2>2. QED
      BY <1>1, <2>1 DEF StillNext
  <1>4. QED
    BY <1>2, <1>3 DEF CashierInv

\* Steps of the cashier that record nothing and bring no intent: what it goes on with is
\* numbered, if at all, with the next number.
LEMMA CashierCounts ==
    ASSUME OneCashier, CashierInv, MoneyInv', Keeps, NEW w \in Cashiers,
           \/ \E amount \in Amounts \cup {inv.total}, by \in {"stripe", "manual"} :
                 ReadInvoice(w, amount, by)
           \/ CountAttempts(w) \/ ChargeManual(w) \/ ReplayStripe(w)
           \/ ReadForPortal(w) \/ CountForPortal(w)
           \/ BeginCheckOut(w) \/ CommitCheckOut(w)
    PROVE  CashierInv'
  <1> USE DEF tables, provider, NumberedPc
  <1>1. UNCHANGED <<desk, portal, intents, stops>>
    BY DEF ReadInvoice, CountAttempts, ChargeManual, ReplayStripe, ReadForPortal,
           CountForPortal, BeginCheckOut, CommitCheckOut
  <1>2. Numbered' /\ NextAttempt' = NextAttempt
    BY <1>1, SameNumber
  <1>3. w \in Slots /\ TypeOK
    BY DEF Slots, CashierInv, MoneyInv
  <1>4. ASSUME NEW memory, GoOn(w, memory), req[w].pc # "record",
               memory.pc \in NumberedPc => memory.n = NextAttempt
        PROVE  CashierInv'
    <2>1. \A v \in Slots \ {w} : req'[v] = req[v]
      BY <1>3, <1>4 DEF TypeOK, GoOn
    <2>2. \A n \in Attempt : Pending(n) => Pending(n)'
      BY <1>4, <2>1 DEF Pending, Slots
    <2>3. Cardinality(Adrift') <= stops'
      BY <1>1, <2>2, AdriftShrinks
    <2>4. QED
      BY <1>2, <1>4, <2>3, CashierTurn
  <1>5. CASE \E amount \in Amounts \cup {inv.total}, by \in {"stripe", "manual"} :
                ReadInvoice(w, amount, by)
    BY <1>4, <1>5, IdleRequest DEF ReadInvoice, Await, GoOn
  <1>6. CASE CountAttempts(w) \/ CountForPortal(w)
    BY <1>4, <1>6 DEF CountAttempts, CountForPortal
  <1>7. CASE ChargeManual(w) \/ ReplayStripe(w)
    <2>1. PICK answer : ThenRecord(w, answer)
      BY <1>7 DEF ChargeManual, ReplayStripe
    <2>2. req[w].pc = "charge" /\ req[w].n = NextAttempt
      BY <1>3, <1>7 DEF ChargeManual, ReplayStripe, CashierInv, StillNext
    <2>3. QED
      BY <1>4, <2>1, <2>2 DEF ThenRecord
  <1>8. CASE ReadForPortal(w) \/ BeginCheckOut(w)
    BY <1>4, <1>8, IdleRequest DEF ReadForPortal, BeginCheckOut, Await, GoOn
  <1>9. CASE CommitCheckOut(w)
    BY <1>4, <1>9, IdleRequest DEF CommitCheckOut, Finish
  <1>10. QED
    BY <1>5, <1>6, <1>7, <1>8, <1>9

\* A new intent is pending at once, unless its answer is lost.
LEMMA IntentIsPending ==
    ASSUME OneCashier, CashierInv, MoneyInv', Keeps, NEW w \in Cashiers,
           ChargeStripe(w) \/ LoseAnswer(w)
    PROVE  CashierInv'
  <1> USE DEF tables, provider
  <1>1. TypeOK /\ w \in Slots
    BY DEF Slots, CashierInv, MoneyInv
  <1>2. PICK n \in Attempt : /\ n = req[w].n /\ n = NextAttempt /\ req[w].pc = "charge"
                             /\ req[w].provider = "stripe" /\ intents[n] = NoIntent
    <2>1. req[w] \in Request /\ req[w].pc = "charge" /\ req[w].provider = "stripe"
          /\ intents[req[w].n] = NoIntent
      BY <1>1 DEF ChargeStripe, LoseAnswer, TypeOK
    <2>2. req[w].n \in Attempt
      BY <2>1, RequestFields
    <2>3. req[w].n = NextAttempt
      BY <1>1, <2>1 DEF CashierInv, StillNext, NumberedPc
    <2>4. QED
      BY <2>1, <2>2, <2>3
  <1>3. PICK answer :
           /\ ThenRecord(w, answer)
           /\ ~LoseAnswer(w) => intents' = IF answer = "error" THEN intents
                                           ELSE [intents EXCEPT ![n] =
                                                   [amount |-> req[w].amount, answer |-> answer,
                                                    taken |-> answer = "succeeded"]]
    BY <1>2 DEF ChargeStripe, LoseAnswer
  <1>4. req'[w] = [pc |-> "record", n |-> n, amount |-> req[w].amount,
                   provider |-> "stripe", answer |-> answer]
        /\ \A v \in Slots \ {w} : req'[v] = req[v]
    BY <1>1, <1>2, <1>3 DEF ThenRecord, GoOn, TypeOK
  <1>5. UNCHANGED <<desk, portal>> /\ \A m \in Attempt \ {n} : intents'[m] = intents[m]
    BY <1>1, <1>2 DEF ChargeStripe, LoseAnswer, TypeOK
  <1>6. Numbered' /\ NextAttempt' = NextAttempt
    BY <1>5, SameNumber
  <1>7. \A m \in Attempt : Pending(m) => Pending(m)'
    BY <1>2, <1>4 DEF Pending, Slots
  <1>8. Cardinality(Adrift') <= stops'
    <2>1. CASE LoseAnswer(w)
      BY <1>5, <1>7, <2>1, AdriftGrows DEF LoseAnswer
    <2>2. CASE ChargeStripe(w) /\ ~LoseAnswer(w)
      <3>1. intents'[n].answer = intents[n].answer \/ Pending(n)'
        BY <1>3, <1>4, <2>2 DEF Pending
      <3>2. stops' = stops
        BY <2>2 DEF ChargeStripe
      <3>3. QED
        BY <1>5, <1>7, <3>1, <3>2, AdriftShrinks
    <2>3. QED
      BY <2>1, <2>2
  <1>9. GoOn(w, [pc |-> "record", n |-> n, amount |-> req[w].amount,
                 provider |-> req[w].provider, answer |-> answer])
    BY <1>2, <1>3 DEF ThenRecord
  <1>10. QED
    BY <1>2, <1>6, <1>8, <1>9, CashierTurn

\* The number recorded was free, so the record takes it, and a card payment its intent.
LEMMA CashierRecords ==
    ASSUME OneCashier, CashierInv, MoneyInv', Keeps, NEW w \in Cashiers,
           RecordPayment(w) \/ RecordPortal(w)
    PROVE  CashierInv'
  <1> USE DEF provider
  <1>1. TypeOK /\ w \in Slots
    BY DEF Slots, CashierInv, MoneyInv
  <1>2. GoOn(w, Idle) /\ UNCHANGED <<intents, stops>>
    BY DEF RecordPayment, RecordPortal, Finish
  <1>3. PICK n \in Attempt : n = req[w].n /\ n = NextAttempt
    <2>1. req[w] \in Request /\ req[w].pc \in {"record", "portal_record"}
      BY <1>1 DEF RecordPayment, RecordPortal, TypeOK
    <2>2. req[w].n \in Attempt /\ req[w].n = NextAttempt
      BY <1>1, <2>1, RequestFields DEF CashierInv, StillNext, NumberedPc
    <2>3. QED
      BY <2>2
  <1>4. n \notin Recorded /\ n \notin portal
    BY <1>1, <1>3, Counting DEF CashierInv, Numbered
  <1>5. \/ Recorded' = Recorded \cup {n} /\ portal' = portal
        \/ Recorded' = Recorded /\ portal' = portal \cup {n}
    <2>1. CASE RecordPayment(w)
      <3>1. desk' = [desk EXCEPT ![n] = PaymentOf(req[w])] /\ portal' = portal
        BY <1>3, <1>4, <2>1 DEF RecordPayment, Recorded
      <3>2. PaymentOf(req[w]) # NoPayment
        BY DEF PaymentOf, NoPayment
      <3>3. QED
        BY <1>1, <3>1, <3>2 DEF Recorded, TypeOK
    <2>2. CASE RecordPortal(w)
      BY <1>3, <2>2 DEF RecordPortal, Recorded
    <2>3. QED
      BY <2>1, <2>2
  <1>6. Numbered'
    <2>1. /\ IsFiniteSet(Recorded) /\ Cardinality(Recorded) \in Nat
          /\ IsFiniteSet(portal) /\ Cardinality(portal) \in Nat
          /\ NextAttempt \in Nat \ {0}
      BY <1>1, Counting
    <2>2. /\ Cardinality(Recorded \cup {n}) = Cardinality(Recorded) + 1
          /\ Cardinality(portal \cup {n}) = Cardinality(portal) + 1
      BY <1>4, <2>1, FS_AddElement
    <2>3. NextAttempt' = NextAttempt + 1
      <3>1. CASE Recorded' = Recorded \cup {n} /\ portal' = portal
        BY <2>1, <2>2, <3>1 DEF NextAttempt
      <3>2. CASE Recorded' = Recorded /\ portal' = portal \cup {n}
        BY <2>1, <2>2, <3>2 DEF NextAttempt
      <3>3. QED
        BY <1>5, <3>1, <3>2
    <2>4. (Recorded \cap portal = {})' /\ (Recorded \cup portal)' = Recorded \cup portal \cup {n}
      BY <1>4, <1>5 DEF CashierInv, Numbered
    <2>5. 1 .. NextAttempt = 1 .. (NextAttempt - 1) \cup {NextAttempt}
      BY <2>1
    <2>6. (NextAttempt - 1)' = NextAttempt
      BY <2>1, <2>3
    <2>7. QED
      BY <1>3, <2>4, <2>5, <2>6 DEF CashierInv, Numbered
  <1>7. ASSUME NEW m \in Attempt, Pending(m)  PROVE Pending(m)' \/ HasIntentRow(m)'
    <2>1. /\ req[w].pc = "record" /\ req[w].provider = "stripe" /\ req[w].answer # "error"
          /\ m = n
      BY <1>3, <1>7 DEF OneCashier, Pending
    <2>2. desk'[n] = PaymentOf(req[w])
      BY <1>1, <1>3, <1>4, <2>1 DEF RecordPayment, RecordPortal, Recorded, TypeOK
    <2>3. /\ PaymentOf(req[w]) # NoPayment
          /\ PaymentOf(req[w]).provider = "stripe" /\ PaymentOf(req[w]).known
      BY <2>1 DEF PaymentOf, NoPayment
    <2>4. QED
      BY <2>1, <2>2, <2>3 DEF HasIntentRow
  <1>8. Cardinality(Adrift') <= stops'
    BY <1>2, <1>7, AdriftShrinks
  <1>9. QED
    BY <1>2, <1>6, <1>8, IdleRequest, CashierTurn DEF NumberedPc

\* A stop sets the intent adrift that its request would have recorded.
LEMMA StopCounts ==
    ASSUME CashierInv, MoneyInv', Keeps, NEW w \in Slots, Stop(w)
    PROVE  CashierInv'
  <1> USE DEF tables, provider
  <1>1. UNCHANGED <<desk, portal, intents>> /\ stops' = stops + 1
    BY DEF Stop
  <1>2. Numbered' /\ NextAttempt' = NextAttempt
    BY <1>1, SameNumber
  <1>3. req'[w] = Idle /\ \A v \in Slots \ {w} : req'[v] = req[v]
    BY DEF Stop, Finish, GoOn, CashierInv, MoneyInv, TypeOK
  <1>4. \A v \in Slots : StillNext(v)'
    BY <1>2, <1>3, IdleRequest DEF CashierInv, StillNext, NumberedPc
  <1>5. \A n \in Attempt \ {req[w].n} : Pending(n) => Pending(n)'
    BY <1>3 DEF Pending, Slots
  <1>6. Cardinality(Adrift') <= stops'
    BY <1>1, <1>5, AdriftGrows
  <1>7. QED
    BY <1>2, <1>4, <1>6 DEF CashierInv

LEMMA CashierInvariant ==
    ASSUME OneCashier
    PROVE  Spec => []CashierInv
  <1>1. Init => CashierInv
    <2> SUFFICES ASSUME Init  PROVE CashierInv
      OBVIOUS
    <2>1. MoneyInv
      BY MoneyInit
    <2>2. Recorded = {} /\ portal = {} /\ Adrift = {} /\ stops = 0
      BY DEF Init, Recorded, Adrift, NoIntent
    <2>3. Cardinality({}) = 0
      BY FS_EmptySet
    <2>4. Numbered /\ Cardinality(Adrift) <= stops
      BY <2>2, <2>3 DEF Numbered, NextAttempt
    <2>5. \A w \in Slots : StillNext(w)
      BY IdleRequest DEF Init, StillNext, NumberedPc
    <2>6. QED
      BY <2>1, <2>4, <2>5 DEF CashierInv
  <1>2. CashierInv /\ [Next]_vars => CashierInv'
    <2> SUFFICES ASSUME CashierInv, [Next]_vars  PROVE CashierInv'
      OBVIOUS
    <2>1. MoneyInv' /\ Keeps
      BY MoneyStep DEF CashierInv
    <2>2. ASSUME NEW w \in Cashiers, CashierStep(w)  PROVE CashierInv'
      BY <2>1, <2>2, CashierCounts, IntentIsPending, CashierRecords DEF CashierStep
    <2>3. ASSUME NEW w \in Slots, Stop(w)  PROVE CashierInv'
      BY <2>1, <2>3, StopCounts
    <2>4. CASE \/ \E w \in Billers : BillerStep(w)
               \/ \E w \in Hooks : (\E n \in Attempt : WebhookPayment(w, n)) \/ ConfirmInvoice(w)
               \/ \E w \in Slots : Abandon(w)
               \/ \E n \in Attempt : Settle(n)
               \/ UNCHANGED vars
      BY <2>1, <2>4, NobodyElsePays
    <2>5. QED
      BY <2>2, <2>3, <2>4 DEF Next
  <1>3. QED
    BY <1>1, <1>2, PTL DEF Spec

\* With one cashier, charges without a payment are no more than the requests cut short.
THEOREM OneCashierLosesByStops ==
    ASSUME OneCashier
    PROVE  Spec => []UnrecordedOnlyByStop
  <1>1. CashierInv => UnrecordedOnlyByStop
    <2> SUFFICES ASSUME CashierInv  PROVE UnrecordedOnlyByStop
      OBVIOUS
    <2>1. \A n \in Attempt : intents[n].taken => intents[n].answer # "error"
      BY DEF CashierInv, MoneyInv, RowMatches, NoIntent
    <2>2. TakenUnrecorded \subseteq Adrift
      BY <2>1 DEF TakenUnrecorded, Adrift, Pending
    <2>3. IsFiniteSet(Adrift) /\ Cardinality(Adrift) \in Nat
      BY AdriftFinite DEF CashierInv, MoneyInv
    <2>4. Cardinality(TakenUnrecorded) <= Cardinality(Adrift)
          /\ Cardinality(TakenUnrecorded) \in Nat
      BY <2>2, <2>3, FS_Subset, FS_CardinalityType
    <2>5. stops \in Nat /\ Cardinality(Adrift) <= stops
      BY BoundsAssumption DEF CashierInv, MoneyInv, TypeOK
    <2>6. QED
      BY <2>3, <2>4, <2>5 DEF UnrecordedOnlyByStop
  <1>2. QED
    BY <1>1, CashierInvariant, PTL


-----------------------------------------------------------------------------
(* Whatever is in flight: the book of payments, and what a refund relies on *)

\* A refund asks for something, and one that Stripe made has left its mark there.
RefundAsked(w) ==
    /\ req[w].pc = "give_back" => req[w].amount > 0
    /\ /\ req[w].pc = "record_refund" /\ req[w].answer = "succeeded"
       /\ desk[req[w].n].provider = "stripe"
       => back[req[w].n] > 0

BookInv ==
    /\ MoneyInv
    /\ \A w \in Slots : RefundAsked(w)

\* Stripe takes nothing back of what it gave back.
LEMMA AskedCarried ==
    ASSUME MoneyInv, Keeps, NEW v \in Slots, RefundAsked(v),
           \A n \in Attempt : back'[n] \in Nat /\ back[n] <= back'[n],
           req'[v].pc \in {"give_back", "record_refund"} => req'[v] = req[v]
    PROVE  RefundAsked(v)'
  <1>1. CASE req'[v].pc \notin {"give_back", "record_refund"}
    BY <1>1 DEF RefundAsked
  <1>2. CASE req'[v].pc \in {"give_back", "record_refund"}
    <2>1. req'[v] = req[v] /\ req[v] \in Request /\ MemoryMatches(v)
      BY <1>2 DEF MoneyInv, TypeOK
    <2>2. req[v].n \in Attempt
      BY <1>2, <2>1, RequestFields
    <2>3. desk[req[v].n] # NoPayment
      BY <1>2, <2>1 DEF MemoryMatches
    <2>4. desk'[req[v].n].provider = desk[req[v].n].provider
      BY <2>2, <2>3 DEF Keeps
    <2>5. back[req[v].n] \in Nat /\ back'[req[v].n] \in Nat /\ back[req[v].n] <= back'[req[v].n]
      BY <2>2 DEF MoneyInv, TypeOK
    <2>6. QED
      BY <2>1, <2>4, <2>5 DEF RefundAsked
  <1>3. QED
    BY <1>1, <1>2

\* What a slot remembers anew is asked for; the others' refunds are carried over.
LEMMA AskedTurn ==
    ASSUME BookInv, MoneyInv', Keeps, NEW w \in Slots, NEW memory \in Request, GoOn(w, memory),
           \A n \in Attempt : back[n] <= back'[n],
           memory.pc \in {"give_back", "record_refund"} => RefundAsked(w)'
    PROVE  BookInv'
  <1>1. req'[w] = memory /\ \A v \in Slots \ {w} : req'[v] = req[v]
    BY Turn DEF BookInv, MoneyInv
  <1>2. \A n \in Attempt : back'[n] \in Nat
    BY DEF MoneyInv, TypeOK
  <1>3. ASSUME NEW v \in Slots \ {w}  PROVE RefundAsked(v)'
    BY <1>1, <1>2, AskedCarried DEF BookInv
  <1>4. RefundAsked(w)'
    <2>1. CASE memory.pc \in {"give_back", "record_refund"}
      BY <2>1
    <2>2. CASE memory.pc \notin {"give_back", "record_refund"}
      BY <1>1, <2>2 DEF RefundAsked
    <2>3. QED
      BY <2>1, <2>2
  <1>5. QED
    BY <1>3, <1>4 DEF BookInv

\* The billers' steps: a refund is asked for, made by hand or on the card, and recorded.
LEMMA BillersAsk ==
    ASSUME BookInv, MoneyInv', Keeps, NEW w \in Billers, BillerStep(w)
    PROVE  BookInv'
  <1> USE DEF tables, provider
  <1>1. w \in Slots /\ TypeOK /\ TypeOK'
    BY DEF Slots, BookInv, MoneyInv
  <1>2. \A n \in Attempt : back[n] \in Nat
    BY <1>1 DEF TypeOK
  <1>3. CASE WriteCharge(w) \/ WriteDiscount(w) \/ RecordRefund(w)
    <2>1. GoOn(w, Idle) /\ back' = back
      BY <1>3 DEF WriteCharge, WriteDiscount, RecordRefund, Finish
    <2>2. QED
      BY <1>1, <1>2, <2>1, IdleRequest, AskedTurn
  <1>4. ASSUME NEW amount \in Amounts, ReadForCharge(w, amount) \/ ReadForDiscount(w, amount)
        PROVE  BookInv'
    <2>1. amount \in Nat
      BY PriceAssumption
    <2>2. PICK memory \in Request :
             GoOn(w, memory) /\ memory.pc \in {"add_charge", "discount"}
      BY <1>1, <1>4, <2>1 DEF ReadForCharge, ReadForDiscount, Await, GoOn, Request, TypeOK
    <2>3. back' = back
      BY <1>4 DEF ReadForCharge, ReadForDiscount
    <2>4. QED
      BY <1>1, <1>2, <2>2, <2>3, AskedTurn
  <1>5. ASSUME NEW amount \in Amounts, NEW n \in Attempt, ReadForRefund(w, n, amount)
        PROVE  BookInv'
    <2> DEFINE memory == [pc |-> "give_back", n |-> n, amount |-> amount]
    <2>1. amount \in Nat /\ amount > 0
      BY PriceAssumption
    <2>2. memory \in Request
      BY <2>1 DEF Request
    <2>3. GoOn(w, memory) /\ back' = back
      BY <1>5 DEF ReadForRefund, Await, GoOn
    <2>4. req'[w] = memory
      BY <1>1, <2>2, <2>3, Turn
    <2>5. RefundAsked(w)'
      BY <2>1, <2>4 DEF RefundAsked
    <2>6. QED
      BY <1>1, <1>2, <2>2, <2>3, <2>5, AskedTurn
  <1>6. ASSUME NEW answer \in {"succeeded", "failed"}, req[w].pc = "give_back",
               ThenRecordRefund(w, answer), UNCHANGED desk,
               \A m \in Attempt : back[m] <= back'[m],
               answer = "succeeded" /\ desk[req[w].n].provider = "stripe" => back'[req[w].n] > 0
        PROVE  BookInv'
    <2> DEFINE memory == [pc |-> "record_refund", n |-> req[w].n, amount |-> req[w].amount,
                          answer |-> answer]
    <2>1. req[w].n \in Attempt /\ req[w].amount \in Nat
      BY <1>1, <1>6, RequestFields DEF TypeOK
    <2>2. memory \in Request
      BY <1>6, <2>1 DEF Request
    <2>3. GoOn(w, memory)
      BY <1>6 DEF ThenRecordRefund
    <2>4. req'[w] = memory
      BY <1>1, <2>2, <2>3, Turn
    <2>5. RefundAsked(w)'
      BY <1>6, <2>4 DEF RefundAsked
    <2>6. QED
      BY <1>1, <1>6, <2>2, <2>3, <2>5, AskedTurn
  <1>7. CASE GiveBackByHand(w)
    <2>1. back' = back /\ desk' = desk /\ desk[req[w].n].provider = "manual"
          /\ req[w].pc = "give_back" /\ ThenRecordRefund(w, "succeeded")
      BY <1>7 DEF GiveBackByHand
    <2>2. QED
      BY <1>2, <1>6, <2>1
  <1>8. CASE GiveBackOnCard(w)
    <2>1. req[w].pc = "give_back" /\ desk' = desk
      BY <1>8 DEF GiveBackOnCard
    <2>2. req[w].n \in Attempt /\ req[w].amount \in Nat /\ req[w].amount > 0
      <3>1. RefundAsked(w)
        BY <1>1 DEF BookInv
      <3>2. QED
        BY <1>1, <2>1, <3>1, RequestFields DEF RefundAsked, TypeOK
    <2>3. CASE ThenRecordRefund(w, "failed") /\ UNCHANGED back
      BY <1>2, <1>6, <2>1, <2>3
    <2>4. CASE /\ back' = [back EXCEPT ![req[w].n] = back[req[w].n] + req[w].amount]
               /\ ThenRecordRefund(w, "succeeded")
      <3>1. back'[req[w].n] = back[req[w].n] + req[w].amount
        BY <1>1, <2>2, <2>4 DEF TypeOK
      <3>2. back'[req[w].n] > 0 /\ back[req[w].n] <= back'[req[w].n]
        BY <1>2, <2>2, <3>1
      <3>3. \A m \in Attempt \ {req[w].n} : back'[m] = back[m]
        BY <1>1, <2>2, <2>4 DEF TypeOK
      <3>4. \A m \in Attempt : back[m] <= back'[m]
        BY <1>2, <3>2, <3>3
      <3>5. QED
        BY <1>6, <2>1, <2>4, <3>2, <3>4
    <2>5. QED
      BY <1>8, <2>3, <2>4 DEF GiveBackOnCard
  <1>9. QED
    BY <1>3, <1>4, <1>5, <1>7, <1>8 DEF BillerStep

LEMMA BookStep == BookInv /\ [Next]_vars => BookInv'
  <1> SUFFICES ASSUME BookInv, [Next]_vars  PROVE BookInv'
    OBVIOUS
  <1>1. MoneyInv' /\ Keeps
    BY MoneyStep DEF BookInv
  <1>2. CASE \E w \in Billers : BillerStep(w)
    BY <1>1, <1>2, BillersAsk
  <1>3. CASE ~ \E w \in Billers : BillerStep(w)
    <2>1. NotBilled
      BY <1>3, OthersDoNotBill DEF BookInv, Next
    <2>2. \A n \in Attempt : back'[n] \in Nat /\ back[n] <= back'[n]
      BY <2>1 DEF NotBilled, BookInv, MoneyInv, TypeOK
    <2>3. \A v \in Slots : RefundAsked(v)'
      BY <1>1, <2>1, <2>2, AskedCarried DEF BookInv, NotBilled, BillerPc
    <2>4. QED
      BY <1>1, <2>3 DEF BookInv
  <1>4. QED
    BY <1>2, <1>3

LEMMA BookInvariant == Spec => []BookInv
  <1>1. Init => BookInv
    <2>1. Init => \A w \in Slots : RefundAsked(w)
      BY IdleRequest DEF Init, RefundAsked
    <2>2. QED
      BY <2>1, MoneyInit DEF BookInv
  <1>2. QED
    BY <1>1, BookStep, PTL DEF Spec


-----------------------------------------------------------------------------
(* Billing implements the book of payments *)

\* The names the two specifications have for what is not there.
LEMMA BookNames ==
    /\ Book!NoCharge = NoIntent /\ Book!NoEntry = NoPayment
    /\ \A n \in Attempt : HasIntentRow(n) <=> Book!ByCard(desk[n])
  BY DEF Book!NoCharge, Book!NoEntry, NoIntent, NoPayment, HasIntentRow, Book!ByCard

\* A step that leaves the payments and the provider alone, and the invoice as payable.
LEMMA BookStutters ==
    ASSUME UNCHANGED <<intents, back, desk>>, inv'.status = inv.status
    PROVE  UNCHANGED Book!book
  BY DEF Book!book

\* A first call with a key is a charge that is asked for, or none.
LEMMA ChargeIsAsked ==
    ASSUME MoneyInv, NEW w \in Slots, ChargeStripe(w) \/ LoseAnswer(w)
    PROVE  [Book!Next]_Book!book
  <1> USE DEF tables, provider
  <1>1. req[w].n \in Attempt /\ req[w].amount \in Nat /\ intents[req[w].n] = NoIntent
    BY RequestFields DEF ChargeStripe, LoseAnswer, MoneyInv, TypeOK
  <1>2. UNCHANGED <<inv, back, desk>>
    BY DEF ChargeStripe, LoseAnswer
  <1>3. ASSUME NEW answer \in {"succeeded", "requires_action"},
               intents' = [intents EXCEPT ![req[w].n] =
                              [amount |-> req[w].amount, answer |-> answer,
                               taken |-> answer = "succeeded"]]
        PROVE  Book!Ask(req[w].n)
    <2>1. intents'[req[w].n] = [amount |-> req[w].amount, answer |-> answer,
                                taken |-> answer = "succeeded"]
      BY <1>1, <1>3 DEF MoneyInv, TypeOK
    <2>2. intents'[req[w].n] \in Book!Charge
      BY <1>1, <2>1 DEF Book!Charge
    <2>3. intents' = [intents EXCEPT ![req[w].n] = intents'[req[w].n]]
      BY <1>3, <2>1
    <2>4. QED
      BY <1>1, <1>2, <2>1, <2>2, <2>3, BookNames DEF Book!Ask
  <1>4. CASE intents' = intents
    BY <1>2, <1>4, BookStutters
  <1>5. CASE intents' # intents
    <2>1. PICK answer \in {"succeeded", "requires_action"} :
             intents' = [intents EXCEPT ![req[w].n] =
                            [amount |-> req[w].amount, answer |-> answer,
                             taken |-> answer = "succeeded"]]
      BY <1>5 DEF ChargeStripe, LoseAnswer, Answer
    <2>2. QED
      BY <1>1, <1>3, <2>1 DEF Book!Next
  <1>6. QED
    BY <1>4, <1>5

LEMMA SettleIsTaken ==
    ASSUME NEW n \in Attempt, Settle(n)
    PROVE  Book!Next
  <1>1. Book!Take(n)
    BY DEF Settle, Book!Take, tables
  <1>2. QED
    BY <1>1 DEF Book!Next

\* The payment recorded agrees with the charge of its key: what its cashier remembers does.
LEMMA RecordIsEntered ==
    ASSUME MoneyInv, NEW w \in Slots, RecordPayment(w)
    PROVE  [Book!Next]_Book!book
  <1> DEFINE n == req[w].n
             row == PaymentOf(req[w])
  <1>1. /\ n \in Attempt /\ req[w].amount \in Nat /\ req[w].answer \in Answer
        /\ req[w].provider \in {"stripe", "manual"} /\ req[w].pc = "record"
    BY RequestFields DEF RecordPayment, MoneyInv, TypeOK
  <1>2. CASE desk[n] # NoPayment
    BY <1>2, BookStutters DEF RecordPayment, tables, provider
  <1>3. CASE desk[n] = NoPayment
    <2>1. /\ desk' = [desk EXCEPT ![n] = row]
          /\ inv' = IF req[w].answer = "succeeded" THEN [inv EXCEPT !.status = "paid"] ELSE inv
          /\ UNCHANGED <<intents, back>>
      BY <1>3 DEF RecordPayment, provider
    <2>2. desk'[n] = row
      BY <1>1, <2>1 DEF MoneyInv, TypeOK
    <2>3. /\ row.status = "succeeded" <=> req[w].answer = "succeeded"
          /\ row.status \in {"succeeded", "failed"} /\ row.amount = req[w].amount
          /\ row.known <=> req[w].provider = "stripe" /\ req[w].answer # "error"
      BY DEF PaymentOf
    <2>4. row \in Book!Entry
      BY <1>1 DEF PaymentOf, Book!Entry
    <2>5. row.provider = "stripe" => Book!Agrees(row, intents[n])
      <3>1. ASSUME req[w].provider = "stripe", req[w].answer # "error"
            PROVE  /\ intents[n].answer # "error" /\ intents[n].amount = row.amount
                   /\ row.status = "succeeded" => intents[n].taken
        <4>1. intents[n].answer = req[w].answer /\ intents[n].amount = req[w].amount
          BY <1>1, <3>1 DEF MoneyInv, MemoryMatches
        <4>2. intents[n].answer = "succeeded" => intents[n].taken
          BY <1>1 DEF MoneyInv, RowMatches
        <4>3. QED
          BY <2>3, <3>1, <4>1, <4>2
      <3>2. intents[n].answer # "error" => intents[n] # NoIntent
        BY DEF NoIntent
      <3>3. row.provider = req[w].provider
        BY DEF PaymentOf
      <3>4. CASE row.known
        BY <2>3, <3>1, <3>2, <3>4, BookNames DEF Book!Agrees
      <3>5. CASE ~row.known /\ row.provider = "stripe"
        <4>1. row.status = "failed"
          BY <2>3, <3>3, <3>5
        <4>2. QED
          BY <3>5, <4>1 DEF Book!Agrees
      <3>6. QED
        BY <3>4, <3>5
    <2>6. (inv'.status = "paid") <=> (inv.status = "paid" \/ row.status = "succeeded")
      BY <2>1, <2>3 DEF MoneyInv, TypeOK, InvoiceRow
    <2>7. Book!Enter(n)
      BY <1>3, <2>1, <2>2, <2>3, <2>4, <2>5, <2>6, BookNames DEF Book!Enter
    <2>8. QED
      BY <1>1, <2>7 DEF Book!Next
  <1>4. QED
    BY <1>2, <1>3

\* The webhook's first update confirms an entry, its second pays the invoice.
LEMMA HookConfirms ==
    ASSUME MoneyInv, NEW w \in Slots,
           (\E n \in Attempt : WebhookPayment(w, n)) \/ ConfirmInvoice(w)
    PROVE  [Book!Next]_Book!book
  <1>1. ASSUME NEW n \in Attempt, WebhookPayment(w, n)  PROVE [Book!Next]_Book!book
    <2>1. intents[n].taken /\ UNCHANGED <<inv, intents, back>>
      BY <1>1 DEF WebhookPayment, provider
    <2>2. CASE HasIntentRow(n)
      <3>1. Book!Confirm(n)
        BY <1>1, <2>1, <2>2, BookNames DEF Book!Confirm, WebhookPayment
      <3>2. QED
        BY <3>1 DEF Book!Next
    <2>3. CASE ~HasIntentRow(n)
      BY <1>1, <2>1, <2>3, BookStutters DEF WebhookPayment
    <2>4. QED
      BY <2>2, <2>3
  <1>2. CASE ConfirmInvoice(w)
    <2>1. req[w].n \in Attempt /\ intents[req[w].n].taken
      BY <1>2, RequestFields DEF ConfirmInvoice, MoneyInv, TypeOK, MemoryMatches
    <2>2. UNCHANGED <<desk, intents, back>>
      BY <1>2 DEF ConfirmInvoice, provider
    <2>3. CASE inv' = inv
      BY <2>2, <2>3, BookStutters
    <2>4. CASE inv' # inv
      <3>1. HasIntentRow(req[w].n) /\ inv' = [inv EXCEPT !.status = "paid"]
        BY <1>2, <2>4 DEF ConfirmInvoice
      <3>2. inv'.status = "paid"
        BY <3>1 DEF MoneyInv, TypeOK, InvoiceRow
      <3>3. Book!Pay(req[w].n)
        BY <2>1, <2>2, <3>1, <3>2, BookNames DEF Book!Pay
      <3>4. QED
        BY <2>1, <3>3 DEF Book!Next
    <2>5. QED
      BY <2>3, <2>4
  <1>3. QED
    BY <1>1, <1>2

\* A charge, a discount or the check-out leaves the invoice as it is, or makes it payable.
LEMMA InvoiceReopens ==
    ASSUME MoneyInv, NEW w \in Slots, WriteCharge(w) \/ WriteDiscount(w) \/ CommitCheckOut(w)
    PROVE  [Book!Next]_Book!book
  <1>1. UNCHANGED <<desk, intents, back>>
    BY DEF WriteCharge, WriteDiscount, CommitCheckOut, provider
  <1>2. inv'.status = inv.status \/ inv'.status = "finalized"
    BY DEF WriteCharge, WriteDiscount, CommitCheckOut, MoneyInv, TypeOK, InvoiceRow
  <1>3. CASE inv'.status = inv.status
    BY <1>1, <1>3, BookStutters
  <1>4. CASE inv'.status = "finalized"
    <2>1. Book!Reopen
      BY <1>1, <1>4 DEF Book!Reopen
    <2>2. QED
      BY <2>1 DEF Book!Next
  <1>5. QED
    BY <1>2, <1>3, <1>4

LEMMA RefundIsGivenBack ==
    ASSUME BookInv, NEW w \in Slots, GiveBackOnCard(w)
    PROVE  [Book!Next]_Book!book
  <1>1. UNCHANGED <<inv, desk, intents>> /\ req[w].pc = "give_back"
    BY DEF GiveBackOnCard, tables
  <1>2. req[w].n \in Attempt /\ req[w].amount \in Nat /\ req[w].amount > 0
    BY <1>1, RequestFields DEF BookInv, MoneyInv, TypeOK, RefundAsked
  <1>3. back[req[w].n] \in Nat /\ intents[req[w].n].amount \in Nat
    BY <1>2 DEF BookInv, MoneyInv, TypeOK, Intent
  <1>4. CASE UNCHANGED back
    BY <1>1, <1>4, BookStutters
  <1>5. CASE ~UNCHANGED back
    <2> DEFINE sum == back[req[w].n] + req[w].amount
    <2>1. /\ intents[req[w].n].taken
          /\ sum <= intents[req[w].n].amount
          /\ back' = [back EXCEPT ![req[w].n] = sum]
      BY <1>5 DEF GiveBackOnCard
    <2>2. sum \in back[req[w].n] + 1 .. intents[req[w].n].amount
      BY <1>2, <1>3, <2>1
    <2>3. Book!GiveBack(req[w].n)
      BY <1>1, <2>1, <2>2 DEF Book!GiveBack
    <2>4. QED
      BY <1>2, <2>3 DEF Book!Next
  <1>6. QED
    BY <1>4, <1>5

\* The refund recorded is one of a payment that did not fail, and Stripe has made it.
LEMMA RefundIsEntered ==
    ASSUME BookInv, NEW w \in Slots, RecordRefund(w)
    PROVE  [Book!Next]_Book!book
  <1>1. UNCHANGED <<inv, intents, back>> /\ req[w].pc = "record_refund"
    BY DEF RecordRefund, provider
  <1>2. req[w].n \in Attempt
    BY <1>1, RequestFields DEF BookInv, MoneyInv, TypeOK
  <1>3. desk[req[w].n] # NoPayment /\ desk[req[w].n].status # "failed"
    BY <1>1 DEF BookInv, MoneyInv, MemoryMatches
  <1>4. CASE req[w].answer # "succeeded"
    BY <1>1, <1>4, BookStutters DEF RecordRefund
  <1>5. CASE req[w].answer = "succeeded"
    <2>1. desk[req[w].n].provider = "stripe" => back[req[w].n] > 0
      BY <1>1, <1>5 DEF BookInv, RefundAsked
    <2>2. desk' = [desk EXCEPT ![req[w].n].status = "refunded"]
      BY <1>5 DEF RecordRefund
    <2>3. Book!Refund(req[w].n)
      BY <1>1, <1>3, <2>1, <2>2, BookNames DEF Book!Refund
    <2>4. QED
      BY <1>2, <2>3 DEF Book!Next
  <1>6. QED
    BY <1>4, <1>5


\* The steps that only read, count, or ask the manual provider.
LEMMA OtherStepsStutter ==
    ASSUME NEW w \in Slots,
           \/ \E amount \in Amounts \cup {inv.total}, by \in {"stripe", "manual"} :
                 ReadInvoice(w, amount, by)
           \/ CountAttempts(w) \/ ChargeManual(w) \/ ReplayStripe(w)
           \/ ReadForPortal(w) \/ CountForPortal(w) \/ RecordPortal(w) \/ BeginCheckOut(w)
           \/ \E amount \in Amounts :
                \/ ReadForCharge(w, amount) \/ ReadForDiscount(w, amount)
                \/ \E n \in Attempt : ReadForRefund(w, n, amount)
           \/ GiveBackByHand(w) \/ Abandon(w) \/ Stop(w)
    PROVE  UNCHANGED Book!book
  <1>1. UNCHANGED <<inv, desk, intents, back>>
    BY DEF ReadInvoice, CountAttempts, ChargeManual, ReplayStripe, ReadForPortal,
           CountForPortal, RecordPortal, BeginCheckOut, ReadForCharge, ReadForDiscount,
           ReadForRefund, GiveBackByHand, Abandon, Stop, tables, provider
  <1>2. QED
    BY <1>1, BookStutters

LEMMA BookSimulates == BookInv /\ [Next]_vars => [Book!Next]_Book!book
  <1> SUFFICES ASSUME BookInv, [Next]_vars  PROVE [Book!Next]_Book!book
    OBVIOUS
  <1>1. MoneyInv
    BY DEF BookInv
  <1>2. ASSUME NEW w \in Cashiers, CashierStep(w)  PROVE [Book!Next]_Book!book
    <2>1. w \in Slots
      BY DEF Slots
    <2>2. QED
      BY <1>1, <1>2, <2>1, OtherStepsStutter, ChargeIsAsked, RecordIsEntered, InvoiceReopens
      DEF CashierStep
  <1>3. ASSUME NEW w \in Billers, BillerStep(w)  PROVE [Book!Next]_Book!book
    <2>1. w \in Slots
      BY DEF Slots
    <2>2. QED
      BY <1>1, <1>3, <2>1, OtherStepsStutter, InvoiceReopens, RefundIsGivenBack, RefundIsEntered
      DEF BillerStep
  <1>4. ASSUME NEW w \in Hooks, (\E n \in Attempt : WebhookPayment(w, n)) \/ ConfirmInvoice(w)
        PROVE  [Book!Next]_Book!book
    BY <1>1, <1>4, HookConfirms DEF Slots
  <1>5. ASSUME NEW w \in Slots, Abandon(w) \/ Stop(w)  PROVE [Book!Next]_Book!book
    BY <1>5, OtherStepsStutter
  <1>6. ASSUME NEW n \in Attempt, Settle(n)  PROVE [Book!Next]_Book!book
    BY <1>6, SettleIsTaken
  <1>7. CASE UNCHANGED vars
    BY <1>7, BookStutters DEF vars, tables, provider
  <1>8. QED
    BY <1>2, <1>3, <1>4, <1>5, <1>6, <1>7 DEF Next

\* However many payments, refunds and webhook calls are in flight, and wherever they are
\* cut short, billing does what the book of payments allows, step by step.
THEOREM BillingImplementsPaymentBook == Spec => ImplementsPaymentBook
  <1>1. Init => Book!Init
    <2>1. Init => inv.status # "paid"
      BY DEF Init
    <2>2. QED
      BY <2>1, BookNames DEF Init, Book!Init
  <1>2. QED
    BY <1>1, BookInvariant, BookSimulates, PTL DEF Spec, ImplementsPaymentBook, Book!Spec


-----------------------------------------------------------------------------
(* What the book alone promises *)

\* A card entry agrees with the charge of its key, and says success or refund only if the
\* money was taken.
EntryMatches(n) ==
    desk[n] # NoPayment /\ desk[n].provider = "stripe" =>
        IF desk[n].known
        THEN /\ intents[n] # NoIntent /\ intents[n].amount = desk[n].amount
             /\ desk[n].status # "failed" => intents[n].taken
        ELSE desk[n].status = "failed"

PaymentBookInv ==
    /\ intents \in [Attempt -> Book!Charge \cup {NoIntent}]
    /\ desk \in [Attempt -> Book!Entry \cup {NoPayment}]
    /\ \A n \in Attempt : EntryMatches(n)
    /\ PaidHasMoney

\* A step that makes no entry say less, and takes back no money, leaves a paid invoice so.
LEMMA PaidStays ==
    ASSUME PaidHasMoney, inv'.status = "paid" => inv.status = "paid",
           \A n \in Attempt : desk[n] # NoPayment =>
              /\ desk'[n] # NoPayment
              /\ desk[n].status # "failed" => desk'[n].status # "failed"
              /\ HasIntentRow(n) /\ intents[n].taken => HasIntentRow(n)' /\ intents'[n].taken
    PROVE  PaidHasMoney'
  <1> SUFFICES ASSUME inv'.status = "paid"
               PROVE  \E n \in Attempt : /\ desk'[n] # NoPayment
                                         /\ \/ desk'[n].status # "failed"
                                            \/ HasIntentRow(n)' /\ intents'[n].taken
    BY DEF PaidHasMoney, Recorded
  <1>1. PICK n \in Attempt : /\ desk[n] # NoPayment
                             /\ desk[n].status # "failed" \/ (HasIntentRow(n) /\ intents[n].taken)
    BY DEF PaidHasMoney, Recorded
  <1>2. QED
    BY <1>1

LEMMA EntryIsNone == NoPayment \notin Book!Entry
  <1>1. \A e \in Book!Entry : e.status \in {"failed", "succeeded", "refunded"}
    BY DEF Book!Entry
  <1>2. NoPayment.status = "absent"
    BY DEF NoPayment
  <1>3. QED
    BY <1>1, <1>2

\* The provider's steps: no charge is forgotten, and money that was taken stays taken.
LEMMA ProviderKeepsBook ==
    ASSUME PaymentBookInv, NEW k \in Attempt, Book!Ask(k) \/ Book!Take(k) \/ Book!GiveBack(k)
    PROVE  PaymentBookInv'
  <1> USE DEF PaymentBookInv
  <1>1. desk' = desk /\ (inv'.status = "paid" <=> inv.status = "paid")
    BY DEF Book!Ask, Book!Take, Book!GiveBack
  <1>2. /\ intents' \in [Attempt -> Book!Charge \cup {NoIntent}]
        /\ \A n \in Attempt \ {k} : intents'[n] = intents[n]
        /\ intents[k] # NoIntent => /\ intents'[k] # NoIntent
                                    /\ intents'[k].amount = intents[k].amount
        /\ intents[k].taken => intents'[k].taken
    <2>1. CASE Book!Ask(k)
      <3>1. intents' = [intents EXCEPT ![k] = intents'[k]] /\ intents'[k] \in Book!Charge
            /\ intents[k] = NoIntent
        BY <2>1, BookNames DEF Book!Ask
      <3>2. ~intents[k].taken
        BY <3>1 DEF NoIntent
      <3>3. QED
        BY <3>1, <3>2
    <2>2. CASE Book!Take(k)
      <3>1. intents' = [intents EXCEPT ![k].taken = TRUE] /\ intents[k].answer = "requires_action"
        BY <2>2 DEF Book!Take
      <3>2. intents[k] \in Book!Charge
        BY <3>1 DEF NoIntent
      <3>3. intents'[k] = [intents[k] EXCEPT !.taken = TRUE]
        BY <3>1
      <3>4. intents'[k] \in Book!Charge /\ intents'[k].amount = intents[k].amount
            /\ intents'[k].taken /\ intents'[k].answer = "requires_action"
        BY <3>1, <3>2, <3>3 DEF Book!Charge
      <3>5. intents'[k] # NoIntent
        BY <3>4 DEF NoIntent
      <3>6. QED
        BY <3>1, <3>4, <3>5
    <2>3. CASE Book!GiveBack(k)
      BY <2>3 DEF Book!GiveBack
    <2>4. QED
      BY <2>1, <2>2, <2>3
  <1>3. ASSUME NEW n \in Attempt  PROVE EntryMatches(n)'
    BY <1>1, <1>2 DEF EntryMatches
  <1>4. \A n \in Attempt : intents[n].taken => intents'[n].taken
    BY <1>2
  <1>5. PaidHasMoney'
    BY <1>1, <1>4, PaidStays DEF HasIntentRow
  <1>6. QED
    BY <1>1, <1>2, <1>3, <1>5

\* The book's own steps: an entry agrees when it is made, and changes with the charge only.
LEMMA EntriesKeepBook ==
    ASSUME PaymentBookInv, NEW k \in Attempt,
           Book!Enter(k) \/ Book!Confirm(k) \/ Book!Refund(k)
    PROVE  PaymentBookInv'
  <1> USE DEF PaymentBookInv
  <1>1. intents' = intents
    BY DEF Book!Enter, Book!Confirm, Book!Refund
  <1>2. CASE Book!Enter(k)
    <2>1. /\ desk[k] = NoPayment /\ desk'[k] \in Book!Entry
          /\ desk' = [desk EXCEPT ![k] = desk'[k]]
          /\ desk'[k].provider = "stripe" => Book!Agrees(desk'[k], intents[k])
          /\ desk'[k].status # "refunded"
          /\ inv'.status = "paid" <=> (inv.status = "paid" \/ desk'[k].status = "succeeded")
      BY <1>2, BookNames DEF Book!Enter
    <2>2. desk' \in [Attempt -> Book!Entry \cup {NoPayment}]
          /\ (\A n \in Attempt \ {k} : desk'[n] = desk[n]) /\ desk'[k] # NoPayment
      BY <2>1, EntryIsNone
    <2>3. desk'[k].status # "failed" => desk'[k].status = "succeeded"
      BY <2>1 DEF Book!Entry
    <2>4. ASSUME NEW n \in Attempt  PROVE EntryMatches(n)'
      <3>1. CASE n = k
        BY <1>1, <2>1, <2>3, <3>1, BookNames DEF EntryMatches, Book!Agrees
      <3>2. CASE n # k
        BY <1>1, <2>2, <3>2 DEF EntryMatches
      <3>3. QED
        BY <3>1, <3>2
    <2>5. PaidHasMoney'
      <3>1. CASE desk'[k].status = "succeeded"
        BY <2>2, <3>1 DEF PaidHasMoney, Recorded
      <3>2. CASE desk'[k].status # "succeeded"
        BY <1>1, <2>1, <2>2, <3>2, PaidStays DEF HasIntentRow
      <3>3. QED
        BY <3>1, <3>2
    <2>6. QED
      BY <1>1, <2>2, <2>4, <2>5
  <1>3. CASE Book!Confirm(k) \/ Book!Refund(k)
    <2>1. PICK status \in {"succeeded", "refunded"} :
             /\ desk' = [desk EXCEPT ![k].status = status]
             /\ desk[k] # NoPayment
             /\ \/ desk[k].provider = "stripe" /\ desk[k].known /\ intents[k].taken
                \/ desk[k].status # "failed"
      BY <1>3, BookNames DEF Book!Confirm, Book!Refund, Book!ByCard
    <2>2. inv'.status = "paid" <=> inv.status = "paid"
      BY <1>3 DEF Book!Confirm, Book!Refund
    <2>3. desk[k] \in Book!Entry
      BY <2>1
    <2>4. /\ desk'[k] = [desk[k] EXCEPT !.status = status]
          /\ \A n \in Attempt \ {k} : desk'[n] = desk[n]
      BY <2>1
    <2>5. /\ desk'[k].status = status /\ desk'[k].provider = desk[k].provider
          /\ desk'[k].amount = desk[k].amount /\ desk'[k].known = desk[k].known
          /\ desk'[k] \in Book!Entry
      BY <2>3, <2>4 DEF Book!Entry
    <2>6. desk'[k] # NoPayment /\ desk' \in [Attempt -> Book!Entry \cup {NoPayment}]
      BY <2>1, <2>4, <2>5, EntryIsNone
    <2>7. ASSUME NEW n \in Attempt  PROVE EntryMatches(n)'
      <3>1. CASE n = k
        BY <1>1, <2>1, <2>5, <3>1 DEF EntryMatches
      <3>2. CASE n # k
        BY <1>1, <2>4, <3>2 DEF EntryMatches
      <3>3. QED
        BY <3>1, <3>2
    <2>8. HasIntentRow(k)' <=> HasIntentRow(k)
      BY <2>1, <2>5, <2>6 DEF HasIntentRow
    <2>9. \A n \in Attempt \ {k} : HasIntentRow(n)' <=> HasIntentRow(n)
      BY <2>4 DEF HasIntentRow
    <2>10. PaidHasMoney'
      BY <1>1, <2>2, <2>4, <2>5, <2>6, <2>8, <2>9, PaidStays
    <2>11. QED
      BY <1>1, <2>6, <2>7, <2>10
  <1>4. QED
    BY <1>2, <1>3

LEMMA InvoiceKeepsBook ==
    ASSUME PaymentBookInv,
           (\E k \in Attempt : Book!Pay(k)) \/ Book!Reopen \/ UNCHANGED Book!book
    PROVE  PaymentBookInv'
  <1> USE DEF PaymentBookInv
  <1>1. UNCHANGED <<intents, desk>>
    BY DEF Book!Pay, Book!Reopen, Book!book
  <1>2. \A n \in Attempt : EntryMatches(n)'
    BY <1>1 DEF EntryMatches
  <1>3. PaidHasMoney'
    <2>1. ASSUME NEW k \in Attempt, Book!Pay(k)  PROVE PaidHasMoney'
      <3>1. HasIntentRow(k) /\ intents[k].taken
        BY <2>1, BookNames DEF Book!Pay
      <3>2. HasIntentRow(k)' /\ intents'[k].taken /\ desk'[k] # NoPayment
        BY <1>1, <3>1 DEF HasIntentRow
      <3>3. QED
        BY <3>2 DEF PaidHasMoney, Recorded
    <2>2. CASE inv'.status = "paid" => inv.status = "paid"
      BY <1>1, <2>2, PaidStays DEF HasIntentRow
    <2>3. QED
      BY <2>1, <2>2 DEF Book!Reopen, Book!book
  <1>4. QED
    BY <1>1, <1>2, <1>3

\* Whoever keeps the book of payments, by whatever steps, records as card money only money
\* that was taken, of that amount, and has a paid invoice only over a payment that moved money.
THEOREM PaymentBookKeepsMoney == Book!Spec => [](RecordedWasTaken /\ PaidHasMoney)
  <1>1. Book!Init => PaymentBookInv
    <2> SUFFICES ASSUME Book!Init  PROVE PaymentBookInv
      OBVIOUS
    <2>1. /\ intents = [n \in Attempt |-> NoIntent] /\ desk = [n \in Attempt |-> NoPayment]
          /\ inv.status # "paid"
      BY BookNames DEF Book!Init
    <2>2. QED
      BY <2>1 DEF PaymentBookInv, EntryMatches, PaidHasMoney
  <1>2. PaymentBookInv /\ [Book!Next]_Book!book => PaymentBookInv'
    BY ProviderKeepsBook, EntriesKeepBook, InvoiceKeepsBook DEF Book!Next
  <1>3. PaymentBookInv => RecordedWasTaken /\ PaidHasMoney
    BY DEF PaymentBookInv, EntryMatches, RecordedWasTaken, Recorded
  <1>4. QED
    BY <1>1, <1>2, <1>3, PTL DEF Book!Spec

=============================================================================
