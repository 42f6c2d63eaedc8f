------------------------------ MODULE Payments ------------------------------
(***************************************************************************)
(* One-off invoices: POST /api/billing/invoice and the payment_intent      *)
(* events of POST /api/billing/webhooks/stripe (routes/billing.ts).        *)
(*                                                                         *)
(* A customer can pay a PaymentIntent only with its client_secret, which   *)
(* the answer to POST /invoice carries after the Invoice row is written.   *)
(* Stripe posts an event until it is answered 200, so an event may come    *)
(* late, out of order, again, or twice at one time; the handler answers    *)
(* 400 to every error.  Intents of subscription invoices are posted to the *)
(* same endpoint and have no Invoice row.                                  *)
(***************************************************************************)
EXTENDS Naturals

CONSTANTS
  Intents,      \* PaymentIntent ids, used once each
  Requests,     \* requests to POST /invoice
  Hooks,        \* webhook handlers that may be running at one time
  None,         \* no row, no intent, no event
  MaxAttempts,  \* bound: deliveries of one event
  MaxFaults     \* bound: failed calls, lost answers, crashes

ASSUME PaymentsAssumption ==
  /\ None \notin Intents \cup {"DRAFT", "PAID", "SUCCEEDED", "FAILED"}
  /\ MaxAttempts \in Nat /\ MaxFaults \in Nat

VARIABLES
  intent,     \* PaymentIntents at Stripe
  foreign,    \* intents Stripe made for a subscription invoice
  revealed,   \* intents whose client_secret a customer has
  invoice,    \* status of the Invoice row with stripeId p
  paidAt,     \* its paidAt: how many times it has been set, 0 for null
  payment,    \* status of the Payment row with stripePaymentId p
  posted,     \* events Stripe has posted
  attempts,   \* deliveries of each event
  acked,      \* events answered 200
  request,
  hook,
  faults

stripe   == <<intent, foreign, revealed, posted>>
delivery == <<attempts, acked, hook>>
rows     == <<invoice, paidAt, payment>>
vars     == <<stripe, delivery, rows, request, faults>>

Event == [intent : Intents, type : {"succeeded", "failed"}]

RequestRecord == [pc : {"idle", "save", "done"}, intent : Intents \cup {None}]

HookRecord == [pc  : {"idle", "update", "insert", "commit", "insertFailed"},
               msg : Event \cup {None}]

TypeOK ==
  /\ intent \in [Intents -> {"none", "open", "succeeded"}]
  /\ foreign \subseteq Intents /\ revealed \subseteq Intents
  /\ invoice \in [Intents -> {"DRAFT", "PAID", None}]
  /\ paidAt \in [Intents -> Nat]
  /\ payment \in [Intents -> {"SUCCEEDED", "FAILED", None}]
  /\ posted \subseteq Event /\ acked \subseteq posted
  /\ attempts \in [Event -> Nat]
  /\ request \in [Requests -> RequestRecord]
  /\ hook \in [Hooks -> HookRecord]
  /\ faults \in Nat

Waiting == [pc |-> "idle", msg |-> None]
Served  == [pc |-> "done", intent |-> None]

Init ==
  /\ intent = [p \in Intents |-> "none"]
  /\ foreign = {} /\ revealed = {} /\ posted = {} /\ acked = {}
  /\ invoice = [p \in Intents |-> None]
  /\ paidAt = [p \in Intents |-> 0]
  /\ payment = [p \in Intents |-> None]
  /\ attempts = [m \in Event |-> 0]
  /\ request = [r \in Requests |-> [pc |-> "idle", intent |-> None]]
  /\ hook = [h \in Hooks |-> Waiting]
  /\ faults = 0

Fault == faults < MaxFaults /\ faults' = faults + 1
-----------------------------------------------------------------------------
(* POST /api/billing/invoice *)

\* Mutant: the client_secret is sent before the row is written.
CreateIntentTold(r) ==
  /\ request[r].pc = "idle"
  /\ \E p \in Intents :
       /\ intent[p] = "none"
       /\ intent' = [intent EXCEPT ![p] = "open"]
       /\ revealed' = revealed \cup {p}
       /\ request' = [request EXCEPT ![r] = [pc |-> "save", intent |-> p]]
  /\ UNCHANGED <<foreign, posted, delivery, rows, faults>>

CreateIntent(r) ==
  /\ request[r].pc = "idle"
  /\ \E p \in Intents :
       /\ intent[p] = "none"
       /\ intent' = [intent EXCEPT ![p] = "open"]
       /\ request' = [request EXCEPT ![r] = [pc |-> "save", intent |-> p]]
  /\ UNCHANGED <<foreign, revealed, posted, delivery, rows, faults>>

InsertInvoice(r) ==
  /\ request[r].pc = "save"
  /\ invoice' = [invoice EXCEPT ![request[r].intent] = "DRAFT"]
  /\ request' = [request EXCEPT ![r] = Served]
  /\ UNCHANGED <<intent, foreign, posted, delivery, paidAt, payment>>

SaveInvoice(r) ==
  /\ InsertInvoice(r)
  /\ revealed' = revealed \cup {request[r].intent}
  /\ UNCHANGED faults

\* The row is written but the process dies, or the answer is lost.
AnswerLost(r) ==
  /\ InsertInvoice(r)
  /\ Fault
  /\ UNCHANGED revealed

\* Stripe or the insert fails: an intent made before stays at Stripe.
RequestFails(r) ==
  /\ request[r].pc \in {"idle", "save"}
  /\ Fault
  /\ request' = [request EXCEPT ![r] = Served]
  /\ UNCHANGED <<stripe, delivery, rows>>
-----------------------------------------------------------------------------
(* Stripe and its customers *)

\* POST /subscribe or a renewal makes an intent for the subscription's invoice.
SubscriptionIntent(p) ==
  /\ intent[p] = "none"
  /\ intent' = [intent EXCEPT ![p] = "open"]
  /\ foreign' = foreign \cup {p}
  /\ revealed' = revealed \cup {p}
  /\ UNCHANGED <<posted, delivery, rows, request, faults>>

\* A customer confirms the intent: a refused card leaves it open.
Pay(p) ==
  /\ p \in revealed
  /\ intent[p] = "open"
  /\ \/ /\ intent' = [intent EXCEPT ![p] = "succeeded"]
        /\ posted' = posted \cup {[intent |-> p, type |-> "succeeded"]}
     \/ /\ posted' = posted \cup {[intent |-> p, type |-> "failed"]}
        /\ UNCHANGED intent
  /\ UNCHANGED <<foreign, revealed, delivery, rows, request, faults>>
-----------------------------------------------------------------------------
(* POST /api/billing/webhooks/stripe *)

Arrives(m) ==
  /\ m \in posted
  /\ attempts[m] < MaxAttempts
  /\ attempts' = [attempts EXCEPT ![m] = @ + 1]

HookUnknown(m) ==
  /\ Arrives(m)
  /\ invoice[m.intent] = None
  /\ acked' = acked \cup {m}
  /\ UNCHANGED <<stripe, rows, request, hook, faults>>

HookFind(h, m) ==
  /\ hook[h].pc = "idle"
  /\ Arrives(m)
  /\ invoice[m.intent] # None
  /\ hook' = [hook EXCEPT ![h] =
       [pc |-> IF m.type = "succeeded" THEN "update" ELSE "insertFailed", msg |-> m]]
  /\ UNCHANGED <<stripe, rows, request, acked, faults>>

Subject(h) == hook[h].msg.intent

\* The handler's transaction has updated the invoice and holds its lock.
HoldsInvoice(h) == hook[h].pc \in {"insert", "commit"}

Locked(h) == \E g \in Hooks \ {h} : HoldsInvoice(g) /\ Subject(g) = Subject(h)

\* Another transaction has inserted the payment and not yet ended.
KeyHeld(h) == \E g \in Hooks \ {h} : hook[g].pc = "commit" /\ Subject(g) = Subject(h)

Goto(h, pc) == hook' = [hook EXCEPT ![h] = [@ EXCEPT !.pc = pc]]
Abandon(h)  == hook' = [hook EXCEPT ![h] = Waiting]

Acknowledge(h) ==
  /\ acked' = acked \cup {hook[h].msg}
  /\ Abandon(h)

MarkPaid(p) ==
  /\ invoice' = [invoice EXCEPT ![p] = "PAID"]
  /\ paidAt' = [paidAt EXCEPT ![p] = @ + 1]

\* Mutant: the two writes are not in one transaction.
TxUpdateAtOnce(h) ==
  /\ hook[h].pc = "update"
  /\ MarkPaid(Subject(h))
  /\ Goto(h, "insert")
  /\ UNCHANGED <<stripe, payment, request, attempts, acked, faults>>

TxUpdate(h) ==
  /\ hook[h].pc = "update"
  /\ ~Locked(h)
  /\ Goto(h, "insert")
  /\ UNCHANGED <<stripe, rows, request, attempts, acked, faults>>

TxInsert(h) ==
  /\ hook[h].pc = "insert"
  /\ payment[Subject(h)] = None
  /\ Goto(h, "commit")
  /\ UNCHANGED <<stripe, rows, request, attempts, acked, faults>>

TxCommit(h) ==
  /\ hook[h].pc = "commit"
  /\ MarkPaid(Subject(h))
  /\ payment' = [payment EXCEPT ![Subject(h)] = "SUCCEEDED"]
  /\ Acknowledge(h)
  /\ UNCHANGED <<stripe, request, attempts, faults>>

\* Mutant: the duplicate is tolerated and the update is committed without it.
TxDuplicateTolerated(h) ==
  /\ hook[h].pc = "insert"
  /\ payment[Subject(h)] # None
  /\ MarkPaid(Subject(h))
  /\ Acknowledge(h)
  /\ UNCHANGED <<stripe, payment, request, attempts, faults>>

\* stripePaymentId is taken: the transaction is rolled back, the answer 400.
TxDuplicate(h) ==
  /\ hook[h].pc = "insert"
  /\ payment[Subject(h)] # None
  /\ Abandon(h)
  /\ UNCHANGED <<stripe, rows, request, attempts, acked, faults>>

RecordFailure(h) ==
  /\ hook[h].pc = "insertFailed"
  /\ ~KeyHeld(h)
  /\ payment[Subject(h)] = None
  /\ payment' = [payment EXCEPT ![Subject(h)] = "FAILED"]
  /\ Acknowledge(h)
  /\ UNCHANGED <<stripe, invoice, paidAt, request, attempts, faults>>

FailureDuplicate(h) ==
  /\ hook[h].pc = "insertFailed"
  /\ ~KeyHeld(h)
  /\ payment[Subject(h)] # None
  /\ Abandon(h)
  /\ UNCHANGED <<stripe, rows, request, attempts, acked, faults>>

\* Mutant: the answer is 200 whatever happened.
HookDiesAcked(h) ==
  /\ hook[h].pc # "idle"
  /\ Fault
  /\ Acknowledge(h)
  /\ UNCHANGED <<stripe, rows, request, attempts>>

\* A call fails or the process dies: nothing was committed, no 200 is sent.
HookDies(h) ==
  /\ hook[h].pc # "idle"
  /\ Fault
  /\ Abandon(h)
  /\ UNCHANGED <<stripe, rows, request, attempts, acked>>
-----------------------------------------------------------------------------
RequestStep(r) == CreateIntent(r) \/ SaveInvoice(r) \/ AnswerLost(r) \/ RequestFails(r)

HookStep(h) ==
  \/ TxUpdate(h) \/ TxInsert(h) \/ TxCommit(h) \/ TxDuplicate(h)
  \/ RecordFailure(h) \/ FailureDuplicate(h) \/ HookDies(h)

Next ==
  \/ \E r \in Requests : RequestStep(r)
  \/ \E p \in Intents : SubscriptionIntent(p) \/ Pay(p)
  \/ \E m \in Event : HookUnknown(m)
  \/ \E h \in Hooks, m \in Event : HookFind(h, m)
  \/ \E h \in Hooks : HookStep(h)

Spec == Init /\ [][Next]_vars

Deliver(m) == HookUnknown(m) \/ \E h \in Hooks : HookFind(h, m)

\* Node and the database go on; Stripe delivers until it is answered 200.
\* Nothing obliges a user to ask for an invoice or a customer to pay.
FairSpec ==
  /\ Spec
  /\ \A h \in Hooks : WF_vars(HookStep(h))
  /\ \A m \in Event : WF_vars(m \notin acked /\ Deliver(m))
-----------------------------------------------------------------------------
(* Properties *)

\* The books agree: an invoice is PAID exactly when a SUCCEEDED payment is
\* recorded for it, and then Stripe did take the money; a FAILED payment is
\* one that Stripe reported.
BooksAgree ==
  \A p \in Intents :
    /\ invoice[p] = "PAID" <=> payment[p] = "SUCCEEDED"
    /\ invoice[p] = "PAID" => intent[p] = "succeeded"
    /\ payment[p] = "FAILED" => [intent |-> p, type |-> "failed"] \in posted

\* No event about an intent of POST /invoice can come before its row is
\* there, so "no invoice: answer 200" forgets no payment of an invoice.
NoPaymentForgotten ==
  \A m \in posted : m.intent \notin foreign => invoice[m.intent] # None

\* An invoice is paid once: no repeated or concurrent delivery moves paidAt.
\* (The runs check it as part of BooksAreLedger below.)
PaidOnce ==
  [][\A p \in Intents : invoice[p] = "PAID"
        => invoice'[p] = "PAID" /\ paidAt'[p] = paidAt[p]]_vars

\* A payment that Stripe took is entered, whatever fails and however often
\* its event comes, unless a FAILED payment occupies its stripePaymentId.
SuccessIsEntered ==
  \A p \in Intents :
    intent[p] = "succeeded" /\ p \notin foreign
      ~> invoice[p] = "PAID" \/ payment[p] = "FAILED"

\* "handles payment_intent.succeeded - updates invoice and creates payment":
\* an invoice whose intent succeeded is PAID sooner or later.
SuccessIsPaid ==
  \A p \in Intents :
    intent[p] = "succeeded" /\ p \notin foreign ~> invoice[p] = "PAID"
\* The invoice and the payment of an intent, as one entry of the books.
Entry(p) ==
  CASE invoice[p] = None /\ payment[p] = None /\ paidAt[p] = 0 -> "none"
    [] invoice[p] = "DRAFT" /\ payment[p] = None /\ paidAt[p] = 0 -> "open"
    [] invoice[p] = "DRAFT" /\ payment[p] = "FAILED" /\ paidAt[p] = 0 -> "struck"
    [] invoice[p] = "PAID" /\ payment[p] = "SUCCEEDED" /\ paidAt[p] = 1 -> "paid"
    [] OTHER -> "torn"

Taken   == {p \in Intents : intent[p] = "succeeded"}
Refused == {p \in Intents : [intent |-> p, type |-> "failed"] \in posted}
Entries == [p \in Intents |-> Entry(p)]

Ledger == INSTANCE PaymentLedger WITH
  others <- foreign, taken <- Taken, refused <- Refused, entry <- Entries

\* Handlers, repeated deliveries and failures do not show in the books: their
\* steps are those of the ledger, whose entries are closed once and for a reason.
BooksAreLedger == Ledger!Spec
-----------------------------------------------------------------------------
(***************************************************************************)
(* Why they hold: an event is only posted about an intent whose secret is  *)
(* out, a request in progress owns its intent, and of the handlers that    *)
(* have updated an invoice one at most has not ended.                      *)
(***************************************************************************)
PostedTrue ==
  \A m \in posted :
    m.intent \in revealed /\ (m.type = "succeeded" => intent[m.intent] = "succeeded")

RowsTrue ==
  /\ \A p \in revealed \ foreign : invoice[p] # None
  /\ \A p \in Intents : intent[p] = "none" => invoice[p] = None

RequestsTrue ==
  \A r \in Requests : request[r].pc = "save"
    => LET p == request[r].intent IN
       /\ p \in Intents /\ intent[p] # "none" /\ invoice[p] = None
       /\ \A s \in Requests \ {r} : request[s].pc = "save" => request[s].intent # p

HookTrue(h) ==
  /\ hook[h].pc # "idle" => hook[h].msg \in posted /\ invoice[Subject(h)] # None
  /\ hook[h].pc \in {"update", "insert", "commit"} => hook[h].msg.type = "succeeded"
  /\ hook[h].pc = "insertFailed" => hook[h].msg.type = "failed"
  /\ hook[h].pc = "commit" => payment[Subject(h)] = None
  /\ HoldsInvoice(h) => ~Locked(h)

IInv ==
  /\ TypeOK
  /\ BooksAgree
  /\ NoPaymentForgotten
  /\ PostedTrue
  /\ RowsTrue
  /\ RequestsTrue
  /\ \A h \in Hooks : HookTrue(h)

\* What the refinement needs besides: a subscription's intent never gets a row,
\* nobody pays without the secret, and a row is written before what closes it.
ForeignTrue ==
  /\ \A p \in foreign : p \in revealed /\ invoice[p] = None
  /\ \A r \in Requests : request[r].pc = "save" => request[r].intent \notin foreign

SecretsTrue ==
  \A p \in Intents :
    /\ p \in revealed => intent[p] # "none"
    /\ intent[p] = "succeeded" => p \in revealed

ClosedOnce ==
  \A p \in Intents :
    /\ paidAt[p] = (IF invoice[p] = "PAID" THEN 1 ELSE 0)
    /\ payment[p] # None => invoice[p] # None

LedgerInv == IInv /\ ForeignTrue /\ SecretsTrue /\ ClosedOnce
=============================================================================
