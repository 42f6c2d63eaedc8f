--------------------------- MODULE PaymentsProofs ---------------------------
(***************************************************************************)
(* Payments for every set of intents, requests and handlers, every number  *)
(* of deliveries and every number of failures.                             *)
(***************************************************************************)
EXTENDS Payments, TLAPS

USE DEF Subject, HoldsInvoice, Locked

\* The only change a handler that goes on makes to the handlers.
LEMMA GotoType ==
  ASSUME TypeOK, NEW h \in Hooks,
         NEW pc \in {"idle", "update", "insert", "commit", "insertFailed"},
         Goto(h, pc)
  PROVE  /\ hook' \in [Hooks -> HookRecord]
         /\ hook'[h].pc = pc /\ hook'[h].msg = hook[h].msg
         /\ \A g \in Hooks \ {h} : hook'[g] = hook[g]
<1>1. [hook[h] EXCEPT !.pc = pc] \in HookRecord
  BY DEF TypeOK, HookRecord
<1>2. /\ [hook[h] EXCEPT !.pc = pc].pc = pc
      /\ [hook[h] EXCEPT !.pc = pc].msg = hook[h].msg
  BY DEF TypeOK, HookRecord
<1>3. QED
  BY <1>1, <1>2 DEF TypeOK, Goto

\* A handler that ends leaves the others as they are.
LEMMA AbandonType ==
  ASSUME TypeOK, NEW h \in Hooks, Abandon(h)
  PROVE  /\ hook' \in [Hooks -> HookRecord]
         /\ hook'[h] = Waiting
         /\ \A g \in Hooks \ {h} : hook'[g] = hook[g]
<1>1. Waiting \in HookRecord
  BY DEF Waiting, HookRecord
<1>2. QED
  BY <1>1 DEF TypeOK, Abandon

\* A handler in progress has an event that was posted, about an intent.
LEMMA SubjectIn ==
  ASSUME TypeOK, NEW h \in Hooks, HookTrue(h), hook[h].pc # "idle"
  PROVE  hook[h].msg \in posted /\ hook[h].msg \in Event /\ Subject(h) \in Intents
  BY DEF TypeOK, HookTrue, Event

-----------------------------------------------------------------------------
(* POST /api/billing/invoice *)

LEMMA CreateIntentInv ==
  ASSUME IInv, NEW r \in Requests, CreateIntent(r)
  PROVE  IInv'
<1>1. PICK p \in Intents :
        /\ intent[p] = "none"
        /\ intent' = [intent EXCEPT ![p] = "open"]
        /\ request' = [request EXCEPT ![r] = [pc |-> "save", intent |-> p]]
  BY DEF CreateIntent
<1>2. UNCHANGED <<foreign, revealed, posted, attempts, acked, hook,
                  invoice, paidAt, payment, faults>>
  BY DEF CreateIntent, delivery, rows
<1>3. TypeOK'
  <2>1. [pc |-> "save", intent |-> p] \in RequestRecord
    BY DEF RequestRecord
  <2>2. QED
    BY <1>1, <1>2, <2>1 DEF IInv, TypeOK
<1>4. BooksAgree' /\ NoPaymentForgotten'
  BY <1>1, <1>2 DEF IInv, TypeOK, BooksAgree, NoPaymentForgotten
<1>5. PostedTrue'
  BY <1>1, <1>2 DEF IInv, TypeOK, PostedTrue, Event
<1>6. RowsTrue'
  BY <1>1, <1>2 DEF IInv, TypeOK, RowsTrue
<1>7. RequestsTrue'
  <2>1. request'[r] = [pc |-> "save", intent |-> p]
    BY <1>1 DEF IInv, TypeOK
  <2>2. \A s \in Requests \ {r} : request'[s] = request[s]
    BY <1>1 DEF IInv, TypeOK
  <2>3. \A s \in Requests : request[s].pc = "save" => request[s].intent # p
    BY <1>1 DEF IInv, RequestsTrue
  <2>4. invoice[p] = None
    BY <1>1 DEF IInv, RowsTrue
  <2>5. \A q \in Intents : intent[q] # "none" => intent'[q] # "none"
    BY <1>1 DEF IInv, TypeOK
  <2>6. intent'[p] # "none"
    BY <1>1 DEF IInv, TypeOK
  <2>7. QED
    BY <1>2, <2>1, <2>2, <2>3, <2>4, <2>5, <2>6 DEF IInv, RequestsTrue
<1>8. \A h \in Hooks : HookTrue(h)'
  BY <1>2 DEF IInv, HookTrue
<1>9. QED
  BY <1>3, <1>4, <1>5, <1>6, <1>7, <1>8 DEF IInv

LEMMA InsertInvoiceInv ==
  ASSUME IInv, NEW r \in Requests, InsertInvoice(r), faults' \in Nat,
         revealed' \in {revealed, revealed \cup {request[r].intent}}
  PROVE  IInv'
<1>1. PICK p \in Intents : p = request[r].intent
  BY DEF IInv, RequestsTrue, InsertInvoice
<1>2. request[r].pc = "save" /\ intent[p] # "none" /\ invoice[p] = None
  BY <1>1 DEF IInv, RequestsTrue, InsertInvoice
<1>3. /\ invoice' = [invoice EXCEPT ![p] = "DRAFT"]
      /\ request' = [request EXCEPT ![r] = Served]
      /\ UNCHANGED <<intent, foreign, posted, attempts, acked, hook, paidAt, payment>>
      /\ revealed' \in {revealed, revealed \cup {p}}
  BY <1>1 DEF InsertInvoice, delivery
<1>4. TypeOK'
  <2>1. Served \in RequestRecord
    BY DEF RequestRecord, Served
  <2>2. QED
    BY <1>3, <2>1 DEF IInv, TypeOK
<1>5. BooksAgree'
  <2>1. payment[p] # "SUCCEEDED"
    BY <1>2, PaymentsAssumption DEF IInv, BooksAgree
  <2>2. QED
    BY <1>2, <1>3, <2>1 DEF IInv, TypeOK, BooksAgree
<1>r. \A q \in Intents : invoice[q] # None => invoice'[q] # None
  BY <1>3, PaymentsAssumption DEF IInv, TypeOK
<1>6. NoPaymentForgotten'
  BY <1>3, <1>r DEF IInv, TypeOK, NoPaymentForgotten, Event
<1>7. PostedTrue'
  BY <1>3 DEF IInv, PostedTrue
<1>8. RowsTrue'
  BY <1>2, <1>3, PaymentsAssumption DEF IInv, TypeOK, RowsTrue
<1>9. RequestsTrue'
  <2>1. request'[r].pc = "done"
    BY <1>3 DEF IInv, TypeOK, Served
  <2>2. \A s \in Requests \ {r} : request'[s] = request[s]
    BY <1>3 DEF IInv, TypeOK
  <2>3. \A s \in Requests \ {r} : request[s].pc = "save" => request[s].intent # p
    BY <1>1, <1>2 DEF IInv, RequestsTrue
  <2>4. \A q \in Intents \ {p} : invoice'[q] = invoice[q]
    BY <1>3 DEF IInv, TypeOK
  <2>5. QED
    BY <1>3, <2>1, <2>2, <2>3, <2>4 DEF IInv, RequestsTrue
<1>10. \A h \in Hooks : HookTrue(h)'
  BY <1>3, <1>r, SubjectIn DEF IInv, HookTrue
<1>11. QED
  BY <1>4, <1>5, <1>6, <1>7, <1>8, <1>9, <1>10 DEF IInv

LEMMA RequestFailsInv ==
  ASSUME IInv, NEW r \in Requests, RequestFails(r)
  PROVE  IInv'
<1>1. /\ request' = [request EXCEPT ![r] = Served]
      /\ UNCHANGED <<stripe, delivery, rows>>
      /\ faults' \in Nat
  BY DEF RequestFails, Fault, IInv, TypeOK
<1>2. TypeOK'
  BY <1>1 DEF IInv, TypeOK, RequestRecord, Served, stripe, delivery, rows
<1>3. RequestsTrue'
  <2>1. request'[r].pc = "done"
    BY <1>1 DEF IInv, TypeOK, Served
  <2>2. \A s \in Requests \ {r} : request'[s] = request[s]
    BY <1>1 DEF IInv, TypeOK
  <2>3. QED
    BY <1>1, <2>1, <2>2 DEF IInv, RequestsTrue, stripe, rows
<1>4. BooksAgree' /\ NoPaymentForgotten' /\ PostedTrue' /\ RowsTrue'
  BY <1>1 DEF IInv, BooksAgree, NoPaymentForgotten, PostedTrue, RowsTrue, stripe, rows
<1>5. \A h \in Hooks : HookTrue(h)'
  BY <1>1 DEF IInv, HookTrue, stripe, rows, delivery
<1>6. QED
  BY <1>2, <1>3, <1>4, <1>5 DEF IInv

-----------------------------------------------------------------------------
(* Stripe *)

LEMMA SubscriptionIntentInv ==
  ASSUME IInv, NEW p \in Intents, SubscriptionIntent(p)
  PROVE  IInv'
<1>1. /\ intent[p] = "none"
      /\ intent' = [intent EXCEPT ![p] = "open"]
      /\ foreign' = foreign \cup {p}
      /\ revealed' = revealed \cup {p}
      /\ UNCHANGED <<posted, delivery, rows, request, faults>>
  BY DEF SubscriptionIntent
<1>2. TypeOK'
  BY <1>1 DEF IInv, TypeOK, delivery, rows
<1>3. BooksAgree' /\ NoPaymentForgotten' /\ PostedTrue' /\ RowsTrue'
  BY <1>1 DEF IInv, TypeOK, BooksAgree, NoPaymentForgotten, PostedTrue, RowsTrue,
              Event, rows
<1>4. RequestsTrue'
  <2>1. \A q \in Intents : intent[q] # "none" => intent'[q] # "none"
    BY <1>1 DEF IInv, TypeOK
  <2>2. QED
    BY <1>1, <2>1 DEF IInv, RequestsTrue, rows
<1>5. \A h \in Hooks : HookTrue(h)'
  BY <1>1 DEF IInv, HookTrue, rows, delivery
<1>6. QED
  BY <1>2, <1>3, <1>4, <1>5 DEF IInv

LEMMA PayInv ==
  ASSUME IInv, NEW p \in Intents, Pay(p)
  PROVE  IInv'
<1>1. /\ p \in revealed /\ intent[p] = "open"
      /\ UNCHANGED <<foreign, revealed, delivery, rows, request, faults>>
  BY DEF Pay
<1>2. PICK m \in Event :
        /\ m.intent = p
        /\ posted' = posted \cup {m}
        /\ \/ m.type = "succeeded" /\ intent' = [intent EXCEPT ![p] = "succeeded"]
           \/ m.type = "failed" /\ intent' = intent
  <2> DEFINE e(t) == [intent |-> p, type |-> t]
  <2>1. e("succeeded") \in Event /\ e("failed") \in Event
    BY DEF Event
  <2>2. e("succeeded").intent = p /\ e("failed").intent = p
        /\ e("succeeded").type = "succeeded" /\ e("failed").type = "failed"
    OBVIOUS
  <2>3. QED
    BY <2>1, <2>2 DEF Pay
<1>3. \A q \in Intents : /\ intent[q] = "succeeded" => intent'[q] = "succeeded"
                         /\ intent'[q] = "none" <=> intent[q] = "none"
  BY <1>1, <1>2 DEF IInv, TypeOK
<1>4. TypeOK'
  BY <1>1, <1>2 DEF IInv, TypeOK, delivery, rows
<1>5. BooksAgree'
  BY <1>1, <1>2, <1>3 DEF IInv, BooksAgree, rows
<1>6. p \notin foreign => invoice[p] # None
  BY <1>1 DEF IInv, RowsTrue
<1>7. NoPaymentForgotten'
  BY <1>1, <1>2, <1>6 DEF IInv, NoPaymentForgotten, rows
<1>8. PostedTrue'
  <2>1. m.type = "succeeded" => intent'[p] = "succeeded"
    BY <1>2 DEF IInv, TypeOK
  <2>2. QED
    BY <1>1, <1>2, <1>3, <2>1 DEF IInv, TypeOK, PostedTrue, Event
<1>9. RowsTrue' /\ RequestsTrue'
  BY <1>1, <1>3 DEF IInv, RowsTrue, RequestsTrue, rows
<1>10. \A h \in Hooks : HookTrue(h)'
  BY <1>1, <1>2 DEF IInv, HookTrue, rows, delivery
<1>11. QED
  BY <1>4, <1>5, <1>7, <1>8, <1>9, <1>10 DEF IInv

-----------------------------------------------------------------------------
(* The webhook *)

\* What a delivery and the answer to it leave alone.
LEMMA HookFrame ==
  ASSUME IInv, UNCHANGED <<stripe, rows, request>>
  PROVE  BooksAgree' /\ NoPaymentForgotten' /\ PostedTrue' /\ RowsTrue' /\ RequestsTrue'
  BY DEF IInv, BooksAgree, NoPaymentForgotten, PostedTrue, RowsTrue, RequestsTrue,
         stripe, rows

\* A handler may stop at any time, having committed nothing.
LEMMA AbandonInv ==
  ASSUME IInv, NEW h \in Hooks, Abandon(h),
         UNCHANGED <<stripe, rows, request, attempts>>,
         acked' \in SUBSET posted, faults' \in Nat
  PROVE  IInv'
<1>1. /\ hook' \in [Hooks -> HookRecord]
      /\ hook'[h].pc = "idle"
      /\ \A g \in Hooks \ {h} : hook'[g] = hook[g]
  BY AbandonType DEF IInv, Waiting
<1>2. TypeOK'
  BY <1>1 DEF IInv, TypeOK, stripe, rows
<1>3. \A g \in Hooks : HookTrue(g)'
  <2>1. HookTrue(h)'
    BY <1>1 DEF HookTrue
  <2>2. ASSUME NEW g \in Hooks \ {h} PROVE HookTrue(g)'
    BY <1>1, <2>2 DEF IInv, HookTrue, stripe, rows
  <2>3. QED
    BY <2>1, <2>2
<1>4. QED
  BY <1>2, <1>3, HookFrame DEF IInv

LEMMA HookUnknownInv ==
  ASSUME IInv, NEW m \in Event, HookUnknown(m)
  PROVE  IInv'
<1>1. /\ attempts' = [attempts EXCEPT ![m] = @ + 1]
      /\ acked' = acked \cup {m} /\ m \in posted
      /\ UNCHANGED <<stripe, rows, request, hook, faults>>
  BY DEF HookUnknown, Arrives
<1>2. TypeOK'
  BY <1>1 DEF IInv, TypeOK, stripe, rows
<1>3. \A h \in Hooks : HookTrue(h)'
  BY <1>1 DEF IInv, HookTrue, stripe, rows
<1>4. QED
  BY <1>1, <1>2, <1>3, HookFrame DEF IInv

LEMMA HookFindInv ==
  ASSUME IInv, NEW h \in Hooks, NEW m \in Event, HookFind(h, m)
  PROVE  IInv'
<1> DEFINE pc == IF m.type = "succeeded" THEN "update" ELSE "insertFailed"
           k  == [pc |-> pc, msg |-> m]
<1>1. /\ m \in posted /\ invoice[m.intent] # None
      /\ attempts' = [attempts EXCEPT ![m] = @ + 1]
      /\ hook' = [hook EXCEPT ![h] = k]
      /\ UNCHANGED <<stripe, rows, request, acked, faults>>
  BY DEF HookFind, Arrives
<1>2. k \in HookRecord /\ k.pc = pc /\ k.msg = m
  BY DEF HookRecord
<1>3. hook'[h] = k /\ \A g \in Hooks \ {h} : hook'[g] = hook[g]
  BY <1>1 DEF IInv, TypeOK
<1>4. TypeOK'
  BY <1>1, <1>2 DEF IInv, TypeOK, stripe, rows
<1>5. \A g \in Hooks : HookTrue(g)'
  <2>1. HookTrue(h)'
    BY <1>1, <1>2, <1>3 DEF HookTrue, stripe, rows, Event
  <2>2. ASSUME NEW g \in Hooks \ {h} PROVE HookTrue(g)'
    <3>1. hook'[h].pc \notin {"insert", "commit"}
      BY <1>2, <1>3
    <3>2. QED
      BY <1>1, <1>3, <2>2, <3>1 DEF IInv, HookTrue, stripe, rows
  <2>3. QED
    BY <2>1, <2>2
<1>6. QED
  BY <1>1, <1>4, <1>5, HookFrame DEF IInv

LEMMA TxUpdateInv ==
  ASSUME IInv, NEW h \in Hooks, TxUpdate(h)
  PROVE  IInv'
<1>1. /\ hook[h].pc = "update" /\ ~Locked(h) /\ Goto(h, "insert")
      /\ UNCHANGED <<stripe, rows, request, attempts, acked, faults>>
  BY DEF TxUpdate
<1>2. /\ hook' \in [Hooks -> HookRecord]
      /\ hook'[h].pc = "insert" /\ hook'[h].msg = hook[h].msg
      /\ \A g \in Hooks \ {h} : hook'[g] = hook[g]
  BY <1>1, GotoType DEF IInv
<1>3. TypeOK'
  BY <1>1, <1>2 DEF IInv, TypeOK, stripe, rows
<1>4. \A g \in Hooks : HookTrue(g)'
  <2>1. HookTrue(h)'
    BY <1>1, <1>2 DEF IInv, HookTrue, stripe, rows
  <2>2. ASSUME NEW g \in Hooks \ {h} PROVE HookTrue(g)'
    BY <1>1, <1>2, <2>2 DEF IInv, HookTrue, stripe, rows
  <2>3. QED
    BY <2>1, <2>2
<1>5. QED
  BY <1>1, <1>3, <1>4, HookFrame DEF IInv

LEMMA TxInsertInv ==
  ASSUME IInv, NEW h \in Hooks, TxInsert(h)
  PROVE  IInv'
<1>1. /\ hook[h].pc = "insert" /\ payment[Subject(h)] = None /\ Goto(h, "commit")
      /\ UNCHANGED <<stripe, rows, request, attempts, acked, faults>>
  BY DEF TxInsert
<1>2. /\ hook' \in [Hooks -> HookRecord]
      /\ hook'[h].pc = "commit" /\ hook'[h].msg = hook[h].msg
      /\ \A g \in Hooks \ {h} : hook'[g] = hook[g]
  BY <1>1, GotoType DEF IInv
<1>3. TypeOK'
  BY <1>1, <1>2 DEF IInv, TypeOK, stripe, rows
<1>4. \A g \in Hooks : HookTrue(g)'
  <2>1. HookTrue(h)'
    BY <1>1, <1>2 DEF IInv, HookTrue, stripe, rows
  <2>2. ASSUME NEW g \in Hooks \ {h} PROVE HookTrue(g)'
    BY <1>1, <1>2, <2>2 DEF IInv, HookTrue, stripe, rows
  <2>3. QED
    BY <2>1, <2>2
<1>5. QED
  BY <1>1, <1>3, <1>4, HookFrame DEF IInv

LEMMA TxCommitInv ==
  ASSUME IInv, NEW h \in Hooks, TxCommit(h)
  PROVE  IInv' /\ invoice[Subject(h)] # "PAID"
<1>1. PICK p \in Intents : p = Subject(h)
  BY SubjectIn DEF IInv, TxCommit
<1>2. /\ hook[h].pc = "commit"
      /\ invoice' = [invoice EXCEPT ![p] = "PAID"]
      /\ paidAt' = [paidAt EXCEPT ![p] = @ + 1]
      /\ payment' = [payment EXCEPT ![p] = "SUCCEEDED"]
      /\ acked' = acked \cup {hook[h].msg}
      /\ Abandon(h)
      /\ UNCHANGED <<stripe, request, attempts, faults>>
  BY <1>1 DEF TxCommit, MarkPaid, Acknowledge
<1>3. hook[h].msg \in posted /\ hook[h].msg.type = "succeeded"
      /\ hook[h].msg.intent = p
  BY <1>1, <1>2, SubjectIn DEF IInv, HookTrue
<1>4. intent[p] = "succeeded" /\ invoice[p] # None /\ payment[p] = None
  BY <1>1, <1>2, <1>3 DEF IInv, PostedTrue, HookTrue
<1>5. invoice[p] # "PAID"
  BY <1>4, PaymentsAssumption DEF IInv, BooksAgree
<1>6. /\ hook' \in [Hooks -> HookRecord]
      /\ hook'[h].pc = "idle"
      /\ \A g \in Hooks \ {h} : hook'[g] = hook[g]
  BY <1>2, AbandonType DEF IInv, Waiting
<1>7. TypeOK'
  BY <1>2, <1>3, <1>6 DEF IInv, TypeOK, stripe
<1>8. BooksAgree'
  BY <1>2, <1>4 DEF IInv, TypeOK, BooksAgree, stripe
<1>r. \A q \in Intents : /\ invoice[q] # None => invoice'[q] # None
                         /\ invoice[q] = None => invoice'[q] = None
  BY <1>2, <1>4, PaymentsAssumption DEF IInv, TypeOK
<1>9. NoPaymentForgotten' /\ PostedTrue'
  BY <1>2, <1>r DEF IInv, TypeOK, NoPaymentForgotten, PostedTrue, Event, stripe
<1>10. RowsTrue' /\ RequestsTrue'
  BY <1>2, <1>r DEF IInv, TypeOK, RowsTrue, RequestsTrue, stripe
<1>11. \A g \in Hooks : HookTrue(g)'
  <2>1. HookTrue(h)'
    BY <1>6 DEF HookTrue
  <2>2. ASSUME NEW g \in Hooks \ {h} PROVE HookTrue(g)'
    <3>1. hook[g].pc = "commit" => Subject(g) # p
      BY <1>1, <1>2 DEF IInv, HookTrue
    <3>2. hook[g].pc # "idle" => Subject(g) \in Intents /\ hook[g].msg \in posted
      BY SubjectIn DEF IInv
    <3>3. hook[g].pc # "idle" => invoice'[Subject(g)] # None
      BY <1>r, <3>2 DEF IInv, HookTrue
    <3>4. hook[g].pc = "commit" => payment'[Subject(g)] = None
      BY <1>2, <3>1, <3>2 DEF IInv, TypeOK, HookTrue
    <3>5. QED
      BY <1>2, <1>6, <2>2, <3>2, <3>3, <3>4 DEF IInv, HookTrue, stripe
  <2>3. QED
    BY <2>1, <2>2
<1>12. QED
  BY <1>1, <1>5, <1>7, <1>8, <1>9, <1>10, <1>11 DEF IInv

LEMMA RecordFailureInv ==
  ASSUME IInv, NEW h \in Hooks, RecordFailure(h)
  PROVE  IInv'
<1>1. PICK p \in Intents : p = Subject(h)
  BY SubjectIn DEF IInv, RecordFailure
<1>2. /\ hook[h].pc = "insertFailed" /\ ~KeyHeld(h) /\ payment[p] = None
      /\ payment' = [payment EXCEPT ![p] = "FAILED"]
      /\ acked' = acked \cup {hook[h].msg}
      /\ Abandon(h)
      /\ UNCHANGED <<stripe, invoice, paidAt, request, attempts, faults>>
  BY <1>1 DEF RecordFailure, Acknowledge
<1>3. /\ hook[h].msg \in posted
      /\ hook[h].msg = [intent |-> p, type |-> "failed"]
  BY <1>1, <1>2, SubjectIn DEF IInv, HookTrue, Event
<1>4. /\ hook' \in [Hooks -> HookRecord]
      /\ hook'[h].pc = "idle"
      /\ \A g \in Hooks \ {h} : hook'[g] = hook[g]
  BY <1>2, AbandonType DEF IInv, Waiting
<1>5. TypeOK'
  BY <1>2, <1>3, <1>4 DEF IInv, TypeOK, stripe
<1>6. BooksAgree'
  BY <1>2, <1>3, PaymentsAssumption DEF IInv, TypeOK, BooksAgree, stripe
<1>7. NoPaymentForgotten' /\ PostedTrue' /\ RowsTrue' /\ RequestsTrue'
  BY <1>2 DEF IInv, NoPaymentForgotten, PostedTrue, RowsTrue, RequestsTrue, stripe
<1>8. \A g \in Hooks : HookTrue(g)'
  <2>1. HookTrue(h)'
    BY <1>4 DEF HookTrue
  <2>2. ASSUME NEW g \in Hooks \ {h} PROVE HookTrue(g)'
    <3>1. hook[g].pc = "commit" => Subject(g) # p
      BY <1>1, <1>2 DEF KeyHeld
    <3>2. hook[g].pc # "idle" => Subject(g) \in Intents
      BY SubjectIn DEF IInv
    <3>3. hook[g].pc = "commit" => payment'[Subject(g)] = None
      BY <1>2, <3>1, <3>2 DEF IInv, TypeOK, HookTrue
    <3>4. QED
      BY <1>2, <1>4, <2>2, <3>3 DEF IInv, HookTrue, stripe
  <2>3. QED
    BY <2>1, <2>2
<1>9. QED
  BY <1>5, <1>6, <1>7, <1>8 DEF IInv

LEMMA HookStepInv ==
  ASSUME IInv, NEW h \in Hooks, HookStep(h)
  PROVE  IInv'
<1>1. CASE TxUpdate(h)
  BY <1>1, TxUpdateInv
<1>2. CASE TxInsert(h)
  BY <1>2, TxInsertInv
<1>3. CASE TxCommit(h)
  BY <1>3, TxCommitInv
<1>4. CASE TxDuplicate(h) \/ FailureDuplicate(h)
  BY <1>4, AbandonInv DEF TxDuplicate, FailureDuplicate, IInv, TypeOK
<1>5. CASE RecordFailure(h)
  BY <1>5, RecordFailureInv
<1>6. CASE HookDies(h)
  BY <1>6, AbandonInv DEF HookDies, Fault, IInv, TypeOK
<1>7. QED
  BY <1>1, <1>2, <1>3, <1>4, <1>5, <1>6 DEF HookStep

-----------------------------------------------------------------------------
LEMMA InitInv == Init => IInv
<1> SUFFICES ASSUME Init PROVE IInv
  OBVIOUS
<1>1. Waiting \in HookRecord
  BY DEF Waiting, HookRecord
<1>2. [pc |-> "idle", intent |-> None] \in RequestRecord
  BY DEF RequestRecord
<1>3. TypeOK
  BY <1>1, <1>2 DEF Init, TypeOK
<1>4. BooksAgree /\ NoPaymentForgotten /\ PostedTrue /\ RowsTrue
  BY PaymentsAssumption DEF Init, BooksAgree, NoPaymentForgotten, PostedTrue, RowsTrue
<1>5. RequestsTrue /\ \A h \in Hooks : HookTrue(h)
  BY DEF Init, RequestsTrue, HookTrue, Waiting
<1>6. QED
  BY <1>3, <1>4, <1>5 DEF IInv

LEMMA RequestStepInv ==
  ASSUME IInv, NEW r \in Requests, RequestStep(r)
  PROVE  IInv'
<1>1. CASE CreateIntent(r)
  BY <1>1, CreateIntentInv
<1>2. CASE SaveInvoice(r) \/ AnswerLost(r)
  BY <1>2, InsertInvoiceInv DEF SaveInvoice, AnswerLost, Fault, IInv, TypeOK
<1>3. CASE RequestFails(r)
  BY <1>3, RequestFailsInv
<1>4. QED
  BY <1>1, <1>2, <1>3 DEF RequestStep

LEMMA StutterInv ==
  ASSUME IInv, UNCHANGED vars
  PROVE  IInv'
<1>1. UNCHANGED <<stripe, rows, request>> /\ UNCHANGED <<delivery, faults>>
  BY DEF vars
<1>2. TypeOK'
  BY <1>1 DEF IInv, TypeOK, stripe, rows, delivery
<1>3. \A h \in Hooks : HookTrue(h)'
  BY <1>1 DEF IInv, HookTrue, stripe, rows, delivery
<1>4. QED
  BY <1>1, <1>2, <1>3, HookFrame DEF IInv

LEMMA NextInv == IInv /\ [Next]_vars => IInv'
<1> SUFFICES ASSUME IInv, [Next]_vars PROVE IInv'
  OBVIOUS
<1>1. ASSUME NEW r \in Requests, RequestStep(r) PROVE IInv'
  BY <1>1, RequestStepInv
<1>2. ASSUME NEW p \in Intents, SubscriptionIntent(p) \/ Pay(p) PROVE IInv'
  BY <1>2, SubscriptionIntentInv, PayInv
<1>3. ASSUME NEW m \in Event, HookUnknown(m) PROVE IInv'
  BY <1>3, HookUnknownInv
<1>4. ASSUME NEW h \in Hooks, NEW m \in Event, HookFind(h, m) PROVE IInv'
  BY <1>4, HookFindInv
<1>5. ASSUME NEW h \in Hooks, HookStep(h) PROVE IInv'
  BY <1>5, HookStepInv
<1>6. CASE UNCHANGED vars
  BY <1>6, StutterInv
<1>7. QED
  BY <1>1, <1>2, <1>3, <1>4, <1>5, <1>6 DEF Next

\* The inductive invariant: the properties and why they hold.
THEOREM Invariance == Spec => []IInv
  BY InitInv, NextInv, PTL DEF Spec

\* Every variable has its type, for every set of intents and handlers.
THEOREM TypeCorrect == Spec => []TypeOK
<1>1. IInv => TypeOK
  BY DEF IInv
<1>2. QED
  BY <1>1, Invariance, PTL

\* However events are repeated, reordered and handled at one time, an
\* invoice is PAID exactly when a SUCCEEDED payment is recorded for it.
THEOREM BooksKept == Spec => []BooksAgree
<1>1. IInv => BooksAgree
  BY DEF IInv
<1>2. QED
  BY <1>1, Invariance, PTL

\* The webhook never drops an event about an invoice as unknown.
THEOREM NothingForgotten == Spec => []NoPaymentForgotten
<1>1. IInv => NoPaymentForgotten
  BY DEF IInv
<1>2. QED
  BY <1>1, Invariance, PTL

\* No delivery pays an invoice a second time.
THEOREM PaidOnceOnly == Spec => PaidOnce
<1> DEFINE Stays == \A p \in Intents : invoice[p] = "PAID"
                      => invoice'[p] = "PAID" /\ paidAt'[p] = paidAt[p]
<1>1. IInv /\ [Next]_vars => [Stays]_vars
  <2> SUFFICES ASSUME IInv, Next PROVE Stays
    BY DEF Next
  <2>1. ASSUME NEW r \in Requests, RequestStep(r) PROVE Stays
    <3>1. CASE CreateIntent(r) \/ RequestFails(r)
      BY <3>1 DEF CreateIntent, RequestFails, rows
    <3>2. CASE InsertInvoice(r)
      <4>1. PICK p \in Intents : p = request[r].intent /\ invoice[p] = None
        BY <3>2 DEF IInv, RequestsTrue, InsertInvoice
      <4>2. invoice' = [invoice EXCEPT ![p] = "DRAFT"] /\ paidAt' = paidAt
        BY <3>2, <4>1 DEF InsertInvoice
      <4>3. QED
        BY <4>1, <4>2, PaymentsAssumption DEF IInv, TypeOK
    <3>3. QED
      BY <2>1, <3>1, <3>2 DEF RequestStep, SaveInvoice, AnswerLost
  <2>2. ASSUME NEW p \in Intents, SubscriptionIntent(p) \/ Pay(p) PROVE Stays
    BY <2>2 DEF SubscriptionIntent, Pay, rows
  <2>3. ASSUME NEW m \in Event, HookUnknown(m) PROVE Stays
    BY <2>3 DEF HookUnknown, rows
  <2>4. ASSUME NEW h \in Hooks, NEW m \in Event, HookFind(h, m) PROVE Stays
    BY <2>4 DEF HookFind, rows
  <2>5. ASSUME NEW h \in Hooks, HookStep(h) PROVE Stays
    <3>1. CASE TxCommit(h)
      <4>1. PICK p \in Intents : p = Subject(h)
        BY <3>1, SubjectIn DEF IInv, TxCommit
      <4>2. invoice[p] # "PAID"
        BY <3>1, <4>1, TxCommitInv
      <4>3. /\ invoice' = [invoice EXCEPT ![p] = "PAID"]
            /\ paidAt' = [paidAt EXCEPT ![p] = @ + 1]
        BY <3>1, <4>1 DEF TxCommit, MarkPaid
      <4>4. QED
        BY <4>2, <4>3 DEF IInv, TypeOK
    <3>2. CASE ~TxCommit(h)
      BY <2>5, <3>2 DEF HookStep, TxUpdate, TxInsert, TxDuplicate, RecordFailure,
                        FailureDuplicate, HookDies, rows
    <3>3. QED
      BY <3>1, <3>2
  <2>6. QED
    BY <2>1, <2>2, <2>3, <2>4, <2>5 DEF Next
<1>2. QED
  BY <1>1, Invariance, PTL DEF Spec, PaidOnce
-----------------------------------------------------------------------------
(***************************************************************************)
(* The books are a ledger.  Three more facts are inductive beside IInv;    *)
(* they say which steps open an entry and that a closed one is whole.      *)
(***************************************************************************)

LEMMA RequestStepLedger ==
  ASSUME LedgerInv, NEW r \in Requests, RequestStep(r)
  PROVE  ForeignTrue' /\ SecretsTrue' /\ ClosedOnce'
<1>1. CASE CreateIntent(r)
  <2>1. PICK p \in Intents :
          /\ intent[p] = "none"
          /\ intent' = [intent EXCEPT ![p] = "open"]
          /\ request' = [request EXCEPT ![r] = [pc |-> "save", intent |-> p]]
    BY <1>1 DEF CreateIntent
  <2>2. UNCHANGED <<foreign, revealed, invoice, paidAt, payment>>
    BY <1>1 DEF CreateIntent, rows
  <2>3. p \notin foreign
    BY <2>1 DEF LedgerInv, ForeignTrue, SecretsTrue
  <2>4. \A s \in Requests : request'[s].pc = "save" => request'[s].intent \notin foreign
    BY <2>1, <2>3 DEF LedgerInv, IInv, TypeOK, ForeignTrue
  <2>5. QED
    BY <2>1, <2>2, <2>4 DEF LedgerInv, IInv, TypeOK, ForeignTrue, SecretsTrue, ClosedOnce
<1>2. CASE InsertInvoice(r) /\ revealed' \in {revealed, revealed \cup {request[r].intent}}
  <2>1. PICK p \in Intents :
          /\ p = request[r].intent /\ p \notin foreign
          /\ intent[p] # "none" /\ invoice[p] = None
    BY <1>2 DEF LedgerInv, IInv, RequestsTrue, ForeignTrue, InsertInvoice
  <2>2. /\ invoice' = [invoice EXCEPT ![p] = "DRAFT"]
        /\ request' = [request EXCEPT ![r] = Served]
        /\ UNCHANGED <<intent, foreign, paidAt, payment>>
    BY <1>2, <2>1 DEF InsertInvoice
  <2>3. ForeignTrue'
    <3>1. \A q \in foreign : q \in Intents /\ q \in revealed' /\ invoice'[q] = None
      BY <1>2, <2>1, <2>2 DEF LedgerInv, IInv, TypeOK, ForeignTrue
    <3>2. \A s \in Requests : request'[s].pc = "save" => request'[s].intent \notin foreign
      BY <2>2 DEF LedgerInv, IInv, TypeOK, ForeignTrue, Served
    <3>3. QED
      BY <2>2, <3>1, <3>2 DEF ForeignTrue
  <2>4. SecretsTrue'
    BY <1>2, <2>1, <2>2 DEF LedgerInv, SecretsTrue
  <2>5. ClosedOnce'
    BY <2>1, <2>2, PaymentsAssumption DEF LedgerInv, IInv, TypeOK, ClosedOnce
  <2>6. QED
    BY <2>3, <2>4, <2>5
<1>3. CASE RequestFails(r)
  <2>1. request' = [request EXCEPT ![r] = Served] /\ UNCHANGED <<stripe, rows>>
    BY <1>3 DEF RequestFails
  <2>2. \A s \in Requests : request'[s].pc = "save" => request'[s].intent \notin foreign
    BY <2>1 DEF LedgerInv, IInv, TypeOK, ForeignTrue, Served
  <2>3. QED
    BY <2>1, <2>2 DEF LedgerInv, ForeignTrue, SecretsTrue, ClosedOnce, stripe, rows
<1>4. QED
  BY <1>1, <1>2, <1>3 DEF RequestStep, SaveInvoice, AnswerLost

LEMMA StripeStepLedger ==
  ASSUME LedgerInv, NEW p \in Intents, SubscriptionIntent(p) \/ Pay(p)
  PROVE  ForeignTrue' /\ SecretsTrue' /\ ClosedOnce'
<1>1. CASE SubscriptionIntent(p)
  <2>1. invoice[p] = None
    BY <1>1 DEF LedgerInv, IInv, RowsTrue, SubscriptionIntent
  <2>2. \A r \in Requests : request[r].pc = "save" => request[r].intent # p
    BY <1>1 DEF LedgerInv, IInv, RequestsTrue, SubscriptionIntent
  <2>3. QED
    BY <1>1, <2>1, <2>2 DEF SubscriptionIntent, rows, LedgerInv, IInv, TypeOK,
                            ForeignTrue, SecretsTrue, ClosedOnce
<1>2. CASE Pay(p)
  <2>1. /\ p \in revealed
        /\ intent' = [intent EXCEPT ![p] = "succeeded"] \/ intent' = intent
        /\ UNCHANGED <<foreign, revealed, rows, request>>
    BY <1>2 DEF Pay
  <2>2. QED
    BY <2>1 DEF LedgerInv, IInv, TypeOK, ForeignTrue, SecretsTrue, ClosedOnce, rows
<1>3. QED
  BY <1>1, <1>2

LEMMA HookStepLedger ==
  ASSUME LedgerInv, NEW h \in Hooks, HookStep(h)
  PROVE  ForeignTrue' /\ SecretsTrue' /\ ClosedOnce'
<1>1. CASE TxCommit(h)
  <2>1. PICK p \in Intents : p = Subject(h) /\ invoice[p] # None
    BY <1>1, SubjectIn DEF LedgerInv, IInv, TxCommit, HookTrue
  <2>2. invoice[p] # "PAID"
    BY <1>1, <2>1, TxCommitInv DEF LedgerInv
  <2>3. /\ invoice' = [invoice EXCEPT ![p] = "PAID"]
        /\ paidAt' = [paidAt EXCEPT ![p] = @ + 1]
        /\ payment' = [payment EXCEPT ![p] = "SUCCEEDED"]
        /\ UNCHANGED <<stripe, request>>
    BY <1>1, <2>1 DEF TxCommit, MarkPaid
  <2>4. ForeignTrue' /\ SecretsTrue'
    BY <2>1, <2>3 DEF LedgerInv, IInv, TypeOK, ForeignTrue, SecretsTrue, stripe
  <2>5. ClosedOnce'
    BY <2>1, <2>2, <2>3, PaymentsAssumption DEF LedgerInv, IInv, TypeOK, ClosedOnce
  <2>6. QED
    BY <2>4, <2>5
<1>2. CASE RecordFailure(h)
  <2>1. PICK p \in Intents : p = Subject(h) /\ invoice[p] # None
    BY <1>2, SubjectIn DEF LedgerInv, IInv, RecordFailure, HookTrue
  <2>2. /\ payment' = [payment EXCEPT ![p] = "FAILED"]
        /\ UNCHANGED <<stripe, invoice, paidAt, request>>
    BY <1>2, <2>1 DEF RecordFailure
  <2>3. QED
    BY <2>1, <2>2 DEF LedgerInv, IInv, TypeOK, ForeignTrue, SecretsTrue, ClosedOnce, stripe
<1>3. CASE UNCHANGED <<stripe, rows, request>>
  BY <1>3 DEF LedgerInv, ForeignTrue, SecretsTrue, ClosedOnce, stripe, rows
<1>4. QED
  BY <1>1, <1>2, <1>3 DEF HookStep, TxUpdate, TxInsert, TxDuplicate, FailureDuplicate,
                          HookDies

LEMMA LedgerInvInit == Init => LedgerInv
  BY InitInv, PaymentsAssumption
  DEF Init, LedgerInv, ForeignTrue, SecretsTrue, ClosedOnce

LEMMA LedgerInvNext == LedgerInv /\ [Next]_vars => LedgerInv'
<1> SUFFICES ASSUME LedgerInv, [Next]_vars PROVE ForeignTrue' /\ SecretsTrue' /\ ClosedOnce'
  BY NextInv DEF LedgerInv
<1>1. ASSUME NEW r \in Requests, RequestStep(r)
      PROVE  ForeignTrue' /\ SecretsTrue' /\ ClosedOnce'
  BY <1>1, RequestStepLedger
<1>2. ASSUME NEW p \in Intents, SubscriptionIntent(p) \/ Pay(p)
      PROVE  ForeignTrue' /\ SecretsTrue' /\ ClosedOnce'
  BY <1>2, StripeStepLedger
<1>3. ASSUME NEW h \in Hooks, HookStep(h)
      PROVE  ForeignTrue' /\ SecretsTrue' /\ ClosedOnce'
  BY <1>3, HookStepLedger
<1>4. CASE UNCHANGED <<stripe, rows, request>>
  BY <1>4 DEF LedgerInv, ForeignTrue, SecretsTrue, ClosedOnce, stripe, rows
<1>5. (\E m \in Event : HookUnknown(m)) \/ (\E h \in Hooks, m \in Event : HookFind(h, m))
      \/ UNCHANGED vars => UNCHANGED <<stripe, rows, request>>
  BY DEF HookUnknown, HookFind, vars
<1>6. QED
  BY <1>1, <1>2, <1>3, <1>4, <1>5 DEF Next

-----------------------------------------------------------------------------
(* Each step of Payments is a step of the ledger, or none. *)

\* What the two rows of an intent are, in the ledger.
LEMMA EntryIs ==
  ASSUME LedgerInv, NEW p \in Intents
  PROVE  /\ Entry(p) = "none" <=> invoice[p] = None
         /\ invoice[p] = "DRAFT" /\ payment[p] = None => Entry(p) = "open"
         /\ payment[p] = "FAILED" => Entry(p) = "struck"
         /\ invoice[p] = "PAID" => Entry(p) = "paid"
<1>1. /\ invoice[p] \in {"DRAFT", "PAID", None}
      /\ payment[p] \in {"SUCCEEDED", "FAILED", None}
  BY DEF LedgerInv, IInv, TypeOK
<1>2. /\ paidAt[p] = (IF invoice[p] = "PAID" THEN 1 ELSE 0)
      /\ payment[p] # None => invoice[p] # None
      /\ invoice[p] = "PAID" <=> payment[p] = "SUCCEEDED"
  BY DEF LedgerInv, IInv, ClosedOnce, BooksAgree
<1>3. QED
  BY <1>1, <1>2, PaymentsAssumption DEF Entry

\* A step that writes the rows of one intent changes its entry only.
LEMMA OneEntry ==
  ASSUME NEW p \in Intents, NEW e,
         \A q \in Intents \ {p} : /\ invoice'[q] = invoice[q] /\ paidAt'[q] = paidAt[q]
                                  /\ payment'[q] = payment[q],
         Entry(p)' = e
  PROVE  Entries' = [Entries EXCEPT ![p] = e]
<1>1. \A q \in Intents \ {p} : Entry(q)' = Entry(q)
  BY DEF Entry
<1>2. QED
  BY <1>1 DEF Entries

LEMMA SameEntries ==
  ASSUME UNCHANGED rows
  PROVE  UNCHANGED Entries
  BY DEF Entries, Entry, rows

LEMMA InsertInvoiceOpens ==
  ASSUME LedgerInv, LedgerInv', NEW r \in Requests, InsertInvoice(r)
  PROVE  \E p \in Intents : Ledger!Open(p)
<1>1. PICK p \in Intents : p = request[r].intent /\ p \notin foreign /\ invoice[p] = None
  BY DEF LedgerInv, IInv, RequestsTrue, ForeignTrue, InsertInvoice
<1>2. /\ invoice' = [invoice EXCEPT ![p] = "DRAFT"]
      /\ UNCHANGED <<intent, foreign, posted, paidAt, payment>>
  BY <1>1 DEF InsertInvoice
<1>3. Entry(p) = "none"
  BY <1>1, EntryIs
<1>4. payment[p] = None
  BY <1>1 DEF LedgerInv, ClosedOnce
<1>5. invoice'[p] = "DRAFT" /\ payment'[p] = None /\ paidAt'[p] = 0
  BY <1>1, <1>2, <1>4, PaymentsAssumption DEF LedgerInv, IInv, TypeOK, ClosedOnce
<1>6. Entry(p)' = "open"
  BY <1>5, PaymentsAssumption DEF Entry
<1>7. Entries' = [Entries EXCEPT ![p] = "open"]
  BY <1>2, <1>6, OneEntry DEF LedgerInv, IInv, TypeOK
<1>8. Entries[p] = "none" /\ UNCHANGED <<Taken, Refused>>
  BY <1>2, <1>3 DEF Entries, Taken, Refused
<1>9. QED
  BY <1>1, <1>2, <1>7, <1>8 DEF Ledger!Open, Ledger!Payable

LEMMA StripeStepLedgers ==
  ASSUME LedgerInv, NEW p \in Intents, SubscriptionIntent(p) \/ Pay(p)
  PROVE  Ledger!Other(p) \/ Ledger!Take(p) \/ Ledger!Refuse(p)
<1> DEFINE failed(q) == [intent |-> q, type |-> "failed"]
<1>1. CASE SubscriptionIntent(p)
  <2>1. p \notin foreign /\ invoice[p] = None
    BY <1>1 DEF LedgerInv, IInv, RowsTrue, ForeignTrue, SecretsTrue, SubscriptionIntent
  <2>2. /\ intent[p] = "none" /\ intent' = [intent EXCEPT ![p] = "open"]
        /\ foreign' = foreign \cup {p}
        /\ UNCHANGED <<posted, rows>>
    BY <1>1 DEF SubscriptionIntent
  <2>3. Entries[p] = "none" /\ UNCHANGED Entries
    BY <2>1, <2>2, EntryIs, SameEntries DEF Entries
  <2>4. UNCHANGED <<Taken, Refused>>
    BY <2>2 DEF LedgerInv, IInv, TypeOK, Taken, Refused
  <2>5. QED
    BY <2>1, <2>2, <2>3, <2>4 DEF Ledger!Other, Ledger!Payable
<1>2. CASE Pay(p)
  <2>1. /\ p \in revealed /\ intent[p] = "open"
        /\ UNCHANGED <<foreign, rows>>
    BY <1>2 DEF Pay
  <2>2. Ledger!Payable(p) /\ p \notin Taken /\ UNCHANGED Entries
    <3>1. p \in foreign \/ invoice[p] # None
      BY <2>1 DEF LedgerInv, IInv, RowsTrue
    <3>2. QED
      BY <2>1, <3>1, EntryIs, SameEntries DEF Ledger!Payable, Entries, Taken
  <2>3. CASE /\ intent' = [intent EXCEPT ![p] = "succeeded"]
             /\ posted' = posted \cup {[intent |-> p, type |-> "succeeded"]}
    <3>1. Taken' = Taken \cup {p}
      BY <2>3 DEF LedgerInv, IInv, TypeOK, Taken
    <3>2. Refused' = Refused
      BY <2>3 DEF Refused
    <3>3. QED
      BY <2>1, <2>2, <3>1, <3>2 DEF Ledger!Take
  <2>4. CASE posted' = posted \cup {failed(p)} /\ intent' = intent
    <3>1. \A q \in Intents : failed(q) = failed(p) <=> q = p
      OBVIOUS
    <3>2. Refused' = Refused \cup {p} /\ Taken' = Taken
      BY <2>4, <3>1 DEF Refused, Taken
    <3>3. QED
      BY <2>1, <2>2, <3>2 DEF Ledger!Refuse
  <2>5. QED
    BY <1>2, <2>3, <2>4 DEF Pay
<1>3. QED
  BY <1>1, <1>2

LEMMA TxCommitEnters ==
  ASSUME LedgerInv, LedgerInv', NEW h \in Hooks, TxCommit(h)
  PROVE  \E p \in Intents : Ledger!Enter(p)
<1>1. PICK p \in Intents : p = Subject(h)
  BY SubjectIn DEF LedgerInv, IInv, TxCommit
<1>2. /\ hook[h].msg \in posted /\ hook[h].msg.type = "succeeded"
      /\ invoice[p] # None /\ payment[p] = None
  BY <1>1, SubjectIn DEF LedgerInv, IInv, TxCommit, HookTrue
<1>3. p \in Taken
  BY <1>1, <1>2 DEF LedgerInv, IInv, PostedTrue, Taken
<1>4. invoice[p] = "DRAFT"
  BY <1>1, <1>2, TxCommitInv DEF LedgerInv, IInv, TypeOK
<1>5. /\ invoice' = [invoice EXCEPT ![p] = "PAID"]
      /\ paidAt' = [paidAt EXCEPT ![p] = @ + 1]
      /\ payment' = [payment EXCEPT ![p] = "SUCCEEDED"]
      /\ UNCHANGED <<intent, foreign, posted>>
  BY <1>1 DEF TxCommit, MarkPaid, stripe
<1>6. invoice'[p] = "PAID"
  BY <1>5 DEF LedgerInv, IInv, TypeOK
<1>7. Entry(p) = "open" /\ Entry(p)' = "paid"
  <2>1. Entry(p) = "open"
    BY <1>2, <1>4, EntryIs
  <2>2. invoice'[p] = "PAID" /\ payment'[p] = "SUCCEEDED" /\ paidAt'[p] = 1
    BY <1>5, <1>6 DEF LedgerInv, IInv, TypeOK, ClosedOnce
  <2>3. QED
    BY <2>1, <2>2, PaymentsAssumption DEF Entry
<1>8. Entries' = [Entries EXCEPT ![p] = "paid"]
  BY <1>5, <1>7, OneEntry DEF LedgerInv, IInv, TypeOK
<1>9. Entries[p] = "open" /\ UNCHANGED <<Taken, Refused>>
  BY <1>5, <1>7 DEF Entries, Taken, Refused
<1>10. QED
  BY <1>3, <1>5, <1>8, <1>9 DEF Ledger!Enter

LEMMA RecordFailureStrikes ==
  ASSUME LedgerInv, LedgerInv', NEW h \in Hooks, RecordFailure(h)
  PROVE  \E p \in Intents : Ledger!Strike(p)
<1>1. PICK p \in Intents : p = Subject(h)
  BY SubjectIn DEF LedgerInv, IInv, RecordFailure
<1>2. /\ hook[h].msg \in posted /\ hook[h].msg.type = "failed"
      /\ hook[h].msg \in Event
      /\ invoice[p] # None /\ payment[p] = None
  BY <1>1, SubjectIn DEF LedgerInv, IInv, RecordFailure, HookTrue
<1>3. p \in Refused
  BY <1>1, <1>2 DEF Event, Refused
<1>4. invoice[p] = "DRAFT"
  BY <1>2, PaymentsAssumption DEF LedgerInv, IInv, TypeOK, BooksAgree
<1>5. /\ payment' = [payment EXCEPT ![p] = "FAILED"]
      /\ UNCHANGED <<invoice, paidAt, intent, foreign, posted>>
  BY <1>1 DEF RecordFailure, stripe
<1>6. Entry(p) = "open" /\ Entry(p)' = "struck"
  <2>1. Entry(p) = "open"
    BY <1>2, <1>4, EntryIs
  <2>2. invoice'[p] = "DRAFT" /\ payment'[p] = "FAILED" /\ paidAt'[p] = 0
    BY <1>4, <1>5 DEF LedgerInv, IInv, TypeOK, ClosedOnce
  <2>3. QED
    BY <2>1, <2>2, PaymentsAssumption DEF Entry
<1>7. Entries' = [Entries EXCEPT ![p] = "struck"]
  BY <1>5, <1>6, OneEntry DEF LedgerInv, IInv, TypeOK
<1>8. Entries[p] = "open" /\ UNCHANGED <<Taken, Refused>>
  BY <1>5, <1>6 DEF Entries, Taken, Refused
<1>9. QED
  BY <1>3, <1>5, <1>7, <1>8 DEF Ledger!Strike

\* What concerns no row and no intent's fate does not show in the books.
LEMMA HiddenStep ==
  ASSUME LedgerInv,
         \/ \E r \in Requests : CreateIntent(r)
         \/ UNCHANGED <<stripe, rows>>
  PROVE  UNCHANGED <<foreign, Taken, Refused, Entries>>
<1>1. UNCHANGED <<foreign, posted, rows>>
  BY DEF CreateIntent, stripe
<1>2. \A p \in Intents : intent'[p] = "succeeded" <=> intent[p] = "succeeded"
  BY DEF CreateIntent, stripe, LedgerInv, IInv, TypeOK
<1>3. QED
  BY <1>1, <1>2, SameEntries DEF Taken, Refused

\* The detailed handlers implement the ledger: every step of theirs opens,
\* pays or strikes one entry for its reason, is Stripe's, or does not show.
THEOREM BooksRefine == Spec => BooksAreLedger
<1>1. Init => Ledger!Init
  <2> SUFFICES ASSUME Init PROVE Ledger!Init
    OBVIOUS
  <2>1. foreign = {} /\ Taken = {} /\ Refused = {}
    BY DEF Init, Taken, Refused
  <2>2. Entries = [p \in Intents |-> "none"]
    <3>1. \A p \in Intents : Entry(p) = "none"
      BY LedgerInvInit, EntryIs DEF Init
    <3>2. QED
      BY <3>1 DEF Entries
  <2>3. QED
    BY <2>1, <2>2 DEF Ledger!Init
<1>2. LedgerInv /\ LedgerInv' /\ [Next]_vars => [Ledger!Next]_(Ledger!vars)
  <2> SUFFICES ASSUME LedgerInv, LedgerInv', [Next]_vars
               PROVE  Ledger!Next \/ UNCHANGED <<foreign, Taken, Refused, Entries>>
    BY DEF Ledger!vars
  <2>1. ASSUME NEW r \in Requests, InsertInvoice(r) PROVE Ledger!Next
    BY <2>1, InsertInvoiceOpens DEF Ledger!Next
  <2>2. ASSUME NEW p \in Intents, SubscriptionIntent(p) \/ Pay(p) PROVE Ledger!Next
    BY <2>2, StripeStepLedgers DEF Ledger!Next
  <2>3. ASSUME NEW h \in Hooks, TxCommit(h) PROVE Ledger!Next
    BY <2>3, TxCommitEnters DEF Ledger!Next
  <2>4. ASSUME NEW h \in Hooks, RecordFailure(h) PROVE Ledger!Next
    BY <2>4, RecordFailureStrikes DEF Ledger!Next
  <2>5. \/ \E r \in Requests : CreateIntent(r) \/ InsertInvoice(r)
        \/ \E p \in Intents : SubscriptionIntent(p) \/ Pay(p)
        \/ \E h \in Hooks : TxCommit(h) \/ RecordFailure(h)
        \/ UNCHANGED <<stripe, rows>>
    BY DEF Next, RequestStep, SaveInvoice, AnswerLost, RequestFails, HookUnknown,
           HookFind, HookStep, TxUpdate, TxInsert, TxDuplicate, FailureDuplicate,
           HookDies, vars
  <2>6. QED
    BY <2>1, <2>2, <2>3, <2>4, <2>5, HiddenStep
<1>3. Spec => []LedgerInv
  BY LedgerInvInit, LedgerInvNext, PTL DEF Spec
<1>4. QED
  BY <1>1, <1>2, <1>3, PTL DEF Spec, BooksAreLedger, Ledger!Spec
=============================================================================
