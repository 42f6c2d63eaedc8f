------------------------ MODULE SubscriptionsProofs ------------------------
(***************************************************************************)
(* Subscriptions for every set of subscriptions and requests, every number *)
(* of changes, deliveries and failures, and events in any order.           *)
(***************************************************************************)
EXTENDS Subscriptions, TLAPS

\* What an event makes the handler write is the status it came with, or
\* "past_due" for a payment that failed.
LEMMA NewStatusIs ==
  ASSUME NEW m \in Event
  PROVE  /\ NewStatus(m) = m.status \/ (m.type = "failed" /\ NewStatus(m) = "past_due")
         /\ m.sub \in Subs
<1>1. PICK s \in Subs, k \in Content, n \in 1 .. MaxChanges :
        m = [sub |-> s, type |-> k[1], status |-> k[2], at |-> n]
  BY DEF Event
<1>2. /\ k[1] = "deleted" => k[2] = "canceled"
      /\ k[1] = "paid" => k[2] = "active"
  BY DEF Content
<1>3. QED
  BY <1>1, <1>2 DEF NewStatus

\* A request that goes on keeps its record well formed.
LEMMA AwaitType ==
  ASSUME TypeOK, NEW r \in Requests, NEW q \in RequestRecord, Await(r, q),
         q.pc \notin {"save", "profile"}, RequestsTrue
  PROVE  request' \in [Requests -> RequestRecord] /\ RequestsTrue'
  BY DEF TypeOK, Await, RequestsTrue

LEMMA ServedType == Served \in RequestRecord /\ Served.pc = "done" /\ Fresh \in RequestRecord
  BY DEF Served, Fresh, RequestRecord

\* Steps that leave Stripe and the rows alone disturb only types.
LEMMA RowsFrame ==
  ASSUME IInv, UNCHANGED <<stripe, tagged, revealed, posted, row>>
  PROVE  EventsFindRow' /\ StatusHasCause' /\ SecretsHaveRows'
  BY DEF IInv, EventsFindRow, StatusHasCause, SecretsHaveRows

-----------------------------------------------------------------------------
(* POST /api/billing/subscribe *)

LEMMA ReadProfileInv ==
  ASSUME IInv, NEW r \in Requests, ReadProfile(r)
  PROVE  IInv'
<1>1. UNCHANGED <<atStripe, delivery, row, profile, faults>>
  BY DEF ReadProfile
<1>2. PICK q \in RequestRecord : q.pc \in {"customer", "subscribe"} /\ Await(r, q)
  <2>1. CASE Await(r, [Fresh EXCEPT !.pc = "customer"])
    <3>1. [Fresh EXCEPT !.pc = "customer"] \in RequestRecord
          /\ [Fresh EXCEPT !.pc = "customer"].pc = "customer"
      BY DEF Fresh, RequestRecord
    <3>2. QED
      BY <2>1, <3>1
  <2>2. ASSUME NEW c \in profile,
               Await(r, [Fresh EXCEPT !.pc = "subscribe", !.customer = c])
        PROVE  \E q \in RequestRecord : q.pc \in {"customer", "subscribe"} /\ Await(r, q)
    <3>1. c \in Requests
      BY DEF IInv, TypeOK
    <3>2. [Fresh EXCEPT !.pc = "subscribe", !.customer = c] \in RequestRecord
          /\ [Fresh EXCEPT !.pc = "subscribe", !.customer = c].pc = "subscribe"
      BY <3>1 DEF Fresh, RequestRecord
    <3>3. QED
      BY <2>2, <3>2
  <2>3. QED
    BY <2>1, <2>2 DEF ReadProfile
<1>3. request' \in [Requests -> RequestRecord] /\ RequestsTrue'
  BY <1>2, AwaitType DEF IInv
<1>4. TypeOK'
  BY <1>1, <1>3 DEF IInv, TypeOK, atStripe, delivery
<1>5. QED
  BY <1>1, <1>3, <1>4, RowsFrame DEF IInv, atStripe

LEMMA CreateCustomerInv ==
  ASSUME IInv, NEW r \in Requests, CreateCustomer(r)
  PROVE  IInv'
<1> DEFINE q == [request[r] EXCEPT !.pc = "profile", !.customer = r]
<1>1. UNCHANGED <<atStripe, delivery, row, profile, faults>> /\ Await(r, q)
  BY DEF CreateCustomer
<1>2. q \in RequestRecord /\ q.pc = "profile" /\ q.customer = r
  BY DEF IInv, TypeOK, RequestRecord
<1>3. request' \in [Requests -> RequestRecord] /\ RequestsTrue'
  BY <1>1, <1>2 DEF IInv, TypeOK, Await, RequestsTrue
<1>4. TypeOK'
  BY <1>1, <1>3 DEF IInv, TypeOK, atStripe, delivery
<1>5. QED
  BY <1>1, <1>3, <1>4, RowsFrame DEF IInv, atStripe

LEMMA SaveProfileInv ==
  ASSUME IInv, NEW r \in Requests, SaveProfile(r)
  PROVE  IInv'
<1> DEFINE q == [request[r] EXCEPT !.pc = "subscribe"]
<1>1. /\ UNCHANGED <<atStripe, delivery, row, faults>>
      /\ Await(r, q)
      /\ profile' = profile \cup {request[r].customer}
  BY DEF SaveProfile
<1>2. q \in RequestRecord /\ q.pc = "subscribe"
  BY DEF IInv, TypeOK, RequestRecord
<1>3. request' \in [Requests -> RequestRecord] /\ RequestsTrue'
  BY <1>1, <1>2, AwaitType DEF IInv
<1>4. request[r].customer \in Requests
  BY DEF IInv, RequestsTrue, SaveProfile
<1>5. TypeOK'
  BY <1>1, <1>3, <1>4 DEF IInv, TypeOK, atStripe, delivery
<1>6. QED
  BY <1>1, <1>3, <1>5, RowsFrame DEF IInv, atStripe

LEMMA CreateSubscriptionInv ==
  ASSUME IInv, NEW r \in Requests, CreateSubscription(r)
  PROVE  IInv'
<1>1. PICK s \in Subs :
        /\ stripe[s] = None
        /\ stripe' = [stripe EXCEPT ![s] = "incomplete"]
        /\ Await(r, [request[r] EXCEPT !.pc = "save", !.sub = s])
  BY DEF CreateSubscription
<1> DEFINE q == [request[r] EXCEPT !.pc = "save", !.sub = s]
<1>2. UNCHANGED <<tagged, revealed, changes, posted, delivery, row, profile, faults>>
  BY DEF CreateSubscription
<1>3. q \in RequestRecord /\ q.pc = "save" /\ q.sub = s
  BY DEF IInv, TypeOK, RequestRecord
<1>4. request' \in [Requests -> RequestRecord] /\ RequestsTrue'
  BY <1>1, <1>3 DEF IInv, TypeOK, Await, RequestsTrue
<1>5. TypeOK'
  BY <1>1, <1>2, <1>4 DEF IInv, TypeOK, StripeStatus, delivery
<1>6. EventsFindRow' /\ StatusHasCause' /\ SecretsHaveRows'
  BY <1>1, <1>2 DEF IInv, TypeOK, EventsFindRow, StatusHasCause, SecretsHaveRows
<1>7. QED
  BY <1>4, <1>5, <1>6 DEF IInv

LEMMA SaveSubscriptionInv ==
  ASSUME IInv, NEW r \in Requests, SaveSubscription(r)
  PROVE  IInv'
<1>1. PICK s \in Subs : s = request[r].sub
  BY DEF IInv, RequestsTrue, SaveSubscription
<1>2. /\ row' = [row EXCEPT ![s] = "trialing"]
      /\ Await(r, Served)
      /\ revealed' \in {revealed, revealed \cup {s}}
      /\ faults' \in Nat
      /\ UNCHANGED <<stripe, tagged, changes, posted, delivery, profile>>
  BY <1>1 DEF SaveSubscription, Fault, IInv, TypeOK
<1>3. request' \in [Requests -> RequestRecord] /\ RequestsTrue'
  BY <1>2, AwaitType, ServedType DEF IInv
<1>4. TypeOK'
  BY <1>2, <1>3 DEF IInv, TypeOK, SubscriptionStatus, delivery
<1>5. row'[s] = "trialing" /\ \A t \in Subs \ {s} : row'[t] = row[t]
  BY <1>2 DEF IInv, TypeOK
<1>6. \A t \in Subs : row[t] # None => row'[t] # None
  BY <1>5, SubscriptionsAssumption DEF SubscriptionStatus
<1>7. EventsFindRow'
  BY <1>2, <1>6, NewStatusIs DEF IInv, TypeOK, EventsFindRow
<1>8. StatusHasCause'
  BY <1>2, <1>5 DEF IInv, StatusHasCause
<1>9. SecretsHaveRows'
  BY <1>2, <1>5, <1>6, SubscriptionsAssumption
     DEF IInv, SecretsHaveRows, SubscriptionStatus
<1>10. QED
  BY <1>3, <1>4, <1>7, <1>8, <1>9 DEF IInv

LEMMA RequestFailsInv ==
  ASSUME IInv, NEW r \in Requests, RequestFails(r)
  PROVE  IInv'
<1>1. /\ UNCHANGED <<atStripe, delivery, row, profile>>
      /\ Await(r, Served) /\ faults' \in Nat
  BY DEF RequestFails, Fault, IInv, TypeOK
<1>2. request' \in [Requests -> RequestRecord] /\ RequestsTrue'
  BY <1>1, AwaitType, ServedType DEF IInv
<1>3. TypeOK'
  BY <1>1, <1>2 DEF IInv, TypeOK, atStripe, delivery
<1>4. QED
  BY <1>1, <1>2, <1>3, RowsFrame DEF IInv, atStripe

-----------------------------------------------------------------------------
(* Stripe *)

\* A change posts events of its own status about a subscription that has a
\* row, is tagged, or has expired.
LEMMA BecomesInv ==
  ASSUME IInv, NEW s \in Subs, NEW status \in StripeStatus, NEW types,
         \A t \in types : <<t, status>> \in Content,
         Becomes(s, status, types),
         tagged' \in {tagged, tagged \cup {s}},
         s \in tagged' \/ status = "incomplete_expired" \/ row[s] # None
  PROVE  IInv'
<1>1. /\ changes[s] < MaxChanges
      /\ changes' = [changes EXCEPT ![s] = @ + 1]
      /\ stripe' = [stripe EXCEPT ![s] = status]
      /\ UNCHANGED <<revealed, attempts, acked, row, profile, request, faults>>
  BY DEF Becomes, delivery
<1>2. /\ posted \subseteq posted' /\ posted' \subseteq Event
      /\ \A m \in posted' \ posted : m.sub = s /\ m.status = status
  <2> DEFINE ev(t) == [sub |-> s, type |-> t, status |-> status, at |-> changes[s] + 1]
  <2>1. posted' = posted \cup {ev(t) : t \in types}
    BY DEF Becomes, Posts
  <2>2. ASSUME NEW t \in types
        PROVE  ev(t) \in Event /\ ev(t).sub = s /\ ev(t).status = status
    <3>1. changes[s] + 1 \in 1 .. MaxChanges
      BY <1>1, SubscriptionsAssumption DEF IInv, TypeOK
    <3>2. PICK k \in Content : k[1] = t /\ k[2] = status
      BY <2>2
    <3>3. QED
      BY <3>1, <3>2 DEF Event
  <2>3. QED
    BY <2>1, <2>2 DEF IInv, TypeOK
<1>3. TypeOK'
  BY <1>1, <1>2 DEF IInv, TypeOK
<1>4. EventsFindRow'
  BY <1>1, <1>2 DEF IInv, EventsFindRow
<1>5. StatusHasCause'
  BY <1>1, <1>2 DEF IInv, StatusHasCause
<1>6. SecretsHaveRows'
  BY <1>1 DEF IInv, TypeOK, SecretsHaveRows
<1>7. RequestsTrue'
  BY <1>1 DEF IInv, RequestsTrue
<1>8. QED
  BY <1>3, <1>4, <1>5, <1>6, <1>7 DEF IInv

LEMMA StripeStepInv ==
  ASSUME IInv, NEW s \in Subs, StripeStep(s)
  PROVE  IInv'
<1>1. CASE StaffSubscribes(s)
  BY <1>1, BecomesInv DEF StaffSubscribes, StripeStatus, Content
<1>2. CASE Paid(s)
  <2>1. s \in tagged \/ row[s] # None
    BY <1>2 DEF IInv, SecretsHaveRows, Paid
  <2>2. QED
    BY <1>2, <2>1, BecomesInv DEF Paid, StripeStatus, Content
<1>3. CASE PaymentFailed(s) \/ Canceled(s)
  <2>1. s \in tagged \/ row[s] # None
    BY <1>3 DEF IInv, SecretsHaveRows, PaymentFailed, Canceled
  <2>2. QED
    BY <1>3, <2>1, BecomesInv DEF PaymentFailed, Canceled, StripeStatus, Content
<1>4. CASE FirstPaymentFailed(s)
  <2>1. row[s] # None
    BY <1>4 DEF IInv, SecretsHaveRows, FirstPaymentFailed
  <2>2. QED
    BY <1>4, <2>1, BecomesInv DEF FirstPaymentFailed, StripeStatus, Content
<1>5. CASE Expired(s)
  BY <1>5, BecomesInv DEF Expired, StripeStatus, Content
<1>6. QED
  BY <1>1, <1>2, <1>3, <1>4, <1>5 DEF StripeStep

-----------------------------------------------------------------------------
(* The webhook *)

LEMMA DeliverInv ==
  ASSUME IInv, NEW m \in posted, Deliver(m)
  PROVE  IInv'
<1>1. /\ m \in Event /\ m.sub \in Subs
      /\ NewStatus(m) = m.status \/ (m.type = "failed" /\ NewStatus(m) = "past_due")
  BY NewStatusIs DEF IInv, TypeOK
<1>2. /\ attempts' \in [Event -> Nat]
      /\ acked' \subseteq posted /\ faults' \in Nat
      /\ UNCHANGED <<stripe, tagged, revealed, changes, posted, profile, request>>
  BY DEF Deliver, Apply, Reject, WriteFails, Arrives, Fault, atStripe, IInv, TypeOK
<1>3. RequestsTrue'
  BY <1>2 DEF IInv, RequestsTrue
<1>4. CASE row' = row
  <2>1. TypeOK'
    BY <1>2, <1>4 DEF IInv, TypeOK
  <2>2. QED
    BY <1>2, <1>3, <1>4, <2>1, RowsFrame DEF IInv
<1>5. CASE row' # row
  <2>1. /\ NewStatus(m) \in SubscriptionStatus
        /\ row' = [row EXCEPT ![m.sub] = NewStatus(m)]
    BY <1>5 DEF Deliver, Apply, Reject, WriteFails, Write
  <2>2. TypeOK'
    BY <1>1, <1>2, <2>1 DEF IInv, TypeOK
  <2>3. \A t \in Subs : row[t] # None => row'[t] # None
    BY <1>1, <2>1, SubscriptionsAssumption DEF IInv, TypeOK
  <2>4. EventsFindRow'
    BY <1>2, <2>3, NewStatusIs DEF IInv, TypeOK, EventsFindRow
  <2>5. StatusHasCause'
    BY <1>1, <1>2, <2>1 DEF IInv, TypeOK, StatusHasCause
  <2>6. SecretsHaveRows'
    BY <1>2, <2>3 DEF IInv, SecretsHaveRows
  <2>7. QED
    BY <1>3, <2>2, <2>4, <2>5, <2>6 DEF IInv
<1>6. QED
  BY <1>4, <1>5

-----------------------------------------------------------------------------
LEMMA InitInv == Init => IInv
<1> SUFFICES ASSUME Init PROVE IInv
  OBVIOUS
<1>1. TypeOK
  BY ServedType DEF Init, TypeOK
<1>2. EventsFindRow /\ StatusHasCause /\ RequestsTrue
  BY DEF Init, EventsFindRow, StatusHasCause, RequestsTrue, Fresh
<1>3. SecretsHaveRows
  BY SubscriptionsAssumption DEF Init, SecretsHaveRows, StripeStatus
<1>4. QED
  BY <1>1, <1>2, <1>3 DEF IInv

LEMMA NextInv == IInv /\ [Next]_vars => IInv'
<1> SUFFICES ASSUME IInv, [Next]_vars PROVE IInv'
  OBVIOUS
<1>1. ASSUME NEW r \in Requests, RequestStep(r) PROVE IInv'
  BY <1>1, ReadProfileInv, CreateCustomerInv, SaveProfileInv, CreateSubscriptionInv,
     SaveSubscriptionInv, RequestFailsInv DEF RequestStep
<1>2. ASSUME NEW s \in Subs, StripeStep(s) PROVE IInv'
  BY <1>2, StripeStepInv
<1>3. ASSUME NEW m \in posted, Deliver(m) PROVE IInv'
  BY <1>3, DeliverInv
<1>4. CASE UNCHANGED vars
  <2>1. TypeOK' /\ RequestsTrue'
    BY <1>4 DEF IInv, TypeOK, RequestsTrue, vars, atStripe, delivery
  <2>2. QED
    BY <1>4, <2>1, RowsFrame DEF IInv, vars, atStripe
<1>5. QED
  BY <1>1, <1>2, <1>3, <1>4 DEF Next

\* The inductive invariant: the properties and why they hold.
THEOREM Invariance == Spec => []IInv
  BY InitInv, NextInv, PTL DEF Spec

\* No row takes a status that is not in the schema's enum, although Stripe
\* has statuses that are not in it.
THEOREM TypeCorrect == Spec => []TypeOK
<1>1. IInv => TypeOK
  BY DEF IInv
<1>2. QED
  BY <1>1, Invariance, PTL

\* updateMany misses no subscription a customer of POST /subscribe pays for.
THEOREM EventsFound == Spec => []EventsFindRow
<1>1. IInv => EventsFindRow
  BY DEF IInv
<1>2. QED
  BY <1>1, Invariance, PTL

\* Events in any order, repeated and lost, never make up a status.
THEOREM CauseKept == Spec => []StatusHasCause
<1>1. IInv => StatusHasCause
  BY DEF IInv
<1>2. QED
  BY <1>1, Invariance, PTL
-----------------------------------------------------------------------------
(* Rows mirror Stripe *)

LEMMA Posted ==
  ASSUME IInv, NEW m \in posted
  PROVE  m \in Event /\ m.sub \in Subs /\ m.at \in Nat /\ changes[m.sub] \in Nat
<1>1. m \in Event
  BY DEF IInv, TypeOK
<1>2. PICK s \in Subs, k \in Content, n \in 1 .. MaxChanges :
        m = [sub |-> s, type |-> k[1], status |-> k[2], at |-> n]
  BY <1>1 DEF Event
<1>3. QED
  BY <1>1, <1>2, SubscriptionsAssumption DEF IInv, TypeOK

\* Steps that change no row, and no request into one that saves a subscription.
LEMMA OrderFrame ==
  ASSUME OrderKept, UNCHANGED <<stripe, revealed, changes, posted, acked, row>>,
         \A r \in Requests : request'[r].pc = "save" => request'[r] = request[r]
  PROVE  OrderKept'
<1>1. \A m : NewStatus(m)' = NewStatus(m) /\ Latest(m)' = Latest(m)
  BY DEF NewStatus, Latest
<1>2. PostedInOrder'
  BY <1>1 DEF OrderKept, PostedInOrder
<1>3. InOrder => AckedInOrder'
  BY <1>1 DEF OrderKept, AckedInOrder
<1>4. SavedFirst'
  BY DEF OrderKept, SavedFirst
<1>5. QED
  BY <1>2, <1>3, <1>4 DEF OrderKept

LEMMA CreateSubscriptionOrder ==
  ASSUME IInv, OrderKept, NEW r \in Requests, CreateSubscription(r)
  PROVE  OrderKept'
<1>1. PICK s \in Subs :
        /\ stripe[s] = None
        /\ stripe' = [stripe EXCEPT ![s] = "incomplete"]
        /\ Await(r, [request[r] EXCEPT !.pc = "save", !.sub = s])
  BY DEF CreateSubscription
<1>2. UNCHANGED <<revealed, changes, posted, acked, row>>
  BY DEF CreateSubscription, delivery
<1>3. /\ stripe'[s] = "incomplete" /\ \A t \in Subs \ {s} : stripe'[t] = stripe[t]
      /\ request'[r].pc = "save" /\ request'[r].sub = s
      /\ \A q \in Requests \ {r} : request'[q] = request[q]
  BY <1>1 DEF IInv, TypeOK, Await, RequestRecord
<1>4. None # "incomplete" /\ \A m \in posted : m.sub \in Subs /\ m.sub # s
  BY <1>1, Posted, SubscriptionsAssumption DEF OrderKept, PostedInOrder, StripeStatus
<1>5. \A m : NewStatus(m)' = NewStatus(m) /\ Latest(m)' = Latest(m)
  BY <1>2 DEF NewStatus, Latest
<1>6. PostedInOrder'
  <2>1. \A m \in posted' : stripe'[m.sub] = stripe[m.sub]
    BY <1>2, <1>3, <1>4
  <2>2. QED
    BY <1>2, <1>3, <1>5, <2>1 DEF OrderKept, PostedInOrder
<1>7. InOrder => AckedInOrder'
  BY <1>2, <1>5 DEF OrderKept, AckedInOrder
<1>8. SavedFirst'
  <2>1. s \notin revealed /\ row[s] = None
    BY <1>1 DEF IInv, SecretsHaveRows, OrderKept, SavedFirst
  <2>2. \A q \in Requests \ {r} : request[q].pc = "save" => request[q].sub # s
    BY <1>1, SubscriptionsAssumption DEF OrderKept, SavedFirst, StripeStatus
  <2>3. \A q \in Requests : request[q].pc = "save" => request[q].sub \in Subs
    BY DEF IInv, RequestsTrue
  <2>4. QED
    BY <1>2, <1>3, <1>4, <2>1, <2>2, <2>3 DEF OrderKept, SavedFirst
<1>9. QED
  BY <1>6, <1>7, <1>8 DEF OrderKept

LEMMA SaveSubscriptionOrder ==
  ASSUME IInv, OrderKept, NEW r \in Requests, SaveSubscription(r)
  PROVE  OrderKept'
<1>1. PICK s \in Subs : s = request[r].sub
  BY DEF IInv, RequestsTrue, SaveSubscription
<1>2. /\ request[r].pc = "save"
      /\ row' = [row EXCEPT ![s] = "trialing"]
      /\ Await(r, Served)
      /\ revealed' \subseteq revealed \cup {s}
      /\ UNCHANGED <<stripe, changes, posted, acked>>
  BY <1>1 DEF SaveSubscription, delivery
<1>3. /\ row'[s] = "trialing" /\ \A t \in Subs \ {s} : row'[t] = row[t]
      /\ request'[r].pc = "done" /\ \A q \in Requests \ {r} : request'[q] = request[q]
  BY <1>2, ServedType DEF IInv, TypeOK, Await
<1>4. \A m : NewStatus(m)' = NewStatus(m) /\ Latest(m)' = Latest(m)
  BY <1>2 DEF NewStatus, Latest
<1>5. PostedInOrder'
  BY <1>2, <1>4 DEF OrderKept, PostedInOrder
<1>6. ASSUME InOrder PROVE AckedInOrder'
  <2>1. ASSUME NEW m \in acked PROVE m.sub \in Subs /\ m.sub # s
    <3>1. m \in posted /\ m.sub \in Subs
      BY <2>1, Posted DEF IInv, TypeOK
    <3>2. CASE m.sub = s
      <4>1. m.status = "incomplete_expired" /\ m.type = "updated"
        BY <1>1, <1>2, <3>1, <3>2 DEF OrderKept, SavedFirst
      <4>2. NewStatus(m) \notin SubscriptionStatus
        BY <4>1 DEF NewStatus, SubscriptionStatus
      <4>3. QED
        BY <1>6, <2>1, <4>2 DEF OrderKept, AckedInOrder
    <3>3. QED
      BY <3>1, <3>2
  <2>2. QED
    BY <1>2, <1>3, <1>4, <1>6, <2>1 DEF OrderKept, AckedInOrder
<1>7. SavedFirst'
  <2>1. stripe[s] # None /\ \A q \in Requests \ {r} : request[q].pc = "save" => request[q].sub # s
    BY <1>1, <1>2, SubscriptionsAssumption DEF OrderKept, SavedFirst, StripeStatus
  <2>2. \A t \in Subs : row'[t] # None => stripe'[t] # None
    BY <1>2, <1>3, <2>1 DEF OrderKept, SavedFirst
  <2>3. ASSUME NEW q \in Requests, request'[q].pc = "save"
        PROVE  q # r /\ request'[q] = request[q] /\ request[q].sub \notin revealed'
    BY <1>2, <1>3, <2>1, <2>3 DEF OrderKept, SavedFirst
  <2>4. QED
    BY <1>2, <2>2, <2>3 DEF OrderKept, SavedFirst
<1>8. QED
  BY <1>5, <1>6, <1>7 DEF OrderKept

\* A change of subscription s at Stripe makes its events the latest ones.
LEMMA BecomesOrder ==
  ASSUME IInv, OrderKept, NEW s \in Subs, NEW status \in StripeStatus, NEW types,
         \A t \in types : <<t, status>> \in Content, types # {},
         Becomes(s, status, types), NEW v,
         \A m : m.type \in types /\ m.status = status => NewStatus(m) = v,
         v = status \/ status = "incomplete" \/ v \notin SubscriptionStatus,
         \A r \in Requests : request[r].pc = "save" /\ request[r].sub = s
           => status = "incomplete_expired" /\ types = {"updated"}
  PROVE  OrderKept'
<1>1. /\ changes' = [changes EXCEPT ![s] = @ + 1]
      /\ stripe' = [stripe EXCEPT ![s] = status]
      /\ UNCHANGED <<revealed, acked, row, request>>
  BY DEF Becomes, delivery
<1>2. PICK n \in Nat : n = changes[s] + 1 /\ n > changes[s] /\ changes[s] \in Nat
  BY DEF IInv, TypeOK
<1>3. /\ changes'[s] = n /\ \A t \in Subs \ {s} : changes'[t] = changes[t]
      /\ stripe'[s] = status /\ \A t \in Subs \ {s} : stripe'[t] = stripe[t]
  BY <1>1, <1>2 DEF IInv, TypeOK
<1>4. /\ posted \subseteq posted'
      /\ \A m \in posted' \ posted : /\ m.sub = s /\ m.type \in types /\ m.status = status
                                     /\ m.at = n
      /\ \E m \in posted' : m.sub = s /\ m.at = n
  <2> DEFINE ev(t) == [sub |-> s, type |-> t, status |-> status, at |-> changes[s] + 1]
  <2>1. posted' = posted \cup {ev(t) : t \in types}
    BY DEF Becomes, Posts
  <2>2. \A t \in types : /\ ev(t).sub = s /\ ev(t).type = t /\ ev(t).status = status
                         /\ ev(t).at = n
    BY <1>2
  <2>3. PICK t : t \in types
    OBVIOUS
  <2>4. ev(t) \in posted'
    BY <2>1, <2>3
  <2> HIDE DEF ev
  <2>5. QED
    BY <2>1, <2>2, <2>3, <2>4
<1>5. status # None /\ \A m \in posted' \ posted : NewStatus(m) = v
  BY <1>4, SubscriptionsAssumption
<1>6. \A m : NewStatus(m)' = NewStatus(m)
  BY DEF NewStatus
<1>7. ASSUME NEW m \in posted
      PROVE  /\ m.sub \in Subs /\ m.at \in Nat /\ m.at <= changes[m.sub]
             /\ m.sub = s => m.at < n /\ ~Latest(m)'
             /\ m.sub # s => Latest(m)' = Latest(m) /\ stripe'[m.sub] = stripe[m.sub]
                             /\ changes'[m.sub] = changes[m.sub]
             /\ changes[m.sub] \in Nat
  <2>1. m.sub \in Subs /\ m.at \in Nat /\ m.at <= changes[m.sub] /\ changes[m.sub] \in Nat
    BY Posted DEF OrderKept, PostedInOrder
  <2>2. m.sub = s => m.at < n
    BY <1>2, <2>1
  <2>3. QED
    BY <1>2, <1>3, <2>1, <2>2 DEF Latest
<1>8. PostedInOrder'
  <2>1. ASSUME NEW m \in posted', NEW k \in posted', m.sub = k.sub, m.at = k.at
        PROVE  NewStatus(m) = NewStatus(k)
    <3>1. CASE m \in posted /\ k \in posted
      BY <2>1, <3>1 DEF OrderKept, PostedInOrder
    <3>2. CASE m \notin posted /\ k \notin posted
      BY <1>5, <3>2
    <3>3. CASE m \in posted /\ k \notin posted
      BY <1>2, <1>4, <1>7, <2>1, <3>3
    <3>4. CASE m \notin posted /\ k \in posted
      BY <1>2, <1>4, <1>7, <2>1, <3>4
    <3>5. QED
      BY <3>1, <3>2, <3>3, <3>4
  <2>2. ASSUME NEW m \in posted'
        PROVE  /\ stripe'[m.sub] # None /\ m.at <= changes'[m.sub]
               /\ Latest(m)' => \/ NewStatus(m) = stripe'[m.sub]
                                \/ stripe'[m.sub] = "incomplete"
                                \/ NewStatus(m) \notin SubscriptionStatus
    <3>1. CASE m \notin posted
      BY <1>2, <1>3, <1>4, <1>5, <3>1
    <3>2. CASE m \in posted /\ m.sub = s
      BY <1>2, <1>3, <1>5, <1>7, <3>2
    <3>3. CASE m \in posted /\ m.sub # s
      BY <1>7, <3>3 DEF OrderKept, PostedInOrder
    <3>4. QED
      BY <3>1, <3>2, <3>3
  <2>3. ASSUME NEW t \in Subs
        PROVE  \/ stripe'[t] \in {None, "incomplete"}
               \/ \E m \in posted' : m.sub = t /\ Latest(m)'
    <3>1. CASE t = s
      BY <1>3, <1>4, <3>1 DEF Latest
    <3>2. CASE t # s
      <4>1. \/ stripe[t] \in {None, "incomplete"}
            \/ \E m \in posted : m.sub = t /\ Latest(m)
        BY DEF OrderKept, PostedInOrder
      <4>2. QED
        BY <1>3, <1>4, <1>7, <3>2, <4>1
    <3>3. QED
      BY <3>1, <3>2
  <2>4. QED
    BY <1>6, <2>1, <2>2, <2>3 DEF PostedInOrder
<1>9. ASSUME InOrder PROVE AckedInOrder'
  <2>1. acked' = acked /\ acked \subseteq posted /\ row' = row
    BY <1>1 DEF IInv, TypeOK
  <2>2. ASSUME NEW m \in acked, NEW k \in posted', m.sub = k.sub, k.at < m.at
        PROVE  k \in acked
    <3>1. CASE k \in posted
      BY <1>9, <2>2, <3>1 DEF OrderKept, AckedInOrder
    <3>2. CASE k \notin posted
      BY <1>2, <1>4, <1>7, <2>1, <2>2, <3>2
    <3>3. QED
      BY <3>1, <3>2
  <2>3. \A m \in acked : /\ NewStatus(m) \in SubscriptionStatus
                         /\ Latest(m)' => row[m.sub] \in {None, NewStatus(m)}
    BY <1>7, <1>9, <2>1 DEF OrderKept, AckedInOrder
  <2>4. QED
    BY <1>6, <2>1, <2>2, <2>3 DEF AckedInOrder
<1>10. SavedFirst'
  <2>1. \A t \in Subs : row'[t] # None => stripe'[t] # None
    BY <1>1, <1>3, <1>5 DEF OrderKept, SavedFirst
  <2>2. ASSUME NEW r \in Requests, request[r].pc = "save"
        PROVE  /\ stripe'[request[r].sub] \in {"incomplete", "incomplete_expired"}
               /\ \A m \in posted' : m.sub = request[r].sub
                    => m.status = "incomplete_expired" /\ m.type = "updated"
    <3>1. request[r].sub \in Subs
      BY <2>2 DEF IInv, RequestsTrue
    <3>2. CASE request[r].sub = s
      BY <1>3, <1>4, <2>2, <3>2 DEF OrderKept, SavedFirst
    <3>3. CASE request[r].sub # s
      BY <1>3, <1>4, <2>2, <3>1, <3>3 DEF OrderKept, SavedFirst
    <3>4. QED
      BY <3>2, <3>3
  <2>3. QED
    BY <1>1, <2>1, <2>2 DEF OrderKept, SavedFirst
<1>11. QED
  BY <1>8, <1>9, <1>10 DEF OrderKept

LEMMA StripeStepOrder ==
  ASSUME IInv, OrderKept, NEW s \in Subs, StripeStep(s)
  PROVE  OrderKept'
<1>1. ASSUME NEW r \in Requests, request[r].pc = "save", request[r].sub = s
      PROVE  stripe[s] \in {"incomplete", "incomplete_expired"} /\ s \notin revealed
  BY <1>1 DEF OrderKept, SavedFirst
<1>2. \A m : /\ m.type \in {"created", "updated", "paid"} /\ m.status = "active"
                  => NewStatus(m) = "active"
             /\ m.type \in {"updated", "failed"} /\ m.status = "past_due"
                  => NewStatus(m) = "past_due"
             /\ m.type \in {"failed"} => NewStatus(m) = "past_due"
             /\ m.type \in {"deleted"} => NewStatus(m) = "canceled"
             /\ m.type \in {"updated"} /\ m.status = "incomplete_expired"
                  => NewStatus(m) = "incomplete_expired"
  BY DEF NewStatus
<1>3. CASE StaffSubscribes(s)
  <2>1. stripe[s] \notin {"incomplete", "incomplete_expired"}
    BY <1>3, SubscriptionsAssumption DEF StaffSubscribes, StripeStatus
  <2>2. Becomes(s, "active", {"created"})
    BY <1>3 DEF StaffSubscribes
  <2>3. QED
    BY <1>1, <1>2, <2>1, <2>2, BecomesOrder DEF StripeStatus, Content
<1>4. CASE Paid(s)
  <2>1. stripe[s] \notin {"incomplete", "incomplete_expired"} \/ s \in revealed
    BY <1>4 DEF Paid
  <2>2. Becomes(s, "active", {"updated", "paid"})
    BY <1>4 DEF Paid
  <2>3. QED
    BY <1>1, <1>2, <2>1, <2>2, BecomesOrder DEF StripeStatus, Content
<1>5. CASE PaymentFailed(s)
  <2>1. stripe[s] \notin {"incomplete", "incomplete_expired"}
    BY <1>5 DEF PaymentFailed
  <2>2. Becomes(s, "past_due", {"updated", "failed"})
    BY <1>5 DEF PaymentFailed
  <2>3. QED
    BY <1>1, <1>2, <2>1, <2>2, BecomesOrder DEF StripeStatus, Content
<1>6. CASE FirstPaymentFailed(s)
  <2>1. s \in revealed /\ Becomes(s, "incomplete", {"failed"})
    BY <1>6 DEF FirstPaymentFailed
  <2>2. QED
    BY <1>1, <1>2, <2>1, BecomesOrder DEF StripeStatus, Content
<1>7. CASE Canceled(s)
  <2>1. stripe[s] \notin {"incomplete", "incomplete_expired"}
    BY <1>7 DEF Canceled
  <2>2. Becomes(s, "canceled", {"deleted"})
    BY <1>7 DEF Canceled
  <2>3. QED
    BY <1>1, <1>2, <2>1, <2>2, BecomesOrder DEF StripeStatus, Content
<1>8. CASE Expired(s)
  <2>1. Becomes(s, "incomplete_expired", {"updated"})
    BY <1>8 DEF Expired
  <2>2. QED
    BY <1>2, <2>1, BecomesOrder DEF StripeStatus, Content
<1>9. QED
  BY <1>3, <1>4, <1>5, <1>6, <1>7, <1>8 DEF StripeStep

\* An event is applied when the earlier ones are acknowledged, so it is one of the
\* latest whenever one of those is.
LEMMA ApplyOrder ==
  ASSUME IInv, OrderKept, NEW m \in posted, Apply(m)
  PROVE  OrderKept'
<1>1. /\ UNCHANGED <<stripe, revealed, changes, posted, request>>
      /\ acked' \subseteq acked \cup {m}
      /\ NewStatus(m) \in SubscriptionStatus
      /\ row' \in {row, [row EXCEPT ![m.sub] = NewStatus(m)]}
      /\ row[m.sub] # None => row' = [row EXCEPT ![m.sub] = NewStatus(m)]
      /\ InOrder => InTurn(m)
      /\ acked \subseteq acked'
  BY DEF Apply, Write, Arrives, atStripe
<1>2. /\ m.sub \in Subs /\ m.at \in Nat /\ m \in Event /\ row \in [Subs -> SubscriptionStatus \cup {None}]
      /\ acked \subseteq posted
  BY Posted DEF IInv, TypeOK
<1>3. /\ row'[m.sub] \in {None, NewStatus(m)}
      /\ \A t \in Subs \ {m.sub} : row'[t] = row[t]
  BY <1>1, <1>2
<1>4. \A k : NewStatus(k)' = NewStatus(k) /\ Latest(k)' = Latest(k)
  BY <1>1 DEF NewStatus, Latest
<1>5. PostedInOrder'
  BY <1>1, <1>4 DEF OrderKept, PostedInOrder
<1>6. ASSUME InOrder PROVE AckedInOrder'
  <2>1. m \notin acked /\ \A k \in posted : k.sub = m.sub /\ k.at < m.at => k \in acked
    BY <1>1, <1>6 DEF InTurn
  <2>2. \A k \in acked', l \in posted' : k.sub = l.sub /\ l.at < k.at => l \in acked'
    BY <1>1, <1>6, <2>1 DEF OrderKept, AckedInOrder
  <2>3. ASSUME NEW k \in acked'
        PROVE  /\ NewStatus(k) \in SubscriptionStatus
               /\ Latest(k) => row'[k.sub] \in {None, NewStatus(k)}
    <3>1. CASE k = m
      BY <1>1, <1>3, <3>1
    <3>2. CASE k # m /\ k.sub # m.sub
      <4>1. k \in acked /\ k \in posted
        BY <1>1, <1>2, <2>3, <3>2
      <4>2. k.sub \in Subs
        BY <4>1, Posted
      <4>3. QED
        BY <1>3, <1>6, <3>2, <4>1, <4>2 DEF OrderKept, AckedInOrder
    <3>3. CASE k # m /\ k.sub = m.sub
      <4>1. k \in acked /\ k \in posted
        BY <1>1, <1>2, <2>3, <3>3
      <4>2. NewStatus(k) \in SubscriptionStatus /\ ~(m.at < k.at)
        BY <1>6, <2>1, <3>3, <4>1 DEF OrderKept, AckedInOrder
      <4>3. /\ k.at \in Nat /\ changes[m.sub] \in Nat /\ m.at <= changes[m.sub]
        BY <4>1, Posted DEF OrderKept, PostedInOrder
      <4>4. Latest(k) => k.at = m.at
        BY <1>2, <3>3, <4>2, <4>3 DEF Latest
      <4>5. Latest(k) => NewStatus(k) = NewStatus(m)
        BY <3>3, <4>1, <4>4 DEF OrderKept, PostedInOrder
      <4>6. QED
        BY <1>3, <3>3, <4>2, <4>5
    <3>4. QED
      BY <3>1, <3>2, <3>3
  <2>4. QED
    BY <1>4, <2>2, <2>3 DEF AckedInOrder
<1>7. SavedFirst'
  <2>1. \A t \in Subs : row'[t] # None => stripe'[t] # None
    BY <1>1, <1>2, <1>3 DEF OrderKept, SavedFirst, PostedInOrder
  <2>2. QED
    BY <1>1, <2>1 DEF OrderKept, SavedFirst
<1>8. QED
  BY <1>5, <1>6, <1>7 DEF OrderKept

LEMMA OrderStep == IInv /\ OrderKept /\ [Next]_vars => OrderKept'
<1> SUFFICES ASSUME IInv, OrderKept, [Next]_vars PROVE OrderKept'
  OBVIOUS
<1>1. ASSUME NEW r \in Requests,
             \/ ReadProfile(r) \/ CreateCustomer(r) \/ SaveProfile(r) \/ RequestFails(r)
      PROVE  OrderKept'
  <2>1. UNCHANGED <<stripe, revealed, changes, posted, acked, row>>
    BY <1>1 DEF ReadProfile, CreateCustomer, SaveProfile, RequestFails, atStripe, delivery
  <2>2. PICK q : Await(r, q) /\ q.pc # "save"
    <3>1. request[r] \in RequestRecord /\ Fresh \in RequestRecord /\ Served.pc = "done"
      BY ServedType DEF IInv, TypeOK
    <3>2. CASE ReadProfile(r)
      <4>1. /\ [Fresh EXCEPT !.pc = "customer"].pc = "customer"
            /\ \A c : [Fresh EXCEPT !.pc = "subscribe", !.customer = c].pc = "subscribe"
        BY DEF Fresh
      <4>2. QED
        BY <3>2, <4>1 DEF ReadProfile
    <3>3. CASE CreateCustomer(r)
      <4>1. [request[r] EXCEPT !.pc = "profile", !.customer = r].pc = "profile"
        BY <3>1 DEF RequestRecord
      <4>2. QED
        BY <3>3, <4>1 DEF CreateCustomer
    <3>4. CASE SaveProfile(r)
      BY <3>1, <3>4 DEF SaveProfile, RequestRecord
    <3>5. CASE RequestFails(r)
      BY <3>1, <3>5 DEF RequestFails
    <3>6. QED
      BY <1>1, <3>2, <3>3, <3>4, <3>5
  <2>3. \A p \in Requests : request'[p].pc = "save" => request'[p] = request[p]
    BY <2>2 DEF Await, IInv, TypeOK
  <2>4. QED
    BY <2>1, <2>3, OrderFrame
<1>2. ASSUME NEW r \in Requests, RequestStep(r) PROVE OrderKept'
  BY <1>1, <1>2, CreateSubscriptionOrder, SaveSubscriptionOrder DEF RequestStep
<1>3. ASSUME NEW s \in Subs, StripeStep(s) PROVE OrderKept'
  BY <1>3, StripeStepOrder
<1>4. ASSUME NEW m \in posted, Reject(m) \/ WriteFails(m) PROVE OrderKept'
  BY <1>4, OrderFrame DEF Reject, WriteFails, atStripe
<1>5. ASSUME NEW m \in posted, Deliver(m) PROVE OrderKept'
  BY <1>4, <1>5, ApplyOrder DEF Deliver
<1>6. CASE UNCHANGED vars
  BY <1>6, OrderFrame DEF vars, atStripe, delivery
<1>7. QED
  BY <1>2, <1>3, <1>5, <1>6 DEF Next

LEMMA InitOrder == Init => OrderKept
<1> SUFFICES ASSUME Init PROVE OrderKept
  OBVIOUS
<1>1. PostedInOrder
  BY DEF Init, PostedInOrder
<1>2. AckedInOrder
  BY DEF Init, AckedInOrder
<1>3. SavedFirst
  BY DEF Init, SavedFirst, Fresh
<1>4. QED
  BY <1>1, <1>2, <1>3 DEF OrderKept

LEMMA Mirrors == IInv /\ OrderKept => MirrorsStripe
<1> SUFFICES ASSUME IInv, OrderKept, InOrder, Quiet
             PROVE  /\ \A s \in Subs :
                         row[s] # None /\ stripe[s] # "incomplete" => row[s] = stripe[s]
                    /\ Access => \E s \in Subs : stripe[s] \in {"active", "incomplete"}
  BY DEF MirrorsStripe
<1>1. ASSUME NEW s \in Subs, row[s] # None, stripe[s] # "incomplete" PROVE row[s] = stripe[s]
  <2>1. stripe[s] # None
    BY <1>1 DEF OrderKept, SavedFirst
  <2>2. PICK m \in posted : m.sub = s /\ Latest(m)
    BY <1>1, <2>1 DEF OrderKept, PostedInOrder
  <2>3. m \in acked
    BY <2>2 DEF Quiet
  <2>4. NewStatus(m) \in SubscriptionStatus /\ row[s] = NewStatus(m)
    BY <1>1, <2>2, <2>3 DEF OrderKept, AckedInOrder
  <2>5. QED
    BY <1>1, <2>2, <2>4 DEF OrderKept, PostedInOrder
<1>2. ASSUME NEW s \in Subs, row[s] \in {"active", "trialing"}
      PROVE  stripe[s] \in {"active", "incomplete"}
  <2>1. row[s] # None
    BY <1>2, SubscriptionsAssumption DEF SubscriptionStatus
  <2>2. stripe[s] \in StripeStatus \cup {None} /\ stripe[s] # None
    BY <2>1 DEF IInv, TypeOK, OrderKept, SavedFirst
  <2>3. stripe[s] # "incomplete" => stripe[s] = "active"
    BY <1>1, <1>2, <2>1, <2>2 DEF StripeStatus
  <2>4. QED
    BY <2>3
<1>3. QED
  BY <1>1, <1>2 DEF Access

\* With the events of each subscription in order and answered, rows say what Stripe says,
\* whatever was lost, repeated or interrupted on the way (webhooks/stripe).
THEOREM MirrorKept == Spec => []MirrorsStripe
<1>1. Spec => []OrderKept
  BY InitOrder, OrderStep, Invariance, PTL DEF Spec
<1>2. QED
  BY <1>1, Mirrors, Invariance, PTL
=============================================================================
