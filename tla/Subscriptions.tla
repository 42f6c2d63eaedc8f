---------------------------- MODULE Subscriptions ----------------------------
(***************************************************************************)
(* The subscriptions of one organization: POST /api/billing/subscribe, the *)
(* customer.subscription.* and invoice.payment_* events of the Stripe      *)
(* webhook, and the rows that requireActiveSubscription reads              *)
(* (routes/billing.ts).                                                    *)
(*                                                                         *)
(* A subscription begins "incomplete" at Stripe (payment_behavior          *)
(* default_incomplete) and its first payment needs the client_secret the   *)
(* answer carries.  An event carries the subscription as it was when the   *)
(* event was made; the handler does one write and answers.                 *)
(***************************************************************************)
EXTENDS Naturals

CONSTANTS
  Subs,         \* Stripe subscription ids, used once each
  Requests,     \* requests to POST /subscribe
  None,         \* no row, no customer, no subscription
  InOrder,      \* are the events of a subscription delivered in their order?
  MaxChanges,   \* bound: changes of one subscription at Stripe
  MaxAttempts,  \* bound: deliveries of one event
  MaxFaults     \* bound: failed calls, lost answers, crashes

\* SubscriptionStatus of the schema; Stripe has statuses it does not have.
SubscriptionStatus == {"trialing", "active", "past_due", "canceled", "unpaid"}
StripeStatus == {"incomplete", "incomplete_expired", "active", "past_due", "canceled"}

ASSUME SubscriptionsAssumption ==
  /\ None \notin Subs \cup Requests \cup SubscriptionStatus \cup StripeStatus
  /\ InOrder \in BOOLEAN
  /\ MaxChanges \in Nat /\ MaxAttempts \in Nat /\ MaxFaults \in Nat

VARIABLES
  stripe,     \* status of each subscription at Stripe
  tagged,     \* subscriptions whose metadata names the organization
  revealed,   \* subscriptions whose client_secret a customer has
  changes,    \* changes each has seen
  posted,     \* events posted
  attempts,   \* deliveries of each event
  acked,      \* events answered 200
  row,        \* status of the Subscription row with stripeSubscriptionId s
  profile,    \* customers that BillingProfile rows name
  request,
  faults

atStripe == <<stripe, tagged, revealed, changes, posted>>
delivery == <<attempts, acked>>
vars     == <<atStripe, delivery, row, profile, request, faults>>

\* The events the handler reads and the statuses they come with.
Content ==
  ({"created", "updated", "paid"} \X {"active"})
    \cup ({"updated", "failed"} \X {"past_due"})
    \cup {<<"failed", "incomplete">>, <<"updated", "incomplete_expired">>,
          <<"deleted", "canceled">>}

\* `at' counts the changes of the subscription that the event reports.
Event == {[sub |-> s, type |-> k[1], status |-> k[2], at |-> n] :
            s \in Subs, k \in Content, n \in 1 .. MaxChanges}

\* A Stripe customer is named by the request that made it.
RequestRecord ==
  [pc       : {"idle", "customer", "profile", "subscribe", "save", "done"},
   customer : Requests \cup {None},
   sub      : Subs \cup {None}]

TypeOK ==
  /\ stripe \in [Subs -> StripeStatus \cup {None}]
  /\ tagged \subseteq Subs /\ revealed \subseteq Subs
  /\ changes \in [Subs -> Nat]
  /\ posted \subseteq Event /\ acked \subseteq posted
  /\ attempts \in [Event -> Nat]
  /\ row \in [Subs -> SubscriptionStatus \cup {None}]
  /\ profile \subseteq Requests
  /\ request \in [Requests -> RequestRecord]
  /\ faults \in Nat

Fresh  == [pc |-> "idle", customer |-> None, sub |-> None]
Served == [Fresh EXCEPT !.pc = "done"]

Init ==
  /\ stripe = [s \in Subs |-> None]
  /\ tagged = {} /\ revealed = {} /\ posted = {} /\ acked = {} /\ profile = {}
  /\ changes = [s \in Subs |-> 0]
  /\ attempts = [m \in Event |-> 0]
  /\ row = [s \in Subs |-> None]
  /\ request = [r \in Requests |-> Fresh]
  /\ faults = 0

Await(r, q) == request' = [request EXCEPT ![r] = q]
Fault == faults < MaxFaults /\ faults' = faults + 1
-----------------------------------------------------------------------------
(* POST /api/billing/subscribe *)

\* findFirst without an order: any profile row of the organization.
ReadProfile(r) ==
  /\ request[r].pc = "idle"
  /\ \/ /\ profile = {}
        /\ Await(r, [Fresh EXCEPT !.pc = "customer"])
     \/ \E c \in profile :
          Await(r, [Fresh EXCEPT !.pc = "subscribe", !.customer = c])
  /\ UNCHANGED <<atStripe, delivery, row, profile, faults>>

CreateCustomer(r) ==
  /\ request[r].pc = "customer"
  /\ Await(r, [request[r] EXCEPT !.pc = "profile", !.customer = r])
  /\ UNCHANGED <<atStripe, delivery, row, profile, faults>>

SaveProfile(r) ==
  /\ request[r].pc = "profile"
  /\ profile' = profile \cup {request[r].customer}
  /\ Await(r, [request[r] EXCEPT !.pc = "subscribe"])
  /\ UNCHANGED <<atStripe, delivery, row, faults>>

\* Mutant: the client_secret is sent before the row is written.
CreateSubscriptionTold(r) ==
  /\ request[r].pc = "subscribe"
  /\ \E s \in Subs :
       /\ stripe[s] = None
       /\ stripe' = [stripe EXCEPT ![s] = "incomplete"]
       /\ revealed' = revealed \cup {s}
       /\ Await(r, [request[r] EXCEPT !.pc = "save", !.sub = s])
  /\ UNCHANGED <<tagged, changes, posted, delivery, row, profile, faults>>

CreateSubscription(r) ==
  /\ request[r].pc = "subscribe"
  /\ \E s \in Subs :
       /\ stripe[s] = None
       /\ stripe' = [stripe EXCEPT ![s] = "incomplete"]
       /\ Await(r, [request[r] EXCEPT !.pc = "save", !.sub = s])
  /\ UNCHANGED <<tagged, revealed, changes, posted, delivery, row, profile, faults>>

\* The upsert stores "trialing" whether it creates the row or finds it.
SaveSubscription(r) ==
  LET s == request[r].sub IN
  /\ request[r].pc = "save"
  /\ row' = [row EXCEPT ![s] = "trialing"]
  /\ Await(r, Served)
  /\ \/ revealed' = revealed \cup {s} /\ UNCHANGED faults
     \/ Fault /\ UNCHANGED revealed        \* the answer is lost
  /\ UNCHANGED <<stripe, tagged, changes, posted, delivery, profile>>

RequestFails(r) ==
  /\ request[r].pc \notin {"idle", "done"}
  /\ Fault
  /\ Await(r, Served)
  /\ UNCHANGED <<atStripe, delivery, row, profile>>
-----------------------------------------------------------------------------
(* Stripe, its customers and its staff *)

Posts(s, status, types) ==
  posted' = posted \cup {[sub |-> s, type |-> t, status |-> status,
                          at |-> changes[s] + 1] : t \in types}

Becomes(s, status, types) ==
  /\ changes[s] < MaxChanges
  /\ changes' = [changes EXCEPT ![s] = @ + 1]
  /\ stripe' = [stripe EXCEPT ![s] = status]
  /\ Posts(s, status, types)
  /\ UNCHANGED <<revealed, delivery, row, profile, request, faults>>

\* A subscription made in Stripe's dashboard, with the metadata the
\* "created" handler asks for.  POST /subscribe sets none, so the "created"
\* events of its own subscriptions change nothing and are left out.
StaffSubscribes(s) ==
  /\ stripe[s] = None
  /\ Becomes(s, "active", {"created"})
  /\ tagged' = tagged \cup {s}

Paid(s) ==
  /\ stripe[s] = "past_due" \/ (stripe[s] = "incomplete" /\ s \in revealed)
  /\ Becomes(s, "active", {"updated", "paid"})
  /\ UNCHANGED tagged

PaymentFailed(s) ==
  /\ stripe[s] = "active"
  /\ Becomes(s, "past_due", {"updated", "failed"})
  /\ UNCHANGED tagged

\* The first payment is refused; the customer may try again.
FirstPaymentFailed(s) ==
  /\ stripe[s] = "incomplete" /\ s \in revealed
  /\ Becomes(s, "incomplete", {"failed"})
  /\ UNCHANGED tagged

Canceled(s) ==
  /\ stripe[s] \in {"active", "past_due"}
  /\ Becomes(s, "canceled", {"deleted"})
  /\ UNCHANGED tagged

\* The first payment did not come in time.
Expired(s) ==
  /\ stripe[s] = "incomplete"
  /\ Becomes(s, "incomplete_expired", {"updated"})
  /\ UNCHANGED tagged
-----------------------------------------------------------------------------
(* POST /api/billing/webhooks/stripe *)

InTurn(m) ==
  /\ m \notin acked
  /\ \A n \in posted : n.sub = m.sub /\ n.at < m.at => n \in acked

Arrives(m) ==
  /\ m \in posted
  /\ InOrder => InTurn(m)
  /\ attempts[m] < MaxAttempts
  /\ attempts' = [attempts EXCEPT ![m] = @ + 1]

\* Mutant: a failed payment ends the subscription at once.
NewStatusHarsh(m) ==
  CASE m.type \in {"deleted", "failed"} -> "canceled"
    [] m.type = "paid"                  -> "active"
    [] OTHER                            -> m.status

\* The status the handler writes for an event.
NewStatus(m) ==
  CASE m.type = "deleted" -> "canceled"
    [] m.type = "paid"    -> "active"
    [] m.type = "failed"  -> "past_due"
    [] OTHER              -> m.status

\* upsert for a tagged "created", updateMany for the others: an event of a
\* subscription without a row changes nothing.
Write(m) ==
  row' = IF row[m.sub] # None \/ (m.type = "created" /\ m.sub \in tagged)
         THEN [row EXCEPT ![m.sub] = NewStatus(m)]
         ELSE row

Apply(m) ==
  /\ Arrives(m)
  /\ NewStatus(m) \in SubscriptionStatus
  /\ Write(m)
  /\ \/ acked' = acked \cup {m} /\ UNCHANGED faults
     \/ Fault /\ UNCHANGED acked           \* the answer is lost
  /\ UNCHANGED <<atStripe, profile, request>>

\* Mutant: the rejected write is answered 200.
RejectAcked(m) ==
  /\ Arrives(m)
  /\ NewStatus(m) \notin SubscriptionStatus
  /\ acked' = acked \cup {m}
  /\ UNCHANGED <<atStripe, row, profile, request, faults>>

\* Prisma refuses a status that is not in the enum: 400.
Reject(m) ==
  /\ Arrives(m)
  /\ NewStatus(m) \notin SubscriptionStatus
  /\ UNCHANGED <<atStripe, acked, row, profile, request, faults>>

\* Mutant: the answer is 200 whatever happened.
WriteFailsAcked(m) ==
  /\ Arrives(m)
  /\ Fault
  /\ acked' = acked \cup {m}
  /\ UNCHANGED <<atStripe, row, profile, request>>

WriteFails(m) ==
  /\ Arrives(m)
  /\ Fault
  /\ UNCHANGED <<atStripe, acked, row, profile, request>>
-----------------------------------------------------------------------------
RequestStep(r) ==
  \/ ReadProfile(r) \/ CreateCustomer(r) \/ SaveProfile(r)
  \/ CreateSubscription(r) \/ SaveSubscription(r) \/ RequestFails(r)

StripeStep(s) ==
  \/ StaffSubscribes(s) \/ Paid(s) \/ PaymentFailed(s)
  \/ FirstPaymentFailed(s) \/ Canceled(s) \/ Expired(s)

Deliver(m) == Apply(m) \/ Reject(m) \/ WriteFails(m)

Next ==
  \/ \E r \in Requests : RequestStep(r)
  \/ \E s \in Subs : StripeStep(s)
  \/ \E m \in posted : Deliver(m)

Spec == Init /\ [][Next]_vars

\* Stripe goes on delivering while a subscription has an event that has not
\* been answered 200.  Nothing obliges a user, a customer or staff to act.
Unanswered(s) == {m \in posted : m.sub = s /\ m \notin acked}

FairSpec ==
  Spec /\ \A s \in Subs : WF_vars(\E m \in Unanswered(s) : Deliver(m))
-----------------------------------------------------------------------------
(* Properties *)

\* An event that updateMany applies to no row is no event of a subscription
\* made by POST /subscribe that a customer has begun to pay.
EventsFindRow ==
  \A m \in posted :
    m.sub \notin tagged /\ m.status # "incomplete_expired" => row[m.sub] # None

\* What a row says, Stripe once said: in whatever order events come and
\* whichever requests run, no row is active or canceled for a subscription
\* that never was, nor past due when no payment failed.  (The run delivers events
\* in order, InOrder; the theorem is about any order.)
StatusHasCause ==
  \A s \in Subs : row[s] \notin {None, "trialing"}
    => \E m \in posted :
         /\ m.sub = s
         /\ m.status = row[s] \/ (m.type = "failed" /\ row[s] = "past_due")

\* requireActiveSubscription for an organization without the trial row of
\* registration, which no event ever changes.
Access == \E s \in Subs : row[s] \in {"active", "trialing"}

Quiet == posted = acked /\ \A r \in Requests : request[r].pc \in {"idle", "done"}

\* With every event in order and answered, rows say what Stripe says of a
\* subscription that has been paid once, and access means a subscription
\* that is paid or waits for its first payment.
MirrorsStripe ==
  InOrder /\ Quiet =>
    /\ \A s \in Subs :
         row[s] # None /\ stripe[s] # "incomplete" => row[s] = stripe[s]
    /\ Access => \E s \in Subs : stripe[s] \in {"active", "incomplete"}

\* A subscription canceled at Stripe is canceled in its row sooner or later.
CancellationReachesRow ==
  \A s \in Subs :
    stripe[s] = "canceled" /\ row[s] # None ~> row[s] = "canceled"
-----------------------------------------------------------------------------
\* Why the first two hold: a secret is out, and Stripe moves an untagged
\* subscription on, only when its row is there; rows are never deleted.
SecretsHaveRows ==
  \A s \in Subs :
    /\ s \in revealed => row[s] # None
    /\ stripe[s] \in {"active", "past_due", "canceled"} /\ s \notin tagged
         => row[s] # None

RequestsTrue ==
  \A r \in Requests :
    /\ request[r].pc = "save" => request[r].sub \in Subs
    /\ request[r].pc = "profile" => request[r].customer \in Requests

IInv ==
  /\ TypeOK
  /\ EventsFindRow
  /\ StatusHasCause
  /\ SecretsHaveRows
  /\ RequestsTrue
-----------------------------------------------------------------------------
\* Why rows mirror Stripe.  The latest events of a subscription say what it has come
\* to, apart from a first payment that was refused and a status the schema lacks ...
Latest(m) == m.at = changes[m.sub]

PostedInOrder ==
  /\ \A m, n \in posted : m.sub = n.sub /\ m.at = n.at => NewStatus(m) = NewStatus(n)
  /\ \A m \in posted :
       /\ stripe[m.sub] # None /\ m.at <= changes[m.sub]
       /\ Latest(m) => \/ NewStatus(m) = stripe[m.sub]
                       \/ stripe[m.sub] = "incomplete"
                       \/ NewStatus(m) \notin SubscriptionStatus
  /\ \A s \in Subs : \/ stripe[s] \in {None, "incomplete"}
                     \/ \E m \in posted : m.sub = s /\ Latest(m)

\* ... what has been acknowledged is a beginning of them that left its mark ...
AckedInOrder ==
  /\ \A m \in acked, n \in posted : m.sub = n.sub /\ n.at < m.at => n \in acked
  /\ \A m \in acked : /\ NewStatus(m) \in SubscriptionStatus
                      /\ Latest(m) => row[m.sub] \in {None, NewStatus(m)}

\* ... and a request writes "trialing" before any event of its subscription but that
\* of its expiry.
SavedFirst ==
  /\ \A s \in Subs : row[s] # None => stripe[s] # None
  /\ \A r \in Requests : request[r].pc = "save" =>
       /\ stripe[request[r].sub] \in {"incomplete", "incomplete_expired"}
       /\ request[r].sub \notin revealed
       /\ \A m \in posted : m.sub = request[r].sub => m.status = "incomplete_expired"
                                                     /\ m.type = "updated"
       /\ \A q \in Requests \ {r} :
            request[q].pc = "save" => request[q].sub # request[r].sub

OrderKept == PostedInOrder /\ SavedFirst /\ (InOrder => AckedInOrder)
=============================================================================
