------------------------------- MODULE Signing -------------------------------
(***************************************************************************)
(* Sending contracts for signature: routes/signatures.ts (create, void,    *)
(* resend, the provider's webhook), the PATCH and DELETE handlers of       *)
(* routes/contracts.ts, and the signature provider they talk to.           *)
(*                                                                         *)
(* A handler is an Express callback that runs alone between two awaits, so *)
(* it is a sequence of actions, one per database or provider call, and any *)
(* other handler may run between two of them.  No handler holds a lock or  *)
(* opens a transaction.  What a handler remembers across an await is its   *)
(* record in `request' or `hook', whose pc names the call it makes next.   *)
(***************************************************************************)
EXTENDS Naturals, FiniteSets, ContractStatus

CONSTANTS
  Contracts,      \* contract rows, all of one organization
  Envelopes,      \* ids for SignatureEnvelope rows
  ProviderIds,    \* envelope ids the provider may hand out
  SignRequests,     \* user requests to /api/signatures, each served once
  ContractRequests, \* user requests to /api/contracts, each served once
  Hooks,          \* webhook handlers that may be running at one time
  None,           \* no value: no row, no status field, no client timestamp
  InitialStatus,  \* statuses earlier requests may have left a contract in
  SignerEvents,   \* what signers do that the provider reports, each by its name
  CancelEvents,   \* event names with which a provider reports a void
  MaxAttempts,    \* bound: deliveries the provider makes of one event
  MaxFaults       \* bound: failed calls, lost answers, refused secrets, crashes

ASSUME SigningAssumption ==
  /\ InitialStatus \subseteq Status \ {"EXECUTED"}
  /\ SignerEvents \subseteq 
       {"delivered", "viewed", "signed", "completed", "all_signed", "declined"}
  /\ CancelEvents \subseteq {"voided", "canceled"}
  /\ None \notin Contracts \cup Envelopes \cup ProviderIds \cup Status
                 \cup SignatureStatus \cup Nat
  /\ MaxAttempts \in Nat /\ MaxFaults \in Nat

VARIABLES
  contract,   \* Contract rows
  envelope,   \* SignatureEnvelope rows
  provider,   \* state of each envelope at the provider, "none" before it exists
  sentFor,    \* the contract whose title and recipients the provider was given
  notified,   \* events the provider has posted, as [id, event]
  replaced,   \* history: provider envelopes whose row a resend gave another one
  guarded,    \* does a call to the webhook pass through `protect' first?
  attempts,   \* deliveries made of each event
  acked,      \* events answered with 200: the provider stops retrying them
  request,    \* user requests in progress
  hook,       \* webhook deliveries in progress
  announced,  \* contract.status_changed jobs put in the outbound queue
  had,        \* history: the statuses each contract has had
  faults      \* failures so far

external == <<provider, sentFor, notified, replaced, guarded>>
delivery == <<attempts, acked, hook>>
rows     == <<contract, announced, had>>
vars     == <<rows, envelope, external, delivery, request, faults>>

Requests == SignRequests \cup ContractRequests

Message == [id : ProviderIds, event : RawEvents]
Live    == {"sent", "delivered", "viewed", "signed"}
NoRow   == [contract |-> None, providerId |-> None, status |-> None]

RequestPc == {"idle", "createSend", "createSave", "voidCall", "voidSave",
              "resendSend", "resendSave", "patchSave", "deleteSave", "done"}
HookPc    == {"idle", "save", "execute"}

Fresh == [pc |-> "idle", contract |-> None, envelope |-> None,
          providerId |-> None, status |-> None, seen |-> None]

Served == [Fresh EXCEPT !.pc = "done"]

Waiting == [pc |-> "idle", envelope |-> None, contract |-> None,
            status |-> None, msg |-> None]

ContractRow == [status : Status, deleted : BOOLEAN, updatedAt : Nat]

EnvelopeRow == [contract   : Contracts \cup {None},
                providerId : ProviderIds \cup {None},
                status     : SignatureStatus \cup {None}]

RequestRecord == [pc         : RequestPc,
                  contract   : Contracts \cup {None},
                  envelope   : Envelopes \cup {None},
                  providerId : ProviderIds \cup {None},
                  status     : Status \cup {None},
                  seen       : Status \cup {None}]

HookRecord == [pc       : HookPc,
               envelope : Envelopes \cup {None},
               contract : Contracts \cup {None},
               status   : SignatureStatus \cup {"ALL_SIGNED", "CANCELED", None},
               msg      : Message \cup {None}]

TypeOK ==
  /\ contract \in [Contracts -> ContractRow]
  /\ envelope \in [Envelopes -> EnvelopeRow]
  /\ provider \in [ProviderIds -> (RawEvents \ {"canceled"}) \cup {"none"}]
  /\ sentFor \in [ProviderIds -> Contracts \cup {None}]
  /\ notified \subseteq Message
  /\ replaced \subseteq ProviderIds
  /\ guarded \in BOOLEAN
  /\ attempts \in [Message -> Nat]
  /\ acked \subseteq notified
  /\ request \in [Requests -> RequestRecord]
  /\ hook \in [Hooks -> HookRecord]
  /\ announced \in [Contracts -> SUBSET (Status \X Status)]
  /\ had \in [Contracts -> SUBSET Status]
  /\ faults \in Nat

Init ==
  /\ \E status \in [Contracts -> InitialStatus] :
       contract = [c \in Contracts |-> [status |-> status[c], deleted |-> FALSE,
                                        updatedAt |-> 0]]
  /\ had = [c \in Contracts |-> {contract[c].status}]
  /\ announced = [c \in Contracts |-> {}]
  /\ envelope = [e \in Envelopes |-> NoRow]
  /\ provider = [p \in ProviderIds |-> "none"]
  /\ sentFor = [p \in ProviderIds |-> None]
  /\ notified = {} /\ replaced = {} /\ acked = {}
  /\ guarded \in BOOLEAN
  /\ attempts = [m \in Message |-> 0]
  /\ request = [r \in Requests |-> Fresh]
  /\ hook = [h \in Hooks |-> Waiting]
  /\ faults = 0
-----------------------------------------------------------------------------
(* Helpers *)

Exists(e)  == envelope[e].contract # None
Found(c)   == ~contract[c].deleted     \* findFirst with deletedAt: null

\* Handler r awaits its next call and remembers the record q.
Await(r, q) == request' = [request EXCEPT ![r] = q]
Done(r)     == Await(r, Served)

At(r, pc)  == request[r].pc = pc
Fault      == faults < MaxFaults /\ faults' = faults + 1

\* Bound on the rows of a model: creates under way count against Envelopes.
RoomForRow ==
  Cardinality({e \in Envelopes : Exists(e)})
    + Cardinality({r \in Requests : request[r].pc \in {"createSend", "createSave"}})
  < Cardinality(Envelopes)

\* The provider creates an envelope for contract c and posts its first event.
\* The caller learns the new id in its next step, if it lives to see it.
ProviderCreates(c, p) ==
  /\ provider[p] = "none"
  /\ provider' = [provider EXCEPT ![p] = "sent"]
  /\ sentFor' = [sentFor EXCEPT ![p] = c]
  /\ notified' = notified \cup {[id |-> p, event |-> "sent"]}
  /\ UNCHANGED <<replaced, guarded>>

\* prisma.contract.update: @updatedAt takes a new value on every update.
UpdateContract(c, s, deleted) ==
  /\ contract' = [contract EXCEPT ![c] = [status |-> s, deleted |-> deleted,
                                          updatedAt |-> contract[c].updatedAt + 1]]
  /\ had' = [had EXCEPT ![c] = @ \cup {s}]
-----------------------------------------------------------------------------
(* POST /api/signatures *)

CreateRead(r, c) ==
  /\ At(r, "idle")
  /\ Found(c)
  /\ RoomForRow
  /\ Await(r, [Fresh EXCEPT !.pc = "createSend", !.contract = c])
  /\ UNCHANGED <<rows, envelope, external, delivery, faults>>

CreateSend(r) ==
  /\ At(r, "createSend")
  /\ \E p \in ProviderIds :
       /\ ProviderCreates(request[r].contract, p)
       /\ Await(r, [request[r] EXCEPT !.pc = "createSave",
                                      !.providerId = p])
  /\ UNCHANGED <<rows, envelope, delivery, faults>>

CreateSave(r) ==
  /\ At(r, "createSave")
  /\ \E e \in Envelopes :
       /\ ~Exists(e)
       /\ envelope' = [envelope EXCEPT
                         ![e] = [contract   |-> request[r].contract,
                                 providerId |-> request[r].providerId,
                                 status     |-> MapStatus("sent")]]
  /\ Done(r)
  /\ UNCHANGED <<rows, external, delivery, faults>>

(* POST /api/signatures/:id/void *)

VoidRead(r, e) ==
  /\ At(r, "idle")
  /\ Exists(e)
  /\ envelope[e].status \notin Closed
  /\ Await(r, [Fresh EXCEPT !.pc = "voidCall", !.envelope = e,
                            !.providerId = envelope[e].providerId])
  /\ UNCHANGED <<rows, envelope, external, delivery, faults>>

VoidCall(r) ==
  LET p == request[r].providerId IN
  /\ At(r, "voidCall")
  /\ provider[p] \in Live
  /\ provider' = [provider EXCEPT ![p] = "voided"]
  /\ \E ev \in CancelEvents : notified' = notified \cup {[id |-> p, event |-> ev]}
  /\ Await(r, [request[r] EXCEPT !.pc = "voidSave"])
  /\ UNCHANGED <<rows, envelope, sentFor, replaced, guarded, delivery, faults>>

\* Mutant: the handler takes a refusal for success and goes on to save.
VoidRefusedIgnored(r) ==
  /\ At(r, "voidCall")
  /\ provider[request[r].providerId] \notin Live
  /\ Await(r, [request[r] EXCEPT !.pc = "voidSave"])
  /\ UNCHANGED <<rows, envelope, external, delivery, faults>>

\* Mutant: the handler marks the row also when the provider refused.
VoidRefusedSaved(r) ==
  /\ At(r, "voidCall")
  /\ provider[request[r].providerId] \notin Live
  /\ envelope' = [envelope EXCEPT ![request[r].envelope].status = "VOIDED"]
  /\ Done(r)
  /\ UNCHANGED <<rows, external, delivery, faults>>

\* The provider refuses to void a finished envelope; the handler throws.
VoidRefused(r) ==
  /\ At(r, "voidCall")
  /\ provider[request[r].providerId] \notin Live
  /\ Done(r)
  /\ UNCHANGED <<rows, envelope, external, delivery, faults>>

VoidSave(r) ==
  /\ At(r, "voidSave")
  /\ envelope' = [envelope EXCEPT ![request[r].envelope].status = "VOIDED"]
  /\ Done(r)
  /\ UNCHANGED <<rows, external, delivery, faults>>

(* POST /api/signatures/:id/resend *)

ResendRead(r, e) ==
  /\ At(r, "idle")
  /\ Exists(e)
  /\ envelope[e].status \notin Closed
  /\ Await(r, [Fresh EXCEPT !.pc = "resendSend", !.envelope = e,
                            !.contract = envelope[e].contract])
  /\ UNCHANGED <<rows, envelope, external, delivery, faults>>

ResendSend(r) ==
  /\ At(r, "resendSend")
  /\ \E p \in ProviderIds :
       /\ ProviderCreates(request[r].contract, p)
       /\ Await(r, [request[r] EXCEPT !.pc = "resendSave",
                                      !.providerId = p])
  /\ UNCHANGED <<rows, envelope, delivery, faults>>

\* Mutant: the row keeps the id of the envelope sent before.
ResendSaveStatus(r) ==
  /\ At(r, "resendSave")
  /\ envelope' = [envelope EXCEPT ![request[r].envelope].status = MapStatus("sent")]
  /\ Done(r)
  /\ UNCHANGED <<rows, external, delivery, faults>>

ResendSave(r) ==
  /\ At(r, "resendSave")
  /\ envelope' = [envelope EXCEPT ![request[r].envelope] =
                    [@ EXCEPT !.providerId = request[r].providerId,
                              !.status = MapStatus("sent")]]
  /\ replaced' = replaced \cup {envelope[request[r].envelope].providerId}
  /\ Done(r)
  /\ UNCHANGED <<rows, provider, sentFor, notified, guarded, delivery, faults>>

\* createEnvelope throws on an answer that is not ok, for create and resend.
SendRefused(r) ==
  /\ request[r].pc \in {"createSend", "resendSend"}
  /\ Done(r)
  /\ UNCHANGED <<rows, envelope, external, delivery, faults>>
-----------------------------------------------------------------------------
(* PATCH /api/contracts/:id.  s is the status field of the body and stamp  *)
(* its updatedAt field, which a client has from an earlier answer.         *)

AllowedChange(from, to) == to = from \/ to \in ValidStatusTransitions[from]

StampAccepted(c, stamp) == stamp # None => stamp = contract[c].updatedAt

\* Mutant: the check of the transition table is missing.
PatchReadUnchecked(r, c, s, stamp) ==
  /\ At(r, "idle")
  /\ Found(c)
  /\ StampAccepted(c, stamp)
  /\ Await(r, [Fresh EXCEPT !.pc = "patchSave", !.contract = c,
                            !.status = s, !.seen = contract[c].status])
  /\ UNCHANGED <<rows, envelope, external, delivery, faults>>

PatchRead(r, c, s, stamp) ==
  /\ At(r, "idle")
  /\ Found(c)
  /\ StampAccepted(c, stamp)
  /\ s # None => AllowedChange(contract[c].status, s)
  /\ Await(r, [Fresh EXCEPT !.pc = "patchSave", !.contract = c,
                            !.status = s, !.seen = contract[c].status])
  /\ UNCHANGED <<rows, envelope, external, delivery, faults>>

PatchUpdate(r) ==
  LET q   == request[r]
      row == contract[q.contract]
  IN
  /\ At(r, "patchSave")
  /\ UpdateContract(q.contract, IF q.status = None THEN row.status ELSE q.status,
                    row.deleted)
  /\ Done(r)
  /\ UNCHANGED <<envelope, external, delivery>>

\* Mutant: the job is queued although the update has failed.
UpdateFailsAnnounced(r) ==
  LET q == request[r] IN
  /\ q.pc \notin {"idle", "done"}
  /\ Fault
  /\ announced' = IF q.pc = "patchSave" /\ q.status \notin {None, q.seen}
                  THEN [announced EXCEPT ![q.contract] = @ \cup {<<q.seen, q.status>>}]
                  ELSE announced
  /\ Done(r)
  /\ UNCHANGED <<contract, had, envelope, external, delivery>>

\* The update and, in the same turn, the contract.status_changed job.
PatchSave(r) ==
  LET q == request[r] IN
  /\ PatchUpdate(r)
  /\ announced' = IF q.status \notin {None, q.seen}
                  THEN [announced EXCEPT ![q.contract] = @ \cup {<<q.seen, q.status>>}]
                  ELSE announced
  /\ UNCHANGED faults

\* The update commits but the process dies, or Redis refuses the job.
PatchSaveUnannounced(r) ==
  /\ PatchUpdate(r)
  /\ Fault
  /\ UNCHANGED announced

(* DELETE /api/contracts/:id: a soft delete. *)

DeleteRead(r, c) ==
  /\ At(r, "idle")
  /\ Found(c)
  /\ Await(r, [Fresh EXCEPT !.pc = "deleteSave", !.contract = c])
  /\ UNCHANGED <<rows, envelope, external, delivery, faults>>

DeleteSave(r) ==
  LET c == request[r].contract IN
  /\ At(r, "deleteSave")
  /\ UpdateContract(c, contract[c].status, TRUE)
  /\ Done(r)
  /\ UNCHANGED <<announced, envelope, external, delivery, faults>>

\* The call a handler waits for throws, or the process dies: what was done
\* before the call stays, what would follow it never happens.
RequestFails(r) ==
  /\ request[r].pc \notin {"idle", "done"}
  /\ Fault
  /\ Done(r)
  /\ UNCHANGED <<rows, envelope, external, delivery>>
-----------------------------------------------------------------------------
(* The provider: signers act, and every change is posted.                  *)

\* How far an event takes an envelope.
Rank == [sent |-> 1, delivered |-> 2, viewed |-> 2, signed |-> 3, completed |-> 4,
         all_signed |-> 4, declined |-> 4, voided |-> 4, canceled |-> 4]

After(state) ==
  {s \in SignerEvents : state \in Live /\ Rank[state] < Rank[s]}

SignerActs(p) ==
  /\ \E s \in After(provider[p]) :
       /\ provider' = [provider EXCEPT ![p] = s]
       /\ notified' = notified \cup {[id |-> p, event |-> s]}
  /\ UNCHANGED <<rows, envelope, sentFor, replaced, guarded, delivery, request, faults>>
-----------------------------------------------------------------------------
(* POST /api/signatures/webhook/:provider *)

\* One attempt of the provider to deliver m.  Deliveries of different events,
\* and a second delivery of the same one, may come in any order.
Posts(m) ==
  /\ m \in notified
  /\ attempts[m] < MaxAttempts
  /\ attempts' = [attempts EXCEPT ![m] = @ + 1]

\* Answered 401.  `protect' asks a provider for a user's token in vain, and
\* verifyWebhook refuses while the secret is not configured on both sides.
HookRefused(m) ==
  /\ Posts(m)
  /\ IF guarded THEN UNCHANGED faults ELSE Fault
  /\ UNCHANGED <<rows, envelope, external, acked, hook, request>>

Arrives(m) == ~guarded /\ Posts(m)

HookFind(h, m, e) ==
  /\ hook[h].pc = "idle"
  /\ Arrives(m)
  /\ Exists(e) /\ envelope[e].providerId = m.id
  /\ hook' = [hook EXCEPT ![h] = [pc       |-> "save",
                                  envelope |-> e,
                                  contract |-> envelope[e].contract,
                                  status   |-> MapStatus(m.event),
                                  msg      |-> m]]
  /\ UNCHANGED <<rows, envelope, external, acked, request, faults>>

\* "Webhook for unknown envelope": answered 200 and forgotten.
HookUnknown(m) ==
  /\ Arrives(m)
  /\ \A e \in Envelopes : ~(Exists(e) /\ envelope[e].providerId = m.id)
  /\ acked' = acked \cup {m}
  /\ UNCHANGED <<rows, envelope, external, hook, request, faults>>

Acknowledge(h) ==
  /\ acked' = acked \cup {hook[h].msg}
  /\ hook' = [hook EXCEPT ![h] = Waiting]

HookSave(h) ==
  /\ hook[h].pc = "save"
  /\ hook[h].status \in SignatureStatus
  /\ envelope' = [envelope EXCEPT ![hook[h].envelope].status = hook[h].status]
  /\ IF hook[h].status = "COMPLETED"
     THEN hook' = [hook EXCEPT ![h] = [hook[h] EXCEPT !.pc = "execute"]] /\ UNCHANGED acked
     ELSE Acknowledge(h)
  /\ UNCHANGED <<rows, external, attempts, request, faults>>

\* Mutant: the error of the update is swallowed and the answer is 200.
HookRejectedAcked(h) ==
  /\ hook[h].pc = "save"
  /\ hook[h].status \notin SignatureStatus
  /\ Acknowledge(h)
  /\ UNCHANGED <<rows, envelope, external, attempts, request, faults>>

\* Prisma rejects a status that is not in the enum: 500, no acknowledgement.
HookRejected(h) ==
  /\ hook[h].pc = "save"
  /\ hook[h].status \notin SignatureStatus
  /\ hook' = [hook EXCEPT ![h] = Waiting]
  /\ UNCHANGED <<rows, envelope, external, attempts, acked, request, faults>>

HookExecute(h) ==
  /\ hook[h].pc = "execute"
  /\ UpdateContract(hook[h].contract, "EXECUTED", contract[hook[h].contract].deleted)
  /\ Acknowledge(h)
  /\ UNCHANGED <<announced, envelope, external, attempts, request, faults>>

\* The second write fails: the error is logged and the answer is still 200.
HookExecuteFails(h) ==
  /\ hook[h].pc = "execute"
  /\ Fault
  /\ Acknowledge(h)
  /\ UNCHANGED <<rows, envelope, external, attempts, request>>

\* Mutant: the handler answers 200 before it does its work.
HookDiesAcked(h) ==
  /\ hook[h].pc # "idle"
  /\ Fault
  /\ Acknowledge(h)
  /\ UNCHANGED <<rows, envelope, external, attempts, request>>

\* A crash, or an error of the first write: the provider sees no 200.
HookDies(h) ==
  /\ hook[h].pc # "idle"
  /\ Fault
  /\ hook' = [hook EXCEPT ![h] = Waiting]
  /\ UNCHANGED <<rows, envelope, external, attempts, acked, request>>
-----------------------------------------------------------------------------
Continue(r) ==
  \/ CreateSend(r) \/ CreateSave(r)
  \/ VoidCall(r) \/ VoidRefused(r) \/ VoidSave(r)
  \/ ResendSend(r) \/ ResendSave(r) \/ SendRefused(r)
  \/ PatchSave(r) \/ PatchSaveUnannounced(r)
  \/ DeleteSave(r)
  \/ RequestFails(r)

EnvelopeRequest(r) ==
  \/ \E c \in Contracts : CreateRead(r, c)
  \/ \E e \in Envelopes : VoidRead(r, e) \/ ResendRead(r, e)

ContractRequest(r) ==
  \E c \in Contracts :
    \/ DeleteRead(r, c)
    \/ \E s \in Status \cup {None},
          stamp \in (0 .. contract[c].updatedAt) \cup {None} :
         PatchRead(r, c, s, stamp)

HookStep(h) ==
  \/ HookSave(h) \/ HookRejected(h)
  \/ HookExecute(h) \/ HookExecuteFails(h)
  \/ HookDies(h)

Next ==
  \/ \E r \in SignRequests : EnvelopeRequest(r)
  \/ \E r \in ContractRequests : ContractRequest(r)
  \/ \E r \in Requests : Continue(r)
  \/ \E p \in ProviderIds : SignerActs(p)
  \/ \E m \in Message : HookRefused(m) \/ HookUnknown(m)
  \/ \E h \in Hooks : HookStep(h)
  \/ \E h \in Hooks, m \in Message, e \in Envelopes : HookFind(h, m, e)

Spec == Init /\ [][Next]_vars

Deliver(m) ==
  \/ HookUnknown(m)
  \/ \E h \in Hooks, e \in Envelopes : HookFind(h, m, e)

(***************************************************************************)
(* Node runs a handler whose call has returned, and the provider delivers  *)
(* again until it is answered 200 (requireAcknowledgment in                *)
(* signature-provider.ts).  Nothing obliges a user or a signer to act.     *)
(***************************************************************************)
Fairness ==
  /\ \A r \in Requests : WF_vars(Continue(r))
  /\ \A h \in Hooks : WF_vars(HookStep(h))
  /\ \A m \in Message : WF_vars(m \notin acked /\ Deliver(m))

FairSpec == Spec /\ Fairness
-----------------------------------------------------------------------------
(* Properties that hold whatever the interleaving *)

ProviderSays(c, s) ==
  \E p \in ProviderIds : sentFor[p] = c /\ MapStatus(provider[p]) = s

Earned(c) == ProviderSays(c, "COMPLETED") \/ "PENDING_SIGNATURE" \in had[c]

\* A row that says COMPLETED, DECLINED or VOIDED does so because a provider
\* envelope sent for its contract really ended that way: no order of
\* webhooks, voids, resends and failures invents an ending.
TerminalRowHasCause ==
  \A e \in Envelopes : Exists(e) /\ envelope[e].status \in Closed
      => ProviderSays(envelope[e].contract, envelope[e].status)

\* A contract is EXECUTED only if its signers completed an envelope of it or
\* a user moved it there from PENDING_SIGNATURE, however requests that read
\* the old status before and wrote the new one after are interleaved.
ExecutedIsEarned ==
  \A c \in Contracts : contract[c].status = "EXECUTED"
      => Earned(c)

\* A contract.status_changed job names two statuses that the contract has had
\* and a change the table allows, although the change it names need not be one
\* the contract made: another request may have written between this one's read
\* and its update.  No failed update is announced.
AnnouncedHappened ==
  \A c \in Contracts : \A move \in announced[c] :
    /\ {move[1], move[2]} \subseteq had[c]
    /\ move[2] \in ValidStatusTransitions[move[1]]

\* Envelopes at the provider that no row names.
Named(p) == \E e \in Envelopes : Exists(e) /\ envelope[e].providerId = p

Unnamed == {p \in ProviderIds : provider[p] # "none" /\ ~Named(p)}

\* A create or resend that has called the provider will write the id it got.
InHand == {request[r].providerId :
             r \in {q \in Requests : request[q].pc \in {"createSave", "resendSave"}}}

Orphans == Unnamed \ (InHand \cup replaced)

\* Signers can act on no more envelopes that are missing from the rows than
\* there were failures between the provider's answer and the write, apart from
\* those that a resend has replaced or a handler is about to write: whatever
\* creates, resends and voids of one row overlap, none drops the envelope of
\* another.  It is the events of unnamed envelopes that are answered 200 and
\* forgotten.
OrphansAccounted == Cardinality(Orphans) <= faults

(***************************************************************************)
(* Why the two hold: what a handler remembers across an await stays true,  *)
(* because provider envelopes never leave an ending, never change their    *)
(* contract, and rows are never deleted.                                   *)
(***************************************************************************)
EventsTrue ==
  \A m \in notified : MapStatus(m.event) \in Closed
     => MapStatus(provider[m.id]) = MapStatus(m.event)

RowsTrue ==
  \A e \in Envelopes : Exists(e)
     => /\ envelope[e].contract \in Contracts
        /\ envelope[e].providerId \in ProviderIds
        /\ sentFor[envelope[e].providerId] = envelope[e].contract

RequestTrue(r) ==
  LET q   == request[r]
      row == envelope[q.envelope]
  IN  /\ q.pc \in {"createSend", "createSave", "resendSend", "patchSave", "deleteSave"}
           => q.contract \in Contracts
      /\ q.pc \in {"voidCall", "voidSave", "resendSend", "resendSave"}
           => q.envelope \in Envelopes /\ Exists(q.envelope)
      /\ q.pc \in {"createSave", "voidCall", "resendSave"}
           => q.providerId \in ProviderIds
      /\ q.pc = "patchSave" =>
           /\ q.seen \in had[q.contract]
           /\ q.status # None => AllowedChange(q.seen, q.status)
      /\ q.pc = "createSave" => sentFor[q.providerId] = q.contract
      /\ q.pc = "resendSend" => row.contract = q.contract
      /\ q.pc \in {"voidCall", "resendSave"} => sentFor[q.providerId] = row.contract
      /\ q.pc = "voidSave" => ProviderSays(row.contract, "VOIDED")
      /\ q.pc = "patchSave" /\ q.status = "EXECUTED" => Earned(q.contract)

HookTrue(h) ==
  LET k == hook[h] IN
  k.pc # "idle"
    => /\ k.msg \in notified
       /\ k.envelope \in Envelopes /\ Exists(k.envelope)
       /\ k.contract \in Contracts /\ envelope[k.envelope].contract = k.contract
       /\ k.status \in Closed => ProviderSays(k.contract, k.status)
       /\ k.pc = "execute" => k.status = "COMPLETED"

\* The history variable misses no status a contract has now.
StatusSeen == \A c \in Contracts : contract[c].status \in had[c]

\* No handler in progress, no posted event and no row is wrong about the
\* provider, whatever other handlers did since it was read or posted.
KnowledgeSound ==
  /\ \A p \in ProviderIds : sentFor[p] = None <=> provider[p] = "none"
  /\ EventsTrue
  /\ RowsTrue
  /\ StatusSeen
  /\ \A r \in Requests : RequestTrue(r)
  /\ \A h \in Hooks : HookTrue(h)

IInv ==
  /\ TypeOK
  /\ KnowledgeSound
  /\ TerminalRowHasCause
  /\ ExecutedIsEarned
  /\ AnnouncedHappened
  /\ IsFiniteSet(Orphans) /\ OrphansAccounted
-----------------------------------------------------------------------------
(* What a handler has received it finishes, in SigningSerial. *)

\* A completion that has come as far as the handler ends in its row, although
\* the handler may die before it answers and is then called again, unless a
\* resend has pointed the row at another envelope.  (That one comes as far as
\* the handler is not promised: see HookRefused.)
ReceivedCompletionIsSaved ==
  \A e \in Envelopes, p \in ProviderIds, h \in Hooks :
     (hook[h].msg = [id |-> p, event |-> "completed"] /\ envelope[e].providerId = p)
       ~> (envelope[e].status = "COMPLETED" \/ envelope[e].providerId # p)
=============================================================================
