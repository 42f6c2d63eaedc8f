---------------------------- MODULE SigningProofs ----------------------------
(***************************************************************************)
(* Signing for every set of contracts, rows, provider ids, requests and    *)
(* handlers, every number of deliveries and every number of failures.      *)
(***************************************************************************)
EXTENDS SigningSerial, FiniteSetTheorems, TLAPS

(* What the translation of a provider's event name can yield. *)
LEMMA MapType ==
  ASSUME NEW raw \in RawEvents
  PROVE  MapStatus(raw) \in SignatureStatus \cup {"ALL_SIGNED", "CANCELED"}
  BY DEF MapStatus, StatusMap, RawEvents, SignatureStatus

(* Its values on the names the proofs meet. *)
LEMMA MapValues ==
  /\ MapStatus("sent") = "SENT"
  /\ MapStatus("none") = "CANCELED"
  /\ MapStatus("voided") = "VOIDED"
  /\ \A raw \in Live : MapStatus(raw) \notin Closed
  BY DEF MapStatus, StatusMap, Live, Closed

(* The records handlers keep, and the rows they write, are well typed. *)
LEMMA Records ==
  /\ NoRow \in EnvelopeRow
  /\ Fresh \in RequestRecord
  /\ Served \in RequestRecord
  /\ Waiting \in HookRecord
  BY DEF NoRow, EnvelopeRow, Fresh, Served, RequestRecord, RequestPc, Waiting,
         HookRecord, HookPc

(* What a signer does to an envelope, the provider can report. *)
LEMMA AfterLive ==
  \A state : \A s \in After(state) : state \in Live /\ s \in RawEvents \ {"canceled"}
  BY SigningAssumption DEF After, RawEvents

(* The initial state is well typed. *)
LEMMA InitType == Init => TypeOK
<1> SUFFICES ASSUME Init PROVE TypeOK
  OBVIOUS
<1>1. contract \in [Contracts -> ContractRow]
  BY SigningAssumption DEF Init, ContractRow
<1>2. had \in [Contracts -> SUBSET Status]
  BY <1>1 DEF Init, ContractRow
<1>3. QED
  BY <1>1, <1>2, Records DEF Init, TypeOK

-----------------------------------------------------------------------------
(* No step leaves the types; the invariant says what a handler holds. *)
LEMMA TypeStep == IInv /\ [Next]_vars => TypeOK'
<1> SUFFICES ASSUME IInv, [Next]_vars PROVE TypeOK'
  OBVIOUS
<1> USE DEF Await, At
<1>0. TypeOK /\ KnowledgeSound
  BY DEF IInv
<1>q. ASSUME NEW r \in Requests, NEW q \in RequestRecord, Await(r, q)
      PROVE  request' \in [Requests -> RequestRecord]
  BY <1>0, <1>q DEF TypeOK
<1>d. ASSUME NEW r \in Requests, Done(r)
      PROVE  request' \in [Requests -> RequestRecord]
  BY <1>d, <1>q, Records DEF Done
<1>c. ASSUME NEW c \in Contracts, NEW s \in Status, NEW d \in BOOLEAN,
             UpdateContract(c, s, d)
      PROVE  contract' \in [Contracts -> ContractRow] /\ had' \in [Contracts -> SUBSET Status]
  BY <1>0, <1>c DEF TypeOK, UpdateContract, ContractRow
<1>p. ASSUME NEW c \in Contracts, NEW p \in ProviderIds, ProviderCreates(c, p)
      PROVE  /\ provider' \in [ProviderIds -> (RawEvents \ {"canceled"}) \cup {"none"}]
             /\ sentFor' \in [ProviderIds -> Contracts \cup {None}]
             /\ notified' \subseteq Message /\ notified \subseteq notified'
             /\ UNCHANGED <<replaced, guarded>>
  BY <1>0, <1>p DEF TypeOK, ProviderCreates, RawEvents, Message
<1>1. ASSUME NEW r \in Requests, NEW c \in Contracts, CreateRead(r, c)
      PROVE  TypeOK'
  <2>1. [Fresh EXCEPT !.pc = "createSend", !.contract = c] \in RequestRecord
    BY Records DEF RequestRecord, RequestPc
  <2>2. QED
    BY <1>0, <1>1, <1>q, <2>1 DEF TypeOK, CreateRead, rows, external, delivery
<1>2. ASSUME NEW r \in Requests, CreateSend(r)
      PROVE  TypeOK'
  <2>1. PICK p \in ProviderIds :
          /\ ProviderCreates(request[r].contract, p)
          /\ Await(r, [request[r] EXCEPT !.pc = "createSave", !.providerId = p])
    BY <1>2 DEF CreateSend
  <2>2. request[r].contract \in Contracts
    BY <1>0, <1>2 DEF CreateSend, KnowledgeSound, RequestTrue
  <2>3. [request[r] EXCEPT !.pc = "createSave", !.providerId = p] \in RequestRecord
    BY <1>0 DEF TypeOK, RequestRecord, RequestPc
  <2>4. QED
    BY <1>0, <1>2, <1>p, <1>q, <2>1, <2>2, <2>3
    DEF TypeOK, CreateSend, rows, delivery
<1>3. ASSUME NEW r \in Requests, CreateSave(r)
      PROVE  TypeOK'
  <2>1. envelope' \in [Envelopes -> EnvelopeRow]
    BY <1>0, <1>3, MapValues
    DEF TypeOK, CreateSave, EnvelopeRow, RequestRecord, SignatureStatus
  <2>2. QED
    BY <1>0, <1>3, <1>d, <2>1 DEF TypeOK, CreateSave, rows, external, delivery
<1>4. ASSUME NEW r \in Requests, NEW e \in Envelopes, VoidRead(r, e)
      PROVE  TypeOK'
  <2>1. [Fresh EXCEPT !.pc = "voidCall", !.envelope = e,
                      !.providerId = envelope[e].providerId] \in RequestRecord
    BY <1>0, Records DEF TypeOK, RequestRecord, RequestPc, EnvelopeRow
  <2>2. QED
    BY <1>0, <1>4, <1>q, <2>1 DEF TypeOK, VoidRead, rows, external, delivery
<1>5. ASSUME NEW r \in Requests, VoidCall(r)
      PROVE  TypeOK'
  <2>1. [request[r] EXCEPT !.pc = "voidSave"] \in RequestRecord
    BY <1>0 DEF TypeOK, RequestRecord, RequestPc
  <2>2. request[r].providerId \in ProviderIds
    BY <1>0, <1>5 DEF VoidCall, KnowledgeSound, RequestTrue
  <2>3. notified' \subseteq Message /\ notified \subseteq notified'
    BY <1>0, <1>5, <2>2, SigningAssumption DEF TypeOK, VoidCall, Message, RawEvents
  <2>4. QED
    BY <1>0, <1>5, <1>q, <2>1, <2>2, <2>3
    DEF TypeOK, VoidCall, RawEvents, rows, delivery
<1>6. ASSUME NEW r \in Requests, VoidRefused(r) \/ SendRefused(r) \/ RequestFails(r)
      PROVE  TypeOK'
  BY <1>0, <1>6, <1>d DEF TypeOK, VoidRefused, SendRefused, RequestFails, Fault,
                          rows, external, delivery
<1>7. ASSUME NEW r \in Requests, VoidSave(r)
      PROVE  TypeOK'
  <2>1. envelope' \in [Envelopes -> EnvelopeRow]
    BY <1>0, <1>7 DEF TypeOK, VoidSave, EnvelopeRow, SignatureStatus
  <2>2. QED
    BY <1>0, <1>7, <1>d, <2>1 DEF TypeOK, VoidSave, rows, external, delivery
<1>8. ASSUME NEW r \in Requests, NEW e \in Envelopes, ResendRead(r, e)
      PROVE  TypeOK'
  <2>1. [Fresh EXCEPT !.pc = "resendSend", !.envelope = e,
                      !.contract = envelope[e].contract] \in RequestRecord
    BY <1>0, Records DEF TypeOK, RequestRecord, RequestPc, EnvelopeRow
  <2>2. QED
    BY <1>0, <1>8, <1>q, <2>1 DEF TypeOK, ResendRead, rows, external, delivery
<1>9. ASSUME NEW r \in Requests, ResendSend(r)
      PROVE  TypeOK'
  <2>1. PICK p \in ProviderIds :
          /\ ProviderCreates(request[r].contract, p)
          /\ Await(r, [request[r] EXCEPT !.pc = "resendSave", !.providerId = p])
    BY <1>9 DEF ResendSend
  <2>2. request[r].contract \in Contracts
    BY <1>0, <1>9 DEF ResendSend, KnowledgeSound, RequestTrue
  <2>3. [request[r] EXCEPT !.pc = "resendSave", !.providerId = p] \in RequestRecord
    BY <1>0 DEF TypeOK, RequestRecord, RequestPc
  <2>4. QED
    BY <1>0, <1>9, <1>p, <1>q, <2>1, <2>2, <2>3
    DEF TypeOK, ResendSend, rows, delivery
<1>10. ASSUME NEW r \in Requests, ResendSave(r)
       PROVE  TypeOK'
  <2>1. request[r].envelope \in Envelopes
    BY <1>0, <1>10 DEF ResendSave, KnowledgeSound, RequestTrue
  <2>2. [envelope[request[r].envelope] EXCEPT
           !.providerId = request[r].providerId, !.status = MapStatus("sent")]
          \in EnvelopeRow
    <3>1. request[r].providerId \in ProviderIds
      BY <1>0, <1>10 DEF ResendSave, KnowledgeSound, RequestTrue
    <3>2. QED
      BY <1>0, <2>1, <3>1, MapValues DEF TypeOK, EnvelopeRow, SignatureStatus
  <2>3. QED
    <3>1. envelope[request[r].envelope].providerId \in ProviderIds
      BY <1>0, <1>10 DEF ResendSave, KnowledgeSound, RequestTrue, RowsTrue
    <3>2. QED
      BY <1>0, <1>10, <1>d, <2>1, <2>2, <3>1 DEF TypeOK, ResendSave, rows, delivery
<1>11. ASSUME NEW r \in Requests, NEW c \in Contracts, NEW s \in Status \cup {None},
              NEW stamp, PatchRead(r, c, s, stamp)
       PROVE  TypeOK'
  <2>1. [Fresh EXCEPT !.pc = "patchSave", !.contract = c, !.status = s,
                      !.seen = contract[c].status] \in RequestRecord
    BY <1>0, Records DEF TypeOK, RequestRecord, RequestPc, ContractRow
  <2>2. QED
    BY <1>0, <1>11, <1>q, <2>1 DEF TypeOK, PatchRead, rows, external, delivery
<1>12. ASSUME NEW r \in Requests, PatchUpdate(r)
       PROVE  /\ contract' \in [Contracts -> ContractRow]
              /\ had' \in [Contracts -> SUBSET Status]
              /\ request' \in [Requests -> RequestRecord]
  <2>1. request[r].contract \in Contracts
    BY <1>0, <1>12 DEF PatchUpdate, KnowledgeSound, RequestTrue
  <2>2. request[r].status \in Status \cup {None}
    BY <1>0 DEF TypeOK, RequestRecord
  <2>3. contract[request[r].contract] \in ContractRow
    BY <1>0, <2>1 DEF TypeOK
  <2>4. QED
    BY <1>0, <1>12, <1>c, <1>d, <2>1, <2>2, <2>3 DEF TypeOK, PatchUpdate, ContractRow
<1>13. ASSUME NEW r \in Requests, PatchSave(r)
       PROVE  TypeOK'
  <2>1. request[r] \in RequestRecord
    BY <1>0 DEF TypeOK
  <2>2. request[r].seen \in Status
    BY <1>0, <1>13 DEF TypeOK, KnowledgeSound, RequestTrue, PatchSave, PatchUpdate
  <2>3. announced' \in [Contracts -> SUBSET (Status \X Status)]
    <3>1. CASE request[r].status \in {None, request[r].seen}
      BY <1>0, <1>13, <3>1 DEF TypeOK, PatchSave
    <3>2. CASE request[r].status \notin {None, request[r].seen}
      <4>1. <<request[r].seen, request[r].status>> \in Status \X Status
        BY <1>13, <2>1, <2>2, <3>2 DEF PatchSave, PatchUpdate, RequestRecord
      <4>2. announced' = [announced EXCEPT ![request[r].contract] =
                            @ \cup {<<request[r].seen, request[r].status>>}]
        BY <1>13, <3>2 DEF PatchSave
      <4>3. QED
        BY <1>0, <4>1, <4>2 DEF TypeOK
    <3>3. QED
      BY <3>1, <3>2
  <2>4. QED
    BY <1>0, <1>12, <1>13, <2>3
    DEF TypeOK, PatchSave, PatchUpdate, external, delivery
<1>14. ASSUME NEW r \in Requests, PatchSaveUnannounced(r)
       PROVE  TypeOK'
  <2>1. PatchUpdate(r) /\ UNCHANGED announced
    BY <1>14 DEF PatchSaveUnannounced
  <2>2. faults' \in Nat
    BY <1>0, <1>14 DEF TypeOK, PatchSaveUnannounced, Fault
  <2>3. QED
    BY <1>0, <1>12, <2>1, <2>2 DEF TypeOK, PatchUpdate, external, delivery
<1>15. ASSUME NEW r \in Requests, NEW c \in Contracts, DeleteRead(r, c)
       PROVE  TypeOK'
  <2>1. [Fresh EXCEPT !.pc = "deleteSave", !.contract = c] \in RequestRecord
    BY Records DEF RequestRecord, RequestPc
  <2>2. QED
    BY <1>0, <1>15, <1>q, <2>1 DEF TypeOK, DeleteRead, rows, external, delivery
<1>16. ASSUME NEW r \in Requests, DeleteSave(r)
       PROVE  TypeOK'
  <2>1. request[r].contract \in Contracts
    BY <1>0, <1>16 DEF DeleteSave, KnowledgeSound, RequestTrue
  <2>2. contract[request[r].contract].status \in Status
    BY <1>0, <2>1 DEF TypeOK, ContractRow
  <2>3. QED
    BY <1>0, <1>16, <1>c, <1>d, <2>1, <2>2
    DEF TypeOK, DeleteSave, external, delivery
<1>17. ASSUME NEW p \in ProviderIds, SignerActs(p)
       PROVE  TypeOK'
  BY <1>0, <1>17, AfterLive
  DEF TypeOK, SignerActs, Message, RawEvents, rows, delivery
<1>18. ASSUME NEW h \in Hooks, NEW m \in Message, NEW e \in Envelopes, HookFind(h, m, e)
       PROVE  TypeOK'
  <2>1. [pc |-> "save", envelope |-> e, contract |-> envelope[e].contract,
         status |-> MapStatus(m.event), msg |-> m] \in HookRecord
    BY <1>0, MapType DEF TypeOK, HookRecord, HookPc, EnvelopeRow, Message
  <2>2. QED
    BY <1>0, <1>18, <2>1 DEF TypeOK, HookFind, Arrives, Posts, rows, external
<1>19. ASSUME NEW m \in Message, HookUnknown(m)
       PROVE  TypeOK'
  BY <1>0, <1>19 DEF TypeOK, HookUnknown, Arrives, Posts, rows, external
<1>19a. ASSUME NEW m \in Message, HookRefused(m)
        PROVE  TypeOK'
  BY <1>0, <1>19a DEF TypeOK, HookRefused, Posts, Fault, rows, external
<1>20. ASSUME NEW h \in Hooks, hook[h].pc # "idle", Acknowledge(h)
       PROVE  acked' \subseteq notified /\ hook' \in [Hooks -> HookRecord]
  BY <1>0, <1>20, Records DEF TypeOK, Acknowledge, KnowledgeSound, HookTrue
<1>21. ASSUME NEW h \in Hooks, HookSave(h)
       PROVE  TypeOK'
  <2>1. envelope' \in [Envelopes -> EnvelopeRow]
    BY <1>0, <1>21 DEF TypeOK, HookSave, EnvelopeRow
  <2>2. [hook[h] EXCEPT !.pc = "execute"] \in HookRecord
    BY <1>0 DEF TypeOK, HookRecord, HookPc
  <2>3. acked' \subseteq notified /\ hook' \in [Hooks -> HookRecord]
    BY <1>0, <1>20, <1>21, <2>2 DEF TypeOK, HookSave
  <2>4. QED
    BY <1>0, <1>21, <2>1, <2>3 DEF TypeOK, HookSave, rows, external
<1>22. ASSUME NEW h \in Hooks, HookRejected(h) \/ HookDies(h)
       PROVE  TypeOK'
  BY <1>0, <1>22, Records
  DEF TypeOK, HookRejected, HookDies, Fault, rows, external
<1>23. ASSUME NEW h \in Hooks, HookExecute(h)
       PROVE  TypeOK'
  <2>1. hook[h].contract \in Contracts
    BY <1>0, <1>23 DEF HookExecute, KnowledgeSound, HookTrue
  <2>2. contract[hook[h].contract].deleted \in BOOLEAN
    BY <1>0, <2>1 DEF TypeOK, ContractRow
  <2>3. contract' \in [Contracts -> ContractRow] /\ had' \in [Contracts -> SUBSET Status]
    BY <1>c, <1>23, <2>1, <2>2 DEF HookExecute, Status
  <2>4. QED
    BY <1>0, <1>20, <1>23, <2>3 DEF TypeOK, HookExecute, external
<1>24. ASSUME NEW h \in Hooks, HookExecuteFails(h)
       PROVE  TypeOK'
  BY <1>0, <1>20, <1>24 DEF TypeOK, HookExecuteFails, Fault, rows, external
<1>25. CASE UNCHANGED vars
  BY <1>0, <1>25 DEF TypeOK, vars, rows, external, delivery
<1>26. QED
  <2>1. ASSUME NEW r \in SignRequests, EnvelopeRequest(r) PROVE TypeOK'
    BY <1>1, <1>4, <1>8, <2>1 DEF EnvelopeRequest, Requests
  <2>2. ASSUME NEW r \in ContractRequests, ContractRequest(r) PROVE TypeOK'
    BY <1>11, <1>15, <2>2 DEF ContractRequest, Requests
  <2>3. ASSUME NEW r \in Requests, Continue(r) PROVE TypeOK'
    BY <1>2, <1>3, <1>5, <1>6, <1>7, <1>9, <1>10, <1>13, <1>14, <1>16, <2>3
    DEF Continue
  <2>4. ASSUME NEW h \in Hooks, HookStep(h) PROVE TypeOK'
    BY <1>21, <1>22, <1>23, <1>24, <2>4 DEF HookStep
  <2>5. QED
    BY <1>17, <1>18, <1>19, <1>19a, <1>25, <2>1, <2>2, <2>3, <2>4 DEF Next
-----------------------------------------------------------------------------
(***************************************************************************)
(* What no step takes back: endings at the provider, the contract an       *)
(* envelope was sent for, posted events, rows and their contracts.         *)
(***************************************************************************)
Monotone ==
  /\ \A c \in Contracts, s \in Closed : ProviderSays(c, s) => ProviderSays(c, s)'
  /\ \A p \in ProviderIds : sentFor[p] # None => sentFor'[p] = sentFor[p]
  /\ \A e \in Envelopes : Exists(e)
        => Exists(e)' /\ envelope'[e].contract = envelope[e].contract
  /\ notified \subseteq notified'
  /\ \A c \in Contracts : had[c] \subseteq had'[c]

ProviderFrame ==
  \A p \in ProviderIds :
     \/ provider'[p] = provider[p] /\ sentFor'[p] = sentFor[p]
     \/ provider[p] \in Live /\ provider'[p] # "none" /\ sentFor'[p] = sentFor[p]
     \/ provider[p] = "none" /\ provider'[p] = "sent" /\ sentFor'[p] \in Contracts

(* At the provider an envelope is created, changes while it is live, or rests. *)
LEMMA ProviderStep == IInv /\ [Next]_vars => ProviderFrame
<1> SUFFICES ASSUME IInv, [Next]_vars PROVE ProviderFrame
  OBVIOUS
<1>0. TypeOK
  BY DEF IInv
<1>1. CASE UNCHANGED <<provider, sentFor>>
  BY <1>1 DEF ProviderFrame
<1>2. ASSUME NEW c \in Contracts, NEW p \in ProviderIds, ProviderCreates(c, p)
      PROVE  ProviderFrame
  BY <1>0, <1>2 DEF TypeOK, ProviderCreates, ProviderFrame
<1>3. ASSUME NEW p \in ProviderIds, provider[p] \in Live, UNCHANGED sentFor,
             NEW s \in RawEvents, provider' = [provider EXCEPT ![p] = s]
      PROVE  ProviderFrame
  BY <1>0, <1>3 DEF TypeOK, ProviderFrame, RawEvents
<1>4. ASSUME NEW r \in Requests, VoidCall(r)
      PROVE  ProviderFrame
  <2>1. request[r].providerId \in ProviderIds
    BY <1>4 DEF VoidCall, At, IInv, KnowledgeSound, RequestTrue
  <2>2. QED
    BY <1>3, <1>4, <2>1 DEF VoidCall, RawEvents
<1>5. ASSUME NEW p \in ProviderIds, SignerActs(p)
      PROVE  ProviderFrame
  <2>1. provider[p] \in Live
    BY <1>5, AfterLive DEF SignerActs
  <2>2. QED
    BY <1>3, <1>5, <2>1, AfterLive DEF SignerActs
<1>6. ASSUME NEW r \in Requests, Continue(r)
      PROVE  ProviderFrame
  <2>1. CASE CreateSend(r) \/ ResendSend(r)
    <3>1. request[r].contract \in Contracts
      BY <2>1 DEF CreateSend, ResendSend, At, IInv, KnowledgeSound, RequestTrue
    <3>2. QED
      BY <1>2, <2>1, <3>1 DEF CreateSend, ResendSend
  <2>2. CASE CreateSave(r) \/ VoidRefused(r) \/ VoidSave(r) \/ ResendSave(r)
              \/ SendRefused(r) \/ RequestFails(r)
    BY <1>1, <2>2
    DEF CreateSave, VoidRefused, VoidSave, ResendSave, SendRefused, RequestFails, external
  <2>3. CASE PatchSave(r) \/ PatchSaveUnannounced(r) \/ DeleteSave(r)
    BY <1>1, <2>3
    DEF PatchSave, PatchSaveUnannounced, PatchUpdate, DeleteSave, external
  <2>4. QED
    BY <1>4, <1>6, <2>1, <2>2, <2>3 DEF Continue
<1>7. ASSUME NEW r \in Requests, EnvelopeRequest(r) \/ ContractRequest(r)
      PROVE  ProviderFrame
  BY <1>1, <1>7
  DEF EnvelopeRequest, ContractRequest, CreateRead, VoidRead, ResendRead,
      PatchRead, DeleteRead, external
<1>8. ASSUME NEW h \in Hooks, HookStep(h)
      PROVE  ProviderFrame
  BY <1>1, <1>8
  DEF HookStep, HookSave, HookRejected, HookExecute, HookExecuteFails, HookDies, external
<1>9. CASE \/ \E m \in Message : HookRefused(m) \/ HookUnknown(m)
           \/ \E h \in Hooks, m \in Message, e \in Envelopes : HookFind(h, m, e)
  BY <1>1, <1>9 DEF HookRefused, HookUnknown, HookFind, external
<1>10. CASE UNCHANGED vars
  BY <1>1, <1>10 DEF vars, external
<1>11. QED
  BY <1>5, <1>6, <1>7, <1>8, <1>9, <1>10 DEF Next, Requests

(* What the steps do to the rows: a new row, or a new status or provider   *)
(* id in a row that exists.                                                *)
RowFrame ==
  \A e \in Envelopes : Exists(e)
     => Exists(e)' /\ envelope'[e].contract = envelope[e].contract

(* No step takes a row away or moves it to another contract. *)
LEMMA RowStep == IInv /\ [Next]_vars => RowFrame
<1> SUFFICES ASSUME IInv, [Next]_vars PROVE RowFrame
  OBVIOUS
<1>0. TypeOK
  BY DEF IInv
<1>1. CASE UNCHANGED envelope
  BY <1>1 DEF RowFrame, Exists
<1>2. ASSUME NEW e, NEW s, envelope' = [envelope EXCEPT ![e].status = s]
      PROVE  RowFrame
  BY <1>0, <1>2 DEF TypeOK, EnvelopeRow, RowFrame, Exists
<1>3. ASSUME NEW r \in Requests, CreateSave(r) \/ ResendSave(r)
      PROVE  RowFrame
  <2>1. CASE CreateSave(r)
    <3>1. PICK e \in Envelopes :
            ~Exists(e) /\ \E row : envelope' = [envelope EXCEPT ![e] = row]
      BY <2>1 DEF CreateSave
    <3>2. QED
      BY <1>0, <3>1 DEF TypeOK, RowFrame, Exists
  <2>2. CASE ResendSave(r)
    <3> DEFINE e   == request[r].envelope
               row == [envelope[e] EXCEPT !.providerId = request[r].providerId,
                                          !.status = MapStatus("sent")]
    <3>1. e \in Envelopes
      BY <2>2 DEF IInv, KnowledgeSound, RequestTrue, ResendSave, At
    <3>2. row.contract = envelope[e].contract
      BY <1>0, <3>1 DEF TypeOK, EnvelopeRow
    <3>3. envelope' = [envelope EXCEPT ![e] = row]
      BY <2>2 DEF ResendSave
    <3>4. QED
      BY <1>0, <3>1, <3>2, <3>3 DEF TypeOK, RowFrame, Exists
  <2>3. QED
    BY <1>3, <2>1, <2>2
<1>4. ASSUME NEW r \in Requests, Continue(r)
      PROVE  RowFrame
  <2>1. CASE VoidSave(r)
    BY <1>2, <2>1 DEF VoidSave
  <2>2. CASE CreateSend(r) \/ ResendSend(r) \/ VoidCall(r) \/ VoidRefused(r)
              \/ SendRefused(r) \/ RequestFails(r)
    BY <1>1, <2>2
    DEF CreateSend, ResendSend, VoidCall, VoidRefused, SendRefused, RequestFails
  <2>3. CASE PatchSave(r) \/ PatchSaveUnannounced(r) \/ DeleteSave(r)
    BY <1>1, <2>3 DEF PatchSave, PatchSaveUnannounced, PatchUpdate, DeleteSave
  <2>4. QED
    BY <1>3, <1>4, <2>1, <2>2, <2>3 DEF Continue
<1>5. ASSUME NEW r \in Requests, EnvelopeRequest(r) \/ ContractRequest(r)
      PROVE  RowFrame
  BY <1>1, <1>5
  DEF EnvelopeRequest, ContractRequest, CreateRead, VoidRead, ResendRead,
      PatchRead, DeleteRead
<1>6. ASSUME NEW h \in Hooks, HookStep(h)
      PROVE  RowFrame
  BY <1>1, <1>2, <1>6
  DEF HookStep, HookSave, HookRejected, HookExecute, HookExecuteFails, HookDies
<1>7. CASE \/ \E m \in Message : HookRefused(m) \/ HookUnknown(m)
           \/ \E h \in Hooks, m \in Message, e \in Envelopes : HookFind(h, m, e)
           \/ \E p \in ProviderIds : SignerActs(p)
  BY <1>1, <1>7 DEF HookRefused, HookUnknown, HookFind, SignerActs
<1>8. CASE UNCHANGED vars
  BY <1>1, <1>8 DEF vars
<1>9. QED
  BY <1>4, <1>5, <1>6, <1>7, <1>8 DEF Next, Requests

(* Posted events and the histories of statuses only grow. *)
Grows == notified \subseteq notified' /\ \A c \in Contracts : had[c] \subseteq had'[c]

LEMMA HistoryStep == IInv /\ [Next]_vars => Grows
<1> SUFFICES ASSUME IInv, [Next]_vars PROVE Grows
  OBVIOUS
<1>0. TypeOK
  BY DEF IInv
<1> USE DEF Grows
<1>1. ASSUME NEW r \in Requests, Continue(r)
      PROVE  Grows
  BY <1>0, <1>1
  DEF TypeOK, UpdateContract, Continue, CreateSend, ResendSend, ProviderCreates, CreateSave, VoidCall,
      VoidRefused, VoidSave, ResendSave, SendRefused, RequestFails, PatchSave,
      PatchSaveUnannounced, PatchUpdate, DeleteSave, external, rows
<1>2. ASSUME NEW r \in Requests, EnvelopeRequest(r) \/ ContractRequest(r)
      PROVE  Grows
  BY <1>2
  DEF EnvelopeRequest, ContractRequest, CreateRead, VoidRead, ResendRead,
      PatchRead, DeleteRead, external, rows
<1>3. ASSUME NEW h \in Hooks, HookStep(h)
      PROVE  Grows
  BY <1>0, <1>3
  DEF TypeOK, UpdateContract, HookStep, HookSave, HookRejected, HookExecute, HookExecuteFails, HookDies,
      external, rows
<1>4. CASE \/ \E m \in Message : HookRefused(m) \/ HookUnknown(m)
           \/ \E h \in Hooks, m \in Message, e \in Envelopes : HookFind(h, m, e)
           \/ \E p \in ProviderIds : SignerActs(p)
  BY <1>4 DEF HookRefused, HookUnknown, HookFind, SignerActs, external, rows
<1>5. CASE UNCHANGED vars
  BY <1>5 DEF vars, external, rows
<1>6. QED
  BY <1>1, <1>2, <1>3, <1>4, <1>5 DEF Next, Requests

(* The frames of the three parts of the state together. *)
LEMMA MonotoneStep == IInv /\ [Next]_vars => Monotone
<1> SUFFICES ASSUME IInv, [Next]_vars PROVE Monotone
  OBVIOUS
<1>1. ProviderFrame /\ RowFrame
  BY ProviderStep, RowStep
<1>2. ASSUME NEW c \in Contracts, NEW s \in Closed, ProviderSays(c, s)
      PROVE  ProviderSays(c, s)'
  <2>1. PICK p \in ProviderIds : sentFor[p] = c /\ MapStatus(provider[p]) = s
    BY <1>2 DEF ProviderSays
  <2>2. provider[p] \notin Live /\ provider[p] # "none"
    BY <2>1, MapValues DEF Closed
  <2>3. QED
    BY <1>1, <2>1, <2>2 DEF ProviderFrame, ProviderSays
<1>3. ASSUME NEW p \in ProviderIds, sentFor[p] # None
      PROVE  sentFor'[p] = sentFor[p]
  BY <1>1, <1>3 DEF ProviderFrame, IInv, KnowledgeSound
<1>4. QED
  BY <1>1, <1>2, <1>3, HistoryStep DEF Grows, Monotone, RowFrame
-----------------------------------------------------------------------------
(* What a handler knows stays true while other handlers take steps. *)

(* A request that does not act still knows the truth after the step. *)
LEMMA RequestKeeps ==
  ASSUME IInv, Monotone, NEW r \in Requests, request'[r] = request[r]
  PROVE  RequestTrue(r)'
<1> DEFINE q == request[r]
<1>0. TypeOK /\ RequestTrue(r)
  BY DEF IInv, KnowledgeSound
<1>1. ASSUME q.envelope \in Envelopes, Exists(q.envelope)
      PROVE  /\ Exists(q.envelope)'
             /\ envelope'[q.envelope].contract = envelope[q.envelope].contract
             /\ envelope[q.envelope].contract \in Contracts
  BY <1>0, <1>1 DEF Monotone, TypeOK, EnvelopeRow, Exists
<1>2. ASSUME q.providerId \in ProviderIds, sentFor[q.providerId] \in Contracts
      PROVE  sentFor'[q.providerId] = sentFor[q.providerId]
  BY <1>2, SigningAssumption DEF Monotone
<1>3. ASSUME q.contract \in Contracts, Earned(q.contract)
      PROVE  Earned(q.contract)'
  BY <1>3 DEF Monotone, Earned, Closed
<1>4. ASSUME NEW c \in Contracts, ProviderSays(c, "VOIDED")
      PROVE  ProviderSays(c, "VOIDED")'
  BY <1>4 DEF Monotone, Closed
<1>5. q.pc = "createSave" => sentFor'[q.providerId] = q.contract
  BY <1>0, <1>2 DEF RequestTrue
<1>6. q.pc \in {"voidCall", "resendSave"}
        => sentFor'[q.providerId] = envelope'[q.envelope].contract
  BY <1>0, <1>1, <1>2 DEF RequestTrue
<1>7. q.pc = "voidSave" => ProviderSays(envelope[q.envelope].contract, "VOIDED")'
  BY <1>0, <1>1, <1>4 DEF RequestTrue
<1>8. q.pc = "patchSave" => q.seen \in had'[q.contract]
  BY <1>0 DEF RequestTrue, Monotone
<1>9. QED
  BY <1>0, <1>1, <1>3, <1>5, <1>6, <1>7, <1>8 DEF RequestTrue, AllowedChange

(* So does a webhook handler that does not act. *)
LEMMA HookKeeps ==
  ASSUME IInv, Monotone, NEW h \in Hooks, hook'[h] = hook[h]
  PROVE  HookTrue(h)'
<1>0. TypeOK /\ HookTrue(h)
  BY DEF IInv, KnowledgeSound
<1>1. QED
  BY <1>0 DEF HookTrue, Monotone, ProviderSays
-----------------------------------------------------------------------------
(* The parts of KnowledgeSound, one lemma each. *)

(* Handlers other than the one that acts keep what they know. *)
LEMMA RequestStep ==
  IInv /\ [Next]_vars => \A r \in Requests : RequestTrue(r)'
<1> SUFFICES ASSUME IInv, [Next]_vars, NEW r \in Requests PROVE RequestTrue(r)'
  OBVIOUS
<1>0. TypeOK /\ TypeOK' /\ Monotone /\ KnowledgeSound
  BY TypeStep, MonotoneStep DEF IInv
<1>1. CASE request'[r] = request[r]
  BY <1>0, <1>1, RequestKeeps
<1>2. ASSUME request'[r].pc = "done"
      PROVE  RequestTrue(r)'
  BY <1>2 DEF RequestTrue
<1>3. ASSUME NEW t \in Requests, NEW q \in RequestRecord, Await(t, q)
      PROVE  request'[r] = request[r] \/ (t = r /\ request'[r] = q)
  BY <1>0, <1>3 DEF TypeOK, Await
<1>4. ASSUME NEW t \in Requests, Done(t)
      PROVE  RequestTrue(r)'
  BY <1>1, <1>2, <1>3, <1>4, Records DEF Done, Served, Fresh
<1>5. ASSUME NEW c \in Contracts, CreateRead(r, c)
      PROVE  RequestTrue(r)'
  BY <1>0, <1>5 DEF CreateRead, TypeOK, Await, RequestTrue, Fresh
<1>6. ASSUME NEW e \in Envelopes, VoidRead(r, e)
      PROVE  RequestTrue(r)'
  <2>1. request'[r] = [Fresh EXCEPT !.pc = "voidCall", !.envelope = e,
                                    !.providerId = envelope[e].providerId]
    BY <1>0, <1>6 DEF VoidRead, TypeOK, Await
  <2>2. Exists(e) /\ UNCHANGED <<envelope, sentFor>>
    BY <1>6 DEF VoidRead, external
  <2>3. /\ envelope[e].providerId \in ProviderIds
        /\ sentFor[envelope[e].providerId] = envelope[e].contract
    BY <1>0, <2>2 DEF KnowledgeSound, RowsTrue
  <2>4. QED
    BY <2>1, <2>2, <2>3 DEF RequestTrue, Fresh, Exists
<1>7. ASSUME NEW e \in Envelopes, ResendRead(r, e)
      PROVE  RequestTrue(r)'
  <2>1. request'[r] = [Fresh EXCEPT !.pc = "resendSend", !.envelope = e,
                                    !.contract = envelope[e].contract]
    BY <1>0, <1>7 DEF ResendRead, TypeOK, Await
  <2>2. Exists(e) /\ UNCHANGED envelope
    BY <1>7 DEF ResendRead
  <2>3. envelope[e].contract \in Contracts
    BY <1>0, <2>2 DEF KnowledgeSound, RowsTrue
  <2>4. QED
    BY <2>1, <2>2, <2>3 DEF RequestTrue, Fresh, Exists
<1>8. ASSUME NEW c \in Contracts, NEW s \in Status \cup {None},
             NEW stamp, PatchRead(r, c, s, stamp)
      PROVE  RequestTrue(r)'
  <2>1. request'[r] = [Fresh EXCEPT !.pc = "patchSave", !.contract = c, !.status = s,
                                    !.seen = contract[c].status]
    BY <1>0, <1>8 DEF PatchRead, TypeOK, Await
  <2>2. UNCHANGED <<provider, sentFor, had>>
    BY <1>8 DEF PatchRead, external, rows
  <2>3. contract[c].status \in Status
    BY <1>0 DEF TypeOK, ContractRow
  <2>4. ASSUME s = "EXECUTED" PROVE Earned(c)
    <3>1. AllowedChange(contract[c].status, "EXECUTED")
      BY <1>8, <2>4, SigningAssumption DEF PatchRead, Status
    <3>2. contract[c].status \in {"EXECUTED", "PENDING_SIGNATURE"}
      BY <2>3, <3>1 DEF AllowedChange, ValidStatusTransitions, Status
    <3>3. QED
      BY <3>2 DEF IInv, KnowledgeSound, ExecutedIsEarned, StatusSeen, Earned
  <2>5. /\ contract[c].status \in had[c]
        /\ s # None => AllowedChange(contract[c].status, s)
    BY <1>0, <1>8 DEF PatchRead, KnowledgeSound, StatusSeen
  <2>6. QED
    BY <2>1, <2>2, <2>4, <2>5 DEF RequestTrue, Fresh, Earned, ProviderSays, AllowedChange
<1>9. ASSUME NEW c \in Contracts, DeleteRead(r, c)
      PROVE  RequestTrue(r)'
  BY <1>0, <1>9 DEF DeleteRead, TypeOK, Await, RequestTrue, Fresh
<1>10. ASSUME CreateSend(r)
       PROVE  RequestTrue(r)'
  <2>1. PICK p \in ProviderIds :
          /\ ProviderCreates(request[r].contract, p)
          /\ Await(r, [request[r] EXCEPT !.pc = "createSave", !.providerId = p])
    BY <1>10 DEF CreateSend
  <2>2. request[r].contract \in Contracts
    BY <1>0, <1>10 DEF CreateSend, At, KnowledgeSound, RequestTrue
  <2>3. request'[r] = [request[r] EXCEPT !.pc = "createSave", !.providerId = p]
    BY <1>0, <2>1 DEF TypeOK, Await
  <2>4. sentFor'[p] = request[r].contract
    BY <1>0, <2>1 DEF TypeOK, ProviderCreates
  <2>5. /\ request'[r].pc = "createSave" /\ request'[r].providerId = p
        /\ request'[r].contract = request[r].contract
    BY <1>0, <2>3 DEF TypeOK, RequestRecord
  <2>6. QED
    BY <2>2, <2>4, <2>5 DEF RequestTrue
<1>11. ASSUME ResendSend(r)
       PROVE  RequestTrue(r)'
  <2>1. PICK p \in ProviderIds :
          /\ ProviderCreates(request[r].contract, p)
          /\ Await(r, [request[r] EXCEPT !.pc = "resendSave", !.providerId = p])
    BY <1>11 DEF ResendSend
  <2>2. /\ request[r].envelope \in Envelopes /\ Exists(request[r].envelope)
        /\ envelope[request[r].envelope].contract = request[r].contract
    BY <1>0, <1>11 DEF ResendSend, At, KnowledgeSound, RequestTrue
  <2>3. request'[r] = [request[r] EXCEPT !.pc = "resendSave", !.providerId = p]
    BY <1>0, <2>1 DEF TypeOK, Await
  <2>4. sentFor'[p] = request[r].contract /\ UNCHANGED envelope
    BY <1>0, <1>11, <2>1 DEF TypeOK, ProviderCreates, ResendSend
  <2>5. /\ request'[r].pc = "resendSave" /\ request'[r].providerId = p
        /\ request'[r].envelope = request[r].envelope
    BY <1>0, <2>3 DEF TypeOK, RequestRecord
  <2>6. QED
    BY <2>2, <2>4, <2>5 DEF RequestTrue, Exists
<1>12. ASSUME VoidCall(r)
       PROVE  RequestTrue(r)'
  <2> DEFINE p == request[r].providerId
             e == request[r].envelope
  <2>1. /\ e \in Envelopes /\ Exists(e) /\ p \in ProviderIds
        /\ sentFor[p] = envelope[e].contract
    BY <1>0, <1>12 DEF VoidCall, At, KnowledgeSound, RequestTrue
  <2>2. provider'[p] = "voided" /\ UNCHANGED <<envelope, sentFor>>
    BY <1>0, <1>12, <2>1 DEF TypeOK, VoidCall
  <2>3. \E x \in ProviderIds :
          sentFor'[x] = envelope[e].contract /\ MapStatus(provider'[x]) = "VOIDED"
    BY <2>1, <2>2, MapValues
  <2>4. request'[r].pc = "voidSave" /\ request'[r].envelope = e
    BY <1>0, <1>12 DEF TypeOK, VoidCall, Await, RequestRecord
  <2>5. QED
    BY <2>1, <2>2, <2>3, <2>4 DEF RequestTrue, Exists, ProviderSays
<1>13. ASSUME NEW t \in Requests, t # r, NEW q, Await(t, q)
       PROVE  RequestTrue(r)'
  BY <1>0, <1>1, <1>13 DEF TypeOK, Await
<1>14. ASSUME NEW t \in Requests, Continue(t)
       PROVE  RequestTrue(r)'
  <2>1. CASE CreateSend(t) \/ ResendSend(t) \/ VoidCall(t)
    BY <1>10, <1>11, <1>12, <1>13, <2>1 DEF CreateSend, ResendSend, VoidCall
  <2>2. CASE CreateSave(t) \/ VoidRefused(t) \/ VoidSave(t) \/ ResendSave(t)
              \/ SendRefused(t) \/ RequestFails(t)
    BY <1>4, <2>2
    DEF CreateSave, VoidRefused, VoidSave, ResendSave, SendRefused, RequestFails
  <2>3. CASE PatchSave(t) \/ PatchSaveUnannounced(t) \/ DeleteSave(t)
    BY <1>4, <2>3 DEF PatchSave, PatchSaveUnannounced, PatchUpdate, DeleteSave
  <2>4. QED
    BY <1>14, <2>1, <2>2, <2>3 DEF Continue
<1>15. ASSUME NEW t \in Requests, EnvelopeRequest(t)
       PROVE  RequestTrue(r)'
  BY <1>5, <1>6, <1>7, <1>13, <1>15
  DEF EnvelopeRequest, CreateRead, VoidRead, ResendRead
<1>16. ASSUME NEW t \in Requests, ContractRequest(t)
       PROVE  RequestTrue(r)'
  BY <1>8, <1>9, <1>13, <1>16 DEF ContractRequest, PatchRead, DeleteRead
<1>17. ASSUME NEW h \in Hooks, HookStep(h)
       PROVE  RequestTrue(r)'
  BY <1>1, <1>17
  DEF HookStep, HookSave, HookRejected, HookExecute, HookExecuteFails, HookDies
<1>18. CASE \/ \E m \in Message : HookRefused(m) \/ HookUnknown(m)
            \/ \E h \in Hooks, m \in Message, e \in Envelopes : HookFind(h, m, e)
            \/ \E p \in ProviderIds : SignerActs(p)
  BY <1>1, <1>18 DEF HookRefused, HookUnknown, HookFind, SignerActs
<1>19. CASE UNCHANGED vars
  BY <1>1, <1>19 DEF vars
<1>20. QED
  BY <1>14, <1>15, <1>16, <1>17, <1>18, <1>19 DEF Next, Requests

(* What webhook handlers know after a step is true. *)
LEMMA WebhookStep ==
  IInv /\ [Next]_vars => \A h \in Hooks : HookTrue(h)'
<1> SUFFICES ASSUME IInv, [Next]_vars, NEW h \in Hooks PROVE HookTrue(h)'
  OBVIOUS
<1>0. TypeOK /\ TypeOK' /\ Monotone /\ KnowledgeSound
  BY TypeStep, MonotoneStep DEF IInv
<1>1. CASE hook'[h] = hook[h]
  BY <1>0, <1>1, HookKeeps
<1>2. CASE hook'[h] = Waiting
  BY <1>2 DEF HookTrue, Waiting
<1>3. ASSUME NEW k \in Hooks, NEW q, hook' = [hook EXCEPT ![k] = q]
      PROVE  hook'[h] = hook[h] \/ (k = h /\ hook'[h] = q)
  BY <1>0, <1>3 DEF TypeOK
<1>4. ASSUME NEW k \in Hooks, Acknowledge(k)
      PROVE  HookTrue(h)'
  BY <1>1, <1>2, <1>3, <1>4 DEF Acknowledge
<1>5. ASSUME NEW m \in Message, NEW e \in Envelopes, HookFind(h, m, e)
      PROVE  HookTrue(h)'
  <2>1. hook'[h] = [pc |-> "save", envelope |-> e, contract |-> envelope[e].contract,
                    status |-> MapStatus(m.event), msg |-> m]
    BY <1>0, <1>5 DEF HookFind, TypeOK
  <2>2. /\ Exists(e) /\ m \in notified /\ envelope[e].providerId = m.id
        /\ UNCHANGED <<envelope, provider, sentFor, notified>>
    BY <1>5 DEF HookFind, Arrives, Posts, external
  <2>3. /\ envelope[e].contract \in Contracts /\ m.id \in ProviderIds
        /\ sentFor[m.id] = envelope[e].contract
    BY <1>0, <2>2 DEF KnowledgeSound, RowsTrue
  <2>4. MapStatus(m.event) \in Closed
          => ProviderSays(envelope[e].contract, MapStatus(m.event))
    BY <1>0, <2>2, <2>3 DEF KnowledgeSound, EventsTrue, ProviderSays
  <2>5. QED
    BY <2>1, <2>2, <2>3, <2>4 DEF HookTrue, Exists, ProviderSays
<1>6. ASSUME HookSave(h)
      PROVE  HookTrue(h)'
  <2>1. CASE hook[h].status = "COMPLETED"
    <3>1. hook' = [hook EXCEPT ![h] = [hook[h] EXCEPT !.pc = "execute"]]
      BY <1>6, <2>1 DEF HookSave
    <3>2. /\ hook[h].pc # "idle" /\ hook'[h].pc = "execute"
          /\ hook'[h].msg = hook[h].msg /\ hook'[h].envelope = hook[h].envelope
          /\ hook'[h].contract = hook[h].contract /\ hook'[h].status = hook[h].status
      BY <1>0, <1>6, <3>1 DEF TypeOK, HookRecord, HookSave
    <3>3. /\ hook[h].msg \in notified /\ hook[h].contract \in Contracts
          /\ hook[h].envelope \in Envelopes /\ Exists(hook[h].envelope)
          /\ envelope[hook[h].envelope].contract = hook[h].contract
          /\ ProviderSays(hook[h].contract, "COMPLETED")
      BY <1>0, <2>1, <3>2 DEF KnowledgeSound, HookTrue, Closed
    <3>4. /\ ProviderSays(hook[h].contract, "COMPLETED")'
          /\ UNCHANGED hook[h].contract
      BY <1>0, <1>6, <3>2, <3>3 DEF HookSave, external, ProviderSays
    <3>5. QED
      BY <1>0, <2>1, <3>2, <3>3, <3>4 DEF HookTrue, Monotone
  <2>2. CASE hook[h].status # "COMPLETED"
    BY <1>4, <1>6, <2>2 DEF HookSave
  <2>3. QED
    BY <2>1, <2>2
<1>7. ASSUME NEW k \in Hooks, k # h, NEW q, hook' = [hook EXCEPT ![k] = q]
      PROVE  HookTrue(h)'
  BY <1>0, <1>1, <1>7 DEF TypeOK
<1>8. ASSUME NEW k \in Hooks, HookStep(k)
      PROVE  HookTrue(h)'
  <2>1. CASE HookSave(k)
    <3>1. CASE k = h
      BY <1>6, <2>1, <3>1
    <3>2. CASE k # h
      BY <1>4, <1>7, <2>1, <3>2 DEF HookSave
    <3>3. QED
      BY <3>1, <3>2
  <2>2. CASE HookRejected(k) \/ HookDies(k)
    BY <1>1, <1>2, <1>3, <2>2 DEF HookRejected, HookDies
  <2>3. CASE HookExecute(k) \/ HookExecuteFails(k)
    BY <1>4, <2>3 DEF HookExecute, HookExecuteFails
  <2>4. QED
    BY <1>8, <2>1, <2>2, <2>3 DEF HookStep
<1>9. ASSUME NEW r \in Requests, Continue(r)
      PROVE  HookTrue(h)'
  BY <1>1, <1>9
  DEF Continue, CreateSend, ResendSend, CreateSave, VoidCall, VoidRefused, VoidSave,
      ResendSave, SendRefused, RequestFails, PatchSave, PatchSaveUnannounced,
      PatchUpdate, DeleteSave, delivery
<1>10. ASSUME NEW r \in Requests, EnvelopeRequest(r) \/ ContractRequest(r)
       PROVE  HookTrue(h)'
  BY <1>1, <1>10
  DEF EnvelopeRequest, ContractRequest, CreateRead, VoidRead, ResendRead,
      PatchRead, DeleteRead, delivery
<1>11. ASSUME NEW k \in Hooks, NEW m \in Message, NEW e \in Envelopes, HookFind(k, m, e)
       PROVE  HookTrue(h)'
  BY <1>5, <1>7, <1>11 DEF HookFind
<1>12. CASE \/ \E m \in Message : HookRefused(m) \/ HookUnknown(m)
            \/ \E p \in ProviderIds : SignerActs(p)
  BY <1>1, <1>12 DEF HookRefused, HookUnknown, SignerActs, delivery
<1>13. CASE UNCHANGED vars
  BY <1>1, <1>13 DEF vars, delivery
<1>14. QED
  BY <1>8, <1>9, <1>10, <1>11, <1>12, <1>13 DEF Next, Requests

(* An envelope exists at the provider exactly if it was sent for a contract. *)
LEMMA SentStep ==
  IInv /\ [Next]_vars
    => \A p \in ProviderIds : (sentFor[p] = None <=> provider[p] = "none")'
<1> SUFFICES ASSUME IInv, [Next]_vars, NEW p \in ProviderIds
             PROVE  sentFor'[p] = None <=> provider'[p] = "none"
  OBVIOUS
<1>1. sentFor[p] = None <=> provider[p] = "none"
  BY DEF IInv, KnowledgeSound
<1>2. ProviderFrame /\ None \notin Contracts
  BY ProviderStep, SigningAssumption
<1>3. QED
  BY <1>1, <1>2 DEF ProviderFrame, Live

(* A step posts nothing, or the new state of the envelope, or a name that  *)
(* translates to no status.                                                *)
LEMMA PostedStep ==
  IInv /\ [Next]_vars
    => \A m \in notified' : \/ m \in notified
                             \/ m.event = provider'[m.id]
                             \/ m.event = "canceled"
<1> DEFINE Posted == \A m \in notified' : \/ m \in notified
                                         \/ m.event = provider'[m.id]
                                         \/ m.event = "canceled"
<1> SUFFICES ASSUME IInv, [Next]_vars PROVE Posted
  OBVIOUS
<1>0. TypeOK
  BY DEF IInv
<1>1. CASE UNCHANGED notified
  BY <1>1
<1>2. ASSUME NEW p \in ProviderIds, NEW s, provider' = [provider EXCEPT ![p] = s],
             notified' = notified \cup {[id |-> p, event |-> s]}
      PROVE  Posted
  BY <1>0, <1>2 DEF TypeOK
<1>3. ASSUME NEW r \in Requests, VoidCall(r)
      PROVE  Posted
  <2> DEFINE p == request[r].providerId
  <2>1. p \in ProviderIds
    BY <1>3 DEF VoidCall, At, IInv, KnowledgeSound, RequestTrue
  <2>2. PICK ev \in {"voided", "canceled"} :
          notified' = notified \cup {[id |-> p, event |-> ev]}
    BY <1>3, SigningAssumption DEF VoidCall
  <2>3. provider'[p] = "voided"
    BY <1>0, <1>3, <2>1 DEF TypeOK, VoidCall
  <2>4. QED
    BY <2>2, <2>3
<1>4. ASSUME NEW r \in Requests, Continue(r)
      PROVE  Posted
  <2>1. CASE CreateSend(r) \/ ResendSend(r)
    BY <1>2, <2>1 DEF CreateSend, ResendSend, ProviderCreates
  <2>2. CASE CreateSave(r) \/ VoidRefused(r) \/ VoidSave(r) \/ ResendSave(r)
              \/ SendRefused(r) \/ RequestFails(r)
    BY <1>1, <2>2
    DEF CreateSave, VoidRefused, VoidSave, ResendSave, SendRefused, RequestFails, external
  <2>3. CASE PatchSave(r) \/ PatchSaveUnannounced(r) \/ DeleteSave(r)
    BY <1>1, <2>3
    DEF PatchSave, PatchSaveUnannounced, PatchUpdate, DeleteSave, external
  <2>4. QED
    BY <1>3, <1>4, <2>1, <2>2, <2>3 DEF Continue
<1>5. ASSUME NEW r \in Requests, EnvelopeRequest(r) \/ ContractRequest(r)
      PROVE  Posted
  BY <1>1, <1>5
  DEF EnvelopeRequest, ContractRequest, CreateRead, VoidRead, ResendRead,
      PatchRead, DeleteRead, external
<1>6. ASSUME NEW h \in Hooks, HookStep(h)
      PROVE  Posted
  BY <1>1, <1>6
  DEF HookStep, HookSave, HookRejected, HookExecute, HookExecuteFails, HookDies, external
<1>7. CASE \E p \in ProviderIds : SignerActs(p)
  BY <1>2, <1>7 DEF SignerActs
<1>8. CASE \/ \E m \in Message : HookRefused(m) \/ HookUnknown(m)
           \/ \E h \in Hooks, m \in Message, e \in Envelopes : HookFind(h, m, e)
  BY <1>1, <1>8 DEF HookRefused, HookUnknown, HookFind, external
<1>9. CASE UNCHANGED vars
  BY <1>1, <1>9 DEF vars, external
<1>10. QED
  BY <1>4, <1>5, <1>6, <1>7, <1>8, <1>9 DEF Next, Requests

(* An event that announces an ending is never overtaken by another ending. *)
LEMMA EventsStep == IInv /\ [Next]_vars => EventsTrue'
<1> SUFFICES ASSUME IInv, [Next]_vars, NEW m \in notified', MapStatus(m.event) \in Closed
             PROVE  MapStatus(provider'[m.id]) = MapStatus(m.event)
  BY DEF EventsTrue
<1>1. m \in Message
  BY TypeStep DEF TypeOK
<1>2. CASE m \in notified
  <2>1. MapStatus(provider[m.id]) = MapStatus(m.event)
    BY <1>2 DEF IInv, KnowledgeSound, EventsTrue
  <2>2. provider[m.id] \notin Live /\ provider[m.id] # "none"
    BY <2>1, MapValues DEF Closed
  <2>3. provider'[m.id] = provider[m.id]
    BY <1>1, <2>2, ProviderStep DEF ProviderFrame, Message
  <2>4. QED
    BY <2>1, <2>3
<1>3. CASE m.event = "canceled"
  BY <1>3 DEF MapStatus, StatusMap, Closed
<1>4. QED
  BY <1>2, <1>3, PostedStep
-----------------------------------------------------------------------------
(* What the steps do to one row e. *)

RowAfter(e) ==
  \/ UNCHANGED envelope[e]
  \/ \E r \in Requests :
       /\ request[r].pc \in {"createSave", "resendSave"}
       /\ request[r].pc = "resendSave" => e = request[r].envelope
       /\ envelope'[e].status = "SENT"
       /\ envelope'[e].providerId = request[r].providerId
       /\ envelope'[e].contract = IF request[r].pc = "createSave"
                                  THEN request[r].contract ELSE envelope[e].contract
  \/ /\ envelope'[e].providerId = envelope[e].providerId
     /\ envelope'[e].contract = envelope[e].contract
     /\ \/ \E r \in Requests : /\ request[r].pc = "voidSave" /\ request[r].envelope = e
                               /\ envelope'[e].status = "VOIDED"
        \/ \E h \in Hooks : /\ hook[h].pc = "save" /\ hook[h].envelope = e
                            /\ envelope'[e].status = hook[h].status

(* Every step is one of these for the row e. *)
LEMMA RowAfterStep == IInv /\ [Next]_vars => \A e \in Envelopes : RowAfter(e)
<1> SUFFICES ASSUME IInv, [Next]_vars, NEW e \in Envelopes PROVE RowAfter(e)
  OBVIOUS
<1>0. TypeOK /\ KnowledgeSound
  BY DEF IInv
<1>1. CASE UNCHANGED envelope
  BY <1>1 DEF RowAfter
<1>2. ASSUME NEW r \in Requests, CreateSave(r)
      PROVE  RowAfter(e)
  BY <1>0, <1>2, MapValues DEF TypeOK, CreateSave, At, RowAfter
<1>3. ASSUME NEW r \in Requests, ResendSave(r)
      PROVE  RowAfter(e)
  <2> DEFINE f == request[r].envelope
  <2>1. envelope' = [envelope EXCEPT ![f] =
                       [envelope[f] EXCEPT !.providerId = request[r].providerId,
                                           !.status = MapStatus("sent")]]
    BY <1>3 DEF ResendSave
  <2>2. CASE e = f
    <3>1. envelope'[e] = [envelope[e] EXCEPT !.providerId = request[r].providerId,
                                             !.status = "SENT"]
      BY <1>0, <2>1, <2>2, MapValues DEF TypeOK
    <3>2. /\ envelope'[e].providerId = request[r].providerId
          /\ envelope'[e].status = "SENT"
          /\ envelope'[e].contract = envelope[e].contract
      BY <1>0, <3>1 DEF TypeOK, EnvelopeRow
    <3>3. request[r].pc = "resendSave"
      BY <1>3 DEF ResendSave, At
    <3>4. QED
      BY <2>2, <3>2, <3>3 DEF RowAfter
  <2>3. CASE e # f
    BY <1>0, <2>1, <2>3 DEF TypeOK, RowAfter
  <2>4. QED
    BY <2>2, <2>3
<1>4. ASSUME NEW f, NEW s, envelope' = [envelope EXCEPT ![f].status = s]
      PROVE  \/ UNCHANGED envelope[e]
             \/ /\ f = e /\ envelope'[e].status = s
                /\ envelope'[e].providerId = envelope[e].providerId
                /\ envelope'[e].contract = envelope[e].contract
  BY <1>0, <1>4 DEF TypeOK, EnvelopeRow
<1>5. ASSUME NEW r \in Requests, VoidSave(r)
      PROVE  RowAfter(e)
  BY <1>4, <1>5 DEF VoidSave, At, RowAfter
<1>6. ASSUME NEW h \in Hooks, HookSave(h)
      PROVE  RowAfter(e)
  BY <1>4, <1>6 DEF HookSave, RowAfter
<1>7. ASSUME NEW r \in Requests, Continue(r)
      PROVE  RowAfter(e)
  <2>1. CASE CreateSend(r) \/ ResendSend(r) \/ VoidCall(r) \/ VoidRefused(r)
              \/ SendRefused(r) \/ RequestFails(r)
    BY <1>1, <2>1
    DEF CreateSend, ResendSend, VoidCall, VoidRefused, SendRefused, RequestFails
  <2>2. CASE PatchSave(r) \/ PatchSaveUnannounced(r) \/ DeleteSave(r)
    BY <1>1, <2>2 DEF PatchSave, PatchSaveUnannounced, PatchUpdate, DeleteSave
  <2>3. QED
    BY <1>2, <1>3, <1>5, <1>7, <2>1, <2>2 DEF Continue
<1>8. ASSUME NEW r \in Requests, EnvelopeRequest(r) \/ ContractRequest(r)
      PROVE  RowAfter(e)
  BY <1>1, <1>8
  DEF EnvelopeRequest, ContractRequest, CreateRead, VoidRead, ResendRead,
      PatchRead, DeleteRead
<1>9. ASSUME NEW h \in Hooks, HookStep(h)
      PROVE  RowAfter(e)
  BY <1>1, <1>6, <1>9
  DEF HookStep, HookRejected, HookExecute, HookExecuteFails, HookDies
<1>10. CASE \/ \E m \in Message : HookRefused(m) \/ HookUnknown(m)
            \/ \E h \in Hooks, m \in Message, f \in Envelopes : HookFind(h, m, f)
            \/ \E p \in ProviderIds : SignerActs(p)
  BY <1>1, <1>10 DEF HookRefused, HookUnknown, HookFind, SignerActs
<1>11. CASE UNCHANGED vars
  BY <1>1, <1>11 DEF vars
<1>12. QED
  BY <1>7, <1>8, <1>9, <1>10, <1>11 DEF Next, Requests
-----------------------------------------------------------------------------
(* A row points at a provider envelope of its own contract after the step. *)
LEMMA RowsStep == IInv /\ [Next]_vars => RowsTrue'
<1> SUFFICES ASSUME IInv, [Next]_vars, NEW e \in Envelopes, Exists(e)'
             PROVE  /\ envelope'[e].contract \in Contracts
                    /\ envelope'[e].providerId \in ProviderIds
                    /\ sentFor'[envelope'[e].providerId] = envelope'[e].contract
  BY DEF RowsTrue
<1>0. KnowledgeSound /\ Monotone /\ None \notin Contracts
  BY MonotoneStep, SigningAssumption DEF IInv
<1>1. CASE /\ envelope'[e].contract = envelope[e].contract
           /\ envelope'[e].providerId = envelope[e].providerId
  BY <1>0, <1>1 DEF KnowledgeSound, RowsTrue, Exists, Monotone
<1>2. ASSUME NEW r \in Requests, request[r].pc \in {"createSave", "resendSave"},
             request[r].pc = "resendSave" => e = request[r].envelope,
             envelope'[e].providerId = request[r].providerId,
             envelope'[e].contract = IF request[r].pc = "createSave"
                                     THEN request[r].contract ELSE envelope[e].contract
      PROVE  /\ envelope'[e].contract \in Contracts
             /\ envelope'[e].providerId \in ProviderIds
             /\ sentFor'[envelope'[e].providerId] = envelope'[e].contract
  <2> DEFINE p == request[r].providerId
  <2>1. /\ envelope'[e].contract \in Contracts /\ p \in ProviderIds
        /\ sentFor[p] = envelope'[e].contract
    BY <1>0, <1>2 DEF KnowledgeSound, RowsTrue, RequestTrue
  <2>2. QED
    BY <1>0, <1>2, <2>1 DEF Monotone
<1>3. QED
  BY <1>1, <1>2, RowAfterStep DEF RowAfter

(* No step puts an ending in a row that the provider did not reach. *)
LEMMA TerminalStep == IInv /\ [Next]_vars => TerminalRowHasCause'
<1> SUFFICES ASSUME IInv, [Next]_vars, NEW e \in Envelopes, Exists(e)',
                    envelope'[e].status \in Closed
             PROVE  ProviderSays(envelope[e].contract, envelope[e].status)'
  BY DEF TerminalRowHasCause
<1> DEFINE c == envelope[e].contract
           s == envelope'[e].status
<1>0. KnowledgeSound /\ TerminalRowHasCause /\ Monotone
  BY MonotoneStep DEF IInv
<1>1. ASSUME c \in Contracts, envelope'[e].contract = c, ProviderSays(c, s)
      PROVE  ProviderSays(envelope[e].contract, envelope[e].status)'
  <2>1. \E p \in ProviderIds : sentFor'[p] = c /\ MapStatus(provider'[p]) = s
    BY <1>0, <1>1 DEF Monotone, ProviderSays
  <2>2. QED
    BY <1>1, <2>1 DEF ProviderSays
<1>2. CASE UNCHANGED envelope[e]
  BY <1>0, <1>1, <1>2 DEF TerminalRowHasCause, Exists, KnowledgeSound, RowsTrue
<1>3. CASE s = "SENT"
  BY <1>3 DEF Closed
<1>4. ASSUME envelope'[e].contract = c, NEW r \in Requests,
             request[r].pc = "voidSave", request[r].envelope = e, s = "VOIDED"
      PROVE  ProviderSays(envelope[e].contract, envelope[e].status)'
  BY <1>0, <1>1, <1>4 DEF KnowledgeSound, RequestTrue, RowsTrue
<1>5. ASSUME envelope'[e].contract = c, NEW h \in Hooks,
             hook[h].pc = "save", hook[h].envelope = e, s = hook[h].status
      PROVE  ProviderSays(envelope[e].contract, envelope[e].status)'
  BY <1>0, <1>1, <1>5 DEF KnowledgeSound, HookTrue
<1>6. QED
  BY <1>2, <1>3, <1>4, <1>5, RowAfterStep DEF RowAfter
-----------------------------------------------------------------------------
(* What the steps do to the status of one contract c. *)

StatusAfter(c) ==
  \/ UNCHANGED contract[c].status
  \/ /\ contract'[c].status \in had'[c]
     /\ \E r \in Requests :
          /\ request[r].pc = "patchSave" /\ request[r].contract = c
          /\ contract'[c].status = request[r].status
  \/ /\ contract'[c].status \in had'[c]
     /\ \E h \in Hooks :
          /\ hook[h].pc = "execute" /\ hook[h].contract = c
          /\ contract'[c].status = "EXECUTED"

(* Every step is one of these for the contract c. *)
LEMMA StatusAfterStep == IInv /\ [Next]_vars => \A c \in Contracts : StatusAfter(c)
<1> SUFFICES ASSUME IInv, [Next]_vars, NEW c \in Contracts PROVE StatusAfter(c)
  OBVIOUS
<1>0. TypeOK
  BY DEF IInv
<1>1. CASE UNCHANGED contract
  BY <1>1 DEF StatusAfter
<1>2. ASSUME NEW d, NEW s, NEW x, UpdateContract(d, s, x)
      PROVE  \/ UNCHANGED contract[c].status
             \/ d = c /\ contract'[c].status = s /\ s \in had'[c]
  BY <1>0, <1>2 DEF TypeOK, UpdateContract
<1>3. ASSUME NEW r \in Requests, PatchUpdate(r)
      PROVE  StatusAfter(c)
  BY <1>2, <1>3 DEF PatchUpdate, At, StatusAfter
<1>4. ASSUME NEW r \in Requests, DeleteSave(r)
      PROVE  StatusAfter(c)
  <2>1. PICK d : d = request[r].contract /\ UpdateContract(d, contract[d].status, TRUE)
    BY <1>4 DEF DeleteSave
  <2>2. UNCHANGED contract[c].status
    BY <1>0, <2>1 DEF TypeOK, UpdateContract
  <2>3. QED
    BY <2>2 DEF StatusAfter
<1>5. ASSUME NEW h \in Hooks, HookExecute(h)
      PROVE  StatusAfter(c)
  BY <1>2, <1>5 DEF HookExecute, StatusAfter
<1>6. ASSUME NEW r \in Requests, Continue(r)
      PROVE  StatusAfter(c)
  <2>1. CASE CreateSend(r) \/ CreateSave(r) \/ VoidCall(r) \/ VoidRefused(r)
              \/ VoidSave(r) \/ ResendSend(r) \/ ResendSave(r) \/ SendRefused(r)
              \/ RequestFails(r)
    BY <1>1, <2>1
    DEF CreateSend, CreateSave, VoidCall, VoidRefused, VoidSave, ResendSend,
        ResendSave, SendRefused, RequestFails, rows
  <2>2. QED
    BY <1>3, <1>4, <1>6, <2>1 DEF Continue, PatchSave, PatchSaveUnannounced
<1>7. ASSUME NEW r \in Requests, EnvelopeRequest(r) \/ ContractRequest(r)
      PROVE  StatusAfter(c)
  BY <1>1, <1>7
  DEF EnvelopeRequest, ContractRequest, CreateRead, VoidRead, ResendRead,
      PatchRead, DeleteRead, rows
<1>8. ASSUME NEW h \in Hooks, HookStep(h)
      PROVE  StatusAfter(c)
  BY <1>1, <1>5, <1>8
  DEF HookStep, HookSave, HookRejected, HookExecuteFails, HookDies, rows
<1>9. CASE \/ \E m \in Message : HookRefused(m) \/ HookUnknown(m)
           \/ \E h \in Hooks, m \in Message, f \in Envelopes : HookFind(h, m, f)
           \/ \E p \in ProviderIds : SignerActs(p)
  BY <1>1, <1>9 DEF HookRefused, HookUnknown, HookFind, SignerActs, rows
<1>10. CASE UNCHANGED vars
  BY <1>1, <1>10 DEF vars, rows
<1>11. QED
  BY <1>6, <1>7, <1>8, <1>9, <1>10 DEF Next, Requests

(* The history has the new status of a contract. *)
LEMMA SeenStep == IInv /\ [Next]_vars => StatusSeen'
<1> SUFFICES ASSUME IInv, [Next]_vars, NEW c \in Contracts
             PROVE  contract'[c].status \in had'[c]
  BY DEF StatusSeen
<1>1. StatusSeen /\ StatusAfter(c) /\ had[c] \subseteq had'[c]
  BY MonotoneStep, StatusAfterStep DEF IInv, KnowledgeSound, Monotone
<1>2. QED
  BY <1>1 DEF StatusSeen, StatusAfter

(* No step executes a contract that has not earned it. *)
LEMMA ExecutedStep == IInv /\ [Next]_vars => ExecutedIsEarned'
<1> SUFFICES ASSUME IInv, [Next]_vars, NEW c \in Contracts,
                    contract'[c].status = "EXECUTED"
             PROVE  Earned(c)'
  BY DEF ExecutedIsEarned
<1>1. Earned(c) => Earned(c)'
  BY MonotoneStep DEF Earned, Monotone, Closed
<1>2. CASE contract[c].status = "EXECUTED"
  BY <1>1, <1>2 DEF IInv, ExecutedIsEarned
<1>3. ASSUME NEW r \in Requests, request[r].pc = "patchSave",
             request[r].contract = c, request[r].status = "EXECUTED"
      PROVE  Earned(c)
  BY <1>3 DEF IInv, KnowledgeSound, RequestTrue
<1>4. ASSUME NEW h \in Hooks, hook[h].pc = "execute", hook[h].contract = c
      PROVE  Earned(c)
  BY <1>4 DEF IInv, KnowledgeSound, HookTrue, Earned, Closed
<1>5. QED
  BY <1>1, <1>2, <1>3, <1>4, StatusAfterStep DEF StatusAfter

(* No step announces a change the contract has not been at both ends of. *)
LEMMA AnnouncedStep == IInv /\ [Next]_vars => AnnouncedHappened'
<1> SUFFICES ASSUME IInv, [Next]_vars, NEW c \in Contracts, NEW move \in announced'[c]
             PROVE  /\ {move[1], move[2]} \subseteq had'[c]
                    /\ move[2] \in ValidStatusTransitions[move[1]]
  BY DEF AnnouncedHappened
<1>0. TypeOK /\ KnowledgeSound /\ AnnouncedHappened /\ had[c] \subseteq had'[c]
  BY MonotoneStep DEF IInv, Monotone
<1>1. CASE move \in announced[c]
  BY <1>0, <1>1 DEF AnnouncedHappened
<1>2. ASSUME NEW r \in Requests, PatchSave(r), move \notin announced[c]
      PROVE  /\ {move[1], move[2]} \subseteq had'[c]
             /\ move[2] \in ValidStatusTransitions[move[1]]
  <2> DEFINE q == request[r]
  <2>1. /\ q.contract \in Contracts /\ q.seen \in had[q.contract]
        /\ q.status # None => AllowedChange(q.seen, q.status)
    BY <1>0, <1>2 DEF PatchSave, PatchUpdate, At, KnowledgeSound, RequestTrue
  <2>2. q.status \notin {None, q.seen} /\ q.contract = c /\ move = <<q.seen, q.status>>
    BY <1>0, <1>2, <2>1 DEF PatchSave, TypeOK
  <2>3. q.status \in had'[c]
    BY <1>0, <1>2, <2>1, <2>2 DEF PatchSave, PatchUpdate, UpdateContract, TypeOK
  <2>4. QED
    BY <1>0, <2>1, <2>2, <2>3 DEF AllowedChange
<1>3. announced' = announced \/ \E r \in Requests : PatchSave(r)
  <2>1. ASSUME NEW r \in Requests, Continue(r) PROVE announced' = announced \/ PatchSave(r)
    BY <2>1 DEF Continue, CreateSend, CreateSave, VoidCall, VoidRefused, VoidSave, ResendSend,
                ResendSave, SendRefused, PatchSaveUnannounced, DeleteSave, RequestFails, rows
  <2>2. ASSUME NEW r \in Requests, EnvelopeRequest(r) \/ ContractRequest(r)
        PROVE  announced' = announced
    BY <2>2 DEF EnvelopeRequest, ContractRequest, CreateRead, VoidRead, ResendRead,
                PatchRead, DeleteRead, rows
  <2>3. ASSUME NEW h \in Hooks, HookStep(h) PROVE announced' = announced
    BY <2>3 DEF HookStep, HookSave, HookRejected, HookExecute, HookExecuteFails, HookDies, rows
  <2>4. CASE \/ \E m \in Message : HookRefused(m) \/ HookUnknown(m)
             \/ \E h \in Hooks, m \in Message, f \in Envelopes : HookFind(h, m, f)
             \/ \E p \in ProviderIds : SignerActs(p)
    BY <2>4 DEF HookRefused, HookUnknown, HookFind, SignerActs, rows
  <2>5. CASE UNCHANGED vars
    BY <2>5 DEF vars, rows
  <2>6. QED
    BY <2>1, <2>2, <2>3, <2>4, <2>5 DEF Next, Requests
<1>4. QED
  BY <1>1, <1>2, <1>3
-----------------------------------------------------------------------------
(* Orphans: a step makes none, or a failure makes one.                     *)

(* Who holds an id from the provider. *)
Holds(r) == request[r].pc \in {"createSave", "resendSave"}

(* Nothing new at the provider, and no name, no hand and no history is lost. *)
LEMMA NoneOrphaned ==
  ASSUME \A p \in ProviderIds : provider'[p] # "none" => provider[p] # "none",
         \A e \in Envelopes : Exists(e)
           => Exists(e)' /\ envelope'[e].providerId = envelope[e].providerId,
         InHand \subseteq InHand', replaced \subseteq replaced'
  PROVE  Orphans' \subseteq Orphans
  BY DEF Orphans, Unnamed, Named

(* A request that holds no id drops none. *)
LEMMA HandsKept ==
  ASSUME TypeOK, NEW t \in Requests, NEW q, Await(t, q), ~Holds(t)
  PROVE  InHand \subseteq InHand'
<1>1. \A r \in Requests \ {t} : request'[r] = request[r]
  BY DEF TypeOK, Await
<1>2. QED
  BY <1>1 DEF InHand, Holds

(* One that holds an id drops that one only. *)
LEMMA OneHandOpened ==
  ASSUME TypeOK, NEW t \in Requests, NEW q, Await(t, q)
  PROVE  InHand \subseteq InHand' \cup {request[t].providerId}
<1>1. \A r \in Requests \ {t} : request'[r] = request[r]
  BY DEF TypeOK, Await
<1>2. QED
  BY <1>1 DEF InHand

(* The steps that leave envelope rows and provider alone. *)
LEMMA QuietOrphans ==
  ASSUME UNCHANGED <<provider, replaced, envelope>>, InHand \subseteq InHand'
  PROVE  Orphans' \subseteq Orphans
  BY NoneOrphaned DEF Exists

Charged == /\ faults' \in {faults, faults + 1}
           /\ \/ Orphans' \subseteq Orphans
              \/ faults' = faults + 1 /\ \E p \in ProviderIds : Orphans' \subseteq Orphans \cup {p}

(* The provider makes an envelope whose id the request takes in its hands. *)
LEMMA SendCharged ==
  ASSUME IInv, NEW r \in Requests, CreateSend(r) \/ ResendSend(r)
  PROVE  Charged
<1>0. TypeOK
  BY DEF IInv
<1>1. PICK p \in ProviderIds, pc \in {"createSave", "resendSave"} :
        /\ ProviderCreates(request[r].contract, p)
        /\ Await(r, [request[r] EXCEPT !.pc = pc, !.providerId = p])
  BY DEF CreateSend, ResendSend
<1>2. InHand \subseteq InHand'
  BY <1>0, <1>1, HandsKept DEF CreateSend, ResendSend, At, Holds
<1>3. p \in InHand'
  <2>1. request'[r].pc = pc /\ request'[r].providerId = p
    BY <1>0, <1>1 DEF TypeOK, Await, RequestRecord
  <2>2. QED
    BY <2>1 DEF InHand
<1>4. \A x \in ProviderIds \ {p} : provider'[x] = provider[x]
  BY <1>0, <1>1 DEF TypeOK, ProviderCreates
<1>5. UNCHANGED <<envelope, replaced, faults>>
  BY <1>1 DEF CreateSend, ResendSend, ProviderCreates
<1>6. Orphans' \subseteq Orphans
  BY <1>2, <1>3, <1>4, <1>5 DEF Orphans, Unnamed, Named, Exists
<1>7. QED
  BY <1>5, <1>6 DEF Charged

(* The new row, or the row resent, names the id; the id it named before is in *)
(* the history.                                                               *)
LEMMA SaveCharged ==
  ASSUME IInv, NEW r \in Requests, CreateSave(r) \/ ResendSave(r)
  PROVE  Charged
<1>0. TypeOK /\ KnowledgeSound
  BY DEF IInv
<1>x. PICK x : x = request[r].providerId
  OBVIOUS
<1>1. InHand \subseteq InHand' \cup {x} /\ UNCHANGED <<provider, faults>>
  BY <1>0, <1>x, OneHandOpened DEF CreateSave, ResendSave, Done, external
<1>2. PICK e \in Envelopes :
        /\ Exists(e)' /\ envelope'[e].providerId = x
        /\ \A d \in Envelopes \ {e} : envelope'[d] = envelope[d]
        /\ replaced \subseteq replaced'
        /\ Exists(e) => envelope[e].providerId \in replaced'
  <2>1. CASE CreateSave(r)
    <3>1. request[r].contract \in Contracts
      BY <1>0, <2>1 DEF CreateSave, At, KnowledgeSound, RequestTrue
    <3>2. PICK e \in Envelopes :
            /\ ~Exists(e)
            /\ envelope' = [envelope EXCEPT ![e] = [contract   |-> request[r].contract,
                                                    providerId |-> request[r].providerId,
                                                    status     |-> MapStatus("sent")]]
      BY <2>1 DEF CreateSave
    <3>3. QED
      BY <1>0, <1>x, <2>1, <3>1, <3>2, SigningAssumption DEF TypeOK, CreateSave, external, Exists
  <2>2. CASE ResendSave(r)
    <3>1. PICK e \in Envelopes : e = request[r].envelope /\ Exists(e)
      BY <1>0, <2>2 DEF ResendSave, At, KnowledgeSound, RequestTrue
    <3>2. envelope' = [envelope EXCEPT ![e] = [envelope[e] EXCEPT
                         !.providerId = request[r].providerId, !.status = MapStatus("sent")]]
      BY <2>2, <3>1 DEF ResendSave
    <3>3. envelope'[e].providerId = x /\ envelope'[e].contract = envelope[e].contract
      BY <1>0, <1>x, <3>2 DEF TypeOK, EnvelopeRow
    <3>4. \A d \in Envelopes \ {e} : envelope'[d] = envelope[d]
      BY <1>0, <3>2 DEF TypeOK
    <3>5. QED
      BY <2>2, <3>1, <3>3, <3>4 DEF ResendSave, Exists
  <2>3. QED
    BY <2>1, <2>2
<1>3. ASSUME NEW p \in ProviderIds, Named(p)
      PROVE  Named(p)' \/ p \in replaced'
  <2>1. PICK d \in Envelopes : Exists(d) /\ envelope[d].providerId = p
    BY <1>3 DEF Named
  <2>2. CASE d = e
    BY <1>2, <2>1, <2>2
  <2>3. CASE d # e
    <3>1. Exists(d)' /\ envelope'[d].providerId = p
      BY <1>2, <2>1, <2>3 DEF Exists
    <3>2. QED
      BY <3>1 DEF Named
  <2>4. QED
    BY <2>2, <2>3
<1>4. Named(x)'
  BY <1>2 DEF Named
<1>5. ASSUME NEW p \in Orphans'
      PROVE  p \in Orphans
  <2>1. /\ p \in ProviderIds /\ provider[p] # "none" /\ ~Named(p)'
        /\ p \notin InHand' /\ p \notin replaced'
    BY <1>1, <1>5 DEF Orphans, Unnamed
  <2>2. p # x
    BY <1>4, <2>1
  <2>3. p \notin InHand /\ p \notin replaced /\ ~Named(p)
    BY <1>1, <1>2, <1>3, <2>1, <2>2
  <2>4. QED
    BY <2>1, <2>3 DEF Orphans, Unnamed
<1>6. QED
  BY <1>1, <1>5 DEF Charged

(* A handler that fails may lose the id in its hands, and is a failure. *)
LEMMA FailCharged ==
  ASSUME IInv, NEW r \in Requests, RequestFails(r)
  PROVE  Charged
<1> DEFINE x == request[r].providerId
<1>0. TypeOK /\ KnowledgeSound
  BY DEF IInv
<1>1. faults' = faults + 1 /\ UNCHANGED <<provider, replaced, envelope>> /\ Done(r)
  BY DEF RequestFails, Fault, external
<1>2. CASE Holds(r)
  <2>1. x \in ProviderIds
    BY <1>0, <1>2 DEF Holds, KnowledgeSound, RequestTrue
  <2>2. InHand \subseteq InHand' \cup {x}
    BY <1>0, <1>1, OneHandOpened DEF Done
  <2>3. Orphans' \subseteq Orphans \cup {x}
    BY <1>1, <2>2 DEF Orphans, Unnamed, Named, Exists
  <2>4. QED
    BY <1>1, <2>1, <2>3 DEF Charged
<1>3. CASE ~Holds(r)
  <2>1. InHand \subseteq InHand'
    BY <1>0, <1>1, <1>3, HandsKept DEF Done
  <2>2. QED
    BY <1>1, <2>1, QuietOrphans DEF Charged
<1>4. QED
  BY <1>2, <1>3

(* Whatever step is taken. *)
LEMMA ChargedStep == IInv /\ [Next]_vars => Charged
<1> SUFFICES ASSUME IInv, [Next]_vars PROVE Charged
  OBVIOUS
<1>0. TypeOK /\ KnowledgeSound
  BY DEF IInv
<1>1. ASSUME UNCHANGED <<provider, replaced, envelope>>, InHand \subseteq InHand',
             faults' \in {faults, faults + 1}
      PROVE  Charged
  BY <1>1, QuietOrphans DEF Charged
<1>2. ASSUME UNCHANGED <<provider, replaced, envelope, request>>,
             faults' \in {faults, faults + 1}
      PROVE  Charged
  <2>1. InHand' = InHand
    BY <1>2 DEF InHand
  <2>2. QED
    BY <1>1, <1>2, <2>1
<1>3. ASSUME NEW r \in Requests, Continue(r) PROVE Charged
  <2>1. CASE VoidRefused(r) \/ SendRefused(r) \/ PatchSave(r) \/ PatchSaveUnannounced(r)
              \/ DeleteSave(r)
    <3>1. Await(r, Served) /\ ~Holds(r)
      BY <2>1 DEF VoidRefused, SendRefused, PatchSave, PatchSaveUnannounced, PatchUpdate,
                  DeleteSave, Done, At, Holds
    <3>2. InHand \subseteq InHand'
      BY <1>0, <3>1, HandsKept
    <3>3. UNCHANGED <<provider, replaced, envelope>> /\ faults' \in {faults, faults + 1}
      BY <2>1 DEF VoidRefused, SendRefused, PatchSave, PatchSaveUnannounced, PatchUpdate,
                  DeleteSave, Fault, external
    <3>4. QED
      BY <1>1, <3>2, <3>3
  <2>2. CASE VoidCall(r)
    <3>1. InHand \subseteq InHand'
      BY <1>0, <2>2, HandsKept DEF VoidCall, At, Holds
    <3>2. \A p \in ProviderIds : provider'[p] # "none" => provider[p] # "none"
      BY <1>0, <2>2 DEF VoidCall, TypeOK, Live
    <3>3. UNCHANGED <<envelope, replaced, faults>>
      BY <2>2 DEF VoidCall
    <3>4. QED
      BY <3>1, <3>2, <3>3, NoneOrphaned DEF Charged, Exists
  <2>3. CASE VoidSave(r)
    <3>1. InHand \subseteq InHand' /\ UNCHANGED <<provider, replaced, faults>>
      BY <1>0, <2>3, HandsKept DEF VoidSave, At, Holds, Done, external
    <3>2. \A e \in Envelopes : /\ envelope'[e].contract = envelope[e].contract
                               /\ envelope'[e].providerId = envelope[e].providerId
      BY <1>0, <2>3 DEF VoidSave, TypeOK, EnvelopeRow
    <3>3. QED
      BY <3>1, <3>2, NoneOrphaned DEF Charged, Exists
  <2>4. QED
    BY <1>3, <2>1, <2>2, <2>3, SendCharged, SaveCharged, FailCharged DEF Continue
<1>4. ASSUME NEW r \in Requests, EnvelopeRequest(r) \/ ContractRequest(r) PROVE Charged
  <2>1. /\ UNCHANGED <<provider, replaced, envelope, faults>> /\ ~Holds(r)
        /\ \E q : Await(r, q)
    BY <1>4 DEF EnvelopeRequest, ContractRequest, CreateRead, VoidRead, ResendRead,
                PatchRead, DeleteRead, external, At, Holds
  <2>2. QED
    BY <1>0, <1>1, <2>1, HandsKept
<1>5. ASSUME NEW h \in Hooks, HookSave(h) PROVE Charged
  <2>1. UNCHANGED <<provider, replaced, request, faults>>
    BY <1>5 DEF HookSave, external
  <2>2. \A e \in Envelopes : /\ envelope'[e].contract = envelope[e].contract
                             /\ envelope'[e].providerId = envelope[e].providerId
    BY <1>0, <1>5 DEF HookSave, TypeOK, EnvelopeRow
  <2>3. InHand' = InHand
    BY <2>1 DEF InHand
  <2>4. QED
    BY <2>1, <2>2, <2>3, NoneOrphaned DEF Charged, Exists
<1>6. ASSUME NEW h \in Hooks, HookStep(h) PROVE Charged
  BY <1>2, <1>5, <1>6
  DEF HookStep, HookRejected, HookExecute, HookExecuteFails, HookDies, Fault, external
<1>7. CASE \/ \E m \in Message : HookRefused(m) \/ HookUnknown(m)
           \/ \E h \in Hooks, m \in Message, f \in Envelopes : HookFind(h, m, f)
  BY <1>2, <1>7 DEF HookRefused, HookUnknown, HookFind, Fault, external
<1>8. ASSUME NEW p \in ProviderIds, SignerActs(p) PROVE Charged
  <2>1. UNCHANGED <<envelope, replaced, request, faults>>
    BY <1>8 DEF SignerActs
  <2>2. \A x \in ProviderIds : provider'[x] # "none" => provider[x] # "none"
    BY <1>0, <1>8 DEF SignerActs, After, TypeOK, Live
  <2>3. InHand' = InHand
    BY <2>1 DEF InHand
  <2>4. QED
    BY <2>1, <2>2, <2>3, NoneOrphaned DEF Charged, Exists
<1>9. CASE UNCHANGED vars
  BY <1>2, <1>9 DEF vars, external
<1>10. QED
  BY <1>3, <1>4, <1>6, <1>7, <1>8, <1>9 DEF Next, Requests

(* So failures pay for orphans. *)
LEMMA OrphansStep ==
  IInv /\ [Next]_vars => (IsFiniteSet(Orphans) /\ OrphansAccounted)'
<1> SUFFICES ASSUME IInv, [Next]_vars
             PROVE  IsFiniteSet(Orphans') /\ Cardinality(Orphans') <= faults'
  BY DEF OrphansAccounted
<1>0. /\ IsFiniteSet(Orphans) /\ Cardinality(Orphans) <= faults /\ faults \in Nat
      /\ Cardinality(Orphans) \in Nat
  BY FS_CardinalityType DEF IInv, OrphansAccounted, TypeOK
<1>1. Charged
  BY ChargedStep
<1>2. ASSUME Orphans' \subseteq Orphans
      PROVE  IsFiniteSet(Orphans') /\ Cardinality(Orphans') <= Cardinality(Orphans)
  BY <1>0, <1>2, FS_Subset
<1>3. ASSUME NEW p, Orphans' \subseteq Orphans \cup {p}
      PROVE  IsFiniteSet(Orphans') /\ Cardinality(Orphans') <= Cardinality(Orphans) + 1
  <2>1. /\ IsFiniteSet(Orphans \cup {p})
        /\ Cardinality(Orphans \cup {p}) <= Cardinality(Orphans) + 1
    BY <1>0, FS_AddElement
  <2>2. /\ IsFiniteSet(Orphans') /\ Cardinality(Orphans') <= Cardinality(Orphans \cup {p})
    BY <1>3, <2>1, FS_Subset
  <2>3. Cardinality(Orphans') \in Nat /\ Cardinality(Orphans \cup {p}) \in Nat
    BY <2>1, <2>2, FS_CardinalityType
  <2>4. QED
    BY <1>0, <2>1, <2>2, <2>3
<1>4. CASE Orphans' \subseteq Orphans
  <2>1. Cardinality(Orphans') \in Nat
    BY <1>2, <1>4, FS_CardinalityType
  <2>2. QED
    BY <1>0, <1>1, <1>2, <1>4, <2>1 DEF Charged
<1>5. CASE faults' = faults + 1 /\ \E p : Orphans' \subseteq Orphans \cup {p}
  <2>1. IsFiniteSet(Orphans') /\ Cardinality(Orphans') <= Cardinality(Orphans) + 1
    BY <1>3, <1>5
  <2>2. Cardinality(Orphans') \in Nat
    BY <2>1, FS_CardinalityType
  <2>3. QED
    BY <1>0, <1>5, <2>1, <2>2
<1>6. QED
  BY <1>1, <1>4, <1>5 DEF Charged
-----------------------------------------------------------------------------
(* The invariant holds of every initial state. *)
LEMMA InitInv == Init => IInv
<1> SUFFICES ASSUME Init PROVE IInv
  OBVIOUS
<1>1. TypeOK
  BY InitType
<1>2. \A e \in Envelopes : ~Exists(e)
  BY DEF Init, Exists, NoRow
<1>3. KnowledgeSound
  <2>1. \A r \in Requests : request[r].pc = "idle"
    BY DEF Init, Fresh
  <2>2. \A h \in Hooks : hook[h].pc = "idle"
    BY DEF Init, Waiting
  <2>3. \A r \in Requests : RequestTrue(r)
    BY <2>1 DEF RequestTrue
  <2>4. \A h \in Hooks : HookTrue(h)
    BY <2>2 DEF HookTrue
  <2>5. EventsTrue /\ RowsTrue /\ StatusSeen
    BY <1>2 DEF Init, EventsTrue, RowsTrue, StatusSeen
  <2>6. \A p \in ProviderIds : sentFor[p] = None <=> provider[p] = "none"
    BY DEF Init
  <2>7. QED
    BY <2>3, <2>4, <2>5, <2>6 DEF KnowledgeSound
<1>4. TerminalRowHasCause
  BY <1>2 DEF TerminalRowHasCause
<1>5. ExecutedIsEarned
  <2>1. \A c \in Contracts : contract[c].status \in InitialStatus
    BY DEF Init
  <2>2. QED
    BY <2>1, SigningAssumption DEF ExecutedIsEarned
<1>6. AnnouncedHappened
  BY DEF Init, AnnouncedHappened
<1>7. IsFiniteSet(Orphans) /\ OrphansAccounted
  <2>1. Orphans = {} /\ faults = 0
    BY DEF Init, Orphans, Unnamed
  <2>2. QED
    BY <2>1, FS_EmptySet DEF OrphansAccounted
<1>8. QED
  BY <1>1, <1>3, <1>4, <1>5, <1>6, <1>7 DEF IInv

(* The invariant is inductive. *)
LEMMA InductiveStep == IInv /\ [Next]_vars => IInv'
<1> SUFFICES ASSUME IInv, [Next]_vars PROVE IInv'
  OBVIOUS
<1>1. KnowledgeSound'
  <2>1. (\A r \in Requests : RequestTrue(r))'
    BY RequestStep
  <2>2. (\A h \in Hooks : HookTrue(h))'
    BY WebhookStep
  <2>3. QED
    BY <2>1, <2>2, SentStep, EventsStep, RowsStep, SeenStep DEF KnowledgeSound
<1>2. QED
  BY <1>1, TypeStep, TerminalStep, ExecutedStep, AnnouncedStep, OrphansStep DEF IInv

(* What is known, stored and remembered agrees with the provider for ever. *)
THEOREM Invariance == Spec => []IInv
  BY InitInv, InductiveStep, PTL DEF Spec

(* Type correctness of the state of routes/signatures.ts and of the        *)
(* handlers in progress.                                                   *)
THEOREM TypeCorrect == Spec => []TypeOK
<1>1. IInv => TypeOK
  BY DEF IInv
<1>2. QED
  BY <1>1, Invariance, PTL

(* What a handler remembers across its awaits stays true of the provider,  *)
(* although it holds no lock and reads nothing again.                      *)
THEOREM KnowledgeKept == Spec => []KnowledgeSound
<1>1. IInv => KnowledgeSound
  BY DEF IInv
<1>2. QED
  BY <1>1, Invariance, PTL

(* No interleaving of webhooks, voids, resends and failures makes a row    *)
(* of SignatureEnvelope show an ending its contract did not have.          *)
THEOREM EndingsHaveCause == Spec => []TerminalRowHasCause
<1>1. IInv => TerminalRowHasCause
  BY DEF IInv
<1>2. QED
  BY <1>1, Invariance, PTL

(* No interleaving of PATCH requests and webhooks executes a contract that *)
(* was neither completed by its signers nor ever PENDING_SIGNATURE.        *)
THEOREM ExecutionEarned == Spec => []ExecutedIsEarned
<1>1. IInv => ExecutedIsEarned
  BY DEF IInv
<1>2. QED
  BY <1>1, Invariance, PTL

(* Whatever PATCH requests, webhooks and failures overlap, every            *)
(* contract.status_changed job names two statuses the contract has had, the *)
(* second an allowed successor of the first.                                *)
THEOREM AnnouncementsHappened == Spec => []AnnouncedHappened
<1>1. IInv => AnnouncedHappened
  BY DEF IInv
<1>2. QED
  BY <1>1, Invariance, PTL

(* Of the envelopes signers have been sent, no more are missing from the   *)
(* rows than handlers failed between provider and database, beside those   *)
(* that a resend has replaced or a handler is about to write.              *)
THEOREM OrphansCounted == Spec => []OrphansAccounted
<1>1. IInv => OrphansAccounted
  BY DEF IInv
<1>2. QED
  BY <1>1, Invariance, PTL
-----------------------------------------------------------------------------
(***************************************************************************)
(* The serial environment.  Others(r) and OthersOf(h): everybody but the   *)
(* request r, or the webhook handler h, is at rest.                        *)
(***************************************************************************)
AtRest(r) == request[r].pc \in {"idle", "done"}

Others(r) == /\ \A s \in Requests \ {r} : AtRest(s)
             /\ \A h \in Hooks : hook[h].pc = "idle"

OthersOf(h) == /\ \A s \in Requests : AtRest(s)
               /\ \A g \in Hooks \ {h} : hook[g].pc = "idle"

LEMMA Alone ==
  OneAtATime => /\ \A r \in Requests : ~AtRest(r) => Others(r)
                /\ \A h \in Hooks : hook[h].pc # "idle" => OthersOf(h)
  BY SerialAssumption DEF OneAtATime, Handlers, AtRest, Others, OthersOf

LEMMA AloneNext ==
  (OneAtATime => /\ \A r \in Requests : ~AtRest(r) => Others(r)
                 /\ \A h \in Hooks : hook[h].pc # "idle" => OthersOf(h))'
  BY Alone, PTL

(* Who is at rest has nothing to be wrong about. *)
LEMMA RestKnowsNothing ==
  /\ \A r \in Requests : AtRest(r) => RequestCurrent(r)
  /\ \A h \in Hooks : hook[h].pc = "idle" => HookCurrent(h)
  BY DEF AtRest, RequestCurrent, HookCurrent

LEMMA RestKnowsNothingNext ==
  (/\ \A r \in Requests : AtRest(r) => RequestCurrent(r)
   /\ \A h \in Hooks : hook[h].pc = "idle" => HookCurrent(h))'
  BY RestKnowsNothing, PTL

(* A request that acts is alone before and after, so only its own knowledge *)
(* is at stake.                                                             *)
LEMMA RequestActs ==
  ASSUME TypeOK, OneAtATime, OneAtATime', NEW r \in Requests, NEW q, Await(r, q),
         UNCHANGED hook, ~AtRest(r) \/ q.pc \notin {"idle", "done"},
         RequestCurrent(r)'
  PROVE  /\ \A s \in Requests : RequestCurrent(s)'
         /\ \A h \in Hooks : HookCurrent(h)'
<1>1. request'[r] = q /\ \A s \in Requests \ {r} : request'[s] = request[s]
  BY DEF TypeOK, Await
<1>2. Others(r)'
  <2>1. CASE ~AtRest(r)
    <3>1. Others(r)
      BY <2>1, Alone
    <3>2. QED
      BY <1>1, <3>1 DEF Others, AtRest
  <2>2. CASE q.pc \notin {"idle", "done"}
    <3>1. (~AtRest(r))'
      BY <1>1, <2>2 DEF AtRest
    <3>2. QED
      BY <3>1, AloneNext
  <2>3. QED
    BY <2>1, <2>2
<1>3. QED
  BY <1>2, RestKnowsNothingNext DEF Others

LEMMA DoneKnowsNothing ==
  ASSUME TypeOK, NEW r \in Requests, Done(r)
  PROVE  /\ Await(r, Served) /\ RequestCurrent(r)'
<1>1. Await(r, Served) /\ request'[r].pc = "done"
  BY DEF TypeOK, Done, Await, Served
<1>2. AtRest(r)'
  BY <1>1 DEF AtRest
<1>3. QED
  BY <1>1, <1>2, RestKnowsNothingNext

(* Events and rows. *)
Followed == PostedByRank /\ AckedByRank /\ RowsFollow

LEMMA EventsFrame ==
  ASSUME Followed, UNCHANGED <<provider, notified, acked, envelope>>
  PROVE  Followed'
  BY DEF Followed, PostedByRank, AckedByRank, RowsFollow, Top, Exists

LEMMA Ranks ==
  /\ \A s \in RawEvents : Rank[s] \in Nat
  /\ Rank["canceled"] = Rank["voided"]
  /\ \A s \in Live : s \in RawEvents /\ Rank[s] < Rank["voided"]
  /\ \A s \in RawEvents : \A t \in After(s) : t \in RawEvents /\ Rank[s] < Rank[t]
  /\ \A t : After(t) # {} => t \in Live
  /\ "none" \notin RawEvents
<1>1. \A s \in RawEvents : Rank[s] \in Nat
  BY DEF Rank, RawEvents
<1>2. Rank["canceled"] = Rank["voided"] /\ \A s \in Live : s \in RawEvents /\ Rank[s] < Rank["voided"]
  BY DEF Rank, RawEvents, Live
<1>3. \A s \in RawEvents : \A t \in After(s) : t \in RawEvents /\ Rank[s] < Rank[t]
  BY SigningAssumption DEF After, RawEvents
<1>4. \A t : After(t) # {} => t \in Live
  BY DEF After
<1>5. QED
  BY <1>1, <1>2, <1>3, <1>4 DEF RawEvents

(* A posted event has a rank, and so has the envelope it is about. *)
LEMMA PostedRanks ==
  ASSUME IInv, PostedByRank, NEW m \in notified
  PROVE  /\ m \in Message /\ m.id \in ProviderIds /\ m.event \in RawEvents
         /\ provider[m.id] \in RawEvents
         /\ Rank[m.event] \in Nat /\ Rank[provider[m.id]] \in Nat
<1>1. m \in Message /\ m.id \in ProviderIds /\ m.event \in RawEvents
  BY DEF IInv, TypeOK, Message
<1>2. provider[m.id] \in RawEvents
  BY <1>1 DEF IInv, TypeOK, PostedByRank
<1>3. QED
  BY <1>1, <1>2, Ranks

(* The provider's envelope p moves on to s and posts ev. *)
LEMMA ProviderMoves ==
  ASSUME IInv, Followed, NEW p \in ProviderIds, NEW s \in RawEvents, NEW ev \in RawEvents,
         provider' = [provider EXCEPT ![p] = s],
         notified' = notified \cup {[id |-> p, event |-> ev]},
         UNCHANGED <<acked, envelope>>,
         ev = s \/ (ev = "canceled" /\ s = "voided"),
         provider[p] = "none" \/ Rank[provider[p]] < Rank[s]
  PROVE  /\ Followed'
         /\ \A m \in notified : m.id = p => Rank[m.event] < Rank[ev]
<1> DEFINE new == [id |-> p, event |-> ev]
<1>1. /\ provider'[p] = s /\ \A x \in ProviderIds \ {p} : provider'[x] = provider[x]
      /\ new.id = p /\ new.event = ev /\ new \in notified' /\ notified \subseteq notified'
      /\ \A m \in notified' \ notified : m = new
      /\ Rank[ev] = Rank[s] /\ Rank[s] \in Nat /\ s # "none"
  BY Ranks DEF IInv, TypeOK
<1>2. ASSUME NEW m \in notified, m.id = p PROVE Rank[m.event] < Rank[s]
  <2>1. provider[p] # "none" /\ Rank[m.event] <= Rank[provider[p]]
    BY <1>2 DEF Followed, PostedByRank
  <2>2. QED
    BY <1>1, <1>2, <2>1, PostedRanks DEF Followed
<1>3. ASSUME NEW m \in notified
      PROVE  /\ m.id = p => ~Top(m)' /\ Rank[m.event] < Rank[s]
             /\ m.id # p => provider'[m.id] = provider[m.id] /\ Top(m)' = Top(m)
             /\ m.id \in ProviderIds /\ Rank[m.event] \in Nat
  <2>1. m.id \in ProviderIds /\ Rank[m.event] \in Nat
    BY PostedRanks DEF Followed
  <2>2. QED
    BY <1>1, <1>2, <2>1 DEF Top
<1> HIDE DEF new
<1>4. PostedByRank'
  <2>1. ASSUME NEW m \in notified'
        PROVE  /\ provider'[m.id] # "none" /\ Rank[m.event] <= Rank[provider'[m.id]]
               /\ Top(m)' => \/ m.event = provider'[m.id]
                             \/ m.event = "canceled" /\ provider'[m.id] = "voided"
    <3>1. CASE m \notin notified
      BY <1>1, <3>1
    <3>2. CASE m \in notified /\ m.id = p
      BY <1>1, <1>3, <3>2
    <3>3. CASE m \in notified /\ m.id # p
      BY <1>3, <3>3 DEF Followed, PostedByRank
    <3>4. QED
      BY <3>1, <3>2, <3>3
  <2>2. ASSUME NEW x \in ProviderIds, provider'[x] # "none"
        PROVE  \E m \in notified' : m.id = x /\ Top(m)'
    <3>1. CASE x = p
      BY <1>1, <3>1 DEF Top
    <3>2. CASE x # p
      <4>1. PICK m \in notified : m.id = x /\ Top(m)
        BY <1>1, <2>2, <3>2 DEF Followed, PostedByRank
      <4>2. QED
        BY <1>1, <1>3, <3>2, <4>1
    <3>3. QED
      BY <3>1, <3>2
  <2>3. QED
    BY <2>1, <2>2 DEF PostedByRank
<1>5. AckedByRank'
  <2>1. acked \subseteq notified /\ acked' = acked
    BY DEF IInv, TypeOK
  <2>2. ASSUME NEW m \in acked, NEW n \in notified', m.id = n.id, Rank[n.event] < Rank[m.event]
        PROVE  n \in acked
    <3>1. CASE n \in notified
      BY <2>2, <3>1 DEF Followed, AckedByRank
    <3>2. CASE n \notin notified
      BY <1>1, <1>3, <2>1, <2>2, <3>2
    <3>3. QED
      BY <3>1, <3>2
  <2>3. QED
    BY <2>1, <2>2 DEF AckedByRank
<1>6. RowsFollow'
  <2>1. acked \subseteq notified /\ acked' = acked /\ envelope' = envelope
    BY DEF IInv, TypeOK
  <2>2. \A m \in acked : Top(m)' => Top(m)
    BY <1>3, <2>1
  <2>3. \A e : Exists(e)' = Exists(e)
    BY <2>1 DEF Exists
  <2>4. QED
    BY <2>1, <2>2, <2>3 DEF Followed, RowsFollow
<1>7. QED
  BY <1>1, <1>2, <1>4, <1>5, <1>6 DEF Followed

(* A row points at an envelope the provider has. *)
LEMMA RowsPoint ==
  ASSUME IInv, NEW e \in Envelopes, Exists(e)
  PROVE  /\ envelope[e].providerId \in ProviderIds
         /\ provider[envelope[e].providerId] \in RawEvents
<1>1. /\ envelope[e].providerId \in ProviderIds
      /\ sentFor[envelope[e].providerId] \in Contracts
  BY DEF IInv, KnowledgeSound, RowsTrue
<1>2. provider[envelope[e].providerId] # "none"
  BY <1>1, SigningAssumption DEF IInv, KnowledgeSound
<1>3. QED
  BY <1>1, <1>2 DEF IInv, TypeOK
-----------------------------------------------------------------------------
(* The requests *)

LEMMA ReadsCurrent ==
  ASSUME IInv, SerialInv, OneAtATime', NEW r \in Requests,
         EnvelopeRequest(r) \/ ContractRequest(r)
  PROVE  SerialInv'
<1>0. TypeOK /\ Fresh \in RequestRecord
  BY Records DEF IInv
<1>1. UNCHANGED <<contract, provider, notified, acked, envelope, hook>>
  BY DEF EnvelopeRequest, ContractRequest, CreateRead, VoidRead, ResendRead, PatchRead,
         DeleteRead, external, delivery, rows
<1>2. \E q : /\ Await(r, q) /\ q.pc \notin {"idle", "done"}
             /\ RequestCurrent(r)'
  <2>1. ASSUME NEW c \in Contracts, CreateRead(r, c) \/ DeleteRead(r, c)
        PROVE  \E q : Await(r, q) /\ q.pc \in {"createSend", "deleteSave"}
    <3>1. /\ [Fresh EXCEPT !.pc = "createSend", !.contract = c].pc = "createSend"
          /\ [Fresh EXCEPT !.pc = "deleteSave", !.contract = c].pc = "deleteSave"
      BY DEF Fresh
    <3>2. QED
      BY <2>1, <3>1 DEF CreateRead, DeleteRead
  <2>2. ASSUME NEW e \in Envelopes, ResendRead(r, e)
        PROVE  \E q : Await(r, q) /\ q.pc = "resendSend"
    <3>1. [Fresh EXCEPT !.pc = "resendSend", !.envelope = e,
                        !.contract = envelope[e].contract].pc = "resendSend"
      BY DEF Fresh
    <3>2. QED
      BY <2>2, <3>1 DEF ResendRead
  <2>3. ASSUME NEW q, Await(r, q), q.pc \in {"createSend", "deleteSave", "resendSend"}
        PROVE  RequestCurrent(r)'
    <3>1. request'[r] = q
      BY <1>0, <2>3 DEF TypeOK, Await
    <3>2. QED
      BY <2>3, <3>1 DEF RequestCurrent
  <2>4. ASSUME NEW e \in Envelopes, VoidRead(r, e)
        PROVE  \E q : Await(r, q) /\ q.pc = "voidCall" /\ RequestCurrent(r)'
    <3>1. PICK q : q = [Fresh EXCEPT !.pc = "voidCall", !.envelope = e,
                                     !.providerId = envelope[e].providerId]
      OBVIOUS
    <3>2. q.pc = "voidCall" /\ q.envelope = e /\ q.providerId = envelope[e].providerId
      BY <3>1 DEF Fresh
    <3>3. Await(r, q) /\ request'[r] = q
      BY <1>0, <2>4, <3>1 DEF TypeOK, VoidRead, Await
    <3>4. RequestCurrent(r)'
      BY <1>1, <3>2, <3>3 DEF RequestCurrent
    <3>5. QED
      BY <3>2, <3>3, <3>4
  <2>5. ASSUME NEW c \in Contracts, NEW s, NEW stamp, PatchRead(r, c, s, stamp)
        PROVE  \E q : Await(r, q) /\ q.pc = "patchSave" /\ RequestCurrent(r)'
    <3>1. PICK q : q = [Fresh EXCEPT !.pc = "patchSave", !.contract = c, !.status = s,
                                     !.seen = contract[c].status]
      OBVIOUS
    <3>2. q.pc = "patchSave"
      BY <3>1 DEF Fresh
    <3>3. Await(r, q) /\ request'[r] = q
      BY <1>0, <2>5, <3>1 DEF TypeOK, PatchRead, Await
    <3>4. RequestCurrent(r)'
      BY <3>2, <3>3 DEF RequestCurrent
    <3>5. QED
      BY <3>2, <3>3, <3>4
  <2>6. QED
    BY <2>1, <2>2, <2>3, <2>4, <2>5 DEF EnvelopeRequest, ContractRequest
<1>3. PICK q : Await(r, q) /\ q.pc \notin {"idle", "done"} /\ RequestCurrent(r)'
  BY <1>2
<1>4. Followed'
  BY <1>1, EventsFrame DEF SerialInv, Followed
<1>5. QED
  BY <1>0, <1>1, <1>3, <1>4, RequestActs DEF SerialInv, Followed

(* The steps with which a request ends and no row of an envelope changes. *)
LEMMA EndsCurrent ==
  ASSUME IInv, SerialInv, OneAtATime', NEW r \in Requests,
         \/ VoidRefused(r) \/ SendRefused(r) \/ RequestFails(r)
         \/ PatchSave(r) \/ PatchSaveUnannounced(r) \/ DeleteSave(r)
  PROVE  SerialInv'
<1>1. /\ UNCHANGED <<provider, notified, acked, envelope, hook>>
      /\ Done(r) /\ ~AtRest(r)
  BY DEF VoidRefused, SendRefused, RequestFails, PatchSave, PatchSaveUnannounced,
         PatchUpdate, DeleteSave, external, delivery, At, AtRest
<1>2. TypeOK
  BY DEF IInv
<1>3. Followed'
  BY <1>1, EventsFrame DEF SerialInv, Followed
<1>4. QED
  BY <1>1, <1>2, <1>3, DoneKnowsNothing, RequestActs DEF SerialInv, Followed

(* Create and resend: the provider makes an envelope nobody has heard of. *)
LEMMA SendsCurrent ==
  ASSUME IInv, SerialInv, OneAtATime', NEW r \in Requests, CreateSend(r) \/ ResendSend(r)
  PROVE  SerialInv'
<1>0. TypeOK /\ Followed /\ request[r] \in RequestRecord
  BY DEF IInv, TypeOK, SerialInv, Followed
<1>1. PICK p \in ProviderIds, pc \in {"createSave", "resendSave"} :
        /\ ProviderCreates(request[r].contract, p)
        /\ Await(r, [request[r] EXCEPT !.pc = pc, !.providerId = p])
  BY DEF CreateSend, ResendSend
<1>2. PICK q : q = [request[r] EXCEPT !.pc = pc, !.providerId = p]
  OBVIOUS
<1>3. /\ q.pc = pc /\ q.providerId = p /\ Await(r, q) /\ request'[r] = q
      /\ UNCHANGED <<acked, envelope, hook>> /\ ~AtRest(r)
  BY <1>0, <1>1, <1>2
     DEF RequestRecord, TypeOK, Await, CreateSend, ResendSend, delivery, At, AtRest
<1>4. /\ provider[p] = "none" /\ provider' = [provider EXCEPT ![p] = "sent"]
      /\ notified' = notified \cup {[id |-> p, event |-> "sent"]}
  BY <1>1 DEF ProviderCreates
<1>5. Followed'
  BY <1>0, <1>3, <1>4, ProviderMoves DEF RawEvents
<1>6. /\ provider'[p] # "none"
      /\ \A m \in acked : m.id # p
      /\ \A e \in Envelopes : Exists(e) => envelope[e].providerId # p
  <2>1. provider'[p] # "none"
    BY <1>0, <1>4 DEF TypeOK
  <2>2. \A m \in acked : m.id # p
    BY <1>0, <1>4 DEF TypeOK, Followed, PostedByRank
  <2>3. \A e \in Envelopes : Exists(e) => envelope[e].providerId # p
    BY <1>4, RowsPoint, Ranks
  <2>4. QED
    BY <2>1, <2>2, <2>3
<1>7. RequestCurrent(r)'
  <2>1. q.pc \in {"createSave", "resendSave"}
    BY <1>3
  <2>2. \A e \in Envelopes : Exists(e)' => envelope'[e].providerId # p
    BY <1>3, <1>6 DEF Exists
  <2>3. QED
    BY <1>3, <1>6, <2>1, <2>2 DEF RequestCurrent
<1>8. QED
  BY <1>0, <1>3, <1>5, <1>7, RequestActs DEF SerialInv, Followed

(* The row is made, or pointed at the new envelope, before its first event. *)
LEMMA SavesCurrent ==
  ASSUME IInv, SerialInv, OneAtATime', NEW r \in Requests, CreateSave(r) \/ ResendSave(r)
  PROVE  SerialInv'
<1>0. TypeOK /\ Followed /\ KnowledgeSound
  BY DEF IInv, SerialInv, Followed
<1>1. /\ UNCHANGED <<provider, notified, acked, hook>> /\ Done(r) /\ ~AtRest(r)
      /\ request[r].pc \in {"createSave", "resendSave"}
  BY DEF CreateSave, ResendSave, external, delivery, At, AtRest
<1>2. PICK p : p = request[r].providerId
  OBVIOUS
<1>3. /\ \A m \in acked : m.id # p
      /\ \A e \in Envelopes : Exists(e) => envelope[e].providerId # p
  BY <1>1, <1>2 DEF SerialInv, RequestCurrent
<1>4. PICK e \in Envelopes :
        /\ envelope'[e].providerId = p /\ envelope'[e].status = "SENT"
        /\ \A d \in Envelopes \ {e} : envelope'[d] = envelope[d]
  <2>1. CASE CreateSave(r)
    BY <1>0, <1>2, <2>1, MapValues DEF CreateSave, TypeOK
  <2>2. CASE ResendSave(r)
    <3>1. PICK e : e = request[r].envelope
      OBVIOUS
    <3>2. e \in Envelopes
      BY <1>0, <1>1, <2>2, <3>1 DEF KnowledgeSound, RequestTrue, ResendSave, At
    <3>3. envelope' = [envelope EXCEPT ![e] = [envelope[e] EXCEPT
                         !.providerId = p, !.status = MapStatus("sent")]]
      BY <1>2, <2>2, <3>1 DEF ResendSave
    <3>4. /\ [envelope[e] EXCEPT !.providerId = p, !.status = MapStatus("sent")].providerId = p
          /\ [envelope[e] EXCEPT !.providerId = p, !.status = MapStatus("sent")].status = "SENT"
      BY <1>0, <3>2, MapValues DEF TypeOK, EnvelopeRow
    <3>5. QED
      BY <1>0, <3>2, <3>3, <3>4 DEF TypeOK
  <2>3. QED
    BY <2>1, <2>2
<1>5. \A m : Top(m)' = Top(m)
  BY <1>1 DEF Top
<1>6. PostedByRank' /\ AckedByRank'
  BY <1>0, <1>1, <1>5 DEF Followed, PostedByRank, AckedByRank
<1>7. RowsFollow'
  <2>1. \A d \in Envelopes \ {e} : Exists(d)' = Exists(d)
    BY <1>4 DEF Exists
  <2>2. QED
    BY <1>0, <1>1, <1>3, <1>4, <1>5, <2>1 DEF Followed, RowsFollow, SignatureStatus
<1>8. QED
  BY <1>0, <1>1, <1>6, <1>7, DoneKnowsNothing, RequestActs DEF SerialInv

LEMMA VoidCallCurrent ==
  ASSUME IInv, SerialInv, OneAtATime', NEW r \in Requests, VoidCall(r)
  PROVE  SerialInv'
<1>0. TypeOK /\ Followed /\ request[r] \in RequestRecord
  BY DEF IInv, TypeOK, SerialInv, Followed
<1>1. PICK p \in ProviderIds : p = request[r].providerId
  BY DEF IInv, KnowledgeSound, RequestTrue, VoidCall, At
<1>2. PICK ev, q :
        /\ ev \in CancelEvents /\ provider[p] \in Live /\ provider' = [provider EXCEPT ![p] = "voided"]
        /\ notified' = notified \cup {[id |-> p, event |-> ev]}
        /\ q = [request[r] EXCEPT !.pc = "voidSave"] /\ Await(r, q)
        /\ UNCHANGED <<acked, envelope, hook>>
        /\ request[r].pc = "voidCall"
  BY <1>1 DEF VoidCall, delivery, At
<1>3. /\ q.pc = "voidSave" /\ q.envelope = request[r].envelope /\ q.providerId = p
      /\ request'[r] = q
  BY <1>0, <1>1, <1>2 DEF RequestRecord, TypeOK, Await
<1>4. ev \in {"voided", "canceled"}
  BY <1>2, SigningAssumption
<1>5. Followed'
  BY <1>0, <1>2, <1>4, ProviderMoves, Ranks DEF RawEvents
<1>6. envelope[request[r].envelope].providerId = p
  BY <1>1, <1>2 DEF SerialInv, RequestCurrent
<1>7. RequestCurrent(r)'
  BY <1>0, <1>2, <1>3, <1>6 DEF RequestCurrent, TypeOK
<1>8. QED
  BY <1>0, <1>2, <1>3, <1>5, <1>7, RequestActs DEF SerialInv, Followed

LEMMA VoidSaveCurrent ==
  ASSUME IInv, SerialInv, OneAtATime', NEW r \in Requests, VoidSave(r)
  PROVE  SerialInv'
<1>0. TypeOK /\ Followed
  BY DEF IInv, SerialInv, Followed
<1>1. PICK e \in Envelopes : e = request[r].envelope /\ Exists(e)
  BY DEF IInv, KnowledgeSound, RequestTrue, VoidSave, At
<1>2. /\ UNCHANGED <<provider, notified, acked, hook>> /\ Done(r) /\ ~AtRest(r)
      /\ envelope' = [envelope EXCEPT ![e].status = "VOIDED"]
      /\ request[r].pc = "voidSave"
  BY <1>1 DEF VoidSave, external, delivery, At, AtRest
<1>3. provider[envelope[e].providerId] = "voided"
  BY <1>1, <1>2 DEF SerialInv, RequestCurrent
<1>4. /\ envelope'[e].status = "VOIDED" /\ envelope'[e].providerId = envelope[e].providerId
      /\ envelope'[e].contract = envelope[e].contract
      /\ \A d \in Envelopes \ {e} : envelope'[d] = envelope[d]
  BY <1>0, <1>2 DEF TypeOK, EnvelopeRow
<1>5. \A m : Top(m)' = Top(m)
  BY <1>2 DEF Top
<1>6. PostedByRank' /\ AckedByRank'
  BY <1>0, <1>2, <1>5 DEF Followed, PostedByRank, AckedByRank
<1>7. ASSUME NEW m \in acked, m.id = envelope[e].providerId, Top(m)
      PROVE  MapStatus(m.event) = "VOIDED"
  <2>1. m \in notified
    BY <1>0 DEF TypeOK
  <2>2. m.event \in {"voided", "canceled"}
    BY <1>0, <1>3, <1>7, <2>1 DEF Followed, PostedByRank
  <2>3. envelope[e].status = MapStatus(m.event)
    BY <1>0, <1>1, <1>7 DEF Followed, RowsFollow
  <2>4. m.event # "canceled"
    <3>1. envelope[e].status \in SignatureStatus
      BY <1>0, <1>1 DEF Followed, RowsFollow
    <3>2. MapStatus("canceled") = "CANCELED" /\ "CANCELED" \notin SignatureStatus
      BY DEF MapStatus, StatusMap, SignatureStatus
    <3>3. QED
      BY <2>3, <3>1, <3>2
  <2>5. QED
    BY <2>2, <2>4, MapValues
<1>8. RowsFollow'
  <2>1. \A d \in Envelopes : Exists(d)' = Exists(d) /\ envelope'[d].providerId = envelope[d].providerId
    BY <1>4 DEF Exists
  <2>2. QED
    BY <1>0, <1>2, <1>4, <1>5, <1>7, <2>1 DEF Followed, RowsFollow, SignatureStatus
<1>9. QED
  BY <1>0, <1>2, <1>6, <1>8, DoneKnowsNothing, RequestActs DEF SerialInv
-----------------------------------------------------------------------------
(* The signers: whatever a handler in progress has read is still so. *)

LEMMA SignersCurrent ==
  ASSUME IInv, SerialInv, OneAtATime', NEW p \in ProviderIds, SignerActs(p)
  PROVE  SerialInv'
<1>0. TypeOK /\ Followed
  BY DEF IInv, SerialInv, Followed
<1>1. PICK s \in After(provider[p]) :
        /\ provider' = [provider EXCEPT ![p] = s]
        /\ notified' = notified \cup {[id |-> p, event |-> s]}
        /\ UNCHANGED <<contract, acked, envelope, request, hook>>
  BY DEF SignerActs, rows, delivery
<1>2. provider[p] \in Live /\ s \in RawEvents /\ Rank[provider[p]] < Rank[s]
  BY <1>1, Ranks
<1>3. Followed' /\ \A m \in notified : m.id = p => Rank[m.event] < Rank[s]
  BY <1>0, <1>1, <1>2, ProviderMoves
<1>4. /\ provider'[p] # "none" /\ \A x \in ProviderIds \ {p} : provider'[x] = provider[x]
      /\ \A e : Exists(e)' = Exists(e)
  BY <1>0, <1>1, <1>2, Ranks DEF TypeOK, Exists
<1>5. ASSUME NEW r \in Requests PROVE RequestCurrent(r)'
  <2>1. RequestCurrent(r) /\ RequestTrue(r) /\ request[r] \in RequestRecord
    BY <1>0 DEF SerialInv, IInv, KnowledgeSound, TypeOK
  <2>2. request[r].pc = "voidSave" => provider'[request[r].providerId] = "voided"
    <3>1. SUFFICES ASSUME request[r].pc = "voidSave"
                   PROVE  provider'[request[r].providerId] = "voided"
      OBVIOUS
    <3>2. request[r].envelope \in Envelopes /\ Exists(request[r].envelope)
      BY <2>1, <3>1 DEF RequestTrue
    <3>3. /\ provider[request[r].providerId] = "voided"
          /\ envelope[request[r].envelope].providerId = request[r].providerId
      BY <2>1, <3>1 DEF RequestCurrent
    <3>4. request[r].providerId \in ProviderIds /\ request[r].providerId # p
      BY <1>2, <3>2, <3>3, RowsPoint DEF Live
    <3>5. QED
      BY <1>4, <3>3, <3>4
  <2>3. request[r].pc \in {"createSave", "resendSave"}
          => provider'[request[r].providerId] # "none"
    BY <1>4, <2>1 DEF RequestTrue, RequestCurrent
  <2>4. QED
    BY <1>1, <1>4, <2>1, <2>2, <2>3 DEF RequestCurrent, AllowedChange
<1>6. ASSUME NEW h \in Hooks PROVE HookCurrent(h)'
  <2>1. SUFFICES ASSUME hook[h].pc # "idle" PROVE HookCurrent(h)'
    BY <1>1 DEF HookCurrent
  <2>2. HookCurrent(h) /\ hook[h].msg \in notified
    BY <2>1 DEF SerialInv, IInv, KnowledgeSound, HookTrue
  <2>3. ASSUME NEW n \in notified', n.id = hook[h].msg.id,
               Rank[n.event] < Rank[hook[h].msg.event]
        PROVE  n \in notified
    <3>1. SUFFICES ASSUME n = [id |-> p, event |-> s] PROVE FALSE
      BY <1>1
    <3>2. Rank[hook[h].msg.event] < Rank[s]
      BY <1>3, <2>2, <2>3, <3>1
    <3>3. Rank[hook[h].msg.event] \in Nat /\ Rank[s] \in Nat
      BY <1>0, <1>2, <2>2, PostedRanks, Ranks DEF Followed
    <3>4. QED
      BY <2>3, <3>1, <3>2, <3>3
  <2>4. QED
    BY <1>1, <2>1, <2>2, <2>3 DEF HookCurrent
<1>7. QED
  BY <1>3, <1>5, <1>6 DEF SerialInv, Followed
-----------------------------------------------------------------------------
(* The webhook *)

(* Everybody is at rest but the handler h, which acts. *)
LEMMA HookActs ==
  ASSUME TypeOK, OneAtATime, OneAtATime', NEW h \in Hooks, NEW k,
         hook' = [hook EXCEPT ![h] = k], UNCHANGED request,
         hook[h].pc # "idle" \/ k.pc # "idle", HookCurrent(h)'
  PROVE  /\ \A s \in Requests : RequestCurrent(s)'
         /\ \A g \in Hooks : HookCurrent(g)'
<1>1. hook'[h] = k /\ \A g \in Hooks \ {h} : hook'[g] = hook[g]
  BY DEF TypeOK
<1>2. OthersOf(h)'
  <2>1. CASE hook[h].pc # "idle"
    <3>1. OthersOf(h)
      BY <2>1, Alone
    <3>2. QED
      BY <1>1, <3>1 DEF OthersOf, AtRest
  <2>2. CASE k.pc # "idle"
    BY <1>1, <2>2, AloneNext
  <2>3. QED
    BY <2>1, <2>2
<1>3. QED
  BY <1>2, RestKnowsNothingNext DEF OthersOf

(* An event is acknowledged in its turn. *)
LEMMA AckedNext ==
  ASSUME IInv, AckedByRank, PostedByRank, NEW m \in notified, acked' = acked \cup {m},
         \A n \in notified : n.id = m.id /\ Rank[n.event] < Rank[m.event] => n \in acked,
         UNCHANGED <<provider, notified>>
  PROVE  PostedByRank' /\ AckedByRank'
<1>1. \A n : Top(n)' = Top(n)
  BY DEF Top
<1>2. PostedByRank'
  BY <1>1 DEF PostedByRank
<1>3. AckedByRank'
  BY DEF AckedByRank
<1>4. QED
  BY <1>2, <1>3

LEMMA HookRefusedCurrent ==
  ASSUME IInv, SerialInv, DeliveredInOrder, NEW m \in Message, HookRefused(m)
  PROVE  SerialInv'
<1>0. TypeOK /\ Followed
  BY DEF IInv, SerialInv, Followed
<1>1. /\ attempts' = [attempts EXCEPT ![m] = @ + 1]
      /\ UNCHANGED <<provider, notified, acked, envelope, request, hook>>
  BY DEF HookRefused, Posts, external
<1>2. Handlers = {}
  BY <1>0, <1>1 DEF TypeOK, DeliveredInOrder
<1>3. /\ \A r \in Requests : AtRest(r)'
      /\ \A h \in Hooks : hook'[h].pc = "idle"
  BY <1>1, <1>2 DEF Handlers, AtRest
<1>4. Followed' /\ OneAtATime'
  BY <1>0, <1>1, <1>2, EventsFrame DEF OneAtATime, Handlers
<1>5. QED
  BY <1>3, <1>4, RestKnowsNothingNext DEF SerialInv, Followed

LEMMA HookUnknownCurrent ==
  ASSUME IInv, SerialInv, OneAtATime', DeliveredInOrder, NEW m \in Message, HookUnknown(m)
  PROVE  SerialInv'
<1>0. TypeOK /\ Followed
  BY DEF IInv, SerialInv, Followed
<1>1. /\ m \in notified /\ attempts' = [attempts EXCEPT ![m] = @ + 1]
      /\ acked' = acked \cup {m}
      /\ \A e \in Envelopes : ~(Exists(e) /\ envelope[e].providerId = m.id)
      /\ UNCHANGED <<provider, notified, envelope, request, hook>>
  BY DEF HookUnknown, Arrives, Posts, external
<1>2. attempts'[m] # attempts[m]
  BY <1>0, <1>1 DEF TypeOK
<1>3. /\ Handlers = {}
      /\ \A n \in notified : n.id = m.id /\ Rank[n.event] < Rank[m.event] => n \in acked
  BY <1>2 DEF DeliveredInOrder
<1>4. PostedByRank' /\ AckedByRank'
  BY <1>0, <1>1, <1>3, AckedNext DEF Followed
<1>5. RowsFollow'
  <2>1. \A n : Top(n)' = Top(n) /\ Exists(n)' = Exists(n)
    BY <1>1 DEF Top, Exists
  <2>2. QED
    BY <1>0, <1>1, <2>1 DEF Followed, RowsFollow
<1>6. /\ \A r \in Requests : AtRest(r)'
      /\ \A h \in Hooks : hook'[h].pc = "idle"
  BY <1>1, <1>3 DEF Handlers, AtRest
<1>7. QED
  BY <1>4, <1>5, <1>6, RestKnowsNothingNext DEF SerialInv

LEMMA HookFindCurrent ==
  ASSUME IInv, SerialInv, OneAtATime', DeliveredInOrder,
         NEW h \in Hooks, NEW m \in Message, NEW e \in Envelopes, HookFind(h, m, e)
  PROVE  SerialInv'
<1>0. TypeOK /\ Followed
  BY DEF IInv, SerialInv, Followed
<1>1. PICK k : k = [pc |-> "save", envelope |-> e, contract |-> envelope[e].contract,
                    status |-> MapStatus(m.event), msg |-> m]
  OBVIOUS
<1>2. /\ attempts' = [attempts EXCEPT ![m] = @ + 1]
      /\ envelope[e].providerId = m.id
      /\ hook' = [hook EXCEPT ![h] = k]
      /\ UNCHANGED <<provider, notified, acked, envelope, request>>
  BY <1>1 DEF HookFind, Arrives, Posts, external
<1>3. attempts'[m] # attempts[m]
  BY <1>0, <1>2 DEF TypeOK
<1>4. /\ m \notin acked
      /\ \A n \in notified : n.id = m.id /\ Rank[n.event] < Rank[m.event] => n \in acked
  BY <1>3 DEF DeliveredInOrder
<1>5. /\ hook'[h] = k /\ k.pc = "save" /\ k.envelope = e /\ k.msg = m
      /\ k.status = MapStatus(m.event)
  BY <1>0, <1>1, <1>2 DEF TypeOK
<1>6. HookCurrent(h)'
  BY <1>2, <1>4, <1>5 DEF HookCurrent
<1>7. Followed'
  BY <1>0, <1>2, EventsFrame
<1>8. QED
  BY <1>0, <1>2, <1>5, <1>6, <1>7, HookActs DEF SerialInv, Followed

(* The row says what the event said, and no event of the envelope that was *)
(* acknowledged before came after it.                                      *)
LEMMA HookWritesLatest ==
  ASSUME IInv, SerialInv, NEW h \in Hooks, hook[h].pc # "idle",
         hook[h].status \in SignatureStatus,
         NEW m \in acked, m.id = hook[h].msg.id
  PROVE  ~Top(m)
<1> SUFFICES ASSUME Top(m) PROVE FALSE
  OBVIOUS
<1>0. TypeOK /\ PostedByRank /\ AckedByRank /\ RowsFollow /\ m \in notified
  BY DEF IInv, TypeOK, SerialInv
<1>1. PICK k \in notified, e \in Envelopes :
        k = hook[h].msg /\ e = hook[h].envelope /\ Exists(e)
  BY DEF IInv, KnowledgeSound, HookTrue
<1>2. /\ k \notin acked /\ hook[h].status = MapStatus(k.event)
      /\ envelope[e].providerId = k.id
  BY <1>1 DEF SerialInv, HookCurrent
<1>3. /\ Rank[k.event] \in Nat /\ Rank[m.event] \in Nat
      /\ Rank[k.event] <= Rank[m.event]
  BY <1>0, <1>1, PostedRanks DEF PostedByRank, Top
<1>4. Rank[k.event] = Rank[m.event]
  BY <1>0, <1>1, <1>2, <1>3 DEF AckedByRank
<1>5. Top(k)
  BY <1>1, <1>4 DEF Top
<1>6. MapStatus("canceled") \notin SignatureStatus
  BY DEF MapStatus, StatusMap, SignatureStatus
<1>7. k.event = provider[k.id]
  BY <1>0, <1>2, <1>5, <1>6 DEF PostedByRank
<1>8. m.event = provider[m.id]
  <2>1. envelope[e].status = MapStatus(m.event) /\ envelope[e].status \in SignatureStatus
    BY <1>0, <1>1, <1>2 DEF RowsFollow
  <2>2. QED
    BY <1>0, <1>6, <2>1 DEF PostedByRank
<1>9. m = k
  BY <1>0, <1>1, <1>7, <1>8, PostedRanks DEF Message
<1>10. QED
  BY <1>2, <1>9

(* The row and the acknowledgement follow the event together. *)
LEMMA RowsFollowNext ==
  ASSUME IInv, SerialInv, NEW h \in Hooks, hook[h].pc # "idle",
         hook[h].status \in SignatureStatus, UNCHANGED <<provider, notified>>,
         acked' \in {acked, acked \cup {hook[h].msg}},
         envelope' = [envelope EXCEPT ![hook[h].envelope].status = hook[h].status]
  PROVE  RowsFollow'
<1>0. TypeOK /\ RowsFollow
  BY DEF IInv, SerialInv
<1>1. PICK k \in notified, e \in Envelopes :
        k = hook[h].msg /\ e = hook[h].envelope /\ Exists(e)
  BY DEF IInv, KnowledgeSound, HookTrue
<1>2. hook[h].status = MapStatus(k.event) /\ envelope[e].providerId = k.id
  BY <1>1 DEF SerialInv, HookCurrent
<1>3. /\ envelope'[e].status = MapStatus(k.event)
      /\ \A d \in Envelopes : /\ envelope'[d].providerId = envelope[d].providerId
                              /\ Exists(d)' = Exists(d)
      /\ \A d \in Envelopes \ {e} : envelope'[d].status = envelope[d].status
  BY <1>0, <1>1, <1>2 DEF TypeOK, EnvelopeRow, Exists
<1>4. \A m : Top(m)' = Top(m)
  BY DEF Top
<1>5. ASSUME NEW d \in Envelopes, Exists(d), NEW m \in acked', Top(m),
             m.id = envelope[d].providerId
      PROVE  envelope'[d].status = MapStatus(m.event)
  <2>1. CASE d = e
    <3>1. m \notin acked
      BY <1>1, <1>2, <1>5, <2>1, HookWritesLatest
    <3>2. QED
      BY <1>1, <1>3, <1>5, <2>1, <3>1
  <2>2. CASE d # e
    <3>1. envelope[d].providerId # envelope[e].providerId
      BY <1>0, <1>1, <1>5, <2>2 DEF RowsFollow
    <3>2. m \in acked
      BY <1>1, <1>2, <1>5, <3>1
    <3>3. QED
      BY <1>0, <1>3, <1>5, <2>2, <3>2 DEF RowsFollow
  <2>3. QED
    BY <2>1, <2>2
<1>6. \A d \in Envelopes : Exists(d) => envelope'[d].status \in SignatureStatus
  BY <1>0, <1>2, <1>3 DEF RowsFollow
<1>7. QED
  BY <1>0, <1>3, <1>4, <1>5, <1>6 DEF RowsFollow

LEMMA HookWaits ==
  ASSUME TypeOK, NEW h \in Hooks, hook' = [hook EXCEPT ![h] = Waiting]
  PROVE  HookCurrent(h)'
<1>1. hook'[h].pc = "idle"
  BY DEF TypeOK, Waiting
<1>2. QED
  BY <1>1, RestKnowsNothingNext

LEMMA HookSaveCurrent ==
  ASSUME IInv, SerialInv, OneAtATime', NEW h \in Hooks, HookSave(h)
  PROVE  SerialInv'
<1>0. TypeOK /\ OneAtATime /\ HookCurrent(h) /\ hook[h] \in HookRecord
  BY DEF IInv, TypeOK, SerialInv
<1>1. /\ hook[h].pc = "save" /\ hook[h].status \in SignatureStatus
      /\ envelope' = [envelope EXCEPT ![hook[h].envelope].status = hook[h].status]
      /\ UNCHANGED <<provider, notified, request>>
  BY DEF HookSave, external
<1>2. hook[h].msg \in notified /\ hook[h].envelope \in Envelopes
  BY <1>1 DEF IInv, KnowledgeSound, HookTrue
<1>3. /\ acked' \in {acked, acked \cup {hook[h].msg}}
      /\ hook[h].status # "COMPLETED" => hook' = [hook EXCEPT ![h] = Waiting]
      /\ hook[h].status = "COMPLETED" => /\ acked' = acked
           /\ hook' = [hook EXCEPT ![h] = [hook[h] EXCEPT !.pc = "execute"]]
  BY DEF HookSave, Acknowledge
<1>4. RowsFollow'
  BY <1>1, <1>3, RowsFollowNext
<1>5. PostedByRank' /\ AckedByRank'
  <2>1. CASE acked' = acked
    <3>1. \A m : Top(m)' = Top(m)
      BY <1>1 DEF Top
    <3>2. QED
      BY <1>1, <2>1, <3>1 DEF SerialInv, PostedByRank, AckedByRank
  <2>2. CASE acked' = acked \cup {hook[h].msg}
    <3>1. \A n \in notified : n.id = hook[h].msg.id /\ Rank[n.event] < Rank[hook[h].msg.event]
            => n \in acked
      BY <1>0, <1>1 DEF HookCurrent
    <3>2. QED
      BY <1>1, <1>2, <2>2, <3>1, AckedNext DEF SerialInv
  <2>3. QED
    BY <1>3, <2>1, <2>2
<1>6. CASE hook[h].status # "COMPLETED"
  BY <1>0, <1>1, <1>3, <1>4, <1>5, <1>6, HookWaits, HookActs DEF SerialInv
<1>7. CASE hook[h].status = "COMPLETED"
  <2>1. PICK k : k = [hook[h] EXCEPT !.pc = "execute"]
    OBVIOUS
  <2>2. /\ k.pc = "execute" /\ k.msg = hook[h].msg /\ k.status = hook[h].status
        /\ k.envelope = hook[h].envelope /\ hook' = [hook EXCEPT ![h] = k]
    BY <1>0, <1>3, <1>7, <2>1 DEF HookRecord
  <2>3. hook'[h] = k
    BY <1>0, <2>2 DEF TypeOK
  <2>4. /\ envelope'[k.envelope].status = "COMPLETED"
        /\ envelope'[k.envelope].providerId = envelope[k.envelope].providerId
    BY <1>0, <1>1, <1>2, <1>7, <2>2 DEF TypeOK, EnvelopeRow
  <2>5. HookCurrent(h)'
    BY <1>0, <1>1, <1>3, <1>7, <2>2, <2>3, <2>4 DEF HookCurrent
  <2>6. QED
    BY <1>0, <1>1, <1>4, <1>5, <2>2, <2>5, HookActs DEF SerialInv
<1>8. QED
  BY <1>6, <1>7

LEMMA HookExecuteCurrent ==
  ASSUME IInv, SerialInv, OneAtATime', NEW h \in Hooks, HookExecute(h) \/ HookExecuteFails(h)
  PROVE  SerialInv'
<1>0. TypeOK /\ OneAtATime /\ HookCurrent(h)
  BY DEF IInv, SerialInv
<1>1. /\ hook[h].pc = "execute" /\ acked' = acked \cup {hook[h].msg}
      /\ hook' = [hook EXCEPT ![h] = Waiting]
      /\ UNCHANGED <<provider, notified, request, envelope>>
  BY DEF HookExecute, HookExecuteFails, Acknowledge, external
<1>2. /\ hook[h].msg \in notified /\ hook[h].envelope \in Envelopes
      /\ hook[h].status = "COMPLETED"
  BY <1>1 DEF IInv, KnowledgeSound, HookTrue
<1>3. envelope' = [envelope EXCEPT ![hook[h].envelope].status = hook[h].status]
  <2>1. envelope[hook[h].envelope].status = "COMPLETED"
    BY <1>0, <1>1 DEF HookCurrent
  <2>2. QED
    BY <1>0, <1>1, <1>2, <2>1 DEF TypeOK, EnvelopeRow
<1>4. RowsFollow'
  BY <1>1, <1>2, <1>3, RowsFollowNext DEF SignatureStatus
<1>5. PostedByRank' /\ AckedByRank'
  <2>1. \A n \in notified : n.id = hook[h].msg.id /\ Rank[n.event] < Rank[hook[h].msg.event]
          => n \in acked
    BY <1>0, <1>1 DEF HookCurrent
  <2>2. QED
    BY <1>1, <1>2, <2>1, AckedNext DEF SerialInv
<1>6. QED
  BY <1>0, <1>1, <1>4, <1>5, HookWaits, HookActs DEF SerialInv

LEMMA HookGivesUpCurrent ==
  ASSUME IInv, SerialInv, OneAtATime', NEW h \in Hooks, HookRejected(h) \/ HookDies(h)
  PROVE  SerialInv'
<1>0. TypeOK /\ OneAtATime /\ Followed
  BY DEF IInv, SerialInv, Followed
<1>1. /\ hook[h].pc # "idle" /\ hook' = [hook EXCEPT ![h] = Waiting]
      /\ UNCHANGED <<provider, notified, acked, request, envelope>>
  BY DEF HookRejected, HookDies, external
<1>2. Followed'
  BY <1>0, <1>1, EventsFrame
<1>3. QED
  BY <1>0, <1>1, <1>2, HookWaits, HookActs DEF SerialInv, Followed
-----------------------------------------------------------------------------
LEMMA SerialStep == IInv /\ SerialInv /\ [SerialNext]_vars => SerialInv'
<1> SUFFICES ASSUME IInv, SerialInv, [SerialNext]_vars PROVE SerialInv'
  OBVIOUS
<1>1. CASE UNCHANGED vars
  BY <1>1 DEF vars, rows, external, delivery, SerialInv, OneAtATime, Handlers, PostedByRank,
              AckedByRank, RowsFollow, Top, Exists, RequestCurrent, HookCurrent
<1>2. CASE Next /\ InTurn
  <2>1. OneAtATime' /\ DeliveredInOrder
    BY <1>2 DEF InTurn
  <2>2. ASSUME NEW r \in Requests, Continue(r) PROVE SerialInv'
    BY <2>1, <2>2, EndsCurrent, SendsCurrent, SavesCurrent, VoidCallCurrent, VoidSaveCurrent
       DEF Continue
  <2>3. ASSUME NEW h \in Hooks, HookStep(h) PROVE SerialInv'
    BY <2>1, <2>3, HookSaveCurrent, HookExecuteCurrent, HookGivesUpCurrent DEF HookStep
  <2>4. ASSUME NEW r \in Requests, EnvelopeRequest(r) \/ ContractRequest(r) PROVE SerialInv'
    BY <2>1, <2>4, ReadsCurrent
  <2>5. ASSUME NEW p \in ProviderIds, SignerActs(p) PROVE SerialInv'
    BY <2>1, <2>5, SignersCurrent
  <2>6. ASSUME NEW m \in Message, HookRefused(m) \/ HookUnknown(m) PROVE SerialInv'
    BY <2>1, <2>6, HookRefusedCurrent, HookUnknownCurrent
  <2>7. ASSUME NEW h \in Hooks, NEW m \in Message, NEW e \in Envelopes, HookFind(h, m, e)
        PROVE  SerialInv'
    BY <2>1, <2>7, HookFindCurrent
  <2>8. QED
    BY <1>2, <2>2, <2>3, <2>4, <2>5, <2>6, <2>7 DEF Next, Requests
<1>3. QED
  BY <1>1, <1>2 DEF SerialNext

LEMMA SerialInit == Init => SerialInv
<1> SUFFICES ASSUME Init PROVE SerialInv
  OBVIOUS
<1>1. /\ \A r \in Requests : AtRest(r)
      /\ \A h \in Hooks : hook[h].pc = "idle"
  BY DEF Init, AtRest, Fresh, Waiting
<1>2. OneAtATime
  BY <1>1 DEF OneAtATime, Handlers, AtRest
<1>3. PostedByRank /\ AckedByRank
  BY DEF Init, PostedByRank, AckedByRank
<1>4. RowsFollow
  BY DEF Init, RowsFollow, Exists, NoRow
<1>5. QED
  BY <1>1, <1>2, <1>3, <1>4, RestKnowsNothing DEF SerialInv

THEOREM SerialInvariance == SerialSpec => [](IInv /\ SerialInv)
<1>1. SerialSpec => []IInv
  <2>1. [SerialNext]_vars => [Next]_vars
    BY DEF SerialNext
  <2>2. SerialSpec => Spec
    BY <2>1, PTL DEF SerialSpec, Spec
  <2>3. QED
    BY <2>2, Invariance, PTL
<1>2. QED
  BY <1>1, SerialInit, SerialStep, PTL DEF SerialSpec

(* With no handler running and no event outstanding, each row shows what its *)
(* provider envelope has come to, whichever handlers failed half-way         *)
(* (routes/signatures.ts).                                                   *)
THEOREM ProviderMirrored == SerialSpec => []MirrorsProvider
<1>1. IInv /\ SerialInv => MirrorsProvider
  <2> SUFFICES ASSUME IInv, SerialInv, Quiet, NEW e \in Envelopes, Exists(e)
               PROVE  envelope[e].status = MapStatus(provider[envelope[e].providerId])
    BY DEF MirrorsProvider
  <2>1. PICK p \in ProviderIds : p = envelope[e].providerId /\ provider[p] # "none"
    BY RowsPoint, Ranks
  <2>2. PICK m \in notified : m.id = p /\ Top(m)
    BY <2>1 DEF SerialInv, PostedByRank
  <2>3. m \in acked
    BY <2>2 DEF Quiet
  <2>4. envelope[e].status = MapStatus(m.event) /\ envelope[e].status \in SignatureStatus
    BY <2>1, <2>2, <2>3 DEF SerialInv, RowsFollow
  <2>5. m.event # "canceled"
    BY <2>4 DEF MapStatus, StatusMap, SignatureStatus
  <2>6. QED
    BY <2>1, <2>2, <2>4, <2>5 DEF SerialInv, PostedByRank
<1>2. QED
  BY <1>1, SerialInvariance, PTL
=============================================================================
