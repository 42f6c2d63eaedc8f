---------------------------- MODULE SigningSerial ----------------------------
(***************************************************************************)
(* Signing in the environment the integration tests exercise: one handler  *)
(* at a time, every provider event delivered in order and not again once   *)
(* acknowledged.  Failures and crashes between two calls remain.           *)
(***************************************************************************)
EXTENDS Signing

ASSUME SerialAssumption == Requests \cap Hooks = {}

Handlers == {r \in Requests : request[r].pc \notin {"idle", "done"}}
              \cup {h \in Hooks : hook[h].pc # "idle"}

OneAtATime == \A a, b \in Handlers : a = b

\* A delivery waits for the handler in progress and for the earlier events
\* of its envelope.
DeliveredInOrder ==
  \A m \in Message : attempts'[m] # attempts[m]
     => /\ m \notin acked
        /\ Handlers = {}
        /\ \A n \in notified : n.id = m.id /\ Rank[n.event] < Rank[m.event]
              => n \in acked

InTurn == OneAtATime' /\ DeliveredInOrder

SerialNext == Next /\ InTurn

SerialSpec == Init /\ [][SerialNext]_vars

SerialFairness ==
  /\ \A r \in Requests : WF_vars(Continue(r) /\ InTurn)
  /\ \A h \in Hooks : WF_vars(HookStep(h) /\ InTurn)
  /\ \A m \in Message : WF_vars(Deliver(m) /\ InTurn)

SerialFairSpec == SerialSpec /\ SerialFairness
-----------------------------------------------------------------------------
Quiet ==
  /\ \A r \in Requests : request[r].pc \in {"idle", "done"}
  /\ \A h \in Hooks : hook[h].pc = "idle"
  /\ notified = acked

\* With no handler running and no event outstanding, a row shows exactly
\* what its provider envelope has come to, also after handlers that failed
\* between the provider call and the database write.
MirrorsProvider ==
  Quiet => \A e \in Envelopes : Exists(e)
             => envelope[e].status = MapStatus(provider[envelope[e].providerId])
-----------------------------------------------------------------------------
(* Why they hold.  The provider posts the events of an envelope by rank, the  *)
(* last of them with the state it is in ...                                   *)
Top(m) == Rank[m.event] = Rank[provider[m.id]]

PostedByRank ==
  /\ \A m \in notified :
       /\ provider[m.id] # "none" /\ Rank[m.event] <= Rank[provider[m.id]]
       /\ Top(m) => \/ m.event = provider[m.id]
                    \/ m.event = "canceled" /\ provider[m.id] = "voided"
  /\ \A p \in ProviderIds : provider[p] # "none" => \E m \in notified : m.id = p /\ Top(m)

\* ... what has been acknowledged is a beginning of them ...
AckedByRank ==
  \A m \in acked, n \in notified :
    m.id = n.id /\ Rank[n.event] < Rank[m.event] => n \in acked

\* ... an envelope has one row, which says what the last event said ...
RowsFollow ==
  \A e \in Envelopes : Exists(e) =>
    /\ envelope[e].status \in SignatureStatus
    /\ \A m \in acked : m.id = envelope[e].providerId /\ Top(m)
         => envelope[e].status = MapStatus(m.event)
    /\ \A d \in Envelopes \ {e} :
         Exists(d) => envelope[d].providerId # envelope[e].providerId

\* ... and what the handler in progress has read is still so.
RequestCurrent(r) ==
  LET q == request[r]
  IN  /\ q.pc \in {"createSave", "resendSave"} =>
           /\ provider[q.providerId] # "none"
           /\ \A m \in acked : m.id # q.providerId
           /\ \A e \in Envelopes : Exists(e) => envelope[e].providerId # q.providerId
      /\ q.pc \in {"voidCall", "voidSave"} => envelope[q.envelope].providerId = q.providerId
      /\ q.pc = "voidSave" => provider[q.providerId] = "voided"

HookCurrent(h) ==
  LET k == hook[h] IN
  k.pc # "idle" =>
    /\ k.msg \notin acked
    /\ k.status = MapStatus(k.msg.event)
    /\ envelope[k.envelope].providerId = k.msg.id
    /\ \A n \in notified : n.id = k.msg.id /\ Rank[n.event] < Rank[k.msg.event] => n \in acked
    /\ k.pc = "execute" => envelope[k.envelope].status = "COMPLETED"

SerialInv ==
  /\ OneAtATime /\ PostedByRank /\ AckedByRank /\ RowsFollow
  /\ \A r \in Requests : RequestCurrent(r)
  /\ \A h \in Hooks : HookCurrent(h)
=============================================================================
