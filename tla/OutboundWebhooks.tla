--------------------------- MODULE OutboundWebhooks ---------------------------
(***************************************************************************)
(* Outbound webhooks of one organization: routes/webhooks.ts, the BullMQ   *)
(* queue "webhook" of queues/index.ts, its worker and deliverWebhook of    *)
(* services/webhook.service.ts.                                            *)
(*                                                                         *)
(* A job is one event.  A worker that takes it reads the webhooks that     *)
(* want the event and, one after the other, posts to each and records the  *)
(* answer.  When a call on the database fails the job throws and BullMQ    *)
(* runs it again from its start; when its worker dies or is too slow to    *)
(* renew its lock, BullMQ gives it to another.                             *)
(***************************************************************************)
EXTENDS Naturals, FiniteSets

CONSTANTS
  Hooks,        \* ids of OutboundWebhook rows, used once each
  Jobs,         \* events that are announced
  Workers,      \* jobs that may be processed at a time
  MaxAttempts,  \* attempts of DEFAULT_JOB_OPTIONS
  MaxStalls,    \* stalls that BullMQ forgives a job
  MaxFaults,    \* bound: failed calls, crashes, lost locks
  None          \* no job, hook or worker

ASSUME WebhooksAssumption ==
  /\ None \notin Hooks \cup Jobs \cup Workers
  /\ IsFiniteSet(Workers)
  /\ MaxAttempts \in Nat \ {0} /\ MaxStalls \in Nat /\ MaxFaults \in Nat

VARIABLES
  hook,       \* OutboundWebhook rows; "on": active and subscribed to the event
  job,        \* what Redis knows of each job
  worker,     \* what each worker is doing
  owed,       \* history: hooks that were on since the job was added
  received,   \* requests that the endpoint of a hook got for a job
  recorded,   \* OutboundWebhookDelivery rows
  succeeded,  \* those of them with success
  faults

vars == <<hook, job, worker, owed, received, recorded, succeeded, faults>>

Job == [state    : {"none", "waiting", "active", "completed", "failed"},
        attempts : 0 .. MaxAttempts,    \* attemptsMade
        stalls   : 0 .. MaxStalls + 1,
        holder   : Workers \cup {None}] \* whose lock it is

Worker == [pc   : {"idle", "find", "post", "record"},
           job  : Jobs \cup {None},
           todo : SUBSET Hooks,         \* of the loop, not yet posted to
           hook : Hooks \cup {None},
           ok   : BOOLEAN]              \* success

Idle == [pc |-> "idle", job |-> None, todo |-> {}, hook |-> None, ok |-> FALSE]

Counts == [Jobs -> [Hooks -> Nat]]

TypeOK ==
  /\ hook \in [Hooks -> {"none", "on", "off", "deleted"}]
  /\ job \in [Jobs -> Job]
  /\ worker \in [Workers -> Worker]
  /\ owed \in [Jobs -> SUBSET Hooks]
  /\ received \in Counts /\ recorded \in Counts /\ succeeded \in Counts
  /\ faults \in Nat

Init ==
  /\ hook = [h \in Hooks |-> "none"]
  /\ job = [j \in Jobs |->
              [state |-> "none", attempts |-> 0, stalls |-> 0, holder |-> None]]
  /\ worker = [w \in Workers |-> Idle]
  /\ owed = [j \in Jobs |-> {}]
  /\ received = [j \in Jobs |-> [h \in Hooks |-> 0]]
  /\ recorded = [j \in Jobs |-> [h \in Hooks |-> 0]]
  /\ succeeded = [j \in Jobs |-> [h \in Hooks |-> 0]]
  /\ faults = 0

Fault == faults < MaxFaults /\ faults' = faults + 1
Becomes(w, k) == worker' = [worker EXCEPT ![w] = k]
Counted(c, j, h) == [c EXCEPT ![j] = [c[j] EXCEPT ![h] = @ + 1]]
Without(c, h) == [j \in Jobs |-> [c[j] EXCEPT ![h] = 0]]
deliveries == <<received, recorded, succeeded>>
-----------------------------------------------------------------------------
(* Owners and admins *)

Register(h) ==
  /\ hook[h] = "none"
  /\ hook' = [hook EXCEPT ![h] = "on"]
  /\ UNCHANGED <<job, worker, owed, deliveries, faults>>

\* PATCH of isActive or of the list of events.
Toggle(h) ==
  /\ hook[h] \in {"on", "off"}
  /\ hook' = [hook EXCEPT ![h] = IF hook[h] = "on" THEN "off" ELSE "on"]
  /\ owed' = [j \in Jobs |-> owed[j] \ {h}]
  /\ UNCHANGED <<job, worker, deliveries, faults>>

\* DELETE; the records of its deliveries go with it.
Remove(h) ==
  /\ hook[h] \in {"on", "off"}
  /\ hook' = [hook EXCEPT ![h] = "deleted"]
  /\ owed' = [j \in Jobs |-> owed[j] \ {h}]
  /\ recorded' = Without(recorded, h) /\ succeeded' = Without(succeeded, h)
  /\ UNCHANGED <<job, worker, received, faults>>

\* webhookQueue.add, when Redis takes it; when not, the event is dropped.
Announce(j) ==
  /\ job[j].state = "none"
  /\ job' = [job EXCEPT ![j] = [@ EXCEPT !.state = "waiting"]]
  /\ owed' = [owed EXCEPT ![j] = {h \in Hooks : hook[h] = "on"}]
  /\ UNCHANGED <<hook, worker, deliveries, faults>>
-----------------------------------------------------------------------------
(* BullMQ *)

Take(w, j) ==
  /\ job[j].state = "waiting" /\ worker[w].pc = "idle"
  /\ job' = [job EXCEPT ![j] = [@ EXCEPT !.state = "active", !.holder = w]]
  /\ Becomes(w, [Idle EXCEPT !.pc = "find", !.job = j])
  /\ UNCHANGED <<hook, owed, deliveries, faults>>

Holds(w) == job[worker[w].job].state = "active" /\ job[worker[w].job].holder = w

\* A job that threw is tried again as long as it has attempts left.
Thrown(j) == [job[j] EXCEPT
                !.state = IF job[j].attempts + 1 < MaxAttempts
                          THEN "waiting" ELSE "failed",
                !.holder = None,
                !.attempts = job[j].attempts + 1]

\* The processor ended by throwing; without the lock BullMQ ignores it.
Throws(w) ==
  /\ Becomes(w, Idle)
  /\ job' = IF Holds(w)
            THEN [job EXCEPT ![worker[w].job] = Thrown(worker[w].job)]
            ELSE job

\* The processor returned.
Finish(w) ==
  /\ worker[w].pc = "post" /\ worker[w].todo = {}
  /\ Becomes(w, Idle)
  /\ job' = IF Holds(w)
            THEN [job EXCEPT ![worker[w].job] = [@ EXCEPT !.state = "completed"]]
            ELSE job
  /\ UNCHANGED <<hook, owed, deliveries, faults>>

\* The lock of a job ran out.
Stalled(j) == [job[j] EXCEPT
                 !.state = IF job[j].stalls < MaxStalls THEN "waiting" ELSE "failed",
                 !.holder = None,
                 !.stalls = job[j].stalls + 1]

Abandoned(j) ==
  job[j].state = "active" /\ \A w \in Workers : job[j].holder = w => worker[w].job # j

Recover(j) ==
  /\ Abandoned(j)
  /\ job' = [job EXCEPT ![j] = Stalled(j)]
  /\ UNCHANGED <<hook, worker, owed, deliveries, faults>>

\* The worker is alive and goes on, and does not know.
LoseLock(j) ==
  /\ job[j].state = "active" /\ ~Abandoned(j)
  /\ job' = [job EXCEPT ![j] = Stalled(j)]
  /\ Fault
  /\ UNCHANGED <<hook, worker, owed, deliveries>>

Dies(w) ==
  /\ worker[w].pc # "idle"
  /\ Becomes(w, Idle)
  /\ Fault
  /\ UNCHANGED <<hook, job, owed, deliveries>>
-----------------------------------------------------------------------------
(* deliverWebhook *)

\* Mutant: a job that finds no webhook waits for one.
FindWaits(w) ==
  /\ worker[w].pc = "find"
  /\ \E h \in Hooks : hook[h] = "on"
  /\ Becomes(w, [worker[w] EXCEPT !.pc = "post", !.todo = {h \in Hooks : hook[h] = "on"}])
  /\ UNCHANGED <<hook, job, owed, deliveries, faults>>

Find(w) ==
  /\ worker[w].pc = "find"
  /\ Becomes(w, [worker[w] EXCEPT !.pc = "post", !.todo = {h \in Hooks : hook[h] = "on"}])
  /\ UNCHANGED <<hook, job, owed, deliveries, faults>>

\* Mutant: a webhook is posted to until it answers well.
PostUntilOk(w, h) ==
  /\ worker[w].pc = "post" /\ h \in worker[w].todo
  /\ \E got, ok \in BOOLEAN :
       /\ ok => got
       /\ received' = IF got THEN Counted(received, worker[w].job, h) ELSE received
       /\ Becomes(w, [worker[w] EXCEPT !.pc = IF ok THEN "record" ELSE "post",
                                       !.hook = h, !.ok = ok,
                                       !.todo = IF ok THEN @ \ {h} ELSE @])
  /\ UNCHANGED <<hook, job, owed, recorded, succeeded, faults>>

\* fetch: the endpoint may get the request, and if so may answer 2xx in time.
\* The webhook is the one that was read, whatever has become of it since.
Post(w, h) ==
  /\ worker[w].pc = "post" /\ h \in worker[w].todo
  /\ \E got, ok \in BOOLEAN :
       /\ ok => got
       /\ received' = IF got THEN Counted(received, worker[w].job, h) ELSE received
       /\ Becomes(w, [worker[w] EXCEPT !.pc = "record", !.hook = h, !.ok = ok,
                                       !.todo = @ \ {h}])
  /\ UNCHANGED <<hook, job, owed, recorded, succeeded, faults>>

\* Mutant: success is what is hoped for.
RecordHopeful(w) ==
  /\ worker[w].pc = "record" /\ hook[worker[w].hook] \in {"on", "off"}
  /\ recorded' = Counted(recorded, worker[w].job, worker[w].hook)
  /\ succeeded' = Counted(succeeded, worker[w].job, worker[w].hook)
  /\ Becomes(w, [worker[w] EXCEPT !.pc = "post", !.hook = None, !.ok = FALSE])
  /\ UNCHANGED <<hook, job, owed, received, faults>>

Record(w) ==
  /\ worker[w].pc = "record" /\ hook[worker[w].hook] \in {"on", "off"}
  /\ recorded' = Counted(recorded, worker[w].job, worker[w].hook)
  /\ succeeded' = IF worker[w].ok
                  THEN Counted(succeeded, worker[w].job, worker[w].hook)
                  ELSE succeeded
  /\ Becomes(w, [worker[w] EXCEPT !.pc = "post", !.hook = None, !.ok = FALSE])
  /\ UNCHANGED <<hook, job, owed, received, faults>>

\* The row of the webhook is gone and the foreign key refuses the record.
RecordRefused(w) ==
  /\ worker[w].pc = "record" /\ hook[worker[w].hook] = "deleted"
  /\ Throws(w)
  /\ UNCHANGED <<hook, owed, deliveries, faults>>

\* Mutant: a record that could not be written is skipped.
CallFailsSkipped(w) ==
  /\ worker[w].pc \in {"find", "record"}
  /\ Fault
  /\ Becomes(w, [worker[w] EXCEPT !.pc = "post"])
  /\ UNCHANGED <<hook, job, owed, deliveries>>

\* The database does not answer.
CallFails(w) ==
  /\ worker[w].pc \in {"find", "record"}
  /\ Fault
  /\ Throws(w)
  /\ UNCHANGED <<hook, owed, deliveries>>
-----------------------------------------------------------------------------
WorkerStep(w) ==
  \/ Find(w) \/ Record(w) \/ RecordRefused(w) \/ Finish(w)
  \/ \E h \in Hooks : Post(w, h)

Next ==
  \/ \E h \in Hooks : Register(h) \/ Toggle(h) \/ Remove(h)
  \/ \E j \in Jobs : Announce(j) \/ Recover(j) \/ LoseLock(j)
  \/ \E w \in Workers : WorkerStep(w) \/ CallFails(w) \/ Dies(w)
  \/ \E w \in Workers, j \in Jobs : Take(w, j)

Spec == Init /\ [][Next]_vars

\* A waiting job is taken, a worker goes on, and BullMQ looks for stalled jobs.
FairSpec ==
  /\ Spec
  /\ \A j \in Jobs : WF_vars(\E w \in Workers : Take(w, j)) /\ WF_vars(Recover(j))
  /\ \A w \in Workers : WF_vars(WorkerStep(w))
-----------------------------------------------------------------------------
(* Properties *)

\* "5 attempts max": an endpoint gets an event at most once for every attempt
\* and every stall that is forgiven, though a job that throws starts over and
\* a worker that lost its lock goes on.
DeliveriesBounded ==
  \A j \in Jobs, h \in Hooks : received[j][h] <= MaxAttempts + MaxStalls

\* A delivery that is recorded as a success was received.
RecordedTruly ==
  \A j \in Jobs, h \in Hooks : succeeded[j][h] <= received[j][h]

\* "Write WebhookDelivery record for every attempt": when a job is completed,
\* each webhook that wanted its event from the start has one.
CompletedIsAttempted ==
  \A j \in Jobs : job[j].state = "completed" =>
    \A h \in owed[j] : recorded[j][h] > 0

Over(j) == job[j].state \in {"completed", "failed"}

\* Every announced event comes to an end.
JobEnds == \A j \in Jobs : job[j].state = "waiting" ~> Over(j)
-----------------------------------------------------------------------------
\* Why these hold.  A job is taken once for every attempt, stall and current
\* or last run, and each time it is taken a webhook is posted to at most once.
Runs(j) == job[j].attempts + job[j].stalls
             + (IF job[j].state \in {"active", "completed"} THEN 1 ELSE 0)

Posting(j, h) == {w \in Workers :
                    /\ worker[w].job = j
                    /\ worker[w].pc = "find" \/ h \in worker[w].todo}

Accounted ==
  \A j \in Jobs, h \in Hooks :
    received[j][h] + Cardinality(Posting(j, h)) <= Runs(j)

\* How far the counters of a job in each state can be.
Limits ==
  \A j \in Jobs :
    /\ job[j].state # "failed" =>
         job[j].attempts < MaxAttempts /\ job[j].stalls <= MaxStalls
    /\ job[j].state = "failed" =>
         \/ job[j].attempts = MaxAttempts /\ job[j].stalls <= MaxStalls
         \/ job[j].attempts < MaxAttempts /\ job[j].stalls = MaxStalls + 1

Owing ==
  /\ \A j \in Jobs :
       /\ \A h \in owed[j] : hook[h] = "on"
       /\ job[j].state = "none" => owed[j] = {}
  /\ \A w \in Workers :
       \/ worker[w] = Idle
       \/ /\ worker[w].pc # "idle"
          /\ worker[w].job \in Jobs /\ job[worker[w].job].state # "none"
          /\ worker[w].pc = "record" => worker[w].hook \in Hooks
          /\ \A h \in owed[worker[w].job] :
               \/ worker[w].pc = "find" \/ h \in worker[w].todo
               \/ worker[w].pc = "record" /\ worker[w].hook = h
               \/ recorded[worker[w].job][h] > 0

\* A success that is not recorded yet has been received.
Recording(j, h) == {w \in Workers :
                      /\ worker[w].pc = "record" /\ worker[w].ok
                      /\ worker[w].job = j /\ worker[w].hook = h}

Truthful ==
  \A j \in Jobs, h \in Hooks :
    succeeded[j][h] + Cardinality(Recording(j, h)) <= received[j][h]

IInv ==
  /\ TypeOK
  /\ Accounted
  /\ Limits
  /\ Owing
  /\ Truthful
  /\ CompletedIsAttempted
=============================================================================
