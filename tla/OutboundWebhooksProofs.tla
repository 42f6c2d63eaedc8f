------------------------ MODULE OutboundWebhooksProofs ------------------------
(***************************************************************************)
(* Outbound webhooks for every set of webhooks and events, every finite    *)
(* number of workers, and every limit of attempts and stalls.              *)
(***************************************************************************)
EXTENDS OutboundWebhooks, FiniteSetTheorems, TLAPS

(* The runs that a job has had, and how far its counters may be. *)
RunsOf(q) == q.attempts + q.stalls
               + (IF q.state \in {"active", "completed"} THEN 1 ELSE 0)

Within(q) ==
  /\ q.state # "failed" => q.attempts < MaxAttempts /\ q.stalls <= MaxStalls
  /\ q.state = "failed" =>
       \/ q.attempts = MaxAttempts /\ q.stalls <= MaxStalls
       \/ q.attempts < MaxAttempts /\ q.stalls = MaxStalls + 1

(* Sets of workers are finite, and are counted in Nat. *)
LEMMA CountedInNat ==
  ASSUME NEW j \in Jobs, NEW h \in Hooks
  PROVE  /\ IsFiniteSet(Posting(j, h)) /\ Cardinality(Posting(j, h)) \in Nat
         /\ IsFiniteSet(Recording(j, h)) /\ Cardinality(Recording(j, h)) \in Nat
<1>1. Posting(j, h) \in SUBSET Workers /\ Recording(j, h) \in SUBSET Workers
  BY DEF Posting, Recording
<1>2. IsFiniteSet(Workers)
  BY WebhooksAssumption
<1>3. IsFiniteSet(Posting(j, h)) /\ IsFiniteSet(Recording(j, h))
  BY <1>1, <1>2, FS_Subset
<1>4. QED
  BY <1>3, FS_CardinalityType

(* A subset has no more members, and one fewer if it lacks one. *)
LEMMA Fewer ==
  ASSUME NEW S, IsFiniteSet(S), NEW T \in SUBSET S
  PROVE  /\ Cardinality(T) \in Nat /\ Cardinality(T) <= Cardinality(S)
         /\ \A t \in S \ T : Cardinality(T) + 1 <= Cardinality(S)
<1>1. IsFiniteSet(T) /\ Cardinality(T) <= Cardinality(S)
  BY FS_Subset
<1>2. Cardinality(T) \in Nat /\ Cardinality(S) \in Nat
  BY <1>1, FS_CardinalityType
<1>3. ASSUME NEW t \in S \ T PROVE Cardinality(T) + 1 <= Cardinality(S)
  <2>1. Cardinality(T \cup {t}) = Cardinality(T) + 1
    BY <1>1, <1>3, FS_AddElement
  <2>2. T \cup {t} \in SUBSET S
    BY <1>3
  <2>3. Cardinality(T \cup {t}) <= Cardinality(S)
    BY <2>2, FS_Subset
  <2>4. QED
    BY <2>1, <2>3
<1>4. QED
  BY <1>1, <1>2, <1>3

(* Runs of a job are counted in Nat. *)
LEMMA RunsInNat ==
  ASSUME TypeOK, NEW j \in Jobs
  PROVE  Runs(j) \in Nat /\ Runs(j) = RunsOf(job[j])
<1>1. job[j].attempts \in Nat /\ job[j].stalls \in Nat
  BY WebhooksAssumption DEF TypeOK, Job
<1>2. QED
  BY <1>1 DEF Runs, RunsOf

(* A job that changes keeps its account. *)
LEMMA JobTo ==
  ASSUME IInv, NEW j \in Jobs, NEW q \in Job, job' = [job EXCEPT ![j] = q],
         RunsOf(q) = RunsOf(job[j]), Within(q)
  PROVE  /\ job' \in [Jobs -> Job] /\ Limits'
         /\ \A i \in Jobs : Runs(i)' = Runs(i)
         /\ job'[j] = q /\ \A i \in Jobs \ {j} : job'[i] = job[i]
<1>1. job' \in [Jobs -> Job]
  BY DEF IInv, TypeOK
<1>2. job'[j] = q /\ \A i \in Jobs \ {j} : job'[i] = job[i]
  BY DEF IInv, TypeOK
<1>3. Limits'
  BY <1>2 DEF IInv, Limits, Within
<1>4. ASSUME NEW i \in Jobs PROVE Runs(i)' = Runs(i)
  BY <1>2 DEF Runs, RunsOf
<1>5. QED
  BY <1>1, <1>2, <1>3, <1>4

(* Steps that post nothing and record no success leave the accounts right. *)
LEMMA Quiet ==
  ASSUME IInv, TypeOK', NEW j \in Jobs, NEW h \in Hooks,
         received'[j][h] = received[j][h],
         succeeded'[j][h] <= succeeded[j][h],
         Posting(j, h)' \subseteq Posting(j, h),
         Recording(j, h)' \subseteq Recording(j, h),
         Runs(j)' = Runs(j)
  PROVE  /\ received'[j][h] + Cardinality(Posting(j, h)') <= Runs(j)'
         /\ succeeded'[j][h] + Cardinality(Recording(j, h)') <= received'[j][h]
<1>1. /\ received[j][h] \in Nat /\ succeeded[j][h] \in Nat /\ succeeded'[j][h] \in Nat
      /\ Runs(j) \in Nat
  BY RunsInNat DEF IInv, TypeOK, Counts
<1>2. /\ received[j][h] + Cardinality(Posting(j, h)) <= Runs(j)
      /\ succeeded[j][h] + Cardinality(Recording(j, h)) <= received[j][h]
  BY DEF IInv, Accounted, Truthful
<1>3. PICK P : P = Posting(j, h)'
  OBVIOUS
<1>4. PICK R : R = Recording(j, h)'
  OBVIOUS
<1>5. /\ Cardinality(P) \in Nat /\ Cardinality(P) <= Cardinality(Posting(j, h))
      /\ Cardinality(R) \in Nat /\ Cardinality(R) <= Cardinality(Recording(j, h))
  <2>1. P \in SUBSET Posting(j, h) /\ R \in SUBSET Recording(j, h)
    BY <1>3, <1>4
  <2>2. QED
    BY <2>1, CountedInNat, Fewer
<1>6. Cardinality(Posting(j, h)) \in Nat /\ Cardinality(Recording(j, h)) \in Nat
  BY CountedInNat
<1>7. received[j][h] + Cardinality(P) <= Runs(j)
  BY <1>1, <1>2, <1>5, <1>6
<1>8. succeeded'[j][h] + Cardinality(R) <= received[j][h]
  BY <1>1, <1>2, <1>5, <1>6
<1>9. QED
  BY <1>3, <1>4, <1>7, <1>8

(* What a worker is doing, when it does something. *)
LEMMA Busy ==
  ASSUME IInv, NEW w \in Workers, worker[w].pc # "idle"
  PROVE  /\ worker[w] \in Worker
         /\ worker[w].job \in Jobs /\ job[worker[w].job].state # "none"
         /\ worker[w].pc = "record" => worker[w].hook \in Hooks
         /\ \A h \in owed[worker[w].job] :
              \/ worker[w].pc = "find" \/ h \in worker[w].todo
              \/ worker[w].pc = "record" /\ worker[w].hook = h
              \/ recorded[worker[w].job][h] > 0
<1>1. worker[w] # Idle
  BY DEF Idle
<1>2. QED
  BY <1>1 DEF IInv, TypeOK, Owing

-----------------------------------------------------------------------------
(* Owners and admins *)

(* A step that takes webhooks from what is owed, and changes no worker or job. *)
LEMMA HookChange ==
  ASSUME IInv, UNCHANGED <<job, worker, received, faults>>, TypeOK',
         \A j \in Jobs : owed'[j] \subseteq owed[j],
         \A j \in Jobs : \A h \in owed'[j] :
            /\ hook'[h] = "on"
            /\ recorded[j][h] > 0 => recorded'[j][h] > 0,
         \A j \in Jobs, h \in Hooks : succeeded'[j][h] <= succeeded[j][h]
  PROVE  IInv'
<1>1. \A j \in Jobs, h \in Hooks :
        Posting(j, h)' = Posting(j, h) /\ Recording(j, h)' = Recording(j, h)
  BY DEF Posting, Recording
<1>2. \A j \in Jobs : Runs(j)' = Runs(j)
  BY DEF Runs
<1>3. Accounted' /\ Truthful'
  BY <1>1, <1>2, Quiet DEF Accounted, Truthful
<1>4. Limits'
  BY DEF IInv, Limits
<1>5. Owing'
  <2>1. \A j \in Jobs : /\ \A h \in owed'[j] : hook'[h] = "on"
                        /\ job'[j].state = "none" => owed'[j] = {}
    BY DEF IInv, Owing
  <2>2. ASSUME NEW w \in Workers, worker[w].pc # "idle"
        PROVE  \A h \in owed'[worker[w].job] :
                 \/ worker[w].pc = "find" \/ h \in worker[w].todo
                 \/ worker[w].pc = "record" /\ worker[w].hook = h
                 \/ recorded'[worker[w].job][h] > 0
    BY <2>2, Busy
  <2>3. \A w \in Workers :
          worker[w].pc # "idle" =>
            /\ worker[w].job \in Jobs /\ job[worker[w].job].state # "none"
            /\ worker[w].pc = "record" => worker[w].hook \in Hooks
    BY Busy
  <2>4. \A w \in Workers : worker[w] = Idle \/ worker[w].pc # "idle"
    BY DEF IInv, Owing
  <2>5. QED
    BY <2>1, <2>2, <2>3, <2>4 DEF Owing, Idle
<1>6. CompletedIsAttempted'
  BY DEF IInv, CompletedIsAttempted
<1>7. QED
  BY <1>3, <1>4, <1>5, <1>6 DEF IInv

LEMMA UserInv ==
  ASSUME IInv, NEW h \in Hooks, Register(h) \/ Toggle(h) \/ Remove(h)
  PROVE  IInv'
<1>0. /\ hook \in [Hooks -> {"none", "on", "off", "deleted"}]
      /\ owed \in [Jobs -> SUBSET Hooks]
      /\ recorded \in Counts /\ succeeded \in Counts
  BY DEF IInv, TypeOK
<1>1. \A j \in Jobs : \A g \in owed[j] : g \in Hooks /\ hook[g] = "on"
  BY <1>0 DEF IInv, Owing
<1>2. CASE Register(h)
  <2>1. hook[h] = "none" /\ hook' = [hook EXCEPT ![h] = "on"]
        /\ UNCHANGED <<job, worker, owed, received, recorded, succeeded, faults>>
    BY <1>2 DEF Register, deliveries
  <2>2. TypeOK'
    BY <2>1 DEF IInv, TypeOK
  <2>3. \A g \in Hooks : hook[g] = "on" => hook'[g] = "on"
    BY <1>0, <2>1
  <2>4. \A j \in Jobs, g \in Hooks : succeeded[j][g] \in Nat
    BY <1>0 DEF Counts
  <2>5. QED
    BY <1>1, <2>1, <2>2, <2>3, <2>4, HookChange
<1>3. CASE Toggle(h) \/ Remove(h)
  <2>1. /\ owed' = [j \in Jobs |-> owed[j] \ {h}]
        /\ UNCHANGED <<job, worker, received, faults>>
        /\ \A g \in Hooks \ {h} : hook'[g] = hook[g]
        /\ hook' \in [Hooks -> {"none", "on", "off", "deleted"}]
    BY <1>0, <1>3 DEF Toggle, Remove, deliveries
  <2>2. /\ recorded' \in Counts /\ succeeded' \in Counts
        /\ \A j \in Jobs : \A g \in Hooks \ {h} : recorded'[j][g] = recorded[j][g]
        /\ \A j \in Jobs, g \in Hooks : succeeded'[j][g] <= succeeded[j][g]
    <3>1. \A j \in Jobs, g \in Hooks : succeeded[j][g] \in Nat
      BY <1>0 DEF Counts
    <3>2. CASE Toggle(h)
      BY <1>0, <3>1, <3>2 DEF Toggle, deliveries
    <3>3. CASE Remove(h)
      BY <1>0, <3>1, <3>3 DEF Remove, Without, Counts
    <3>4. QED
      BY <1>3, <3>2, <3>3
  <2>3. owed' \in [Jobs -> SUBSET Hooks] /\ \A j \in Jobs : owed'[j] = owed[j] \ {h}
    BY <1>0, <2>1
  <2>4. TypeOK'
    BY <2>1, <2>2, <2>3 DEF IInv, TypeOK
  <2>5. QED
    BY <1>1, <2>1, <2>2, <2>3, <2>4, HookChange
<1>4. QED
  BY <1>2, <1>3

-----------------------------------------------------------------------------
(* BullMQ *)

(* A job changes, keeps its account, and some workers come to an end. *)
LEMMA JobStep ==
  ASSUME IInv, UNCHANGED <<hook, owed, received, recorded, succeeded>>, faults' \in Nat,
         NEW j \in Jobs, NEW q \in Job, job' = [job EXCEPT ![j] = q],
         RunsOf(q) = RunsOf(job[j]), Within(q), q.state # "none",
         q.state = "completed" => \A h \in owed[j] : recorded[j][h] > 0,
         worker' \in [Workers -> Worker],
         \A w \in Workers : worker'[w] \in {worker[w], Idle}
  PROVE  IInv'
<1>1. /\ job' \in [Jobs -> Job] /\ Limits'
      /\ \A i \in Jobs : Runs(i)' = Runs(i)
      /\ job'[j] = q /\ \A i \in Jobs \ {j} : job'[i] = job[i]
  BY JobTo
<1>2. TypeOK'
  BY <1>1 DEF IInv, TypeOK
<1>3. \A i \in Jobs, h \in Hooks :
        /\ Posting(i, h)' \subseteq Posting(i, h)
        /\ Recording(i, h)' \subseteq Recording(i, h)
  BY DEF Posting, Recording, Idle
<1>4. \A i \in Jobs, h \in Hooks : succeeded'[i][h] <= succeeded[i][h]
  BY DEF IInv, TypeOK, Counts
<1>5. Accounted' /\ Truthful'
  BY <1>1, <1>2, <1>3, <1>4, Quiet DEF Accounted, Truthful
<1>6. Owing'
  <2>1. \A i \in Jobs : /\ \A h \in owed[i] : hook[h] = "on"
                        /\ job'[i].state = "none" => owed[i] = {}
    BY <1>1 DEF IInv, Owing
  <2>2. ASSUME NEW w \in Workers, worker'[w] # Idle
        PROVE  /\ worker'[w].pc # "idle"
               /\ worker'[w].job \in Jobs /\ job'[worker'[w].job].state # "none"
               /\ worker'[w].pc = "record" => worker'[w].hook \in Hooks
               /\ \A h \in owed[worker'[w].job] :
                    \/ worker'[w].pc = "find" \/ h \in worker'[w].todo
                    \/ worker'[w].pc = "record" /\ worker'[w].hook = h
                    \/ recorded[worker'[w].job][h] > 0
    <3>1. worker'[w] = worker[w] /\ worker[w] # Idle
      BY <2>2
    <3>2. worker[w].pc # "idle"
      BY <3>1 DEF IInv, Owing
    <3>3. worker[w].job \in Jobs /\ job[worker[w].job].state # "none"
      BY <3>2, Busy
    <3>4. job'[worker[w].job].state # "none"
      BY <1>1, <3>3
    <3>5. QED
      BY <3>1, <3>2, <3>3, <3>4, Busy
  <2>3. QED
    BY <2>1, <2>2 DEF Owing
<1>7. CompletedIsAttempted'
  BY <1>1 DEF IInv, CompletedIsAttempted
<1>8. QED
  BY <1>1, <1>2, <1>5, <1>6, <1>7 DEF IInv

(* A job that throws, and one whose lock ran out, keep their account. *)
LEMMA ThrownKeeps ==
  ASSUME IInv, NEW j \in Jobs, job[j].state = "active"
  PROVE  /\ Thrown(j) \in Job /\ RunsOf(Thrown(j)) = RunsOf(job[j]) /\ Within(Thrown(j))
         /\ Thrown(j).state \in {"waiting", "failed"}
         /\ Stalled(j) \in Job /\ RunsOf(Stalled(j)) = RunsOf(job[j])
         /\ Within(Stalled(j)) /\ Stalled(j).state \in {"waiting", "failed"}
<1>1. /\ job[j] \in Job
      /\ job[j].attempts \in Nat /\ job[j].stalls \in Nat
      /\ job[j].attempts < MaxAttempts /\ job[j].stalls <= MaxStalls
      /\ MaxAttempts \in Nat /\ MaxStalls \in Nat
  BY WebhooksAssumption DEF IInv, TypeOK, Job, Limits
<1>2. /\ Thrown(j).attempts = job[j].attempts + 1 /\ Thrown(j).stalls = job[j].stalls
      /\ Thrown(j).holder = None
      /\ Thrown(j).state = IF job[j].attempts + 1 < MaxAttempts THEN "waiting" ELSE "failed"
  BY <1>1 DEF Thrown, Job
<1>3. /\ Stalled(j).stalls = job[j].stalls + 1 /\ Stalled(j).attempts = job[j].attempts
      /\ Stalled(j).holder = None
      /\ Stalled(j).state = IF job[j].stalls < MaxStalls THEN "waiting" ELSE "failed"
  BY <1>1 DEF Stalled, Job
<1>4. Thrown(j) \in Job /\ Stalled(j) \in Job
  <2>1. job[j].attempts + 1 \in 0 .. MaxAttempts /\ job[j].stalls + 1 \in 0 .. MaxStalls + 1
    BY <1>1
  <2>2. QED
    BY <1>1, <2>1 DEF Thrown, Stalled, Job
<1>5. RunsOf(Thrown(j)) = RunsOf(job[j]) /\ RunsOf(Stalled(j)) = RunsOf(job[j])
  BY <1>1, <1>2, <1>3 DEF RunsOf
<1>6. Within(Thrown(j)) /\ Within(Stalled(j))
  BY <1>1, <1>2, <1>3 DEF Within
<1>7. QED
  BY <1>2, <1>3, <1>4, <1>5, <1>6

LEMMA StallInv ==
  ASSUME IInv, NEW j \in Jobs, Recover(j) \/ LoseLock(j)
  PROVE  IInv'
<1>1. /\ job[j].state = "active" /\ job' = [job EXCEPT ![j] = Stalled(j)]
      /\ UNCHANGED <<hook, worker, owed, received, recorded, succeeded>>
  BY DEF Recover, LoseLock, Abandoned, deliveries
<1>2. faults' \in Nat /\ worker' \in [Workers -> Worker]
  BY <1>1 DEF Recover, LoseLock, Fault, IInv, TypeOK
<1>3. QED
  BY <1>1, <1>2, ThrownKeeps, JobStep

(* A run that ends, well or not, with or without the lock. *)
LEMMA EndInv ==
  ASSUME IInv, NEW w \in Workers, worker[w].pc # "idle", Becomes(w, Idle),
         UNCHANGED <<hook, owed, received, recorded, succeeded>>, faults' \in Nat,
         \/ job' = job
         \/ Holds(w) /\ job' = [job EXCEPT ![worker[w].job] = Thrown(worker[w].job)]
         \/ /\ Holds(w) /\ worker[w].pc = "post" /\ worker[w].todo = {}
            /\ job' = [job EXCEPT ![worker[w].job] = [@ EXCEPT !.state = "completed"]]
  PROVE  IInv'
<1>1. PICK j \in Jobs : j = worker[w].job
  BY Busy
<1>2. /\ job[j] \in Job /\ job[j].state # "none"
      /\ Holds(w) => job[j].state = "active"
  BY <1>1, Busy DEF Holds, IInv, TypeOK
<1>3. /\ worker' \in [Workers -> Worker]
      /\ \A v \in Workers : worker'[v] \in {worker[v], Idle}
  <2>1. Idle \in Worker
    BY DEF Idle, Worker
  <2>2. QED
    BY <2>1 DEF Becomes, IInv, TypeOK
<1>4. CASE job' = job
  <2>1. job' = [job EXCEPT ![j] = job[j]]
    BY <1>4 DEF IInv, TypeOK
  <2>2. Within(job[j])
    BY DEF Within, IInv, Limits
  <2>3. job[j].state = "completed" => \A h \in owed[j] : recorded[j][h] > 0
    BY DEF IInv, CompletedIsAttempted
  <2>4. QED
    BY <1>2, <1>3, <2>1, <2>2, <2>3, JobStep
<1>5. CASE Holds(w) /\ job' = [job EXCEPT ![j] = Thrown(j)]
  BY <1>2, <1>3, <1>5, ThrownKeeps, JobStep
<1>6. CASE /\ Holds(w) /\ worker[w].pc = "post" /\ worker[w].todo = {}
           /\ job' = [job EXCEPT ![j] = [@ EXCEPT !.state = "completed"]]
  <2> DEFINE q == [job[j] EXCEPT !.state = "completed"]
  <2>1. /\ q \in Job /\ q.state = "completed"
        /\ q.attempts = job[j].attempts /\ q.stalls = job[j].stalls
    BY <1>2 DEF Job
  <2>2. job[j].state = "active"
    BY <1>2, <1>6
  <2>3. RunsOf(q) = RunsOf(job[j])
    BY <2>1, <2>2 DEF RunsOf
  <2>4. Within(q)
    BY <2>1, <2>2 DEF Within, IInv, Limits
  <2>5. \A h \in owed[j] : recorded[j][h] > 0
    BY <1>1, <1>6, Busy
  <2>6. job' = [job EXCEPT ![j] = q]
    BY <1>6
  <2> HIDE DEF q
  <2>7. QED
    BY <1>3, <2>1, <2>3, <2>4, <2>5, <2>6, JobStep
<1>7. QED
  BY <1>1, <1>4, <1>5, <1>6

LEMMA EndingInv ==
  ASSUME IInv, NEW w \in Workers,
         Finish(w) \/ RecordRefused(w) \/ CallFails(w) \/ Dies(w)
  PROVE  IInv'
<1>1. /\ worker[w].pc # "idle" /\ Becomes(w, Idle)
      /\ UNCHANGED <<hook, owed, received, recorded, succeeded>>
  BY DEF Finish, RecordRefused, CallFails, Dies, Throws, deliveries
<1>2. faults' \in Nat
  BY DEF Finish, RecordRefused, CallFails, Dies, Fault, IInv, TypeOK
<1>3. \/ job' = job
      \/ Holds(w) /\ job' = [job EXCEPT ![worker[w].job] = Thrown(worker[w].job)]
      \/ /\ Holds(w) /\ worker[w].pc = "post" /\ worker[w].todo = {}
         /\ job' = [job EXCEPT ![worker[w].job] = [@ EXCEPT !.state = "completed"]]
  BY DEF Finish, RecordRefused, CallFails, Dies, Throws
<1>4. QED
  BY <1>1, <1>2, <1>3, EndInv

LEMMA AnnounceInv ==
  ASSUME IInv, NEW j \in Jobs, Announce(j)
  PROVE  IInv'
<1> DEFINE q == [job[j] EXCEPT !.state = "waiting"]
           on == {h \in Hooks : hook[h] = "on"}
<1>1. /\ job[j].state = "none" /\ job' = [job EXCEPT ![j] = q]
      /\ owed' = [owed EXCEPT ![j] = on]
      /\ UNCHANGED <<hook, worker, received, recorded, succeeded, faults>>
  BY DEF Announce, deliveries
<1>2. /\ q \in Job /\ q.state = "waiting"
      /\ q.attempts = job[j].attempts /\ q.stalls = job[j].stalls
  BY DEF IInv, TypeOK, Job
<1>3. RunsOf(q) = RunsOf(job[j]) /\ Within(q)
  BY <1>1, <1>2 DEF RunsOf, Within, IInv, Limits
<1> HIDE DEF q
<1>4. /\ job' \in [Jobs -> Job] /\ Limits'
      /\ \A i \in Jobs : Runs(i)' = Runs(i)
      /\ job'[j] = q /\ \A i \in Jobs \ {j} : job'[i] = job[i]
  BY <1>1, <1>2, <1>3, JobTo
<1>5. /\ owed' \in [Jobs -> SUBSET Hooks] /\ owed'[j] = on
      /\ \A i \in Jobs \ {j} : owed'[i] = owed[i]
  BY <1>1 DEF IInv, TypeOK
<1>6. TypeOK'
  BY <1>1, <1>4, <1>5 DEF IInv, TypeOK
<1>7. \A i \in Jobs, h \in Hooks :
        /\ Posting(i, h)' = Posting(i, h) /\ Recording(i, h)' = Recording(i, h)
        /\ succeeded[i][h] \in Nat
  BY <1>1 DEF Posting, Recording, IInv, TypeOK, Counts
<1>8. Accounted' /\ Truthful'
  BY <1>1, <1>4, <1>6, <1>7, Quiet DEF Accounted, Truthful
<1>9. Owing'
  <2>1. \A i \in Jobs : /\ \A h \in owed'[i] : hook[h] = "on"
                        /\ job'[i].state = "none" => owed'[i] = {}
    BY <1>2, <1>4, <1>5 DEF IInv, Owing
  <2>2. ASSUME NEW w \in Workers, worker[w] # Idle
        PROVE  /\ worker[w].pc # "idle"
               /\ worker[w].job \in Jobs /\ job'[worker[w].job].state # "none"
               /\ worker[w].pc = "record" => worker[w].hook \in Hooks
               /\ \A h \in owed'[worker[w].job] :
                    \/ worker[w].pc = "find" \/ h \in worker[w].todo
                    \/ worker[w].pc = "record" /\ worker[w].hook = h
                    \/ recorded[worker[w].job][h] > 0
    <3>1. worker[w].pc # "idle"
      BY <2>2 DEF IInv, Owing
    <3>2. worker[w].job \in Jobs \ {j}
      BY <1>1, <3>1, Busy
    <3>3. QED
      BY <1>4, <1>5, <3>1, <3>2, Busy
  <2>3. QED
    BY <1>1, <2>1, <2>2 DEF Owing
<1>10. CompletedIsAttempted'
  BY <1>1, <1>2, <1>4, <1>5 DEF IInv, CompletedIsAttempted
<1>11. QED
  BY <1>4, <1>6, <1>8, <1>9, <1>10 DEF IInv

LEMMA TakeInv ==
  ASSUME IInv, NEW w \in Workers, NEW j \in Jobs, Take(w, j)
  PROVE  IInv'
<1> DEFINE q == [job[j] EXCEPT !.state = "active", !.holder = w]
           k == [Idle EXCEPT !.pc = "find", !.job = j]
<1>1. /\ job[j].state = "waiting" /\ worker[w].pc = "idle"
      /\ job' = [job EXCEPT ![j] = q] /\ worker' = [worker EXCEPT ![w] = k]
      /\ UNCHANGED <<hook, owed, received, recorded, succeeded, faults>>
  BY DEF Take, Becomes, deliveries
<1>2. /\ q \in Job /\ q.state = "active"
      /\ q.attempts = job[j].attempts /\ q.stalls = job[j].stalls
  BY DEF IInv, TypeOK, Job
<1>3. /\ k \in Worker /\ k.pc = "find" /\ k.job = j /\ k.todo = {}
  BY DEF Worker, Idle
<1>4. worker[w] = Idle
  BY <1>1 DEF IInv, Owing
<1> HIDE DEF q, k
<1>5. /\ job' \in [Jobs -> Job] /\ job'[j] = q
      /\ \A i \in Jobs \ {j} : job'[i] = job[i]
  BY <1>1, <1>2 DEF IInv, TypeOK
<1>6. /\ worker' \in [Workers -> Worker] /\ worker'[w] = k
      /\ \A v \in Workers \ {w} : worker'[v] = worker[v]
  BY <1>1, <1>3 DEF IInv, TypeOK
<1>7. TypeOK'
  BY <1>1, <1>5, <1>6 DEF IInv, TypeOK
<1>8. Runs(j)' = Runs(j) + 1 /\ \A i \in Jobs \ {j} : Runs(i)' = Runs(i)
  <2>1. job[j].attempts \in Nat /\ job[j].stalls \in Nat
    BY WebhooksAssumption DEF IInv, TypeOK, Job
  <2>2. QED
    BY <1>1, <1>2, <1>5, <2>1 DEF Runs
<1>9. \A i \in Jobs, h \in Hooks :
        /\ Recording(i, h)' \subseteq Recording(i, h)
        /\ i # j => Posting(i, h)' \subseteq Posting(i, h)
        /\ Posting(i, h)' \subseteq Posting(i, h) \cup {w}
        /\ w \notin Posting(i, h)
  BY <1>3, <1>4, <1>6 DEF Recording, Posting, Idle
<1>10. \A i \in Jobs, h \in Hooks :
         received[i][h] \in Nat /\ succeeded[i][h] \in Nat
  BY DEF IInv, TypeOK, Counts
<1>11. ASSUME NEW i \in Jobs \ {j}, NEW h \in Hooks
       PROVE  /\ received'[i][h] + Cardinality(Posting(i, h)') <= Runs(i)'
              /\ succeeded'[i][h] + Cardinality(Recording(i, h)') <= received'[i][h]
  BY <1>1, <1>7, <1>8, <1>9, <1>10, Quiet
<1>12. ASSUME NEW h \in Hooks
       PROVE  /\ received'[j][h] + Cardinality(Posting(j, h)') <= Runs(j)'
              /\ succeeded'[j][h] + Cardinality(Recording(j, h)') <= received'[j][h]
  <2>1. PICK P : P = Posting(j, h)'
    OBVIOUS
  <2>2. PICK R : R = Recording(j, h)'
    OBVIOUS
  <2>3. /\ IsFiniteSet(Posting(j, h)) /\ Cardinality(Posting(j, h)) \in Nat
        /\ IsFiniteSet(Recording(j, h)) /\ Cardinality(Recording(j, h)) \in Nat
    BY CountedInNat
  <2>4. Cardinality(P) \in Nat /\ Cardinality(P) <= Cardinality(Posting(j, h)) + 1
    <3>1. /\ IsFiniteSet(Posting(j, h) \cup {w})
          /\ Cardinality(Posting(j, h) \cup {w}) = Cardinality(Posting(j, h)) + 1
      BY <1>9, <2>3, FS_AddElement
    <3>2. P \in SUBSET (Posting(j, h) \cup {w})
      BY <1>9, <2>1
    <3>3. QED
      BY <3>1, <3>2, Fewer
  <2>5. Cardinality(R) \in Nat /\ Cardinality(R) <= Cardinality(Recording(j, h))
    <3>1. R \in SUBSET Recording(j, h)
      BY <1>9, <2>2
    <3>2. QED
      BY <2>3, <3>1, Fewer
  <2>6. /\ received[j][h] + Cardinality(Posting(j, h)) <= Runs(j)
        /\ succeeded[j][h] + Cardinality(Recording(j, h)) <= received[j][h]
        /\ Runs(j) \in Nat
    BY RunsInNat DEF IInv, Accounted, Truthful
  <2>7. /\ received[j][h] + Cardinality(P) <= Runs(j) + 1
        /\ succeeded[j][h] + Cardinality(R) <= received[j][h]
    BY <1>10, <2>3, <2>4, <2>5, <2>6
  <2>8. QED
    BY <1>1, <1>8, <2>1, <2>2, <2>7
<1>13. Accounted' /\ Truthful'
  BY <1>11, <1>12 DEF Accounted, Truthful
<1>14. Limits'
  BY <1>1, <1>2, <1>5 DEF IInv, Limits
<1>15. Owing'
  <2>1. \A i \in Jobs : /\ \A h \in owed[i] : hook[h] = "on"
                        /\ job'[i].state = "none" => owed[i] = {}
    BY <1>2, <1>5 DEF IInv, Owing
  <2>2. ASSUME NEW v \in Workers \ {w}, worker[v] # Idle
        PROVE  /\ worker[v].pc # "idle"
               /\ worker[v].job \in Jobs /\ job'[worker[v].job].state # "none"
               /\ worker[v].pc = "record" => worker[v].hook \in Hooks
               /\ \A h \in owed[worker[v].job] :
                    \/ worker[v].pc = "find" \/ h \in worker[v].todo
                    \/ worker[v].pc = "record" /\ worker[v].hook = h
                    \/ recorded[worker[v].job][h] > 0
    <3>1. worker[v].pc # "idle"
      BY <2>2 DEF IInv, Owing
    <3>2. job'[worker[v].job].state # "none"
      BY <1>2, <1>5, <3>1, Busy
    <3>3. QED
      BY <3>1, <3>2, Busy
  <2>3. QED
    BY <1>1, <1>2, <1>3, <1>5, <1>6, <2>1, <2>2 DEF Owing
<1>16. CompletedIsAttempted'
  BY <1>1, <1>2, <1>5 DEF IInv, CompletedIsAttempted
<1>17. QED
  BY <1>7, <1>13, <1>14, <1>15, <1>16 DEF IInv

-----------------------------------------------------------------------------
(* deliverWebhook *)

(* A worker goes on with its job. *)
LEMMA RunStep ==
  ASSUME IInv, NEW w \in Workers, NEW k \in Worker, Becomes(w, k),
         UNCHANGED <<hook, job, owed, faults>>,
         worker[w].pc # "idle", k.pc # "idle", k.job = worker[w].job,
         k.pc = "record" => k.hook \in Hooks,
         TypeOK', Accounted', Truthful',
         \A i \in Jobs, h \in Hooks : recorded[i][h] > 0 => recorded'[i][h] > 0,
         \A h \in owed[k.job] :
            \/ k.pc = "find" \/ h \in k.todo
            \/ k.pc = "record" /\ k.hook = h
            \/ recorded'[k.job][h] > 0
  PROVE  IInv'
<1>1. /\ worker'[w] = k /\ \A v \in Workers \ {w} : worker'[v] = worker[v]
  BY DEF Becomes, IInv, TypeOK
<1>2. \A i \in Jobs : owed[i] \subseteq Hooks
  BY DEF IInv, TypeOK
<1>3. Limits'
  BY DEF IInv, Limits
<1>4. Owing'
  <2>1. \A i \in Jobs : /\ \A h \in owed[i] : hook[h] = "on"
                        /\ job[i].state = "none" => owed[i] = {}
    BY DEF IInv, Owing
  <2>2. ASSUME NEW v \in Workers \ {w}, worker[v] # Idle
        PROVE  /\ worker[v].pc # "idle"
               /\ worker[v].job \in Jobs /\ job[worker[v].job].state # "none"
               /\ worker[v].pc = "record" => worker[v].hook \in Hooks
               /\ \A h \in owed[worker[v].job] :
                    \/ worker[v].pc = "find" \/ h \in worker[v].todo
                    \/ worker[v].pc = "record" /\ worker[v].hook = h
                    \/ recorded'[worker[v].job][h] > 0
    <3>1. worker[v].pc # "idle"
      BY <2>2 DEF IInv, Owing
    <3>2. QED
      BY <1>2, <3>1, Busy
  <2>3. worker[w].job \in Jobs /\ job[worker[w].job].state # "none"
    BY Busy
  <2>4. QED
    BY <1>1, <2>1, <2>2, <2>3 DEF Owing
<1>5. CompletedIsAttempted'
  BY <1>2 DEF IInv, CompletedIsAttempted
<1>6. QED
  BY <1>3, <1>4, <1>5 DEF IInv

LEMMA FindInv ==
  ASSUME IInv, NEW w \in Workers, Find(w)
  PROVE  IInv'
<1> DEFINE on == {h \in Hooks : hook[h] = "on"}
           k == [worker[w] EXCEPT !.pc = "post", !.todo = on]
<1>1. /\ worker[w].pc = "find" /\ Becomes(w, k)
      /\ UNCHANGED <<hook, job, owed, received, recorded, succeeded, faults>>
  BY DEF Find, deliveries
<1>2. /\ worker[w] \in Worker /\ worker[w].job \in Jobs
  BY <1>1, Busy
<1>3. /\ k \in Worker /\ k.pc = "post" /\ k.job = worker[w].job /\ k.todo = on
  BY <1>2 DEF Worker
<1>4. \A h \in owed[worker[w].job] : h \in on
  BY <1>2 DEF IInv, TypeOK, Owing
<1> HIDE DEF k, on
<1>5. /\ worker' \in [Workers -> Worker] /\ worker'[w] = k
      /\ \A v \in Workers \ {w} : worker'[v] = worker[v]
  BY <1>1, <1>3 DEF Becomes, IInv, TypeOK
<1>6. TypeOK'
  BY <1>1, <1>5 DEF IInv, TypeOK
<1>7. \A i \in Jobs, h \in Hooks :
        /\ Posting(i, h)' \subseteq Posting(i, h)
        /\ Recording(i, h)' \subseteq Recording(i, h)
        /\ Runs(i)' = Runs(i)
        /\ succeeded[i][h] \in Nat
  BY <1>1, <1>3, <1>5 DEF Posting, Recording, Runs, IInv, TypeOK, Counts
<1>8. Accounted' /\ Truthful'
  BY <1>1, <1>6, <1>7, Quiet DEF Accounted, Truthful
<1>9. QED
  BY <1>1, <1>3, <1>4, <1>6, <1>8, RunStep

(* Counting one more. *)
LEMMA CountedOnce ==
  ASSUME NEW c \in Counts, NEW j \in Jobs, NEW h \in Hooks
  PROVE  /\ Counted(c, j, h) \in Counts
         /\ Counted(c, j, h)[j][h] = c[j][h] + 1 /\ c[j][h] \in Nat
         /\ \A i \in Jobs, g \in Hooks : i # j \/ g # h => Counted(c, j, h)[i][g] = c[i][g]
<1>1. c[j] \in [Hooks -> Nat] /\ c[j][h] \in Nat
  BY DEF Counts
<1> DEFINE r == [c[j] EXCEPT ![h] = @ + 1]
<1>2. /\ r \in [Hooks -> Nat] /\ r[h] = c[j][h] + 1
      /\ \A g \in Hooks \ {h} : r[g] = c[j][g]
  BY <1>1
<1>3. Counted(c, j, h) = [c EXCEPT ![j] = r]
  BY DEF Counted
<1> HIDE DEF r
<1>4. QED
  BY <1>1, <1>2, <1>3 DEF Counts

LEMMA PostInv ==
  ASSUME IInv, NEW w \in Workers, NEW h \in Hooks, Post(w, h)
  PROVE  IInv'
<1>1. PICK got \in BOOLEAN, ok \in BOOLEAN :
        /\ ok => got
        /\ received' = IF got THEN Counted(received, worker[w].job, h) ELSE received
        /\ Becomes(w, [worker[w] EXCEPT !.pc = "record", !.hook = h, !.ok = ok,
                                        !.todo = @ \ {h}])
  BY DEF Post
<1>2. /\ worker[w].pc = "post" /\ h \in worker[w].todo
      /\ UNCHANGED <<hook, job, owed, recorded, succeeded, faults>>
  BY DEF Post
<1>3. PICK j \in Jobs : j = worker[w].job
  BY <1>2, Busy
<1> DEFINE k == [worker[w] EXCEPT !.pc = "record", !.hook = h, !.ok = ok,
                                  !.todo = @ \ {h}]
<1>4. /\ k \in Worker /\ k.pc = "record" /\ k.hook = h /\ k.ok = ok /\ k.job = j
      /\ k.todo = worker[w].todo \ {h}
  <2>1. worker[w] \in Worker
    BY <1>2, Busy
  <2>2. QED
    BY <1>3, <2>1 DEF Worker
<1>5. Becomes(w, k)
  BY <1>1
<1> HIDE DEF k
<1>6. /\ worker' \in [Workers -> Worker] /\ worker'[w] = k
      /\ \A v \in Workers \ {w} : worker'[v] = worker[v]
  BY <1>4, <1>5 DEF Becomes, IInv, TypeOK
<1>7. /\ received' \in Counts
      /\ received[j][h] \in Nat
      /\ received'[j][h] = received[j][h] + (IF got THEN 1 ELSE 0)
      /\ \A i \in Jobs, g \in Hooks : i # j \/ g # h => received'[i][g] = received[i][g]
  <2>1. received \in Counts
    BY DEF IInv, TypeOK
  <2>2. received[j][h] \in Nat
    BY <2>1 DEF Counts
  <2>3. CASE got
    BY <1>1, <1>3, <2>1, <2>3, CountedOnce
  <2>4. CASE ~got
    BY <1>1, <2>1, <2>2, <2>4
  <2>5. QED
    BY <2>3, <2>4
<1>8. TypeOK'
  BY <1>2, <1>6, <1>7 DEF IInv, TypeOK
<1>9. \A i \in Jobs, g \in Hooks :
        /\ Posting(i, g)' \subseteq Posting(i, g)
        /\ i # j \/ g # h => Recording(i, g)' \subseteq Recording(i, g)
        /\ Runs(i)' = Runs(i)
        /\ succeeded[i][g] \in Nat
  <2>1. ASSUME NEW i \in Jobs, NEW g \in Hooks PROVE Posting(i, g)' \subseteq Posting(i, g)
    BY <1>2, <1>3, <1>4, <1>6 DEF Posting
  <2>2. ASSUME NEW i \in Jobs, NEW g \in Hooks, i # j \/ g # h
        PROVE  Recording(i, g)' \subseteq Recording(i, g)
    BY <1>4, <1>6, <2>2 DEF Recording
  <2>3. ASSUME NEW i \in Jobs, NEW g \in Hooks
        PROVE  Runs(i)' = Runs(i) /\ succeeded[i][g] \in Nat
    BY <1>2 DEF Runs, IInv, TypeOK, Counts
  <2>4. QED
    BY <2>1, <2>2, <2>3
<1>10. /\ w \in Posting(j, h) /\ w \notin Posting(j, h)'
       /\ w \notin Recording(j, h)
       /\ Recording(j, h)' \subseteq Recording(j, h) \cup {w}
       /\ ~ok => Recording(j, h)' \subseteq Recording(j, h)
  BY <1>2, <1>3, <1>4, <1>6 DEF Posting, Recording
<1>11. ASSUME NEW i \in Jobs, NEW g \in Hooks, i # j \/ g # h
       PROVE  /\ received'[i][g] + Cardinality(Posting(i, g)') <= Runs(i)'
              /\ succeeded'[i][g] + Cardinality(Recording(i, g)') <= received'[i][g]
  BY <1>2, <1>7, <1>8, <1>9, <1>11, Quiet
<1>12. /\ received'[j][h] + Cardinality(Posting(j, h)') <= Runs(j)'
       /\ succeeded'[j][h] + Cardinality(Recording(j, h)') <= received'[j][h]
  <2>1. PICK P : P = Posting(j, h)'
    OBVIOUS
  <2>2. PICK R : R = Recording(j, h)'
    OBVIOUS
  <2>3. /\ IsFiniteSet(Posting(j, h)) /\ Cardinality(Posting(j, h)) \in Nat
        /\ IsFiniteSet(Recording(j, h)) /\ Cardinality(Recording(j, h)) \in Nat
    BY CountedInNat
  <2>4. Cardinality(P) \in Nat /\ Cardinality(P) + 1 <= Cardinality(Posting(j, h))
    <3>1. P \in SUBSET Posting(j, h) /\ w \in Posting(j, h) \ P
      BY <1>9, <1>10, <2>1
    <3>2. QED
      BY <2>3, <3>1, Fewer
  <2>5. /\ Cardinality(R) \in Nat
        /\ Cardinality(R) <= Cardinality(Recording(j, h)) + (IF ok THEN 1 ELSE 0)
    <3>1. CASE ok
      <4>1. /\ IsFiniteSet(Recording(j, h) \cup {w})
            /\ Cardinality(Recording(j, h) \cup {w}) = Cardinality(Recording(j, h)) + 1
        BY <1>10, <2>3, FS_AddElement
      <4>2. R \in SUBSET (Recording(j, h) \cup {w})
        BY <1>10, <2>2
      <4>3. QED
        BY <3>1, <4>1, <4>2, Fewer
    <3>2. CASE ~ok
      <4>1. R \in SUBSET Recording(j, h)
        BY <1>10, <2>2, <3>2
      <4>2. QED
        BY <2>3, <3>2, <4>1, Fewer
    <3>3. QED
      BY <3>1, <3>2
  <2>6. /\ received[j][h] + Cardinality(Posting(j, h)) <= Runs(j)
        /\ succeeded[j][h] + Cardinality(Recording(j, h)) <= received[j][h]
        /\ Runs(j) \in Nat /\ succeeded[j][h] \in Nat
    BY <1>9, RunsInNat DEF IInv, Accounted, Truthful
  <2>7. received'[j][h] + Cardinality(P) <= Runs(j)
    BY <1>7, <2>3, <2>4, <2>6
  <2>8. succeeded[j][h] + Cardinality(R) <= received'[j][h]
    BY <1>1, <1>7, <2>3, <2>5, <2>6
  <2>9. QED
    BY <1>2, <1>9, <2>1, <2>2, <2>7, <2>8
<1>13. Accounted' /\ Truthful'
  BY <1>11, <1>12 DEF Accounted, Truthful
<1>14. \A g \in owed[j] : g \in k.todo \/ k.hook = g \/ recorded[j][g] > 0
  BY <1>2, <1>3, <1>4, Busy
<1>15. QED
  BY <1>2, <1>3, <1>4, <1>5, <1>8, <1>13, <1>14, RunStep

LEMMA RecordInv ==
  ASSUME IInv, NEW w \in Workers, Record(w)
  PROVE  IInv'
<1>1. /\ worker[w].pc = "record"
      /\ UNCHANGED <<hook, job, owed, received, faults>>
  BY DEF Record
<1>2. PICK j \in Jobs, h \in Hooks : j = worker[w].job /\ h = worker[w].hook
  BY <1>1, Busy
<1>3. /\ recorded' = Counted(recorded, j, h)
      /\ succeeded' = IF worker[w].ok THEN Counted(succeeded, j, h) ELSE succeeded
  BY <1>2 DEF Record
<1> DEFINE k == [worker[w] EXCEPT !.pc = "post", !.hook = None, !.ok = FALSE]
<1>4. /\ k \in Worker /\ k.pc = "post" /\ k.job = j /\ k.todo = worker[w].todo
      /\ k.ok = FALSE
  <2>1. worker[w] \in Worker
    BY <1>1, Busy
  <2>2. QED
    BY <1>2, <2>1 DEF Worker
<1>5. Becomes(w, k)
  BY DEF Record
<1> HIDE DEF k
<1>6. /\ worker' \in [Workers -> Worker] /\ worker'[w] = k
      /\ \A v \in Workers \ {w} : worker'[v] = worker[v]
  BY <1>4, <1>5 DEF Becomes, IInv, TypeOK
<1>7. /\ received \in Counts /\ recorded \in Counts /\ succeeded \in Counts
      /\ worker[w].ok \in BOOLEAN
  BY <1>1, Busy DEF IInv, TypeOK, Worker
<1>8. /\ recorded' \in Counts /\ recorded'[j][h] > 0
      /\ \A i \in Jobs, g \in Hooks : recorded[i][g] > 0 => recorded'[i][g] > 0
  <2>1. recorded' \in Counts /\ recorded'[j][h] = recorded[j][h] + 1
        /\ recorded[j][h] \in Nat
    BY <1>3, <1>7, CountedOnce
  <2>2. ASSUME NEW i \in Jobs, NEW g \in Hooks, i # j \/ g # h
        PROVE  recorded'[i][g] = recorded[i][g]
    BY <1>3, <1>7, <2>2, CountedOnce
  <2>3. recorded'[j][h] > 0
    BY <2>1
  <2>4. QED
    BY <2>1, <2>2, <2>3
<1>9. /\ succeeded' \in Counts /\ succeeded[j][h] \in Nat
      /\ succeeded'[j][h] = succeeded[j][h] + (IF worker[w].ok THEN 1 ELSE 0)
      /\ \A i \in Jobs, g \in Hooks :
           i # j \/ g # h => succeeded'[i][g] = succeeded[i][g]
  <2>1. CASE worker[w].ok
    BY <1>3, <1>7, <2>1, CountedOnce
  <2>2. CASE ~worker[w].ok
    BY <1>3, <1>7, <2>2 DEF Counts
  <2>3. QED
    BY <2>1, <2>2
<1>10. TypeOK'
  BY <1>1, <1>6, <1>8, <1>9 DEF IInv, TypeOK
<1>11. \A i \in Jobs, g \in Hooks :
         /\ Posting(i, g)' \subseteq Posting(i, g)
         /\ Recording(i, g)' \subseteq Recording(i, g)
         /\ Runs(i)' = Runs(i)
         /\ received[i][g] \in Nat /\ succeeded[i][g] \in Nat
  BY <1>1, <1>2, <1>4, <1>6, <1>7 DEF Posting, Recording, Runs, Counts
<1>12. ASSUME NEW i \in Jobs, NEW g \in Hooks, i # j \/ g # h
       PROVE  /\ received'[i][g] + Cardinality(Posting(i, g)') <= Runs(i)'
              /\ succeeded'[i][g] + Cardinality(Recording(i, g)') <= received'[i][g]
  BY <1>1, <1>9, <1>10, <1>11, <1>12, Quiet
<1>13. /\ received'[j][h] + Cardinality(Posting(j, h)') <= Runs(j)'
       /\ succeeded'[j][h] + Cardinality(Recording(j, h)') <= received'[j][h]
  <2>1. PICK P : P = Posting(j, h)'
    OBVIOUS
  <2>2. PICK R : R = Recording(j, h)'
    OBVIOUS
  <2>3. /\ IsFiniteSet(Posting(j, h)) /\ Cardinality(Posting(j, h)) \in Nat
        /\ IsFiniteSet(Recording(j, h)) /\ Cardinality(Recording(j, h)) \in Nat
    BY CountedInNat
  <2>4. P \in SUBSET Posting(j, h) /\ R \in SUBSET Recording(j, h)
    BY <1>11, <2>1, <2>2
  <2>5. Cardinality(P) \in Nat /\ Cardinality(P) <= Cardinality(Posting(j, h))
    BY <2>3, <2>4, Fewer
  <2>6. /\ Cardinality(R) \in Nat
        /\ Cardinality(R) + (IF worker[w].ok THEN 1 ELSE 0) <= Cardinality(Recording(j, h))
    <3>1. CASE worker[w].ok
      <4>1. w \in Recording(j, h) \ R
        BY <1>1, <1>2, <1>4, <1>6, <2>2, <3>1 DEF Recording
      <4>2. QED
        BY <2>3, <2>4, <3>1, <4>1, Fewer
    <3>2. CASE ~worker[w].ok
      BY <2>3, <2>4, <3>2, Fewer
    <3>3. QED
      BY <3>1, <3>2
  <2>7. /\ received[j][h] + Cardinality(Posting(j, h)) <= Runs(j)
        /\ succeeded[j][h] + Cardinality(Recording(j, h)) <= received[j][h]
        /\ Runs(j) \in Nat
    BY RunsInNat DEF IInv, Accounted, Truthful
  <2>8. received[j][h] + Cardinality(P) <= Runs(j)
    BY <1>11, <2>3, <2>5, <2>7
  <2>9. succeeded'[j][h] + Cardinality(R) <= received[j][h]
    BY <1>9, <1>11, <2>3, <2>6, <2>7
  <2>10. QED
    BY <1>1, <1>11, <2>1, <2>2, <2>8, <2>9
<1>14. Accounted' /\ Truthful'
  BY <1>12, <1>13 DEF Accounted, Truthful
<1>15. \A g \in owed[j] : g \in k.todo \/ recorded'[j][g] > 0
  <2>1. \A g \in owed[j] : g \in Hooks
    BY DEF IInv, TypeOK
  <2>2. QED
    BY <1>1, <1>2, <1>4, <1>8, <2>1, Busy
<1>16. QED
  BY <1>1, <1>2, <1>4, <1>5, <1>8, <1>10, <1>14, <1>15, RunStep

-----------------------------------------------------------------------------
LEMMA InitInv == Init => IInv
<1> SUFFICES ASSUME Init PROVE IInv
  OBVIOUS
<1>1. MaxAttempts \in Nat \ {0} /\ MaxStalls \in Nat
  BY WebhooksAssumption
<1>2. TypeOK
  BY <1>1 DEF Init, TypeOK, Job, Worker, Idle, Counts
<1>3. \A j \in Jobs, h \in Hooks :
        /\ received[j][h] = 0 /\ succeeded[j][h] = 0
        /\ Posting(j, h) = {} /\ Recording(j, h) = {} /\ Runs(j) = 0
  BY DEF Init, Posting, Recording, Runs, Idle
<1>4. Accounted /\ Truthful
  BY <1>3, FS_EmptySet DEF Accounted, Truthful
<1>5. Limits
  BY <1>1 DEF Init, Limits
<1>6. Owing
  BY DEF Init, Owing
<1>7. CompletedIsAttempted
  BY DEF Init, CompletedIsAttempted
<1>8. QED
  BY <1>2, <1>4, <1>5, <1>6, <1>7 DEF IInv

LEMMA NextInv == IInv /\ [Next]_vars => IInv'
<1> SUFFICES ASSUME IInv, [Next]_vars PROVE IInv'
  OBVIOUS
<1>1. ASSUME NEW h \in Hooks, Register(h) \/ Toggle(h) \/ Remove(h) PROVE IInv'
  BY <1>1, UserInv
<1>2. ASSUME NEW j \in Jobs, Announce(j) PROVE IInv'
  BY <1>2, AnnounceInv
<1>3. ASSUME NEW j \in Jobs, Recover(j) \/ LoseLock(j) PROVE IInv'
  BY <1>3, StallInv
<1>4. ASSUME NEW w \in Workers,
             Finish(w) \/ RecordRefused(w) \/ CallFails(w) \/ Dies(w)
      PROVE  IInv'
  BY <1>4, EndingInv
<1>5. ASSUME NEW w \in Workers, NEW j \in Jobs, Take(w, j) PROVE IInv'
  BY <1>5, TakeInv
<1>6. ASSUME NEW w \in Workers, Find(w) PROVE IInv'
  BY <1>6, FindInv
<1>7. ASSUME NEW w \in Workers, NEW h \in Hooks, Post(w, h) PROVE IInv'
  BY <1>7, PostInv
<1>8. ASSUME NEW w \in Workers, Record(w) PROVE IInv'
  BY <1>8, RecordInv
<1>9. CASE UNCHANGED vars
  <2>1. UNCHANGED <<hook, job, worker, owed, received, recorded, succeeded, faults>>
    BY <1>9 DEF vars
  <2>2. TypeOK'
    BY <2>1 DEF IInv, TypeOK
  <2>3. \A j \in Jobs, h \in Hooks : succeeded[j][h] \in Nat
    BY DEF IInv, TypeOK, Counts
  <2>4. \A j \in Jobs : \A h \in owed[j] : hook[h] = "on"
    BY DEF IInv, Owing
  <2>5. QED
    BY <2>1, <2>2, <2>3, <2>4, HookChange
<1>10. QED
  BY <1>1, <1>2, <1>3, <1>4, <1>5, <1>6, <1>7, <1>8, <1>9 DEF Next, WorkerStep

(* The inductive invariant: what each job was given and what it used up, what *)
(* is still owed to a webhook, and which answers are not recorded yet.        *)
THEOREM Invariance == Spec => []IInv
<1>1. QED
  BY InitInv, NextInv, PTL DEF Spec

(* The rows, the jobs in Redis and the workers' variables keep their types;   *)
(* in particular no job counts more attempts than DEFAULT_JOB_OPTIONS allows. *)
THEOREM TypeCorrect == Spec => []TypeOK
<1>1. IInv => TypeOK
  BY DEF IInv
<1>2. QED
  BY <1>1, Invariance, PTL

(* An endpoint gets an event at most MaxAttempts + MaxStalls times, whatever  *)
(* fails and however many workers run the job at a time.                      *)
THEOREM AtMostAttempts == Spec => []DeliveriesBounded
<1>1. IInv => DeliveriesBounded
  <2> SUFFICES ASSUME IInv, NEW j \in Jobs, NEW h \in Hooks
               PROVE  received[j][h] <= MaxAttempts + MaxStalls
    BY DEF DeliveriesBounded
  <2>1. /\ received[j][h] + Cardinality(Posting(j, h)) <= Runs(j)
        /\ received[j][h] \in Nat /\ Cardinality(Posting(j, h)) \in Nat
    BY CountedInNat DEF IInv, Accounted, TypeOK, Counts
  <2>2. /\ job[j].attempts \in Nat /\ job[j].stalls \in Nat
        /\ MaxAttempts \in Nat /\ MaxStalls \in Nat
    BY WebhooksAssumption DEF IInv, TypeOK, Job
  <2>3. Runs(j) \in Nat /\ Runs(j) <= MaxAttempts + MaxStalls
    BY <2>2 DEF Runs, IInv, Limits
  <2>4. QED
    BY <2>1, <2>2, <2>3
<1>2. QED
  BY <1>1, Invariance, PTL

(* No delivery is recorded as a success that the endpoint did not get.        *)
THEOREM SuccessReceived == Spec => []RecordedTruly
<1>1. IInv => RecordedTruly
  <2> SUFFICES ASSUME IInv, NEW j \in Jobs, NEW h \in Hooks
               PROVE  succeeded[j][h] <= received[j][h]
    BY DEF RecordedTruly
  <2>1. /\ succeeded[j][h] + Cardinality(Recording(j, h)) <= received[j][h]
        /\ received[j][h] \in Nat /\ succeeded[j][h] \in Nat
        /\ Cardinality(Recording(j, h)) \in Nat
    BY CountedInNat DEF IInv, Truthful, TypeOK, Counts
  <2>2. QED
    BY <2>1
<1>2. QED
  BY <1>1, Invariance, PTL

(* A completed job left a record for every webhook that was on all along.     *)
THEOREM CompletedAttempted == Spec => []CompletedIsAttempted
<1>1. IInv => CompletedIsAttempted
  BY DEF IInv
<1>2. QED
  BY <1>1, Invariance, PTL
=============================================================================
