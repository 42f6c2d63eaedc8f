------------------------------ MODULE Reminders ------------------------------
(***************************************************************************)
(* Reminders of one organization: routes/reminders.ts, the minutely job of *)
(* lib/reminder-scheduler.ts and createNotifications of lib/notify.ts.     *)
(*                                                                         *)
(* The job runs in every API process and starts each minute whether or not *)
(* its last run is over, so several runs ("ticks") may be in progress.  A  *)
(* tick is four database calls; requests run between any two of them.      *)
(*                                                                         *)
(* A reminder is an occurrence per dueAt it is given: its edition counts   *)
(* them, and is in no row.                                                 *)
(***************************************************************************)
EXTENDS Naturals, FiniteSets

CONSTANTS
  Reminders,    \* ids of Reminder rows, used once each
  Users,        \* users who are or may become members
  Movers,       \* those who may join and leave
  Ticks,        \* ticks that may be in progress at a time
  MaxEditions,  \* bound: times a reminder is given a dueAt
  MaxFaults     \* bound: failed calls, lost answers, crashes

ASSUME RemindersAssumption ==
  /\ Movers \subseteq Users
  /\ IsFiniteSet(Ticks)
  /\ MaxEditions \in Nat /\ MaxFaults \in Nat

VARIABLES
  row,      \* Reminder rows, with the history of their editions
  members,  \* users with an OrganizationMember row
  tick,     \* ticks in progress
  told,     \* Notification rows of each occurrence and user
  faults

vars == <<row, members, tick, told, faults>>

Row == [exists  : BOOLEAN,
        edition : 0 .. MaxEditions,
        due     : BOOLEAN,       \* dueAt has passed
        sent    : BOOLEAN]       \* sentAt is set

Occurrence == [reminder : Reminders, edition : 1 .. MaxEditions]

Idle == [pc |-> "idle", due |-> {}, users |-> {}]

Tick == {Idle} \cup [pc    : {"members", "insert", "mark"},
                    due   : SUBSET Occurrence,
                    users : SUBSET Users]

TypeOK ==
  /\ row \in [Reminders -> Row]
  /\ members \subseteq Users
  /\ tick \in [Ticks -> Tick]
  /\ told \in [Occurrence -> [Users -> Nat]]
  /\ faults \in Nat

NoRow == [exists |-> FALSE, edition |-> 0, due |-> FALSE, sent |-> FALSE]

Init ==
  /\ row = [r \in Reminders |-> NoRow]
  /\ members = Users
  /\ tick = [t \in Ticks |-> Idle]
  /\ told = [o \in Occurrence |-> [u \in Users |-> 0]]
  /\ faults = 0

Fault == faults < MaxFaults /\ faults' = faults + 1
Becomes(t, k) == tick' = [tick EXCEPT ![t] = k]

Current(o) == row[o.reminder].exists /\ row[o.reminder].edition = o.edition
Unsent(o)  == Current(o) /\ ~row[o.reminder].sent
-----------------------------------------------------------------------------
(* Users: /api/reminders, and the members of the organization.  PATCH and   *)
(* DELETE look the row up and then write it by its id; a row that went      *)
(* between the two makes the write fail, so that one step stands for both.  *)

\* A row with a new dueAt; the dueAt may be in the past.
Scheduled(r) == [exists |-> TRUE, edition |-> row[r].edition + 1,
                 due |-> FALSE, sent |-> FALSE]

Create(r) ==
  /\ row[r].edition = 0 /\ MaxEditions > 0
  /\ row' = [row EXCEPT ![r] = Scheduled(r)]
  /\ UNCHANGED <<members, tick, told, faults>>

\* PATCH with a dueAt; without one it changes no state of the model.
Reschedule(r) ==
  /\ row[r].exists /\ row[r].edition < MaxEditions
  /\ row' = [row EXCEPT ![r] = Scheduled(r)]
  /\ UNCHANGED <<members, tick, told, faults>>

Delete(r) ==
  /\ row[r].exists
  /\ row' = [row EXCEPT ![r] = [@ EXCEPT !.exists = FALSE]]
  /\ UNCHANGED <<members, tick, told, faults>>

\* Time reaches dueAt.
Matures(r) ==
  /\ row[r].exists /\ ~row[r].due
  /\ row' = [row EXCEPT ![r] = [@ EXCEPT !.due = TRUE]]
  /\ UNCHANGED <<members, tick, told, faults>>

JoinOrLeave(u) ==
  /\ members' = IF u \in members THEN members \ {u} ELSE members \cup {u}
  /\ UNCHANGED <<row, tick, told, faults>>
-----------------------------------------------------------------------------
(* The scheduler *)

Due == {o \in Occurrence : Unsent(o) /\ row[o.reminder].due}

\* Mutant: what is found is marked at once, so that no other tick finds it.
FindDueClaims(t) ==
  /\ tick[t].pc = "idle"
  /\ Due # {}
  /\ Becomes(t, [Idle EXCEPT !.pc = "members", !.due = Due])
  /\ row' = [r \in Reminders |->
               [row[r] EXCEPT !.sent = @ \/ \E o \in Due : o.reminder = r]]
  /\ UNCHANGED <<members, told, faults>>

\* A tick that finds nothing returns and changes nothing.
FindDue(t) ==
  /\ tick[t].pc = "idle"
  /\ Due # {}
  /\ Becomes(t, [Idle EXCEPT !.pc = "members", !.due = Due])
  /\ UNCHANGED <<row, members, told, faults>>

ReadMembers(t) ==
  /\ tick[t].pc = "members"
  /\ Becomes(t, [tick[t] EXCEPT !.pc = "insert", !.users = members])
  /\ UNCHANGED <<row, members, told, faults>>

\* Mutant: notifications are inserted after the reminders are marked.
InsertLate(t) ==
  /\ tick[t].pc = "insert"
  /\ row' = [r \in Reminders |->
               [row[r] EXCEPT !.sent = @ \/ \E o \in tick[t].due : o.reminder = r]]
  /\ Becomes(t, [tick[t] EXCEPT !.pc = "mark"])
  /\ UNCHANGED <<members, told, faults>>

\* createMany: one notification for every due reminder and member.
Insert(t) ==
  /\ tick[t].pc = "insert"
  /\ told' = [o \in Occurrence |-> [u \in Users |->
                told[o][u] + (IF o \in tick[t].due /\ u \in tick[t].users
                              THEN 1 ELSE 0)]]
  /\ \/ Becomes(t, [tick[t] EXCEPT !.pc = "mark"]) /\ UNCHANGED faults
     \/ Becomes(t, Idle) /\ Fault           \* the answer is lost
  /\ UNCHANGED <<row, members>>

\* Mutant: the update fails and nobody looks.
MarkNothing(t) ==
  /\ tick[t].pc = "mark"
  /\ Becomes(t, Idle)
  /\ UNCHANGED <<row, members, told, faults>>

\* updateMany by id: whatever has become of the reminders since FindDue.
Mark(t) ==
  /\ tick[t].pc = "mark"
  /\ row' = [r \in Reminders |->
               [row[r] EXCEPT !.sent =
                  @ \/ (row[r].exists /\ \E o \in tick[t].due : o.reminder = r)]]
  /\ Becomes(t, Idle)
  /\ UNCHANGED <<members, told, faults>>

\* A call that fails, or a process that dies.
TickFails(t) ==
  /\ tick[t].pc # "idle"
  /\ Becomes(t, Idle)
  /\ Fault
  /\ UNCHANGED <<row, members, told>>
-----------------------------------------------------------------------------
UserStep ==
  \/ \E r \in Reminders : Create(r) \/ Reschedule(r) \/ Delete(r)
  \/ \E u \in Movers : JoinOrLeave(u)

TickStep(t) == ReadMembers(t) \/ Insert(t) \/ Mark(t) \/ TickFails(t)

Next ==
  \/ UserStep
  \/ \E r \in Reminders : Matures(r)
  \/ \E t \in Ticks : FindDue(t) \/ TickStep(t)

Spec == Init /\ [][Next]_vars

\* Time passes, the clock starts ticks, and a tick in progress goes on or
\* fails.
FairSpec ==
  /\ Spec
  /\ \A r \in Reminders : WF_vars(Matures(r))
  /\ WF_vars(\E t \in Ticks : FindDue(t))
  /\ \A t \in Ticks : WF_vars(TickStep(t))
-----------------------------------------------------------------------------
(* Properties *)

\* "Sets sentAt to prevent duplicate delivery": a member is told of an
\* occurrence once for every tick that may overlap and every failure, and
\* no more, so just once when ticks do not overlap and nothing fails.
DuplicatesBounded ==
  \A o \in Occurrence, u \in Users :
    told[o][u] <= Cardinality(Ticks) + faults

\* A reminder that was never moved and is marked as sent was sent to every
\* member who had been there all the time, whatever failed.
SentIsTold ==
  \A o \in Occurrence, u \in Users \ Movers :
    o.edition = 1 /\ Current(o) /\ row[o.reminder].sent => told[o][u] > 0

Held(r) == \E t \in Ticks : \E o \in tick[t].due : o.reminder = r

\* A due reminder that no tick has read yet is sent sooner or later to each
\* member, unless it is moved or deleted or the member leaves.
DueIsTold ==
  \A o \in Occurrence, u \in Users :
    o \in Due /\ ~Held(o.reminder) /\ u \in members
      ~> told[o][u] > 0 \/ ~Current(o) \/ u \notin members
-----------------------------------------------------------------------------
\* Why the first two hold: while an occurrence is unsent, every notification
\* of it is owed to a tick that is about to mark it or to a failure.
Holding(o) == {t \in Ticks : o \in tick[t].due /\ tick[t].pc \in {"members", "insert"}}
Marking(o) == {t \in Ticks : o \in tick[t].due /\ tick[t].pc = "mark"}

Accounted ==
  \A o \in Occurrence, u \in Users :
    /\ Unsent(o) => told[o][u] <= Cardinality(Marking(o)) + faults
    /\ told[o][u] + Cardinality(Holding(o)) <= Cardinality(Ticks) + faults

\* No tick knows an occurrence that is not there yet.
NoFuture ==
  \A o \in Occurrence :
    row[o.reminder].edition < o.edition =>
      /\ \A u \in Users : told[o][u] = 0
      /\ \A t \in Ticks : o \notin tick[t].due

TicksTrue ==
  /\ Users \ Movers \subseteq members
  /\ \A t \in Ticks :
       /\ tick[t].pc = "insert" => Users \ Movers \subseteq tick[t].users
       /\ tick[t].pc = "mark" =>
            \A o \in tick[t].due, u \in Users \ Movers : told[o][u] > 0

IInv ==
  /\ TypeOK
  /\ Accounted
  /\ NoFuture
  /\ TicksTrue
  /\ SentIsTold
=============================================================================
