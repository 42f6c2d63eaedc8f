--------------------------- MODULE RemindersProofs ---------------------------
(***************************************************************************)
(* Reminders for every set of reminders and users, every finite number of  *)
(* overlapping ticks, and every number of moves and failures.              *)
(***************************************************************************)
EXTENDS Reminders, FiniteSetTheorems, TLAPS

(* Ticks that hold an occurrence and ticks that mark it are counted in Nat, *)
(* and together they are no more than all ticks.                           *)
LEMMA Counted ==
  ASSUME NEW o \in Occurrence
  PROVE  /\ IsFiniteSet(Holding(o)) /\ IsFiniteSet(Marking(o))
         /\ Cardinality(Holding(o)) \in Nat /\ Cardinality(Marking(o)) \in Nat
         /\ Cardinality(Holding(o)) + Cardinality(Marking(o)) <= Cardinality(Ticks)
         /\ Cardinality(Ticks) \in Nat
<1> DEFINE H == Holding(o)
           M == Marking(o)
<1>1. H \in SUBSET Ticks /\ M \in SUBSET Ticks /\ H \cup M \in SUBSET Ticks
  BY DEF Holding, Marking
<1>2. H \cap M = {}
  BY DEF Holding, Marking
<1>3. IsFiniteSet(Ticks) /\ Cardinality(Ticks) \in Nat
  BY RemindersAssumption, FS_CardinalityType
<1>4. IsFiniteSet(H) /\ IsFiniteSet(M) /\ Cardinality(H \cup M) <= Cardinality(Ticks)
  BY <1>1, <1>3, FS_Subset
<1>5. Cardinality(H) \in Nat /\ Cardinality(M) \in Nat
  BY <1>4, FS_CardinalityType
<1>6. Cardinality(H \cup M) = Cardinality(H) + Cardinality(M) - Cardinality(H \cap M)
  BY <1>4, FS_Union
<1>7. Cardinality(H \cap M) = 0
  BY <1>2, FS_EmptySet
<1>8. QED
  BY <1>3, <1>4, <1>5, <1>6, <1>7

(* Adding one tick to a count, and taking one away. *)
LEMMA OneMore ==
  ASSUME NEW S, IsFiniteSet(S), NEW t, t \notin S
  PROVE  Cardinality(S \cup {t}) = Cardinality(S) + 1
  BY FS_AddElement

LEMMA OneLess ==
  ASSUME NEW S, IsFiniteSet(S), NEW t
  PROVE  /\ t \in S => Cardinality(S \ {t}) = Cardinality(S) - 1
         /\ t \notin S => Cardinality(S \ {t}) = Cardinality(S)
  BY FS_RemoveElement

(* An occurrence that a tick knows has been reached by its reminder. *)
LEMMA Known ==
  ASSUME IInv, NEW t \in Ticks, NEW o \in tick[t].due
  PROVE  o \in Occurrence /\ o.edition <= row[o.reminder].edition
<1>1. o \in Occurrence
  BY DEF IInv, TypeOK, Tick, Idle
<1>2. row[o.reminder].edition \in Nat /\ o.edition \in Nat
  BY <1>1 DEF IInv, TypeOK, Row, Occurrence
<1>3. QED
  BY <1>1, <1>2 DEF IInv, NoFuture

-----------------------------------------------------------------------------
(* Requests, members and time *)

(* A row that keeps its edition, and does not become unsent again, *)
(* disturbs neither the accounts nor what ticks know.              *)
LEMMA RowChange ==
  ASSUME IInv, NEW r \in Reminders, NEW q \in Row,
         row' = [row EXCEPT ![r] = q],
         UNCHANGED <<members, tick, told, faults>>,
         \/ q.edition = row[r].edition /\ q.sent = row[r].sent
              /\ (q.exists => row[r].exists)
         \/ q.edition = row[r].edition + 1 /\ ~q.sent
  PROVE  IInv'
<1>1. TypeOK'
  BY DEF IInv, TypeOK
<1>2. \A o \in Occurrence : Holding(o)' = Holding(o) /\ Marking(o)' = Marking(o)
  BY DEF Holding, Marking
<1>3. row'[r] = q /\ \A p \in Reminders \ {r} : row'[p] = row[p]
  BY DEF IInv, TypeOK
<1>4. row[r].edition \in Nat
  BY DEF IInv, TypeOK, Row
<1>5. NoFuture'
  <2> SUFFICES ASSUME NEW o \in Occurrence, row'[o.reminder].edition < o.edition
               PROVE  row[o.reminder].edition < o.edition
    BY DEF IInv, NoFuture
  <2>1. o.edition \in Nat /\ o.reminder \in Reminders
    BY DEF Occurrence
  <2>2. QED
    BY <1>3, <1>4, <2>1
<1>6. Accounted'
  <2> SUFFICES ASSUME NEW o \in Occurrence, NEW u \in Users, Unsent(o)'
               PROVE  told[o][u] <= Cardinality(Marking(o)) + faults
    BY <1>2 DEF IInv, Accounted
  <2>1. o.edition \in Nat /\ o.reminder \in Reminders
    BY DEF Occurrence
  <2>2. CASE Unsent(o)
    BY <2>2 DEF IInv, Accounted
  <2>3. CASE ~Unsent(o)
    <3>1. row[o.reminder].edition < o.edition
      BY <1>3, <1>4, <2>1, <2>3 DEF Unsent, Current
    <3>2. told[o][u] = 0
      BY <3>1 DEF IInv, NoFuture
    <3>3. QED
      BY <3>2, Counted DEF IInv, TypeOK
  <2>4. QED
    BY <2>2, <2>3
<1>7. TicksTrue'
  BY DEF IInv, TicksTrue
<1>8. SentIsTold'
  <2> SUFFICES ASSUME NEW o \in Occurrence, NEW u \in Users \ Movers,
                      o.edition = 1, Current(o)', row'[o.reminder].sent
               PROVE  told[o][u] > 0
    BY DEF SentIsTold
  <2>1. o.reminder \in Reminders
    BY DEF Occurrence
  <2>2. Current(o) /\ row[o.reminder].sent
    BY <1>3, <2>1 DEF Current
  <2>3. QED
    BY <2>2 DEF IInv, SentIsTold
<1>9. QED
  BY <1>1, <1>5, <1>6, <1>7, <1>8 DEF IInv

LEMMA UserInv ==
  ASSUME IInv, UserStep \/ \E r \in Reminders : Matures(r)
  PROVE  IInv'
<1>1. ASSUME NEW r \in Reminders, Create(r) \/ Reschedule(r) PROVE IInv'
  <2>1. row[r].edition \in Nat /\ row[r].edition + 1 \in 0 .. MaxEditions
    BY <1>1, RemindersAssumption DEF Create, Reschedule, IInv, TypeOK, Row
  <2>2. /\ Scheduled(r) \in Row
        /\ Scheduled(r).edition = row[r].edition + 1 /\ ~Scheduled(r).sent
    BY <2>1 DEF Scheduled, Row
  <2>3. QED
    BY <1>1, <2>2, RowChange DEF Create, Reschedule
<1>2. ASSUME NEW r \in Reminders, Delete(r) PROVE IInv'
  <2> DEFINE q == [row[r] EXCEPT !.exists = FALSE]
  <2>1. q \in Row /\ q.edition = row[r].edition /\ q.sent = row[r].sent /\ ~q.exists
    BY DEF IInv, TypeOK, Row
  <2>2. row' = [row EXCEPT ![r] = q] /\ UNCHANGED <<members, tick, told, faults>>
    BY <1>2 DEF Delete
  <2>3. QED
    BY <2>1, <2>2, RowChange
<1>3. ASSUME NEW r \in Reminders, Matures(r) PROVE IInv'
  <2> DEFINE q == [row[r] EXCEPT !.due = TRUE]
  <2>1. /\ q \in Row /\ q.edition = row[r].edition /\ q.sent = row[r].sent
        /\ q.exists = row[r].exists
    BY DEF IInv, TypeOK, Row
  <2>2. row' = [row EXCEPT ![r] = q] /\ UNCHANGED <<members, tick, told, faults>>
    BY <1>3 DEF Matures
  <2>3. QED
    BY <2>1, <2>2, RowChange
<1>4. ASSUME NEW u \in Movers, JoinOrLeave(u) PROVE IInv'
  <2>1. /\ UNCHANGED <<row, tick, told, faults>>
        /\ members' \subseteq Users /\ Users \ Movers \subseteq members'
    BY <1>4, RemindersAssumption DEF JoinOrLeave, IInv, TypeOK, TicksTrue
  <2>2. \A o \in Occurrence : Holding(o)' = Holding(o) /\ Marking(o)' = Marking(o)
    BY <2>1 DEF Holding, Marking
  <2>3. TypeOK' /\ TicksTrue'
    BY <2>1 DEF IInv, TypeOK, TicksTrue
  <2>4. Accounted'
    BY <2>1, <2>2 DEF IInv, Accounted, Unsent, Current
  <2>5. NoFuture' /\ SentIsTold'
    BY <2>1 DEF IInv, NoFuture, SentIsTold, Current
  <2>6. QED
    BY <2>3, <2>4, <2>5 DEF IInv
<1>5. QED
  BY <1>1, <1>2, <1>3, <1>4 DEF UserStep

-----------------------------------------------------------------------------
(* The scheduler *)

(* What a tick's step does to those that hold and those that mark. *)
LEMMA Moves ==
  ASSUME IInv, NEW t \in Ticks, NEW k \in Tick, Becomes(t, k), NEW o \in Occurrence
  PROVE  /\ Holding(o)' = IF o \in k.due /\ k.pc \in {"members", "insert"}
                          THEN Holding(o) \cup {t} ELSE Holding(o) \ {t}
         /\ Marking(o)' = IF o \in k.due /\ k.pc = "mark"
                          THEN Marking(o) \cup {t} ELSE Marking(o) \ {t}
<1>1. tick'[t] = k /\ \A s \in Ticks \ {t} : tick'[s] = tick[s]
  BY DEF Becomes, IInv, TypeOK
<1>2. QED
  BY <1>1 DEF Holding, Marking

(* A tick that holds or marks an occurrence as before. *)
LEMMA Stays ==
  ASSUME IInv, NEW t \in Ticks, NEW k \in Tick, Becomes(t, k), NEW o \in Occurrence
  PROVE  /\ (o \in k.due /\ k.pc \in {"members", "insert"} <=> t \in Holding(o))
              => Holding(o)' = Holding(o)
         /\ (o \in k.due /\ k.pc = "mark" <=> t \in Marking(o))
              => Marking(o)' = Marking(o)
<1>1. tick'[t] = k /\ \A s \in Ticks \ {t} : tick'[s] = tick[s]
  BY DEF Becomes, IInv, TypeOK
<1>2. QED
  BY <1>1 DEF Holding, Marking

LEMMA FindDueInv ==
  ASSUME IInv, NEW t \in Ticks, FindDue(t)
  PROVE  IInv'
<1> DEFINE k == [Idle EXCEPT !.pc = "members", !.due = Due]
<1>1. /\ tick[t].pc = "idle" /\ Becomes(t, k)
      /\ UNCHANGED <<row, members, told, faults>>
  BY DEF FindDue
<1>2. k \in Tick /\ k.pc = "members" /\ k.due = Due
  BY DEF Tick, Idle, Due
<1>3. tick' \in [Ticks -> Tick] /\ tick'[t] = k
      /\ \A s \in Ticks \ {t} : tick'[s] = tick[s]
  BY <1>1, <1>2 DEF Becomes, IInv, TypeOK
<1>4. TypeOK'
  BY <1>1, <1>3 DEF IInv, TypeOK
<1>5. Accounted'
  <2> SUFFICES ASSUME NEW o \in Occurrence, NEW u \in Users
               PROVE  /\ Unsent(o)' => told[o][u] <= Cardinality(Marking(o)') + faults
                      /\ told[o][u] + Cardinality(Holding(o)')
                           <= Cardinality(Ticks) + faults
    BY <1>1 DEF Accounted
  <2>1. t \notin Holding(o) /\ t \notin Marking(o)
    BY <1>1 DEF Holding, Marking
  <2>2. Marking(o)' = Marking(o)
    BY <1>1, <1>2, <2>1, Stays
  <2>3. Unsent(o)' = Unsent(o)
    BY <1>1 DEF Unsent, Current
  <2>4. told[o][u] \in Nat /\ faults \in Nat
    BY DEF IInv, TypeOK
  <2>5. CASE o \in Due
    <3>1. Holding(o)' = Holding(o) \cup {t}
      BY <1>1, <1>2, <2>5, Moves
    <3>2. told[o][u] <= Cardinality(Marking(o)) + faults
      BY <2>5 DEF Due, IInv, Accounted
    <3>3. /\ Cardinality(Holding(o)') + Cardinality(Marking(o)') <= Cardinality(Ticks)
          /\ Cardinality(Holding(o)') \in Nat
      <4>1. Holding(o)' \cup Marking(o)' \in SUBSET Ticks
            /\ Holding(o)' \cap Marking(o)' = {}
        BY DEF Holding, Marking
      <4>2. IsFiniteSet(Holding(o)') /\ IsFiniteSet(Marking(o)')
        BY <2>2, <3>1, Counted, FS_AddElement
      <4>3. Cardinality(Holding(o)' \cup Marking(o)') <= Cardinality(Ticks)
        BY <4>1, RemindersAssumption, FS_Subset
      <4>4. Cardinality(Holding(o)' \cup Marking(o)')
              = Cardinality(Holding(o)') + Cardinality(Marking(o)')
                  - Cardinality(Holding(o)' \cap Marking(o)')
        BY <4>2, FS_Union
      <4>5. Cardinality(Holding(o)' \cap Marking(o)') = 0
        BY <4>1, FS_EmptySet
      <4>6. Cardinality(Holding(o)') \in Nat /\ Cardinality(Marking(o)') \in Nat
        BY <4>2, FS_CardinalityType
      <4>7. QED
        BY <4>3, <4>4, <4>5, <4>6
    <3>4. Cardinality(Marking(o)) \in Nat /\ Cardinality(Ticks) \in Nat
      BY Counted
    <3>5. QED
      BY <2>2, <2>4, <3>2, <3>3, <3>4
  <2>6. CASE o \notin Due
    <3>1. Holding(o)' = Holding(o)
      BY <1>1, <1>2, <2>1, <2>6, Stays
    <3>2. QED
      BY <2>2, <2>3, <3>1 DEF IInv, Accounted
  <2>7. QED
    BY <2>5, <2>6
<1>6. NoFuture'
  <2> SUFFICES ASSUME NEW o \in Occurrence, row[o.reminder].edition < o.edition
               PROVE  \A s \in Ticks : o \notin tick'[s].due
    BY <1>1 DEF IInv, NoFuture
  <2>1. o \notin Due
    <3>1. row[o.reminder].edition \in Nat /\ o.edition \in Nat
      BY DEF IInv, TypeOK, Row, Occurrence
    <3>2. QED
      BY <3>1 DEF Due, Unsent, Current
  <2>2. QED
    BY <1>2, <1>3, <2>1 DEF IInv, NoFuture
<1>7. TicksTrue'
  BY <1>1, <1>2, <1>3 DEF IInv, TicksTrue
<1>8. SentIsTold'
  BY <1>1 DEF IInv, SentIsTold, Current
<1>9. QED
  BY <1>4, <1>5, <1>6, <1>7, <1>8 DEF IInv

LEMMA ReadMembersInv ==
  ASSUME IInv, NEW t \in Ticks, ReadMembers(t)
  PROVE  IInv'
<1> DEFINE k == [tick[t] EXCEPT !.pc = "insert", !.users = members]
<1>1. /\ tick[t].pc = "members" /\ Becomes(t, k)
      /\ UNCHANGED <<row, members, told, faults>>
  BY DEF ReadMembers
<1>2. /\ k \in Tick /\ k.pc = "insert" /\ k.due = tick[t].due
      /\ k.users = members
  <2>1. tick[t] \in Tick /\ tick[t] # Idle
    BY <1>1 DEF IInv, TypeOK, Idle
  <2>2. tick[t] \in [pc : {"members", "insert", "mark"}, due : SUBSET Occurrence,
                     users : SUBSET Users]
    BY <2>1 DEF Tick
  <2>3. members \in SUBSET Users
    BY DEF IInv, TypeOK
  <2>4. QED
    BY <2>2, <2>3 DEF Tick
<1>3. tick' \in [Ticks -> Tick] /\ tick'[t] = k
      /\ \A s \in Ticks \ {t} : tick'[s] = tick[s]
  BY <1>1, <1>2 DEF Becomes, IInv, TypeOK
<1>4. TypeOK'
  BY <1>1, <1>3 DEF IInv, TypeOK
<1>5. \A o \in Occurrence : Holding(o)' = Holding(o) /\ Marking(o)' = Marking(o)
  <2> SUFFICES ASSUME NEW o \in Occurrence
               PROVE  Holding(o)' = Holding(o) /\ Marking(o)' = Marking(o)
    OBVIOUS
  <2>1. t \notin Marking(o) /\ (o \in tick[t].due <=> t \in Holding(o))
    BY <1>1 DEF Holding, Marking
  <2>2. QED
    BY <1>1, <1>2, <2>1, Stays
<1>6. Accounted'
  BY <1>1, <1>5 DEF IInv, Accounted, Unsent, Current
<1>7. NoFuture'
  BY <1>1, <1>2, <1>3 DEF IInv, NoFuture
<1>8. TicksTrue'
  BY <1>1, <1>2, <1>3 DEF IInv, TicksTrue
<1>9. SentIsTold'
  BY <1>1 DEF IInv, SentIsTold, Current
<1>10. QED
  BY <1>4, <1>6, <1>7, <1>8, <1>9 DEF IInv

LEMMA InsertInv ==
  ASSUME IInv, NEW t \in Ticks, Insert(t)
  PROVE  IInv'
<1> DEFINE k == [tick[t] EXCEPT !.pc = "mark"]
           new(o, u) == IF o \in tick[t].due /\ u \in tick[t].users THEN 1 ELSE 0
<1>1. /\ tick[t].pc = "insert"
      /\ UNCHANGED <<row, members>>
  BY DEF Insert
<1>2. \/ Becomes(t, k) /\ faults' = faults
      \/ Becomes(t, Idle) /\ faults' = faults + 1
  BY DEF Insert, Fault
<1>3. /\ k \in Tick /\ k.pc = "mark" /\ k.due = tick[t].due /\ k.users = tick[t].users
      /\ Idle \in Tick /\ Idle.pc = "idle" /\ Idle.due = {}
  BY <1>1 DEF IInv, TypeOK, Tick, Idle
<1>4. /\ told' \in [Occurrence -> [Users -> Nat]]
      /\ \A o \in Occurrence, u \in Users : told'[o][u] = told[o][u] + new(o, u)
  BY DEF Insert, IInv, TypeOK
<1>5. /\ tick' \in [Ticks -> Tick] /\ tick'[t] \in {k, Idle}
      /\ \A s \in Ticks \ {t} : tick'[s] = tick[s]
  BY <1>2, <1>3 DEF Becomes, IInv, TypeOK
<1>6. TypeOK'
  BY <1>1, <1>2, <1>4, <1>5 DEF IInv, TypeOK
<1>7. Accounted'
  <2> SUFFICES ASSUME NEW o \in Occurrence, NEW u \in Users
               PROVE  /\ Unsent(o)' => told'[o][u] <= Cardinality(Marking(o)') + faults'
                      /\ told'[o][u] + Cardinality(Holding(o)')
                           <= Cardinality(Ticks) + faults'
    BY DEF Accounted
  <2>1. Unsent(o)' = Unsent(o)
    BY <1>1 DEF Unsent, Current
  <2>2. /\ told[o][u] \in Nat /\ faults \in Nat /\ new(o, u) \in {0, 1}
        /\ Cardinality(Holding(o)) \in Nat /\ Cardinality(Marking(o)) \in Nat
        /\ Cardinality(Ticks) \in Nat
        /\ IsFiniteSet(Holding(o)) /\ IsFiniteSet(Marking(o))
    BY Counted DEF IInv, TypeOK
  <2>3. t \notin Marking(o) /\ (o \in tick[t].due <=> t \in Holding(o))
    BY <1>1 DEF Holding, Marking
  <2>4. Holding(o)' = Holding(o) \ {t}
    BY <1>2, <1>3, Moves
  <2>5. CASE o \notin tick[t].due
    <3>1. Holding(o)' = Holding(o) /\ Marking(o)' = Marking(o)
      BY <1>2, <1>3, <2>3, <2>5, Stays
    <3>2. told'[o][u] = told[o][u]
      BY <1>4, <2>2, <2>5
    <3>3. QED
      BY <1>2, <2>1, <2>2, <3>1, <3>2 DEF IInv, Accounted
  <2>6. CASE o \in tick[t].due
    <3>1. Cardinality(Holding(o)') = Cardinality(Holding(o)) - 1
      BY <2>2, <2>3, <2>4, <2>6, OneLess
    <3>2. Cardinality(Marking(o)') + faults' = Cardinality(Marking(o)) + faults + 1
      <4>1. CASE Becomes(t, k) /\ faults' = faults
        <5>1. Marking(o)' = Marking(o) \cup {t}
          BY <1>3, <2>6, <4>1, Moves
        <5>2. QED
          BY <2>2, <2>3, <4>1, <5>1, OneMore
      <4>2. CASE Becomes(t, Idle) /\ faults' = faults + 1
        <5>1. Marking(o)' = Marking(o)
          BY <1>3, <2>3, <4>2, Moves
        <5>2. QED
          BY <2>2, <4>2, <5>1
      <4>3. QED
        BY <1>2, <4>1, <4>2
    <3>3. told'[o][u] <= told[o][u] + 1
      BY <1>4, <2>2
    <3>4. faults' >= faults /\ faults' \in Nat /\ told'[o][u] \in Nat
      BY <1>2, <2>2, <1>4
    <3>5. Unsent(o) => told[o][u] <= Cardinality(Marking(o)) + faults
      BY DEF IInv, Accounted
    <3>6. told[o][u] + Cardinality(Holding(o)) <= Cardinality(Ticks) + faults
      BY DEF IInv, Accounted
    <3>7. Unsent(o)' => told'[o][u] <= Cardinality(Marking(o)') + faults'
      BY <2>1, <2>2, <3>2, <3>3, <3>4, <3>5
    <3>8. told'[o][u] + Cardinality(Holding(o)') <= Cardinality(Ticks) + faults'
      BY <2>2, <3>1, <3>3, <3>4, <3>6
    <3>9. QED
      BY <3>7, <3>8
  <2>7. QED
    BY <2>5, <2>6
<1>8. NoFuture'
  <2> SUFFICES ASSUME NEW o \in Occurrence, row[o.reminder].edition < o.edition
               PROVE  /\ \A u \in Users : told'[o][u] = 0
                      /\ \A s \in Ticks : o \notin tick'[s].due
    BY <1>1 DEF NoFuture
  <2>1. /\ \A u \in Users : told[o][u] = 0
        /\ \A s \in Ticks : o \notin tick[s].due
    BY DEF IInv, NoFuture
  <2>2. \A u \in Users : told'[o][u] = 0
    BY <1>4, <2>1
  <2>3. \A s \in Ticks : o \notin tick'[s].due
    BY <1>3, <1>5, <2>1
  <2>4. QED
    BY <2>2, <2>3
<1>9. TicksTrue'
  <2>1. Users \ Movers \subseteq members'
    BY <1>1 DEF IInv, TicksTrue
  <2>2. \A o \in Occurrence, u \in Users : told[o][u] > 0 => told'[o][u] > 0
    BY <1>4 DEF IInv, TypeOK
  <2>3. ASSUME NEW s \in Ticks, tick'[s].pc = "insert"
        PROVE  Users \ Movers \subseteq tick'[s].users
    BY <1>3, <1>5, <2>3 DEF IInv, TicksTrue
  <2>4. ASSUME NEW s \in Ticks, tick'[s].pc = "mark",
               NEW o \in tick'[s].due, NEW u \in Users \ Movers
        PROVE  told'[o][u] > 0
    <3>1. CASE s = t
      <4>1. o \in tick[t].due /\ o \in Occurrence /\ u \in tick[t].users
        BY <1>1, <1>3, <1>5, <2>4, <3>1, Known DEF IInv, TicksTrue
      <4>2. told'[o][u] = told[o][u] + 1 /\ told[o][u] \in Nat
        BY <1>4, <4>1 DEF IInv, TypeOK
      <4>3. QED
        BY <4>2
    <3>2. CASE s # t
      <4>1. tick'[s] = tick[s]
        BY <1>5, <3>2
      <4>2. o \in Occurrence /\ told[o][u] > 0
        BY <2>4, <4>1, Known DEF IInv, TicksTrue
      <4>3. QED
        BY <2>2, <4>2
    <3>3. QED
      BY <3>1, <3>2
  <2>5. QED
    BY <2>1, <2>3, <2>4 DEF TicksTrue
<1>10. SentIsTold'
  <2>1. \A o \in Occurrence, u \in Users : told[o][u] > 0 => told'[o][u] > 0
    BY <1>4 DEF IInv, TypeOK
  <2>2. QED
    BY <1>1, <2>1 DEF IInv, SentIsTold, Current
<1>11. QED
  BY <1>6, <1>7, <1>8, <1>9, <1>10 DEF IInv

(* A tick that comes to its end leaves the accounts right if every *)
(* occurrence it was about to mark is sent or charged to a failure. *)
LEMMA EndInv ==
  ASSUME IInv, NEW t \in Ticks, Becomes(t, Idle),
         UNCHANGED <<members, told>>,
         row' \in [Reminders -> Row],
         \A r \in Reminders : row'[r].exists = row[r].exists
                              /\ row'[r].edition = row[r].edition,
         faults' \in {faults, faults + 1},
         \A o \in Occurrence : Unsent(o)' =>
            Unsent(o) /\ (o \notin tick[t].due \/ faults' = faults + 1)
  PROVE  TypeOK' /\ Accounted' /\ NoFuture' /\ TicksTrue'
<1>1. Idle \in Tick /\ Idle.pc = "idle" /\ Idle.due = {}
  BY DEF Tick, Idle
<1>2. /\ tick' \in [Ticks -> Tick] /\ tick'[t] = Idle
      /\ \A s \in Ticks \ {t} : tick'[s] = tick[s]
  BY <1>1 DEF Becomes, IInv, TypeOK
<1>3. TypeOK'
  BY <1>2 DEF IInv, TypeOK
<1>4. Accounted'
  <2> SUFFICES ASSUME NEW o \in Occurrence, NEW u \in Users
               PROVE  /\ Unsent(o)' => told[o][u] <= Cardinality(Marking(o)') + faults'
                      /\ told[o][u] + Cardinality(Holding(o)')
                           <= Cardinality(Ticks) + faults'
    BY DEF Accounted
  <2>1. Holding(o)' = Holding(o) \ {t} /\ Marking(o)' = Marking(o) \ {t}
    BY <1>1, Moves
  <2>2. /\ told[o][u] \in Nat /\ faults \in Nat
        /\ Cardinality(Holding(o)) \in Nat /\ Cardinality(Marking(o)) \in Nat
        /\ Cardinality(Ticks) \in Nat
        /\ IsFiniteSet(Holding(o)) /\ IsFiniteSet(Marking(o))
    BY Counted DEF IInv, TypeOK
  <2>3. /\ Cardinality(Holding(o)') <= Cardinality(Holding(o))
        /\ Cardinality(Holding(o)') \in Nat
        /\ Cardinality(Marking(o)') + 1 >= Cardinality(Marking(o))
        /\ Cardinality(Marking(o)') \in Nat
        /\ o \notin tick[t].due => Marking(o)' = Marking(o)
    <3>1. IsFiniteSet(Holding(o)') /\ IsFiniteSet(Marking(o)')
      BY <2>1, <2>2, FS_RemoveElement
    <3>2. Cardinality(Holding(o)') \in Nat /\ Cardinality(Marking(o)') \in Nat
      BY <3>1, FS_CardinalityType
    <3>3. o \notin tick[t].due => t \notin Marking(o)
      BY DEF Marking
    <3>4. QED
      BY <2>1, <2>2, <3>2, <3>3, OneLess
  <2>4. told[o][u] + Cardinality(Holding(o)) <= Cardinality(Ticks) + faults
    BY DEF IInv, Accounted
  <2>5. Unsent(o) => told[o][u] <= Cardinality(Marking(o)) + faults
    BY DEF IInv, Accounted
  <2>6. told[o][u] + Cardinality(Holding(o)') <= Cardinality(Ticks) + faults'
    BY <2>2, <2>3, <2>4
  <2>7. ASSUME Unsent(o)' PROVE told[o][u] <= Cardinality(Marking(o)') + faults'
    <3>1. CASE o \notin tick[t].due
      BY <2>2, <2>3, <2>5, <2>7, <3>1
    <3>2. CASE faults' = faults + 1
      BY <2>2, <2>3, <2>5, <2>7, <3>2
    <3>3. QED
      BY <2>7, <3>1, <3>2
  <2>8. QED
    BY <2>6, <2>7
<1>5. NoFuture'
  <2> SUFFICES ASSUME NEW o \in Occurrence, row'[o.reminder].edition < o.edition
               PROVE  /\ \A u \in Users : told[o][u] = 0
                      /\ \A s \in Ticks : o \notin tick'[s].due
    BY DEF NoFuture
  <2>1. row[o.reminder].edition < o.edition
    BY DEF Occurrence
  <2>2. QED
    BY <1>1, <1>2, <2>1 DEF IInv, NoFuture
<1>6. TicksTrue'
  BY <1>1, <1>2 DEF IInv, TicksTrue
<1>7. QED
  BY <1>3, <1>4, <1>5, <1>6

LEMMA MarkInv ==
  ASSUME IInv, NEW t \in Ticks, Mark(t)
  PROVE  IInv'
<1> DEFINE marked(r) == \E o \in tick[t].due : o.reminder = r
<1>1. /\ tick[t].pc = "mark" /\ Becomes(t, Idle)
      /\ UNCHANGED <<members, told, faults>>
  BY DEF Mark
<1>2. /\ row' \in [Reminders -> Row]
      /\ \A r \in Reminders :
           /\ row'[r].exists = row[r].exists /\ row'[r].edition = row[r].edition
           /\ row'[r].sent <=> row[r].sent \/ (row[r].exists /\ marked(r))
  BY DEF Mark, IInv, TypeOK, Row
<1>3. ASSUME NEW o \in Occurrence, Unsent(o)'
      PROVE  Unsent(o) /\ o \notin tick[t].due
  <2>1. o.reminder \in Reminders
    BY DEF Occurrence
  <2>2. QED
    BY <1>2, <1>3, <2>1 DEF Unsent, Current
<1>4. TypeOK' /\ Accounted' /\ NoFuture' /\ TicksTrue'
  BY <1>1, <1>2, <1>3, EndInv
<1>5. SentIsTold'
  <2> SUFFICES ASSUME NEW o \in Occurrence, NEW u \in Users \ Movers,
                      o.edition = 1, Current(o)', row'[o.reminder].sent
               PROVE  told[o][u] > 0
    BY <1>1 DEF SentIsTold
  <2>1. o.reminder \in Reminders
    BY DEF Occurrence
  <2>2. Current(o) /\ (row[o.reminder].sent \/ marked(o.reminder))
    BY <1>2, <2>1 DEF Current
  <2>3. CASE row[o.reminder].sent
    BY <2>2, <2>3 DEF IInv, SentIsTold
  <2>4. CASE marked(o.reminder)
    <3>1. PICK p \in tick[t].due : p.reminder = o.reminder
      BY <2>4
    <3>2. p \in Occurrence /\ p.edition <= 1
      BY <2>2, <3>1, Known DEF Current
    <3>3. p = o
      BY <3>1, <3>2 DEF Occurrence
    <3>4. QED
      BY <1>1, <3>3 DEF IInv, TicksTrue
  <2>5. QED
    BY <2>2, <2>3, <2>4
<1>6. QED
  BY <1>4, <1>5 DEF IInv

LEMMA TickFailsInv ==
  ASSUME IInv, NEW t \in Ticks, TickFails(t)
  PROVE  IInv'
<1>1. /\ Becomes(t, Idle) /\ faults' = faults + 1
      /\ UNCHANGED <<row, members, told>>
  BY DEF TickFails, Fault
<1>2. \A o \in Occurrence : Unsent(o)' = Unsent(o)
  BY <1>1 DEF Unsent, Current
<1>3. row' \in [Reminders -> Row]
  BY <1>1 DEF IInv, TypeOK
<1>4. TypeOK' /\ Accounted' /\ NoFuture' /\ TicksTrue'
  BY <1>1, <1>2, <1>3, EndInv
<1>5. SentIsTold'
  BY <1>1 DEF IInv, SentIsTold, Current
<1>6. QED
  BY <1>4, <1>5 DEF IInv

-----------------------------------------------------------------------------
LEMMA InitInv == Init => IInv
<1> SUFFICES ASSUME Init PROVE IInv
  OBVIOUS
<1>1. TypeOK
  BY RemindersAssumption DEF Init, TypeOK, NoRow, Row, Tick
<1>2. \A o \in Occurrence : Holding(o) = {} /\ Marking(o) = {} /\ ~Current(o)
  BY DEF Init, Holding, Marking, Idle, Current, NoRow, Occurrence
<1>3. Accounted
  <2> SUFFICES ASSUME NEW o \in Occurrence, NEW u \in Users
               PROVE  told[o][u] + Cardinality(Holding(o)) <= Cardinality(Ticks) + faults
    BY <1>2 DEF Accounted, Unsent
  <2>1. told[o][u] = 0 /\ faults = 0
    BY DEF Init
  <2>2. Cardinality(Holding(o)) = 0 /\ Cardinality(Ticks) \in Nat
    BY <1>2, FS_EmptySet, Counted
  <2>3. QED
    BY <2>1, <2>2
<1>4. NoFuture /\ TicksTrue
  BY DEF Init, NoFuture, TicksTrue, Idle
<1>5. SentIsTold
  BY <1>2 DEF SentIsTold
<1>6. QED
  BY <1>1, <1>3, <1>4, <1>5 DEF IInv

LEMMA NextInv == IInv /\ [Next]_vars => IInv'
<1> SUFFICES ASSUME IInv, [Next]_vars PROVE IInv'
  OBVIOUS
<1>1. CASE UserStep \/ \E r \in Reminders : Matures(r)
  BY <1>1, UserInv
<1>2. ASSUME NEW t \in Ticks, FindDue(t) \/ TickStep(t) PROVE IInv'
  BY <1>2, FindDueInv, ReadMembersInv, InsertInv, MarkInv, TickFailsInv DEF TickStep
<1>3. CASE UNCHANGED vars
  <2>1. \A o \in Occurrence : Holding(o)' = Holding(o) /\ Marking(o)' = Marking(o)
    BY <1>3 DEF vars, Holding, Marking
  <2>2. Accounted'
    BY <1>3, <2>1 DEF IInv, vars, Accounted, Unsent, Current
  <2>3. TypeOK' /\ NoFuture' /\ TicksTrue' /\ SentIsTold'
    BY <1>3 DEF IInv, vars, TypeOK, NoFuture, TicksTrue, SentIsTold, Current
  <2>4. QED
    BY <2>2, <2>3 DEF IInv
<1>4. QED
  BY <1>1, <1>2, <1>3 DEF Next

(* The inductive invariant: every notification of an unsent occurrence is *)
(* owed to a tick about to mark it or to a failure.                       *)
THEOREM Invariance == Spec => []IInv
  BY InitInv, NextInv, PTL DEF Spec

(* The type invariant. *)
THEOREM TypeCorrect == Spec => []TypeOK
<1>1. IInv => TypeOK
  BY DEF IInv
<1>2. QED
  BY <1>1, Invariance, PTL

(* However ticks overlap, fail and race with PATCH and DELETE, a member is *)
(* told of an occurrence at most once per concurrent tick and failure.     *)
THEOREM DuplicatesFew == Spec => []DuplicatesBounded
<1>1. IInv => DuplicatesBounded
  <2> SUFFICES ASSUME IInv, NEW o \in Occurrence, NEW u \in Users
               PROVE  told[o][u] <= Cardinality(Ticks) + faults
    BY DEF DuplicatesBounded
  <2>1. told[o][u] + Cardinality(Holding(o)) <= Cardinality(Ticks) + faults
    BY DEF IInv, Accounted
  <2>2. QED
    BY <2>1, Counted DEF IInv, TypeOK
<1>2. QED
  BY <1>1, Invariance, PTL

(* sentAt of a reminder that was never moved tells the truth: it is set *)
(* only after every lasting member's notification is in the table.      *)
THEOREM SentMeansTold == Spec => []SentIsTold
<1>1. IInv => SentIsTold
  BY DEF IInv
<1>2. QED
  BY <1>1, Invariance, PTL
=============================================================================
