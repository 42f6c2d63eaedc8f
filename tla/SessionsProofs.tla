--------------------------- MODULE SessionsProofs ---------------------------
(***************************************************************************)
(* Sessions for every finite set of overlapping requests, and any number   *)
(* of sessions, guesses, revocations and failures; then the session of the *)
(* browser tab and the page that is open, for any number of calls in       *)
(* flight, rows and groups.                                                *)
(***************************************************************************)
EXTENDS Sessions, WebClient, FiniteSetTheorems, TLAPS

(* A set that loses an element or more, and one that gains one at most. *)
LEMMA Smaller ==
  ASSUME NEW S, IsFiniteSet(S), NEW T \in SUBSET S
  PROVE  /\ IsFiniteSet(T) /\ Cardinality(T) \in Nat /\ Cardinality(S) \in Nat
         /\ Cardinality(T) <= Cardinality(S)
  BY FS_Subset, FS_CardinalityType

LEMMA OneLess ==
  ASSUME NEW S, IsFiniteSet(S), NEW x \in S, NEW T \in SUBSET (S \ {x})
  PROVE  /\ IsFiniteSet(T) /\ Cardinality(T) \in Nat /\ Cardinality(S) \in Nat
         /\ Cardinality(T) <= Cardinality(S) - 1
<1>1. IsFiniteSet(S \ {x}) /\ Cardinality(S \ {x}) = Cardinality(S) - 1
  BY FS_RemoveElement
<1>2. QED
  BY <1>1, Smaller, FS_CardinalityType

LEMMA OneMore ==
  ASSUME NEW S, IsFiniteSet(S), NEW x, NEW T \in SUBSET (S \cup {x})
  PROVE  /\ IsFiniteSet(T) /\ Cardinality(T) \in Nat /\ Cardinality(S) \in Nat
         /\ Cardinality(T) <= Cardinality(S) + 1
<1>1. IsFiniteSet(S \cup {x}) /\ Cardinality(S) \in Nat
  BY FS_AddElement, FS_CardinalityType
<1>2. Cardinality(S \cup {x}) = IF x \in S THEN Cardinality(S) ELSE Cardinality(S) + 1
  BY FS_AddElement
<1>3. Cardinality(T) <= Cardinality(S \cup {x}) /\ Cardinality(T) \in Nat
      /\ IsFiniteSet(T) /\ Cardinality(S \cup {x}) \in Nat
  BY <1>1, Smaller
<1>4. QED
  BY <1>1, <1>2, <1>3

LEMMA Finite ==
  /\ IsFiniteSet(Ids) /\ IsFiniteSet(Sources) /\ IsFiniteSet(Survivors)
  /\ IsFiniteSet(Requests) /\ IsFiniteSet(OldLogins)
  /\ Cardinality(Requests) \in Nat /\ Cardinality(Requests) >= 1
<1>1. IsFiniteSet(Ids)
  BY FS_Interval, SessionsAssumption DEF Ids
<1>2. IsFiniteSet(Requests) /\ Requests # {}
  BY SessionsAssumption
<1>3. /\ Sources \in SUBSET Ids /\ Survivors \in SUBSET Ids
      /\ OldLogins \in SUBSET Requests
  BY DEF Sources, Survivors, Live, OldLogins
<1>4. Cardinality(Requests) \in Nat /\ Cardinality(Requests) # 0
  BY <1>2, FS_CardinalityType, FS_EmptySet
<1>5. QED
  BY <1>1, <1>2, <1>3, <1>4, FS_Subset

LEMMA Types ==
  ASSUME IInv
  PROVE  /\ Idle \in Request /\ Idle.pc = "idle" /\ Idle.root = 0
         /\ \A r \in Requests : /\ req[r] \in Request /\ req[r].root \in Nat
                                /\ req[r].root <= revocations
         /\ \A s \in Ids : /\ session[s] \in Row /\ session[s].root \in Nat
                           /\ session[s].login \in Nat /\ s \in Nat
         /\ made \in Nat /\ MaxSessions \in Nat /\ revocations \in Nat
         /\ session \in [Ids -> Row] /\ req \in [Requests -> Request]
<1>1. MaxSessions \in Nat
  BY SessionsAssumption
<1>2. TypeOK /\ Holding
  BY DEF IInv
<1>3. Idle \in Request
  BY <1>1 DEF Idle, Request
<1>4. QED
  BY <1>1, <1>2, <1>3 DEF TypeOK, Holding, Idle, Request, Row, Ids

-----------------------------------------------------------------------------
(* What leaves the count of survivors as it is, or lowers it *)

LEMMA CountKept ==
  ASSUME IInv, Sources' \in SUBSET Sources, OldLogins' \in SUBSET OldLogins
  PROVE  SurvivorsCounted'
<1>1. PICK S, L : S = Sources' /\ L = OldLogins'
  OBVIOUS
<1>2. /\ Cardinality(S) <= Cardinality(Sources) /\ Cardinality(S) \in Nat
      /\ Cardinality(L) <= Cardinality(OldLogins) /\ Cardinality(L) \in Nat
      /\ Cardinality(Sources) \in Nat /\ Cardinality(OldLogins) \in Nat
  BY <1>1, Finite, Smaller
<1>3. SurvivorsCounted
  BY DEF IInv
<1>4. Cardinality(S) + Cardinality(L) <= Cardinality(Requests) - 1
  BY <1>2, <1>3, Finite DEF SurvivorsCounted
<1>5. QED
  BY <1>1, <1>4 DEF SurvivorsCounted

(* An old login becomes a row. *)
LEMMA CountLogin ==
  ASSUME IInv, NEW n, NEW r \in OldLogins, Sources' \in SUBSET (Sources \cup {n}),
         OldLogins' \in SUBSET (OldLogins \ {r})
  PROVE  SurvivorsCounted'
<1>1. PICK S, L : S = Sources' /\ L = OldLogins'
  OBVIOUS
<1>2. /\ Cardinality(S) <= Cardinality(Sources) + 1 /\ Cardinality(S) \in Nat
      /\ Cardinality(Sources) \in Nat
  BY <1>1, Finite, OneMore
<1>3. /\ Cardinality(L) <= Cardinality(OldLogins) - 1 /\ Cardinality(L) \in Nat
      /\ Cardinality(OldLogins) \in Nat
  BY <1>1, Finite, OneLess
<1>4. SurvivorsCounted
  BY DEF IInv
<1>5. Cardinality(S) + Cardinality(L) <= Cardinality(Requests) - 1
  BY <1>2, <1>3, <1>4, Finite DEF SurvivorsCounted
<1>6. QED
  BY <1>1, <1>5 DEF SurvivorsCounted

(* An old row becomes another one. *)
LEMMA CountRotation ==
  ASSUME IInv, NEW n, NEW o \in Sources, Sources' \in SUBSET ((Sources \ {o}) \cup {n}),
         OldLogins' \in SUBSET OldLogins
  PROVE  SurvivorsCounted'
<1>1. PICK S, L : S = Sources' /\ L = OldLogins'
  OBVIOUS
<1>2. IsFiniteSet(Sources \ {o}) /\ Cardinality(Sources \ {o}) <= Cardinality(Sources) - 1
      /\ Cardinality(Sources \ {o}) \in Nat /\ Cardinality(Sources) \in Nat
  BY Finite, OneLess
<1>3. /\ Cardinality(S) <= Cardinality(Sources \ {o}) + 1 /\ Cardinality(S) \in Nat
  BY <1>1, <1>2, OneMore
<1>4. /\ Cardinality(L) <= Cardinality(OldLogins) /\ Cardinality(L) \in Nat
      /\ Cardinality(OldLogins) \in Nat
  BY <1>1, Finite, Smaller
<1>5. SurvivorsCounted
  BY DEF IInv
<1>6. Cardinality(S) + Cardinality(L) <= Cardinality(Requests) - 1
  BY <1>2, <1>3, <1>4, <1>5, Finite DEF SurvivorsCounted
<1>7. QED
  BY <1>1, <1>6 DEF SurvivorsCounted

-----------------------------------------------------------------------------
(* Steps that move one request on *)

LEMMA RequestMoves ==
  ASSUME IInv, NEW r \in Requests, NEW q \in Request, req' = [req EXCEPT ![r] = q],
         UNCHANGED <<session, made, revocations>>,
         account' \in [deleted : BOOLEAN, link : BOOLEAN],
         guard' \in [attempts : Nat, locked : BOOLEAN, guesses : Nat],
         faults' \in Nat,
         q.root <= revocations,
         q.pc \in LoginPcs /\ q.root < revocations => r \in OldLogins,
         q.pc = "rotate" => q.old \in Live,
         q.pc = "mistrust" => q.old \in Ids
  PROVE  IInv'
<1>1. req \in [Requests -> Request]
  BY Types
<1>2. TypeOK'
  BY <1>1 DEF IInv, TypeOK
<1>3. Numbered' /\ RotationNeverForks'
  BY DEF IInv, Numbered, RotationNeverForks, Exists
<1>4. req'[r] = q /\ \A x \in Requests \ {r} : req'[x] = req[x]
  BY <1>1
<1>5. q.pc \in {"rotate", "mistrust"} => q.old \in Ids
  BY DEF Live
<1>6. Holding'
  BY <1>4, <1>5 DEF IInv, Holding
<1>7. OldLogins' \in SUBSET OldLogins
  BY <1>4 DEF OldLogins
<1>8. ASSUME NEW s \in Sources' PROVE s \in Sources
  <2>1. s \in Ids /\ session[s].root < revocations
    BY <1>8 DEF Sources
  <2>2. CASE session[s].state = "live"
    BY <2>1, <2>2 DEF Sources
  <2>3. CASE session[s].state # "live"
    <3>1. session[s].state = "dead"
      BY <1>8, <2>3 DEF Sources
    <3>2. PICK x \in Requests : req'[x].pc = "rotate" /\ req'[x].old = s
      BY <1>8, <2>3 DEF Sources, Found
    <3>3. x # r
      BY <1>4, <2>3, <3>2 DEF Live
    <3>4. Found(s)
      BY <1>4, <3>2, <3>3 DEF Found
    <3>5. QED
      BY <2>1, <3>1, <3>4 DEF Sources
  <2>4. QED
    BY <2>2, <2>3
<1>9. SurvivorsCounted'
  BY <1>7, <1>8, CountKept
<1>10. QED
  BY <1>2, <1>3, <1>6, <1>9 DEF IInv

(* The request only goes on to another call, and becomes neither a login *)
(* nor a rotation by that.                                               *)
LEMMA GoesOn ==
  ASSUME IInv, NEW r \in Requests, NEW pc, Goes(r, pc),
         pc \in {"compare", "count", "lock", "uncount", "clear", "unlock", "list",
                 "trim", "insert", "save", "revoke"},
         pc \in LoginPcs => req[r].pc \in LoginPcs,
         UNCHANGED <<session, made, revocations>>,
         account' \in [deleted : BOOLEAN, link : BOOLEAN],
         guard' \in [attempts : Nat, locked : BOOLEAN, guesses : Nat],
         faults' \in Nat
  PROVE  IInv'
<1> DEFINE q == [req[r] EXCEPT !.pc = pc]
<1>1. q \in Request /\ q.pc = pc /\ q.root = req[r].root
  BY Types DEF Request
<1>2. req' = [req EXCEPT ![r] = q] /\ q.root <= revocations
  BY <1>1, Types DEF Goes
<1>3. q.pc \in LoginPcs /\ q.root < revocations => r \in OldLogins
  BY <1>1 DEF OldLogins
<1> HIDE DEF q
<1>4. QED
  BY <1>1, <1>2, <1>3, RequestMoves

LEMMA EndsThere ==
  ASSUME IInv, NEW r \in Requests, Ends(r),
         UNCHANGED <<session, made, revocations>>,
         account' \in [deleted : BOOLEAN, link : BOOLEAN],
         guard' \in [attempts : Nat, locked : BOOLEAN, guesses : Nat],
         faults' \in Nat
  PROVE  IInv'
<1>1. Idle \in Request /\ Idle.pc = "idle" /\ Idle.root = 0 /\ req' = [req EXCEPT ![r] = Idle]
      /\ revocations \in Nat
  BY Types DEF Ends
<1>2. Idle.root <= revocations /\ Idle.pc \notin LoginPcs
  BY <1>1 DEF LoginPcs
<1>3. QED
  BY <1>1, <1>2, RequestMoves

-----------------------------------------------------------------------------
(* Steps that revoke or delete rows *)

(* No row appears, comes to life or changes its login, and the requests stay *)
(* as they are, but for one that goes on or ends.                            *)
LEMMA RowsSink ==
  ASSUME IInv, session' \in [Ids -> Row], UNCHANGED <<made, revocations>>,
         \A s \in Ids : /\ session'[s].login = session[s].login
                        /\ session'[s].root = session[s].root
                        /\ session[s].state = "none" => session'[s].state = "none"
                        /\ session'[s].state = "live" => session[s].state = "live"
                        /\ Exists(s)' => Exists(s),
         UNCHANGED <<account, guard, faults>>,
         req' \in [Requests -> Request],
         \A x \in Requests :
           \/ req'[x] = req[x]
           \/ /\ req'[x].pc \notin {"rotate", "mistrust"} /\ req'[x].root <= revocations
              /\ req'[x].pc \in LoginPcs => req[x].pc \in LoginPcs /\ req'[x].root = req[x].root
  PROVE  IInv'
<1>1. TypeOK'
  BY DEF IInv, TypeOK
<1>2. Numbered'
  BY Types DEF IInv, Numbered
<1>3. RotationNeverForks'
  BY DEF IInv, RotationNeverForks
<1>4. Holding'
  BY DEF IInv, Holding
<1>5. OldLogins' \in SUBSET OldLogins
  BY DEF OldLogins
<1>6. ASSUME NEW s \in Sources' PROVE s \in Sources
  <2>1. s \in Ids /\ session[s].root < revocations /\ session'[s].state \in {"live", "dead"}
    BY <1>6 DEF Sources
  <2>2. session[s].state \in {"live", "dead"}
    BY <2>1 DEF Exists
  <2>3. CASE session[s].state = "live"
    BY <2>1, <2>3 DEF Sources
  <2>4. CASE session[s].state = "dead"
    <3>1. session'[s].state = "dead"
      BY <2>1, <2>4
    <3>2. PICK x \in Requests : req'[x].pc = "rotate" /\ req'[x].old = s
      BY <1>6, <3>1 DEF Sources, Found
    <3>3. Found(s)
      BY <3>2 DEF Found
    <3>4. QED
      BY <2>1, <2>4, <3>3 DEF Sources
  <2>5. QED
    BY <2>2, <2>3, <2>4
<1>7. SurvivorsCounted'
  BY <1>5, <1>6, CountKept
<1>8. QED
  BY <1>1, <1>2, <1>3, <1>4, <1>7 DEF IInv

(* Revoking and deleting are such. *)
LEMMA RevokedSinks ==
  ASSUME IInv, NEW D
  PROVE  /\ Revoked(D) \in [Ids -> Row]
         /\ \A s \in Ids : /\ Revoked(D)[s].login = session[s].login
                           /\ Revoked(D)[s].root = session[s].root
                           /\ session[s].state = "none" => Revoked(D)[s].state = "none"
                           /\ Revoked(D)[s].state = "live" =>
                                session[s].state = "live" /\ s \notin D
                           /\ Revoked(D)[s].state \in {"live", "dead"} => Exists(s)
<1>1. \A s \in Ids : /\ session[s] \in Row
                     /\ [session[s] EXCEPT !.state = "dead"] \in Row
                     /\ [session[s] EXCEPT !.state = "dead"].login = session[s].login
                     /\ [session[s] EXCEPT !.state = "dead"].root = session[s].root
                     /\ [session[s] EXCEPT !.state = "dead"].state = "dead"
  BY Types DEF Row
<1>2. QED
  BY <1>1 DEF Revoked, Exists

LEMMA DeleteSinks ==
  ASSUME IInv, NEW s \in Ids, Delete(s), Exists(s)
  PROVE  /\ session' \in [Ids -> Row]
         /\ \A t \in Ids : /\ session'[t].login = session[t].login
                           /\ session'[t].root = session[t].root
                           /\ session[t].state = "none" => session'[t].state = "none"
                           /\ session'[t].state = "live" => session[t].state = "live"
                           /\ Exists(t)' => Exists(t)
<1> DEFINE q == [session[s] EXCEPT !.state = "gone"]
<1>1. /\ q \in Row /\ q.state = "gone"
      /\ q.login = session[s].login /\ q.root = session[s].root
  BY Types DEF Row
<1>2. session' = [session EXCEPT ![s] = q] /\ session \in [Ids -> Row]
  BY Types DEF Delete
<1> HIDE DEF q
<1>3. session'[s] = q /\ \A t \in Ids \ {s} : session'[t] = session[t]
  BY <1>2
<1>4. session' \in [Ids -> Row]
  BY <1>1, <1>2
<1>5. QED
  BY <1>1, <1>3, <1>4 DEF Exists

LEMMA TrimSessionsStep ==
  ASSUME IInv, NEW r \in Requests, TrimSessions(r)
  PROVE  IInv'
<1> DEFINE q == [req[r] EXCEPT !.pc = "insert"]
<1>1. /\ q \in Request /\ q.pc = "insert" /\ q.root = req[r].root
      /\ req[r].pc \in LoginPcs /\ q.root <= revocations
  BY Types DEF Request, TrimSessions, At, LoginPcs
<1>2. /\ req' = [req EXCEPT ![r] = q] /\ session' = Revoked(Oldest(req[r].seen))
      /\ UNCHANGED <<made, account, revocations, guard, faults>>
  BY DEF TrimSessions, Goes
<1> HIDE DEF q
<1>3. req' \in [Requests -> Request] /\ req'[r] = q
      /\ \A x \in Requests \ {r} : req'[x] = req[x]
  BY <1>1, <1>2, Types
<1>4. \A s \in Ids : Exists(s)' => Exists(s)
  BY <1>2, RevokedSinks DEF Exists
<1>5. QED
  BY <1>1, <1>2, <1>3, <1>4, RevokedSinks, RowsSink

LEMMA MistrustStep ==
  ASSUME IInv, NEW r \in Requests, Mistrust(r)
  PROVE  IInv'
<1>1. /\ req' = [req EXCEPT ![r] = Idle] /\ session' = Revoked({req[r].old})
      /\ UNCHANGED <<made, account, revocations, guard, faults>>
  BY DEF Mistrust, Ends
<1>2. req' \in [Requests -> Request] /\ req'[r].pc = "idle" /\ req'[r].root <= revocations
      /\ \A x \in Requests \ {r} : req'[x] = req[x]
  BY <1>1, Types
<1>3. \A s \in Ids : Exists(s)' => Exists(s)
  BY <1>1, RevokedSinks DEF Exists
<1>4. QED
  BY <1>1, <1>2, <1>3, RevokedSinks, RowsSink DEF LoginPcs

LEMMA ExpireStep ==
  ASSUME IInv, NEW s \in Ids, Expire(s)
  PROVE  IInv'
<1>1. session' = Revoked({s}) /\ UNCHANGED <<made, account, revocations, guard, req, faults>>
  BY DEF Expire
<1>2. \A t \in Ids : Exists(t)' => Exists(t)
  BY <1>1, RevokedSinks DEF Exists
<1>3. req' \in [Requests -> Request] /\ \A x \in Requests : req'[x] = req[x]
  BY <1>1, Types
<1>4. QED
  BY <1>1, <1>2, <1>3, RevokedSinks, RowsSink

LEMMA DeletionStep ==
  ASSUME IInv, NEW s \in Ids, Logout(s) \/ CleanUp(s)
  PROVE  IInv'
<1>1. Delete(s) /\ Exists(s) /\ UNCHANGED <<made, account, revocations, guard, req, faults>>
  BY DEF Logout, CleanUp, Exists
<1>2. req' \in [Requests -> Request] /\ \A x \in Requests : req'[x] = req[x]
  BY <1>1, Types
<1>3. QED
  BY <1>1, <1>2, DeleteSinks, RowsSink

-----------------------------------------------------------------------------
(* The steps of one request that only move it on *)

LEMMA LoginMoves ==
  ASSUME IInv, NEW r \in Requests,
         \/ LoginCheck(r) \/ LoginWrong(r) \/ CountAttempt(r) \/ SetLock(r)
         \/ DeleteCount(r) \/ ClearCount(r) \/ ClearLock(r)
  PROVE  IInv'
<1> USE DEF IInv, TypeOK, At
<1>1. /\ guard \in [attempts : Nat, locked : BOOLEAN, guesses : Nat]
      /\ account \in [deleted : BOOLEAN, link : BOOLEAN] /\ faults \in Nat
  OBVIOUS
<1>2. CASE LoginCheck(r)
  BY <1>1, <1>2, GoesOn DEF LoginCheck, LoginPcs
<1>3. CASE LoginWrong(r)
  BY <1>1, <1>3, GoesOn DEF LoginWrong, LoginPcs
<1>4. CASE CountAttempt(r)
  <2>1. guard' \in [attempts : Nat, locked : BOOLEAN, guesses : Nat]
    BY <1>1, <1>4 DEF CountAttempt
  <2>2. CASE Goes(r, "lock")
    BY <1>1, <1>4, <2>1, <2>2, GoesOn DEF CountAttempt, LoginPcs
  <2>3. CASE Ends(r)
    BY <1>1, <1>4, <2>1, <2>3, EndsThere DEF CountAttempt
  <2>4. QED
    BY <1>4, <2>2, <2>3 DEF CountAttempt
<1>5. CASE SetLock(r)
  BY <1>1, <1>5, GoesOn DEF SetLock, LoginPcs
<1>6. CASE DeleteCount(r)
  BY <1>1, <1>6, EndsThere DEF DeleteCount
<1>7. CASE ClearCount(r)
  BY <1>1, <1>7, GoesOn DEF ClearCount, LoginPcs
<1>8. CASE ClearLock(r)
  BY <1>1, <1>8, GoesOn DEF ClearLock, LoginPcs
<1>9. QED
  BY <1>2, <1>3, <1>4, <1>5, <1>6, <1>7, <1>8

LEMMA OtherMoves ==
  ASSUME IInv, NEW r \in Requests,
         RotateFails(r) \/ Change(r) \/ ResetFind(r) \/ ResetSave(r) \/ Fails(r)
  PROVE  IInv'
<1> USE DEF IInv, TypeOK
<1>1. /\ guard \in [attempts : Nat, locked : BOOLEAN, guesses : Nat]
      /\ account \in [deleted : BOOLEAN, link : BOOLEAN] /\ faults \in Nat
  OBVIOUS
<1>2. CASE RotateFails(r)
  BY <1>1, <1>2, EndsThere DEF RotateFails
<1>3. CASE Change(r)
  BY <1>1, <1>3, GoesOn DEF Change, LoginPcs
<1>4. CASE ResetFind(r)
  BY <1>1, <1>4, GoesOn DEF ResetFind, LoginPcs
<1>5. CASE ResetSave(r)
  BY <1>1, <1>5, GoesOn DEF ResetSave, LoginPcs
<1>6. CASE Fails(r)
  BY <1>1, <1>6, EndsThere DEF Fails
<1>7. QED
  BY <1>2, <1>3, <1>4, <1>5, <1>6

(* The password is right: the login is as old as the revocations so far. *)
LEMMA LoginRightStep ==
  ASSUME IInv, NEW r \in Requests, LoginRight(r)
  PROVE  IInv'
<1> DEFINE q == [Idle EXCEPT !.pc = "clear", !.root = revocations]
<1>1. q \in Request /\ q.pc = "clear" /\ q.root = revocations
  BY Types DEF Request, Idle
<1>2. req' = [req EXCEPT ![r] = q]
  BY DEF LoginRight
<1> HIDE DEF q
<1>3. q.root <= revocations /\ ~(q.root < revocations)
  BY <1>1, Types
<1>4. QED
  BY <1>1, <1>2, <1>3, RequestMoves DEF LoginRight, IInv, TypeOK

LEMMA ListSessionsStep ==
  ASSUME IInv, NEW r \in Requests, ListSessions(r)
  PROVE  IInv'
<1> DEFINE pc == IF Cardinality(Live) >= Cap THEN "trim" ELSE "insert"
           q  == [req[r] EXCEPT !.pc = pc, !.seen = Live, !.listed = made]
<1>1. pc \in {"trim", "insert"} /\ Live \in SUBSET Ids /\ made \in 0 .. MaxSessions
  BY DEF Live, IInv, TypeOK
<1>2. req' = [req EXCEPT ![r] = q]
  BY DEF ListSessions
<1> HIDE DEF pc
<1>3. q \in Request /\ q.pc = pc /\ q.root = req[r].root
  BY <1>1, Types DEF Request
<1>4. q.root <= revocations /\ (q.root < revocations => r \in OldLogins)
  BY <1>3, Types DEF ListSessions, At, OldLogins, LoginPcs
<1> HIDE DEF q
<1>5. QED
  BY <1>1, <1>2, <1>3, <1>4, RequestMoves DEF ListSessions, IInv, TypeOK

LEMMA FindSessionStep ==
  ASSUME IInv, NEW r \in Requests, NEW s \in Ids, FindSession(r, s)
  PROVE  IInv'
<1>1. PICK pc \in {"rotate", "mistrust"} :
             req' = [req EXCEPT ![r] = [Idle EXCEPT !.pc = pc, !.old = s]]
  BY DEF FindSession
<1> DEFINE q == [Idle EXCEPT !.pc = pc, !.old = s]
<1>2. s \in 0 .. MaxSessions
  BY Types DEF Ids
<1>3. q \in Request /\ q.pc = pc /\ q.root = 0 /\ q.old = s
  BY <1>2, Types DEF Request, Idle
<1>4. req' = [req EXCEPT ![r] = q]
  BY <1>1
<1> HIDE DEF q
<1>5. q.root <= revocations /\ q.pc \notin LoginPcs
  BY <1>3, Types DEF LoginPcs
<1>6. QED
  BY <1>3, <1>4, <1>5, RequestMoves DEF FindSession, IInv, TypeOK

(* Redis lets the lock or the counter go, a reset link is sent or lapses. *)
LEMMA TimePasses ==
  ASSUME IInv, LockLapses \/ WindowLapses \/ Forgot \/ LinkLapses
  PROVE  IInv'
<1>1. UNCHANGED <<session, made, revocations, req, faults>>
  BY DEF LockLapses, WindowLapses, Forgot, LinkLapses
<1>2. /\ guard' \in [attempts : Nat, locked : BOOLEAN, guesses : Nat]
      /\ account' \in [deleted : BOOLEAN, link : BOOLEAN]
  <2>1. /\ guard \in [attempts : Nat, locked : BOOLEAN, guesses : Nat]
        /\ account \in [deleted : BOOLEAN, link : BOOLEAN]
    BY DEF IInv, TypeOK
  <2>2. CASE LockLapses
    BY <2>1, <2>2 DEF LockLapses
  <2>3. CASE WindowLapses
    BY <2>1, <2>3 DEF WindowLapses
  <2>4. CASE Forgot
    BY <2>1, <2>4 DEF Forgot
  <2>5. CASE LinkLapses
    BY <2>1, <2>5 DEF LinkLapses
  <2>6. QED
    BY <2>2, <2>3, <2>4, <2>5
<1>3. TypeOK' /\ Numbered' /\ Holding' /\ RotationNeverForks'
  BY <1>1, <1>2 DEF IInv, TypeOK, Numbered, Holding, RotationNeverForks, Exists
<1>4. Sources' \in SUBSET Sources /\ OldLogins' \in SUBSET OldLogins
  BY <1>1 DEF Sources, Found, OldLogins
<1>5. QED
  BY <1>3, <1>4, CountKept DEF IInv

-----------------------------------------------------------------------------
(* Steps that insert a row *)

LEMMA InsertSessionStep ==
  ASSUME IInv, NEW r \in Requests, InsertSession(r)
  PROVE  IInv'
<1> DEFINE n == made + 1
           q == NewRow(n, req[r].root)
<1>1. /\ n \in Ids /\ n \in Nat /\ made \in Nat /\ n > made /\ n \in 0 .. MaxSessions
      /\ req[r].root \in Nat /\ req[r].root <= revocations
  BY Types DEF InsertSession, Ids
<1>2. q \in Row /\ q.state = "live" /\ q.login = n /\ q.root = req[r].root
  BY <1>1 DEF NewRow, Row
<1>3. /\ session' = [session EXCEPT ![n] = q] /\ made' = n
      /\ req' = [req EXCEPT ![r] = Idle]
      /\ UNCHANGED <<account, revocations, guard, faults>>
      /\ req[r].pc = "insert"
  BY DEF InsertSession, Ends, At
<1> HIDE DEF n, q
<1>4. /\ session' \in [Ids -> Row] /\ session'[n] = q
      /\ \A s \in Ids \ {n} : session'[s] = session[s]
  BY <1>1, <1>2, <1>3, Types
<1>5. /\ req' \in [Requests -> Request] /\ req'[r] = Idle
      /\ \A x \in Requests \ {r} : req'[x] = req[x]
  BY <1>3, Types
<1>6. TypeOK'
  BY <1>1, <1>3, <1>4, <1>5 DEF IInv, TypeOK, Ids
<1>7. \A s \in Ids : /\ s \in Nat /\ (s > n => s > made)
                     /\ (session[s].login <= made => session[s].login <= n)
  BY <1>1, <1>3, Types DEF n
<1>8. Numbered'
  BY <1>1, <1>2, <1>3, <1>4, <1>7 DEF IInv, Numbered
<1>9. Holding'
  BY <1>3, <1>5, Types DEF IInv, Holding
<1>10. \A s \in Ids : session[s].login # n
  BY <1>1, Types DEF IInv, Numbered
<1>11. RotationNeverForks'
  BY <1>2, <1>4, <1>10 DEF IInv, RotationNeverForks, Exists
<1>12. OldLogins' \in SUBSET (OldLogins \ {r})
  BY <1>3, <1>5, Types DEF OldLogins, LoginPcs
<1>13. ASSUME NEW s \in Sources', s # n PROVE s \in Sources
  <2>1. s \in Ids /\ session'[s] = session[s]
    BY <1>4, <1>13 DEF Sources
  <2>2. Found(s)' => Found(s)
    BY <1>5, Types DEF Found
  <2>3. QED
    BY <1>3, <1>13, <2>1, <2>2 DEF Sources
<1>14. SurvivorsCounted'
  <2>1. CASE r \in OldLogins
    <3>1. Sources' \in SUBSET (Sources \cup {n})
      BY <1>13
    <3>2. QED
      BY <1>12, <2>1, <3>1, CountLogin
  <2>2. CASE r \notin OldLogins
    <3>1. ~(req[r].root < revocations)
      BY <1>3, <2>2 DEF OldLogins, LoginPcs
    <3>2. n \notin Sources'
      BY <1>2, <1>3, <1>4, <3>1 DEF Sources
    <3>3. Sources' \in SUBSET Sources /\ OldLogins' \in SUBSET OldLogins
      BY <1>12, <1>13, <3>2
    <3>4. QED
      BY <3>3, CountKept
  <2>3. QED
    BY <2>1, <2>2
<1>15. QED
  BY <1>6, <1>8, <1>9, <1>11, <1>14 DEF IInv

LEMMA RotateStep ==
  ASSUME IInv, NEW r \in Requests, Rotate(r)
  PROVE  IInv'
<1> DEFINE n == made + 1
           o == req[r].old
           q == NewRow(session[o].login, session[o].root)
           g == [session[o] EXCEPT !.state = "gone"]
<1>1. /\ n \in Ids /\ n \in Nat /\ made \in Nat /\ n > made /\ n \in 0 .. MaxSessions
  BY Types DEF Rotate, Ids
<1>2. req[r].pc = "rotate" /\ o \in Ids /\ Exists(o)
  BY DEF Rotate, At, IInv, Holding
<1>3. o # n /\ o \in Nat /\ o <= made
  BY <1>1, <1>2, Types DEF IInv, Numbered, Exists
<1>4. /\ session[o] \in Row /\ session[o].login \in Nat /\ session[o].login <= made
      /\ session[o].root \in Nat /\ session[o].root <= revocations
  BY <1>2, Types DEF IInv, Numbered
<1>5. q \in Row /\ q.state = "live" /\ q.login = session[o].login /\ q.root = session[o].root
  BY <1>4 DEF NewRow, Row
<1>6. g \in Row /\ g.state = "gone" /\ g.login = session[o].login /\ g.root = session[o].root
  BY <1>4 DEF Row
<1>7. /\ session' = [session EXCEPT ![n] = q, ![o] = g] /\ made' = n
      /\ req' = [req EXCEPT ![r] = Idle]
      /\ UNCHANGED <<account, revocations, guard, faults>>
  BY DEF Rotate, Ends
<1> HIDE DEF q, g
<1>8. n = made + 1
  OBVIOUS
<1> HIDE DEF n
<1>9. /\ session' \in [Ids -> Row] /\ session'[n] = q /\ session'[o] = g
      /\ \A s \in Ids \ {n, o} : session'[s] = session[s]
  BY <1>1, <1>2, <1>3, <1>5, <1>6, <1>7, Types
<1>10. /\ req' \in [Requests -> Request] /\ req'[r] = Idle
       /\ \A x \in Requests \ {r} : req'[x] = req[x]
  BY <1>7, Types
<1>11. TypeOK'
  BY <1>1, <1>7, <1>9, <1>10 DEF IInv, TypeOK, Ids
<1>12. \A s \in Ids : /\ s \in Nat /\ (s > n => s > made /\ s # n /\ s # o)
                      /\ (session[s].login <= made => session[s].login <= n)
  <2>1. ASSUME NEW s \in Ids PROVE s \in Nat /\ session[s].login \in Nat
    BY Types
  <2> HIDE DEF o
  <2>2. QED
    BY <1>1, <1>3, <1>8, <2>1
<1>13. Numbered'
  <2>1. ASSUME NEW s \in Ids
        PROVE /\ s > n => session'[s].state = "none"
              /\ session'[s].login <= n /\ session'[s].root <= revocations
    <3>1. CASE s = n
      BY <1>2, <1>4, <1>5, <1>9, <1>12, <3>1
    <3>2. CASE s = o
      BY <1>2, <1>4, <1>6, <1>9, <1>12, <3>2
    <3>3. CASE s # n /\ s # o
      BY <1>9, <1>12, <3>3 DEF IInv, Numbered
    <3>4. QED
      BY <3>1, <3>2, <3>3
  <2>2. QED
    BY <1>7, <2>1 DEF Numbered
<1>14. Holding'
  BY <1>7, <1>10, Types DEF IInv, Holding
<1>15. RotationNeverForks'
  <2>1. ASSUME NEW s \in Ids, Exists(s)', s # n
        PROVE  s # o /\ session'[s] = session[s] /\ Exists(s) /\ session[s].login # q.login
    <3>1. s # o
      BY <1>6, <1>9, <2>1 DEF Exists
    <3>2. session'[s] = session[s]
      BY <1>9, <2>1, <3>1
    <3>3. Exists(s)
      BY <2>1, <3>2 DEF Exists
    <3>4. QED
      BY <1>2, <1>5, <3>1, <3>2, <3>3 DEF IInv, RotationNeverForks
  <2>2. QED
    BY <1>9, <2>1 DEF IInv, RotationNeverForks
<1>16. OldLogins' \in SUBSET OldLogins
  BY <1>7, <1>10, Types DEF OldLogins, LoginPcs
<1>17. ASSUME NEW s \in Sources', s # n PROVE s \in Sources /\ s # o
  <2>1. s # o /\ s \in Ids
    BY <1>6, <1>9, <1>17 DEF Sources
  <2>2. session'[s] = session[s]
    BY <1>9, <1>17, <2>1
  <2>3. Found(s)' => Found(s)
    BY <1>10, Types DEF Found
  <2>4. QED
    BY <1>7, <1>17, <2>1, <2>2, <2>3 DEF Sources
<1>18. SurvivorsCounted'
  <2>1. CASE session[o].root < revocations
    <3>1. Found(o)
      BY <1>2 DEF Found
    <3>2. o \in Sources
      BY <1>2, <2>1, <3>1 DEF Sources, Exists
    <3>3. Sources' \in SUBSET ((Sources \ {o}) \cup {n})
      BY <1>17
    <3> HIDE DEF o
    <3>4. QED
      BY <1>16, <3>2, <3>3, CountRotation
  <2>2. CASE ~(session[o].root < revocations)
    <3>1. n \notin Sources'
      BY <1>5, <1>7, <1>9, <2>2 DEF Sources
    <3>2. Sources' \in SUBSET Sources
      BY <1>17, <3>1
    <3>3. QED
      BY <1>16, <3>2, CountKept
  <2>3. QED
    BY <2>1, <2>2
<1>19. QED
  BY <1>11, <1>13, <1>14, <1>15, <1>18 DEF IInv

-----------------------------------------------------------------------------
(* Revocation of all sessions *)

(* Rows that each have a request of their own and old logins are no more than *)
(* the requests they are found among.                                         *)
LEMMA CountRequests ==
  ASSUME NEW r \in Requests, NEW S, NEW L,
         NEW P \in SUBSET (Requests \ {r}), L \in SUBSET (Requests \ {r}),
         P \cap L = {}, NEW f \in [P -> S], \A s \in S : \E x \in P : f[x] = s
  PROVE  Cardinality(S) + Cardinality(L) <= Cardinality(Requests) - 1
<1>1. IsFiniteSet(P) /\ IsFiniteSet(L)
  BY Finite, OneLess
<1>2. P \cup L \in SUBSET (Requests \ {r})
  OBVIOUS
<1>3. Cardinality(P \cup L) <= Cardinality(Requests) - 1
  BY <1>2, Finite, OneLess
<1>4. Cardinality(P \cup L) = Cardinality(P) + Cardinality(L)
  <2>1. Cardinality(P \cap L) = 0
    BY FS_EmptySet
  <2>2. Cardinality(P \cup L) = Cardinality(P) + Cardinality(L) - Cardinality(P \cap L)
    BY <1>1, FS_Union
  <2>3. QED
    BY <1>1, <2>1, <2>2, FS_CardinalityType
<1>5. f \in Surjection(P, S)
  BY DEF Surjection
<1>6. IsFiniteSet(S) /\ Cardinality(S) <= Cardinality(P)
  BY <1>1, <1>5, FS_Surjection
<1>7. QED
  BY <1>1, <1>3, <1>4, <1>6, Finite, FS_CardinalityType

LEMMA RevokeAllStep ==
  ASSUME IInv, NEW r \in Requests, RevokeAll(r) \/ DeleteAccount(r)
  PROVE  IInv'
<1>1. /\ session' = Revoked(Ids) /\ revocations' = revocations + 1
      /\ UNCHANGED <<made, guard, faults>>
      /\ account' \in [deleted : BOOLEAN, link : BOOLEAN]
  <2>1. CASE RevokeAll(r)
    BY <2>1 DEF RevokeAll, IInv, TypeOK
  <2>2. CASE DeleteAccount(r)
    BY <2>2 DEF DeleteAccount
  <2>3. QED
    BY <2>1, <2>2
<1>2. /\ req' \in [Requests -> Request] /\ req'[r].pc = "idle"
      /\ req'[r].root <= revocations
      /\ \A x \in Requests \ {r} : req'[x] = req[x]
  <2>1. CASE RevokeAll(r)
    BY <2>1, Types DEF RevokeAll, Ends
  <2>2. CASE DeleteAccount(r)
    BY <2>2, Types DEF DeleteAccount, At
  <2>3. QED
    BY <2>1, <2>2
<1>3. /\ session' \in [Ids -> Row]
      /\ \A s \in Ids : /\ session'[s].login = session[s].login
                        /\ session'[s].root = session[s].root
                        /\ session[s].state = "none" => session'[s].state = "none"
                        /\ session'[s].state # "live"
                        /\ Exists(s)' => Exists(s)
  BY <1>1, RevokedSinks DEF Exists
<1>4. revocations' \in Nat /\ \A k \in Nat : k <= revocations => k <= revocations'
  BY <1>1, Types
<1>5. TypeOK'
  BY <1>1, <1>2, <1>3, <1>4 DEF IInv, TypeOK
<1>6. Numbered'
  BY <1>1, <1>3, <1>4, Types DEF IInv, Numbered
<1>7. RotationNeverForks'
  BY <1>3 DEF IInv, RotationNeverForks
<1>8. \A x \in Requests : req'[x].root <= revocations /\ req'[x].root \in Nat
  BY <1>2, Types DEF Request
<1>9. Holding'
  BY <1>2, <1>4, <1>8 DEF IInv, Holding
<1>10. SurvivorsCounted'
  <2>1. PICK S, L : S = Sources' /\ L = OldLogins'
    OBVIOUS
  <2> DEFINE P == {x \in Requests \ {r} : req[x].pc = "rotate" /\ req[x].old \in S}
             f == [x \in P |-> req[x].old]
  <2>2. P \in SUBSET (Requests \ {r}) /\ f \in [P -> S]
    OBVIOUS
  <2>3. ASSUME NEW x \in L PROVE x \in Requests \ {r} /\ req[x].pc \in LoginPcs
    <3>1. x \in Requests /\ req'[x].pc \in LoginPcs
      BY <2>1, <2>3 DEF OldLogins
    <3>2. x # r
      BY <1>2, <3>1 DEF LoginPcs
    <3>3. QED
      BY <1>2, <3>1, <3>2
  <2>4. L \in SUBSET (Requests \ {r}) /\ P \cap L = {}
    BY <2>3 DEF LoginPcs
  <2>5. ASSUME NEW s \in S PROVE \E x \in P : f[x] = s
    <3>1. s \in Ids /\ session'[s].state # "live"
      BY <1>3, <2>1, <2>5 DEF Sources
    <3>2. PICK x \in Requests : req'[x].pc = "rotate" /\ req'[x].old = s
      BY <2>1, <2>5, <3>1 DEF Sources, Found
    <3>3. x \in Requests \ {r} /\ req[x].pc = "rotate" /\ req[x].old = s
      BY <1>2, <3>2
    <3>4. x \in P
      BY <2>5, <3>3
    <3>5. f[x] = s
      BY <3>3, <3>4
    <3>6. QED
      BY <3>4, <3>5
  <2> HIDE DEF P, f
  <2>6. Cardinality(S) + Cardinality(L) <= Cardinality(Requests) - 1
    BY <2>2, <2>4, <2>5, CountRequests
  <2>7. QED
    BY <2>1, <2>6 DEF SurvivorsCounted
<1>11. QED
  BY <1>5, <1>6, <1>7, <1>9, <1>10 DEF IInv

-----------------------------------------------------------------------------
(* The invariant holds in every state *)

LEMMA InitIInv == Init => IInv
<1> SUFFICES ASSUME Init PROVE IInv
  OBVIOUS
<1>1. MaxSessions \in Nat
  BY SessionsAssumption
<1>2. TypeOK
  BY <1>1 DEF Init, TypeOK, Row, Request, Idle
<1>3. Numbered /\ Holding /\ RotationNeverForks
  BY <1>1 DEF Init, Numbered, Holding, RotationNeverForks, Exists, Idle, Ids
<1>4. Sources = {} /\ OldLogins = {}
  BY DEF Init, Sources, OldLogins, Idle, LoginPcs, Ids
<1>5. SurvivorsCounted
  BY <1>4, FS_EmptySet, Finite DEF SurvivorsCounted
<1>6. QED
  BY <1>2, <1>3, <1>5 DEF IInv

LEMMA NextIInv == IInv /\ [Next]_vars => IInv'
<1> SUFFICES ASSUME IInv, [Next]_vars PROVE IInv'
  OBVIOUS
<1>1. ASSUME NEW r \in Requests, LoginStep(r) PROVE IInv'
  BY <1>1, LoginMoves, LoginRightStep, ListSessionsStep, TrimSessionsStep,
     InsertSessionStep DEF LoginStep
<1>2. ASSUME NEW r \in Requests, RefreshStep(r) PROVE IInv'
  BY <1>2, FindSessionStep, RotateStep, OtherMoves, MistrustStep DEF RefreshStep
<1>3. ASSUME NEW r \in Requests, RevokeStep(r) PROVE IInv'
  BY <1>3, OtherMoves, RevokeAllStep DEF RevokeStep
<1>4. ASSUME NEW r \in Requests, Fails(r) PROVE IInv'
  BY <1>4, OtherMoves
<1>5. ASSUME NEW s \in Ids, Logout(s) \/ Expire(s) \/ CleanUp(s) PROVE IInv'
  BY <1>5, ExpireStep, DeletionStep
<1>6. CASE LockLapses \/ WindowLapses \/ Forgot \/ LinkLapses
  BY <1>6, TimePasses
<1>7. CASE UNCHANGED vars
  BY <1>7 DEF vars, IInv, TypeOK, Numbered, Holding, RotationNeverForks, Exists,
              SurvivorsCounted, Sources, OldLogins, Found
<1>8. QED
  BY <1>1, <1>2, <1>3, <1>4, <1>5, <1>6, <1>7 DEF Next

LEMMA Inductive == Spec => []IInv
  BY InitIInv, NextIInv, PTL DEF Spec

(* What survives is among what may survive. *)
LEMMA SurvivorsAmongSources == IInv => SurvivorsBounded
<1> SUFFICES ASSUME IInv PROVE SurvivorsBounded
  OBVIOUS
<1>1. Survivors \in SUBSET Sources
  BY DEF Survivors, Sources, Live
<1>2. Cardinality(Survivors) <= Cardinality(Sources) /\ Cardinality(Survivors) \in Nat
      /\ Cardinality(Sources) \in Nat /\ Cardinality(OldLogins) \in Nat
  BY <1>1, Finite, Smaller, FS_CardinalityType
<1>3. SurvivorsCounted
  BY DEF IInv
<1>4. QED
  BY <1>2, <1>3, Finite DEF SurvivorsCounted, SurvivorsBounded

\* The rows, the requests and the guard have their types (session.ts, auth.ts).
THEOREM TypeCorrect == Spec => []TypeOK
<1>1. IInv => TypeOK
  BY DEF IInv
<1>2. QED
  BY <1>1, Inductive, PTL

\* However many refreshes overlap, one login never has two sessions
\* (rotateSession).
THEOREM RotationsNeverFork == Spec => []RotationNeverForks
<1>1. IInv => RotationNeverForks
  BY DEF IInv
<1>2. QED
  BY <1>1, Inductive, PTL

\* However many requests overlap, a revocation of all sessions is survived by
\* one session less than that at most (revokeAllUserSessions).
THEOREM SurvivorsStayBounded == Spec => []SurvivorsBounded
  BY SurvivorsAmongSources, Inductive, PTL
-----------------------------------------------------------------------------
(* The cap *)

LEMMA Least ==
  ASSUME NEW S \in SUBSET Nat, S # {}
  PROVE  \E m \in S : \A k \in S : m <= k
<1>1. PICK R : R = OpToRel(<, Nat)
  OBVIOUS
<1>2. IsWellFoundedOn(R, Nat)
  BY <1>1, NatLessThanWellFounded, Zenon
<1>3. ASSUME NEW x \in Nat, NEW y \in Nat, x < y PROVE <<x, y>> \in R
  BY <1>1, <1>3 DEF OpToRel
<1>4. \E m \in S : \A k \in S : ~(<<k, m>> \in R)
  BY <1>2, WFMin, Zenon
<1>5. PICK m \in S : \A k \in S : ~(<<k, m>> \in R)
  BY <1>4
<1>6. \A k \in S : k \in Nat /\ m \in Nat /\ ~(k < m)
  BY <1>3, <1>5
<1>7. QED
  BY <1>6

(* All but the latest Cap - 1 are the oldest. *)
LEMMA OldestLeavesFew ==
  ASSUME NEW S \in SUBSET Ids
  PROVE  /\ IsFiniteSet(S \ Oldest(S)) /\ Cardinality(S \ Oldest(S)) \in Nat
         /\ Cardinality(S \ Oldest(S)) <= Cap - 1
<1>1. PICK K : K = S \ Oldest(S)
  OBVIOUS
<1>2. /\ IsFiniteSet(S) /\ IsFiniteSet(K) /\ K \in SUBSET S /\ K \in SUBSET Nat
      /\ Cap \in Nat /\ Cap >= 1
  <2>1. K \in SUBSET S /\ IsFiniteSet(S) /\ IsFiniteSet(K)
    BY <1>1, Finite, FS_Subset
  <2>2. Ids \in SUBSET Nat
    BY DEF Ids
  <2>3. QED
    BY <2>1, <2>2, SessionsAssumption
<1>3. CASE K = {}
  BY <1>1, <1>2, <1>3, FS_EmptySet
<1>4. CASE K # {}
  <2>1. PICK m \in K : \A k \in K : m <= k
    BY <1>2, <1>4, Least
  <2>2. PICK T : T = {t \in S : t > m}
    OBVIOUS
  <2>3. IsFiniteSet(T) /\ Cardinality(T) \in Nat /\ ~(Cardinality(T) >= Cap - 1)
    <3>1. IsFiniteSet(T) /\ Cardinality(T) \in Nat
      BY <1>2, <2>2, FS_Subset, FS_CardinalityType
    <3>2. QED
      BY <1>1, <2>2, <3>1 DEF Oldest
  <2>4. K \ {m} \in SUBSET T
    <3>1. ASSUME NEW k \in K, k # m PROVE k \in T
      BY <1>2, <2>1, <2>2, <3>1
    <3>2. QED
      BY <3>1
  <2>5. Cardinality(K \ {m}) = Cardinality(K) - 1 /\ Cardinality(K) \in Nat
    BY <1>2, <2>1, FS_RemoveElement, FS_CardinalityType
  <2>6. Cardinality(K \ {m}) <= Cardinality(T) /\ Cardinality(K \ {m}) \in Nat
    BY <2>3, <2>4, Smaller
  <2>7. QED
    BY <1>1, <1>2, <2>3, <2>5, <2>6
<1>5. QED
  BY <1>3, <1>4

(* Rows that are live now were live before, or come after all there had been: *)
(* of those a login listed there are no more than before.                     *)
LEMMA ListedKept ==
  ASSUME IInv, CapKept, NEW r \in Requests,
         UNCHANGED <<req[r].listed, req[r].pc, req[r].seen>>, made' \in Nat, made <= made',
         \A s \in Ids : s \in Live' => s \in Live \/ s > made
  PROVE  /\ req'[r].listed <= made'
         /\ req'[r].pc = "trim" => Listed(r)' \subseteq req'[r].seen
         /\ req'[r].pc = "insert" => Cardinality(Listed(r)') <= Cap - 1
<1>1. /\ req[r].listed \in Nat /\ req[r].listed <= made /\ made \in Nat
      /\ Cap \in Nat
  BY Types, SessionsAssumption DEF Request, CapKept
<1>2. PICK T : T = Listed(r)'
  OBVIOUS
<1>3. ASSUME NEW s \in T PROVE s \in Listed(r)
  <2>1. s \in Ids /\ s \in Nat /\ s \in Live' /\ s <= req[r].listed
    BY <1>2, <1>3, Types DEF Listed, Live
  <2>2. s \in Live
    BY <1>1, <2>1
  <2>3. QED
    BY <2>1, <2>2 DEF Listed
<1>4. IsFiniteSet(Listed(r)) /\ T \in SUBSET Listed(r)
  BY <1>3, Finite, FS_Subset DEF Listed, Live
<1>5. Cardinality(T) <= Cardinality(Listed(r)) /\ Cardinality(T) \in Nat
      /\ Cardinality(Listed(r)) \in Nat
  BY <1>4, Smaller
<1>6. req[r].pc = "insert" => Cardinality(T) <= Cap - 1
  BY <1>1, <1>5 DEF CapKept, At
<1>7. req[r].pc = "trim" => T \subseteq req[r].seen
  BY <1>4 DEF CapKept, At
<1>8. QED
  BY <1>1, <1>2, <1>6, <1>7

(* Rows come to life only when they are inserted. *)
LEMMA LiveRowsAreOld ==
  ASSUME IInv, [Next]_vars
  PROVE  /\ made' \in Nat /\ made <= made'
         /\ \A s \in Ids : s \in Live' => s \in Live \/ s > made
<1>1. CASE UNCHANGED <<session, made>>
  BY <1>1, Types DEF Live
<1>2. CASE made' = made /\ \E D : session' = Revoked(D)
  <2>1. PICK D : session' = Revoked(D)
    BY <1>2
  <2>2. ASSUME NEW s \in Ids, s \in Live' PROVE s \in Live
    BY <2>1, <2>2, RevokedSinks DEF Live
  <2>3. QED
    BY <1>2, <2>2, Types
<1>3. CASE made' = made /\ \E s \in Ids : Delete(s) /\ Exists(s)
  <2>1. PICK s \in Ids : Delete(s) /\ Exists(s)
    BY <1>3
  <2>2. \A t \in Ids : t \in Live' => t \in Live
    BY <2>1, DeleteSinks DEF Live
  <2>3. QED
    BY <1>3, <2>2, Types
<1>4. ASSUME NEW r \in Requests, InsertSession(r) \/ Rotate(r)
      PROVE  made' = made + 1 /\ \A s \in Ids : s \in Live' => s \in Live \/ s = made + 1
  <2>1. made' = made + 1 /\ made + 1 \in Ids
    BY <1>4, Types DEF InsertSession, Rotate, Ids
  <2>2. CASE InsertSession(r)
    BY <2>1, <2>2, Types DEF InsertSession, Live
  <2>3. CASE Rotate(r)
    <3> DEFINE g == [session[req[r].old] EXCEPT !.state = "gone"]
    <3>1. req[r].old \in Ids
      BY <2>3 DEF Rotate, At, IInv, Holding
    <3>2. g.state = "gone"
      BY <3>1, Types DEF Row
    <3>3. session' = [session EXCEPT
            ![made + 1] = NewRow(session[req[r].old].login, session[req[r].old].root),
            ![req[r].old] = g]
      BY <2>3 DEF Rotate
    <3> HIDE DEF g
    <3>4. \A s \in Ids : s = made + 1 \/ session'[s] = g \/ session'[s] = session[s]
      BY <3>1, <3>3, Types
    <3>5. QED
      BY <2>1, <3>2, <3>4 DEF Live
  <2>4. QED
    BY <1>4, <2>2, <2>3, <2>1
<1>5. made \in Nat /\ \A s \in Ids : s \in Nat
  BY Types
<1>6. CASE \E r \in Requests : InsertSession(r) \/ Rotate(r)
  BY <1>4, <1>5, <1>6
<1>7. ASSUME NEW r \in Requests,
             LoginStep(r) \/ RefreshStep(r) \/ RevokeStep(r) \/ Fails(r)
      PROVE  \/ UNCHANGED <<session, made>>
             \/ made' = made /\ \E D : session' = Revoked(D)
             \/ InsertSession(r) \/ Rotate(r)
  <2>1. CASE LoginStep(r)
    BY <2>1 DEF LoginStep, LoginCheck, LoginRight, LoginWrong, CountAttempt, SetLock,
                DeleteCount, ClearCount, ClearLock, ListSessions, TrimSessions
  <2>2. CASE RefreshStep(r)
    BY <2>2 DEF RefreshStep, FindSession, RotateFails, Mistrust
  <2>3. CASE RevokeStep(r)
    BY <2>3 DEF RevokeStep, Change, ResetFind, ResetSave, RevokeAll, DeleteAccount
  <2>4. CASE Fails(r)
    BY <2>4 DEF Fails
  <2>5. QED
    BY <1>7, <2>1, <2>2, <2>3, <2>4
<1>8. ASSUME NEW s \in Ids, Logout(s) \/ Expire(s) \/ CleanUp(s)
      PROVE  \/ made' = made /\ \E D : session' = Revoked(D)
             \/ made' = made /\ Delete(s) /\ Exists(s)
  BY <1>8 DEF Logout, Expire, CleanUp, Exists
<1>9. LockLapses \/ WindowLapses \/ Forgot \/ LinkLapses \/ UNCHANGED vars
        => UNCHANGED <<session, made>>
  BY DEF LockLapses, WindowLapses, Forgot, LinkLapses, vars
<1>10. QED
  BY <1>1, <1>2, <1>3, <1>6, <1>7, <1>8, <1>9 DEF Next

(* A request keeps what it listed until it ends, but for the step that lists. *)
LEMMA ListedMoves ==
  ASSUME IInv, [Next]_vars, NEW r \in Requests
  PROVE  \/ req'[r] = req[r]
         \/ /\ req'[r].pc \notin {"trim", "insert"}
            /\ req'[r].listed = 0 \/ req'[r].listed = req[r].listed
         \/ ListSessions(r) \/ TrimSessions(r)
<1> DEFINE Moved(x) == /\ req'[x].pc \notin {"trim", "insert"}
                       /\ req'[x].listed = 0 \/ req'[x].listed = req[x].listed
<1>1. ASSUME NEW x \in Requests, NEW q \in Request, req' = [req EXCEPT ![x] = q]
      PROVE  req'[x] = q /\ (x # r => req'[r] = req[r])
  BY <1>1, Types
<1>2. ASSUME NEW x \in Requests, NEW pc, Goes(x, pc), pc \notin {"trim", "insert"}
      PROVE  Moved(x) /\ (x # r => req'[r] = req[r])
  BY <1>2, Types DEF Goes, Request
<1>3. ASSUME NEW x \in Requests, Ends(x)
      PROVE  Moved(x) /\ (x # r => req'[r] = req[r])
  BY <1>3, Types DEF Ends, Idle
<1>4. ASSUME NEW x \in Requests,
             LoginStep(x) \/ RefreshStep(x) \/ RevokeStep(x) \/ Fails(x)
      PROVE  /\ x # r => req'[r] = req[r]
             /\ req'[x] = req[x] \/ Moved(x) \/ ListSessions(x) \/ TrimSessions(x)
  <2> HIDE DEF Moved
  <2>1. CASE LoginRight(x)
    <3>1. req'[x] = [Idle EXCEPT !.pc = "clear", !.root = revocations]
          /\ (x # r => req'[r] = req[r])
      BY <2>1, Types DEF LoginRight
    <3>2. QED
      BY <3>1 DEF Moved, Idle
  <2>2. CASE ListSessions(x) \/ TrimSessions(x)
    BY <2>2, Types DEF ListSessions, TrimSessions, Goes
  <2>3. CASE \E s \in Ids : FindSession(x, s)
    <3>1. PICK s \in Ids, pc \in {"rotate", "mistrust"} :
                 req' = [req EXCEPT ![x] = [Idle EXCEPT !.pc = pc, !.old = s]]
      BY <2>3 DEF FindSession
    <3>2. req'[x] = [Idle EXCEPT !.pc = pc, !.old = s] /\ (x # r => req'[r] = req[r])
      BY <3>1, Types
    <3>3. QED
      BY <3>2 DEF Moved, Idle
  <2>4. CASE DeleteAccount(x)
    BY <2>4 DEF DeleteAccount
  <2>5. CASE \/ LoginCheck(x) \/ LoginWrong(x) \/ CountAttempt(x) \/ SetLock(x)
             \/ DeleteCount(x) \/ ClearCount(x) \/ ClearLock(x) \/ InsertSession(x)
    BY <1>2, <1>3, <2>5
       DEF LoginCheck, LoginWrong, CountAttempt, SetLock, DeleteCount, ClearCount,
           ClearLock, InsertSession
  <2>6. CASE \/ Rotate(x) \/ RotateFails(x) \/ Mistrust(x) \/ Change(x)
             \/ ResetFind(x) \/ ResetSave(x) \/ RevokeAll(x) \/ Fails(x)
    BY <1>2, <1>3, <2>6
       DEF Rotate, RotateFails, Mistrust, Change, ResetFind, ResetSave, RevokeAll, Fails
  <2>7. QED
    BY <1>4, <2>1, <2>2, <2>3, <2>4, <2>5, <2>6 DEF LoginStep, RefreshStep, RevokeStep
<1>5. ASSUME \/ \E s \in Ids : Logout(s) \/ Expire(s) \/ CleanUp(s)
             \/ LockLapses \/ WindowLapses \/ Forgot \/ LinkLapses \/ UNCHANGED vars
      PROVE  req'[r] = req[r]
  BY <1>5 DEF Logout, Expire, CleanUp, LockLapses, WindowLapses, Forgot, LinkLapses, vars
<1>6. QED
  BY <1>4, <1>5 DEF Next

LEMMA CapStep == IInv /\ CapKept /\ [Next]_vars => CapKept'
<1> SUFFICES ASSUME IInv, CapKept, [Next]_vars, NEW r \in Requests
             PROVE  /\ req'[r].listed <= made'
                    /\ req'[r].pc = "trim" => Listed(r)' \subseteq req'[r].seen
                    /\ req'[r].pc = "insert" => Cardinality(Listed(r)') <= Cap - 1
  BY DEF CapKept, At
<1>1. /\ made' \in Nat /\ made <= made' /\ made \in Nat
      /\ \A s \in Ids : s \in Live' => s \in Live \/ s > made
  BY LiveRowsAreOld, Types
<1>2. req[r].listed \in Nat /\ req[r].listed <= made
  BY Types DEF CapKept, Request
<1>3. CASE req'[r] = req[r]
  BY <1>1, <1>3, ListedKept
<1>4. CASE /\ req'[r].pc \notin {"trim", "insert"}
           /\ req'[r].listed = 0 \/ req'[r].listed = req[r].listed
  BY <1>1, <1>2, <1>4
<1>5. CASE ListSessions(r)
  <2>1. /\ req'[r].pc = IF Cardinality(Live) >= Cap THEN "trim" ELSE "insert"
        /\ req'[r].seen = Live /\ req'[r].listed = made /\ made' = made /\ session' = session
    BY <1>5, Types DEF ListSessions, Request
  <2>2. PICK T : T = Listed(r)'
    OBVIOUS
  <2>3. T \in SUBSET Live /\ IsFiniteSet(Live)
    <3>1. T \in SUBSET Live
      BY <2>1, <2>2 DEF Listed, Live
    <3>2. Live \in SUBSET Ids
      BY DEF Live
    <3>3. QED
      BY <3>1, <3>2, Finite, FS_Subset
  <2>4. Cardinality(T) <= Cardinality(Live) /\ Cardinality(T) \in Nat /\ Cardinality(Live) \in Nat
    BY <2>3, Smaller
  <2>5. Cap \in Nat
    BY SessionsAssumption
  <2>6. QED
    BY <1>1, <2>1, <2>2, <2>3, <2>4, <2>5
<1>6. CASE TrimSessions(r)
  <2>1. /\ req[r].pc = "trim" /\ req'[r].pc = "insert" /\ made' = made
        /\ req'[r].listed = req[r].listed
        /\ session' = Revoked(Oldest(req[r].seen)) /\ req[r].seen \in SUBSET Ids
    BY <1>6, Types DEF TrimSessions, At, Goes, Request
  <2>2. PICK T, K : T = Listed(r)' /\ K = req[r].seen \ Oldest(req[r].seen)
    OBVIOUS
  <2>3. ASSUME NEW s \in T PROVE s \in K
    <3>1. s \in Ids /\ s \in Live' /\ s <= req[r].listed
      BY <2>1, <2>2, <2>3 DEF Listed, Live
    <3>2. s \in Live /\ s \notin Oldest(req[r].seen)
      BY <2>1, <3>1, RevokedSinks DEF Live
    <3>3. s \in req[r].seen
      BY <2>1, <3>1, <3>2 DEF CapKept, At, Listed
    <3>4. QED
      BY <2>2, <3>2, <3>3
  <2>4. IsFiniteSet(K) /\ Cardinality(K) \in Nat /\ Cardinality(K) <= Cap - 1 /\ Cap \in Nat
    BY <2>1, <2>2, OldestLeavesFew, SessionsAssumption
  <2>5. Cardinality(T) <= Cardinality(K) /\ Cardinality(T) \in Nat
    BY <2>3, <2>4, Smaller
  <2>6. QED
    BY <1>2, <2>1, <2>2, <2>4, <2>5
<1>7. QED
  BY <1>3, <1>4, <1>5, <1>6, ListedMoves

LEMMA CapInductive == Spec => []CapKept
<1>1. Init => CapKept
  BY DEF Init, CapKept, At, Idle
<1>2. QED
  BY <1>1, CapStep, Inductive, PTL DEF Spec

LEMMA CapBounds == IInv /\ CapKept => SessionsBounded
<1> SUFFICES ASSUME IInv, CapKept, NEW r \in Requests, At(r, "insert")
             PROVE  Cardinality(Live) < Cap + (made - req[r].listed)
  BY DEF SessionsBounded
<1>1. /\ made \in Nat /\ req[r].listed \in Nat /\ req[r].listed <= made /\ Cap \in Nat
      /\ Cardinality(Listed(r)) <= Cap - 1
  BY Types, SessionsAssumption DEF CapKept, Request
<1>2. PICK a \in Nat : a = req[r].listed + 1
  BY <1>1
<1> DEFINE N == a .. made
<1>3. IsFiniteSet(N) /\ Cardinality(N) = made - req[r].listed
  <2>1. PICK b \in Int : a \in Int /\ b = made
    BY <1>1
  <2>2. IsFiniteSet(a .. b) /\ Cardinality(a .. b) = IF a > b THEN 0 ELSE b - a + 1
    BY <2>1, FS_Interval
  <2>3. QED
    BY <1>1, <1>2, <2>1, <2>2
<1>4. ASSUME NEW s \in Live PROVE s \in Listed(r) \cup N
  <2>1. s \in Ids /\ s \in Nat /\ s <= made
    BY <1>1, Types DEF Live, IInv, Numbered
  <2>2. QED
    BY <1>1, <1>2, <2>1 DEF Listed
<1>5. IsFiniteSet(Listed(r))
  BY Finite, FS_Subset DEF Listed, Live
<1>6. /\ IsFiniteSet(Listed(r) \cup N)
      /\ Cardinality(Listed(r) \cup N)
           = Cardinality(Listed(r)) + Cardinality(N) - Cardinality(Listed(r) \cap N)
  BY <1>3, <1>5, FS_Union
<1>7. Cardinality(Listed(r) \cap N) \in Nat /\ Cardinality(Listed(r)) \in Nat
  BY <1>3, <1>5, FS_Intersection, FS_CardinalityType
<1>8. Cardinality(Live) <= Cardinality(Listed(r) \cup N) /\ Cardinality(Live) \in Nat
  BY <1>4, <1>6, Smaller
<1>9. QED
  BY <1>1, <1>3, <1>6, <1>7, <1>8

-----------------------------------------------------------------------------
(* The lock.  Counted is GuessesCounted of any numbers: of late deletions d,  *)
(* of requests that compare, count and are about to delete the counter for an *)
(* earlier lock.                                                              *)

Counted(n, d, f, compare, count, uncount, g) ==
  LET k == MaxAttempts - 1
  IN  IF g.locked
      THEN g.guesses + compare <= k * d + n + f
      ELSE g.guesses > 0 =>
             g.guesses <= k * (d - 1 - uncount)
                          + (IF g.attempts < k THEN g.attempts ELSE k) + count + f

Guard == [attempts : Nat, locked : BOOLEAN, guesses : Nat]

LEMMA Product ==
  ASSUME NEW k \in Nat, NEW x \in Int, NEW y \in Int
  PROVE  /\ k * x \in Int
         /\ y <= x => k * y <= k * x
         /\ y < x => k * y + k <= k * x
         /\ 0 <= x => 0 <= k * x
<1>1. k * x \in Int /\ k * y \in Int /\ k * (x - y) \in Int /\ k * (x - y) = k * x - k * y
  OBVIOUS
<1>2. ASSUME NEW z \in Nat PROVE k * z \in Nat /\ (z > 0 => k <= k * z)
  <2>1. k * z \in Nat
    OBVIOUS
  <2>2. ASSUME z > 0 PROVE k <= k * z
    <3>1. z - 1 \in Nat
      BY <2>2
    <3>2. k * (z - 1) \in Nat /\ k * z = k * (z - 1) + k
      BY <3>1
    <3>3. QED
      BY <3>2
  <2>3. QED
    BY <2>1, <2>2
<1>3. y <= x => k * (x - y) >= 0
  BY <1>2
<1>4. y < x => k * (x - y) >= k
  BY <1>2
<1>5. 0 <= x => 0 <= k * x
  BY <1>2
<1>6. QED
  BY <1>1, <1>3, <1>4, <1>5

(* The guard stays as it is: nobody passes the check of a locked account, and *)
(* what is not counted is a failure.                                          *)
LEMMA GuardStays ==
  ASSUME NEW n \in Nat, NEW d \in Nat, NEW f \in Nat, NEW c \in Nat, NEW t \in Nat,
         NEW u \in Nat, NEW g \in Guard, Counted(n, d, f, c, t, u, g),
         NEW d1 \in Nat, NEW f1 \in Nat, NEW c1 \in Nat, NEW t1 \in Nat, NEW u1 \in Nat,
         d <= d1, f <= f1, g.locked => c1 <= c,
         ~g.locked => u1 <= u /\ t + f <= t1 + f1
  PROVE  Counted(n, d1, f1, c1, t1, u1, g)
<1>1. PICK k \in Nat : k = MaxAttempts - 1
  BY SessionsAssumption
<1>2. g.guesses \in Nat /\ g.attempts \in Nat /\ g.locked \in BOOLEAN
  BY DEF Guard
<1>3. CASE g.locked
  <2>1. k * d <= k * d1 /\ k * d \in Int /\ k * d1 \in Int
    BY Product
  <2>2. g.guesses + c <= k * d + n + f
    BY <1>1, <1>3 DEF Counted
  <2>3. g.guesses + c1 <= k * d1 + n + f1
    BY <1>2, <1>3, <2>1, <2>2
  <2>4. QED
    BY <1>1, <1>3, <2>3 DEF Counted
<1>4. CASE ~g.locked /\ g.guesses > 0
  <2>1. PICK x \in Int, y \in Int : x = d1 - 1 - u1 /\ y = d - 1 - u
    OBVIOUS
  <2>2. k * y <= k * x /\ k * x \in Int /\ k * y \in Int
    BY <1>4, <2>1, Product
  <2>3. g.guesses <= k * y + (IF g.attempts < k THEN g.attempts ELSE k) + t + f
    BY <1>1, <1>4, <2>1 DEF Counted
  <2>4. g.guesses <= k * x + (IF g.attempts < k THEN g.attempts ELSE k) + t1 + f1
    BY <1>2, <1>4, <2>2, <2>3
  <2>5. QED
    BY <1>1, <1>4, <2>1, <2>4 DEF Counted
<1>5. CASE ~g.locked /\ ~(g.guesses > 0)
  BY <1>5 DEF Counted
<1>6. QED
  BY <1>3, <1>4, <1>5

(* An account that is unlocked begins anew. *)
LEMMA GuardCleared ==
  ASSUME NEW n \in Nat, NEW d \in Nat, NEW f \in Nat, NEW c \in 0 .. n, NEW t, NEW u,
         NEW g \in Guard, g.guesses = 0
  PROVE  Counted(n, d, f, c, t, u, g)
<1>1. PICK k \in Nat : k = MaxAttempts - 1
  BY SessionsAssumption
<1>2. k * d \in Int /\ 0 <= k * d
  BY Product
<1>3. g.guesses + c <= k * d + n + f
  BY <1>2
<1>4. QED
  BY <1>1, <1>3 DEF Counted

(* A wrong password. *)
LEMMA GuardGuessed ==
  ASSUME NEW n \in Nat, NEW d \in Nat, NEW f \in Nat, NEW c \in Nat, NEW t \in Nat,
         NEW u \in Nat, NEW g \in Guard, Counted(n, d, f, c, t, u, g),
         NEW h \in Guard, h.guesses = g.guesses + 1, h.attempts = g.attempts,
         h.locked = g.locked, u + 1 <= d, c >= 1
  PROVE  Counted(n, d, f, c - 1, t + 1, u, h)
<1>1. PICK k \in Nat : k = MaxAttempts - 1
  BY SessionsAssumption
<1>2. g.guesses \in Nat /\ g.attempts \in Nat /\ g.locked \in BOOLEAN
  BY DEF Guard
<1>3. CASE g.locked
  <2>1. k * d \in Int
    BY Product
  <2>2. g.guesses + c <= k * d + n + f
    BY <1>1, <1>3 DEF Counted
  <2>3. h.guesses + (c - 1) <= k * d + n + f
    BY <1>2, <2>1, <2>2
  <2>4. QED
    BY <1>1, <1>3, <2>3 DEF Counted
<1>4. CASE ~g.locked
  <2>1. PICK x \in Int : x = d - 1 - u
    OBVIOUS
  <2>2. k * x \in Int /\ 0 <= k * x
    BY <2>1, Product
  <2>3. g.guesses > 0 =>
          g.guesses <= k * x + (IF g.attempts < k THEN g.attempts ELSE k) + t + f
    BY <1>1, <1>4, <2>1 DEF Counted
  <2>4. h.guesses <= k * x + (IF g.attempts < k THEN g.attempts ELSE k) + (t + 1) + f
    BY <1>2, <2>2, <2>3
  <2>5. QED
    BY <1>1, <1>4, <2>1, <2>4 DEF Counted
<1>5. QED
  BY <1>3, <1>4

(* It is counted, and the request ends or goes on to set the lock. *)
LEMMA GuardCounts ==
  ASSUME NEW n \in Nat, NEW d \in Nat, NEW f \in Nat, NEW c \in Nat, NEW t \in Nat,
         NEW u \in Nat, NEW g \in Guard, Counted(n, d, f, c, t, u, g),
         NEW h \in Guard, h.guesses = g.guesses, h.attempts = g.attempts + 1,
         h.locked = g.locked,
         NEW t1 \in Nat, t1 = IF g.attempts + 1 >= MaxAttempts THEN t ELSE t - 1
  PROVE  Counted(n, d, f, c, t1, u, h)
<1>1. PICK k \in Nat : k = MaxAttempts - 1 /\ MaxAttempts = k + 1
  BY SessionsAssumption
<1>2. g.guesses \in Nat /\ g.attempts \in Nat /\ g.locked \in BOOLEAN
  BY DEF Guard
<1>3. CASE g.locked
  BY <1>1, <1>3 DEF Counted
<1>4. CASE ~g.locked
  <2>1. PICK x \in Int : x = d - 1 - u
    OBVIOUS
  <2>2. k * x \in Int
    BY Product
  <2>3. g.guesses > 0 =>
          g.guesses <= k * x + (IF g.attempts < k THEN g.attempts ELSE k) + t + f
    BY <1>1, <1>4, <2>1 DEF Counted
  <2>4. h.guesses > 0 =>
          h.guesses <= k * x + (IF h.attempts < k THEN h.attempts ELSE k) + t1 + f
    BY <1>1, <1>2, <2>2, <2>3
  <2>5. QED
    BY <1>1, <1>4, <2>1, <2>4 DEF Counted
<1>5. QED
  BY <1>3, <1>4

(* The lock is set: who has passed the check or is counting may be as many as *)
(* the requests.                                                              *)
LEMMA GuardLocks ==
  ASSUME NEW n \in Nat, NEW d \in Nat, NEW f \in Nat, NEW c \in Nat, NEW t \in Nat,
         NEW u \in Nat, NEW g \in Guard, Counted(n, d, f, c, t, u, g), c + t <= n,
         NEW h \in Guard, h.guesses = g.guesses, h.attempts = g.attempts, h.locked,
         NEW t1, NEW u1
  PROVE  Counted(n, d, f, c, t1, u1, h)
<1>1. PICK k \in Nat : k = MaxAttempts - 1
  BY SessionsAssumption
<1>2. g.guesses \in Nat /\ g.attempts \in Nat /\ g.locked \in BOOLEAN
  BY DEF Guard
<1>3. k * d \in Int /\ 0 <= k * d
  BY Product
<1>4. g.guesses + c <= k * d + n + f
  <2>1. CASE g.locked
    BY <1>1, <2>1 DEF Counted
  <2>2. CASE ~g.locked /\ g.guesses > 0
    <3>1. PICK x \in Int : x = d - 1 - u
      OBVIOUS
    <3>2. k * x + k <= k * d /\ k * x \in Int
      BY <3>1, Product
    <3>3. g.guesses <= k * x + (IF g.attempts < k THEN g.attempts ELSE k) + t + f
      BY <1>1, <2>2, <3>1 DEF Counted
    <3>4. g.guesses <= k * x + k + t + f
      BY <1>2, <3>2, <3>3
    <3>5. QED
      BY <1>2, <1>3, <3>2, <3>4
  <2>3. CASE ~(g.guesses > 0)
    BY <1>2, <1>3, <2>3
  <2>4. QED
    BY <2>1, <2>2, <2>3
<1>5. QED
  BY <1>1, <1>4 DEF Counted

(* A late deletion: one less to come, or one more that was. *)
LEMMA GuardForgets ==
  ASSUME NEW n \in Nat, NEW d \in Nat, NEW f \in Nat, NEW c \in Nat, NEW t \in Nat,
         NEW u \in Nat, NEW g \in Guard, Counted(n, d, f, c, t, u, g),
         NEW h \in Guard, h.guesses = g.guesses, h.attempts = 0, h.locked = g.locked,
         NEW d1 \in Nat, NEW u1 \in Nat, d <= d1, d - u < d1 - u1
  PROVE  Counted(n, d1, f, c, t, u1, h)
<1>1. PICK k \in Nat : k = MaxAttempts - 1
  BY SessionsAssumption
<1>2. g.guesses \in Nat /\ g.attempts \in Nat /\ g.locked \in BOOLEAN
  BY DEF Guard
<1>3. CASE g.locked
  <2>1. k * d <= k * d1 /\ k * d \in Int /\ k * d1 \in Int
    BY Product
  <2>2. g.guesses + c <= k * d + n + f
    BY <1>1, <1>3 DEF Counted
  <2>3. h.guesses + c <= k * d1 + n + f
    BY <1>2, <2>1, <2>2
  <2>4. QED
    BY <1>1, <1>3, <2>3 DEF Counted
<1>4. CASE ~g.locked /\ g.guesses > 0
  <2>1. PICK x \in Int, y \in Int : x = d1 - 1 - u1 /\ y = d - 1 - u /\ y < x
    OBVIOUS
  <2>2. k * y + k <= k * x /\ k * x \in Int /\ k * y \in Int
    BY <2>1, Product
  <2>3. g.guesses <= k * y + (IF g.attempts < k THEN g.attempts ELSE k) + t + f
    BY <1>1, <1>4, <2>1 DEF Counted
  <2>4. g.guesses <= k * x + t + f
    BY <1>2, <2>2, <2>3
  <2>5. h.guesses <= k * x + (IF h.attempts < k THEN h.attempts ELSE k) + t + f
    BY <1>2, <2>2, <2>4
  <2>6. QED
    BY <1>1, <1>4, <2>1, <2>5 DEF Counted
<1>5. CASE ~g.locked /\ ~(g.guesses > 0)
  BY <1>5 DEF Counted
<1>6. QED
  BY <1>3, <1>4, <1>5

Compare == Cardinality(Among({"compare"}))
Count   == Cardinality(Among({"count", "lock"}))
Uncount == Cardinality(Among({"uncount"}))
Unlock  == Cardinality(Among({"unlock"}))

LEMMA GuessesAreCounted ==
  GuessesCounted <=>
    Counted(Cardinality(Requests), Deletions, faults, Compare, Count, Uncount, guard)
  BY DEF GuessesCounted, Counted, Compare, Count, Uncount

(* One request moves: it leaves the requests it was among and joins others. *)
LEMMA Tally ==
  ASSUME req \in [Requests -> Request], NEW r \in Requests, NEW q,
         req' = [req EXCEPT ![r] = q], NEW K
  PROVE  /\ Cardinality(Among(K)) \in Nat /\ Cardinality(Among(K)') \in Nat
         /\ Cardinality(Among(K)')
              = Cardinality(Among(K)) - (IF req[r].pc \in K THEN 1 ELSE 0)
                                      + (IF q.pc \in K THEN 1 ELSE 0)
<1>1. PICK S, T : S = Among(K) /\ T = Among(K)'
  OBVIOUS
<1>2. IsFiniteSet(S) /\ IsFiniteSet(T)
  <2>1. S \in SUBSET Requests /\ T \in SUBSET Requests
    BY <1>1 DEF Among
  <2>2. QED
    BY <2>1, Finite, FS_Subset
<1>3. /\ r \in S <=> req[r].pc \in K
      /\ r \in T <=> q.pc \in K
      /\ T \ {r} = S \ {r}
  BY <1>1 DEF Among
<1>4. Cardinality(S) \in Nat /\ Cardinality(T) \in Nat
  BY <1>2, FS_CardinalityType
<1>5. ASSUME NEW X, IsFiniteSet(X), Cardinality(X) \in Nat
      PROVE  Cardinality(X \ {r}) = Cardinality(X) - (IF r \in X THEN 1 ELSE 0)
  <2>1. CASE r \in X
    BY <1>5, <2>1, FS_RemoveElement
  <2>2. CASE r \notin X
    <3>1. X \ {r} = X
      BY <2>2
    <3>2. Cardinality(X \ {r}) = Cardinality(X)
      BY <3>1
    <3>3. QED
      BY <1>5, <2>2, <3>2
  <2>3. QED
    BY <2>1, <2>2
<1>6. /\ Cardinality(S \ {r}) = Cardinality(S) - (IF r \in S THEN 1 ELSE 0)
      /\ Cardinality(T \ {r}) = Cardinality(T) - (IF r \in T THEN 1 ELSE 0)
  BY <1>2, <1>4, <1>5
<1>7. QED
  <2>1. Cardinality(T) = Cardinality(S) - (IF r \in S THEN 1 ELSE 0)
                                       + (IF r \in T THEN 1 ELSE 0)
    BY <1>3, <1>4, <1>6
  <2>2. Cardinality(T) = Cardinality(S) - (IF req[r].pc \in K THEN 1 ELSE 0)
                                       + (IF q.pc \in K THEN 1 ELSE 0)
    BY <1>3, <2>1
  <2>3. QED
    BY <1>1, <1>4, <2>2

(* The same for the four numbers. *)
Moved(from, to) ==
  /\ Compare \in Nat /\ Count \in Nat /\ Uncount \in Nat /\ Unlock \in Nat
  /\ Compare' \in Nat /\ Count' \in Nat /\ Uncount' \in Nat /\ Unlock' \in Nat
  /\ Compare' = Compare - (IF from = "compare" THEN 1 ELSE 0)
                        + (IF to = "compare" THEN 1 ELSE 0)
  /\ Count' = Count - (IF from \in {"count", "lock"} THEN 1 ELSE 0)
                    + (IF to \in {"count", "lock"} THEN 1 ELSE 0)
  /\ Uncount' = Uncount - (IF from = "uncount" THEN 1 ELSE 0)
                        + (IF to = "uncount" THEN 1 ELSE 0)
  /\ Unlock' = Unlock - (IF from = "unlock" THEN 1 ELSE 0)
                      + (IF to = "unlock" THEN 1 ELSE 0)

LEMMA Tallies ==
  ASSUME IInv, NEW r \in Requests, NEW q, req' = [req EXCEPT ![r] = q]
  PROVE  Moved(req[r].pc, q.pc)
<1>1. req \in [Requests -> Request]
  BY Types
<1>2. /\ Compare \in Nat /\ Compare' \in Nat
      /\ Compare' = Compare - (IF req[r].pc = "compare" THEN 1 ELSE 0)
                            + (IF q.pc = "compare" THEN 1 ELSE 0)
  <2>1. PICK K : K = {"compare"}
    OBVIOUS
  <2>2. /\ Cardinality(Among(K)) \in Nat /\ Cardinality(Among(K)') \in Nat
        /\ Cardinality(Among(K)')
             = Cardinality(Among(K)) - (IF req[r].pc \in K THEN 1 ELSE 0)
                                     + (IF q.pc \in K THEN 1 ELSE 0)
    BY <1>1, Tally
  <2>3. /\ req[r].pc \in K <=> req[r].pc = "compare"
        /\ q.pc \in K <=> q.pc = "compare"
    BY <2>1
  <2>4. Compare = Cardinality(Among(K)) /\ Compare' = Cardinality(Among(K)')
    BY <2>1 DEF Compare
  <2>5. QED
    BY <2>2, <2>3, <2>4
<1>3. /\ Count \in Nat /\ Count' \in Nat
      /\ Count' = Count - (IF req[r].pc \in {"count", "lock"} THEN 1 ELSE 0)
                        + (IF q.pc \in {"count", "lock"} THEN 1 ELSE 0)
  BY <1>1, Tally DEF Count
<1>4. /\ Uncount \in Nat /\ Uncount' \in Nat
      /\ Uncount' = Uncount - (IF req[r].pc = "uncount" THEN 1 ELSE 0)
                            + (IF q.pc = "uncount" THEN 1 ELSE 0)
  <2>1. PICK K : K = {"uncount"}
    OBVIOUS
  <2>2. /\ Cardinality(Among(K)) \in Nat /\ Cardinality(Among(K)') \in Nat
        /\ Cardinality(Among(K)')
             = Cardinality(Among(K)) - (IF req[r].pc \in K THEN 1 ELSE 0)
                                     + (IF q.pc \in K THEN 1 ELSE 0)
    BY <1>1, Tally
  <2>3. /\ req[r].pc \in K <=> req[r].pc = "uncount"
        /\ q.pc \in K <=> q.pc = "uncount"
    BY <2>1
  <2>4. Uncount = Cardinality(Among(K)) /\ Uncount' = Cardinality(Among(K)')
    BY <2>1 DEF Uncount
  <2>5. QED
    BY <2>2, <2>3, <2>4
<1>5. /\ Unlock \in Nat /\ Unlock' \in Nat
      /\ Unlock' = Unlock - (IF req[r].pc = "unlock" THEN 1 ELSE 0)
                          + (IF q.pc = "unlock" THEN 1 ELSE 0)
  <2>1. PICK K : K = {"unlock"}
    OBVIOUS
  <2>2. /\ Cardinality(Among(K)) \in Nat /\ Cardinality(Among(K)') \in Nat
        /\ Cardinality(Among(K)')
             = Cardinality(Among(K)) - (IF req[r].pc \in K THEN 1 ELSE 0)
                                     + (IF q.pc \in K THEN 1 ELSE 0)
    BY <1>1, Tally
  <2>3. /\ req[r].pc \in K <=> req[r].pc = "unlock"
        /\ q.pc \in K <=> q.pc = "unlock"
    BY <2>1
  <2>4. Unlock = Cardinality(Among(K)) /\ Unlock' = Cardinality(Among(K)')
    BY <2>1 DEF Unlock
  <2>5. QED
    BY <2>2, <2>3, <2>4
<1>6. QED
  BY <1>2, <1>3, <1>4, <1>5 DEF Moved

LEMMA Tallied ==
  ASSUME IInv
  PROVE  /\ Cardinality(Requests) \in Nat /\ faults \in Nat /\ guard \in Guard
         /\ Compare \in Nat /\ Count \in Nat /\ Uncount \in Nat /\ Unlock \in Nat
         /\ Deletions = Cardinality(Requests) + Unlock + faults /\ Deletions \in Nat
         /\ Compare + Count <= Cardinality(Requests) /\ Compare <= Cardinality(Requests)
         /\ Uncount <= Cardinality(Requests)
         /\ Compare > 0 => Uncount < Cardinality(Requests)
<1>1. PICK C, T, U, L : /\ C = Among({"compare"}) /\ T = Among({"count", "lock"})
                        /\ U = Among({"uncount"}) /\ L = Among({"unlock"})
  OBVIOUS
<1>2. /\ C \in SUBSET Requests /\ T \in SUBSET Requests /\ U \in SUBSET Requests
      /\ L \in SUBSET Requests /\ C \cap T = {} /\ C \cap U = {}
  BY <1>1 DEF Among
<1>3. /\ IsFiniteSet(C) /\ IsFiniteSet(T) /\ IsFiniteSet(U) /\ IsFiniteSet(L)
      /\ IsFiniteSet(Requests)
  BY <1>2, Finite, FS_Subset
<1>4. /\ Cardinality(C) \in Nat /\ Cardinality(T) \in Nat /\ Cardinality(U) \in Nat
      /\ Cardinality(L) \in Nat /\ Cardinality(Requests) \in Nat /\ Cardinality({}) = 0
  BY <1>3, FS_CardinalityType, FS_EmptySet
<1>5. /\ Cardinality(C \cup T) = Cardinality(C) + Cardinality(T)
      /\ Cardinality(C \cup U) = Cardinality(C) + Cardinality(U)
  <2>1. /\ Cardinality(C \cup T) = Cardinality(C) + Cardinality(T) - Cardinality(C \cap T)
        /\ Cardinality(C \cup U) = Cardinality(C) + Cardinality(U) - Cardinality(C \cap U)
    BY <1>3, FS_Union
  <2>2. Cardinality(C \cap T) = 0 /\ Cardinality(C \cap U) = 0
    BY <1>2, <1>4
  <2>3. QED
    BY <1>4, <2>1, <2>2
<1>6. /\ Cardinality(C \cup T) <= Cardinality(Requests)
      /\ Cardinality(C \cup U) <= Cardinality(Requests)
  BY <1>2, <1>3, Smaller
<1>7. faults \in Nat /\ guard \in Guard
  BY DEF IInv, TypeOK, Guard
<1>8. /\ Compare = Cardinality(C) /\ Count = Cardinality(T) /\ Uncount = Cardinality(U)
      /\ Unlock = Cardinality(L)
      /\ Deletions = Cardinality(Requests) + Cardinality(L) + faults
  BY <1>1 DEF Compare, Count, Uncount, Unlock, Deletions
<1>9. QED
  BY <1>4, <1>5, <1>6, <1>7, <1>8

LEMMA CountedNext ==
  ASSUME NEW d, NEW f, NEW c, NEW t, NEW u, NEW g,
         d = Deletions', f = faults', c = Compare', t = Count', u = Uncount', g = guard',
         Counted(Cardinality(Requests), d, f, c, t, u, g)
  PROVE  GuessesCounted'
BY DEF GuessesCounted, Counted, Compare, Count, Uncount

LEMMA GuardTyped == IInv' => guard' \in Guard /\ faults' \in Nat
  BY DEF IInv, TypeOK, Guard

(* A step that leaves the guard alone. *)
LEMMA GuardUnchanged ==
  ASSUME IInv, IInv', GuessesCounted, NEW r \in Requests, NEW q,
         req' = [req EXCEPT ![r] = q], UNCHANGED guard,
         q.pc \notin {"count", "lock", "uncount", "unlock"},
         q.pc = "compare" => ~guard.locked,
         \/ faults' = faults /\ req[r].pc \notin {"count", "lock", "unlock"}
         \/ faults' = faults + 1
  PROVE  GuessesCounted'
<1>1. /\ Compare' \in Nat /\ Count' \in Nat /\ Uncount' \in Nat /\ Unlock' \in Nat
      /\ Cardinality(Requests) \in Nat /\ faults \in Nat /\ guard \in Guard
      /\ Compare \in Nat /\ Count \in Nat /\ Uncount \in Nat /\ Unlock \in Nat
      /\ Deletions = Cardinality(Requests) + Unlock + faults /\ Deletions \in Nat
      /\ Deletions' = Cardinality(Requests) + Unlock' + faults'
  BY Tallies, Tallied DEF Moved, Deletions, Unlock
<1>2. /\ Compare' = Compare - (IF req[r].pc = "compare" THEN 1 ELSE 0)
                            + (IF q.pc = "compare" THEN 1 ELSE 0)
      /\ Count' = Count - (IF req[r].pc \in {"count", "lock"} THEN 1 ELSE 0)
      /\ Uncount' = Uncount - (IF req[r].pc = "uncount" THEN 1 ELSE 0)
      /\ Unlock' = Unlock - (IF req[r].pc = "unlock" THEN 1 ELSE 0)
  <2>1. Moved(req[r].pc, q.pc)
    BY Tallies
  <2>2. q.pc \notin {"count", "lock"} /\ q.pc # "uncount" /\ q.pc # "unlock"
    OBVIOUS
  <2>3. QED
    BY <2>1, <2>2 DEF Moved
<1>3. /\ guard.locked => Compare' <= Compare
      /\ Uncount' <= Uncount
  BY <1>1, <1>2
<1>4. /\ faults' \in Nat /\ faults <= faults'
      /\ Unlock + faults <= Unlock' + faults' /\ Count + faults <= Count' + faults'
  <2>1. CASE faults' = faults /\ req[r].pc \notin {"count", "lock", "unlock"}
    BY <1>1, <1>2, <2>1
  <2>2. CASE faults' = faults + 1
    BY <1>1, <1>2, <2>2
  <2>3. QED
    BY <2>1, <2>2
<1>5. Deletions' \in Nat /\ Deletions <= Deletions'
  <2>1. ASSUME NEW n \in Nat, NEW u \in Nat, NEW f \in Nat, NEW u1 \in Nat, NEW f1 \in Nat,
               u + f <= u1 + f1
        PROVE  n + u1 + f1 \in Nat /\ n + u + f <= n + u1 + f1
    BY <2>1
  <2>2. QED
    BY <1>1, <1>4, <2>1
<1>6. Counted(Cardinality(Requests), Deletions, faults, Compare, Count, Uncount, guard)
  BY GuessesAreCounted
<1>7. PICK d, f, c, t, u : /\ d = Deletions' /\ f = faults' /\ c = Compare' /\ t = Count'
                           /\ u = Uncount'
  OBVIOUS
<1>8. Counted(Cardinality(Requests), d, f, c, t, u, guard)
  BY <1>1, <1>3, <1>4, <1>5, <1>6, <1>7, GuardStays
<1>9. QED
  BY <1>7, <1>8, CountedNext
(* The steps that leave the guard alone and concern one request. *)
GuardAlone(r, q) ==
  /\ req' = [req EXCEPT ![r] = q] /\ UNCHANGED guard
  /\ q.pc \notin {"count", "lock", "uncount", "unlock"}
  /\ q.pc = "compare" => ~guard.locked
  /\ \/ faults' = faults /\ req[r].pc \notin {"count", "lock", "unlock"}
     \/ faults' = faults + 1

LEMMA GuardLeft ==
  ASSUME IInv, NEW r \in Requests,
         \/ LoginCheck(r) \/ LoginRight(r) \/ ListSessions(r) \/ TrimSessions(r)
         \/ InsertSession(r) \/ RefreshStep(r) \/ Change(r) \/ ResetFind(r)
         \/ ResetSave(r) \/ RevokeAll(r) \/ Fails(r)
  PROVE  \E q : GuardAlone(r, q)
<1> DEFINE to(pc) == [req[r] EXCEPT !.pc = pc]
<1>1. /\ \A pc : to(pc).pc = pc
      /\ Idle.pc = "idle"
  BY Types DEF Request
<1>2. CASE LoginCheck(r)
  <2>1. GuardAlone(r, to("compare"))
    BY <1>1, <1>2 DEF LoginCheck, At, Goes, GuardAlone
  <2>2. QED
    BY <2>1
<1>3. CASE LoginRight(r)
  <2>1. GuardAlone(r, [Idle EXCEPT !.pc = "clear", !.root = revocations])
    BY <1>3 DEF LoginRight, At, Idle, GuardAlone
  <2>2. QED
    BY <2>1
<1>4. CASE ListSessions(r)
  <2>1. PICK pc \in {"trim", "insert"} :
          pc = IF Cardinality(Live) >= Cap THEN "trim" ELSE "insert"
    OBVIOUS
  <2>2. PICK q : q = [req[r] EXCEPT !.pc = pc, !.seen = Live, !.listed = made]
    OBVIOUS
  <2>3. q.pc = pc
    BY <2>2, Types DEF Request
  <2>4. GuardAlone(r, q)
    BY <1>4, <2>1, <2>2, <2>3 DEF ListSessions, At, GuardAlone
  <2>5. QED
    BY <2>4
<1>5. CASE TrimSessions(r)
  <2>1. GuardAlone(r, to("insert"))
    BY <1>1, <1>5 DEF TrimSessions, At, Goes, GuardAlone
  <2>2. QED
    BY <2>1
<1>6. CASE InsertSession(r) \/ Rotate(r) \/ RotateFails(r) \/ Mistrust(r) \/ RevokeAll(r)
  <2>1. GuardAlone(r, Idle)
    BY <1>1, <1>6
       DEF InsertSession, Rotate, RotateFails, Mistrust, RevokeAll, At, Ends, GuardAlone
  <2>2. QED
    BY <2>1
<1>7. CASE \E s \in Ids : FindSession(r, s)
  <2>1. PICK s \in Ids : FindSession(r, s)
    BY <1>7
  <2>2. PICK pc \in {"rotate", "mistrust"} :
          req' = [req EXCEPT ![r] = [Idle EXCEPT !.pc = pc, !.old = s]]
    BY <2>1 DEF FindSession
  <2>3. GuardAlone(r, [Idle EXCEPT !.pc = pc, !.old = s])
    BY <2>1, <2>2 DEF FindSession, At, Idle, GuardAlone
  <2>4. QED
    BY <2>3
<1>8. CASE Change(r)
  <2>1. GuardAlone(r, to("revoke"))
    BY <1>1, <1>8 DEF Change, At, Goes, GuardAlone
  <2>2. QED
    BY <2>1
<1>9. CASE ResetFind(r)
  <2>1. GuardAlone(r, to("save"))
    BY <1>1, <1>9 DEF ResetFind, At, Goes, GuardAlone
  <2>2. QED
    BY <2>1
<1>10. CASE ResetSave(r)
  <2>1. GuardAlone(r, to("revoke"))
    BY <1>1, <1>10 DEF ResetSave, At, Goes, GuardAlone
  <2>2. QED
    BY <2>1
<1>11. CASE Fails(r)
  <2>1. GuardAlone(r, Idle)
    BY <1>1, <1>11 DEF Fails, Ends, GuardAlone
  <2>2. QED
    BY <2>1
<1>12. QED
  BY <1>2, <1>3, <1>4, <1>5, <1>6, <1>7, <1>8, <1>9, <1>10, <1>11 DEF RefreshStep

(* The steps of one request on the guard. *)
LEMMA LoginWrongGuarded ==
  ASSUME IInv, IInv', GuessesCounted, NEW r \in Requests, LoginWrong(r)
  PROVE  GuessesCounted'
<1>1. PICK q : /\ q = [req[r] EXCEPT !.pc = "count"] /\ q.pc = "count"
               /\ req' = [req EXCEPT ![r] = q] /\ req[r].pc = "compare"
               /\ guard' = [guard EXCEPT !.guesses = @ + 1] /\ faults' = faults
  BY Types DEF LoginWrong, At, Goes, Request
<1>2. /\ Compare' = Compare - 1 /\ Count' = Count + 1 /\ Uncount' = Uncount
      /\ Unlock' = Unlock /\ Compare \in Nat /\ Compare' \in Nat /\ Compare >= 1
  <2>1. Moved("compare", "count")
    BY <1>1, Tallies
  <2>2. QED
    BY <2>1 DEF Moved
<1>3. Deletions' = Deletions
  BY <1>1, <1>2 DEF Deletions, Unlock
<1>4. /\ Uncount + 1 <= Deletions /\ Deletions \in Nat /\ faults \in Nat
      /\ Count \in Nat /\ Uncount \in Nat /\ Cardinality(Requests) \in Nat
  BY <1>2, Tallied
<1>5. /\ guard \in Guard /\ guard' \in Guard /\ guard'.guesses = guard.guesses + 1
      /\ guard'.attempts = guard.attempts /\ guard'.locked = guard.locked
  BY <1>1, GuardTyped, Tallied DEF Guard
<1>6. Counted(Cardinality(Requests), Deletions, faults, Compare, Count, Uncount, guard)
  BY GuessesAreCounted
<1>7. PICK h : h = guard'
  OBVIOUS
<1>8. Counted(Cardinality(Requests), Deletions, faults, Compare - 1, Count + 1, Uncount, h)
  BY <1>2, <1>4, <1>5, <1>6, <1>7, GuardGuessed
<1>9. QED
  BY <1>1, <1>2, <1>3, <1>7, <1>8, CountedNext

LEMMA CountAttemptGuarded ==
  ASSUME IInv, IInv', GuessesCounted, NEW r \in Requests, CountAttempt(r)
  PROVE  GuessesCounted'
<1>1. PICK q : /\ q.pc = IF guard.attempts + 1 >= MaxAttempts THEN "lock" ELSE "idle"
               /\ req' = [req EXCEPT ![r] = q] /\ req[r].pc = "count"
               /\ guard' = [guard EXCEPT !.attempts = @ + 1] /\ faults' = faults
  BY Types DEF CountAttempt, At, Goes, Ends, Request
<1>2. /\ Compare' = Compare /\ Uncount' = Uncount /\ Unlock' = Unlock
      /\ Count' = IF guard.attempts + 1 >= MaxAttempts THEN Count ELSE Count - 1
      /\ Count' \in Nat
  <2>1. CASE guard.attempts + 1 >= MaxAttempts
    <3>1. Moved("count", "lock")
      BY <1>1, <2>1, Tallies
    <3>2. QED
      BY <2>1, <3>1 DEF Moved
  <2>2. CASE ~(guard.attempts + 1 >= MaxAttempts)
    <3>1. Moved("count", "idle")
      BY <1>1, <2>2, Tallies
    <3>2. QED
      BY <2>2, <3>1 DEF Moved
  <2>3. QED
    BY <2>1, <2>2
<1>3. Deletions' = Deletions
  BY <1>1, <1>2 DEF Deletions, Unlock
<1>4. /\ Deletions \in Nat /\ faults \in Nat /\ Compare \in Nat /\ Count \in Nat
      /\ Uncount \in Nat /\ Cardinality(Requests) \in Nat
  BY Tallied
<1>5. /\ guard \in Guard /\ guard' \in Guard /\ guard'.guesses = guard.guesses
      /\ guard'.attempts = guard.attempts + 1 /\ guard'.locked = guard.locked
  BY <1>1, GuardTyped, Tallied DEF Guard
<1>6. Counted(Cardinality(Requests), Deletions, faults, Compare, Count, Uncount, guard)
  BY GuessesAreCounted
<1>7. PICK h, t : h = guard' /\ t = Count'
  OBVIOUS
<1>8. Counted(Cardinality(Requests), Deletions, faults, Compare, t, Uncount, h)
  BY <1>2, <1>4, <1>5, <1>6, <1>7, GuardCounts
<1>9. QED
  BY <1>1, <1>2, <1>3, <1>7, <1>8, CountedNext

LEMMA SetLockGuarded ==
  ASSUME IInv, IInv', GuessesCounted, NEW r \in Requests, SetLock(r)
  PROVE  GuessesCounted'
<1>1. PICK q : /\ q = [req[r] EXCEPT !.pc = "uncount"] /\ q.pc = "uncount"
               /\ req' = [req EXCEPT ![r] = q] /\ req[r].pc = "lock"
               /\ guard' = [guard EXCEPT !.locked = TRUE] /\ faults' = faults
  BY Types DEF SetLock, At, Goes, Request
<1>2. Compare' = Compare /\ Unlock' = Unlock
  <2>1. Moved("lock", "uncount")
    BY <1>1, Tallies
  <2>2. QED
    BY <2>1 DEF Moved
<1>3. Deletions' = Deletions
  BY <1>1, <1>2 DEF Deletions, Unlock
<1>4. /\ Deletions \in Nat /\ faults \in Nat /\ Compare \in Nat /\ Count \in Nat
      /\ Uncount \in Nat /\ Cardinality(Requests) \in Nat
      /\ Compare + Count <= Cardinality(Requests)
  BY Tallied
<1>5. /\ guard \in Guard /\ guard' \in Guard /\ guard'.guesses = guard.guesses
      /\ guard'.attempts = guard.attempts /\ guard'.locked
  BY <1>1, GuardTyped, Tallied DEF Guard
<1>6. Counted(Cardinality(Requests), Deletions, faults, Compare, Count, Uncount, guard)
  BY GuessesAreCounted
<1>7. PICK h, t, u : h = guard' /\ t = Count' /\ u = Uncount'
  OBVIOUS
<1>8. Counted(Cardinality(Requests), Deletions, faults, Compare, t, u, h)
  BY <1>4, <1>5, <1>6, <1>7, GuardLocks
<1>9. QED
  BY <1>1, <1>2, <1>3, <1>7, <1>8, CountedNext

LEMMA DeleteGuarded ==
  ASSUME IInv, IInv', GuessesCounted, NEW r \in Requests, DeleteCount(r) \/ ClearCount(r)
  PROVE  GuessesCounted'
<1>1. PICK q : /\ \/ q.pc = "idle" /\ req[r].pc = "uncount"
                  \/ q.pc = "unlock" /\ req[r].pc = "clear"
               /\ req' = [req EXCEPT ![r] = q]
               /\ guard' = [guard EXCEPT !.attempts = 0] /\ faults' = faults
  BY Types DEF DeleteCount, ClearCount, At, Goes, Ends, Request
<1>2. /\ Compare' = Compare /\ Count' = Count /\ Uncount' \in Nat /\ Unlock' \in Nat
      /\ Unlock \in Nat /\ Uncount \in Nat
      /\ \/ Uncount' = Uncount - 1 /\ Unlock' = Unlock
         \/ Uncount' = Uncount /\ Unlock' = Unlock + 1
  <2>1. Moved("uncount", "idle") \/ Moved("clear", "unlock")
    <3>1. Moved(req[r].pc, q.pc)
      BY <1>1, Tallies
    <3>2. QED
      BY <1>1, <3>1
  <2>2. QED
    BY <2>1 DEF Moved
<1>3. /\ Deletions \in Nat /\ faults \in Nat /\ Compare \in Nat /\ Count \in Nat
      /\ Uncount \in Nat /\ Cardinality(Requests) \in Nat
      /\ Deletions = Cardinality(Requests) + Unlock + faults
  BY Tallied
<1>4. Deletions' = Cardinality(Requests) + Unlock' + faults
  BY <1>1 DEF Deletions, Unlock
<1>5. /\ Deletions' \in Nat /\ Deletions <= Deletions'
      /\ Deletions - Uncount < Deletions' - Uncount'
  BY <1>2, <1>3, <1>4
<1>6. /\ guard \in Guard /\ guard' \in Guard /\ guard'.guesses = guard.guesses
      /\ guard'.attempts = 0 /\ guard'.locked = guard.locked
  BY <1>1, GuardTyped, Tallied DEF Guard
<1>7. Counted(Cardinality(Requests), Deletions, faults, Compare, Count, Uncount, guard)
  BY GuessesAreCounted
<1>8. PICK h, d, u : h = guard' /\ d = Deletions' /\ u = Uncount'
  OBVIOUS
<1>9. Counted(Cardinality(Requests), d, faults, Compare, Count, u, h)
  BY <1>2, <1>3, <1>5, <1>6, <1>7, <1>8, GuardForgets
<1>10. QED
  BY <1>1, <1>2, <1>8, <1>9, CountedNext

LEMMA TalliedNext ==
  (IInv => /\ Cardinality(Requests) \in Nat /\ faults \in Nat /\ guard \in Guard
           /\ Compare \in 0 .. Cardinality(Requests) /\ Deletions \in Nat)'
<1>1. IInv => /\ Cardinality(Requests) \in Nat /\ faults \in Nat /\ guard \in Guard
              /\ Compare \in 0 .. Cardinality(Requests) /\ Deletions \in Nat
  BY Tallied
<1>2. QED
  BY <1>1, PTL

(* Unlocking, by a right login or because time has passed. *)
LEMMA UnlockGuarded ==
  ASSUME IInv', guard'.guesses = 0
  PROVE  GuessesCounted'
<1>1. PICK g, d, f, c, t, u : /\ g = guard' /\ d = Deletions' /\ f = faults' /\ c = Compare'
                              /\ t = Count' /\ u = Uncount'
  OBVIOUS
<1>2. /\ Cardinality(Requests) \in Nat /\ f \in Nat /\ g \in Guard
      /\ c \in 0 .. Cardinality(Requests) /\ d \in Nat /\ g.guesses = 0
  BY <1>1, TalliedNext
<1>3. Counted(Cardinality(Requests), d, f, c, t, u, g)
  BY <1>2, GuardCleared
<1>4. QED
  BY <1>1, <1>3, CountedNext

(* The steps that touch neither a request, the guard nor the faults. *)
LEMMA GuardAside ==
  ASSUME GuessesCounted, UNCHANGED <<req, guard, faults>>
  PROVE  GuessesCounted'
BY DEF GuessesCounted, Deletions, Among

LEMMA GuessesStep == IInv /\ IInv' /\ GuessesCounted /\ [Next]_vars => GuessesCounted'
<1> SUFFICES ASSUME IInv, IInv', GuessesCounted, [Next]_vars PROVE GuessesCounted'
  OBVIOUS
<1>1. CASE UNCHANGED vars
  BY <1>1, GuardAside DEF vars
<1>2. CASE \E s \in Ids : Logout(s) \/ Expire(s) \/ CleanUp(s)
  BY <1>2, GuardAside DEF Logout, Expire, CleanUp
<1>3. CASE Forgot \/ LinkLapses
  BY <1>3, GuardAside DEF Forgot, LinkLapses
<1>4. CASE LockLapses \/ WindowLapses
  <2>1. guard \in Guard /\ guard'.guesses = 0
    BY <1>4, Tallied DEF LockLapses, WindowLapses, Guard
  <2>2. QED
    BY <2>1, UnlockGuarded
<1>5. ASSUME NEW r \in Requests, LoginStep(r) \/ RefreshStep(r) \/ RevokeStep(r) \/ Fails(r)
      PROVE  GuessesCounted'
  <2>1. CASE DeleteAccount(r)
    BY <2>1, GuardAside DEF DeleteAccount
  <2>2. CASE ClearLock(r)
    <3>1. guard \in Guard /\ guard'.guesses = 0
      BY <2>2, Tallied DEF ClearLock, Guard
    <3>2. QED
      BY <3>1, UnlockGuarded
  <2>3. CASE LoginWrong(r) \/ CountAttempt(r) \/ SetLock(r) \/ DeleteCount(r) \/ ClearCount(r)
    BY <2>3, LoginWrongGuarded, CountAttemptGuarded, SetLockGuarded, DeleteGuarded
  <2>4. CASE \/ LoginCheck(r) \/ LoginRight(r) \/ ListSessions(r) \/ TrimSessions(r)
             \/ InsertSession(r) \/ RefreshStep(r) \/ Change(r) \/ ResetFind(r)
             \/ ResetSave(r) \/ RevokeAll(r) \/ Fails(r)
    <3>1. PICK q : GuardAlone(r, q)
      BY <2>4, GuardLeft
    <3>2. QED
      BY <3>1, GuardUnchanged DEF GuardAlone
  <2>5. QED
    BY <1>5, <2>1, <2>2, <2>3, <2>4 DEF LoginStep, RevokeStep
<1>6. QED
  BY <1>1, <1>2, <1>3, <1>4, <1>5 DEF Next

LEMMA GuessesInductive == Spec => []GuessesCounted
<1>1. Init => GuessesCounted
  <2>1. ASSUME Init PROVE guard = [attempts |-> 0, locked |-> FALSE, guesses |-> 0]
    BY <2>1 DEF Init
  <2>2. QED
    BY <2>1 DEF GuessesCounted
<1>2. QED
  BY <1>1, GuessesStep, Inductive, PTL DEF Spec

LEMMA CountBounds == IInv /\ GuessesCounted => GuessesBounded
<1> SUFFICES ASSUME IInv, GuessesCounted
             PROVE  guard.guesses <= (MaxAttempts - 1) * Deletions
                                     + Cardinality(Requests) + faults
  BY DEF GuessesBounded, Deletions
<1>1. PICK k \in Nat : k = MaxAttempts - 1
  BY SessionsAssumption
<1>2. /\ Cardinality(Requests) \in Nat /\ faults \in Nat /\ guard \in Guard
      /\ Compare \in Nat /\ Count \in Nat /\ Uncount \in Nat /\ Deletions \in Nat
      /\ Compare + Count <= Cardinality(Requests)
  BY Tallied
<1>3. guard.guesses \in Nat /\ guard.attempts \in Nat /\ guard.locked \in BOOLEAN
  BY <1>2 DEF Guard
<1>4. k * Deletions \in Int /\ 0 <= k * Deletions
  BY <1>2, Product
<1>5. Counted(Cardinality(Requests), Deletions, faults, Compare, Count, Uncount, guard)
  BY GuessesAreCounted
<1>6. CASE guard.locked
  <2>1. guard.guesses + Compare <= k * Deletions + Cardinality(Requests) + faults
    BY <1>1, <1>5, <1>6 DEF Counted
  <2>2. guard.guesses <= k * Deletions + Cardinality(Requests) + faults
    BY <1>2, <1>3, <1>4, <2>1
  <2>3. QED
    BY <1>1, <2>2
<1>7. CASE ~guard.locked /\ guard.guesses > 0
  <2>1. PICK x \in Int : x = Deletions - 1 - Uncount
    BY <1>2
  <2>2. k * x + k <= k * Deletions /\ k * x \in Int
    BY <1>2, <2>1, Product
  <2>3. guard.guesses <= k * x + (IF guard.attempts < k THEN guard.attempts ELSE k)
                         + Count + faults
    BY <1>1, <1>5, <1>7, <2>1 DEF Counted
  <2>4. guard.guesses <= k * x + k + Count + faults
    BY <1>2, <1>3, <2>2, <2>3
  <2>5. guard.guesses <= k * Deletions + Cardinality(Requests) + faults
    BY <1>2, <1>3, <1>4, <2>2, <2>4
  <2>6. QED
    BY <1>1, <2>5
<1>8. CASE ~(guard.guesses > 0)
  <2>1. guard.guesses <= k * Deletions + Cardinality(Requests) + faults
    BY <1>2, <1>3, <1>4, <1>8
  <2>2. QED
    BY <1>1, <2>1
<1>9. QED
  BY <1>3, <1>6, <1>7, <1>8

\* A login that inserts its row finds fewer live sessions than the cap, not counting
\* the rows inserted since it listed them, whatever else runs (createSession).
THEOREM SessionsStayBounded == Spec => []SessionsBounded
  BY CapBounds, CapInductive, Inductive, PTL

\* However wrong passwords overlap, and whenever the counter is deleted late, an
\* account that is not unlocked is tried a bounded number of times (login-guard.ts).
THEOREM GuessesStayBounded == Spec => []GuessesBounded
  BY CountBounds, GuessesInductive, Inductive, PTL
-----------------------------------------------------------------------------
(* The session of a browser tab (WebSession).  A step changes one call, and   *)
(* may cut others.                                                            *)

OthersKept(c) ==
  \A d \in Calls \ {c} :
    /\ call'[d].kind = call[d].kind /\ call'[d].at = call[d].at
    /\ call'[d].cookie = call[d].cookie /\ call'[d].result = call[d].result
    /\ call'[d].gives = call[d].gives /\ call'[d].wipes = call[d].wipes
    /\ call[d].cut /\ call[d].kind # "none" => call'[d].cut

(* Live sessions are old ones and maybe the one made by the step. *)
LiveGrows ==
  /\ server.made <= server'.made
  /\ \A s \in server'.live : s \in server.live \/ s > server.made

LEMMA WebNumbers ==
  ASSUME SessionInv
  PROVE  /\ MaxTokens \in Nat \ {0} /\ server.made \in Nat /\ server.made <= MaxTokens
         /\ server.live \in SUBSET Tokens /\ server.refused \in SUBSET Tokens
         /\ cookie \in Nat /\ tab.token \in Some
         /\ \A c \in Calls : /\ call[c] \in Call /\ call[c].cookie \in Nat
                            /\ call[c].gives \in Nat
  BY WebSessionAssumption DEF SessionInv, SessionTypeOK, Some, Tokens, Call

LEMMA SetsOfCalls ==
  ASSUME NEW S \in SUBSET Calls, NEW T \in SUBSET S
  PROVE  /\ IsFiniteSet(S) /\ Cardinality(S) \in Nat /\ Cardinality(T) \in Nat
         /\ Cardinality(T) <= Cardinality(S)
<1>1. IsFiniteSet(S)
  BY WebSessionAssumption, FS_Subset
<1>2. QED
  BY <1>1, Smaller

(* The tokens still suffice when no call is added to those that will make one, *)
LEMMA NoneSpent ==
  ASSUME SessionInv, Spending' \subseteq Spending, server'.made = server.made
  PROVE  TokensLast'
<1>1. /\ Cardinality(Spending') \in Nat /\ Cardinality(Spending) \in Nat
      /\ Cardinality(Spending') <= Cardinality(Spending)
  BY SetsOfCalls DEF Spending
<1>2. server.made + Cardinality(Spending) <= MaxTokens
  BY DEF SessionInv, TokensLast
<1>3. QED
  BY <1>1, <1>2, WebNumbers DEF TokensLast

(* when there is one left for the call that is sent, *)
LEMMA OneSpent ==
  ASSUME SessionInv, NEW c \in Calls, Spending' \subseteq Spending \cup {c}, Left,
         server'.made = server.made
  PROVE  TokensLast'
<1>1. Spending \subseteq Spenders /\ Spenders \subseteq Calls
  BY DEF Spending, Spenders, TokenMakers
<1>2. IsFiniteSet(Spenders) /\ Cardinality(Spenders) \in Nat
  BY <1>1, SetsOfCalls
<1>3. Spending' \subseteq Spenders \cup {c}
  BY <1>1
<1>4. /\ Cardinality(Spending') \in Nat
      /\ Cardinality(Spending') <= Cardinality(Spenders) + 1
  BY <1>2, <1>3, OneMore
<1>5. server.made + Cardinality(Spenders) < MaxTokens
  BY DEF Left
<1>6. QED
  BY <1>2, <1>4, <1>5, WebNumbers DEF TokensLast

(* when the call that makes one is done, *)
LEMMA OneMade ==
  ASSUME SessionInv, NEW c \in Spending, Spending' \subseteq Spending \ {c},
         server'.made = server.made + 1
  PROVE  TokensLast' /\ server.made < MaxTokens
<1>1. IsFiniteSet(Spending) /\ Cardinality(Spending) \in Nat
  BY SetsOfCalls DEF Spending
<1>2. /\ Cardinality(Spending') \in Nat
      /\ Cardinality(Spending') <= Cardinality(Spending) - 1
  BY <1>1, OneLess
<1>3. server.made + Cardinality(Spending) <= MaxTokens
  BY DEF SessionInv, TokensLast
<1>4. QED
  BY <1>1, <1>2, <1>3, WebNumbers DEF TokensLast

(* and when another tab takes one of those that were left. *)
LEMMA OneTaken ==
  ASSUME SessionInv, Spending' \subseteq Spenders, Left, server'.made = server.made + 1
  PROVE  TokensLast' /\ server.made < MaxTokens
<1>1. /\ Cardinality(Spending') \in Nat /\ Cardinality(Spenders) \in Nat
      /\ Cardinality(Spending') <= Cardinality(Spenders)
  BY SetsOfCalls DEF Spenders
<1>2. server.made + Cardinality(Spenders) < MaxTokens
  BY DEF Left
<1>3. QED
  BY <1>1, <1>2, WebNumbers DEF TokensLast

(* A session made by the step is of no call in flight: its number is new. *)
LEMMA OthersSpend ==
  ASSUME SessionInv, NEW c \in Calls, OthersKept(c), LiveGrows
  PROVE  Spending' \subseteq Spending \cup {c}
<1> SUFFICES ASSUME NEW d \in Spending', d # c PROVE d \in Spending
  OBVIOUS
<1>1. d \in Calls \ {c}
  BY DEF Spending
<1>2. /\ call'[d].kind = call[d].kind /\ call'[d].at = call[d].at
      /\ call'[d].cookie = call[d].cookie
  BY <1>1 DEF OthersKept
<1>3. call[d].cookie <= server.made /\ call[d].cookie \in Nat /\ server.made \in Nat
  BY <1>1, WebNumbers DEF SessionInv, NumbersKnown
<1>4. call[d].cookie \in server'.live => call[d].cookie \in server.live
  BY <1>3 DEF LiveGrows
<1>5. QED
  BY <1>1, <1>2, <1>4 DEF Spending

LEMMA NumbersKept ==
  ASSUME SessionInv, NEW c \in Calls, OthersKept(c), server.made <= server'.made,
         server'.made \in Nat, cookie' <= server'.made, call'[c].cookie <= server'.made,
         call'[c].gives <= server'.made
  PROVE  NumbersKnown'
<1> SUFFICES ASSUME NEW d \in Calls \ {c}
             PROVE  call'[d].cookie <= server'.made /\ call'[d].gives <= server'.made
  BY DEF NumbersKnown
<1>1. call[d].cookie <= server.made /\ call[d].gives <= server.made
  BY DEF SessionInv, NumbersKnown
<1>2. call'[d].cookie = call[d].cookie /\ call'[d].gives = call[d].gives
  BY DEF OthersKept
<1>3. QED
  BY <1>1, <1>2, WebNumbers

(* In a calm tab a call that changes the session, or meets none, is alone. *)
LEMMA CalmAlone ==
  ASSUME SessionInv, NEW c \in Calls, calm, Changing(c) \/ ~Meets(c)
  PROVE  \A d \in Calls \ {c} : ~Changing(d)
<1> SUFFICES ASSUME NEW d \in Calls \ {c}, Changing(d) PROVE FALSE
  OBVIOUS
<1>1. ~Changing(c)
  BY DEF SessionInv, CalmCalls
<1>2. d \in Busy
  BY DEF SessionInv, CalmCalls, CalmCall, Busy, InFlight, Changing
<1>3. QED
  BY <1>1, <1>2 DEF Meets

(* The call of the step is alone, and keeps what calm tabs promise. *)
LEMMA CalmKept ==
  ASSUME SessionInv, NEW c \in Calls, OthersKept(c), calm' => calm,
         calm' => /\ \A d \in Calls \ {c} : ~Changing(d)
                  /\ CalmCall(c)'
  PROVE  CalmCalls'
<1> SUFFICES ASSUME calm'
             PROVE  /\ \A d, e \in Calls : Changing(d)' /\ Changing(e)' => d = e
                    /\ \A d \in Calls : CalmCall(d)'
  BY DEF CalmCalls
<1>1. \A d \in Calls \ {c} : ~Changing(d)'
  BY DEF OthersKept, Changing
<1>2. ASSUME NEW d \in Calls \ {c} PROVE CalmCall(d)'
  <2>1. CalmCall(d) /\ ~Changing(d)
    BY DEF SessionInv, CalmCalls
  <2>2. /\ call'[d].kind = call[d].kind /\ call'[d].result = call[d].result
        /\ call'[d].wipes = call[d].wipes
    BY DEF OthersKept
  <2>3. QED
    BY <2>1, <2>2 DEF CalmCall, Changing, TokenMakers
<1>3. QED
  BY <1>1, <1>2

(* A step of a call that does not change the session. *)
LEMMA CalmAside ==
  ASSUME SessionInv, NEW c \in Calls, \A d \in Calls \ {c} : call'[d] = call[d],
         calm' => calm, server'.live = server.live, tab'.token = tab.token,
         calm' => call'[c].kind \in {"none", "me"} /\ CalmCall(c)'
  PROVE  CalmCalls'
<1> SUFFICES ASSUME calm'
             PROVE  /\ \A d, e \in Calls : Changing(d)' /\ Changing(e)' => d = e
                    /\ \A d \in Calls : CalmCall(d)'
  BY DEF CalmCalls
<1>1. ~Changing(c)'
  BY DEF Changing, TokenMakers
<1>2. \A d \in Calls \ {c} : Changing(d)' <=> Changing(d)
  BY DEF Changing
<1>3. \A d, e \in Calls : Changing(d) /\ Changing(e) => d = e
  BY DEF SessionInv, CalmCalls
<1>4. ASSUME NEW d \in Calls \ {c} PROVE CalmCall(d)'
  <2>1. CalmCall(d)
    BY DEF SessionInv, CalmCalls
  <2>2. QED
    BY <2>1 DEF CalmCall, Changing
<1>5. QED
  BY <1>1, <1>2, <1>3, <1>4

LEMMA QuietKept ==
  ASSUME SessionInv, NEW c \in Calls, OthersKept(c),
         tab'.signedOut => /\ tab.signedOut /\ tab'.token = None /\ ~tab'.timer
                           /\ call'[c].kind \in TokenMakers \cup {"verify"} => call'[c].cut
  PROVE  SignedOutQuiet'
<1> DEFINE ks == TokenMakers \cup {"verify"}
<1> SUFFICES ASSUME tab'.signedOut, NEW d \in InFlight(ks)' PROVE FALSE
  BY DEF SignedOutQuiet
<1>1. d \in Calls \ {c}
  BY DEF InFlight
<1>2. d \in InFlight(ks)
  BY <1>1 DEF InFlight, OthersKept, TokenMakers
<1>3. QED
  BY <1>2 DEF SessionInv, SignedOutQuiet

(* Calls that are sent and calls that are forgotten. *)
LEMMA SentTyped ==
  ASSUME SessionInv, NEW kind \in {"refresh", "timer", "login", "verify", "me", "logout"},
         NEW token \in Some
  PROVE  /\ Sent(kind, token) \in Call /\ NoCall \in Call
         /\ Sent(kind, token).kind = kind /\ Sent(kind, token).at = "sent"
         /\ Sent(kind, token).cookie = cookie /\ Sent(kind, token).gives = 0
         /\ Sent(kind, token).result = "none" /\ ~Sent(kind, token).wipes
         /\ ~Sent(kind, token).cut
<1>1. 0 \in Some /\ None = 0 /\ cookie \in Some
  BY WebSessionAssumption DEF SessionInv, SessionTypeOK, Some, None
<1>2. NoCall \in Call
  BY <1>1 DEF NoCall, Call
<1>3. /\ Sent(kind, token).kind = kind /\ Sent(kind, token).at = "sent"
      /\ Sent(kind, token).cookie = cookie /\ Sent(kind, token).token = token
      /\ Sent(kind, token).result = "none" /\ Sent(kind, token).gives = 0
      /\ Sent(kind, token).wipes = FALSE /\ Sent(kind, token).cut = FALSE
  BY <1>1 DEF Sent, NoCall
<1>4. Sent(kind, token) \in Call
  BY <1>1, <1>2 DEF Sent, Call
<1>5. QED
  BY <1>2, <1>3, <1>4

LEMMA CutTyped ==
  ASSUME SessionInv
  PROVE  /\ Cut(call) \in [Calls -> Call]
         /\ \A d \in Calls :
              /\ Cut(call)[d].kind = call[d].kind /\ Cut(call)[d].at = call[d].at
              /\ Cut(call)[d].cookie = call[d].cookie
              /\ Cut(call)[d].result = call[d].result
              /\ Cut(call)[d].gives = call[d].gives
              /\ Cut(call)[d].wipes = call[d].wipes
              /\ call[d].cut => Cut(call)[d].cut
              /\ call[d].kind = "timer" => Cut(call)[d].cut
  BY DEF SessionInv, SessionTypeOK, Cut, Call

(* A step that sends a call of kind k, cuts others and leaves the rest alone. *)
Sends(c, k) ==
  /\ call' \in [Calls -> Call] /\ OthersKept(c)
  /\ call'[c].kind = k /\ call'[c].at = "sent" /\ call'[c].cookie = cookie'
  /\ call'[c].gives = 0 /\ call'[c].result = "none" /\ ~call'[c].wipes /\ ~call'[c].cut
  /\ cookie' \in Some /\ cookie' <= server.made /\ (cookie' = cookie \/ k = "logout")
  /\ UNCHANGED server

LEMMA SendsSession ==
  ASSUME SessionInv, NEW c \in Calls, NEW k \in {"refresh", "timer", "login", "verify", "logout"},
         Sends(c, k), Free(c) \/ k = "logout", acts' \in 0 .. MaxActs,
         tab' \in [token : Some, timer : BOOLEAN, at : {"closed", "public", "app"},
                  signedOut : BOOLEAN],
         k \in {"refresh", "timer"} => RoomFor(cookie), k \in {"login", "verify"} => Left,
         calm' \in BOOLEAN,
         calm' => /\ calm /\ k # "verify" /\ (Changing(c) \/ ~Meets(c))
                  /\ (k = "logout" => tab'.token = None),
         SignedOutQuiet',
         tab'.token # None =>
           \/ k = "timer"
           \/ /\ \A d \in Calls \ {c} : call'[d] = call[d]
              /\ Free(c) /\ tab'.token = tab.token /\ tab'.timer = tab.timer
  PROVE  SessionInv'
<1>1. SessionTypeOK'
  <2>1. 0 \in Some
    BY WebSessionAssumption DEF Some
  <2>2. QED
    BY <2>1 DEF Sends, SessionInv, SessionTypeOK
<1>2. SignedOutQuiet'
  OBVIOUS
<1>3. RefreshComing'
  <2> SUFFICES ASSUME tab'.token # None PROVE tab'.timer \/ InFlight({"refresh", "timer"})' # {}
    BY DEF RefreshComing
  <2>1. CASE k = "timer"
    <3>1. c \in InFlight({"refresh", "timer"})'
      BY <2>1 DEF Sends, InFlight
    <3>2. QED
      BY <3>1
  <2>2. CASE k # "timer"
    <3>1. /\ \A d \in Calls \ {c} : call'[d] = call[d]
          /\ Free(c) /\ tab'.token = tab.token /\ tab'.timer = tab.timer
      BY <2>2
    <3>2. tab.timer \/ InFlight({"refresh", "timer"}) # {}
      BY <3>1 DEF SessionInv, RefreshComing
    <3>3. InFlight({"refresh", "timer"}) \subseteq InFlight({"refresh", "timer"})'
      BY <3>1 DEF InFlight, Free
    <3>4. QED
      BY <3>1, <3>2, <3>3
  <2>3. QED
    BY <2>1, <2>2
<1>4. CalmCalls'
  <2>1. calm' => calm /\ \A d \in Calls \ {c} : ~Changing(d)
    BY CalmAlone
  <2>2. calm' => CalmCall(c)'
    BY DEF Sends, CalmCall, Changing, TokenMakers
  <2>3. QED
    BY <2>1, <2>2, CalmKept DEF Sends
<1>5. CalmCookie'
  BY DEF Sends, CalmCookie, Changing, TokenMakers
<1>6. NumbersKnown'
  <2>1. cookie' <= server.made /\ server.made \in Nat
    BY WebNumbers DEF Sends
  <2>2. QED
    BY <2>1, NumbersKept DEF Sends
<1>7. TokensLast'
  <2>1. server' = server /\ LiveGrows
    BY WebNumbers DEF Sends, LiveGrows
  <2>2. Spending' \subseteq Spending \cup {c}
    BY <2>1, OthersSpend DEF Sends
  <2>3. CASE c \in Spending'
    <3>1. \/ k \in {"login", "verify"}
          \/ k \in {"refresh", "timer"} /\ cookie \in server.live
      BY <2>1, <2>3 DEF Spending, Sends
    <3>2. Left
      BY <3>1 DEF RoomFor
    <3>3. QED
      BY <2>1, <2>2, <3>2, OneSpent
  <2>4. CASE c \notin Spending'
    BY <2>1, <2>2, <2>4, NoneSpent
  <2>5. QED
    BY <2>3, <2>4
<1>8. QED
  BY <1>1, <1>2, <1>3, <1>4, <1>5, <1>6, <1>7 DEF SessionInv

LEMMA TabTyped ==
  ASSUME SessionInv
  PROVE  /\ None = 0 /\ 0 \in Some /\ cookie \in Some /\ tab.token \in Some
         /\ tab.timer \in BOOLEAN /\ tab.signedOut \in BOOLEAN
         /\ tab \in [token : Some, timer : BOOLEAN, at : {"closed", "public", "app"},
                     signedOut : BOOLEAN]
         /\ call \in [Calls -> Call] /\ calm \in BOOLEAN
  BY WebSessionAssumption DEF SessionInv, SessionTypeOK, Some, None

(* A call that is done, or gives way to GET /me. *)
Finishes(c) ==
  /\ call' \in [Calls -> Call] /\ OthersKept(c)
  /\ call'[c].kind \in {"none", "me"}
  /\ call'[c].cookie <= server.made /\ call'[c].gives = 0
  /\ call'[c].result = "none" /\ ~call'[c].wipes
  /\ call'[c].kind = "none" \/ call'[c].at = "sent"
  /\ UNCHANGED server

LEMMA EndsSession ==
  ASSUME SessionInv, NEW c \in Calls, Finishes(c), acts' \in 0 .. MaxActs, calm' \in BOOLEAN,
         tab' \in [token : Some, timer : BOOLEAN, at : {"closed", "public", "app"},
                  signedOut : BOOLEAN],
         cookie' \in Some, cookie' <= server.made, SignedOutQuiet', RefreshComing',
         calm' => /\ calm
                  /\ \/ Changing(c) \/ ~Meets(c)
                     \/ tab'.token = tab.token /\ \A d \in Calls \ {c} : call'[d] = call[d]
                  /\ \/ tab'.token = None \/ cookie' \in server.live
                     \/ ~Changing(c) /\ tab'.token = tab.token /\ cookie' = cookie
  PROVE  SessionInv'
<1>1. SessionTypeOK'
  BY DEF SessionInv, SessionTypeOK, Finishes
<1>2. /\ ~Changing(c)'
      /\ \A d \in Calls \ {c} : Changing(d)' <=> Changing(d)
  BY DEF Finishes, OthersKept, Changing, TokenMakers
<1>3. CalmCalls'
  <2>1. calm' => CalmCall(c)'
    BY DEF Finishes, CalmCall, Changing, TokenMakers
  <2>2. CASE Changing(c) \/ ~Meets(c)
    <3>1. calm' => \A d \in Calls \ {c} : ~Changing(d)
      BY <2>2, CalmAlone
    <3>2. QED
      BY <2>1, <3>1, CalmKept DEF Finishes
  <2>3. CASE ~(Changing(c) \/ ~Meets(c))
    <3>1. calm' => /\ \A d \in Calls \ {c} : call'[d] = call[d]
                   /\ tab'.token = tab.token
      BY <2>3
    <3>2. ASSUME calm' PROVE CalmCalls'
      BY <2>1, <3>1, <3>2, CalmAside DEF Finishes
    <3>3. QED
      BY <3>2 DEF CalmCalls
  <2>4. QED
    BY <2>2, <2>3
<1>4. CalmCookie'
  <2> SUFFICES ASSUME calm', tab'.token # None, \A d \in Calls : ~Changing(d)',
                      cookie' \notin server.live
               PROVE  FALSE
    BY DEF CalmCookie, Finishes
  <2>1. ~Changing(c) /\ tab'.token = tab.token /\ cookie' = cookie /\ calm
    OBVIOUS
  <2>2. \A d \in Calls : ~Changing(d)
    BY <1>2, <2>1
  <2>3. QED
    BY <2>1, <2>2 DEF SessionInv, CalmCookie
<1>5. NumbersKnown'
  BY WebNumbers, NumbersKept DEF Finishes
<1>6. TokensLast'
  <2>1. LiveGrows
    BY WebNumbers DEF Finishes, LiveGrows
  <2>2. Spending' \subseteq Spending \cup {c}
    BY <2>1, OthersSpend DEF Finishes
  <2>3. c \notin Spending'
    BY DEF Finishes, Spending
  <2>4. QED
    BY <2>2, <2>3, NoneSpent DEF Finishes
<1>7. QED
  BY <1>1, <1>3, <1>4, <1>5, <1>6 DEF SessionInv

(* What the user and the clock begin. *)
LEMMA BootSession ==
  ASSUME SessionInv, NEW c \in Calls, Boot(c), acts' \in 0 .. MaxActs
  PROVE  SessionInv'
<1>1. /\ Sent("refresh", None) \in Call /\ Sent("refresh", None).kind = "refresh"
      /\ Sent("refresh", None).at = "sent" /\ Sent("refresh", None).cookie = cookie
      /\ Sent("refresh", None).gives = 0 /\ Sent("refresh", None).result = "none"
      /\ ~Sent("refresh", None).wipes /\ ~Sent("refresh", None).cut
  BY SentTyped, TabTyped
<1>2. /\ NoCall \in Call /\ NoCall.kind = "none" /\ NoCall.cookie = 0 /\ NoCall.gives = 0
      /\ NoCall.result = "none" /\ NoCall.wipes = FALSE /\ NoCall.cut = FALSE
  BY TabTyped DEF NoCall, Call, None
<1>3. PICK first \in {NoCall, Sent("refresh", None)} :
        /\ first = NoCall \/ RoomFor(cookie)
        /\ call' = [d \in Calls |->
             IF d = c THEN first ELSE [call[d] EXCEPT !.cut = (call[d].kind # "none")]]
  BY DEF Boot
<1>4. /\ call' \in [Calls -> Call] /\ OthersKept(c) /\ call'[c] = first
      /\ \A d \in Calls \ {c} : call'[d].cut = (call[d].kind # "none")
  BY <1>1, <1>2, <1>3, TabTyped DEF OthersKept, Call
<1>5. tab'.token = 0 /\ ~tab'.signedOut /\ tab'.token = None
      /\ tab' \in [token : Some, timer : BOOLEAN, at : {"closed", "public", "app"},
                   signedOut : BOOLEAN]
  BY TabTyped DEF Boot
<1>6. SignedOutQuiet' /\ RefreshComing'
  BY <1>5 DEF SignedOutQuiet, RefreshComing
<1>7. calm' \in BOOLEAN /\ (calm' => calm /\ ~Meets(c)) /\ Free(c)
  BY TabTyped DEF Boot
<1>8. cookie \in Some /\ cookie <= server.made /\ 0 <= server.made
  BY TabTyped, WebNumbers DEF SessionInv, NumbersKnown
<1>9. CASE first = Sent("refresh", None)
  <2>1. Sends(c, "refresh") /\ RoomFor(cookie)
    BY <1>1, <1>2, <1>3, <1>4, <1>8, <1>9 DEF Boot, Sends
  <2>2. QED
    BY <1>5, <1>6, <1>7, <2>1, SendsSession
<1>10. CASE first = NoCall
  <2>1. Finishes(c)
    BY <1>2, <1>4, <1>8, <1>10 DEF Boot, Finishes
  <2>2. cookie' = cookie
    BY DEF Boot
  <2>3. QED
    BY <1>5, <1>6, <1>7, <1>8, <2>1, <2>2, EndsSession
<1>11. QED
  BY <1>3, <1>9, <1>10

(* The call takes the place of one that is not in flight, the others stay. *)
LEMMA SendsAlone ==
  ASSUME SessionInv, NEW c \in Calls,
         NEW k \in {"refresh", "timer", "login", "verify", "me", "logout"},
         NEW token \in Some, call' = [call EXCEPT ![c] = Sent(k, token)],
         UNCHANGED <<cookie, server>>
  PROVE  Sends(c, k) /\ \A d \in Calls \ {c} : call'[d] = call[d]
<1>1. /\ Sent(k, token) \in Call /\ Sent(k, token).kind = k
      /\ Sent(k, token).at = "sent" /\ Sent(k, token).cookie = cookie
      /\ Sent(k, token).gives = 0 /\ Sent(k, token).result = "none"
      /\ ~Sent(k, token).wipes /\ ~Sent(k, token).cut
  BY SentTyped
<1>2. /\ call' \in [Calls -> Call] /\ call'[c] = Sent(k, token)
      /\ \A d \in Calls \ {c} : call'[d] = call[d]
  BY <1>1, TabTyped
<1>3. OthersKept(c)
  BY <1>2 DEF OthersKept
<1>4. cookie \in Some /\ cookie <= server.made
  BY TabTyped DEF SessionInv, NumbersKnown
<1>5. QED
  BY <1>1, <1>2, <1>3, <1>4 DEF Sends

LEMMA LoginSession ==
  ASSUME SessionInv, NEW c \in Calls, Login(c) \/ VerifyEmail(c), acts' \in 0 .. MaxActs
  PROVE  SessionInv'
<1>1. PICK k \in {"login", "verify"} :
        /\ call' = [call EXCEPT ![c] = Sent(k, tab.token)]
        /\ calm' \in BOOLEAN
        /\ calm' => calm /\ k # "verify" /\ ~Meets(c)
  BY TabTyped DEF Login, VerifyEmail
<1>2. /\ Free(c) /\ Left /\ tab' = [tab EXCEPT !.signedOut = FALSE]
      /\ UNCHANGED <<cookie, server>>
  BY DEF Login, VerifyEmail
<1>3. Sends(c, k) /\ \A d \in Calls \ {c} : call'[d] = call[d]
  BY <1>1, <1>2, SendsAlone, TabTyped
<1>4. /\ ~tab'.signedOut /\ tab'.token = tab.token /\ tab'.timer = tab.timer
      /\ tab' \in [token : Some, timer : BOOLEAN, at : {"closed", "public", "app"},
                   signedOut : BOOLEAN]
  BY <1>2, TabTyped
<1>5. SignedOutQuiet'
  BY <1>4 DEF SignedOutQuiet
<1>6. QED
  BY <1>1, <1>2, <1>3, <1>4, <1>5, SendsSession

LEMMA TimerSession ==
  ASSUME SessionInv, NEW c \in Calls, TimerFires(c), acts' \in 0 .. MaxActs
  PROVE  SessionInv'
<1>1. /\ Free(c) /\ tab.timer /\ RoomFor(cookie) /\ tab' = [tab EXCEPT !.timer = FALSE]
      /\ UNCHANGED <<cookie, server>> /\ call' = [call EXCEPT ![c] = Sent("timer", tab.token)]
      /\ calm' \in BOOLEAN /\ (calm' => calm /\ ~Meets(c))
  BY TabTyped DEF TimerFires
<1>2. Sends(c, "timer")
  BY <1>1, SendsAlone, TabTyped
<1>3. /\ tab'.signedOut = tab.signedOut
      /\ tab' \in [token : Some, timer : BOOLEAN, at : {"closed", "public", "app"},
                   signedOut : BOOLEAN]
  BY <1>1, TabTyped
<1>4. ~tab'.signedOut
  BY <1>1, <1>3 DEF SessionInv, SignedOutQuiet
<1>5. SignedOutQuiet'
  BY <1>4 DEF SignedOutQuiet
<1>6. QED
  BY <1>1, <1>2, <1>3, <1>5, SendsSession

(* Signing out. *)
LEMMA SendsLogout ==
  ASSUME SessionInv, NEW c \in Calls, SignsOut(c, call), UNCHANGED server,
         cookie' \in Some, cookie' <= server.made
  PROVE  /\ Sends(c, "logout")
         /\ \A d \in Calls \ {c} : call'[d].kind = "timer" => call'[d].cut
<1>1. /\ Sent("logout", None) \in Call /\ Sent("logout", None).kind = "logout"
      /\ Sent("logout", None).at = "sent"
      /\ Sent("logout", None).gives = 0 /\ Sent("logout", None).result = "none"
      /\ ~Sent("logout", None).wipes /\ ~Sent("logout", None).cut
  BY SentTyped, TabTyped
<1>2. cookie' \in Some
  OBVIOUS
<1>3. DEFINE q == [Sent("logout", None) EXCEPT !.cookie = cookie']
<1>4. /\ q \in Call /\ q.kind = "logout" /\ q.at = "sent" /\ q.cookie = cookie'
      /\ q.gives = 0 /\ q.result = "none" /\ ~q.wipes /\ ~q.cut
  BY <1>1, <1>2 DEF Call
<1>5. call' = [Cut(call) EXCEPT ![c] = q]
  BY DEF SignsOut
<1> HIDE DEF q
<1>6. /\ call' \in [Calls -> Call] /\ call'[c] = q
      /\ \A d \in Calls \ {c} : call'[d] = Cut(call)[d]
  BY <1>4, <1>5, CutTyped
<1>7. OthersKept(c) /\ \A d \in Calls \ {c} : call'[d].kind = "timer" => call'[d].cut
  BY <1>6, CutTyped DEF OthersKept
<1>8. QED
  BY <1>4, <1>6, <1>7 DEF Sends

LEMMA SignsOutSession ==
  ASSUME SessionInv, NEW c \in Calls, SignsOut(c, call), UNCHANGED server,
         cookie' \in Some, cookie' <= server.made, acts' \in 0 .. MaxActs, calm' \in BOOLEAN,
         calm' => calm /\ (Changing(c) \/ ~Meets(c))
  PROVE  SessionInv'
<1>1. Sends(c, "logout")
  BY SendsLogout
<1>2. /\ tab'.token = 0 /\ ~tab'.timer /\ tab'.signedOut = tab.signedOut
      /\ tab' \in [token : Some, timer : BOOLEAN, at : {"closed", "public", "app"},
                   signedOut : BOOLEAN]
  BY TabTyped DEF SignsOut
<1>3. SignedOutQuiet'
  BY <1>1, <1>2, QuietKept, TabTyped DEF Sends, TokenMakers
<1>4. tab'.token = None
  BY <1>2, TabTyped
<1>5. QED
  BY <1>1, <1>2, <1>3, <1>4, SendsSession

LEMMA SignOutSession ==
  ASSUME SessionInv, NEW c \in Calls, SignOut(c), acts' \in 0 .. MaxActs
  PROVE  SessionInv'
<1>1. /\ Free(c) /\ UNCHANGED <<cookie, server>>
      /\ tab' = [token |-> None, timer |-> FALSE, at |-> "public",
                 signedOut |-> InFlight({"refresh", "login", "verify"}) = {}]
      /\ call' = [Cut(call) EXCEPT ![c] = Sent("logout", None)]
      /\ calm' \in BOOLEAN /\ (calm' => calm /\ ~Meets(c))
  BY TabTyped DEF SignOut
<1>2. /\ Sent("logout", None) \in Call /\ Sent("logout", None).kind = "logout"
      /\ Sent("logout", None).at = "sent" /\ Sent("logout", None).cookie = cookie
      /\ Sent("logout", None).gives = 0 /\ Sent("logout", None).result = "none"
      /\ ~Sent("logout", None).wipes /\ ~Sent("logout", None).cut
  BY SentTyped, TabTyped
<1>3. /\ call' \in [Calls -> Call] /\ call'[c] = Sent("logout", None)
      /\ \A d \in Calls \ {c} : call'[d] = Cut(call)[d]
  BY <1>1, <1>2, CutTyped
<1>4. OthersKept(c) /\ \A d \in Calls \ {c} : call'[d].kind = "timer" => call'[d].cut
  BY <1>3, CutTyped DEF OthersKept
<1>5. Sends(c, "logout")
  <2>1. cookie \in Some /\ cookie <= server.made
    BY TabTyped DEF SessionInv, NumbersKnown
  <2>2. QED
    BY <1>1, <1>2, <1>3, <1>4, <2>1 DEF Sends
<1>6. /\ tab'.token = 0 /\ ~tab'.timer /\ tab'.token = None
      /\ tab'.signedOut = (InFlight({"refresh", "login", "verify"}) = {})
      /\ tab' \in [token : Some, timer : BOOLEAN, at : {"closed", "public", "app"},
                   signedOut : BOOLEAN]
  BY <1>1, TabTyped
<1>7. SignedOutQuiet'
  <2> SUFFICES ASSUME tab'.signedOut, NEW d \in InFlight(TokenMakers \cup {"verify"})'
               PROVE  FALSE
    BY <1>6 DEF SignedOutQuiet
  <2>1. d \in Calls /\ d # c /\ call'[d].kind # "timer"
    BY <1>2, <1>3, <1>4 DEF InFlight, TokenMakers
  <2>2. d \in InFlight({"refresh", "login", "verify"})
    BY <1>4, <2>1 DEF InFlight, TokenMakers, OthersKept
  <2>3. QED
    BY <1>6, <2>2
<1>8. QED
  BY <1>1, <1>5, <1>6, <1>7, SendsSession

(* Clocks and other tabs. *)
LEMMA ExpiresSession ==
  ASSUME SessionInv, Expires, acts' \in 0 .. MaxActs
  PROVE  SessionInv'
<1>1. /\ UNCHANGED <<tab, cookie, call, calm>> /\ tab.token \in Tokens
      /\ server' = [server EXCEPT !.refused = @ \cup {tab.token}]
  BY TabTyped DEF Expires, Some, Tokens
<1>2. /\ server'.made = server.made /\ server'.live = server.live
      /\ server' \in [made : Some, live : SUBSET Tokens, refused : SUBSET Tokens]
  BY <1>1 DEF SessionInv, SessionTypeOK
<1>3. SessionTypeOK'
  BY <1>1, <1>2 DEF SessionInv, SessionTypeOK
<1>4. SignedOutQuiet' /\ RefreshComing'
  BY <1>1 DEF SessionInv, SignedOutQuiet, RefreshComing, InFlight
<1>5. CalmCalls' /\ CalmCookie'
  BY <1>1, <1>2 DEF SessionInv, CalmCalls, CalmCall, CalmCookie, Changing
<1>6. NumbersKnown'
  BY <1>1, <1>2 DEF SessionInv, NumbersKnown
<1>7. TokensLast'
  <2>1. Spending' \subseteq Spending
    BY <1>1, <1>2 DEF Spending
  <2>2. QED
    BY <1>2, <2>1, NoneSpent
<1>8. QED
  BY <1>3, <1>4, <1>5, <1>6, <1>7 DEF SessionInv

LEMMA OtherTabRefreshesSession ==
  ASSUME SessionInv, OtherTabRefreshes, acts' \in 0 .. MaxActs
  PROVE  SessionInv'
<1>1. /\ UNCHANGED <<tab, call>> /\ Left /\ cookie' = server.made + 1
      /\ server' = [server EXCEPT !.made = @ + 1,
                                  !.live = (@ \ {cookie}) \cup {server.made + 1}]
      /\ calm' = (calm /\ Busy = {})
  BY DEF OtherTabRefreshes
<1>2. /\ server'.made = server.made + 1
      /\ server'.live = (server.live \ {cookie}) \cup {server.made + 1}
      /\ server'.refused = server.refused
  BY <1>1 DEF SessionInv, SessionTypeOK
<1>3. Spending' \subseteq Spenders
  BY <1>1 DEF Spending, Spenders, TokenMakers
<1>4. TokensLast' /\ server.made < MaxTokens
  BY <1>1, <1>2, <1>3, OneTaken
<1>5. server.made + 1 \in Some /\ server.made + 1 \in Tokens
  BY <1>4, WebNumbers DEF Some, Tokens
<1>6. SessionTypeOK'
  <2>1. server' \in [made : Some, live : SUBSET Tokens, refused : SUBSET Tokens]
    BY <1>1, <1>2, <1>5 DEF SessionInv, SessionTypeOK
  <2>2. cookie' \in Some /\ calm' \in BOOLEAN
    BY <1>1, <1>5
  <2>3. QED
    BY <1>1, <2>1, <2>2 DEF SessionInv, SessionTypeOK
<1>7. SignedOutQuiet' /\ RefreshComing'
  BY <1>1 DEF SessionInv, SignedOutQuiet, RefreshComing, InFlight
<1>8. CalmCalls'
  <2>1. ASSUME calm', NEW d \in Calls PROVE ~Changing(d)
    <3>1. Changing(d) => d \in Busy
      BY <1>1, <2>1 DEF SessionInv, CalmCalls, CalmCall, Changing, Busy, InFlight
    <3>2. QED
      BY <1>1, <2>1, <3>1
  <2>2. ASSUME calm', NEW d \in Calls PROVE CalmCall(d)' /\ ~Changing(d)'
    <3>1. ~Changing(d) /\ CalmCall(d)
      BY <1>1, <2>1, <2>2 DEF SessionInv, CalmCalls
    <3>2. QED
      BY <1>1, <3>1 DEF CalmCall, Changing, TokenMakers
  <2>3. QED
    BY <2>2 DEF CalmCalls
<1>9. CalmCookie'
  BY <1>1, <1>2 DEF CalmCookie
<1>10. NumbersKnown'
  BY <1>1, <1>2, WebNumbers DEF SessionInv, NumbersKnown
<1>11. QED
  BY <1>4, <1>6, <1>7, <1>8, <1>9, <1>10 DEF SessionInv

LEMMA OtherTabSignsOutSession ==
  ASSUME SessionInv, OtherTabSignsOut, acts' \in 0 .. MaxActs
  PROVE  SessionInv'
<1>1. /\ UNCHANGED <<tab, call>> /\ cookie' = None /\ calm' = FALSE
      /\ server' = [server EXCEPT !.live = @ \ {cookie}]
  BY DEF OtherTabSignsOut
<1>2. /\ server'.made = server.made /\ server'.live = server.live \ {cookie}
      /\ server' \in [made : Some, live : SUBSET Tokens, refused : SUBSET Tokens]
  BY <1>1 DEF SessionInv, SessionTypeOK
<1>3. SessionTypeOK'
  BY <1>1, <1>2, TabTyped DEF SessionInv, SessionTypeOK
<1>4. SignedOutQuiet' /\ RefreshComing'
  BY <1>1 DEF SessionInv, SignedOutQuiet, RefreshComing, InFlight
<1>5. CalmCalls' /\ CalmCookie'
  BY <1>1 DEF CalmCalls, CalmCookie
<1>6. NumbersKnown'
  BY <1>1, <1>2, TabTyped, WebNumbers DEF SessionInv, NumbersKnown
<1>7. TokensLast'
  <2>1. Spending' \subseteq Spending
    BY <1>1, <1>2 DEF Spending
  <2>2. QED
    BY <1>2, <2>1, NoneSpent
<1>8. QED
  BY <1>3, <1>4, <1>5, <1>6, <1>7 DEF SessionInv

(* What the server has done to a call, and what that was for. *)
LEMMA HandledTyped ==
  ASSUME SessionInv, NEW c \in Calls, NEW result \in {"ok", "401", "failed"},
         NEW gives \in Some, NEW wipes \in BOOLEAN, Handled(c, result, gives, wipes)
  PROVE  /\ call' \in [Calls -> Call] /\ OthersKept(c)
         /\ \A d \in Calls \ {c} : call'[d] = call[d]
         /\ call'[c].kind = call[c].kind /\ call'[c].cut = call[c].cut
         /\ call'[c].cookie = call[c].cookie /\ call'[c].at = "handled"
         /\ call'[c].result = result /\ call'[c].gives = gives /\ call'[c].wipes = wipes
<1>1. call[c] \in Call /\ call \in [Calls -> Call]
  BY TabTyped
<1>2. DEFINE q == [call[c] EXCEPT !.at = "handled", !.result = result,
                                  !.gives = gives, !.wipes = wipes]
<1>3. /\ q \in Call /\ q.kind = call[c].kind /\ q.cut = call[c].cut
      /\ q.cookie = call[c].cookie /\ q.at = "handled"
      /\ q.result = result /\ q.gives = gives /\ q.wipes = wipes
  BY <1>1 DEF Call
<1>4. call' = [call EXCEPT ![c] = q]
  BY DEF Handled
<1> HIDE DEF q
<1>5. call' \in [Calls -> Call] /\ call'[c] = q /\ \A d \in Calls \ {c} : call'[d] = call[d]
  BY <1>1, <1>3, <1>4
<1>6. QED
  BY <1>3, <1>5 DEF OthersKept

LEMMA HandlesSession ==
  ASSUME SessionInv, NEW c \in Calls, NEW result \in {"ok", "401", "failed"},
         NEW gives \in Some, NEW wipes \in BOOLEAN, Handled(c, result, gives, wipes),
         UNCHANGED <<tab, cookie>>, acts' \in 0 .. MaxActs, calm' \in BOOLEAN,
         server' \in [made : Some, live : SUBSET Tokens, refused : SUBSET Tokens],
         server.made <= server'.made, gives <= server'.made, TokensLast',
         calm' => /\ calm /\ result # "failed"
                  /\ Changing(c) \/ (server'.live = server.live /\ ~wipes)
                  /\ call[c].kind \in TokenMakers /\ result = "ok" => gives \in server'.live
  PROVE  SessionInv'
<1>1. /\ call' \in [Calls -> Call] /\ OthersKept(c)
      /\ \A d \in Calls \ {c} : call'[d] = call[d]
      /\ call'[c].kind = call[c].kind /\ call'[c].cut = call[c].cut
      /\ call'[c].cookie = call[c].cookie /\ call'[c].at = "handled"
      /\ call'[c].result = result /\ call'[c].gives = gives /\ call'[c].wipes = wipes
  BY HandledTyped
<1>2. SessionTypeOK'
  BY <1>1 DEF SessionInv, SessionTypeOK
<1>3. \A ks : InFlight(ks)' = InFlight(ks)
  BY <1>1 DEF InFlight
<1>4. SignedOutQuiet' /\ RefreshComing'
  BY <1>3 DEF SessionInv, SignedOutQuiet, RefreshComing
<1>5. CalmCalls'
  <2>1. calm' => CalmCall(c)'
    <3>1. calm => CalmCall(c)
      BY DEF SessionInv, CalmCalls
    <3>2. calm' => (call[c].kind = "me" => ~wipes)
      BY DEF Changing, TokenMakers
    <3>3. QED
      BY <1>1, <3>1, <3>2 DEF CalmCall, Changing
  <2>2. CASE Changing(c)
    <3>1. calm' => \A d \in Calls \ {c} : ~Changing(d)
      BY <2>2, CalmAlone
    <3>2. QED
      BY <1>1, <2>1, <3>1, CalmKept
  <2>3. CASE ~Changing(c)
    <3> SUFFICES ASSUME calm'
                 PROVE  /\ \A d, e \in Calls : Changing(d)' /\ Changing(e)' => d = e
                        /\ \A d \in Calls : CalmCall(d)'
      BY DEF CalmCalls
    <3>1. server'.live = server.live
      BY <2>3
    <3>2. \A d \in Calls : Changing(d)' <=> Changing(d)
      BY <1>1 DEF Changing
    <3>3. \A d \in Calls : CalmCall(d)
      BY DEF SessionInv, CalmCalls
    <3>4. ASSUME NEW d \in Calls \ {c} PROVE CalmCall(d)'
      BY <1>1, <3>1, <3>3 DEF CalmCall, Changing
    <3>5. \A d, e \in Calls : Changing(d) /\ Changing(e) => d = e
      BY DEF SessionInv, CalmCalls
    <3>6. QED
      BY <2>1, <3>2, <3>4, <3>5
  <2>4. QED
    BY <2>2, <2>3
<1>6. CalmCookie'
  <2>1. \A d \in Calls : Changing(d)' <=> Changing(d)
    BY <1>1 DEF Changing
  <2>2. calm' => server'.live = server.live \/ Changing(c)
    OBVIOUS
  <2>3. CASE Changing(c)
    BY <2>1, <2>3 DEF CalmCookie
  <2>4. CASE ~Changing(c)
    BY <2>1, <2>2, <2>4 DEF CalmCookie, SessionInv
  <2>5. QED
    BY <2>3, <2>4
<1>7. NumbersKnown'
  <2>1. call[c].cookie <= server.made /\ cookie <= server.made
    BY DEF SessionInv, NumbersKnown
  <2>2. /\ server'.made \in Nat /\ server.made \in Nat /\ cookie \in Nat
        /\ call[c].cookie \in Nat
    BY WebNumbers DEF Some
  <2>3. cookie' <= server'.made /\ call'[c].cookie <= server'.made
    BY <1>1, <2>1, <2>2
  <2>4. QED
    BY <1>1, <2>2, <2>3, NumbersKept
<1>8. QED
  BY <1>2, <1>4, <1>5, <1>6, <1>7 DEF SessionInv

(* A call that makes a session, or a token: the one promised to it. *)
LEMMA MakesSession ==
  ASSUME SessionInv, NEW c \in Spending, Handled(c, "ok", server.made + 1, FALSE),
         UNCHANGED <<tab, cookie, calm>>, acts' \in 0 .. MaxActs,
         NEW live \in SUBSET server.live,
         call[c].kind \in TokenMakers =>
           server' = [server EXCEPT !.made = server.made + 1,
                                    !.live = live \cup {server.made + 1}],
         call[c].kind = "verify" => server' = [server EXCEPT !.made = server.made + 1]
  PROVE  SessionInv'
<1>1. c \in Calls /\ Changing(c) /\ call[c].kind \in TokenMakers \cup {"verify"}
  BY DEF Spending, Changing, TokenMakers
<1>2. /\ server'.made = server.made + 1 /\ server'.refused = server.refused
      /\ \A s \in server'.live : s \in server.live \/ s = server.made + 1
      /\ call[c].kind \in TokenMakers => server.made + 1 \in server'.live
  <2>1. server \in [made : Some, live : SUBSET Tokens, refused : SUBSET Tokens]
    BY DEF SessionInv, SessionTypeOK
  <2>2. CASE call[c].kind \in TokenMakers
    <3>1. server' = [server EXCEPT !.made = server.made + 1,
                                   !.live = live \cup {server.made + 1}]
      BY <2>2
    <3>2. /\ server'.made = server.made + 1 /\ server'.refused = server.refused
          /\ server'.live = live \cup {server.made + 1}
      BY <2>1, <3>1
    <3>3. QED
      BY <3>2
  <2>3. CASE call[c].kind \notin TokenMakers
    <3>1. server' = [server EXCEPT !.made = server.made + 1]
      BY <1>1, <2>3
    <3>2. /\ server'.made = server.made + 1 /\ server'.refused = server.refused
          /\ server'.live = server.live
      BY <2>1, <3>1
    <3>3. QED
      BY <2>3, <3>2
  <2>4. QED
    BY <2>2, <2>3
<1>3. server' = [made |-> server'.made, live |-> server'.live, refused |-> server'.refused]
  BY <1>1 DEF SessionInv, SessionTypeOK
<1>4. LiveGrows
  BY <1>2, WebNumbers DEF LiveGrows
<1>5. 0 \in Some /\ server.made + 1 \in Nat /\ server.made \in Nat
  BY TabTyped, WebNumbers
<1>6. /\ call'[c].at = "handled"
      /\ \A d \in Calls \ {c} : call'[d] = call[d]
  BY <1>1, TabTyped DEF Handled
<1>7. Spending' \subseteq Spending \ {c}
  <2>1. OthersKept(c)
    BY <1>6 DEF OthersKept
  <2>2. Spending' \subseteq Spending \cup {c}
    BY <1>1, <1>4, <2>1, OthersSpend
  <2>3. c \notin Spending'
    BY <1>6 DEF Spending
  <2>4. QED
    BY <2>2, <2>3
<1>8. TokensLast' /\ server.made < MaxTokens
  BY <1>2, <1>7, OneMade
<1>9. server.made + 1 \in Some /\ server.made + 1 \in Tokens
  BY <1>5, <1>8, WebNumbers DEF Some, Tokens
<1>10. server' \in [made : Some, live : SUBSET Tokens, refused : SUBSET Tokens]
  BY <1>2, <1>3, <1>9, WebNumbers
<1>11. server.made <= server'.made /\ server.made + 1 <= server'.made
  BY <1>2, <1>5
<1>12. calm' \in BOOLEAN
  BY TabTyped
<1>13. calm' => /\ calm /\ Changing(c)
                /\ call[c].kind \in TokenMakers => server.made + 1 \in server'.live
  BY <1>1, <1>2
<1>14. QED
  BY <1>1, <1>8, <1>9, <1>10, <1>11, <1>12, <1>13, HandlesSession

(* A call that is answered without one. *)
LEMMA RejectsSession ==
  ASSUME SessionInv, NEW c \in Calls,
         NEW result \in {"ok", "401", "failed"}, NEW wipes \in BOOLEAN,
         Handled(c, result, None, wipes), UNCHANGED <<tab, cookie>>,
         acts' \in 0 .. MaxActs, calm' \in BOOLEAN,
         server' \in [made : Some, live : SUBSET Tokens, refused : SUBSET Tokens],
         server'.made = server.made, server'.live \subseteq server.live,
         calm' => /\ calm /\ result # "failed"
                  /\ Changing(c) \/ (server'.live = server.live /\ ~wipes)
                  /\ ~(call[c].kind \in TokenMakers /\ result = "ok")
  PROVE  SessionInv'
<1>1. None \in Some /\ None = 0 /\ server.made \in Nat
  BY TabTyped, WebNumbers
<1>2. OthersKept(c) /\ call'[c].at = "handled"
  BY <1>1, HandledTyped
<1>3. LiveGrows
  BY <1>1 DEF LiveGrows
<1>4. Spending' \subseteq Spending
  <2>1. Spending' \subseteq Spending \cup {c}
    BY <1>2, <1>3, OthersSpend
  <2>2. c \notin Spending'
    BY <1>2 DEF Spending
  <2>3. QED
    BY <2>1, <2>2
<1>5. TokensLast'
  BY <1>4, NoneSpent
<1>6. server.made <= server'.made /\ None <= server'.made
  BY <1>1
<1>7. QED
  BY <1>1, <1>5, <1>6, HandlesSession

LEMMA HandleSession ==
  ASSUME SessionInv, NEW c \in Calls, Handle(c), acts' \in 0 .. MaxActs
  PROVE  SessionInv'
<1>1. UNCHANGED <<tab, cookie, calm>> /\ calm' \in BOOLEAN
  BY TabTyped DEF Handle
<1>2. server \in [made : Some, live : SUBSET Tokens, refused : SUBSET Tokens]
  BY DEF SessionInv, SessionTypeOK
<1>3. CASE HandleRefresh(c)
  <2>1. call[c].at = "sent" /\ call[c].kind \in {"refresh", "timer"} /\ Changing(c)
    BY <1>3 DEF HandleRefresh, Arrived, Changing, TokenMakers
  <2>2. CASE call[c].cookie \in server.live
    <3>1. c \in Spending
      BY <2>1, <2>2 DEF Spending
    <3>2. /\ server' = [server EXCEPT !.made = server.made + 1,
                          !.live = (server.live \ {call[c].cookie}) \cup {server.made + 1}]
          /\ Handled(c, "ok", server.made + 1, FALSE)
      BY <1>3, <2>2 DEF HandleRefresh
    <3>3. server.live \ {call[c].cookie} \in SUBSET server.live
      OBVIOUS
    <3>4. call[c].kind # "verify"
      BY <2>1
    <3> HIDE <2>2
    <3>5. QED
      BY <1>1, <3>1, <3>2, <3>3, <3>4, MakesSession
  <2>3. CASE call[c].cookie \notin server.live
    <3>1. Handled(c, "401", None, call[c].cookie # None) /\ UNCHANGED server
      BY <1>3, <2>3 DEF HandleRefresh
    <3>2. (call[c].cookie # None) \in BOOLEAN
      OBVIOUS
    <3>3. QED
      BY <1>1, <1>2, <2>1, <3>1, <3>2, RejectsSession
  <2>4. QED
    BY <2>2, <2>3
<1>4. CASE HandleLogin(c)
  <2>1. call[c].at = "sent" /\ call[c].kind = "login" /\ Changing(c) /\ c \in Spending
    BY <1>4 DEF HandleLogin, Arrived, Changing, TokenMakers, Spending
  <2>2. CASE /\ server' = [server EXCEPT !.made = server.made + 1,
                                         !.live = server.live \cup {server.made + 1}]
             /\ Handled(c, "ok", server.made + 1, FALSE)
    BY <1>1, <2>1, <2>2, MakesSession
  <2>3. CASE Handled(c, "401", None, FALSE) /\ UNCHANGED server
    BY <1>1, <1>2, <2>1, <2>3, RejectsSession
  <2>4. QED
    BY <1>4, <2>2, <2>3 DEF HandleLogin
<1>5. CASE HandleVerify(c)
  <2>1. /\ call[c].at = "sent" /\ call[c].kind = "verify" /\ Changing(c) /\ c \in Spending
        /\ call[c].kind \notin TokenMakers
    BY <1>5 DEF HandleVerify, Arrived, Changing, TokenMakers, Spending
  <2>2. CASE /\ server' = [server EXCEPT !.made = server.made + 1]
             /\ Handled(c, "ok", server.made + 1, FALSE)
    BY <1>1, <2>1, <2>2, MakesSession
  <2>3. CASE Handled(c, "ok", None, FALSE) /\ UNCHANGED server
    BY <1>1, <1>2, <2>1, <2>3, RejectsSession
  <2>4. QED
    BY <1>5, <2>2, <2>3 DEF HandleVerify
<1>6. CASE HandleMe(c)
  <2>1. /\ call[c].at = "sent" /\ call[c].kind = "me" /\ UNCHANGED server
        /\ call[c].kind \notin TokenMakers
    BY <1>6 DEF HandleMe, Arrived, TokenMakers
  <2>2. PICK r \in {"ok", "401"} : Handled(c, r, None, FALSE)
    BY <1>6 DEF HandleMe
  <2>3. QED
    BY <1>1, <1>2, <2>1, <2>2, RejectsSession
<1>7. CASE HandleLogout(c)
  <2>1. /\ call[c].at = "sent" /\ call[c].kind = "logout" /\ Changing(c)
        /\ call[c].kind \notin TokenMakers /\ Handled(c, "ok", None, TRUE)
    BY <1>7 DEF HandleLogout, Arrived, Changing, TokenMakers
  <2>2. call[c].token \in Some
    BY TabTyped DEF Call
  <2>3. {call[c].token} \ {None} \subseteq Tokens
    BY <2>2, WebNumbers DEF Some, Tokens, None
  <2>4. server' = [server EXCEPT !.live = server.live \ {call[c].cookie},
                             !.refused = server.refused \cup ({call[c].token} \ {None})]
    BY <1>7 DEF HandleLogout
  <2>5. /\ server' \in [made : Some, live : SUBSET Tokens, refused : SUBSET Tokens]
        /\ server'.made = server.made /\ server'.live \subseteq server.live
    BY <1>2, <2>3, <2>4
  <2>6. QED
    BY <1>1, <2>1, <2>5, RejectsSession
<1>8. QED
  BY <1>3, <1>4, <1>5, <1>6, <1>7 DEF Handle

LEMMA LostSession ==
  ASSUME SessionInv, NEW c \in Calls, Lost(c), acts' \in 0 .. MaxActs
  PROVE  SessionInv'
<1>1. server \in [made : Some, live : SUBSET Tokens, refused : SUBSET Tokens]
  BY DEF SessionInv, SessionTypeOK
<1>2. QED
  BY <1>1, RejectsSession DEF Lost

(* The call is emptied, the others stay or are cut. *)
LEMMA DoneEnds ==
  ASSUME SessionInv, NEW c \in Calls, UNCHANGED server, call' = Done(c) \/ call' = Cut(Done(c))
  PROVE  Finishes(c) /\ (call' = Done(c) => \A d \in Calls \ {c} : call'[d] = call[d])
<1>1. NoCall \in Call /\ NoCall.kind = "none" /\ NoCall.cookie = 0 /\ NoCall.gives = 0
      /\ NoCall.result = "none" /\ NoCall.wipes = FALSE /\ NoCall.cut = FALSE
  BY TabTyped DEF NoCall, Call, None
<1>2. /\ Done(c) \in [Calls -> Call] /\ Done(c)[c] = NoCall
      /\ \A d \in Calls \ {c} : Done(c)[d] = call[d]
  BY <1>1, TabTyped DEF Done
<1>3. 0 <= server.made
  BY WebNumbers
<1>4. CASE call' = Done(c)
  BY <1>1, <1>2, <1>3, <1>4 DEF Finishes, OthersKept
<1>5. CASE call' = Cut(Done(c)) /\ call' # Done(c)
  <2>1. /\ call' \in [Calls -> Call]
        /\ \A d \in Calls :
             /\ call'[d].kind = Done(c)[d].kind /\ call'[d].at = Done(c)[d].at
             /\ call'[d].cookie = Done(c)[d].cookie /\ call'[d].result = Done(c)[d].result
             /\ call'[d].gives = Done(c)[d].gives /\ call'[d].wipes = Done(c)[d].wipes
             /\ Done(c)[d].cut => call'[d].cut
    BY <1>2, <1>5 DEF Cut, Call
  <2>2. OthersKept(c)
    BY <1>2, <2>1 DEF OthersKept
  <2>3. QED
    BY <1>1, <1>2, <1>3, <1>5, <2>1, <2>2 DEF Finishes
<1>6. QED
  BY <1>4, <1>5

LEMMA StoredCookie ==
  ASSUME SessionInv, NEW c \in Calls, StoresCookie(call[c])
  PROVE  cookie' \in Some /\ cookie' <= server.made
<1>1. cookie <= server.made /\ call[c].gives <= server.made /\ 0 <= server.made
  BY WebNumbers DEF SessionInv, NumbersKnown
<1>2. call[c].gives \in Some
  BY TabTyped DEF Call
<1>3. QED
  BY <1>1, <1>2, TabTyped DEF StoresCookie

(* GET /me follows an answer. *)
LEMMA MeEnds ==
  ASSUME SessionInv, NEW c \in Calls, NEW token \in Some, UNCHANGED server,
         call' = Cut([call EXCEPT ![c] = Sent("me", token)])
  PROVE  Finishes(c)
<1>1. /\ Sent("me", token) \in Call /\ Sent("me", token).kind = "me"
      /\ Sent("me", token).at = "sent" /\ Sent("me", token).cookie = cookie
      /\ Sent("me", token).gives = 0 /\ Sent("me", token).result = "none"
      /\ ~Sent("me", token).wipes
  BY SentTyped
<1>2. /\ call' \in [Calls -> Call] /\ call'[c] = Sent("me", token)
      /\ \A d \in Calls \ {c} : call'[d] = Cut(call)[d]
  BY <1>1, TabTyped DEF Cut, Call
<1>3. OthersKept(c)
  BY <1>2, CutTyped DEF OthersKept
<1>4. cookie <= server.made
  BY DEF SessionInv, NumbersKnown
<1>5. QED
  BY <1>1, <1>2, <1>3, <1>4 DEF Finishes

(* An answer with a token is of a tab that was not signed out, and the browser has *)
(* its cookie already.                                                             *)
LEMMA TokenComes ==
  ASSUME SessionInv, NEW c \in Calls, NEW kinds \in SUBSET (TokenMakers \cup {"verify"}),
         Answered(c, kinds, "ok")
  PROVE  /\ call[c].gives \in Some /\ Changing(c) /\ ~call[c].cut /\ ~tab.signedOut
         /\ cookie' \in Some /\ cookie' <= server.made /\ (calm => cookie' \in server.live)
         /\ UNCHANGED <<server, calm>> /\ calm' \in BOOLEAN
<1>1. /\ call[c].kind \in TokenMakers \cup {"verify"} /\ ~call[c].cut
      /\ call[c].result = "ok" /\ StoresCookie(call[c]) /\ calm' = calm /\ server' = server
      /\ call[c].gives \in Some /\ Changing(c)
  BY TabTyped DEF Answered, Call, Changing
<1>2. ~tab.signedOut
  <2>1. c \in InFlight(TokenMakers \cup {"verify"})
    BY <1>1 DEF InFlight
  <2>2. QED
    BY <2>1 DEF SessionInv, SignedOutQuiet
<1>3. cookie' \in Some /\ cookie' <= server.made
  BY <1>1, StoredCookie
<1>4. calm => cookie' \in server.live
  <2> SUFFICES ASSUME calm PROVE cookie' \in server.live
    OBVIOUS
  <2>1. CalmCall(c)
    BY DEF SessionInv, CalmCalls
  <2>2. call[c].kind \in TokenMakers /\ call[c].gives \in server.live
    BY <1>1, <2>1 DEF CalmCall
  <2>3. QED
    BY <1>1, <2>2 DEF StoresCookie
<1>5. QED
  BY <1>1, <1>2, <1>3, <1>4, TabTyped

(* The timer is set. *)
LEMMA TimerSet ==
  ASSUME SessionInv, NEW c \in Calls, NEW kinds \in SUBSET (TokenMakers \cup {"verify"}),
         Answered(c, kinds, "ok"), NEW at \in {"closed", "public", "app"},
         NEW rest \in {Done(c), ThenMe(c)}, SetsTimer(c, at, rest), acts' \in 0 .. MaxActs
  PROVE  SessionInv'
<1>1. /\ call[c].gives \in Some /\ Changing(c) /\ ~tab.signedOut
      /\ cookie' \in Some /\ cookie' <= server.made /\ (calm => cookie' \in server.live)
      /\ UNCHANGED <<server, calm>> /\ calm' \in BOOLEAN
  BY TokenComes
<1>2. /\ tab'.signedOut = tab.signedOut /\ tab'.timer = TRUE
      /\ tab' \in [token : Some, timer : BOOLEAN, at : {"closed", "public", "app"},
                   signedOut : BOOLEAN]
  BY <1>1, TabTyped DEF SetsTimer
<1>3. SignedOutQuiet' /\ RefreshComing'
  BY <1>1, <1>2 DEF SignedOutQuiet, RefreshComing
<1>4. Finishes(c)
  BY <1>1, DoneEnds, MeEnds DEF SetsTimer, ThenMe
<1>5. QED
  BY <1>1, <1>2, <1>3, <1>4, EndsSession

(* What is left when a call is done, or gives way to GET /me. *)
LEMMA RestTyped ==
  ASSUME SessionInv, NEW c \in Calls, call[c].gives \in Some, NEW rest \in {Done(c), ThenMe(c)}
  PROVE  /\ rest \in [Calls -> Call] /\ \A d \in Calls \ {c} : rest[d] = call[d]
         /\ rest[c].kind \in {"none", "me"} /\ rest[c].result = "none" /\ ~rest[c].wipes
         /\ rest[c].cookie <= server.made /\ rest[c].gives = 0
<1>1. NoCall \in Call /\ NoCall.kind = "none" /\ NoCall.cookie = 0 /\ NoCall.gives = 0
      /\ NoCall.result = "none" /\ NoCall.wipes = FALSE
  BY TabTyped DEF NoCall, Call, None
<1>2. /\ Sent("me", call[c].gives) \in Call /\ Sent("me", call[c].gives).kind = "me"
      /\ Sent("me", call[c].gives).cookie = cookie /\ Sent("me", call[c].gives).gives = 0
      /\ Sent("me", call[c].gives).result = "none" /\ ~Sent("me", call[c].gives).wipes
  BY SentTyped
<1>3. cookie <= server.made /\ 0 <= server.made
  BY WebNumbers DEF SessionInv, NumbersKnown
<1>4. QED
  BY <1>1, <1>2, <1>3, TabTyped DEF Done, ThenMe

(* The token is refreshed at once, by another call. *)
LEMMA RefreshedAtOnce ==
  ASSUME SessionInv, NEW c \in Calls, NEW kinds \in SUBSET (TokenMakers \cup {"verify"}),
         Answered(c, kinds, "ok"), NEW at \in {"closed", "public", "app"},
         NEW rest \in {Done(c), ThenMe(c)}, RefreshesAtOnce(c, at, rest),
         acts' \in 0 .. MaxActs
  PROVE  SessionInv'
<1>1. /\ call[c].gives \in Some /\ Changing(c) /\ ~tab.signedOut
      /\ cookie' \in Some /\ cookie' <= server.made
      /\ UNCHANGED <<server, calm>> /\ calm' \in BOOLEAN
  BY TokenComes
<1>2. /\ tab'.signedOut = tab.signedOut
      /\ tab' \in [token : Some, timer : BOOLEAN, at : {"closed", "public", "app"},
                   signedOut : BOOLEAN]
  BY <1>1, TabTyped DEF RefreshesAtOnce
<1>3. PICK q : q = [Sent("refresh", call[c].gives) EXCEPT !.cookie = cookie']
  OBVIOUS
<1>4. /\ q \in Call /\ q.kind = "refresh" /\ q.at = "sent" /\ q.cookie = cookie'
      /\ q.gives = 0 /\ q.result = "none" /\ ~q.wipes /\ ~q.cut
  BY <1>1, <1>3, SentTyped DEF Call
<1>5. PICK d \in Calls : rest[d].kind = "none" /\ call' = [Cut(rest) EXCEPT ![d] = q]
  BY <1>3 DEF RefreshesAtOnce
<1>6. /\ rest \in [Calls -> Call] /\ \A e \in Calls \ {c} : rest[e] = call[e]
      /\ rest[c].kind \in {"none", "me"} /\ rest[c].result = "none" /\ ~rest[c].wipes
      /\ rest[c].cookie <= server.made /\ rest[c].gives = 0
  BY <1>1, RestTyped
<1>7. /\ Cut(rest) \in [Calls -> Call]
      /\ \A e \in Calls : /\ Cut(rest)[e].kind = rest[e].kind /\ Cut(rest)[e].at = rest[e].at
                          /\ Cut(rest)[e].cookie = rest[e].cookie
                          /\ Cut(rest)[e].result = rest[e].result
                          /\ Cut(rest)[e].gives = rest[e].gives
                          /\ Cut(rest)[e].wipes = rest[e].wipes
  <2>1. rest \in [Calls -> Call]
    BY <1>6
  <2>2. QED
    BY <2>1 DEF Cut, Call
<1>8. /\ call' \in [Calls -> Call] /\ call'[d] = q
      /\ \A e \in Calls \ {d} : /\ call'[e].kind = rest[e].kind /\ call'[e].at = rest[e].at
                                /\ call'[e].cookie = rest[e].cookie
                                /\ call'[e].result = rest[e].result
                                /\ call'[e].gives = rest[e].gives
                                /\ call'[e].wipes = rest[e].wipes
  BY <1>4, <1>5, <1>7
<1>9. SessionTypeOK'
  BY <1>1, <1>2, <1>8 DEF SessionInv, SessionTypeOK
<1>10. SignedOutQuiet'
  BY <1>1, <1>2 DEF SignedOutQuiet
<1>11. RefreshComing'
  <2>1. d \in InFlight({"refresh", "timer"})'
    BY <1>4, <1>8 DEF InFlight
  <2>2. QED
    BY <2>1 DEF RefreshComing
<1>12. CalmCalls'
  <2> SUFFICES ASSUME calm
               PROVE  /\ \A e, f \in Calls : Changing(e)' /\ Changing(f)' => e = f
                      /\ \A e \in Calls : CalmCall(e)'
    BY <1>1 DEF CalmCalls
  <2>1. \A e \in Calls \ {c} : ~Changing(e) /\ CalmCall(e)
    BY <1>1, CalmAlone DEF SessionInv, CalmCalls
  <2>2. \A e \in Calls \ {d} : ~Changing(e)'
    BY <1>6, <1>8, <2>1 DEF Changing, TokenMakers
  <2>3. CalmCall(d)'
    BY <1>4, <1>8 DEF CalmCall, Changing, TokenMakers
  <2>4. ASSUME NEW e \in Calls \ {d} PROVE CalmCall(e)'
    <3>1. /\ call'[e].result # "failed" /\ (call'[e].kind = "me" => ~call'[e].wipes)
      BY <1>6, <1>8, <2>1 DEF CalmCall
    <3>2. QED
      BY <2>2, <3>1 DEF CalmCall, Changing
  <2>5. QED
    BY <2>2, <2>3, <2>4
<1>13. CalmCookie'
  BY <1>4, <1>8 DEF CalmCookie, Changing, TokenMakers
<1>14. NumbersKnown'
  <2>1. \A e \in Calls : call[e].cookie <= server.made /\ call[e].gives <= server.made
    BY DEF SessionInv, NumbersKnown
  <2>2. 0 <= server.made
    BY WebNumbers
  <2>3. QED
    BY <1>1, <1>4, <1>6, <1>8, <2>1, <2>2 DEF NumbersKnown
<1>15. TokensLast'
  <2>1. Spending' \subseteq Spending \cup {d}
    BY <1>1, <1>6, <1>8 DEF Spending
  <2>2. d \in Spending' => Left
    BY <1>1, <1>4, <1>8 DEF Spending, RefreshesAtOnce, RoomFor
  <2>3. CASE d \in Spending'
    BY <1>1, <2>1, <2>2, <2>3, OneSpent
  <2>4. CASE d \notin Spending'
    BY <1>1, <2>1, <2>4, NoneSpent
  <2>5. QED
    BY <2>3, <2>4
<1>16. QED
  BY <1>9, <1>10, <1>11, <1>12, <1>13, <1>14, <1>15 DEF SessionInv

(* An answer with a token: the timer is set, the token is refreshed at once, or it *)
(* cannot be read and the tab is signed out.                                       *)
LEMMA TakesSession ==
  ASSUME SessionInv, NEW c \in Calls, NEW kinds \in SUBSET (TokenMakers \cup {"verify"}),
         Answered(c, kinds, "ok"), NEW at \in {"closed", "public", "app"},
         NEW rest \in {Done(c), ThenMe(c)}, TakesToken(c, at, rest), acts' \in 0 .. MaxActs
  PROVE  SessionInv'
<1>1. CASE SetsTimer(c, at, rest)
  BY <1>1, TimerSet
<1>2. CASE RefreshesAtOnce(c, at, rest)
  BY <1>2, RefreshedAtOnce
<1>3. CASE SignsOut(c, call)
  <2>1. /\ cookie' \in Some /\ cookie' <= server.made /\ Changing(c)
        /\ UNCHANGED <<server, calm>> /\ calm' \in BOOLEAN
    BY TokenComes
  <2>2. QED
    BY <1>3, <2>1, SignsOutSession
<1>4. QED
  BY <1>1, <1>2, <1>3 DEF TakesToken

LEMMA TokenAnswered ==
  ASSUME SessionInv, NEW c \in Calls, acts' \in 0 .. MaxActs,
         \/ LoginAnswered(c) \/ RefreshAnswered(c)
         \/ VerifyAnswered(c) /\ call[c].gives # None
  PROVE  SessionInv'
<1>1. tab.at \in {"closed", "public", "app"}
  BY TabTyped
<1>2. CASE LoginAnswered(c)
  <2>1. Answered(c, {"login"}, "ok") /\ TakesToken(c, "app", Done(c))
    BY <1>2 DEF LoginAnswered
  <2>2. {"login"} \in SUBSET (TokenMakers \cup {"verify"})
    BY DEF TokenMakers
  <2>3. QED
    BY <2>1, <2>2, TakesSession
<1>3. CASE RefreshAnswered(c)
  <2>1. PICK rest \in {Done(c), ThenMe(c)} :
          Answered(c, {"refresh", "timer"}, "ok") /\ TakesToken(c, tab.at, rest)
    BY <1>3 DEF RefreshAnswered
  <2>2. {"refresh", "timer"} \in SUBSET (TokenMakers \cup {"verify"})
    BY DEF TokenMakers
  <2>3. QED
    BY <1>1, <2>1, <2>2, TakesSession
<1>4. CASE VerifyAnswered(c) /\ call[c].gives # None
  <2>1. Answered(c, {"verify"}, "ok") /\ TakesToken(c, tab.at, ThenMe(c))
    BY <1>4 DEF VerifyAnswered
  <2>2. {"verify"} \in SUBSET (TokenMakers \cup {"verify"})
    OBVIOUS
  <2>3. QED
    BY <1>1, <2>1, <2>2, TakesSession
<1>5. QED
  BY <1>2, <1>3, <1>4

LEMMA RefusedSession ==
  ASSUME SessionInv, NEW c \in Calls, Refused(c), acts' \in 0 .. MaxActs
  PROVE  SessionInv'
<1>1. /\ SignsOut(c, call) /\ UNCHANGED server /\ StoresCookie(call[c])
      /\ call[c].result # "ok"
      /\ calm' = (calm /\ (call[c].result # "401" \/ ~Meets(c)))
      /\ call[c].result \in {"401", "failed"}
  BY DEF Refused, Answered
<1>2. cookie' \in Some /\ cookie' <= server.made
  BY <1>1, StoredCookie
<1>3. calm' \in BOOLEAN
  BY <1>1, TabTyped
<1>4. calm => call[c].result # "failed"
  BY DEF SessionInv, CalmCalls, CalmCall
<1>5. calm' => calm /\ ~Meets(c)
  BY <1>1, <1>4
<1>6. QED
  BY <1>1, <1>2, <1>3, <1>5, SignsOutSession

(* What is left of RefreshComing when a call that refreshes nothing is done. *)
LEMMA ComingKept ==
  ASSUME SessionInv, NEW c \in Calls, \A d \in Calls \ {c} : call'[d] = call[d],
         c \notin InFlight({"refresh", "timer"}), tab' = tab
  PROVE  RefreshComing'
<1>1. InFlight({"refresh", "timer"}) \subseteq InFlight({"refresh", "timer"})'
  BY DEF InFlight
<1>2. QED
  BY <1>1 DEF SessionInv, RefreshComing

LEMMA StaysQuiet ==
  ASSUME SessionInv, NEW c \in Calls, Finishes(c), tab' = tab
  PROVE  SignedOutQuiet'
<1>1. tab.signedOut => tab.token = None /\ ~tab.timer
  BY DEF SessionInv, SignedOutQuiet
<1>2. call'[c].kind \notin TokenMakers \cup {"verify"} /\ OthersKept(c)
  BY DEF Finishes, TokenMakers
<1>3. QED
  BY <1>1, <1>2, QuietKept

LEMMA RefreshFailedSession ==
  ASSUME SessionInv, NEW c \in Calls, RefreshFailed(c), acts' \in 0 .. MaxActs
  PROVE  SessionInv'
<1>1. /\ tab' = [tab EXCEPT !.token = None] /\ call' = Done(c) /\ calm' = calm
      /\ UNCHANGED server /\ StoresCookie(call[c]) /\ call[c].result = "failed"
  BY TabTyped DEF RefreshFailed, Answered
<1>2. /\ tab'.token = None /\ tab'.timer = tab.timer /\ tab'.signedOut = tab.signedOut
      /\ tab' \in [token : Some, timer : BOOLEAN, at : {"closed", "public", "app"},
                   signedOut : BOOLEAN]
  BY <1>1, TabTyped
<1>3. Finishes(c)
  BY <1>1, DoneEnds
<1>4. SignedOutQuiet'
  <2>1. tab.signedOut => ~tab.timer
    BY DEF SessionInv, SignedOutQuiet
  <2>2. call'[c].kind \notin TokenMakers \cup {"verify"} /\ OthersKept(c)
    BY <1>3 DEF Finishes, TokenMakers
  <2>3. QED
    BY <1>2, <2>1, <2>2, QuietKept
<1>5. RefreshComing'
  BY <1>2 DEF RefreshComing
<1>6. ~calm'
  BY <1>1 DEF SessionInv, CalmCalls, CalmCall
<1>7. QED
  BY <1>1, <1>2, <1>3, <1>4, <1>5, <1>6, StoredCookie, EndsSession, TabTyped

LEMMA IgnoredSession ==
  ASSUME SessionInv, NEW c \in Calls, acts' \in 0 .. MaxActs,
         Ignored(c) \/ (VerifyAnswered(c) /\ call[c].gives = None)
  PROVE  SessionInv'
<1>1. /\ tab' = tab /\ call' = Done(c) /\ UNCHANGED server /\ StoresCookie(call[c])
      /\ call[c].kind \in {"logout", "me", "login", "verify"} /\ calm' = calm
      /\ call[c].result = "failed" \/ call[c].kind \in {"logout", "me", "verify"}
  BY TabTyped DEF Ignored, VerifyAnswered, Answered
<1>2. Finishes(c) /\ \A d \in Calls \ {c} : call'[d] = call[d]
  BY <1>1, DoneEnds
<1>3. SignedOutQuiet'
  BY <1>1, <1>2, StaysQuiet
<1>4. RefreshComing'
  <2>1. c \notin InFlight({"refresh", "timer"})
    BY <1>1 DEF InFlight
  <2>2. QED
    BY <1>1, <1>2, <2>1, ComingKept
<1>5. calm => \/ tab'.token = None
              \/ ~Changing(c) /\ tab'.token = tab.token /\ cookie' = cookie
  <2> SUFFICES ASSUME calm
               PROVE  \/ tab'.token = None
                      \/ ~Changing(c) /\ tab'.token = tab.token /\ cookie' = cookie
    OBVIOUS
  <2>1. CalmCall(c)
    BY DEF SessionInv, CalmCalls
  <2>2. call[c].kind = "logout" \/ call[c].kind = "me"
    BY <1>1, <2>1 DEF CalmCall, Changing
  <2>3. CASE call[c].kind = "logout"
    BY <1>1, <2>1, <2>3 DEF CalmCall
  <2>4. CASE call[c].kind = "me"
    <3>1. ~call[c].wipes
      BY <2>1, <2>4 DEF CalmCall
    <3>2. QED
      BY <1>1, <2>4, <3>1 DEF StoresCookie, Changing, TokenMakers
  <2>5. QED
    BY <2>2, <2>3, <2>4
<1>6. QED
  BY <1>1, <1>2, <1>3, <1>4, <1>5, StoredCookie, EndsSession, TabTyped

LEMMA ForgottenSession ==
  ASSUME SessionInv, NEW c \in Calls, Forgotten(c), acts' \in 0 .. MaxActs
  PROVE  SessionInv'
<1>1. call[c].cut /\ call' = Done(c) /\ UNCHANGED <<tab, cookie, server, calm>>
  BY DEF Forgotten
<1>2. Finishes(c) /\ \A d \in Calls \ {c} : call'[d] = call[d]
  BY <1>1, DoneEnds
<1>3. SignedOutQuiet'
  BY <1>1, <1>2, StaysQuiet
<1>4. RefreshComing'
  <2>1. c \notin InFlight({"refresh", "timer"})
    BY <1>1 DEF InFlight
  <2>2. QED
    BY <1>1, <1>2, <2>1, ComingKept
<1>5. calm => ~Changing(c)
  BY <1>1 DEF SessionInv, CalmCalls, CalmCall
<1>6. cookie' <= server.made
  BY <1>1 DEF SessionInv, NumbersKnown
<1>7. QED
  BY <1>1, <1>2, <1>3, <1>4, <1>5, <1>6, EndsSession, TabTyped

(* A step that leaves the calls, the server and the token alone. *)
LEMMA AsideSession ==
  ASSUME SessionInv, UNCHANGED <<cookie, server, call, calm>>, acts' \in 0 .. MaxActs,
         tab' \in [token : Some, timer : BOOLEAN, at : {"closed", "public", "app"},
                  signedOut : BOOLEAN],
         tab'.token = tab.token, tab'.timer = tab.timer, tab'.signedOut = tab.signedOut
  PROVE  SessionInv'
<1>1. SessionTypeOK'
  BY DEF SessionInv, SessionTypeOK
<1>2. SignedOutQuiet' /\ RefreshComing'
  BY DEF SessionInv, SignedOutQuiet, RefreshComing, InFlight
<1>3. CalmCalls' /\ CalmCookie'
  BY DEF SessionInv, CalmCalls, CalmCall, CalmCookie, Changing
<1>4. NumbersKnown' /\ TokensLast'
  BY DEF SessionInv, NumbersKnown, TokensLast, Spending
<1>5. QED
  BY <1>1, <1>2, <1>3, <1>4 DEF SessionInv

LEMMA EnterSession ==
  ASSUME SessionInv, Enter, acts' \in 0 .. MaxActs
  PROVE  SessionInv'
<1>1. UNCHANGED <<cookie, server, call, calm>> /\ tab' = [tab EXCEPT !.at = "app"]
  BY DEF Enter
<1>2. /\ tab'.token = tab.token /\ tab'.timer = tab.timer /\ tab'.signedOut = tab.signedOut
      /\ tab' \in [token : Some, timer : BOOLEAN, at : {"closed", "public", "app"},
                   signedOut : BOOLEAN]
  BY <1>1, TabTyped
<1>3. QED
  BY <1>1, <1>2, AsideSession
-----------------------------------------------------------------------------
(* The steps of the whole client. *)
LEMMA SessionStarts == SessionInit => SessionInv
<1> SUFFICES ASSUME SessionInit PROVE SessionInv
  OBVIOUS
<1>1. 0 \in Some /\ 1 \in Some /\ 1 \in Tokens /\ None = 0 /\ 0 \in 0 .. MaxActs
  BY WebSessionAssumption DEF Some, Tokens, None
<1>2. NoCall \in Call /\ NoCall.kind = "none" /\ NoCall.cookie = 0 /\ NoCall.gives = 0
      /\ NoCall.result = "none" /\ NoCall.wipes = FALSE /\ NoCall.at = "none"
  BY <1>1 DEF NoCall, Call
<1>3. \A c \in Calls : call[c] = NoCall
  BY DEF SessionInit
<1>4. SessionTypeOK
  BY <1>1, <1>2 DEF SessionInit, SessionTypeOK
<1>5. SignedOutQuiet /\ RefreshComing /\ CalmCookie
  BY <1>1 DEF SessionInit, SignedOutQuiet, RefreshComing, CalmCookie
<1>6. CalmCalls
  BY <1>2, <1>3 DEF CalmCalls, CalmCall, Changing, TokenMakers
<1>7. NumbersKnown
  BY <1>1, <1>2, <1>3 DEF SessionInit, NumbersKnown
<1>8. TokensLast
  <2>1. Spending = {}
    BY <1>2, <1>3 DEF Spending
  <2>2. Cardinality(Spending) = 0
    BY <2>1, FS_EmptySet
  <2>3. server.made = 1
    BY DEF SessionInit
  <2>4. QED
    BY <2>2, <2>3, WebSessionAssumption DEF TokensLast
<1>9. QED
  BY <1>4, <1>5, <1>6, <1>7, <1>8 DEF SessionInv

LEMMA ActsTyped ==
  ASSUME SessionInv
  PROVE  acts \in 0 .. MaxActs /\ (acts < MaxActs => acts + 1 \in 0 .. MaxActs)
  BY WebSessionAssumption DEF SessionInv, SessionTypeOK

LEMMA SessionSteps == SessionInv /\ [WebNext]_webVars => SessionInv'
<1> SUFFICES ASSUME SessionInv, [WebNext]_webVars PROVE SessionInv'
  OBVIOUS
<1>1. CASE SessionStep
  <2>1. CASE SessionAct /\ acts < MaxActs /\ acts' = acts + 1
    <3>1. acts' \in 0 .. MaxActs
      BY <2>1, ActsTyped
    <3>2. QED
      BY <2>1, <3>1, ExpiresSession, OtherTabRefreshesSession, OtherTabSignsOutSession,
         BootSession, LoginSession, SignOutSession, TimerSession, LostSession
      DEF SessionAct
  <2>2. CASE SessionReply /\ UNCHANGED acts
    <3>1. acts' \in 0 .. MaxActs
      BY <2>2, ActsTyped
    <3>2. CASE Enter
      BY <3>1, <3>2, EnterSession
    <3>3. ASSUME NEW c \in Calls,
                 \/ Handle(c) \/ LoginAnswered(c) \/ RefreshAnswered(c)
                 \/ VerifyAnswered(c) \/ Refused(c) \/ RefreshFailed(c)
                 \/ Ignored(c) \/ Forgotten(c)
          PROVE  SessionInv'
      BY <3>1, <3>3, HandleSession, TokenAnswered, IgnoredSession, RefusedSession,
         RefreshFailedSession, ForgottenSession
    <3>4. QED
      BY <2>2, <3>2, <3>3 DEF SessionReply
  <2>3. QED
    BY <1>1, <2>1, <2>2 DEF SessionStep
<1>2. CASE PageStep
  <2>1. UNCHANGED <<tab, cookie, server, call, calm>> /\ acts' \in 0 .. MaxActs
    BY <1>2, ActsTyped DEF PageStep
  <2>2. QED
    BY <2>1, AsideSession, TabTyped
<1>3. CASE LeavePage \/ UNCHANGED webVars
  <2>1. UNCHANGED <<tab, cookie, server, call, acts, calm>>
    BY <1>3 DEF LeavePage, webVars, sessionVars
  <2>2. QED
    BY <2>1, AsideSession, TabTyped, ActsTyped
<1>4. ASSUME NEW x \in Slots, Unauthorized(x) PROVE SessionInv'
  <2>1. PICK c \in Calls : Free(c) /\ SignsOut(c, call)
    BY <1>4 DEF Unauthorized
  <2>2. UNCHANGED <<cookie, server, acts>> /\ calm' = (calm /\ Busy = {})
    BY <1>4 DEF Unauthorized
  <2>3. calm' => calm /\ ~Meets(c)
    BY <2>2 DEF Meets
  <2>4. cookie \in Some /\ cookie <= server.made
    BY TabTyped DEF SessionInv, NumbersKnown
  <2>5. QED
    BY <2>1, <2>2, <2>3, <2>4, SignsOutSession, ActsTyped, TabTyped
<1>5. QED
  BY <1>1, <1>2, <1>3, <1>4 DEF WebNext

LEMMA SessionInvariant == WebSpec => []SessionInv
<1>1. WebInit => SessionInv
  BY SessionStarts DEF WebInit
<1>2. SessionInv /\ [WebNext]_webVars => SessionInv'
  BY SessionSteps
<1>3. QED
  BY <1>1, <1>2, PTL DEF WebSpec

\* Neither the timer nor an answer brings a token back to a tab that was signed out,
\* unless a login, a verification or a refresh that refreshTimer does not hold - the
\* one at boot, or of a token about to expire - was in flight then (auth.service.ts
\* logout, scheduleRefresh).
THEOREM LogoutsHold == WebSpec => []LogoutHolds
<1>1. SessionInv => LogoutHolds
  BY DEF SessionInv, SignedOutQuiet, LogoutHolds
<1>2. QED
  BY <1>1, SessionInvariant, PTL

\* However calls overtake one another and tabs share the cookie, a tab with a token
\* will refresh it, and its cookie names a live session as long as it was calm.
THEOREM StayingLoggedIn == WebSpec => []StaysLoggedIn
<1>1. ASSUME SessionInv, tab.token # None, calm, InFlight(TokenMakers \cup {"logout"}) = {}
      PROVE  cookie \in server.live
  <2>1. ASSUME NEW c \in Calls PROVE ~Changing(c)
    <3>1. CalmCall(c)
      BY <1>1 DEF SessionInv, CalmCalls
    <3>2. c \notin InFlight(TokenMakers \cup {"logout"})
      BY <1>1
    <3>3. QED
      BY <3>1, <3>2 DEF CalmCall, Changing, InFlight
  <2>2. QED
    BY <1>1, <2>1 DEF SessionInv, CalmCookie
<1>2. SessionInv => StaysLoggedIn
  BY <1>1 DEF SessionInv, RefreshComing, StaysLoggedIn
<1>3. QED
  BY <1>2, SessionInvariant, PTL
-----------------------------------------------------------------------------
(* The page that is open (ListPages). *)
LEMMA PageTyped ==
  ASSUME PageInv
  PROVE  /\ page \in Page /\ row \in [Rows -> Groups \cup {"none", "gone"}]
         /\ load \in [Loads -> Load] /\ write \in [Writes -> Write]
         /\ "none" \notin Groups /\ "gone" \notin Groups /\ "all" \notin Groups
         /\ "nothing" \notin Groups /\ "none" \notin Kinds
  BY ListPagesAssumption DEF PageInv, PageTypeOK

LEMMA Emptiness ==
  /\ NoLoad \in Load /\ NoLoad.at = "none" /\ NoLoad.rows = {}
  /\ NoWrite \in Write /\ NoWrite.at = "none" /\ NoWrite.op = "none"
  BY DEF NoLoad, NoWrite, Load, Write, Filters

LEMMA SomethingOpen ==
  ASSUME PageInv
  PROVE  /\ \A l \in Loading : page.kind # "none"
         /\ \A w \in Writes : write[w].at # "none" => page.kind # "none"
  BY Emptiness DEF PageInv, NothingOpen, Open, NoLoads, NoWrites, Loading

LEMMA PageStarts == PageInit => PageInv
<1> SUFFICES ASSUME PageInit PROVE PageInv
  OBVIOUS
<1>1. NoPage \in Page /\ NoPage.dropped = {} /\ NoPage.kind = "none" /\ NoPage.tidy
      /\ NoPage.shown.f = NoPage.ask
  BY DEF NoPage, Page, Filters
<1>2. \A l \in Loads : load[l] = NoLoad
  BY DEF PageInit, NoLoads
<1>3. \A w \in Writes : write[w] = NoWrite
  BY DEF PageInit, NoWrites
<1>4. Loading = {} /\ Creating = {}
  BY <1>2, <1>3, Emptiness DEF Loading, Creating
<1>5. PageTypeOK
  BY <1>1, Emptiness DEF PageInit, PageTypeOK, NoRows, NoLoads, NoWrites
<1>6. NothingOpen
  BY DEF PageInit, NothingOpen
<1>7. LoadsAsked
  BY <1>1, <1>4 DEF PageInit, LoadsAsked
<1>8. CreatesTrue /\ ChangesTrue
  BY <1>3, <1>4, Emptiness DEF CreatesTrue, ChangesTrue
<1>9. GroupsKept
  BY <1>1 DEF PageInit, GroupsKept, Open, Kept
<1>10. DroppedGone
  BY <1>1 DEF PageInit, DroppedGone
<1>11. QED
  BY <1>5, <1>6, <1>7, <1>8, <1>9, <1>10 DEF PageInv

(* A request is made. *)
LEMMA RequestsTyped ==
  ASSUME PageInv, NEW l \in Loads, NEW f \in Filters
  PROVE  /\ NewLoad(l, f) \in [Loads -> Load]
         /\ NewLoad(l, f)[l].at = "sent" /\ NewLoad(l, f)[l].f = f
         /\ NewLoad(l, f)[l].rows = {}
         /\ \A m \in Loads \ {l} : NewLoad(l, f)[m] = load[m]
         /\ RequestRows(l, f) \in [Loads -> Load]
         /\ RequestRows(l, f)[l].at = "sent" /\ RequestRows(l, f)[l].f = f
         /\ RequestRows(l, f)[l].rows = {}
         /\ \A m \in Loads \ {l} : RequestRows(l, f)[m] = IF Open(Switching) THEN NoLoad ELSE load[m]
<1>1. DEFINE q == [NoLoad EXCEPT !.at = "sent", !.f = f]
<1>2. q \in Load /\ q.at = "sent" /\ q.f = f /\ q.rows = {}
  BY Emptiness DEF Load, NoLoad
<1>3. NewLoad(l, f) = [load EXCEPT ![l] = q]
  BY DEF NewLoad
<1>4. RequestRows(l, f) = IF Open(Switching) THEN [NoLoads EXCEPT ![l] = q]
                          ELSE [load EXCEPT ![l] = q]
  BY <1>3 DEF RequestRows
<1> HIDE DEF q
<1>5. NoLoads \in [Loads -> Load] /\ load \in [Loads -> Load]
      /\ \A m \in Loads : NoLoads[m] = NoLoad
  BY Emptiness, PageTyped DEF NoLoads
<1>6. QED
  BY <1>2, <1>3, <1>4, <1>5

LEMMA AsksPage ==
  ASSUME PageInv, NEW l \in Loads, NEW f \in Groups \cup {"all"}, Asks(l, f),
         page.kind # "none", Open(Kept) => f \in Groups
  PROVE  PageInv'
<1>1. /\ load[l].at = "none" /\ load' = RequestRows(l, f) /\ UNCHANGED <<row, write>>
      /\ page' = [page EXCEPT !.ask = f, !.loading = TRUE, !.failed = @ /\ Open({"matter"}),
                !.shown.rows = IF Open({"search"}) THEN {} ELSE @,
                !.tidy = /\ Open(Switching) \/ \A k \in Loading : load[k].f = f
                         /\ Creating = {}]
  BY DEF Asks
<1>2. f \in Filters
  BY DEF Filters
<1>3. /\ load' \in [Loads -> Load]
      /\ load'[l].at = "sent" /\ load'[l].f = f /\ load'[l].rows = {}
      /\ \A m \in Loads \ {l} : load'[m] = IF Open(Switching) THEN NoLoad ELSE load[m]
  BY <1>1, <1>2, RequestsTyped
<1>4. /\ page' \in Page /\ page'.ask = f /\ page'.kind = page.kind
      /\ page'.dropped = page.dropped /\ page'.shown.rows \subseteq page.shown.rows
      /\ page'.tidy => /\ Open(Switching) \/ \A k \in Loading : load[k].f = f
                       /\ Creating = {}
  BY <1>1, <1>2, PageTyped DEF Page
<1>5. Creating' = Creating
  BY <1>1 DEF Creating
<1>6. l \in Loading' /\ \A m \in Loading' \ {l} : m \in Loading /\ ~Open(Switching)
                                                   /\ load'[m] = load[m]
  BY <1>3, Emptiness DEF Loading
<1>7. PageTypeOK'
  BY <1>1, <1>3, <1>4, PageTyped DEF PageTypeOK
<1>8. NothingOpen'
  BY <1>4 DEF NothingOpen, Open
<1>9. LoadsAsked'
  <2>1. Open(Switching)' <=> Open(Switching)
    BY <1>4 DEF Open
  <2>2. Open(Switching) \/ page'.tidy => \A m \in Loading' : load'[m].f = f
    BY <1>3, <1>4, <1>6
  <2>3. QED
    BY <1>4, <1>6, <2>1, <2>2 DEF LoadsAsked
<1>10. CreatesTrue' /\ ChangesTrue'
  BY <1>1, <1>4, <1>5 DEF PageInv, CreatesTrue, ChangesTrue
<1>11. GroupsKept'
  <2> SUFFICES ASSUME Open(Kept)' PROVE GroupsKept'
    BY DEF GroupsKept
  <2>1. Open(Kept)
    BY <1>4 DEF Open
  <2>2. \A m \in Loading' : m = l \/ (m \in Loading /\ load'[m] = load[m])
    BY <1>6
  <2>3. page'.tidy => Creating' = {}
    BY <1>4, <1>5
  <2>4. /\ \A w \in Writes : write'[w].op = "change" => write'[w].g = "none"
        /\ \A w \in Creating' : write'[w].at = "ok" => row'[write'[w].row] \in {write'[w].g, "gone"}
    BY <1>1, <1>5, <2>1 DEF PageInv, GroupsKept
  <2>5. \A m \in Loading' : /\ load'[m].f \in Groups
                             /\ \A x \in load'[m].rows : row'[x] \in {load'[m].f, "gone"}
    <3>1. f \in Groups
      BY <2>1
    <3>2. QED
      BY <1>1, <1>3, <2>1, <2>2, <3>1 DEF PageInv, GroupsKept
  <2>6. Loading' # {}
    BY <1>6
  <2>7. QED
    BY <2>3, <2>4, <2>5, <2>6 DEF GroupsKept
<1>12. DroppedGone'
  BY <1>1, <1>3, <1>4, <1>6 DEF PageInv, DroppedGone, Shown
<1>13. QED
  BY <1>7, <1>8, <1>9, <1>10, <1>11, <1>12 DEF PageInv

LEMMA OpensPage ==
  ASSUME PageInv, NEW l \in Loads, NEW kind \in Kinds, NEW f \in Filters, Opens(l, kind, f)
  PROVE  PageInv'
<1>1. /\ load = NoLoads /\ write = NoWrites
      /\ page' = [NoPage EXCEPT !.kind = kind, !.ask = f, !.loading = f # "nothing"]
      /\ load' = IF f = "nothing" THEN load ELSE NewLoad(l, f)
      /\ row' \in [Rows -> Groups \cup {"none"}] /\ UNCHANGED write
      /\ kind = "documents" => f = "nothing"
      /\ kind = "comments" => f \in Groups
  BY PageTyped DEF Opens, PageInv, NothingOpen
<1>2. /\ page' \in Page /\ page'.kind = kind /\ page'.ask = f /\ page'.tidy
      /\ page'.shown = [f |-> "nothing", rows |-> {}] /\ page'.dropped = {}
  BY <1>1 DEF NoPage, Page, Filters
<1>3. /\ load' \in [Loads -> Load]
      /\ f = "nothing" => Loading' = {}
      /\ f # "nothing" => Loading' = {l} /\ load'[l].f = f /\ load'[l].rows = {}
  BY <1>1, PageTyped, RequestsTyped, Emptiness DEF Loading, NoLoads
<1>4. Creating' = {} /\ \A w \in Writes : write'[w].op = "none"
  BY <1>1, Emptiness DEF Creating, NoWrites
<1>5. PageTypeOK'
  BY <1>1, <1>2, <1>3, PageTyped DEF PageTypeOK
<1>6. NothingOpen'
  BY <1>2, PageTyped DEF NothingOpen, Open
<1>7. LoadsAsked'
  BY <1>2, <1>3 DEF LoadsAsked
<1>8. CreatesTrue' /\ ChangesTrue'
  BY <1>4 DEF CreatesTrue, ChangesTrue
<1>9. GroupsKept'
  BY <1>1, <1>2, <1>3, <1>4 DEF GroupsKept, Open, Kept, Shown
<1>10. DroppedGone'
  BY <1>2 DEF DroppedGone
<1>11. QED
  BY <1>5, <1>6, <1>7, <1>8, <1>9, <1>10 DEF PageInv

(* The server answers it, with the rows of the moment. *)
LEMMA ServerReadsPage ==
  ASSUME PageInv, NEW l \in Loads, ServerReads(l)
  PROVE  PageInv'
<1>1. /\ load[l].at = "sent" /\ UNCHANGED <<page, row, write>>
      /\ load' = [load EXCEPT ![l] = [load[l] EXCEPT !.at = "handled",
                                                 !.rows = Matching(load[l].f)]]
  BY DEF ServerReads
<1>2. Matching(load[l].f) \subseteq Rows /\ load[l].f \in Filters
  BY PageTyped DEF Matching, Load
<1>3. /\ load' \in [Loads -> Load] /\ load'[l].at = "handled" /\ load'[l].f = load[l].f
      /\ load'[l].rows = Matching(load[l].f)
      /\ \A m \in Loads \ {l} : load'[m] = load[m]
  BY <1>1, <1>2, PageTyped DEF Load
<1>4. Loading' = Loading /\ Creating' = Creating /\ l \in Loading
  BY <1>1, <1>3 DEF Loading, Creating
<1>5. /\ \A x \in Matching(load[l].f) : row[x] # "gone"
      /\ load[l].f \in Groups => \A x \in Matching(load[l].f) : row[x] = load[l].f
  BY <1>2, PageTyped DEF Matching, Filters
<1>6. PageTypeOK'
  BY <1>1, <1>3, PageTyped DEF PageTypeOK
<1>7. NothingOpen'
  BY <1>1, <1>4, SomethingOpen DEF NothingOpen, Open
<1>8. LoadsAsked'
  BY <1>1, <1>3, <1>4 DEF PageInv, LoadsAsked, Open
<1>9. CreatesTrue' /\ ChangesTrue'
  BY <1>1, <1>4 DEF PageInv, CreatesTrue, ChangesTrue
<1>10. GroupsKept'
  BY <1>1, <1>3, <1>4, <1>5 DEF PageInv, GroupsKept, Open
<1>11. DroppedGone'
  BY <1>1, <1>3, <1>4, <1>5 DEF PageInv, DroppedGone, Shown
<1>12. QED
  BY <1>6, <1>7, <1>8, <1>9, <1>10, <1>11 DEF PageInv

(* The page has the answer, or an error. *)
LEMMA LoadedPage ==
  ASSUME PageInv, NEW l \in Loads, Loaded(l) \/ LoadFails(l)
  PROVE  PageInv'
<1>1. /\ l \in Loading /\ UNCHANGED <<row, write>> /\ load' = [load EXCEPT ![l] = NoLoad]
  BY DEF Loaded, LoadFails, Loading
<1>2. load' \in [Loads -> Load] /\ Loading' = Loading \ {l} /\ Creating' = Creating
      /\ \A m \in Loading' : load'[m] = load[m]
  BY <1>1, PageTyped, Emptiness DEF Loading, Creating
<1>3. /\ page' \in Page /\ page'.kind = page.kind /\ page'.ask = page.ask
      /\ page'.tidy = page.tidy /\ page'.dropped = page.dropped
      /\ \/ page'.shown = [f |-> load[l].f, rows |-> load[l].rows] /\ page'.failed = page.failed
         \/ page'.shown = [f |-> load[l].f, rows |-> {}] /\ page'.failed /\ Open(Emptied)
         \/ page'.shown = page.shown /\ page'.failed /\ ~Open(Emptied)
  <2>1. load[l].f \in Filters /\ load[l].rows \subseteq Rows
    BY PageTyped DEF Load
  <2>2. CASE Loaded(l)
    BY <2>1, <2>2, PageTyped DEF Loaded, Page
  <2>3. CASE LoadFails(l)
    BY <2>1, <2>3, PageTyped DEF LoadFails, Page
  <2>4. QED
    BY <2>2, <2>3
<1>4. Open(Switching) \/ page.tidy => load[l].f = page.ask
  BY <1>1 DEF PageInv, LoadsAsked
<1>5. PageTypeOK'
  BY <1>1, <1>2, <1>3, PageTyped DEF PageTypeOK
<1>6. NothingOpen'
  BY <1>1, <1>3, SomethingOpen DEF NothingOpen, Open
<1>7. LoadsAsked'
  <2>1. (Open(Switching)' <=> Open(Switching)) /\ (Open(Emptied)' <=> Open(Emptied))
    BY <1>3 DEF Open
  <2>2. Open(Switching) \/ page.tidy => \A m \in Loading : load[m].f = page.ask
    BY DEF PageInv, LoadsAsked
  <2>3. Open(Switching) \/ page.tidy => \A m \in Loading' : load'[m].f = page'.ask
    BY <1>2, <1>3, <2>2
  <2>4. (Open(Switching) \/ page.tidy) /\ (page'.failed => Open(Emptied)) =>
          page'.shown.f = page'.ask
    BY <1>3, <1>4
  <2>5. QED
    BY <1>3, <2>1, <2>3, <2>4 DEF LoadsAsked
<1>8. CreatesTrue' /\ ChangesTrue'
  BY <1>1, <1>2, <1>3 DEF PageInv, CreatesTrue, ChangesTrue
<1>9. GroupsKept'
  <2> SUFFICES ASSUME Open(Kept) PROVE GroupsKept'
    BY <1>3 DEF GroupsKept, Open
  <2>1. (Open(Kept)' <=> Open(Kept)) /\ (Open(Emptied)' <=> Open(Emptied))
    BY <1>3 DEF Open
  <2>2. \A x \in load[l].rows : row[x] \in {load[l].f, "gone"}
    BY <1>1, <2>1 DEF PageInv, GroupsKept
  <2>3. page.tidy /\ (page'.failed => Open(Emptied)) =>
           \A x \in page'.shown.rows : row[x] \in {page.ask, "gone"}
    BY <1>3, <1>4, <2>2
  <2>4. QED
    BY <1>1, <1>2, <1>3, <2>1, <2>3 DEF PageInv, GroupsKept, Shown
<1>10. DroppedGone'
  BY <1>1, <1>2, <1>3 DEF PageInv, DroppedGone, Shown
<1>11. QED
  BY <1>5, <1>6, <1>7, <1>8, <1>9, <1>10 DEF PageInv

(* A change begins. *)
LEMMA BeginsPage ==
  ASSUME PageInv, NEW w \in Writes, NEW at, NEW op, NEW x \in Rows, NEW g,
         Begins(w, at, op, x, g), page.kind # "none",
         \/ /\ op = "create" /\ at = "sent" /\ row[x] = "none" /\ g \in Groups
            /\ \A v \in Creating : write[v].row # x
            /\ Open(Kept) => g = page.ask
         \/ op = "delete" /\ at \in {"asked", "sent"} /\ g = "none"
         \/ /\ op = "change" /\ at = "sent" /\ g \in Groups \cup {"none"}
            /\ Open(Kept) => g = "none"
  PROVE  PageInv'
<1>1. DEFINE q == [at |-> at, op |-> op, row |-> x, g |-> g]
<1>2. q \in Write /\ q.at = at /\ q.op = op /\ q.row = x /\ q.g = g
  BY DEF Write
<1>3. write' = [write EXCEPT ![w] = q] /\ write[w].at = "none" /\ UNCHANGED <<page, row, load>>
  BY DEF Begins
<1> HIDE DEF q
<1>4. /\ write' \in [Writes -> Write] /\ write'[w] = q
      /\ \A v \in Writes \ {w} : write'[v] = write[v]
  BY <1>2, <1>3, PageTyped
<1>5. w \notin Creating
  BY <1>3 DEF PageInv, CreatesTrue
<1>6. /\ op = "create" => Creating' = Creating \cup {w}
      /\ op # "create" => Creating' = Creating
  BY <1>2, <1>4, <1>5 DEF Creating
<1>7. PageTypeOK'
  BY <1>3, <1>4, PageTyped DEF PageTypeOK
<1>8. NothingOpen'
  BY <1>3 DEF NothingOpen, Open
<1>9. LoadsAsked'
  BY <1>3 DEF PageInv, LoadsAsked, Loading, Open
<1>10. CreatesTrue'
  <2>1. op = "create" => x \notin page.dropped
    BY PageTyped DEF PageInv, DroppedGone
  <2>2. \A v \in Creating : v # w /\ v \in Writes
    BY <1>5 DEF Creating
  <2>3. CASE op = "create"
    <3>1. /\ q.row \in Rows \ page.dropped /\ q.g \in Groups /\ q.at = "sent"
          /\ row[q.row] = "none" /\ \A v \in Creating : write[v].row # q.row
      BY <1>2, <2>1, <2>3
    <3>2. QED
      BY <1>3, <1>4, <1>6, <2>2, <2>3, <3>1 DEF PageInv, CreatesTrue
  <2>4. CASE op # "create"
    BY <1>3, <1>4, <1>6, <2>2, <2>4 DEF PageInv, CreatesTrue
  <2>5. QED
    BY <2>3, <2>4
<1>11. ChangesTrue'
  BY <1>2, <1>3, <1>4 DEF PageInv, ChangesTrue
<1>12. GroupsKept'
  <2> SUFFICES ASSUME Open(Kept) PROVE GroupsKept'
    BY <1>3 DEF GroupsKept, Open
  <2>1. \A v \in Creating : v # w /\ v \in Writes
    BY <1>5 DEF Creating
  <2>2. \A v \in Writes : write'[v].op = "change" => write'[v].g = "none"
    BY <1>2, <1>4 DEF PageInv, GroupsKept
  <2>3. ASSUME NEW v \in Creating'
        PROVE  /\ write'[v].at = "ok" => row'[write'[v].row] \in {write'[v].g, "gone"}
               /\ page'.tidy => write'[v].g = page'.ask
    <3>1. CASE v = w
      BY <1>2, <1>3, <1>4, <1>6, <1>5, <2>3, <3>1
    <3>2. CASE v # w
      BY <1>3, <1>4, <1>6, <2>1, <2>3, <3>2 DEF PageInv, GroupsKept
    <3>3. QED
      BY <3>1, <3>2
  <2>4. /\ \A l \in Loading' : /\ load'[l].f \in Groups
                               /\ \A y \in load'[l].rows : row'[y] \in {load'[l].f, "gone"}
        /\ page'.tidy /\ Loading' = {} /\ (page'.failed => Open(Emptied)') =>
             \A y \in Shown' : row'[y] \in {page'.ask, "gone"}
    BY <1>3 DEF PageInv, GroupsKept, Loading, Shown, Open
  <2>5. QED
    BY <2>2, <2>3, <2>4 DEF GroupsKept
<1>13. DroppedGone'
  BY <1>3 DEF PageInv, DroppedGone, Loading, Shown
<1>14. QED
  BY <1>7, <1>8, <1>9, <1>10, <1>11, <1>12, <1>13 DEF PageInv

(* A change goes on, or ends: it is of no new kind, and what it promises holds. *)
LEMMA WritesPage ==
  ASSUME PageInv, NEW w \in Writes, NEW q \in Write, write[w].at # "none",
         write' = [write EXCEPT ![w] = q],
         \/ q = NoWrite
         \/ q.op = write[w].op /\ q.row = write[w].row /\ q.g = write[w].g,
         q.op = "create" => q.at \in {"sent", "ok", "error"},
         UNCHANGED load, page' \in Page, page'.kind = page.kind, page'.ask = page.ask,
         page'.tidy = page.tidy, page'.failed = page.failed,
         page'.shown.f = page.shown.f,
         row' \in [Rows -> Groups \cup {"none", "gone"}],
         (* rows *)
         \A y \in Rows : row[y] = "gone" => row'[y] = "gone",
         \A v \in Creating \ {w} : write[v].at = "sent" => row'[write[v].row] = "none",
         q.op = "create" /\ q.at = "sent" => row'[q.row] = "none",
         q.op = "delete" /\ q.at = "ok" => row'[q.row] = "gone",
         Open(Kept) =>
           /\ \A y \in Rows : row[y] \in {"none", row'[y]} \/ row'[y] = "gone"
           /\ \A v \in Creating \ {w} : row'[write[v].row] \in {row[write[v].row], "gone"}
           /\ q.op = "create" /\ q.at = "ok" => row'[q.row] \in {q.g, "gone"}
           /\ page.tidy /\ Loading = {} =>
                \A y \in page'.shown.rows \ page.shown.rows : row'[y] \in {page.ask, "gone"},
         (* what the page drops *)
         \A y \in page'.dropped : /\ row'[y] = "gone" /\ y \notin page'.shown.rows
                                  /\ \A l \in Loading : y \notin load[l].rows
                                  /\ \A v \in Creating \ {w} : write[v].row # y
                                  /\ q.op = "create" => q.row # y
  PROVE  PageInv'
<1>1. /\ write' \in [Writes -> Write] /\ write'[w] = q
      /\ \A v \in Writes \ {w} : write'[v] = write[v]
  BY PageTyped
<1>2. /\ \A v \in Creating' \ {w} : v \in Creating /\ v \in Writes
      /\ w \in Creating' => /\ w \in Creating /\ q.op = "create" /\ q.row = write[w].row
                            /\ q.g = write[w].g
  BY <1>1, Emptiness DEF Creating
<1>3. Loading' = Loading /\ load' = load
  BY DEF Loading
<1>4. PageTypeOK'
  BY <1>1, PageTyped DEF PageTypeOK
<1>5. NothingOpen'
  BY SomethingOpen DEF NothingOpen, Open
<1>6. LoadsAsked'
  BY <1>3 DEF PageInv, LoadsAsked, Open
<1>7. CreatesTrue'
  <2> SUFFICES ASSUME NEW v \in Creating'
               PROVE  /\ write'[v].row \in Rows \ page'.dropped /\ write'[v].g \in Groups
                      /\ write'[v].at \in {"sent", "ok", "error"}
                      /\ write'[v].at = "sent" => row'[write'[v].row] = "none"
                      /\ \A u \in Creating' : u = v \/ write'[u].row # write'[v].row
    BY DEF CreatesTrue
  <2>1. \A u \in Creating' : u \in Creating /\ write'[u].row = write[u].row
                             /\ write'[u].g = write[u].g
    BY <1>1, <1>2
  <2>2. /\ write[v].row \in Rows /\ write[v].g \in Groups
        /\ write[v].at \in {"sent", "ok", "error"}
        /\ \A u \in Creating : u = v \/ write[u].row # write[v].row
    BY <2>1 DEF PageInv, CreatesTrue
  <2>3. CASE v = w
    BY <1>1, <1>2, <2>1, <2>2, <2>3
  <2>4. CASE v # w
    BY <1>1, <1>2, <2>1, <2>2, <2>4
  <2>5. QED
    BY <2>3, <2>4
<1>8. ChangesTrue'
  <2> SUFFICES ASSUME NEW v \in Writes, write'[v].op \in {"delete", "change"}
               PROVE  /\ write'[v].row \in Rows
                      /\ write'[v].op = "delete" /\ write'[v].at = "ok" => row'[write'[v].row] = "gone"
    BY DEF ChangesTrue
  <2>1. CASE v = w
    <3>1. q.op = write[w].op /\ q.row = write[w].row
      BY <1>1, <2>1, Emptiness
    <3>2. QED
      BY <1>1, <2>1, <3>1 DEF PageInv, ChangesTrue
  <2>2. CASE v # w
    <3>1. /\ write[v].row \in Rows
          /\ write[v].op = "delete" /\ write[v].at = "ok" => row[write[v].row] = "gone"
      BY <1>1, <2>2 DEF PageInv, ChangesTrue
    <3>2. QED
      BY <1>1, <2>2, <3>1
  <2>3. QED
    BY <2>1, <2>2
<1>9. GroupsKept'
  <2> SUFFICES ASSUME Open(Kept) PROVE GroupsKept'
    BY DEF GroupsKept, Open
  <2>1. \A v \in Writes : write'[v].op = "change" => write'[v].g = "none"
    BY <1>1, Emptiness DEF PageInv, GroupsKept
  <2>2. ASSUME NEW v \in Creating'
        PROVE  /\ write'[v].at = "ok" => row'[write'[v].row] \in {write'[v].g, "gone"}
               /\ page'.tidy => write'[v].g = page'.ask
    <3>1. CASE v = w
      BY <1>1, <1>2, <2>2, <3>1 DEF PageInv, GroupsKept
    <3>2. CASE v # w
      <4>1. /\ write[v].at = "ok" => row[write[v].row] \in {write[v].g, "gone"}
            /\ page.tidy => write[v].g = page.ask
            /\ row'[write[v].row] \in {row[write[v].row], "gone"}
        BY <1>2, <2>2, <3>2 DEF PageInv, GroupsKept
      <4>2. QED
        BY <1>1, <1>2, <2>2, <3>2, <4>1
    <3>3. QED
      BY <3>1, <3>2
  <2>3. ASSUME NEW l \in Loading'
        PROVE  /\ load'[l].f \in Groups
               /\ \A y \in load'[l].rows : row'[y] \in {load'[l].f, "gone"}
    <3>1. /\ load[l].f \in Groups
          /\ \A y \in load[l].rows : row[y] \in {load[l].f, "gone"} /\ y \in Rows
      BY <1>3, <2>3, PageTyped DEF PageInv, GroupsKept, Load, Loading
    <3>2. "none" # load[l].f
      BY <3>1, PageTyped
    <3>3. QED
      BY <1>3, <3>1, <3>2
  <2>4. ASSUME page'.tidy, Loading' = {}, page'.failed => Open(Emptied)', NEW y \in Shown'
        PROVE  row'[y] \in {page'.ask, "gone"}
    <3>1. CASE y \in page.shown.rows
      <4>1. y \in Rows /\ row[y] \in {page.ask, "gone"} /\ page.ask # "none"
        BY <1>3, <2>4, <3>1, PageTyped DEF PageInv, GroupsKept, Shown, Page, Filters, Open
      <4>2. QED
        BY <4>1
    <3>2. CASE y \notin page.shown.rows
      BY <1>3, <2>4, <3>2 DEF Shown
    <3>3. QED
      BY <3>1, <3>2
  <2>5. QED
    BY <2>1, <2>2, <2>3, <2>4 DEF GroupsKept
<1>10. DroppedGone'
  BY <1>3 DEF DroppedGone, Shown
<1>11. QED
  BY <1>4, <1>5, <1>6, <1>7, <1>8, <1>9, <1>10 DEF PageInv

(* The rows and the page stay. *)
LEMMA WriteAlone ==
  ASSUME PageInv, NEW w \in Writes, NEW q \in Write, write[w].at # "none",
         write' = [write EXCEPT ![w] = q],
         q = NoWrite \/ (q.op = write[w].op /\ q.row = write[w].row /\ q.g = write[w].g),
         q.op = "create" => q.at = "error", q.op = "delete" => q.at \in {"sent", "error"},
         UNCHANGED <<page, row, load>>
  PROVE  PageInv'
<1>1. /\ page' = page /\ row' = row /\ load' = load /\ page' \in Page
      /\ row' \in [Rows -> Groups \cup {"none", "gone"}]
  BY PageTyped
<1>2. /\ \A v \in Creating \ {w} : write[v].at = "sent" => row'[write[v].row] = "none"
      /\ q.op = "create" => w \in Creating
  BY Emptiness DEF PageInv, CreatesTrue, Creating
<1>3. \A y \in page.dropped : /\ row[y] = "gone" /\ y \notin page.shown.rows
                              /\ \A l \in Loading : y \notin load[l].rows
                              /\ \A v \in Creating : write[v].row # y
  BY DEF PageInv, DroppedGone, CreatesTrue, Shown
<1>4. \A y \in page'.dropped : /\ row'[y] = "gone" /\ y \notin page'.shown.rows
                               /\ \A l \in Loading : y \notin load[l].rows
                               /\ \A v \in Creating \ {w} : write[v].row # y
                               /\ q.op = "create" => q.row # y
  BY <1>1, <1>2, <1>3, Emptiness
<1>5. QED
  BY <1>1, <1>2, <1>4, WritesPage

LEMMA WriteMoved ==
  ASSUME PageInv, NEW w \in Writes, NEW at \in {"sent", "ok", "error"}
  PROVE  LET q == [write[w] EXCEPT !.at = at]
         IN  /\ q \in Write /\ q.at = at
             /\ q.op = write[w].op /\ q.row = write[w].row /\ q.g = write[w].g
             /\ [write EXCEPT ![w].at = at] = [write EXCEPT ![w] = q]
  BY PageTyped DEF Write

LEMMA WriteOnlyPage ==
  ASSUME PageInv, NEW w \in Writes, write[w].at # "none",
         \/ Confirm(w) \/ Unconfirmed(w) \/ WriteLost(w) \/ ChangeAnswered(w) \/ WriteFailed(w)
         \/ Settle(w, "error") /\ UNCHANGED row
         \/ write[w].op = "change" /\ Settle(w, "ok") /\ UNCHANGED row
  PROVE  PageInv'
<1>1. UNCHANGED <<page, row, load>>
  BY DEF Confirm, Unconfirmed, WriteLost, ChangeAnswered, WriteFailed, WriteEnds, Settle
<1>2. CASE write' = [write EXCEPT ![w] = NoWrite]
  BY <1>1, <1>2, Emptiness, WriteAlone
<1>3. CASE Confirm(w)
  <2>1. write' = [write EXCEPT ![w].at = "sent"] /\ write[w].at = "asked"
    BY <1>3 DEF Confirm
  <2>2. write[w].op # "create"
    BY <2>1 DEF PageInv, CreatesTrue, Creating
  <2>3. DEFINE q == [write[w] EXCEPT !.at = "sent"]
  <2>4. /\ q \in Write /\ q.at = "sent" /\ write' = [write EXCEPT ![w] = q]
        /\ q.op = write[w].op /\ q.row = write[w].row /\ q.g = write[w].g
    BY <2>1, WriteMoved
  <2> HIDE DEF q
  <2>5. QED
    BY <1>1, <2>2, <2>4, WriteAlone
<1>4. CASE write' = [write EXCEPT ![w].at = "error"]
  <2>1. DEFINE q == [write[w] EXCEPT !.at = "error"]
  <2>2. /\ q \in Write /\ q.at = "error" /\ write' = [write EXCEPT ![w] = q]
        /\ q.op = write[w].op /\ q.row = write[w].row /\ q.g = write[w].g
    BY <1>4, WriteMoved
  <2> HIDE DEF q
  <2>3. QED
    BY <1>1, <2>2, WriteAlone
<1>5. CASE write[w].op = "change" /\ write' = [write EXCEPT ![w].at = "ok"]
  <2>1. DEFINE q == [write[w] EXCEPT !.at = "ok"]
  <2>2. /\ q \in Write /\ q.at = "ok" /\ write' = [write EXCEPT ![w] = q]
        /\ q.op = write[w].op /\ q.row = write[w].row /\ q.g = write[w].g
    BY <1>5, WriteMoved
  <2> HIDE DEF q
  <2>3. QED
    BY <1>1, <1>5, <2>2, WriteAlone
<1>6. QED
  BY <1>2, <1>3, <1>4, <1>5
  DEF Unconfirmed, WriteLost, ChangeAnswered, WriteFailed, WriteEnds, Settle

(* The server does what was asked. *)
LEMMA DroppedKept ==
  ASSUME PageInv, NEW w \in Writes
  PROVE  \A y \in page.dropped : /\ row[y] = "gone" /\ y \notin page.shown.rows /\ y \in Rows
                                 /\ \A l \in Loading : y \notin load[l].rows
                                 /\ \A v \in Creating : write[v].row # y
  BY PageTyped DEF PageInv, DroppedGone, CreatesTrue, Shown, Page

LEMMA ServeCreatePage ==
  ASSUME PageInv, NEW w \in Writes, ServeCreate(w)
  PROVE  PageInv'
<1>1. CASE Settle(w, "error") /\ UNCHANGED row
  BY <1>1, WriteOnlyPage DEF Settle
<1>2. CASE Settle(w, "ok") /\ row' = [row EXCEPT ![write[w].row] = write[w].g]
  <2>1. /\ write[w].at = "sent" /\ write' = [write EXCEPT ![w].at = "ok"]
        /\ UNCHANGED <<page, load>> /\ w \in Creating /\ write[w].op = "create"
    BY <1>2 DEF Settle, ServeCreate, Creating
  <2>2. /\ write[w].row \in Rows /\ write[w].g \in Groups /\ row[write[w].row] = "none"
        /\ \A v \in Creating : v = w \/ write[v].row # write[w].row
        /\ \A v \in Creating : write[v].row \in Rows /\ (write[v].at = "sent" => row[write[v].row] = "none")
    BY <2>1 DEF PageInv, CreatesTrue
  <2>3. /\ row' \in [Rows -> Groups \cup {"none", "gone"}] /\ row'[write[w].row] = write[w].g
        /\ \A y \in Rows \ {write[w].row} : row'[y] = row[y]
    BY <1>2, <2>2, PageTyped
  <2>4. DEFINE q == [write[w] EXCEPT !.at = "ok"]
  <2>5. /\ q \in Write /\ q.at = "ok" /\ write' = [write EXCEPT ![w] = q]
        /\ q.op = write[w].op /\ q.row = write[w].row /\ q.g = write[w].g
    BY <2>1, WriteMoved
  <2> HIDE DEF q
  <2>6. \A y \in Rows : row[y] = "gone" => row'[y] = "gone"
    BY <2>2, <2>3
  <2>7. \A v \in Creating \ {w} : row'[write[v].row] = row[write[v].row]
    BY <2>2, <2>3
  <2>8. \A v \in Creating \ {w} : write[v].at = "sent" => row'[write[v].row] = "none"
    BY <2>2, <2>7
  <2>9. \A y \in Rows : row[y] \in {"none", row'[y]} \/ row'[y] = "gone"
    BY <2>2, <2>3
  <2>10. \A y \in page'.dropped : /\ row'[y] = "gone" /\ y \notin page'.shown.rows
                                  /\ \A l \in Loading : y \notin load[l].rows
                                  /\ \A v \in Creating \ {w} : write[v].row # y
                                  /\ q.op = "create" => q.row # y
    BY <2>1, <2>5, <2>6, DroppedKept
  <2>11. page' \in Page /\ page' = page
    BY <2>1, PageTyped
  <2>12. Open(Kept) =>
           /\ \A y \in Rows : row[y] \in {"none", row'[y]} \/ row'[y] = "gone"
           /\ \A v \in Creating \ {w} : row'[write[v].row] \in {row[write[v].row], "gone"}
           /\ q.op = "create" /\ q.at = "ok" => row'[q.row] \in {q.g, "gone"}
           /\ page.tidy /\ Loading = {} =>
                \A y \in page'.shown.rows \ page.shown.rows : row'[y] \in {page.ask, "gone"}
    BY <2>3, <2>5, <2>7, <2>9, <2>11
  <2>13. /\ write[w].at # "none" /\ q.op = "create" /\ q.at = "ok" /\ UNCHANGED load
         /\ page'.kind = page.kind /\ page'.ask = page.ask /\ page'.tidy = page.tidy
         /\ page'.failed = page.failed /\ page'.shown.f = page.shown.f
    BY <2>1, <2>5
  <2>14. QED
    BY <2>3, <2>5, <2>6, <2>8, <2>10, <2>11, <2>12, <2>13, WritesPage
<1>3. QED
  BY <1>1, <1>2 DEF ServeCreate

(* A row that is there gets another group, or is deleted. *)
LEMMA ServeOthersPage ==
  ASSUME PageInv, NEW w \in Writes, ServeDelete(w) \/ ServeChange(w)
  PROVE  PageInv'
<1>1. CASE Settle(w, "error") /\ UNCHANGED row
  BY <1>1, WriteOnlyPage DEF Settle
<1>2. CASE write[w].op = "change" /\ Settle(w, "ok") /\ UNCHANGED row
  BY <1>2, WriteOnlyPage DEF Settle
<1>3. ASSUME NEW g \in Groups \cup {"gone"}, Settle(w, "ok"),
             row' = [row EXCEPT ![write[w].row] = g], row[write[w].row] \in Groups,
             \/ write[w].op = "delete" /\ g = "gone"
             \/ write[w].op = "change" /\ write[w].g # "none"
      PROVE  PageInv'
  <2>1. /\ write[w].at = "sent" /\ write' = [write EXCEPT ![w].at = "ok"]
        /\ UNCHANGED <<page, load>> /\ write[w].row \in Rows
    BY <1>3 DEF Settle, PageInv, ChangesTrue
  <2>2. \A v \in Creating : /\ write[v].row \in Rows
                            /\ write[v].at = "sent" => row[write[v].row] = "none"
    BY DEF PageInv, CreatesTrue
  <2>3. /\ row' \in [Rows -> Groups \cup {"none", "gone"}] /\ row'[write[w].row] = g
        /\ \A y \in Rows \ {write[w].row} : row'[y] = row[y]
    BY <1>3, <2>1, PageTyped
  <2>4. DEFINE q == [write[w] EXCEPT !.at = "ok"]
  <2>5. /\ q \in Write /\ q.at = "ok" /\ write' = [write EXCEPT ![w] = q]
        /\ q.op = write[w].op /\ q.row = write[w].row /\ q.g = write[w].g
    BY <2>1, WriteMoved
  <2> HIDE DEF q
  <2>6. \A y \in Rows : row[y] \in {"none", "gone"} => row'[y] = row[y]
    BY <1>3, <2>3, PageTyped
  <2>7. \A v \in Creating \ {w} : write[v].at = "sent" => row'[write[v].row] = "none"
    BY <2>2, <2>6
  <2>8. \A y \in page'.dropped : /\ row'[y] = "gone" /\ y \notin page'.shown.rows
                                 /\ \A l \in Loading : y \notin load[l].rows
                                 /\ \A v \in Creating \ {w} : write[v].row # y
                                 /\ q.op = "create" => q.row # y
    BY <1>3, <2>1, <2>5, <2>6, DroppedKept
  <2>9. page' \in Page /\ page' = page
    BY <2>1, PageTyped
  <2>10. Open(Kept) =>
           /\ \A y \in Rows : row'[y] \in {row[y], "gone"}
           /\ \A v \in Creating \ {w} : row'[write[v].row] \in {row[write[v].row], "gone"}
    <3>1. Open(Kept) => g = "gone"
      BY <1>3, PageTyped DEF PageInv, GroupsKept
    <3>2. QED
      BY <2>2, <2>3, <3>1
  <2>11. q.op # "create"
    BY <1>3, <2>5
  <2>12. q.op = "delete" => row'[q.row] = "gone"
    BY <1>3, <2>3, <2>5
  <2>13. Open(Kept) =>
           /\ \A y \in Rows : row[y] \in {"none", row'[y]} \/ row'[y] = "gone"
           /\ \A v \in Creating \ {w} : row'[write[v].row] \in {row[write[v].row], "gone"}
           /\ q.op = "create" /\ q.at = "ok" => row'[q.row] \in {q.g, "gone"}
           /\ page.tidy /\ Loading = {} =>
                \A y \in page'.shown.rows \ page.shown.rows : row'[y] \in {page.ask, "gone"}
    BY <2>9, <2>10, <2>11
  <2>14. /\ write[w].at # "none" /\ UNCHANGED load
         /\ page'.kind = page.kind /\ page'.ask = page.ask /\ page'.tidy = page.tidy
         /\ page'.failed = page.failed /\ page'.shown.f = page.shown.f
    BY <2>1
  <2>15. \A y \in Rows : row[y] = "gone" => row'[y] = "gone"
    BY <2>6
  <2>16. QED
    BY <2>3, <2>5, <2>7, <2>8, <2>9, <2>11, <2>12, <2>13, <2>14, <2>15, WritesPage
<1>4. CASE ServeDelete(w) /\ row[write[w].row] \in Groups
  <2>1. /\ Settle(w, "ok") /\ row' = [row EXCEPT ![write[w].row] = "gone"]
        /\ write[w].op = "delete"
    BY <1>4 DEF ServeDelete
  <2>2. QED
    BY <1>3, <1>4, <2>1
<1>5. CASE ServeChange(w) /\ row[write[w].row] \in Groups
  <2>1. /\ Settle(w, "ok") /\ write[w].op = "change"
        /\ row' = [row EXCEPT ![write[w].row] = IF write[w].g = "none" THEN @
                                               ELSE write[w].g]
    BY <1>5 DEF ServeChange
  <2>2. CASE write[w].g = "none"
    <3>1. row' = row
      BY <2>1, <2>2, PageTyped
    <3>2. QED
      BY <1>2, <2>1, <3>1
  <2>3. CASE write[w].g # "none"
    <3>1. write[w].g \in Groups
      BY <2>3, PageTyped DEF Write
    <3>2. row' = [row EXCEPT ![write[w].row] = write[w].g]
      BY <2>1, <2>3
    <3>3. QED
      BY <1>3, <1>5, <2>1, <2>3, <3>1, <3>2
  <2>4. QED
    BY <2>2, <2>3
<1>6. QED
  BY <1>1, <1>4, <1>5 DEF ServeDelete, ServeChange

(* Other users. *)
LEMMA OthersChangePage ==
  ASSUME PageInv, NEW x \in Rows, OthersChange(x)
  PROVE  PageInv'
<1>1. PICK g \in Groups \cup {"gone"} :
        /\ Open(Kept) => row[x] = "none" \/ g = "gone"
        /\ row' = [row EXCEPT ![x] = g]
  BY DEF OthersChange
<1>2. /\ UNCHANGED <<page, load, write>> /\ row[x] # "gone" /\ page.kind # "none"
      /\ \A w \in Creating : write[w].row # x
  BY DEF OthersChange, Open
<1>3. /\ row' \in [Rows -> Groups \cup {"none", "gone"}] /\ row'[x] = g
      /\ \A y \in Rows \ {x} : row'[y] = row[y]
  BY <1>1, PageTyped
<1>4. \A y \in Rows : row[y] = "gone" => row'[y] = "gone"
  BY <1>2, <1>3
<1>5. Creating' = Creating /\ Loading' = Loading
  BY <1>2 DEF Creating, Loading
<1>6. \A w \in Creating : write[w].row \in Rows /\ row'[write[w].row] = row[write[w].row]
  BY <1>2, <1>3 DEF PageInv, CreatesTrue
<1>7. PageTypeOK'
  BY <1>2, <1>3, PageTyped DEF PageTypeOK
<1>8. NothingOpen' /\ LoadsAsked'
  BY <1>2, <1>5 DEF PageInv, NothingOpen, LoadsAsked, Open
<1>9. CreatesTrue'
  BY <1>2, <1>5, <1>6 DEF PageInv, CreatesTrue
<1>10. ChangesTrue'
  BY <1>2, <1>4 DEF PageInv, ChangesTrue
<1>11. GroupsKept'
  <2> SUFFICES ASSUME Open(Kept) PROVE GroupsKept'
    BY <1>2 DEF GroupsKept, Open
  <2>1. \A y \in Rows : row[y] \in {"none", row'[y]} \/ row'[y] = "gone"
    BY <1>1, <1>3
  <2>2. ASSUME NEW l \in Loading
        PROVE  /\ load[l].f \in Groups
               /\ \A y \in load[l].rows : row'[y] \in {load[l].f, "gone"}
    <3>1. /\ load[l].f \in Groups /\ load[l].f # "none"
          /\ \A y \in load[l].rows : row[y] \in {load[l].f, "gone"} /\ y \in Rows
      BY PageTyped DEF PageInv, GroupsKept, Load, Loading
    <3>2. QED
      BY <2>1, <3>1
  <2>3. ASSUME page.tidy, Loading = {}, page.failed => Open(Emptied), NEW y \in Shown
        PROVE  row'[y] \in {page.ask, "gone"}
    <3>1. y \in Rows /\ row[y] \in {page.ask, "gone"} /\ page.ask # "none"
      BY <2>3, PageTyped DEF PageInv, GroupsKept, Shown, Page, Filters
    <3>2. QED
      BY <2>1, <3>1
  <2>4. /\ \A w \in Writes : write[w].op = "change" => write[w].g = "none"
        /\ \A w \in Creating : /\ write[w].at = "ok" => row'[write[w].row] \in {write[w].g, "gone"}
                               /\ page.tidy => write[w].g = page.ask
    BY <1>6 DEF PageInv, GroupsKept
  <2>5. QED
    BY <1>2, <1>5, <2>2, <2>3, <2>4 DEF GroupsKept, Shown, Open
<1>12. DroppedGone'
  BY <1>2, <1>4, <1>5, DroppedKept DEF PageInv, DroppedGone, Shown, Page, PageTypeOK
<1>13. QED
  BY <1>7, <1>8, <1>9, <1>10, <1>11, <1>12 DEF PageInv

(* The answers that change the list. *)
LEMMA CreateAnsweredPage ==
  ASSUME PageInv, NEW w \in Writes, CreateAnswered(w)
  PROVE  PageInv'
<1>1. /\ write[w].op = "create" /\ write[w].at = "ok" /\ w \in Creating
      /\ page' = [page EXCEPT !.shown.rows = @ \cup {write[w].row}]
      /\ write' = [write EXCEPT ![w] = NoWrite] /\ UNCHANGED <<row, load>>
  BY DEF CreateAnswered, WriteEnds, Creating
<1>2. /\ write[w].row \in Rows /\ write[w].row \notin page.dropped
      /\ \A v \in Creating : write[v].at = "sent" => row[write[v].row] = "none"
  BY <1>1 DEF PageInv, CreatesTrue
<1>3. /\ page' \in Page /\ page'.kind = page.kind /\ page'.ask = page.ask
      /\ page'.tidy = page.tidy /\ page'.failed = page.failed /\ page'.dropped = page.dropped
      /\ page'.shown.f = page.shown.f
      /\ page'.shown.rows = page.shown.rows \cup {write[w].row}
  BY <1>1, <1>2, PageTyped DEF Page
<1>4. Open(Kept) /\ page.tidy =>
        row[write[w].row] \in {page.ask, "gone"}
  BY <1>1 DEF PageInv, GroupsKept
<1>5. \A y \in page'.dropped : /\ row'[y] = "gone" /\ y \notin page'.shown.rows
                               /\ \A l \in Loading : y \notin load[l].rows
                               /\ \A v \in Creating \ {w} : write[v].row # y
                               /\ NoWrite.op = "create" => NoWrite.row # y
  BY <1>1, <1>2, <1>3, DroppedKept, Emptiness
<1>6. Open(Kept) =>
        /\ \A y \in Rows : row[y] \in {"none", row'[y]} \/ row'[y] = "gone"
        /\ \A v \in Creating \ {w} : row'[write[v].row] \in {row[write[v].row], "gone"}
        /\ NoWrite.op = "create" /\ NoWrite.at = "ok" => row'[NoWrite.row] \in {NoWrite.g, "gone"}
        /\ page.tidy /\ Loading = {} =>
             \A y \in page'.shown.rows \ page.shown.rows : row'[y] \in {page.ask, "gone"}
  BY <1>1, <1>3, <1>4, Emptiness
<1>7. /\ row' \in [Rows -> Groups \cup {"none", "gone"}]
      /\ \A y \in Rows : row[y] = "gone" => row'[y] = "gone"
      /\ \A v \in Creating \ {w} : write[v].at = "sent" => row'[write[v].row] = "none"
  BY <1>1, <1>2, PageTyped
<1>8. /\ NoWrite \in Write /\ write[w].at # "none"
      /\ NoWrite.op # "create" /\ NoWrite.op # "delete"
  BY <1>1, Emptiness
<1>9. QED
  BY <1>1, <1>3, <1>5, <1>6, <1>7, <1>8, WritesPage

LEMMA DeleteAnsweredPage ==
  ASSUME PageInv, NEW w \in Writes, DeleteAnswered(w)
  PROVE  PageInv'
<1>1. /\ write[w].op = "delete" /\ write[w].at = "ok"
      /\ write' = [write EXCEPT ![w] = NoWrite] /\ UNCHANGED <<row, load>>
      /\ page' = [page EXCEPT
           !.shown.rows = @ \ {write[w].row},
           !.dropped = IF /\ \A l \in Loading : write[w].row \notin load[l].rows
                          /\ \A v \in Creating : write[v].row # write[w].row
                       THEN @ \cup {write[w].row} ELSE @]
  BY DEF DeleteAnswered, WriteEnds
<1>2. /\ write[w].row \in Rows /\ row[write[w].row] = "gone"
      /\ \A v \in Creating : write[v].at = "sent" => row[write[v].row] = "none"
  BY <1>1 DEF PageInv, ChangesTrue, CreatesTrue
<1>3. /\ page' \in Page /\ page'.kind = page.kind /\ page'.ask = page.ask
      /\ page'.tidy = page.tidy /\ page'.failed = page.failed
      /\ page'.shown.f = page.shown.f
      /\ page'.shown.rows = page.shown.rows \ {write[w].row}
      /\ page'.dropped = IF /\ \A l \in Loading : write[w].row \notin load[l].rows
                            /\ \A v \in Creating : write[v].row # write[w].row
                         THEN page.dropped \cup {write[w].row} ELSE page.dropped
  BY <1>1, <1>2, PageTyped DEF Page
<1>4. \A y \in page'.dropped : /\ row'[y] = "gone" /\ y \notin page'.shown.rows
                               /\ \A l \in Loading : y \notin load[l].rows
                               /\ \A v \in Creating \ {w} : write[v].row # y
                               /\ NoWrite.op = "create" => NoWrite.row # y
  BY <1>1, <1>2, <1>3, DroppedKept, Emptiness
<1>5. Open(Kept) =>
        /\ \A y \in Rows : row[y] \in {"none", row'[y]} \/ row'[y] = "gone"
        /\ \A v \in Creating \ {w} : row'[write[v].row] \in {row[write[v].row], "gone"}
        /\ NoWrite.op = "create" /\ NoWrite.at = "ok" => row'[NoWrite.row] \in {NoWrite.g, "gone"}
        /\ page.tidy /\ Loading = {} =>
             \A y \in page'.shown.rows \ page.shown.rows : row'[y] \in {page.ask, "gone"}
  BY <1>1, <1>3, Emptiness
<1>6. /\ row' \in [Rows -> Groups \cup {"none", "gone"}]
      /\ \A y \in Rows : row[y] = "gone" => row'[y] = "gone"
      /\ \A v \in Creating \ {w} : write[v].at = "sent" => row'[write[v].row] = "none"
  BY <1>1, <1>2, PageTyped
<1>7. /\ NoWrite \in Write /\ write[w].at # "none"
      /\ NoWrite.op # "create" /\ NoWrite.op # "delete"
  BY <1>1, Emptiness
<1>8. /\ page' \in Page /\ page'.kind = page.kind /\ page'.ask = page.ask
      /\ page'.tidy = page.tidy /\ page'.failed = page.failed
      /\ page'.shown.f = page.shown.f /\ UNCHANGED load
      /\ write' = [write EXCEPT ![w] = NoWrite]
  BY <1>1, <1>3
<1>9. QED
  BY <1>4, <1>5, <1>6, <1>7, <1>8, WritesPage

(* The controls of the pages. *)
LEMMA LoadsPage ==
  ASSUME PageInv, NEW l \in Loads, NEW f \in Groups \cup {"all"},
         \/ LoadContracts(l, f) \/ LoadMatters(l, f) \/ SelectMatter(l, f)
         \/ LoadTasks(l, f) \/ LoadAuditLogs(l, f) \/ LoadComments(l, f)
         \/ LoadAll(l, f) \/ Search(l, f)
  PROVE  PageInv'
<1>1. /\ Asks(l, f) /\ page.kind # "none"
      /\ page.kind = "documents" => SelectMatter(l, f)
      /\ page.kind = "comments" => LoadComments(l, f)
  BY DEF LoadContracts, LoadMatters, SelectMatter, LoadTasks, LoadAuditLogs, AuditLog,
         LoadComments, LoadAll, Search, Open
<1>2. Open(Kept) => f \in Groups
  BY <1>1 DEF Open, Kept, SelectMatter, LoadComments
<1>3. QED
  BY <1>1, <1>2, AsksPage

LEMMA LoadsAllPage ==
  ASSUME PageInv, NEW l \in Loads, LoadWebhooks(l)
  PROVE  PageInv'
<1>1. Asks(l, "all") /\ page.kind # "none" /\ ~Open(Kept)
  BY DEF LoadWebhooks, WebhooksTab, Ready, Open, Kept
<1>2. QED
  BY <1>1, AsksPage

LEMMA AddsPage ==
  ASSUME PageInv, NEW w \in Writes, NEW g \in Groups, Adds(w, g), page.kind # "none",
         Open(Kept) => g = page.ask
  PROVE  PageInv'
<1>1. PICK x \in Rows : /\ row[x] = "none"
                        /\ \A v \in Creating : write[v].row # x
                        /\ Begins(w, "sent", "create", x, g)
  BY DEF Adds
<1>2. QED
  BY <1>1, BeginsPage

LEMMA CreatesPage ==
  ASSUME PageInv, NEW w \in Writes,
         \/ Upload(w) \/ SubmitComment(w)
         \/ \E g \in Groups :
              \/ CreateContract(w, g) \/ CreateMatter(w, g) \/ CreateWebhook(w, g)
              \/ InviteMember(w, g) \/ InviteByAdmin(w, g)
  PROVE  PageInv'
<1>1. CASE Upload(w) \/ SubmitComment(w)
  <2>1. page.ask \in Groups /\ Adds(w, page.ask) /\ page.kind # "none"
    BY <1>1 DEF Upload, SubmitComment, CommentList, Ready, Open
  <2>2. QED
    BY <2>1, AddsPage
<1>2. ASSUME NEW g \in Groups,
             \/ CreateContract(w, g) \/ CreateMatter(w, g) \/ CreateWebhook(w, g)
             \/ InviteMember(w, g) \/ InviteByAdmin(w, g)
      PROVE  PageInv'
  <2>1. Adds(w, g) /\ page.kind # "none" /\ ~Open(Kept)
    BY <1>2 DEF CreateContract, CreateMatter, CreateWebhook, InviteMember,
                InviteByAdmin, WebhooksTab, MembersTab, AdminPage, Ready, Open, Kept
  <2>2. QED
    BY <2>1, AddsPage
<1>3. QED
  BY <1>1, <1>2

LEMMA DropsPage ==
  ASSUME PageInv, NEW w \in Writes,
         \/ DeleteContract(w) \/ DeleteMatter(w) \/ DeleteDocument(w) \/ RemoveByAdmin(w)
         \/ DeleteComment(w) \/ RemoveMember(w) \/ DeleteWebhook(w)
  PROVE  PageInv'
<1>1. PICK at \in {"asked", "sent"} : Drops(w, at)
  BY DEF DeleteContract, DeleteMatter, DeleteDocument, RemoveByAdmin, DeleteComment,
         RemoveMember, DeleteWebhook
<1>2. page.kind # "none"
  BY DEF DeleteContract, DeleteMatter, DeleteDocument, RemoveByAdmin, DeleteComment,
         RemoveMember, DeleteWebhook, DocumentList, AdminPage, CommentList, MembersTab,
         WebhooksTab, Ready, Open
<1>3. PICK x \in Shown : Begins(w, at, "delete", x, "none")
  BY <1>1 DEF Drops
<1>4. x \in Rows
  BY PageTyped DEF Shown, Page
<1>5. QED
  BY <1>2, <1>3, <1>4, BeginsPage

LEMMA ChangesPage ==
  ASSUME PageInv, NEW w \in Writes,
         ToggleTask(w) \/ ToggleMatterTask(w) \/ ToggleWebhook(w) \/ SaveEdit(w)
  PROVE  PageInv'
<1>1. /\ (Changes(w, Groups) /\ ~Open(Kept)) \/ Changes(w, {"none"})
      /\ page.kind # "none"
  BY DEF ToggleTask, ToggleMatterTask, ToggleWebhook, SaveEdit, TaskList, WebhooksTab,
         CommentList, Ready, Open, Kept
<1>2. PICK x \in Shown, g \in Groups \cup {"none"} :
        Begins(w, "sent", "change", x, g) /\ (Open(Kept) => g = "none")
  BY <1>1 DEF Changes
<1>3. x \in Rows
  BY PageTyped DEF Shown, Page
<1>4. QED
  BY <1>1, <1>2, <1>3, BeginsPage

LEMMA PageActs == PageInv /\ PageAct => PageInv'
<1> SUFFICES ASSUME PageInv, PageAct PROVE PageInv'
  OBVIOUS
<1>1. CASE \E l \in Loads :
             \/ \E k \in Kinds, f \in Filters : Opens(l, k, f)
             \/ \E f \in Groups \cup {"all"} :
                  \/ LoadContracts(l, f) \/ LoadMatters(l, f) \/ SelectMatter(l, f)
                  \/ LoadTasks(l, f) \/ LoadAuditLogs(l, f) \/ LoadComments(l, f)
                  \/ LoadAll(l, f) \/ Search(l, f)
             \/ LoadWebhooks(l) \/ LoadFails(l)
  BY <1>1, OpensPage, LoadsPage, LoadsAllPage, LoadedPage
<1>2. CASE \E w \in Writes :
             \/ \E g \in Groups :
                  \/ CreateContract(w, g) \/ CreateMatter(w, g) \/ CreateWebhook(w, g)
                  \/ InviteMember(w, g) \/ InviteByAdmin(w, g)
             \/ Upload(w) \/ SubmitComment(w) \/ DeleteContract(w) \/ DeleteMatter(w) \/ DeleteDocument(w)
             \/ RemoveByAdmin(w) \/ DeleteComment(w) \/ RemoveMember(w) \/ DeleteWebhook(w)
             \/ ToggleTask(w) \/ ToggleMatterTask(w) \/ ToggleWebhook(w) \/ SaveEdit(w)
             \/ WriteLost(w)
  <2>1. ASSUME NEW w \in Writes, WriteLost(w) PROVE PageInv'
    BY <2>1, WriteOnlyPage DEF WriteLost
  <2>2. QED
    BY <1>2, <2>1, CreatesPage, DropsPage, ChangesPage
<1>3. CASE \E x \in Rows : OthersChange(x)
  BY <1>3, OthersChangePage
<1>4. QED
  BY <1>1, <1>2, <1>3 DEF PageAct

LEMMA PageReplies == PageInv /\ PageReply => PageInv'
<1> SUFFICES ASSUME PageInv, PageReply PROVE PageInv'
  OBVIOUS
<1>1. ASSUME NEW w \in Writes,
             Confirm(w) \/ Unconfirmed(w) \/ ChangeAnswered(w) \/ WriteFailed(w)
      PROVE  PageInv'
  <2>1. write[w].at # "none"
    BY <1>1 DEF Confirm, Unconfirmed, ChangeAnswered, WriteFailed
  <2>2. QED
    BY <1>1, <2>1, WriteOnlyPage
<1>2. QED
  BY <1>1, LoadedPage, CreateAnsweredPage, DeleteAnsweredPage DEF PageReply

LEMMA ServesPage == ASSUME PageInv, NEW x, Serves(x) PROVE PageInv'
  BY ServerReadsPage, ServeCreatePage, ServeOthersPage DEF Serves

LEMMA PageStays == PageInv /\ UNCHANGED pageVars => PageInv'
<1> SUFFICES ASSUME PageInv, UNCHANGED <<page, row, load, write>> PROVE PageInv'
  BY DEF pageVars
<1>1. PageTypeOK' /\ NothingOpen' /\ LoadsAsked'
  BY DEF PageInv, PageTypeOK, NothingOpen, LoadsAsked, Loading, Open
<1>2. CreatesTrue' /\ ChangesTrue'
  BY DEF PageInv, CreatesTrue, ChangesTrue, Creating
<1>3. GroupsKept' /\ DroppedGone'
  BY DEF PageInv, GroupsKept, DroppedGone, Open, Loading, Creating, Shown
<1>4. QED
  BY <1>1, <1>2, <1>3 DEF PageInv

(* A page that is left is as if it had never been opened. *)
LEMMA LeavesPage == Leaves => PageInv'
<1>1. Leaves => PageInit'
  BY DEF Leaves, PageInit, NoRows, NoLoads, NoWrites
<1>2. PageInit' => PageInv'
  BY PageStarts, PTL
<1>3. QED
  BY <1>1, <1>2

LEMMA PageSteps == PageInv /\ [WebNext]_webVars => PageInv'
<1> SUFFICES ASSUME PageInv, [WebNext]_webVars PROVE PageInv'
  OBVIOUS
<1>1. CASE SessionStep
  BY <1>1, LeavesPage, PageStays DEF SessionStep
<1>2. CASE PageStep
  BY <1>2, PageActs, PageReplies, ServesPage DEF PageStep
<1>3. CASE LeavePage
  BY <1>3, LeavesPage DEF LeavePage
<1>4. CASE \E x \in Slots : Unauthorized(x)
  BY <1>4, LeavesPage DEF Unauthorized
<1>5. CASE UNCHANGED webVars
  BY <1>5, PageStays DEF webVars
<1>6. QED
  BY <1>1, <1>2, <1>3, <1>4, <1>5 DEF WebNext

LEMMA PageInvariant == WebSpec => []PageInv
<1>1. WebInit => PageInv
  BY PageStarts DEF WebInit
<1>2. QED
  BY <1>1, PageSteps, PTL DEF WebSpec

\* The state of the client is well-typed, that of the tab and that of its page.
THEOREM WebTypeCorrect == WebSpec => []WebTypeOK
<1>1. WebInit => WebTypeOK
  <2>1. WebInit => SessionInv /\ PageInv
    BY SessionStarts, PageStarts DEF WebInit
  <2>2. WebInit => auth \in [Slots -> Some]
    BY WebSessionAssumption DEF WebInit, Some, None
  <2>3. QED
    BY <2>1, <2>2 DEF WebTypeOK, SessionInv, PageInv
<1>2. ASSUME WebTypeOK, SessionInv, SessionInv', PageInv', [WebNext]_webVars
      PROVE  WebTypeOK'
  <2>1. SessionTypeOK' /\ PageTypeOK'
    BY <1>2 DEF SessionInv, PageInv
  <2>2. auth \in [Slots -> Some] /\ None \in Some /\ tab.token \in Some
    BY <1>2, TabTyped DEF WebTypeOK
  <2>3. Carries => auth' \in [Slots -> Some]
    BY <2>2 DEF Carries
  <2>4. Leaves => auth' \in [Slots -> Some]
    BY <2>2 DEF Leaves
  <2>5. auth' = auth \/ Carries \/ Leaves
    BY <1>2 DEF WebNext, SessionStep, PageStep, LeavePage, Unauthorized, webVars
  <2>6. QED
    BY <2>1, <2>2, <2>3, <2>4, <2>5 DEF WebTypeOK
<1>3. QED
  BY <1>1, <1>2, SessionInvariant, PageInvariant, PTL DEF WebSpec

\* Whichever answers came in between, documents and search show the answer to what
\* was asked last, and so does any other page whose last request met none for another
\* filter and no creation (switchMap, onFileSelected, the load() of the pages).
THEOREM ShownAsAsked == WebSpec => []ShowsWhatWasAsked
<1>1. PageInv => ShowsWhatWasAsked
  BY DEF PageInv, LoadsAsked, GroupsKept, ShowsWhatWasAsked
<1>2. QED
  BY <1>1, PageInvariant, PTL

\* No answer that the server gives after a deletion was confirmed, and no answer to a
\* change, brings the row back (the deletion handlers of the pages).
THEOREM DeletionsStay == WebSpec => []DeletedStaysAway
<1>1. PageInv => DeletedStaysAway
  BY DEF PageInv, DroppedGone, DeletedStaysAway
<1>2. QED
  BY <1>1, PageInvariant, PTL

=============================================================================
