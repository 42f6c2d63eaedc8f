-------------------------- MODULE MembershipProofs --------------------------
(***************************************************************************)
(* Membership for every finite set of users and of overlapping requests,   *)
(* every cap and limit, and every number of transfers and returns.         *)
(***************************************************************************)
EXTENDS Membership, FiniteSetTheorems, TLAPS

(* A set that loses an element or more, and one that gains one at most. *)
LEMMA Smaller ==
  ASSUME NEW S, IsFiniteSet(S), NEW T \in SUBSET S
  PROVE  /\ IsFiniteSet(T) /\ Cardinality(T) \in Nat /\ Cardinality(S) \in Nat
         /\ Cardinality(T) <= Cardinality(S)
  BY FS_Subset, FS_CardinalityType

LEMMA OneLess ==
  ASSUME NEW S, IsFiniteSet(S), NEW x \in S, NEW T \in SUBSET (S \ {x})
  PROVE  /\ IsFiniteSet(T) /\ Cardinality(T) \in Nat /\ Cardinality(S) \in Nat
         /\ Cardinality(T) <= Cardinality(S) - 1
<1>1. IsFiniteSet(S \ {x}) /\ Cardinality(S \ {x}) = Cardinality(S) - 1
  BY FS_RemoveElement
<1>2. QED
  BY <1>1, Smaller, FS_CardinalityType

LEMMA OneMore ==
  ASSUME NEW S, IsFiniteSet(S), NEW x, NEW T \in SUBSET (S \cup {x})
  PROVE  /\ IsFiniteSet(T) /\ Cardinality(T) \in Nat /\ Cardinality(S) \in Nat
         /\ Cardinality(T) <= Cardinality(S) + 1
<1>1. IsFiniteSet(S \cup {x}) /\ Cardinality(S) \in Nat
  BY FS_AddElement, FS_CardinalityType
<1>2. Cardinality(S \cup {x}) = IF x \in S THEN Cardinality(S) ELSE Cardinality(S) + 1
  BY FS_AddElement
<1>3. Cardinality(T) <= Cardinality(S \cup {x}) /\ Cardinality(T) \in Nat
      /\ IsFiniteSet(T) /\ Cardinality(S \cup {x}) \in Nat
  BY <1>1, Smaller
<1>4. QED
  BY <1>1, <1>2, <1>3

(* What the counts are taken of is finite. *)
LEMMA Finite ==
  /\ IsFiniteSet(Users) /\ IsFiniteSet(Admins) /\ IsFiniteSet(Members)
  /\ IsFiniteSet(Requests) /\ IsFiniteSet(Promoting) /\ IsFiniteSet(Joining)
  /\ IsFiniteSet(Newcomers \ fresh)
  /\ Cardinality(Requests) \in Nat /\ Cardinality(Requests) >= 1
<1>1. IsFiniteSet(Users) /\ IsFiniteSet(Requests) /\ Requests # {}
      /\ (Newcomers \ fresh) \in SUBSET Users
  BY MembershipAssumption
<1>2. /\ Admins \in SUBSET Users /\ Members \in SUBSET Users
      /\ Promoting \in SUBSET Requests /\ Joining \in SUBSET Requests
  BY DEF Admins, Members, Promoting, Joining
<1>3. Cardinality(Requests) \in Nat /\ Cardinality(Requests) # 0
  BY <1>1, FS_CardinalityType, FS_EmptySet
<1>4. QED
  BY <1>1, <1>2, <1>3, FS_Subset

-----------------------------------------------------------------------------
(* The two counts *)

(* No admin more, and no request more that will make one. *)
LEMMA AdminsKept ==
  ASSUME IInv, Admins' \in SUBSET Admins, Promoting' \in SUBSET Promoting,
         transfers' = transfers
  PROVE  AdminsCounted'
<1>1. PICK A, P : A = Admins' /\ P = Promoting'
  OBVIOUS
<1>2. /\ Cardinality(A) <= Cardinality(Admins) /\ Cardinality(A) \in Nat
      /\ Cardinality(P) <= Cardinality(Promoting) /\ Cardinality(P) \in Nat
      /\ Cardinality(Admins) \in Nat /\ Cardinality(Promoting) \in Nat
  BY <1>1, Finite, Smaller
<1>3. AdminsCounted /\ transfers \in Nat /\ AdminCap \in Nat
  BY MembershipAssumption DEF IInv, TypeOK
<1>4. Cardinality(A) + Cardinality(P) <= AdminCap - 1 + Cardinality(Requests) + transfers
  BY <1>2, <1>3, Finite DEF AdminsCounted
<1>5. QED
  BY <1>1, <1>4 DEF AdminsCounted

(* A request that was counted makes an admin. *)
LEMMA AdminMade ==
  ASSUME IInv, NEW u, NEW r \in Promoting, Admins' \in SUBSET (Admins \cup {u}),
         Promoting' \in SUBSET (Promoting \ {r}), transfers' = transfers
  PROVE  AdminsCounted'
<1>1. PICK A, P : A = Admins' /\ P = Promoting'
  OBVIOUS
<1>2. /\ Cardinality(A) <= Cardinality(Admins) + 1 /\ Cardinality(A) \in Nat
      /\ Cardinality(Admins) \in Nat
  BY <1>1, Finite, OneMore
<1>3. /\ Cardinality(P) <= Cardinality(Promoting) - 1 /\ Cardinality(P) \in Nat
      /\ Cardinality(Promoting) \in Nat
  BY <1>1, Finite, OneLess
<1>4. AdminsCounted /\ transfers \in Nat /\ AdminCap \in Nat
  BY MembershipAssumption DEF IInv, TypeOK
<1>5. Cardinality(A) + Cardinality(P) <= AdminCap - 1 + Cardinality(Requests) + transfers
  BY <1>2, <1>3, <1>4, Finite DEF AdminsCounted
<1>6. QED
  BY <1>1, <1>5 DEF AdminsCounted

LEMMA MembersKept ==
  ASSUME IInv, Members' \in SUBSET Members, Joining' \in SUBSET Joining,
         fresh' = fresh
  PROVE  MembersCounted'
<1>1. PICK M, J : M = Members' /\ J = Joining'
  OBVIOUS
<1>2. /\ Cardinality(M) <= Cardinality(Members) /\ Cardinality(M) \in Nat
      /\ Cardinality(J) <= Cardinality(Joining) /\ Cardinality(J) \in Nat
      /\ Cardinality(Members) \in Nat /\ Cardinality(Joining) \in Nat
  BY <1>1, Finite, Smaller
<1>3. MembersCounted /\ MemberLimit \in Nat /\ Cardinality(Newcomers \ fresh) \in Nat
  BY MembershipAssumption, Finite, FS_CardinalityType DEF IInv
<1>4. Cardinality(M) + Cardinality(J)
        <= MemberLimit - 1 + Cardinality(Requests) + Cardinality(Newcomers \ fresh)
  BY <1>2, <1>3, Finite DEF MembersCounted
<1>5. QED
  BY <1>1, <1>4 DEF MembersCounted

LEMMA MemberMade ==
  ASSUME IInv, NEW u, NEW r \in Joining, Members' \in SUBSET (Members \cup {u}),
         Joining' \in SUBSET (Joining \ {r}), fresh' = fresh
  PROVE  MembersCounted'
<1>1. PICK M, J : M = Members' /\ J = Joining'
  OBVIOUS
<1>2. /\ Cardinality(M) <= Cardinality(Members) + 1 /\ Cardinality(M) \in Nat
      /\ Cardinality(Members) \in Nat
  BY <1>1, Finite, OneMore
<1>3. /\ Cardinality(J) <= Cardinality(Joining) - 1 /\ Cardinality(J) \in Nat
      /\ Cardinality(Joining) \in Nat
  BY <1>1, Finite, OneLess
<1>4. MembersCounted /\ MemberLimit \in Nat /\ Cardinality(Newcomers \ fresh) \in Nat
  BY MembershipAssumption, Finite, FS_CardinalityType DEF IInv
<1>5. Cardinality(M) + Cardinality(J)
        <= MemberLimit - 1 + Cardinality(Requests) + Cardinality(Newcomers \ fresh)
  BY <1>2, <1>3, <1>4, Finite DEF MembersCounted
<1>6. QED
  BY <1>1, <1>5 DEF MembersCounted

-----------------------------------------------------------------------------
(* Steps *)

(* A step that only moves one request on, past neither count. *)
LEMMA RequestMoves ==
  ASSUME IInv, NEW r \in Requests, NEW q \in Request, Becomes(r, q),
         UNCHANGED <<member, fresh, transfers>>,
         q.pc = "transfer" => q.target # q.actor,
         q.pc \in {"limit", "insert", "update"} /\ q.role = "ADMIN" => r \in Promoting,
         q.pc = "insert" => r \in Joining
  PROVE  IInv'
<1>1. req \in [Requests -> Request] /\ req' = [req EXCEPT ![r] = q]
  BY DEF IInv, TypeOK, Becomes
<1>2. TypeOK'
  BY <1>1 DEF IInv, TypeOK
<1>3. ToAnother'
  BY <1>1 DEF IInv, ToAnother
<1>4. Promoting' \in SUBSET Promoting /\ Joining' \in SUBSET Joining
  BY <1>1 DEF Promoting, Joining
<1>5. Admins' = Admins /\ Members' = Members
  BY DEF Admins, Members, Is
<1>6. AdminsCounted' /\ MembersCounted'
  BY <1>4, <1>5, AdminsKept, MembersKept
<1>7. QED
  BY <1>2, <1>3, <1>6 DEF IInv

(* The record of a request that is idle, or that goes on. *)
LEMMA Types ==
  ASSUME IInv
  PROVE  /\ Idle \in Request /\ Idle.pc = "idle"
         /\ \A r \in Requests : req[r] \in Request
         /\ \A u \in Users : member[u] \in Member
<1>1. Founder \in Users
  BY MembershipAssumption
<1>2. QED
  BY <1>1 DEF IInv, TypeOK, Idle, Request

LEMMA EndsStep ==
  ASSUME IInv, NEW r \in Requests, Ends(r), UNCHANGED <<member, fresh, transfers>>
  PROVE  IInv'
  BY RequestMoves, Types DEF Ends

LEMMA AddReadStep ==
  ASSUME IInv, NEW r \in Requests, NEW a \in Users, NEW u \in Users, NEW role \in Roles,
         AddRead(r, a, u, role)
  PROVE  IInv'
<1> DEFINE q == [Idle EXCEPT !.pc = IF role = "ADMIN" THEN "count" ELSE "limit",
                             !.target = u, !.role = role]
<1>1. q \in Request
  BY Types DEF Request
<1>2. /\ q.pc = (IF role = "ADMIN" THEN "count" ELSE "limit") /\ q.role = role
  BY DEF Idle
<1>3. Becomes(r, q) /\ UNCHANGED <<member, fresh, transfers>>
  BY DEF AddRead
<1> HIDE DEF q
<1>4. QED
  BY <1>1, <1>2, <1>3, RequestMoves

LEMMA PatchReadStep ==
  ASSUME IInv, NEW r \in Requests, NEW a \in Users, NEW u \in Users, NEW role \in Roles,
         PatchRead(r, a, u, role)
  PROVE  IInv'
<1> DEFINE q == [Idle EXCEPT !.pc = IF role = "ADMIN" THEN "count" ELSE "update",
                             !.target = u, !.row = member[u].row, !.role = role]
<1>1. q \in Request
  BY Types DEF Request, Member
<1>2. /\ q.pc = (IF role = "ADMIN" THEN "count" ELSE "update") /\ q.role = role
  BY DEF Idle
<1>3. Becomes(r, q) /\ UNCHANGED <<member, fresh, transfers>>
  BY DEF PatchRead
<1> HIDE DEF q
<1>4. QED
  BY <1>1, <1>2, <1>3, RequestMoves

LEMMA RemoveReadStep ==
  ASSUME IInv, NEW r \in Requests, NEW a \in Users, NEW u \in Users,
         RemoveRead(r, a, u)
  PROVE  IInv'
<1> DEFINE q == [Idle EXCEPT !.pc = "delete", !.target = u, !.row = member[u].row]
<1>1. q \in Request /\ q.pc = "delete"
  BY Types DEF Request, Member, Idle
<1>2. Becomes(r, q) /\ UNCHANGED <<member, fresh, transfers>>
  BY DEF RemoveRead
<1> HIDE DEF q
<1>3. QED
  BY <1>1, <1>2, RequestMoves

LEMMA TransferReadStep ==
  ASSUME IInv, NEW r \in Requests, NEW a \in Users, TransferRead(r, a)
  PROVE  IInv'
<1> DEFINE q == [Idle EXCEPT !.pc = "target", !.actor = a, !.mine = member[a].row]
<1>1. q \in Request /\ q.pc = "target"
  BY Types DEF Request, Member, Idle
<1>2. Becomes(r, q) /\ UNCHANGED <<member, fresh, transfers>>
  BY DEF TransferRead
<1> HIDE DEF q
<1>3. QED
  BY <1>1, <1>2, RequestMoves

LEMMA FindTargetStep ==
  ASSUME IInv, NEW r \in Requests, NEW u \in Users, FindTarget(r, u)
  PROVE  IInv'
<1> DEFINE q == [req[r] EXCEPT !.pc = "transfer", !.target = u, !.row = member[u].row]
<1>1. q \in Request /\ q.pc = "transfer" /\ q.target = u /\ q.actor = req[r].actor
  BY Types DEF Request, Member
<1>2. UNCHANGED <<member, fresh, transfers>> /\ (Becomes(r, q) \/ Ends(r))
      /\ u # req[r].actor
  BY DEF FindTarget
<1> HIDE DEF q
<1>3. QED
  BY <1>1, <1>2, RequestMoves, EndsStep

(* Fewer admins than the cap, and no more promotions than requests. *)
LEMMA CountAdminsStep ==
  ASSUME IInv, NEW r \in Requests, CountAdmins(r)
  PROVE  IInv'
<1>1. CASE Ends(r)
  BY <1>1, EndsStep DEF CountAdmins
<1>2. CASE ~Ends(r)
  <2> DEFINE q == [req[r] EXCEPT !.pc = IF req[r].row = 0 THEN "limit" ELSE "update"]
  <2>1. q \in Request /\ q.pc \in {"limit", "update"}
    BY Types DEF Request
  <2>2. /\ req' = [req EXCEPT ![r] = q] /\ UNCHANGED <<member, fresh, transfers>>
        /\ ~(Cardinality(Admins) >= AdminCap)
    BY <1>2 DEF CountAdmins, Goes, Becomes
  <2> HIDE DEF q
  <2>3. req \in [Requests -> Request]
    BY DEF IInv, TypeOK
  <2>4. TypeOK'
    BY <2>1, <2>2, <2>3 DEF IInv, TypeOK
  <2>5. ToAnother'
    BY <2>1, <2>2, <2>3 DEF IInv, ToAnother
  <2>6. Joining' \in SUBSET Joining
    BY <2>1, <2>2, <2>3 DEF Joining
  <2>7. Members' = Members /\ Admins' = Admins
    BY <2>2 DEF Members, Admins, Is
  <2>8. MembersCounted'
    BY <2>2, <2>6, <2>7, MembersKept
  <2>9. PICK P : P = Promoting'
    OBVIOUS
  <2>10. P \in SUBSET Requests
    BY <2>9 DEF Promoting
  <2>11. Cardinality(P) <= Cardinality(Requests) /\ Cardinality(P) \in Nat
    BY <2>10, Finite, Smaller
  <2>12. Cardinality(Admins) \in Nat
    BY Finite, FS_CardinalityType
  <2>13. transfers \in Nat /\ AdminCap \in Nat
    BY MembershipAssumption DEF IInv, TypeOK
  <2>14. Cardinality(Admins) + Cardinality(P)
           <= AdminCap - 1 + Cardinality(Requests) + transfers
    BY <2>2, <2>11, <2>12, <2>13, Finite
  <2>15. AdminsCounted'
    BY <2>2, <2>7, <2>9, <2>14 DEF AdminsCounted
  <2>16. QED
    BY <2>4, <2>5, <2>8, <2>15 DEF IInv
<1>3. QED
  BY <1>1, <1>2

(* Fewer members than the limit, and no more insertions than requests. *)
LEMMA CheckLimitStep ==
  ASSUME IInv, NEW r \in Requests, CheckLimit(r)
  PROVE  IInv'
<1>1. CASE Ends(r)
  BY <1>1, EndsStep DEF CheckLimit
<1>2. CASE ~Ends(r)
  <2> DEFINE q == [req[r] EXCEPT !.pc = "insert"]
  <2>1. q \in Request /\ q.pc = "insert" /\ q.role = req[r].role
    BY Types DEF Request
  <2>2. /\ req' = [req EXCEPT ![r] = q] /\ UNCHANGED <<member, fresh, transfers>>
        /\ ~(Cardinality(Members) >= MemberLimit) /\ req[r].pc = "limit"
    BY <1>2 DEF CheckLimit, Goes, Becomes, At
  <2> HIDE DEF q
  <2>3. req \in [Requests -> Request]
    BY DEF IInv, TypeOK
  <2>4. TypeOK'
    BY <2>1, <2>2, <2>3 DEF IInv, TypeOK
  <2>5. ToAnother'
    BY <2>1, <2>2, <2>3 DEF IInv, ToAnother
  <2>6. Promoting' \in SUBSET Promoting
    BY <2>1, <2>2, <2>3 DEF Promoting
  <2>7. Members' = Members /\ Admins' = Admins
    BY <2>2 DEF Members, Admins, Is
  <2>8. AdminsCounted'
    BY <2>2, <2>6, <2>7, AdminsKept
  <2>9. PICK J : J = Joining'
    OBVIOUS
  <2>10. J \in SUBSET Requests
    BY <2>9 DEF Joining
  <2>11. Cardinality(J) <= Cardinality(Requests) /\ Cardinality(J) \in Nat
    BY <2>10, Finite, Smaller
  <2>12. Cardinality(Members) \in Nat /\ Cardinality(Newcomers \ fresh) \in Nat
    BY Finite, FS_CardinalityType
  <2>13. MemberLimit \in Nat
    BY MembershipAssumption
  <2>14. Cardinality(Members) + Cardinality(J)
           <= MemberLimit - 1 + Cardinality(Requests) + Cardinality(Newcomers \ fresh)
    BY <2>2, <2>11, <2>12, <2>13, Finite
  <2>15. MembersCounted'
    BY <2>2, <2>7, <2>9, <2>14 DEF MembersCounted
  <2>16. QED
    BY <2>4, <2>5, <2>8, <2>15 DEF IInv
<1>3. QED
  BY <1>1, <1>2

(* What every request that ends with its write leaves of the requests. *)
LEMMA EndsFrame ==
  ASSUME IInv, NEW r \in Requests, Ends(r)
  PROVE  /\ req' \in [Requests -> Request] /\ ToAnother'
         /\ Promoting' \in SUBSET (Promoting \ {r})
         /\ Joining' \in SUBSET (Joining \ {r})
<1>1. req \in [Requests -> Request] /\ req' = [req EXCEPT ![r] = Idle]
  BY DEF IInv, TypeOK, Ends, Becomes
<1>2. req' \in [Requests -> Request] /\ req'[r].pc = "idle"
  BY <1>1, Types
<1>3. \A s \in Requests \ {r} : req'[s] = req[s]
  BY <1>1
<1>4. ToAnother'
  BY <1>2, <1>3 DEF IInv, ToAnother
<1>5. QED
  BY <1>2, <1>3, <1>4 DEF Promoting, Joining

(* A row gets a role, or loses it, and the others stay. *)
LEMMA WithRoleType ==
  ASSUME NEW m \in [Users -> Member], NEW u \in Users, NEW role \in Roles \cup {"none"}
  PROVE  /\ WithRole(m, u, role) \in [Users -> Member]
         /\ WithRole(m, u, role)[u].role = role
         /\ \A v \in Users \ {u} : WithRole(m, u, role)[v] = m[v]
<1>1. [m[u] EXCEPT !.role = role] \in Member
  BY DEF Member
<1>2. QED
  BY <1>1 DEF WithRole, Member

LEMMA InsertMemberStep ==
  ASSUME IInv, NEW r \in Requests, InsertMember(r)
  PROVE  IInv'
<1> DEFINE u == req[r].target
           role == req[r].role
<1>1. /\ u \in Users /\ role \in Roles \cup {"none"} /\ req[r].pc = "insert"
      /\ r \in Joining /\ Ends(r) /\ UNCHANGED <<fresh, transfers>>
  BY Types DEF Request, InsertMember, At, Joining
<1>2. member \in [Users -> Member]
  BY DEF IInv, TypeOK
<1>3. CASE Is(u, Roles)
  <2>1. member' = member
    BY <1>3 DEF InsertMember
  <2>2. QED
    BY <1>1, <2>1, EndsStep
<1>4. CASE ~Is(u, Roles)
  <2> DEFINE n == [role |-> role, row |-> member[u].row + 1]
  <2>1. MayJoin(u) /\ member' = [member EXCEPT ![u] = n]
    BY <1>4 DEF InsertMember, Added
  <2>2. member[u].row \in 0 .. 2 /\ member[u].row < 2
    BY <1>1, <1>2, <2>1 DEF MayJoin, Member
  <2>3. n \in Member /\ n.role = role
    BY <1>1, <2>2 DEF Member
  <2> HIDE DEF n
  <2>4. member' \in [Users -> Member] /\ member'[u].role = role
        /\ \A v \in Users \ {u} : member'[v] = member[v]
    BY <1>1, <1>2, <2>1, <2>3
  <2>5. TypeOK' /\ ToAnother'
    BY <1>1, <2>4, EndsFrame DEF IInv, TypeOK
  <2>6. Members' \in SUBSET (Members \cup {u})
    BY <2>4 DEF Members, Is
  <2>7. MembersCounted'
    BY <1>1, <2>6, EndsFrame, MemberMade
  <2>8. AdminsCounted'
    <3>1. CASE role = "ADMIN"
      <4>1. r \in Promoting
        BY <1>1, <3>1 DEF Promoting
      <4>2. Admins' \in SUBSET (Admins \cup {u})
        BY <2>4 DEF Admins, Is
      <4>3. QED
        BY <1>1, <4>1, <4>2, EndsFrame, AdminMade
    <3>2. CASE role # "ADMIN"
      <4>1. Admins' \in SUBSET Admins
        BY <2>4, <3>2 DEF Admins, Is
      <4>2. QED
        BY <1>1, <4>1, EndsFrame, AdminsKept
    <3>3. QED
      BY <3>1, <3>2
  <2>9. QED
    BY <2>5, <2>7, <2>8 DEF IInv
<1>5. QED
  BY <1>3, <1>4

LEMMA UpdateRoleStep ==
  ASSUME IInv, NEW r \in Requests, UpdateRole(r)
  PROVE  IInv'
<1> DEFINE u == req[r].target
           role == req[r].role
<1>1. /\ u \in Users /\ role \in Roles \cup {"none"} /\ req[r].pc = "update"
      /\ Ends(r) /\ UNCHANGED <<fresh, transfers>>
  BY Types DEF Request, UpdateRole, At
<1>2. member \in [Users -> Member]
  BY DEF IInv, TypeOK
<1>3. CASE ~Present(u, req[r].row)
  <2>1. member' = member
    BY <1>3 DEF UpdateRole
  <2>2. QED
    BY <1>1, <2>1, EndsStep
<1>4. CASE Present(u, req[r].row)
  <2>1. member' = WithRole(member, u, role)
    BY <1>4 DEF UpdateRole
  <2>2. member' \in [Users -> Member] /\ member'[u].role = role
        /\ \A v \in Users \ {u} : member'[v] = member[v]
    BY <1>1, <1>2, <2>1, WithRoleType
  <2>3. TypeOK' /\ ToAnother'
    BY <1>1, <2>2, EndsFrame DEF IInv, TypeOK
  <2>4. Members' \in SUBSET Members
    BY <1>4, <2>2 DEF Members, Is, Present
  <2>5. MembersCounted'
    BY <1>1, <2>4, EndsFrame, MembersKept
  <2>6. AdminsCounted'
    <3>1. CASE role = "ADMIN"
      <4>1. r \in Promoting
        BY <1>1, <3>1 DEF Promoting
      <4>2. Admins' \in SUBSET (Admins \cup {u})
        BY <2>2 DEF Admins, Is
      <4>3. QED
        BY <1>1, <4>1, <4>2, EndsFrame, AdminMade
    <3>2. CASE role # "ADMIN"
      <4>1. Admins' \in SUBSET Admins
        BY <2>2, <3>2 DEF Admins, Is
      <4>2. QED
        BY <1>1, <4>1, EndsFrame, AdminsKept
    <3>3. QED
      BY <3>1, <3>2
  <2>7. QED
    BY <2>3, <2>5, <2>6 DEF IInv
<1>5. QED
  BY <1>3, <1>4

(* A row is deleted: neither count grows. *)
LEMMA Removal ==
  ASSUME IInv, NEW u \in Users, member' = WithRole(member, u, "none"),
         UNCHANGED <<fresh, transfers>>,
         req' \in [Requests -> Request], ToAnother',
         Promoting' \in SUBSET Promoting, Joining' \in SUBSET Joining
  PROVE  IInv'
<1>1. /\ member' \in [Users -> Member] /\ member'[u].role = "none"
      /\ \A v \in Users \ {u} : member'[v] = member[v]
  BY WithRoleType DEF IInv, TypeOK
<1>2. TypeOK'
  BY <1>1 DEF IInv, TypeOK
<1>3. Members' \in SUBSET Members /\ Admins' \in SUBSET Admins
  BY <1>1 DEF Members, Admins, Is, Roles
<1>4. AdminsCounted' /\ MembersCounted'
  BY <1>3, AdminsKept, MembersKept
<1>5. QED
  BY <1>2, <1>4 DEF IInv

LEMMA DeleteMemberStep ==
  ASSUME IInv, NEW r \in Requests, DeleteMember(r)
  PROVE  IInv'
<1>1. req[r].target \in Users /\ Ends(r) /\ UNCHANGED <<fresh, transfers>>
  BY Types DEF Request, DeleteMember
<1>2. CASE ~Present(req[r].target, req[r].row)
  <2>1. member' = member
    BY <1>2 DEF DeleteMember
  <2>2. QED
    BY <1>1, <2>1, EndsStep
<1>3. CASE Present(req[r].target, req[r].row)
  <2>1. member' = WithRole(member, req[r].target, "none")
    BY <1>3 DEF DeleteMember
  <2>2. QED
    BY <1>1, <2>1, EndsFrame, Removal
<1>4. QED
  BY <1>2, <1>3

LEMMA DeleteAccountStep ==
  ASSUME IInv, NEW u \in Users, DeleteAccount(u)
  PROVE  IInv'
<1>1. /\ member' = WithRole(member, u, "none") /\ UNCHANGED <<fresh, req, transfers>>
  BY DEF DeleteAccount
<1>2. req' \in [Requests -> Request] /\ ToAnother'
  BY <1>1 DEF IInv, TypeOK, ToAnother
<1>3. Promoting' \in SUBSET Promoting /\ Joining' \in SUBSET Joining
  BY <1>1 DEF Promoting, Joining
<1>4. QED
  BY <1>1, <1>2, <1>3, Removal

(* A transfer makes one admin, and is counted itself. *)
LEMMA AdminByTransfer ==
  ASSUME IInv, NEW u, Admins' \in SUBSET (Admins \cup {u}),
         Promoting' \in SUBSET Promoting, transfers' = transfers + 1
  PROVE  AdminsCounted'
<1>1. PICK A, P : A = Admins' /\ P = Promoting'
  OBVIOUS
<1>2. /\ Cardinality(A) <= Cardinality(Admins) + 1 /\ Cardinality(A) \in Nat
      /\ Cardinality(Admins) \in Nat
  BY <1>1, Finite, OneMore
<1>3. /\ Cardinality(P) <= Cardinality(Promoting) /\ Cardinality(P) \in Nat
      /\ Cardinality(Promoting) \in Nat
  BY <1>1, Finite, Smaller
<1>4. AdminsCounted /\ transfers \in Nat /\ AdminCap \in Nat
  BY MembershipAssumption DEF IInv, TypeOK
<1>5. Cardinality(A) + Cardinality(P)
        <= AdminCap - 1 + Cardinality(Requests) + (transfers + 1)
  BY <1>2, <1>3, <1>4, Finite DEF AdminsCounted
<1>6. QED
  BY <1>1, <1>5 DEF AdminsCounted

(* Both rows are there: what the transaction writes. *)
LEMMA TransferWrites ==
  ASSUME IInv, NEW r \in Requests, Transfer(r), transfers' # transfers
  PROVE  /\ req[r].target \in Users /\ req[r].actor \in Users
         /\ member' \in [Users -> Member] /\ transfers' = transfers + 1
         /\ Is(req[r].target, Roles) /\ Is(req[r].actor, Roles)
         /\ member'[req[r].target].role = "OWNER" /\ member'[req[r].actor].role = "ADMIN"
         /\ \A v \in Users \ {req[r].target, req[r].actor} : member'[v] = member[v]
<1> DEFINE t == req[r].target
           a == req[r].actor
           m == WithRole(member, t, "OWNER")
<1>1. t \in Users /\ a \in Users /\ t # a
  BY Types DEF Request, Transfer, At, IInv, ToAnother
<1>2. member \in [Users -> Member]
  BY DEF IInv, TypeOK
<1>3. /\ Present(t, req[r].row) /\ Present(a, req[r].mine)
      /\ member' = WithRole(m, a, "ADMIN") /\ transfers' = transfers + 1
  BY DEF Transfer
<1>4. m \in [Users -> Member] /\ m[t].role = "OWNER"
      /\ \A v \in Users \ {t} : m[v] = member[v]
  BY <1>1, <1>2, WithRoleType DEF Roles
<1> HIDE DEF m
<1>5. member' \in [Users -> Member] /\ member'[a].role = "ADMIN"
      /\ \A v \in Users \ {a} : member'[v] = m[v]
  BY <1>1, <1>3, <1>4, WithRoleType DEF Roles
<1>6. QED
  BY <1>1, <1>3, <1>4, <1>5 DEF Present

LEMMA TransferStep ==
  ASSUME IInv, NEW r \in Requests, Transfer(r)
  PROVE  IInv'
<1>1. Ends(r) /\ fresh' = fresh
  BY DEF Transfer
<1>2. transfers \in Nat /\ fresh \subseteq Newcomers
  BY DEF IInv, TypeOK
<1>3. CASE transfers' # transfers
  <2>1. TypeOK' /\ ToAnother'
    BY <1>1, <1>2, <1>3, TransferWrites, EndsFrame DEF TypeOK
  <2>2. Admins' \in SUBSET (Admins \cup {req[r].actor})
    BY <1>3, TransferWrites DEF Admins, Is
  <2>3. AdminsCounted'
    BY <1>1, <1>3, <2>2, TransferWrites, EndsFrame, AdminByTransfer
  <2>4. Members' \in SUBSET Members
    BY <1>3, TransferWrites DEF Members, Is
  <2>5. MembersCounted'
    BY <1>1, <2>4, EndsFrame, MembersKept
  <2>6. QED
    BY <2>1, <2>3, <2>5 DEF IInv
<1>4. CASE transfers' = transfers
  <2>1. member' = member
    BY <1>2, <1>4 DEF Transfer
  <2>2. QED
    BY <1>1, <1>4, <2>1, EndsStep
<1>5. QED
  BY <1>3, <1>4

LEMMA RegisterStep ==
  ASSUME IInv, NEW u \in Users, Register(u)
  PROVE  IInv'
<1> DEFINE n == [role |-> "MEMBER", row |-> member[u].row + 1]
<1>1. /\ u \in fresh /\ fresh' = fresh \ {u} /\ UNCHANGED <<req, transfers>>
      /\ MayJoin(u) /\ member' = [member EXCEPT ![u] = n]
  BY DEF Register, Added
<1>2. member \in [Users -> Member] /\ fresh \subseteq Newcomers
  BY DEF IInv, TypeOK
<1>3. member[u].row \in 0 .. 2 /\ member[u].row < 2
  BY <1>1, <1>2 DEF MayJoin, Member
<1>4. n \in Member /\ n.role = "MEMBER"
  BY <1>3 DEF Member, Roles
<1> HIDE DEF n
<1>5. member' \in [Users -> Member] /\ member'[u].role = "MEMBER"
      /\ \A v \in Users \ {u} : member'[v] = member[v]
  BY <1>1, <1>2, <1>4
<1>6. TypeOK' /\ ToAnother'
  BY <1>1, <1>2, <1>5 DEF IInv, TypeOK, ToAnother
<1>7. Promoting' = Promoting /\ Joining' = Joining
  BY <1>1 DEF Promoting, Joining
<1>8. Admins' \in SUBSET Admins /\ Members' \in SUBSET (Members \cup {u})
  BY <1>5 DEF Admins, Members, Is
<1>9. AdminsCounted'
  BY <1>1, <1>7, <1>8, AdminsKept
<1>10. PICK M, N : M = Members' /\ N = Newcomers \ fresh
  OBVIOUS
<1>11. /\ Cardinality(M) <= Cardinality(Members) + 1 /\ Cardinality(M) \in Nat
       /\ Cardinality(Members) \in Nat /\ Cardinality(Joining) \in Nat
  BY <1>8, <1>10, Finite, OneMore, FS_CardinalityType
<1>12. Newcomers \ fresh' = N \cup {u} /\ u \notin N
  BY <1>1, <1>2, <1>10
<1>13. Cardinality(N \cup {u}) = Cardinality(N) + 1 /\ Cardinality(N) \in Nat
  <2>1. IsFiniteSet(N)
    BY <1>10, Finite
  <2>2. Cardinality(N \cup {u}) = IF u \in N THEN Cardinality(N) ELSE Cardinality(N) + 1
    BY <2>1, FS_AddElement
  <2>3. QED
    BY <1>12, <2>1, <2>2, FS_CardinalityType
<1>14. MembersCounted /\ MemberLimit \in Nat
  BY MembershipAssumption DEF IInv
<1>15. Cardinality(M) + Cardinality(Joining)
         <= MemberLimit - 1 + Cardinality(Requests) + Cardinality(N \cup {u})
  BY <1>10, <1>11, <1>13, <1>14, Finite DEF MembersCounted
<1>16. MembersCounted'
  BY <1>7, <1>10, <1>12, <1>15 DEF MembersCounted
<1>17. QED
  BY <1>6, <1>9, <1>16 DEF IInv

-----------------------------------------------------------------------------
(* The specification *)

LEMMA InitIInv == Init => IInv
<1> SUFFICES ASSUME Init PROVE IInv
  OBVIOUS
<1>1. Founder \in Users /\ AdminCap \in Nat \ {0} /\ MemberLimit \in Nat \ {0}
  BY MembershipAssumption
<1>2. TypeOK /\ ToAnother
  BY <1>1 DEF Init, TypeOK, ToAnother, Idle, Request, Member, Roles
<1>3. Admins = {} /\ Promoting = {} /\ Joining = {} /\ Newcomers \ fresh = {}
  BY <1>1 DEF Init, Admins, Promoting, Joining, Is, Idle
<1>4. Members = {Founder}
  BY <1>1 DEF Init, Members, Is, Roles
<1>5. Cardinality(Members) = 1
  BY <1>4, FS_Singleton
<1>6. Cardinality(Admins) = 0 /\ Cardinality(Promoting) = 0
      /\ Cardinality(Joining) = 0 /\ Cardinality(Newcomers \ fresh) = 0
  BY <1>3, FS_EmptySet
<1>7. transfers = 0
  BY DEF Init
<1>8. AdminsCounted
  BY <1>1, <1>6, <1>7, Finite DEF AdminsCounted
<1>9. MembersCounted
  BY <1>1, <1>5, <1>6, Finite DEF MembersCounted
<1>10. QED
  BY <1>2, <1>8, <1>9 DEF IInv

LEMMA NextIInv == IInv /\ [Next]_vars => IInv'
<1> SUFFICES ASSUME IInv, [Next]_vars PROVE IInv'
  OBVIOUS
<1>1. ASSUME NEW r \in Requests, Begins(r) PROVE IInv'
  <2>1. CASE \E a, u \in Users, role \in Roles : AddRead(r, a, u, role)
    BY <2>1, AddReadStep
  <2>2. CASE \E a, u \in Users, role \in Roles : PatchRead(r, a, u, role)
    BY <2>2, PatchReadStep
  <2>3. CASE \E a, u \in Users : RemoveRead(r, a, u)
    BY <2>3, RemoveReadStep
  <2>4. CASE \E a \in Users : TransferRead(r, a)
    BY <2>4, TransferReadStep
  <2>5. QED
    BY <1>1, <2>1, <2>2, <2>3, <2>4 DEF Begins
<1>2. ASSUME NEW r \in Requests, GoesOn(r) PROVE IInv'
  <2>1. CASE CountAdmins(r)
    BY <2>1, CountAdminsStep
  <2>2. CASE CheckLimit(r)
    BY <2>2, CheckLimitStep
  <2>3. CASE InsertMember(r)
    BY <2>3, InsertMemberStep
  <2>4. CASE UpdateRole(r)
    BY <2>4, UpdateRoleStep
  <2>5. CASE DeleteMember(r)
    BY <2>5, DeleteMemberStep
  <2>6. CASE \E u \in Users : FindTarget(r, u)
    BY <2>6, FindTargetStep
  <2>7. CASE Transfer(r)
    BY <2>7, TransferStep
  <2>8. QED
    BY <1>2, <2>1, <2>2, <2>3, <2>4, <2>5, <2>6, <2>7 DEF GoesOn
<1>3. ASSUME NEW u \in Users, Register(u) \/ DeleteAccount(u) PROVE IInv'
  BY <1>3, RegisterStep, DeleteAccountStep
<1>4. CASE UNCHANGED vars
  BY <1>4 DEF vars, IInv, TypeOK, ToAnother, AdminsCounted, MembersCounted,
              Admins, Members, Is, Promoting, Joining
<1>5. QED
  BY <1>1, <1>2, <1>3, <1>4 DEF Next

LEMMA Inductive == Spec => []IInv
  BY InitIInv, NextIInv, PTL DEF Spec

(* The two bounds follow: what is counted besides is not negative. *)
LEMMA Bounds == IInv => AdminsBounded /\ MembersBounded
<1> SUFFICES ASSUME IInv PROVE AdminsBounded /\ MembersBounded
  OBVIOUS
<1>1. /\ Cardinality(Admins) \in Nat /\ Cardinality(Promoting) \in Nat
      /\ Cardinality(Members) \in Nat /\ Cardinality(Joining) \in Nat
      /\ Cardinality(Newcomers \ fresh) \in Nat
  BY Finite, FS_CardinalityType
<1>2. AdminCap \in Nat /\ MemberLimit \in Nat /\ transfers \in Nat
  BY MembershipAssumption DEF IInv, TypeOK
<1>3. AdminsCounted /\ MembersCounted
  BY DEF IInv
<1>4. AdminsBounded
  BY <1>1, <1>2, <1>3, Finite DEF AdminsCounted, AdminsBounded
<1>5. MembersBounded
  BY <1>1, <1>2, <1>3, Finite DEF MembersCounted, MembersBounded
<1>6. QED
  BY <1>4, <1>5

\* The rows and the requests have their types (routes/organizations.ts).
THEOREM TypeCorrect == Spec => []TypeOK
<1>1. IInv => TypeOK
  BY DEF IInv
<1>2. QED
  BY <1>1, Inductive, PTL

\* With any number of requests that overlap, the cap on admins is exceeded by no
\* more than their number less one, and by the transfers (POST, PATCH members).
THEOREM AdminsStayBounded == Spec => []AdminsBounded
  BY Bounds, Inductive, PTL

\* The limit on members likewise, and by the registrations (checkMemberLimit).
THEOREM MembersStayBounded == Spec => []MembersBounded
  BY Bounds, Inductive, PTL

\* Whatever else is under way, a transfer that is committed leaves an owner.
THEOREM TransferLeavesOwner == Spec => OwnerAfterTransfer
<1>1. IInv /\ [Next]_vars => [transfers' # transfers => Owners' # {}]_vars
  <2> SUFFICES ASSUME IInv, Next, transfers' # transfers PROVE Owners' # {}
    BY DEF vars
  <2>1. PICK r \in Requests : Transfer(r)
    BY DEF Next, Begins, GoesOn, AddRead, PatchRead, RemoveRead, TransferRead, CountAdmins,
           CheckLimit, InsertMember, UpdateRole, DeleteMember, FindTarget, Register,
           DeleteAccount
  <2>2. req[r].target \in Users /\ member'[req[r].target].role = "OWNER"
    BY <2>1, TransferWrites
  <2>3. QED
    BY <2>2 DEF Owners, Is
<1>2. QED
  BY <1>1, Inductive, PTL DEF Spec, OwnerAfterTransfer
=============================================================================
