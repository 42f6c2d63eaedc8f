----------------------------- MODULE Membership -----------------------------
(***************************************************************************)
(* Members and roles of one organization: routes/organizations.ts, the     *)
(* registration that joins it and the deletion of accounts (routes/auth.ts,*)
(* routes/users.ts), and the member limit of services/usage.service.ts.    *)
(*                                                                         *)
(* Handlers check what they read and write calls later; other requests run *)
(* between any two calls.  Each writes once, so one that fails before is as *)
(* if it had not been.  Updates and deletes go by the id of a row: the     *)
(* rows of a user are numbered, so that a row that was deleted and made    *)
(* anew is another one.                                                    *)
(***************************************************************************)
EXTENDS Naturals, FiniteSets

CONSTANTS
  Users,
  Founder,       \* who created the organization
  Newcomers,     \* users who have not registered yet
  Requests,      \* requests that may be in progress at a time
  AdminCap,      \* "Maximum of 2 admins"
  MemberLimit,   \* PLAN_LIMITS[tier].members
  Returning,     \* bound: users who may become members twice, the others once
  MaxTransfers   \* bound: transfers of ownership

ASSUME MembershipAssumption ==
  /\ IsFiniteSet(Users) /\ IsFiniteSet(Requests) /\ Requests # {}
  /\ Founder \in Users \ Newcomers
  /\ Newcomers \subseteq Users
  /\ AdminCap \in Nat \ {0} /\ MemberLimit \in Nat \ {0}
  /\ Returning \subseteq Users /\ MaxTransfers \in Nat

VARIABLES
  member,     \* OrganizationMember rows
  fresh,      \* users without a User row
  req,        \* requests in progress
  transfers   \* transfers that were committed

vars == <<member, fresh, req, transfers>>

Roles == {"OWNER", "ADMIN", "MEMBER"}

\* row counts the rows the user has had; the last one exists unless "none".
Member == [role : Roles \cup {"none"}, row : 0 .. 2]

Idle == [pc |-> "idle", actor |-> Founder, mine |-> 0,
         target |-> Founder, row |-> 0, role |-> "none"]

Request == [pc     : {"idle", "count", "limit", "insert", "update", "delete",
                      "target", "transfer"},
            actor  : Users, mine : 0 .. 2,
            target : Users, row  : 0 .. 2,
            role   : Roles \cup {"none"}]

TypeOK ==
  /\ member \in [Users -> Member]
  /\ fresh \subseteq Newcomers
  /\ req \in [Requests -> Request]
  /\ transfers \in Nat

Init ==
  /\ member = [u \in Users |-> IF u = Founder THEN [role |-> "OWNER", row |-> 1]
                                              ELSE [role |-> "none", row |-> 0]]
  /\ fresh = Newcomers
  /\ req = [r \in Requests |-> Idle]
  /\ transfers = 0

Is(u, roles) == member[u].role \in roles
Members == {u \in Users : Is(u, Roles)}
Admins  == {u \in Users : Is(u, {"ADMIN"})}
Owners  == {u \in Users : Is(u, {"OWNER"})}

At(r, pc)    == req[r].pc = pc
Becomes(r, q) == req' = [req EXCEPT ![r] = q]
Goes(r, pc)  == Becomes(r, [req[r] EXCEPT !.pc = pc])
Ends(r)      == Becomes(r, Idle)

\* A row by its id: present as long as it was not deleted.
Present(u, row) == Is(u, Roles) /\ member[u].row = row
WithRole(m, u, role) == [m EXCEPT ![u] = [m[u] EXCEPT !.role = role]]
MayJoin(u) == member[u].row < (IF u \in Returning THEN 2 ELSE 1)
Added(u, role) == [member EXCEPT ![u] = [role |-> role, row |-> member[u].row + 1]]
-----------------------------------------------------------------------------
(* POST /:orgId/members and PATCH /:orgId/members/:memberId *)

\* Owners and admins manage members; only an owner makes admins, and they are
\* counted first.  POST takes OWNER too.
AddRead(r, a, u, role) ==
  /\ At(r, "idle") /\ Is(a, {"OWNER", "ADMIN"})
  /\ role = "ADMIN" => Is(a, {"OWNER"})
  /\ MayJoin(u)
  /\ Becomes(r, [Idle EXCEPT !.pc = IF role = "ADMIN" THEN "count" ELSE "limit",
                             !.target = u, !.role = role])
  /\ UNCHANGED <<member, fresh, transfers>>

PatchRead(r, a, u, role) ==
  /\ At(r, "idle") /\ Is(a, {"OWNER", "ADMIN"})
  /\ role = "ADMIN" => Is(a, {"OWNER"})
  /\ role # "OWNER"
  /\ Is(u, Roles)
  /\ Becomes(r, [Idle EXCEPT !.pc = IF role = "ADMIN" THEN "count" ELSE "update",
                             !.target = u, !.row = member[u].row, !.role = role])
  /\ UNCHANGED <<member, fresh, transfers>>

\* Mutant: one admin too many is let through.
CountLate(r) ==
  /\ At(r, "count")
  /\ IF Cardinality(Admins) > AdminCap THEN Ends(r)
     ELSE Goes(r, IF req[r].row = 0 THEN "limit" ELSE "update")
  /\ UNCHANGED <<member, fresh, transfers>>

CountAdmins(r) ==
  /\ At(r, "count")
  /\ IF Cardinality(Admins) >= AdminCap THEN Ends(r)
     ELSE Goes(r, IF req[r].row = 0 THEN "limit" ELSE "update")
  /\ UNCHANGED <<member, fresh, transfers>>

\* Mutant: the limit is checked before the last member it allows is in.
LimitLate(r) ==
  /\ At(r, "limit")
  /\ IF Cardinality(Members) > MemberLimit \/ req[r].target \in fresh
     THEN Ends(r) ELSE Goes(r, "insert")
  /\ UNCHANGED <<member, fresh, transfers>>

\* The user exists, deleted or not, and checkMemberLimit counts.
CheckLimit(r) ==
  /\ At(r, "limit")
  /\ IF Cardinality(Members) >= MemberLimit \/ req[r].target \in fresh
     THEN Ends(r) ELSE Goes(r, "insert")
  /\ UNCHANGED <<member, fresh, transfers>>

\* A member already is a unique violation, answered 409.
InsertMember(r) ==
  /\ At(r, "insert")
  /\ Is(req[r].target, Roles) \/ MayJoin(req[r].target)
  /\ member' = IF Is(req[r].target, Roles) THEN member
               ELSE Added(req[r].target, req[r].role)
  /\ Ends(r)
  /\ UNCHANGED <<fresh, transfers>>

\* By the id of the row, whatever role it has by now.
UpdateRole(r) ==
  /\ At(r, "update")
  /\ member' = IF Present(req[r].target, req[r].row)
               THEN WithRole(member, req[r].target, req[r].role) ELSE member
  /\ Ends(r)
  /\ UNCHANGED <<fresh, transfers>>
-----------------------------------------------------------------------------
(* DELETE /:orgId/members/:memberId *)

\* Members leave by themselves; owners and admins remove anyone.
RemoveRead(r, a, u) ==
  /\ At(r, "idle") /\ Is(u, Roles)
  /\ a = u \/ Is(a, {"OWNER", "ADMIN"})
  /\ Becomes(r, [Idle EXCEPT !.pc = "delete", !.target = u, !.row = member[u].row])
  /\ UNCHANGED <<member, fresh, transfers>>

\* The sessions are revoked after (see Sessions); access tokens are not.
DeleteMember(r) ==
  /\ At(r, "delete")
  /\ member' = IF Present(req[r].target, req[r].row)
               THEN WithRole(member, req[r].target, "none") ELSE member
  /\ Ends(r)
  /\ UNCHANGED <<fresh, transfers>>
-----------------------------------------------------------------------------
(* POST /:orgId/transfer-ownership *)

TransferRead(r, a) ==
  /\ At(r, "idle") /\ Is(a, {"OWNER"}) /\ transfers < MaxTransfers
  /\ Becomes(r, [Idle EXCEPT !.pc = "target", !.actor = a, !.mine = member[a].row])
  /\ UNCHANGED <<member, fresh, transfers>>

FindTarget(r, u) ==
  /\ At(r, "target") /\ u # req[r].actor
  /\ IF Is(u, Roles)
     THEN Becomes(r, [req[r] EXCEPT !.pc = "transfer", !.target = u,
                                    !.row = member[u].row])
     ELSE Ends(r)
  /\ UNCHANGED <<member, fresh, transfers>>

\* Mutant: two updates that do not look whether there was a row.
TransferLoose(r) ==
  /\ At(r, "transfer")
  /\ LET q == req[r]
         m == IF Present(q.target, q.row) THEN WithRole(member, q.target, "OWNER")
                                          ELSE member
     IN  member' = IF Present(q.actor, q.mine) THEN WithRole(m, q.actor, "ADMIN")
                                               ELSE m
  /\ transfers' = transfers + 1
  /\ Ends(r)
  /\ UNCHANGED fresh

\* One transaction: if either row is gone nothing happens.
Transfer(r) ==
  /\ At(r, "transfer")
  /\ LET q == req[r]
     IN  IF Present(q.target, q.row) /\ Present(q.actor, q.mine)
         THEN /\ member' = WithRole(WithRole(member, q.target, "OWNER"),
                                    q.actor, "ADMIN")
              /\ transfers' = transfers + 1
         ELSE UNCHANGED <<member, transfers>>
  /\ Ends(r)
  /\ UNCHANGED fresh
-----------------------------------------------------------------------------
(* Accounts *)

\* POST /register with orgMode join: one transaction; no limit is checked.
Register(u) ==
  /\ u \in fresh /\ MayJoin(u)
  /\ fresh' = fresh \ {u}
  /\ member' = Added(u, "MEMBER")
  /\ UNCHANGED <<req, transfers>>

\* DELETE /users/me: one transaction.
DeleteAccount(u) ==
  /\ u \notin fresh
  /\ member' = WithRole(member, u, "none")
  /\ UNCHANGED <<fresh, req, transfers>>
-----------------------------------------------------------------------------
Begins(r) ==
  \/ \E a, u \in Users, role \in Roles : AddRead(r, a, u, role) \/ PatchRead(r, a, u, role)
  \/ \E a, u \in Users : RemoveRead(r, a, u)
  \/ \E a \in Users : TransferRead(r, a)

GoesOn(r) ==
  \/ CountAdmins(r) \/ CheckLimit(r) \/ InsertMember(r) \/ UpdateRole(r)
  \/ DeleteMember(r)
  \/ \E u \in Users : FindTarget(r, u)
  \/ Transfer(r)

Next ==
  \/ \E r \in Requests : Begins(r) \/ GoesOn(r)
  \/ \E u \in Users : Register(u) \/ DeleteAccount(u)

Spec == Init /\ [][Next]_vars
-----------------------------------------------------------------------------
\* The cap on admins is exceeded only by promotions that overlap, and by
\* transfers, which make the old owner an admin without counting.
AdminsBounded ==
  Cardinality(Admins) <= AdminCap - 1 + Cardinality(Requests) + transfers

\* The limit on members is exceeded only by requests that overlap, and by
\* registrations that join, which do not check it.
MembersBounded ==
  Cardinality(Members) <= MemberLimit - 1 + Cardinality(Requests)
                           + Cardinality(Newcomers \ fresh)

\* A transfer leaves an owner, even if the new one is removed meanwhile, or
\* the old one gives up the role in another request.
OwnerAfterTransfer == [][transfers' # transfers => Owners' # {}]_vars
-----------------------------------------------------------------------------
\* Requests that have counted the admins and will make one, and requests that
\* have checked the limit and will insert a row.
Promoting == {r \in Requests : /\ req[r].pc \in {"limit", "insert", "update"}
                               /\ req[r].role = "ADMIN"}
Joining   == {r \in Requests : req[r].pc = "insert"}

\* The inductive invariant: the caps with what is about to be written.
AdminsCounted ==
  Cardinality(Admins) + Cardinality(Promoting)
    <= AdminCap - 1 + Cardinality(Requests) + transfers

MembersCounted ==
  Cardinality(Members) + Cardinality(Joining)
    <= MemberLimit - 1 + Cardinality(Requests) + Cardinality(Newcomers \ fresh)

ToAnother == \A r \in Requests : req[r].pc = "transfer" => req[r].target # req[r].actor

IInv == TypeOK /\ ToAnother /\ AdminsCounted /\ MembersCounted
=============================================================================
