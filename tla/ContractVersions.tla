-------------------------- MODULE ContractVersions --------------------------
(***************************************************************************)
(* POST /api/contracts/:contractId/versions (routes/contracts.ts): a       *)
(* Prisma interactive transaction that reads the latest number, inserts    *)
(* the next version and points the contract at it.                         *)
(*                                                                         *)
(* Prisma runs it at PostgreSQL's default, READ COMMITTED, so a read sees  *)
(* what is committed and takes no lock.  What keeps two transactions apart *)
(* is @@unique([contractId, number]): an insert waits for a transaction    *)
(* that has inserted the same key, and fails if that one commits.          *)
(***************************************************************************)
EXTENDS Naturals, FiniteSets, FiniteSetsExt

CONSTANTS
  Contracts,
  Requests,       \* requests to add a version, each served once
  None,           \* currentVersionId is null
  MaxFaults       \* bound: failed calls, transaction timeouts, crashes

ASSUME VersionsAssumption ==
  /\ None \notin Contracts \cup Requests
  /\ MaxFaults \in Nat

VARIABLES
  deleted,    \* contracts with deletedAt set
  version,    \* committed ContractVersion rows
  current,    \* currentVersionId of each contract
  tx,         \* the handlers and their transactions
  faults

vars == <<deleted, version, current, tx, faults>>

\* A row's id is the request that made it.
Row == [id : Requests, contract : Contracts, number : Nat]

Pc == {"idle", "read", "insert", "point", "commit", "done"}
Tx == [pc : Pc, contract : Contracts \cup {None}, number : Nat]

TypeOK ==
  /\ deleted \subseteq Contracts
  /\ version \subseteq Row
  /\ current \in [Contracts -> Requests \cup {None}]
  /\ tx \in [Requests -> Tx]
  /\ faults \in Nat

NewTx == [pc |-> "idle", contract |-> None, number |-> 0]

Init ==
  /\ deleted = {}
  /\ version = {}
  /\ current = [c \in Contracts |-> None]
  /\ tx = [r \in Requests |-> NewTx]
  /\ faults = 0
-----------------------------------------------------------------------------
RowsOf(c) == {v \in version : v.contract = c}

\* findFirst with orderBy number desc, and 0 when there is none.
Latest(c) == Max({0} \cup {v.number : v \in RowsOf(c)})

\* Transactions other than r that have inserted a row and not yet ended:
\* they hold its unique key and, by the foreign key, the contract's row.
Holders(r) == {s \in Requests \ {r} : tx[s].pc \in {"point", "commit"}}

SameContract(r) == {s \in Holders(r) : tx[s].contract = tx[r].contract}
SameKey(r)      == {s \in SameContract(r) : tx[s].number = tx[r].number}

Goto(r, pc) == tx' = [tx EXCEPT ![r] = [@ EXCEPT !.pc = pc]]

Fault == faults < MaxFaults /\ faults' = faults + 1
-----------------------------------------------------------------------------
\* The contract is looked up before the transaction begins.
Begin(r, c) ==
  /\ tx[r].pc = "idle"
  /\ c \notin deleted
  /\ tx' = [tx EXCEPT ![r] = [pc |-> "read", contract |-> c, number |-> 0]]
  /\ UNCHANGED <<deleted, version, current, faults>>

ReadLatest(r) ==
  /\ tx[r].pc = "read"
  /\ tx' = [tx EXCEPT ![r] = [@ EXCEPT !.pc = "insert",
                                       !.number = Latest(tx[r].contract) + 1]]
  /\ UNCHANGED <<deleted, version, current, faults>>

\* Mutant: the table has no unique index.
TakenNever(r) == FALSE

Taken(r) == \E v \in RowsOf(tx[r].contract) : v.number = tx[r].number

Insert(r) ==
  /\ tx[r].pc = "insert"
  /\ SameKey(r) = {}
  /\ ~Taken(r)
  /\ Goto(r, "point")
  /\ UNCHANGED <<deleted, version, current, faults>>

\* P2002 aborts the transaction; the handler passes the error on.
InsertConflicts(r) ==
  /\ tx[r].pc = "insert"
  /\ SameKey(r) = {}
  /\ Taken(r)
  /\ Goto(r, "done")
  /\ UNCHANGED <<deleted, version, current, faults>>

\* Mutant: the update is made with prisma, not tx, and waits for its own lock.
PointOutsideTx(r) ==
  /\ tx[r].pc = "point"
  /\ \A s \in Requests : tx[s].pc = "point" => tx[s].contract # tx[r].contract
  /\ Goto(r, "commit")
  /\ UNCHANGED <<deleted, version, current, faults>>

\* Mutant: there is no transaction around the update.
PointAtOnce(r) ==
  /\ tx[r].pc = "point"
  /\ SameContract(r) = {}
  /\ current' = [current EXCEPT ![tx[r].contract] = r]
  /\ Goto(r, "commit")
  /\ UNCHANGED <<deleted, version, faults>>

\* The update of the unique currentVersionId needs the contract's row alone.
Point(r) ==
  /\ tx[r].pc = "point"
  /\ SameContract(r) = {}
  /\ Goto(r, "commit")
  /\ UNCHANGED <<deleted, version, current, faults>>

Commit(r) ==
  /\ tx[r].pc = "commit"
  /\ version' = version \cup {[id |-> r, contract |-> tx[r].contract,
                               number |-> tx[r].number]}
  /\ current' = [current EXCEPT ![tx[r].contract] = r]
  /\ Goto(r, "done")
  /\ UNCHANGED <<deleted, faults>>

\* A failed call, Prisma's transaction timeout or a crash: what the
\* transaction inserted was never there.
Fails(r) ==
  /\ tx[r].pc \notin {"idle", "done"}
  /\ Fault
  /\ Goto(r, "done")
  /\ UNCHANGED <<deleted, version, current>>

\* Mutant: the row is deleted, and its versions with it (onDelete: Cascade).
DeleteHard(c) ==
  /\ c \notin deleted
  /\ deleted' = deleted \cup {c}
  /\ version' = version \ RowsOf(c)
  /\ current' = [current EXCEPT ![c] = None]
  /\ UNCHANGED <<tx, faults>>

\* DELETE /api/contracts/:id waits for nobody who only adds a version.
Delete(c) ==
  /\ c \notin deleted
  /\ \A r \in Requests : ~(tx[r].pc = "commit" /\ tx[r].contract = c)
  /\ deleted' = deleted \cup {c}
  /\ UNCHANGED <<version, current, tx, faults>>

Step(r) ==
  \/ ReadLatest(r) \/ Insert(r) \/ InsertConflicts(r)
  \/ Point(r) \/ Commit(r) \/ Fails(r)

Next ==
  \/ \E r \in Requests, c \in Contracts : Begin(r, c)
  \/ \E r \in Requests : Step(r)
  \/ \E c \in Contracts : Delete(c)

Spec == Init /\ [][Next]_vars

\* The database grants a free lock and Node resumes a handler that waited.
FairSpec == Spec /\ \A r \in Requests : WF_vars(Step(r))
-----------------------------------------------------------------------------
(* Properties *)

\* Versions of a contract are numbered from 1 without gaps or repetitions,
\* although the number is read before the row is written.
NumbersGapless ==
  \A c \in Contracts :
    /\ {v.number : v \in RowsOf(c)} = 1 .. Latest(c)
    /\ \A v, w \in RowsOf(c) : v.number = w.number => v = w

\* The contract points at its version with the highest number, whichever
\* transactions committed, failed or were never answered.
CurrentIsLatest ==
  \A c \in Contracts :
    IF RowsOf(c) = {}
    THEN current[c] = None
    ELSE \E v \in RowsOf(c) : v.id = current[c] /\ v.number = Latest(c)

\* No request waits for a lock for ever: two inserters cannot wait for each
\* other, because they cannot both hold the contract's row.
EveryRequestEnds ==
  \A r \in Requests : tx[r].pc = "read" ~> tx[r].pc = "done"

\* The history of versions is the abstract log of its requests: whatever
\* the transactions do, readers see one version appended at a time.
VersionNumbered(c, n) == CHOOSE v \in RowsOf(c) : v.number = n

history == [c \in Contracts |-> [n \in 1 .. Latest(c) |-> VersionNumbered(c, n).id]]

Log == INSTANCE VersionLog WITH log <- history

VersionsAreLog == Log!Spec
=============================================================================
