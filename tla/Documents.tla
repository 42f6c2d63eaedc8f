----------------------------- MODULE Documents ------------------------------
(***************************************************************************)
(* Matters and documents of one organization: routes/matters.ts,           *)
(* routes/documents.ts, the retention job of queues/cleanup.worker.ts and  *)
(* the job of queues/pdf.worker.ts.                                        *)
(*                                                                         *)
(* A document is an object in the store and a row in the database, written *)
(* one after the other; it is known by its storage key.  The retention job *)
(* is three database calls; requests run between any two of them.          *)
(***************************************************************************)
EXTENDS Naturals, FiniteSets

CONSTANTS
  Matters,      \* ids of Matter rows, used once each
  Docs,         \* storage keys, used once each
  Callers,     \* requests that may be in progress at a time
  Runs,         \* retention runs that may be in progress: one in each process
  MatterLimit,  \* PLAN_LIMITS[tier].matters
  Attempts,     \* attempts BullMQ gives a PDF job
  MaxFailures     \* bound: failed calls and crashes

ASSUME DocumentsAssumption ==
  /\ IsFiniteSet(Matters) /\ IsFiniteSet(Docs)
  /\ IsFiniteSet(Callers) /\ Callers # {}
  /\ MatterLimit \in Nat \ {0} /\ Attempts \in Nat \ {0} /\ MaxFailures \in Nat

VARIABLES
  matter,   \* Matter rows
  lapsed,   \* matters that were CLOSED and past the retention period once
  doc,      \* objects and Document rows
  req,      \* requests in progress
  run,      \* retention runs in progress
  job,      \* the PDF job and the attempts it has left
  failures

documentsVars == <<matter, lapsed, doc, req, run, job, failures>>

\* due: CLOSED, and updatedAt is older than retentionDays.
Matter == [state : {"none", "open", "closed", "due"}, deleted : BOOLEAN]

\* of: the matter; retired: the retention job set deletedAt.
Doc == [object : BOOLEAN, row : {"none", "live", "deleted", "retired"},
        of : Matters \cup {"none"}]

Idle == [pc |-> "idle", matter |-> "none", doc |-> "none"]

Request == [pc     : {"idle", "create", "patch", "drop", "put", "row", "archive"},
            matter : Matters \cup {"none"},
            doc    : Docs \cup {"none"}]

Asleep == [pc |-> "idle", matters |-> {}, docs |-> {}]

DocumentsTypeOK ==
  /\ matter \in [Matters -> Matter]
  /\ lapsed \subseteq Matters
  /\ doc \in [Docs -> Doc]
  /\ req \in [Callers -> Request]
  /\ run \in [Runs -> [pc : {"idle", "docs", "retire"},
                       matters : SUBSET Matters, docs : SUBSET Docs]]
  /\ job \in [pc : {"waiting", "row", "ended"}, left : 0 .. Attempts,
              doc : Docs \cup {"none"}]
  /\ failures \in Nat

NoMatter == [state |-> "none", deleted |-> FALSE]
NoDoc    == [object |-> FALSE, row |-> "none", of |-> "none"]

DocumentsInit ==
  /\ matter = [m \in Matters |-> NoMatter]
  /\ lapsed = {}
  /\ doc = [d \in Docs |-> NoDoc]
  /\ req = [r \in Callers |-> Idle]
  /\ run = [k \in Runs |-> Asleep]
  /\ job = [pc |-> "waiting", left |-> Attempts, doc |-> "none"]
  /\ failures = 0

At(r, pc)     == req[r].pc = pc
Becomes(r, q) == req' = [req EXCEPT ![r] = q]
Goes(r, pc)   == Becomes(r, [req[r] EXCEPT !.pc = pc])
Ends(r)       == Becomes(r, Idle)

There(m)  == matter[m].state # "none" /\ ~matter[m].deleted
Counted   == {m \in Matters : There(m)}
Live(d)   == doc[d].row = "live"
Free(d)   == ~doc[d].object /\ doc[d].row = "none"
-----------------------------------------------------------------------------
(* /api/matters *)

\* POST: checkMatterLimit counts; beyond the limit the answer is 402.
CreateCheck(r) ==
  /\ At(r, "idle") /\ Cardinality(Counted) < MatterLimit
  /\ Goes(r, "create")
  /\ UNCHANGED <<matter, lapsed, doc, run, job, failures>>

CreateMatter(r, m) ==
  /\ At(r, "create") /\ matter[m].state = "none"
  /\ \E state \in {"open", "closed"} :
       matter' = [matter EXCEPT ![m] = [NoMatter EXCEPT !.state = state]]
  /\ Ends(r)
  /\ UNCHANGED <<lapsed, doc, run, job, failures>>

\* PATCH and DELETE find a row that is not deleted, then write it by its id.
FindMatter(r, m, pc) ==
  /\ At(r, "idle") /\ There(m)
  /\ pc \in {"patch", "drop", "put"}
  /\ Becomes(r, [Idle EXCEPT !.pc = pc, !.matter = m])
  /\ UNCHANGED <<matter, lapsed, doc, run, job, failures>>

\* Each write moves updatedAt.  ON_HOLD is open here.
PatchMatter(r) ==
  /\ At(r, "patch")
  /\ \E state \in {"open", "closed"} :
       matter' = [matter EXCEPT ![req[r].matter] =
                    [@ EXCEPT !.state = state]]
  /\ Ends(r)
  /\ UNCHANGED <<lapsed, doc, run, job, failures>>

DropMatter(r) ==
  /\ At(r, "drop")
  /\ matter' = [matter EXCEPT ![req[r].matter] =
                  [state |-> IF @.state = "due" THEN "closed" ELSE @.state,
                   deleted |-> TRUE]]
  /\ Ends(r)
  /\ UNCHANGED <<lapsed, doc, run, job, failures>>

\* The retention period passes without a write.
Ages(m) ==
  /\ matter[m].state = "closed"
  /\ matter' = [matter EXCEPT ![m].state = "due"]
  /\ lapsed' = lapsed \cup {m}
  /\ UNCHANGED <<doc, req, run, job, failures>>
-----------------------------------------------------------------------------
(* /api/documents *)

Put(d, m) == doc' = [doc EXCEPT ![d] = [object |-> TRUE, row |-> "none", of |-> m]]
HasRow(d) == doc' = [doc EXCEPT ![d].row = "live"]

\* Mutant: the row is made first, and the object when it is there.
InsertFirst(r, d) ==
  /\ At(r, "put") /\ Free(d)
  /\ doc' = [doc EXCEPT ![d] = [object |-> FALSE, row |-> "live", of |-> req[r].matter]]
  /\ Becomes(r, [req[r] EXCEPT !.pc = "row", !.doc = d])
  /\ UNCHANGED <<matter, lapsed, run, job, failures>>

\* POST /upload into a matter that was there: the object under a new key ...
PutObject(r, d) ==
  /\ At(r, "put") /\ Free(d)
  /\ Put(d, req[r].matter)
  /\ Becomes(r, [req[r] EXCEPT !.pc = "row", !.doc = d])
  /\ UNCHANGED <<matter, lapsed, run, job, failures>>

\* ... then the row, and a document.uploaded job (see OutboundWebhooks).
InsertDocument(r) ==
  /\ At(r, "row")
  /\ HasRow(req[r].doc)
  /\ Ends(r)
  /\ UNCHANGED <<matter, lapsed, run, job, failures>>

\* DELETE /:id: the row is found, then marked by its id; the object stays.
FindDocument(r, d) ==
  /\ At(r, "idle") /\ Live(d)
  /\ Becomes(r, [Idle EXCEPT !.pc = "archive", !.doc = d])
  /\ UNCHANGED <<matter, lapsed, doc, run, job, failures>>

Archive(r) ==
  /\ At(r, "archive")
  /\ doc' = [doc EXCEPT ![req[r].doc].row = "deleted"]
  /\ Ends(r)
  /\ UNCHANGED <<matter, lapsed, run, job, failures>>

\* What GET / and GET /:id/download offer.
Downloadable == {d \in Docs : Live(d)}

\* A call fails, or the process dies: the object may be left without a row.
RequestFails(r) ==
  /\ ~At(r, "idle")
  /\ failures < MaxFailures /\ failures' = failures + 1
  /\ Ends(r)
  /\ UNCHANGED <<matter, lapsed, doc, run, job>>
-----------------------------------------------------------------------------
(* The retention job *)

Sleeps(k) == run' = [run EXCEPT ![k] = Asleep]

\* CLOSED and not updated since the cutoff; deleted matters are found too.
FindClosed(k) ==
  /\ run[k].pc = "idle"
  /\ LET old == {m \in Matters : matter[m].state = "due"}
     IN  /\ old # {}
         /\ run' = [run EXCEPT ![k] = [Asleep EXCEPT !.pc = "docs", !.matters = old]]
  /\ UNCHANGED <<matter, lapsed, doc, req, job, failures>>

\* Mutant: all documents of the organization.
FindAll(k) ==
  /\ run[k].pc = "docs"
  /\ run' = [run EXCEPT ![k] = [Asleep EXCEPT !.pc = "retire", !.docs = Downloadable]]
  /\ UNCHANGED <<matter, lapsed, doc, req, job, failures>>

FindDocuments(k) ==
  /\ run[k].pc = "docs"
  /\ run' = [run EXCEPT ![k] =
       [Asleep EXCEPT !.pc = "retire",
                      !.docs = {d \in Downloadable : doc[d].of \in run[k].matters}]]
  /\ UNCHANGED <<matter, lapsed, doc, req, job, failures>>

\* By their ids: neither whether the matter was opened again is looked at, nor
\* whether somebody has archived the document, which is dated anew then.
Retire(k) ==
  /\ run[k].pc = "retire"
  /\ doc' = [d \in Docs |-> IF d \in run[k].docs
                            THEN [doc[d] EXCEPT !.row = "retired"] ELSE doc[d]]
  /\ Sleeps(k)
  /\ UNCHANGED <<matter, lapsed, req, job, failures>>

RunFails(k) ==
  /\ run[k].pc # "idle"
  /\ failures < MaxFailures /\ failures' = failures + 1
  /\ Sleeps(k)
  /\ UNCHANGED <<matter, lapsed, doc, req, job>>
-----------------------------------------------------------------------------
(* The PDF job: a generated document, put and inserted like an upload.  An  *)
(* attempt that fails is followed by another, from the start.               *)

\* The contract is found and rendered; the object gets a random key.
Generate(m, d) ==
  /\ job.pc = "waiting" /\ job.left > 0
  /\ matter[m].state # "none" /\ Free(d)
  /\ Put(d, m)
  /\ job' = [job EXCEPT !.pc = "row", !.left = @ - 1, !.doc = d]
  /\ UNCHANGED <<matter, lapsed, req, run, failures>>

\* The insert; its answer may be lost, and the attempt then counts as failed.
InsertGenerated ==
  /\ job.pc = "row"
  /\ HasRow(job.doc)
  /\ \/ /\ job' = [job EXCEPT !.pc = "ended"]
        /\ UNCHANGED failures
     \/ /\ job' = [job EXCEPT !.pc = "waiting"]
        /\ failures < MaxFailures /\ failures' = failures + 1
  /\ UNCHANGED <<matter, lapsed, req, run>>

JobFails ==
  /\ job.pc = "row"
  /\ failures < MaxFailures /\ failures' = failures + 1
  /\ job' = [job EXCEPT !.pc = "waiting"]
  /\ UNCHANGED <<matter, lapsed, doc, req, run>>
-----------------------------------------------------------------------------
RequestStep(r) ==
  \/ CreateCheck(r) \/ PatchMatter(r) \/ DropMatter(r)
  \/ InsertDocument(r) \/ Archive(r) \/ RequestFails(r)
  \/ \E m \in Matters : CreateMatter(r, m)
  \/ \E m \in Matters, pc \in {"patch", "drop", "put"} : FindMatter(r, m, pc)
  \/ \E d \in Docs : PutObject(r, d) \/ FindDocument(r, d)

RunStep(k) == FindClosed(k) \/ FindDocuments(k) \/ Retire(k) \/ RunFails(k)

JobStep ==
  \/ \E m \in Matters, d \in Docs : Generate(m, d)
  \/ InsertGenerated \/ JobFails

DocumentsNext ==
  \/ \E r \in Callers : RequestStep(r)
  \/ \E k \in Runs : RunStep(k)
  \/ \E m \in Matters : Ages(m)
  \/ JobStep

DocumentsSpec == DocumentsInit /\ [][DocumentsNext]_documentsVars
-----------------------------------------------------------------------------
Orphans == {d \in Docs : doc[d].object /\ doc[d].row = "none"}

\* What can be downloaded has its object, and the objects nobody can find are no
\* more than the uploads in progress and the failures (POST /upload, pdf.worker).
ObjectsAccounted ==
  /\ \A d \in Docs : doc[d].row # "none" => doc[d].object
  /\ Cardinality(Orphans) <= Cardinality({r \in Callers : At(r, "row")})
                             + (IF job.pc = "row" THEN 1 ELSE 0) + failures

\* The retention job retires documents only of matters that were closed for the
\* retention period, though maybe not any more (cleanup.worker.ts).
RetiredHadCause ==
  \A d \in Docs : doc[d].row = "retired" => doc[d].of \in lapsed
-----------------------------------------------------------------------------
(* Why they hold.  Uploads in progress have a key in hand; an orphan that no   *)
(* upload has any more was left by a failure.  ObjectsAccounted alone does not *)
(* say which orphans these are.                                                *)
Held == {req[r].doc : r \in {q \in Callers : At(q, "row")}}
          \cup (IF job.pc = "row" THEN {job.doc} ELSE {})

OrphansCharged == Cardinality(Orphans \ Held) <= failures

RowsHaveObjects == \A d \in Docs : doc[d].row # "none" => doc[d].object

\* What a handler found or made, it still writes to the right row.
RequestsKnow ==
  \A r \in Callers :
    /\ req[r].pc \in {"patch", "drop", "put"} => req[r].matter \in Matters
    /\ At(r, "row") => req[r].doc \in Docs /\ doc[req[r].doc].object
    /\ At(r, "archive") => req[r].doc \in Docs /\ doc[req[r].doc].row # "none"

JobKnows == job.pc = "row" => job.doc \in Docs /\ doc[job.doc].object

\* A retention run holds matters that were due once and documents of such ones:
\* a document keeps its matter as long as it has a row.
RunsKnow ==
  \A k \in Runs :
    /\ run[k].matters \subseteq lapsed
    /\ \A d \in run[k].docs : doc[d].row # "none" /\ doc[d].of \in lapsed

DueHaveLapsed == \A m \in Matters : matter[m].state = "due" => m \in lapsed

DocumentsInv ==
  /\ DocumentsTypeOK
  /\ OrphansCharged
  /\ RowsHaveObjects
  /\ RequestsKnow
  /\ JobKnows
  /\ RunsKnow
  /\ DueHaveLapsed
  /\ RetiredHadCause
=============================================================================
