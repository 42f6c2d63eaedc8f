------------------------------ MODULE ListPages ------------------------------
(***************************************************************************)
(* The pages of the web client that show a list of rows and change it      *)
(* (pages/, components/comments), and what the API does with their calls.  *)
(*                                                                         *)
(* One page is open.  It asks for its rows and sends its changes; the       *)
(* server handles and answers these calls in any order, and other users     *)
(* change the rows meanwhile.  A row has a group: the status of a matter or *)
(* a contract, the matter of a document or a comment, whether a task is     *)
(* completed.                                                               *)
(***************************************************************************)
EXTENDS Naturals, FiniteSets

CONSTANTS
  Kinds,   \* the pages there are
  Rows,    \* ids of rows, used once each
  Groups,
  Loads,   \* requests for the rows that may be in flight at a time
  Writes   \* changes that may be in flight at a time

ASSUME ListPagesAssumption ==
  /\ Kinds \subseteq {"contracts", "matters", "documents", "tasks", "comments",
                      "members", "webhooks", "admin", "audit", "search", "matter"}
  /\ IsFiniteSet(Loads) /\ IsFiniteSet(Writes)
  /\ Groups \cap {"none", "gone", "all", "nothing"} = {}

VARIABLES
  page,   \* the page that is open
  row,    \* the group of each row at the server
  load,   \* requests for the rows
  write   \* changes, from the click on

pageVars == <<page, row, load, write>>

Filters == Groups \cup {"all", "nothing"}

\* ask: the filter chosen; shown: the filter and the rows of the last answer;
\* tidy: the last request met none for another filter that is still answered, and
\* no creation;
\* dropped: rows whose deletion was answered when no answer on its way had them.
Page == [kind : Kinds \cup {"none"}, ask : Filters,
         shown : [f : Filters, rows : SUBSET Rows],
         loading : BOOLEAN, failed : BOOLEAN, tidy : BOOLEAN,
         dropped : SUBSET Rows]
Load  == [at : {"none", "sent", "handled"}, f : Filters, rows : SUBSET Rows]
Write == [at : {"none", "asked", "sent", "ok", "error"},
          op : {"none", "create", "delete", "change"},
          row : Rows \cup {"none"}, g : Groups \cup {"none"}]

NoPage  == [kind |-> "none", ask |-> "nothing",
            shown |-> [f |-> "nothing", rows |-> {}],
            loading |-> FALSE, failed |-> FALSE, tidy |-> TRUE, dropped |-> {}]
NoLoad  == [at |-> "none", f |-> "nothing", rows |-> {}]
NoWrite == [at |-> "none", op |-> "none", row |-> "none", g |-> "none"]

PageTypeOK ==
  /\ page \in Page
  /\ row \in [Rows -> Groups \cup {"none", "gone"}]
  /\ load \in [Loads -> Load]
  /\ write \in [Writes -> Write]

NoRows   == [x \in Rows |-> "none"]
NoLoads  == [l \in Loads |-> NoLoad]
NoWrites == [w \in Writes |-> NoWrite]

PageInit == page = NoPage /\ row = NoRows /\ load = NoLoads /\ write = NoWrites

Open(kinds)  == page.kind \in kinds
Ready(kinds) == Open(kinds) /\ ~page.loading    \* the list is hidden while loading
Shown        == page.shown.rows
Loading      == {l \in Loads : load[l].at # "none"}
Creating     == {w \in Writes : write[w].op = "create"}

\* What has to be on the screen for the controls of a list to be there.
DocumentList == Ready({"documents"})
TaskList     == Ready({"tasks"}) /\ ~page.failed
CommentList  == Ready({"comments"})
MembersTab   == Ready({"members"})
WebhooksTab  == Ready({"webhooks"})
AdminPage    == Ready({"admin"})
AuditLog     == Open({"audit"})

Matching(f)  == {x \in Rows : row[x] \in (IF f = "all" THEN Groups ELSE {f})}
-----------------------------------------------------------------------------
(* Requests for the rows *)

\* The two pages where a request takes the place of the last (switchMap).
Switching == {"documents", "search"}

NewLoad(l, f) == [load EXCEPT ![l] = [NoLoad EXCEPT !.at = "sent", !.f = f]]

\* Mutant: each request is answered, whatever was asked since (mergeMap).
RequestRowsMerging(l, f) == NewLoad(l, f)

\* With switchMap the answer of an earlier request is dropped.  Elsewhere the
\* answer that comes last is the one shown.
RequestRows(l, f) == IF Open(Switching)
                  THEN [NoLoads EXCEPT ![l] = [NoLoad EXCEPT !.at = "sent", !.f = f]]
                  ELSE NewLoad(l, f)

\* The page of a matter shows an error for good.
Asks(l, f) ==
  /\ load[l].at = "none"
  /\ load' = RequestRows(l, f)
  /\ page' = [page EXCEPT !.ask = f, !.loading = TRUE, !.failed = @ /\ Open({"matter"}),
                !.shown.rows = IF Open({"search"}) THEN {} ELSE @,
                !.tidy = /\ Open(Switching) \/ \A k \in Loading : load[k].f = f
                         /\ Creating = {}]
  /\ UNCHANGED <<row, write>>

\* ngOnInit.  The rows are what others have made of them.
Opens(l, kind, f) ==
  /\ Open({"none"}) /\ load[l].at = "none"
  /\ f \in (CASE kind \in {"matter", "comments"} -> Groups
              [] kind \in {"documents", "search"} -> {"nothing"}
              [] OTHER -> {"all"})
  /\ page' = [NoPage EXCEPT !.kind = kind, !.ask = f, !.loading = f # "nothing"]
  /\ load' = IF f = "nothing" THEN load ELSE NewLoad(l, f)
  /\ row' \in [Rows -> Groups \cup {"none"}]
  /\ UNCHANGED write

\* The filters forget a choice that is the same as the last; Retry does not.
Chosen(f) == f # page.ask \/ page.failed
LoadContracts(l, f) == Open({"contracts"}) /\ Chosen(f) /\ Asks(l, f)
LoadMatters(l, f)   == Open({"matters"}) /\ Chosen(f) /\ Asks(l, f)
SelectMatter(l, f)  == Open({"documents"}) /\ f \notin {page.ask, "all"} /\ Asks(l, f)

\* Another filter, or the next part of the same list.
LoadTasks(l, f)     == Open({"tasks"}) /\ Asks(l, f)
LoadAuditLogs(l, f) == AuditLog /\ Asks(l, f)

\* Of one matter or contract: ngOnChanges and ngOnInit both load.
LoadComments(l, f)  == Open({"comments"}) /\ f # "all" /\ Asks(l, f)

\* The tab is chosen while its list is empty.
LoadWebhooks(l)     == Open({"webhooks"}) /\ Shown = {} /\ Asks(l, "all")

\* The route has another id.
LoadAll(l, f)       == Open({"matter"}) /\ f \notin {page.ask, "all"} /\ Asks(l, f)

\* A failed search ends the subscription: nothing is searched for any more.
Search(l, f)        == Open({"search"}) /\ ~page.failed /\ Asks(l, f)

\* The list handlers: every row of the group.
ServerReads(l) ==
  /\ load[l].at = "sent"
  /\ load' = [load EXCEPT ![l] = [load[l] EXCEPT !.at = "handled",
                                                 !.rows = Matching(load[l].f)]]
  /\ UNCHANGED <<page, row, write>>

Loaded(l) ==
  /\ load[l].at = "handled"
  /\ page' = [page EXCEPT !.shown = [f |-> load[l].f, rows |-> load[l].rows],
                          !.loading = FALSE]
  /\ load' = [load EXCEPT ![l] = NoLoad]
  /\ UNCHANGED <<row, write>>

\* catchError: these lists become empty; the others keep what they had.
Emptied == {"contracts", "matters", "documents", "admin"}
LoadFails(l) ==
  /\ load[l].at \in {"sent", "handled"}
  /\ page' = [page EXCEPT
       !.shown = IF Open(Emptied) THEN [f |-> load[l].f, rows |-> {}] ELSE @,
       !.loading = FALSE, !.failed = TRUE]
  /\ load' = [load EXCEPT ![l] = NoLoad]
  /\ UNCHANGED <<row, write>>
-----------------------------------------------------------------------------
(* Changes.  Where a question is asked first, its snack bar stays while the  *)
(* list is loaded anew.                                                      *)

Begins(w, at, op, x, g) ==
  /\ write[w].at = "none"
  /\ write' = [write EXCEPT ![w] = [at |-> at, op |-> op, row |-> x, g |-> g]]
  /\ UNCHANGED <<page, row, load>>

\* The id of the row is the server's choice.
Adds(w, g)   == \E x \in Rows : /\ row[x] = "none"
                                /\ \A v \in Creating : write[v].row # x
                                /\ Begins(w, "sent", "create", x, g)
Drops(w, at) == \E x \in Shown : Begins(w, at, "delete", x, "none")
Changes(w, gs) == \E x \in Shown, g \in gs : Begins(w, "sent", "change", x, g)

CreateContract(w, g) == Open({"contracts"}) /\ Adds(w, g)
CreateMatter(w, g)   == Open({"matters"}) /\ Adds(w, g)
CreateWebhook(w, g)  == WebhooksTab /\ Adds(w, g)

\* One at a time; a document or a comment into the matter of the moment.
Upload(w)            == Open({"documents"}) /\ page.ask \in Groups /\ Creating = {}
                        /\ Adds(w, page.ask)
SubmitComment(w)     == CommentList /\ page.ask \in Groups /\ Creating = {}
                        /\ Adds(w, page.ask)
InviteMember(w, g)   == MembersTab /\ Creating = {} /\ Adds(w, g)
InviteByAdmin(w, g)  == AdminPage /\ Creating = {} /\ Adds(w, g)

DeleteContract(w)    == Open({"contracts"}) /\ Drops(w, "asked")
DeleteMatter(w)      == Open({"matters"}) /\ Drops(w, "asked")
DeleteDocument(w)    == DocumentList /\ Drops(w, "asked")
RemoveByAdmin(w)     == AdminPage /\ Drops(w, "asked")
DeleteComment(w)     == CommentList /\ Drops(w, "sent")
RemoveMember(w)      == MembersTab /\ Drops(w, "sent")
DeleteWebhook(w)     == WebhooksTab /\ Drops(w, "sent")

ToggleTask(w)        == TaskList /\ Changes(w, Groups)
ToggleMatterTask(w)  == Ready({"matter"}) /\ Changes(w, Groups)
ToggleWebhook(w)     == WebhooksTab /\ Changes(w, Groups)
SaveEdit(w)          == CommentList /\ Changes(w, {"none"})

\* The button of the snack bar, within five seconds; or nobody presses it.
Confirm(w) ==
  /\ write[w].at = "asked"
  /\ write' = [write EXCEPT ![w].at = "sent"]
  /\ UNCHANGED <<page, row, load>>

Unconfirmed(w) ==
  /\ write[w].at = "asked"
  /\ write' = [write EXCEPT ![w] = NoWrite]
  /\ UNCHANGED <<page, row, load>>
-----------------------------------------------------------------------------
(* The server *)

Settle(w, result) == /\ write[w].at = "sent"
                     /\ write' = [write EXCEPT ![w].at = result]
                     /\ UNCHANGED <<page, load>>

\* POST: a row is made, unless its matter is gone, a limit reached, ...
ServeCreate(w) ==
  /\ write[w].op = "create"
  /\ \/ Settle(w, "ok") /\ row' = [row EXCEPT ![write[w].row] = write[w].g]
     \/ Settle(w, "error") /\ UNCHANGED row

\* DELETE: 404 for a row that somebody else has deleted.
ServeDelete(w) ==
  /\ write[w].op = "delete"
  /\ IF row[write[w].row] \in Groups
     THEN Settle(w, "ok") /\ row' = [row EXCEPT ![write[w].row] = "gone"]
     ELSE Settle(w, "error") /\ UNCHANGED row

\* PATCH: of a task its completion, of a comment the text only.
ServeChange(w) ==
  /\ write[w].op = "change"
  /\ IF row[write[w].row] \in Groups
     THEN /\ Settle(w, "ok")
          /\ row' = [row EXCEPT ![write[w].row] = IF write[w].g = "none" THEN @
                                                  ELSE write[w].g]
     ELSE Settle(w, "error") /\ UNCHANGED row

\* Documents and comments stay with their matter.
Kept == {"documents", "comments"}

\* Other users create, change and delete.
OthersChange(x) ==
  /\ ~Open({"none"}) /\ row[x] # "gone"
  /\ ~\E w \in Creating : write[w].row = x
  /\ \E g \in Groups \cup {"gone"} :
       /\ Open(Kept) => row[x] = "none" \/ g = "gone"
       /\ g = "gone" => row[x] # "none"
       /\ g # row[x] /\ row' = [row EXCEPT ![x] = g]
  /\ UNCHANGED <<page, load, write>>

\* The answer says 500, or never comes; the server may have done it.
WriteLost(w) ==
  /\ write[w].at \in {"sent", "ok"}
  /\ write' = [write EXCEPT ![w].at = "error"]
  /\ UNCHANGED <<page, row, load>>
-----------------------------------------------------------------------------
(* Answers *)

WriteEnds(w) == write' = [write EXCEPT ![w] = NoWrite] /\ UNCHANGED <<row, load>>

CreateAnswered(w) ==
  /\ write[w].op = "create" /\ write[w].at = "ok"
  /\ page' = [page EXCEPT !.shown.rows = @ \cup {write[w].row}]
  /\ WriteEnds(w)

\* A list that was read before, or the answer of its creation, may still bring the
\* row.
DeleteAnswered(w) ==
  /\ write[w].op = "delete" /\ write[w].at = "ok"
  /\ LET x == write[w].row
     IN  page' = [page EXCEPT
           !.shown.rows = @ \ {x},
           !.dropped = IF /\ \A l \in Loading : x \notin load[l].rows
                          /\ \A v \in Creating : write[v].row # x
                       THEN @ \cup {x} ELSE @]
  /\ WriteEnds(w)

\* Mutant: the row is put in the list.
ChangePutsBack(w) ==
  /\ write[w].op = "change" /\ write[w].at = "ok"
  /\ page' = [page EXCEPT !.shown.rows = @ \cup {write[w].row}]
  /\ WriteEnds(w)

\* The row is replaced where it is still shown.
ChangeAnswered(w) ==
  /\ write[w].op = "change" /\ write[w].at = "ok"
  /\ UNCHANGED page
  /\ WriteEnds(w)

WriteFailed(w) ==
  /\ write[w].at = "error"
  /\ UNCHANGED page
  /\ WriteEnds(w)
-----------------------------------------------------------------------------
\* Steps that spend some of the bound.
PageAct ==
  \/ \E l \in Loads :
       \/ \E k \in Kinds, f \in Filters : Opens(l, k, f)
       \/ \E f \in Groups \cup {"all"} :
            \/ LoadContracts(l, f) \/ LoadMatters(l, f) \/ SelectMatter(l, f)
            \/ LoadTasks(l, f) \/ LoadAuditLogs(l, f) \/ LoadComments(l, f)
            \/ LoadAll(l, f) \/ Search(l, f)
       \/ LoadWebhooks(l) \/ LoadFails(l)
  \/ \E w \in Writes :
       \/ \E g \in Groups :
            \/ CreateContract(w, g) \/ CreateMatter(w, g) \/ CreateWebhook(w, g)
            \/ InviteMember(w, g) \/ InviteByAdmin(w, g)
       \/ Upload(w) \/ SubmitComment(w) \/ DeleteContract(w) \/ DeleteMatter(w) \/ DeleteDocument(w)
       \/ RemoveByAdmin(w) \/ DeleteComment(w) \/ RemoveMember(w) \/ DeleteWebhook(w)
       \/ ToggleTask(w) \/ ToggleMatterTask(w) \/ ToggleWebhook(w) \/ SaveEdit(w)
       \/ WriteLost(w)
  \/ \E x \in Rows : OthersChange(x)

Serves(x) == \/ x \in Loads /\ ServerReads(x)
             \/ x \in Writes /\ (ServeCreate(x) \/ ServeDelete(x) \/ ServeChange(x))

PageReply ==
  \/ \E l \in Loads : Loaded(l)
  \/ \E w \in Writes :
       \/ Confirm(w) \/ Unconfirmed(w)
       \/ CreateAnswered(w) \/ DeleteAnswered(w) \/ ChangeAnswered(w) \/ WriteFailed(w)
-----------------------------------------------------------------------------
\* When nothing is being loaded, documents and search show the answer to what was
\* asked last, whichever answers came in between (switchMap).  The other pages show
\* the answer that comes last, which is that one if the page is tidy: its last
\* request met none for another filter, and no creation.  On a tidy page the
\* documents and the comments are those of the matter asked for.
ShowsWhatWasAsked ==
  Loading = {} /\ (page.failed => Open(Emptied)) =>
    /\ Open(Switching) \/ page.tidy => page.shown.f = page.ask
    /\ Open(Kept) /\ page.tidy => \A x \in Shown : row[x] \in {page.ask, "gone"}

\* A row whose deletion was confirmed does not come back: neither with an answer
\* the server gives from then on, to whatever was asked, nor with that of a change
\* sent before.  An answer given before, or that of the row's creation, may bring it.
DeletedStaysAway == Shown \cap page.dropped = {}
-----------------------------------------------------------------------------
(* Why they hold. *)

NothingOpen == Open({"none"}) => load = NoLoads /\ write = NoWrites

\* What is on its way to a tidy page is what it asked for last.
LoadsAsked ==
  Open(Switching) \/ page.tidy =>
    /\ \A l \in Loading : load[l].f = page.ask
    /\ Loading = {} /\ (page.failed => Open(Emptied)) => page.shown.f = page.ask

\* The id of a row that is being created belongs to its creation alone.
CreatesTrue ==
  \A w \in Creating :
    /\ write[w].row \in Rows \ page.dropped /\ write[w].g \in Groups
    /\ write[w].at \in {"sent", "ok", "error"}
    /\ write[w].at = "sent" => row[write[w].row] = "none"
    /\ \A v \in Creating : v = w \/ write[v].row # write[w].row

ChangesTrue ==
  \A w \in Writes :
    write[w].op \in {"delete", "change"} =>
      /\ write[w].row \in Rows
      /\ write[w].op = "delete" /\ write[w].at = "ok" => row[write[w].row] = "gone"

\* Documents and comments stay with their matter, in the answers on their way too.
GroupsKept ==
  Open(Kept) =>
    /\ \A w \in Writes : write[w].op = "change" => write[w].g = "none"
    /\ \A w \in Creating : /\ write[w].at = "ok" => row[write[w].row] \in {write[w].g, "gone"}
                           /\ page.tidy => write[w].g = page.ask
    /\ \A l \in Loading : /\ load[l].f \in Groups
                          /\ \A x \in load[l].rows : row[x] \in {load[l].f, "gone"}
    /\ page.tidy /\ Loading = {} /\ (page.failed => Open(Emptied)) =>
         \A x \in Shown : row[x] \in {page.ask, "gone"}

\* What was deleted is gone, and no answer on its way has it.
DroppedGone ==
  \A x \in page.dropped :
    /\ row[x] = "gone" /\ x \notin Shown
    /\ \A l \in Loading : x \notin load[l].rows

PageInv ==
  /\ PageTypeOK /\ NothingOpen /\ LoadsAsked /\ CreatesTrue /\ ChangesTrue
  /\ GroupsKept /\ DroppedGone
=============================================================================
