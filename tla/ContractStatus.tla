--------------------------- MODULE ContractStatus ---------------------------
(***************************************************************************)
(* The life cycle of a contract and of a signature envelope as data: the   *)
(* Prisma enums, the table of status changes PATCH /api/contracts/:id      *)
(* allows, and the translation of a provider's event names.                *)
(***************************************************************************)

Status == {"DRAFT", "NEGOTIATION", "PENDING_SIGNATURE", "EXECUTED", "ARCHIVED"}

ValidStatusTransitions ==
  [ DRAFT             |-> {"NEGOTIATION", "ARCHIVED"},
    NEGOTIATION       |-> {"DRAFT", "PENDING_SIGNATURE", "ARCHIVED"},
    PENDING_SIGNATURE |-> {"NEGOTIATION", "EXECUTED", "ARCHIVED"},
    EXECUTED          |-> {"ARCHIVED"},
    ARCHIVED          |-> {"DRAFT"} ]

SignatureStatus ==
  {"CREATED", "SENT", "VIEWED", "SIGNED", "COMPLETED", "DECLINED", "VOIDED"}

\* The statuses in which void and resend answer 409.
Closed == {"COMPLETED", "VOIDED", "DECLINED"}

(***************************************************************************)
(* The events the two providers post, HelloSign's without their prefix     *)
(* "signature_request_".  "canceled" stands for every other name.          *)
(***************************************************************************)
RawEvents ==
  {"sent", "delivered", "viewed", "signed", "completed", "all_signed",
   "declined", "voided", "canceled"}

StatusMap ==
  [ sent |-> "SENT", delivered |-> "VIEWED", signed |-> "SIGNED",
    completed |-> "COMPLETED", declined |-> "DECLINED", voided |-> "VOIDED" ]

\* A name that is not in the table is put in upper case.  That yields a member
\* of the enum for "viewed" only: to store another makes Prisma throw.
MapStatus(raw) ==
  CASE raw \in DOMAIN StatusMap -> StatusMap[raw]
    [] raw = "viewed"           -> "VIEWED"
    [] raw = "all_signed"       -> "ALL_SIGNED"
    [] OTHER                    -> "CANCELED"
=============================================================================
