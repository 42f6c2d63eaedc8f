---------------------------- MODULE PaymentLedger ----------------------------
(***************************************************************************)
(* What the books of one-off invoices promise the accountant: an entry is  *)
(* opened before its money can be taken, and closed at most once, by a     *)
(* payment that Stripe took or by a refusal that Stripe reported.  There   *)
(* are no handlers, deliveries, transactions or failures here, and an      *)
(* entry is never seen half written.                                       *)
(***************************************************************************)
CONSTANT Intents

VARIABLES
  others,    \* intents of subscription invoices, which the books leave out
  taken,     \* intents Stripe took the money of
  refused,   \* intents Stripe reported a refused card for
  entry      \* "none", "open", "paid" or "struck"

vars == <<others, taken, refused, entry>>

Init ==
  /\ others = {} /\ taken = {} /\ refused = {}
  /\ entry = [p \in Intents |-> "none"]

Payable(p) == p \in others \/ entry[p] # "none"

Other(p) ==
  /\ ~Payable(p)
  /\ others' = others \cup {p}
  /\ UNCHANGED <<taken, refused, entry>>

Open(p) ==
  /\ ~Payable(p)
  /\ entry' = [entry EXCEPT ![p] = "open"]
  /\ UNCHANGED <<others, taken, refused>>

Take(p) ==
  /\ Payable(p) /\ p \notin taken
  /\ taken' = taken \cup {p}
  /\ UNCHANGED <<others, refused, entry>>

Refuse(p) ==
  /\ Payable(p) /\ p \notin taken
  /\ refused' = refused \cup {p}
  /\ UNCHANGED <<others, taken, entry>>

Enter(p) ==
  /\ entry[p] = "open" /\ p \in taken
  /\ entry' = [entry EXCEPT ![p] = "paid"]
  /\ UNCHANGED <<others, taken, refused>>

Strike(p) ==
  /\ entry[p] = "open" /\ p \in refused
  /\ entry' = [entry EXCEPT ![p] = "struck"]
  /\ UNCHANGED <<others, taken, refused>>

Next ==
  \E p \in Intents :
    Other(p) \/ Open(p) \/ Take(p) \/ Refuse(p) \/ Enter(p) \/ Strike(p)

Spec == Init /\ [][Next]_vars
=============================================================================
