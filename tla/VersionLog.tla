----------------------------- MODULE VersionLog -----------------------------
(***************************************************************************)
(* What the version history of a contract promises its readers: a list     *)
(* that only grows, by one version at a time, each request adding at most  *)
(* one.  A version keeps its place, which is its number.                   *)
(***************************************************************************)
EXTENDS Naturals, Sequences

CONSTANTS Contracts, Requests

VARIABLE log      \* log[c][n]: the request that made version n of contract c

Added == {r \in Requests : \E c \in Contracts : \E n \in DOMAIN log[c] : log[c][n] = r}

Init == log = [c \in Contracts |-> <<>>]

AddVersion(c, r) ==
  /\ r \notin Added
  /\ log' = [log EXCEPT ![c] = Append(@, r)]

Next == \E c \in Contracts, r \in Requests : AddVersion(c, r)

Spec == Init /\ [][Next]_log
=============================================================================
