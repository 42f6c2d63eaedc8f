----------------------------- MODULE WebClient -----------------------------
(***************************************************************************)
(* The web client: the session of the tab (WebSession) and the page that   *)
(* is open (ListPages), through the interceptors and the guard.            *)
(*                                                                         *)
(* A page's call carries the token of the moment it was sent.  When that    *)
(* is refused the call is answered 401 and the whole tab is signed out.     *)
(***************************************************************************)
EXTENDS WebSession, ListPages

VARIABLE auth   \* the token of each call of the page that was sent

webVars == <<sessionVars, pageVars, auth>>

Slots == Loads \cup Writes

WebTypeOK == SessionTypeOK /\ PageTypeOK /\ auth \in [Slots -> Some]

WebInit == SessionInit /\ PageInit /\ auth = [x \in Slots |-> None]

AtServer == {l \in Loads : load[l].at = "sent"} \cup {w \in Writes : write[w].at = "sent"}

\* jwtInterceptor, for a call that begins with this step.
Carries == auth' = [x \in Slots |-> IF x \notin AtServer' THEN None
                                    ELSE IF x \in AtServer THEN auth[x] ELSE tab.token]

\* What the page had in flight is forgotten with it, handled or not.
Leaves == /\ page' = NoPage /\ row' = NoRows /\ load' = NoLoads /\ write' = NoWrites
          /\ auth' = [x \in Slots |-> None]
-----------------------------------------------------------------------------
\* A login that is answered goes to the dashboard, a sign-out to /login.
ToDashboard == \E c \in Calls : /\ call[c].kind = "login" /\ tab'.token = call[c].gives
                                /\ tab'.token # tab.token

SessionStep ==
  /\ \/ SessionAct /\ acts < MaxActs /\ acts' = acts + 1
     \/ SessionReply /\ UNCHANGED acts
  /\ IF tab'.at = "app" /\ ~ToDashboard THEN UNCHANGED <<pageVars, auth>> ELSE Leaves

PageStep ==
  /\ tab.at = "app"
  /\ \/ PageAct /\ acts < MaxActs /\ acts' = acts + 1
     \/ PageReply /\ UNCHANGED acts
     \/ (\E x \in AtServer : Accepted(auth[x]) /\ Serves(x)) /\ UNCHANGED acts
  /\ Carries
  /\ UNCHANGED <<tab, cookie, server, call, calm>>

\* The user goes to another page, or a call is answered 403.
LeavePage ==
  /\ page # NoPage
  /\ Leaves
  /\ UNCHANGED sessionVars

\* errorInterceptor: the answer to a call whose token was refused.
Unauthorized(x) ==
  /\ x \in AtServer /\ ~Accepted(auth[x])
  /\ UNCHANGED <<cookie, server, acts>>
  /\ \E c \in Calls : Free(c) /\ SignsOut(c, call)
  /\ Leaves
  /\ calm' = (calm /\ Busy = {})

WebNext == SessionStep \/ PageStep \/ LeavePage \/ \E x \in Slots : Unauthorized(x)

WebSpec == WebInit /\ [][WebNext]_webVars
=============================================================================
