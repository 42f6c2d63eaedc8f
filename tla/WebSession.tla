----------------------------- MODULE WebSession -----------------------------
(***************************************************************************)
(* The session of one browser tab: services/auth.service.ts and the        *)
(* interceptors and the guard of the web client, with what the routes of   *)
(* routes/auth.ts answer it.  Other tabs share the cookie.                 *)
(*                                                                         *)
(* A call is sent, handled by the server, and answered; calls overtake one  *)
(* another.  The server's side of a call is one step here (see Sessions).  *)
(* A login or a refresh makes one session row and one access token, which  *)
(* have the same number.                                                   *)
(***************************************************************************)
EXTENDS Naturals, FiniteSets

CONSTANTS
  Calls,      \* calls of the session that may be in flight at a time
  MaxTokens,  \* bound: tokens ever made
  MaxActs     \* bound: what users, other tabs, clocks and failures do

ASSUME WebSessionAssumption ==
  IsFiniteSet(Calls) /\ MaxTokens \in Nat \ {0} /\ MaxActs \in Nat

VARIABLES
  tab,     \* _token, refreshTimer, the route; signedOut: the user left
  cookie,  \* cc_rt, shared by the tabs
  server,  \* live: session rows; refused: access tokens expired or blacklisted
  call,    \* calls of the session in flight
  acts,    \* how much of the bound is spent
  calm     \* no two calls met, none was lost, no other tab signed out

sessionVars == <<tab, cookie, server, call, acts, calm>>

Tokens == 1 .. MaxTokens
None   == 0
Some   == 0 .. MaxTokens

NoCall == [kind |-> "none", at |-> "none", cookie |-> None, token |-> None,
           result |-> "none", gives |-> None, wipes |-> FALSE, cut |-> FALSE]

Call == [kind   : {"none", "refresh", "timer", "login", "verify", "me", "logout"},
         at     : {"none", "sent", "handled"},
         cookie : Some, token : Some,
         result : {"none", "ok", "401", "failed"},
         gives  : Some, wipes : BOOLEAN, cut : BOOLEAN]

SessionTypeOK ==
  /\ tab \in [token : Some, timer : BOOLEAN, at : {"closed", "public", "app"},
              signedOut : BOOLEAN]
  /\ cookie \in Some
  /\ server \in [made : Some, live : SUBSET Tokens, refused : SUBSET Tokens]
  /\ call \in [Calls -> Call]
  /\ acts \in 0 .. MaxActs
  /\ calm \in BOOLEAN

\* The browser may keep the cookie of an earlier visit.
SessionInit ==
  /\ tab = [token |-> None, timer |-> FALSE, at |-> "closed", signedOut |-> FALSE]
  /\ cookie \in {None, 1}
  /\ server = [made |-> 1, live |-> {1}, refused |-> {1}]
  /\ call = [c \in Calls |-> NoCall]
  /\ acts = 0
  /\ calm = TRUE

Free(c)      == call[c].kind = "none"
InFlight(ks) == {c \in Calls : call[c].kind \in ks /\ ~call[c].cut}
TokenMakers  == {"refresh", "timer", "login"}
Busy         == InFlight(TokenMakers \cup {"verify", "logout"})
Meets(c)     == Busy \ {c} # {}

\* Bound: a call that will make a token is sent only if there is one left.
Spenders == {c \in Calls : call[c].kind \in TokenMakers \cup {"verify"}}
Left     == server.made + Cardinality(Spenders) < MaxTokens
RoomFor(ck) == ck \notin server.live \/ Left

\* The jwt interceptor adds the token of the moment, if there is one.
Sent(kind, token) == [NoCall EXCEPT !.kind = kind, !.at = "sent",
                                    !.cookie = cookie, !.token = token]

\* Mutant: the timer, and what it began, go on.
CutNothing(calls) == calls

\* cancelRefreshTimer: a refresh that the timer began is aborted with it; the
\* server may handle it all the same.
Cut(calls) == [c \in Calls |-> IF calls[c].kind = "timer"
                               THEN [calls[c] EXCEPT !.cut = TRUE] ELSE calls[c]]
-----------------------------------------------------------------------------
(* What the user does *)

\* The app boots, or is loaded again: what was in flight is aborted, and the
\* constructor asks for a refresh, also where there is no cookie.  It may never be
\* sent: the interceptors inject the service that is being constructed, which is an
\* error that silentRefresh() catches.
Boot(c) ==
  /\ Free(c)
  /\ tab' = [token |-> None, timer |-> FALSE, at |-> "public", signedOut |-> FALSE]
  /\ \E first \in {NoCall, Sent("refresh", None)} :
       /\ first = NoCall \/ RoomFor(cookie)
       /\ call' = [d \in Calls |->
            IF d = c THEN first ELSE [call[d] EXCEPT !.cut = (call[d].kind # "none")]]
  /\ calm' = (calm /\ ~Meets(c))
  /\ UNCHANGED <<cookie, server>>

\* POST /login, or POST /register with autoLogin.
Login(c) ==
  /\ tab.at = "public" /\ Free(c) /\ Left
  /\ tab' = [tab EXCEPT !.signedOut = FALSE]
  /\ call' = [call EXCEPT ![c] = Sent("login", tab.token)]
  /\ calm' = (calm /\ ~Meets(c))
  /\ UNCHANGED <<cookie, server>>

\* The link of the mail: its answer has a token but no session.
VerifyEmail(c) ==
  /\ tab.at = "public" /\ Free(c) /\ Left
  /\ tab' = [tab EXCEPT !.signedOut = FALSE]
  /\ call' = [call EXCEPT ![c] = Sent("verify", tab.token)]
  /\ calm' = FALSE
  /\ UNCHANGED <<cookie, server>>

\* logout(): the token is dropped first, so that the call has no Authorization
\* header; nobody waits for its answer.  Its cookie is the one of the moment, an
\* answer that is the cause may have cleared it.
SignsOut(c, calls) ==
  /\ tab' = [tab EXCEPT !.token = None, !.timer = FALSE, !.at = "public"]
  /\ call' = [Cut(calls) EXCEPT ![c] = [Sent("logout", None) EXCEPT !.cookie = cookie']]

\* The button of the dashboard.  A login that is still in flight sets a token when
\* it is answered, and so does a refresh that nothing aborts: the one at boot, and
\* the one of a token about to expire.
SignOut(c) ==
  /\ tab.at = "app" /\ Free(c)
  /\ tab' = [token |-> None, timer |-> FALSE, at |-> "public",
             signedOut |-> InFlight({"refresh", "login", "verify"}) = {}]
  /\ call' = [Cut(call) EXCEPT ![c] = Sent("logout", None)]
  /\ calm' = (calm /\ ~Meets(c))
  /\ UNCHANGED <<cookie, server>>
-----------------------------------------------------------------------------
(* Clocks and other tabs *)

\* Sixty seconds before the token expires.
TimerFires(c) ==
  /\ tab.timer /\ Free(c) /\ RoomFor(cookie)
  /\ tab' = [tab EXCEPT !.timer = FALSE]
  /\ call' = [call EXCEPT ![c] = Sent("timer", tab.token)]
  /\ calm' = (calm /\ ~Meets(c))
  /\ UNCHANGED <<cookie, server>>

\* The computer was asleep when the timer should have fired.
Expires ==
  /\ tab.token # None /\ tab.token \notin server.refused
  /\ server' = [server EXCEPT !.refused = @ \cup {tab.token}]
  /\ UNCHANGED <<tab, cookie, call, calm>>

OtherTabRefreshes ==
  /\ cookie \in server.live /\ Left
  /\ server' = [server EXCEPT !.made = @ + 1,
                              !.live = (@ \ {cookie}) \cup {server.made + 1}]
  /\ cookie' = server.made + 1
  /\ calm' = (calm /\ Busy = {})
  /\ UNCHANGED <<tab, call>>

OtherTabSignsOut ==
  /\ server' = [server EXCEPT !.live = @ \ {cookie}]
  /\ cookie' = None /\ calm' = FALSE
  /\ UNCHANGED <<tab, call>>
-----------------------------------------------------------------------------
(* The server *)

Handled(c, result, gives, wipes) ==
  call' = [call EXCEPT ![c] = [call[c] EXCEPT !.at = "handled", !.result = result,
                                              !.gives = gives, !.wipes = wipes]]

Arrived(c, kinds) == call[c].kind \in kinds /\ call[c].at = "sent"

\* POST /refresh-token: without a cookie 401; with one that names no live row
\* 401, and the cookie is cleared; else the row is replaced.
HandleRefresh(c) ==
  /\ Arrived(c, {"refresh", "timer"})
  /\ LET s == call[c].cookie
         n == server.made + 1
     IN  IF s \in server.live
         THEN /\ server' = [server EXCEPT !.made = n, !.live = (@ \ {s}) \cup {n}]
              /\ Handled(c, "ok", n, FALSE)
         ELSE Handled(c, "401", None, s # None) /\ UNCHANGED server

\* POST /login, with the right password or not.
HandleLogin(c) ==
  /\ Arrived(c, {"login"})
  /\ LET n == server.made + 1
     IN  \/ /\ server' = [server EXCEPT !.made = n, !.live = @ \cup {n}]
            /\ Handled(c, "ok", n, FALSE)
         \/ Handled(c, "401", None, FALSE) /\ UNCHANGED server

\* GET /verify-email: a token, or none when it was verified already.
HandleVerify(c) ==
  /\ Arrived(c, {"verify"})
  /\ \/ /\ server' = [server EXCEPT !.made = @ + 1]
        /\ Handled(c, "ok", server.made + 1, FALSE)
     \/ Handled(c, "ok", None, FALSE) /\ UNCHANGED server

\* GET /me and every other call behind protect.
Accepted(token) == token # None /\ token \notin server.refused

HandleMe(c) ==
  /\ Arrived(c, {"me"})
  /\ Handled(c, IF Accepted(call[c].token) THEN "ok" ELSE "401", None, FALSE)
  /\ UNCHANGED server

\* POST /logout: the token of the header is refused from now on, the row of the
\* cookie is deleted, the cookie cleared.
HandleLogout(c) ==
  /\ Arrived(c, {"logout"})
  /\ server' = [server EXCEPT !.live = @ \ {call[c].cookie},
                              !.refused = @ \cup ({call[c].token} \ {None})]
  /\ Handled(c, "ok", None, TRUE)

\* The network fails before or after, or the answer is 500: the browser sees no
\* cookie and no token.
Lost(c) ==
  /\ call[c].at # "none" /\ call[c].result # "failed"
  /\ Handled(c, "failed", None, FALSE)
  /\ calm' = FALSE
  /\ UNCHANGED <<tab, cookie, server>>
-----------------------------------------------------------------------------
(* Answers *)

Done(c) == [call EXCEPT ![c] = NoCall]

\* Mutant: the answer to a refresh does not set the new cookie.
StoresLoginCookie(q) ==
  cookie' = IF q.result = "ok" /\ q.kind = "login" THEN q.gives
            ELSE IF q.wipes THEN None ELSE cookie

\* The browser stores, before the code runs, the cookie the handler sets or clears.
StoresCookie(q) ==
  cookie' = IF q.result = "ok" /\ q.kind \in TokenMakers THEN q.gives
            ELSE IF q.wipes THEN None ELSE cookie

Answered(c, kinds, result) ==
  /\ call[c].kind \in kinds /\ call[c].at = "handled" /\ ~call[c].cut
  /\ call[c].result = result
  /\ StoresCookie(call[c])
  /\ calm' = (calm /\ (result # "401" \/ ~Meets(c)))
  /\ UNCHANGED server

\* scheduleRefresh of the token in an answer, which cancels the timer there was;
\* rest: the calls when this one is done.  The new timer is set;
SetsTimer(c, at, rest) ==
  /\ tab' = [tab EXCEPT !.token = call[c].gives, !.timer = TRUE, !.at = at]
  /\ call' = Cut(rest)

\* or the token expires within a minute, by the clock of the browser, and is
\* refreshed at once, by a call that refreshTimer does not hold;
RefreshesAtOnce(c, at, rest) ==
  /\ tab' = [tab EXCEPT !.token = call[c].gives, !.timer = FALSE, !.at = at]
  /\ RoomFor(cookie')
  /\ \E d \in Calls :
       /\ rest[d].kind = "none"
       /\ call' = [Cut(rest) EXCEPT ![d] =
                      [Sent("refresh", call[c].gives) EXCEPT !.cookie = cookie']]

\* or atob() cannot read it - it is base64url, with names in it - and logout()
\* drops it again.
TakesToken(c, at, rest) ==
  \/ SetsTimer(c, at, rest)
  \/ RefreshesAtOnce(c, at, rest)
  \/ SignsOut(c, call)

\* login() and register(): the page goes on to the dashboard.
LoginAnswered(c) ==
  /\ Answered(c, {"login"}, "ok")
  /\ TakesToken(c, "app", Done(c))

\* The call gives way to GET /me, with the new token.
ThenMe(c) == [call EXCEPT ![c] = Sent("me", call[c].gives)]

\* silentRefresh(): getMe follows; after a timer it does not, because
\* scheduleRefresh has cancelled the subscription.
RefreshAnswered(c) ==
  /\ Answered(c, {"refresh", "timer"}, "ok")
  /\ TakesToken(c, tab.at, IF call[c].kind = "refresh" THEN ThenMe(c) ELSE Done(c))

VerifyAnswered(c) ==
  /\ Answered(c, {"verify"}, "ok")
  /\ IF call[c].gives = None THEN UNCHANGED tab /\ call' = Done(c)
     ELSE TakesToken(c, tab.at, ThenMe(c))

\* The error interceptor signs out on any 401, that of a wrong password and
\* that of a refresh too; getMe() does on any error (after a 401 once more,
\* which changes nothing and is left out).
Refused(c) ==
  /\ \/ Answered(c, {"refresh", "timer", "login", "me"}, "401")
     \/ Answered(c, {"me"}, "failed")
  /\ SignsOut(c, call)

\* silentRefresh() drops the token on any other error, and stays where it is.
RefreshFailed(c) ==
  /\ Answered(c, {"refresh", "timer"}, "failed")
  /\ tab' = [tab EXCEPT !.token = None]
  /\ call' = Done(c)

\* Nothing is done about these.
Ignored(c) ==
  /\ \/ Answered(c, {"logout", "me"}, "ok")
     \/ Answered(c, {"login", "verify", "logout"}, "failed")
  /\ call' = Done(c)
  /\ UNCHANGED tab

\* An aborted call is forgotten, handled or not.
Forgotten(c) ==
  /\ call[c].cut
  /\ call' = Done(c)
  /\ UNCHANGED <<tab, cookie, server, calm>>

\* authGuard: a page of the app is entered with a token only.
Enter ==
  /\ tab.at = "public" /\ tab.token # None
  /\ tab' = [tab EXCEPT !.at = "app"]
  /\ UNCHANGED <<cookie, server, call, calm>>
-----------------------------------------------------------------------------
\* Steps that spend some of the bound.
SessionAct ==
  \/ Expires \/ OtherTabRefreshes \/ OtherTabSignsOut
  \/ \E c \in Calls : \/ Boot(c) \/ Login(c) \/ VerifyEmail(c) \/ SignOut(c)
                      \/ TimerFires(c) \/ Lost(c)

Handle(c) ==
  /\ \/ HandleRefresh(c) \/ HandleLogin(c) \/ HandleVerify(c)
     \/ HandleMe(c) \/ HandleLogout(c)
  /\ UNCHANGED <<tab, cookie, calm>>

SessionReply ==
  \/ Enter
  \/ \E c \in Calls : \/ Handle(c) \/ LoginAnswered(c) \/ RefreshAnswered(c)
                      \/ VerifyAnswered(c) \/ Refused(c) \/ RefreshFailed(c)
                      \/ Ignored(c) \/ Forgotten(c)
-----------------------------------------------------------------------------
\* After the user has signed out neither the timer nor an answer brings a token
\* back, unless a login, a verification or a refresh that nothing aborts - the one
\* at boot, or of a token about to expire - was in flight then (logout,
\* cancelRefreshTimer, scheduleRefresh).
LogoutHolds == tab.signedOut => tab.token = None

\* A tab with a token will refresh it - the timer runs, or a refresh is in
\* flight - and as long as no two calls of the session have met, none was lost
\* and no other tab has signed out, its cookie names a live session.
StaysLoggedIn ==
  tab.token # None =>
    /\ tab.timer \/ InFlight({"refresh", "timer"}) # {}
    /\ calm /\ InFlight(TokenMakers \cup {"logout"}) = {} => cookie \in server.live
-----------------------------------------------------------------------------
(* Why they hold. *)

\* Nothing that could bring a token is on its way to a tab that was signed out.
SignedOutQuiet ==
  tab.signedOut => /\ tab.token = None /\ ~tab.timer
                   /\ InFlight(TokenMakers \cup {"verify"}) = {}

RefreshComing == tab.token # None => tab.timer \/ InFlight({"refresh", "timer"}) # {}

\* A calm tab has one call that changes its session at most; the session it will
\* bring is live.
Changing(c) == call[c].kind \in TokenMakers \cup {"verify", "logout"}

CalmCall(c) ==
  /\ call[c].result # "failed"
  /\ Changing(c) => call[c].kind # "verify" /\ ~call[c].cut
  /\ call[c].kind \in TokenMakers /\ call[c].result = "ok" => call[c].gives \in server.live
  /\ call[c].kind = "logout" => tab.token = None
  /\ call[c].kind = "me" => ~call[c].wipes

CalmCalls ==
  calm => /\ \A c, d \in Calls : Changing(c) /\ Changing(d) => c = d
          /\ \A c \in Calls : CalmCall(c)

CalmCookie ==
  calm /\ tab.token # None /\ (\A c \in Calls : ~Changing(c)) => cookie \in server.live

\* Numbers on their way are old ones, and the tokens suffice for every call that
\* will make one.
NumbersKnown ==
  /\ cookie <= server.made
  /\ \A c \in Calls : call[c].cookie <= server.made /\ call[c].gives <= server.made

Spending == {c \in Calls : /\ call[c].at = "sent"
                           /\ \/ call[c].kind \in {"login", "verify"}
                              \/ /\ call[c].kind \in {"refresh", "timer"}
                                 /\ call[c].cookie \in server.live}

TokensLast == server.made + Cardinality(Spending) <= MaxTokens

SessionInv ==
  /\ SessionTypeOK /\ SignedOutQuiet /\ RefreshComing /\ CalmCalls /\ CalmCookie
  /\ NumbersKnown /\ TokensLast
=============================================================================
