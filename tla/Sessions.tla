------------------------------ MODULE Sessions ------------------------------
(***************************************************************************)
(* Sessions of one account: lib/session.ts, the routes of routes/auth.ts   *)
(* that make, rotate and revoke them, and the guard of lib/login-guard.ts. *)
(*                                                                         *)
(* A request is a sequence of database and Redis calls; other requests of  *)
(* the account run between any two of them.  Sessions are numbered in the  *)
(* order in which their rows are inserted, which is the order createdAt    *)
(* gives them.  A row knows the login it goes back to, and how many        *)
(* revocations of all sessions came before that login compared the         *)
(* password; neither is a column.                                          *)
(***************************************************************************)
EXTENDS Naturals, FiniteSets

CONSTANTS
  Requests,       \* requests that may be in progress at a time
  Cap,            \* MAX_SESSIONS_PER_USER
  MaxAttempts,    \* wrong passwords that lock the account
  MaxSessions,    \* bound: session rows ever made
  MaxGuesses,     \* bound: wrong passwords since the last unlocking
  MaxRevocations, \* bound: revocations of all sessions
  MaxFaults       \* bound: failed calls and crashes

ASSUME SessionsAssumption ==
  /\ IsFiniteSet(Requests) /\ Requests # {}
  /\ Cap \in Nat \ {0} /\ MaxAttempts \in Nat \ {0}
  /\ MaxSessions \in Nat /\ MaxGuesses \in Nat
  /\ MaxRevocations \in Nat /\ MaxFaults \in Nat

VARIABLES
  session,      \* Session rows
  made,         \* how many rows were ever inserted
  account,      \* the User row: not deleted yet, and a reset link is valid
  revocations,  \* how often all sessions were revoked
  guard,        \* login_attempts:<email> and its lock in Redis
  req,          \* requests in progress
  faults

vars == <<session, made, account, revocations, guard, req, faults>>

Ids == 1 .. MaxSessions

\* dead: revokedAt is set or expiresAt has passed; gone: deleted.
Row == [state : {"none", "live", "dead", "gone"},
        login : 0 .. MaxSessions,
        root  : Nat]

Idle == [pc |-> "idle", old |-> 0, seen |-> {}, listed |-> 0, root |-> 0]

\* seen: the live rows a login listed; listed: how many rows there had been.

Request == [pc     : {"idle", "compare", "count", "lock", "uncount", "clear",
                      "unlock", "list", "trim", "insert", "rotate", "mistrust",
                      "save", "revoke"},
            old    : 0 .. MaxSessions,
            seen   : SUBSET Ids,
            listed : 0 .. MaxSessions,
            root   : Nat]

TypeOK ==
  /\ session \in [Ids -> Row]
  /\ made \in 0 .. MaxSessions
  /\ account \in [deleted : BOOLEAN, link : BOOLEAN]
  /\ revocations \in Nat
  /\ guard \in [attempts : Nat, locked : BOOLEAN, guesses : Nat]
  /\ req \in [Requests -> Request]
  /\ faults \in Nat

Init ==
  /\ session = [s \in Ids |-> [state |-> "none", login |-> 0, root |-> 0]]
  /\ made = 0
  /\ account = [deleted |-> FALSE, link |-> FALSE]
  /\ revocations = 0
  /\ guard = [attempts |-> 0, locked |-> FALSE, guesses |-> 0]
  /\ req = [r \in Requests |-> Idle]
  /\ faults = 0

At(r, pc)   == req[r].pc = pc
Goes(r, pc) == req' = [req EXCEPT ![r] = [req[r] EXCEPT !.pc = pc]]
Ends(r)     == req' = [req EXCEPT ![r] = Idle]

Live == {s \in Ids : session[s].state = "live"}

\* The sessions in D stop being live; deleted rows stay deleted.
Revoked(D) == [s \in Ids |-> IF s \in D /\ session[s].state = "live"
                             THEN [session[s] EXCEPT !.state = "dead"]
                             ELSE session[s]]

Among(pcs) == {r \in Requests : req[r].pc \in pcs}

\* Requests that may still insert a row.
Makers == Among({"compare", "clear", "unlock", "list", "trim", "insert", "rotate"})
Room == made + Cardinality(Makers) < MaxSessions
-----------------------------------------------------------------------------
(* POST /login *)

\* checkLoginAllowed; a locked account is answered 429.
LoginCheck(r) ==
  /\ At(r, "idle") /\ ~guard.locked /\ Room
  /\ Goes(r, "compare")
  /\ UNCHANGED <<session, made, account, revocations, guard, faults>>

\* The user is found and the password is right.
LoginRight(r) ==
  /\ At(r, "compare") /\ ~account.deleted
  /\ req' = [req EXCEPT ![r] = [Idle EXCEPT !.pc = "clear", !.root = revocations]]
  /\ UNCHANGED <<session, made, account, revocations, guard, faults>>

\* No such user, or a wrong password.
LoginWrong(r) ==
  /\ At(r, "compare") /\ guard.guesses < MaxGuesses
  /\ guard' = [guard EXCEPT !.guesses = @ + 1]
  /\ Goes(r, "count")
  /\ UNCHANGED <<session, made, account, revocations, faults>>

\* recordFailedAttempt: incr, then set the lock, then delete the counter.  The expire
\* after the first incr is one step with it: where it is never called the counter
\* stays, as it may do here anyway.
CountAttempt(r) ==
  /\ At(r, "count")
  /\ guard' = [guard EXCEPT !.attempts = @ + 1]
  /\ IF guard.attempts + 1 >= MaxAttempts THEN Goes(r, "lock") ELSE Ends(r)
  /\ UNCHANGED <<session, made, account, revocations, faults>>

\* Mutant: the counter is deleted, and the lock is not set.
SetNoLock(r) ==
  /\ At(r, "lock")
  /\ Goes(r, "uncount")
  /\ UNCHANGED <<session, made, account, revocations, guard, faults>>

SetLock(r) ==
  /\ At(r, "lock")
  /\ guard' = [guard EXCEPT !.locked = TRUE]
  /\ Goes(r, "uncount")
  /\ UNCHANGED <<session, made, account, revocations, faults>>

DeleteCount(r) ==
  /\ At(r, "uncount")
  /\ guard' = [guard EXCEPT !.attempts = 0]
  /\ Ends(r)
  /\ UNCHANGED <<session, made, account, revocations, faults>>

\* clearFailedAttempts: two deletes.
ClearCount(r) ==
  /\ At(r, "clear")
  /\ guard' = [guard EXCEPT !.attempts = 0]
  /\ Goes(r, "unlock")
  /\ UNCHANGED <<session, made, account, revocations, faults>>

ClearLock(r) ==
  /\ At(r, "unlock")
  /\ guard' = [guard EXCEPT !.locked = FALSE, !.guesses = 0]
  /\ Goes(r, "list")
  /\ UNCHANGED <<session, made, account, revocations, faults>>

\* Redis drops the lock after LOCKOUT_SECONDS.
LockLapses ==
  /\ guard.locked
  /\ guard' = [guard EXCEPT !.locked = FALSE, !.guesses = 0]
  /\ UNCHANGED <<session, made, account, revocations, req, faults>>

\* ... and the counter ATTEMPT_WINDOW_SECONDS after the first wrong password.
WindowLapses ==
  /\ guard.attempts > 0
  /\ guard' = [guard EXCEPT !.attempts = 0, !.guesses = 0]
  /\ UNCHANGED <<session, made, account, revocations, req, faults>>

\* Mutant: nothing is revoked, however many sessions there are.
ListUncapped(r) ==
  /\ At(r, "list")
  /\ req' = [req EXCEPT ![r] = [req[r] EXCEPT !.pc = "insert", !.seen = Live,
                                         !.listed = made]]
  /\ UNCHANGED <<session, made, account, revocations, guard, faults>>

\* createSession: the active sessions, oldest first ...
ListSessions(r) ==
  /\ At(r, "list")
  /\ req' = [req EXCEPT ![r] = [req[r] EXCEPT
               !.pc = IF Cardinality(Live) >= Cap THEN "trim" ELSE "insert",
               !.seen = Live, !.listed = made]]
  /\ UNCHANGED <<session, made, account, revocations, guard, faults>>

\* Of the sessions seen, all but the latest Cap - 1.
Oldest(S) == {s \in S : Cardinality({t \in S : t > s}) >= Cap - 1}

\* ... of which all but Cap - 1 are revoked by their ids ...
TrimSessions(r) ==
  /\ At(r, "trim")
  /\ session' = Revoked(Oldest(req[r].seen))
  /\ Goes(r, "insert")
  /\ UNCHANGED <<made, account, revocations, guard, faults>>

NewRow(login, root) == [state |-> "live", login |-> login, root |-> root]

\* ... and the new one is inserted.
InsertSession(r) ==
  /\ At(r, "insert") /\ made < MaxSessions
  /\ made' = made + 1
  /\ session' = [session EXCEPT ![made + 1] = NewRow(made + 1, req[r].root)]
  /\ Ends(r)
  /\ UNCHANGED <<account, revocations, guard, faults>>
-----------------------------------------------------------------------------
(* POST /refresh-token and POST /logout.  A browser sends the cookie it has, *)
(* or had when the request left: any session there has been.                 *)

\* rotateSession finds a live row, whose ip may be another one.
FindSession(r, s) ==
  /\ At(r, "idle") /\ Room
  /\ s \in Live
  /\ \E pc \in {"rotate", "mistrust"} :
       req' = [req EXCEPT ![r] = [Idle EXCEPT !.pc = pc, !.old = s]]
  /\ UNCHANGED <<session, made, account, revocations, guard, faults>>

Exists(s) == session[s].state \in {"live", "dead"}

\* Mutant: a row that is not there any more does not stop the rotation.
RotateAnyway(r) ==
  /\ At(r, "rotate") /\ made < MaxSessions
  /\ made' = made + 1
  /\ session' = [session EXCEPT
       ![made + 1] = NewRow(session[req[r].old].login, session[req[r].old].root),
       ![req[r].old] = [session[req[r].old] EXCEPT !.state = "gone"]]
  /\ Ends(r)
  /\ UNCHANGED <<account, revocations, guard, faults>>

\* The transaction: delete by id, insert.  The delete looks at nothing but
\* the id, so a session that was revoked since it was found is rotated.
Rotate(r) ==
  /\ At(r, "rotate") /\ made < MaxSessions
  /\ Exists(req[r].old)
  /\ made' = made + 1
  /\ session' = [session EXCEPT
       ![made + 1] = NewRow(session[req[r].old].login, session[req[r].old].root),
       ![req[r].old] = [session[req[r].old] EXCEPT !.state = "gone"]]
  /\ Ends(r)
  /\ UNCHANGED <<account, revocations, guard, faults>>

\* The row is gone: the delete throws and the transaction is rolled back.
RotateFails(r) ==
  /\ At(r, "rotate") /\ ~Exists(req[r].old)
  /\ Ends(r)
  /\ UNCHANGED <<session, made, account, revocations, guard, faults>>

\* Another ip: the session is revoked and the answer is 401.
Mistrust(r) ==
  /\ At(r, "mistrust")
  /\ session' = Revoked({req[r].old})
  /\ Ends(r)
  /\ UNCHANGED <<made, account, revocations, guard, faults>>

Delete(s) == session' = [session EXCEPT ![s] = [session[s] EXCEPT !.state = "gone"]]

\* deleteSession; the access token is put on the blacklist before.
Logout(s) ==
  /\ Exists(s)
  /\ Delete(s)
  /\ UNCHANGED <<made, account, revocations, guard, req, faults>>

Expire(s) ==
  /\ s \in Live
  /\ session' = Revoked({s})
  /\ UNCHANGED <<made, account, revocations, guard, req, faults>>

\* The clean-up job deletes what has expired, revoked before or not.
CleanUp(s) ==
  /\ session[s].state = "dead"
  /\ Delete(s)
  /\ UNCHANGED <<made, account, revocations, guard, req, faults>>
-----------------------------------------------------------------------------
(* Revocation of all sessions *)

\* POST /change-password with the right password, and removal of a member
\* (routes/organizations.ts), which writes its row before.
Change(r) ==
  /\ At(r, "idle") /\ ~account.deleted /\ revocations < MaxRevocations
  /\ Goes(r, "revoke")
  /\ UNCHANGED <<session, made, account, revocations, guard, faults>>

\* POST /forgot-password: the new link takes the place of the last one.
Forgot ==
  /\ ~account.deleted
  /\ account' = [account EXCEPT !.link = TRUE]
  /\ UNCHANGED <<session, made, revocations, guard, req, faults>>

\* An hour has passed.
LinkLapses ==
  /\ account.link
  /\ account' = [account EXCEPT !.link = FALSE]
  /\ UNCHANGED <<session, made, revocations, guard, req, faults>>

\* POST /reset-password: the user is found by the link and later updated by
\* the id; two requests may find the same link.
ResetFind(r) ==
  /\ At(r, "idle") /\ account.link /\ revocations < MaxRevocations
  /\ Goes(r, "save")
  /\ UNCHANGED <<session, made, account, revocations, guard, faults>>

ResetSave(r) ==
  /\ At(r, "save")
  /\ account' = [account EXCEPT !.link = FALSE]
  /\ Goes(r, "revoke")
  /\ UNCHANGED <<session, made, revocations, guard, faults>>

\* Mutant: the session that was rotated last is spared.
RevokeAllButLast(r) ==
  /\ At(r, "revoke")
  /\ session' = Revoked(Ids \ {made})
  /\ revocations' = revocations + 1
  /\ Ends(r)
  /\ UNCHANGED <<made, account, guard, faults>>

\* revokeAllUserSessions
RevokeAll(r) ==
  /\ At(r, "revoke")
  /\ session' = Revoked(Ids)
  /\ revocations' = revocations + 1
  /\ Ends(r)
  /\ UNCHANGED <<made, account, guard, faults>>

\* DELETE /users/me, in one transaction: the row is made anonymous, its reset
\* link removed, its sessions revoked.
DeleteAccount(r) ==
  /\ At(r, "idle") /\ ~account.deleted
  /\ account' = [deleted |-> TRUE, link |-> FALSE]
  /\ session' = Revoked(Ids)
  /\ revocations' = revocations + 1
  /\ UNCHANGED <<made, guard, req, faults>>

\* A call fails, or the process dies: the handler answers 500 or nothing.
Fails(r) ==
  /\ ~At(r, "idle")
  /\ faults < MaxFaults /\ faults' = faults + 1
  /\ Ends(r)
  /\ UNCHANGED <<session, made, account, revocations, guard>>
-----------------------------------------------------------------------------
LoginStep(r) ==
  \/ LoginCheck(r) \/ LoginRight(r) \/ LoginWrong(r)
  \/ CountAttempt(r) \/ SetLock(r) \/ DeleteCount(r)
  \/ ClearCount(r) \/ ClearLock(r)
  \/ ListSessions(r) \/ TrimSessions(r) \/ InsertSession(r)

RefreshStep(r) ==
  \/ \E s \in Ids : FindSession(r, s)
  \/ Rotate(r) \/ RotateFails(r) \/ Mistrust(r)

RevokeStep(r) ==
  \/ Change(r) \/ ResetFind(r) \/ ResetSave(r)
  \/ RevokeAll(r) \/ DeleteAccount(r)

Next ==
  \/ \E r \in Requests : LoginStep(r) \/ RefreshStep(r) \/ RevokeStep(r) \/ Fails(r)
  \/ \E s \in Ids : Logout(s) \/ Expire(s) \/ CleanUp(s)
  \/ LockLapses \/ WindowLapses \/ Forgot \/ LinkLapses

Spec == Init /\ [][Next]_vars
-----------------------------------------------------------------------------
\* Two refreshes with one cookie never leave two sessions: of all the rows that
\* go back to one login, at most one is there (rotateSession).
RotationNeverForks ==
  \A s, t \in Ids : Exists(s) /\ Exists(t) /\ session[s].login = session[t].login
                    => s = t

Survivors == {s \in Live : session[s].root < revocations}

\* Once all sessions have been revoked, those that go back to a login before it
\* and are live again are no more than the other requests that were in progress:
\* a login that had compared the password, a rotation that had found its row.
\* Without such requests none survives (revokeAllUserSessions).
SurvivorsBounded == Cardinality(Survivors) <= Cardinality(Requests) - 1

\* When a login inserts its row, the other live sessions are fewer than the cap, not
\* counting those whose rows were inserted since it listed them (createSession).
SessionsBounded ==
  \A r \in Requests :
    At(r, "insert") => Cardinality(Live) < Cap + (made - req[r].listed)

\* Wrong passwords since the account was last unlocked, in one window.  The counter
\* lets MaxAttempts - 1 pass, and as many again when it is deleted late: by a request
\* that had set an earlier lock, by a right login between its two deletes, or by one
\* that failed there.  Besides, each request may be past the check when the lock is
\* set, and a failure keeps one from being counted (login-guard.ts).
GuessesBounded ==
  LET n == Cardinality(Requests)
  IN  guard.guesses <= (MaxAttempts - 1) * (n + Cardinality(Among({"unlock"})) + faults)
                       + n + faults
-----------------------------------------------------------------------------
\* Logins that compared the password before the last revocation and are not done,
\* and rows from before it that are live or that a rotation has found.
LoginPcs  == {"clear", "unlock", "list", "trim", "insert"}
OldLogins == {r \in Requests : req[r].pc \in LoginPcs /\ req[r].root < revocations}
Found(s)  == \E r \in Requests : req[r].pc = "rotate" /\ req[r].old = s
Sources   == {s \in Ids : /\ session[s].root < revocations
                          /\ \/ session[s].state = "live"
                             \/ session[s].state = "dead" /\ Found(s)}

\* The inductive invariant.
Numbered == \A s \in Ids : /\ s > made => session[s].state = "none"
                           /\ session[s].login <= made
                           /\ session[s].root <= revocations

Holding == \A r \in Requests :
  /\ req[r].pc \in {"rotate", "mistrust"} => req[r].old \in Ids
  /\ req[r].root <= revocations

SurvivorsCounted ==
  Cardinality(Sources) + Cardinality(OldLogins) <= Cardinality(Requests) - 1

IInv == TypeOK /\ Numbered /\ Holding /\ RotationNeverForks /\ SurvivorsCounted

\* The inductive invariant of the cap: what a login listed is all there was, and
\* trimming leaves less than the cap of it.
Listed(r) == {s \in Live : s <= req[r].listed}

CapKept == \A r \in Requests :
  /\ req[r].listed <= made
  /\ At(r, "trim") => Listed(r) \subseteq req[r].seen
  /\ At(r, "insert") => Cardinality(Listed(r)) <= Cap - 1

\* That of the lock.  Until it is set, each request that has yet to delete the counter
\* for an earlier lock takes one of the late deletions; once it is set, nobody passes
\* the check and only those who have passed it may still guess.
Deletions == Cardinality(Requests) + Cardinality(Among({"unlock"})) + faults

GuessesCounted ==
  LET k == MaxAttempts - 1
  IN  IF guard.locked
      THEN guard.guesses + Cardinality(Among({"compare"}))
             <= k * Deletions + Cardinality(Requests) + faults
      ELSE guard.guesses > 0 =>
             guard.guesses
               <= k * (Deletions - 1 - Cardinality(Among({"uncount"})))
                  + (IF guard.attempts < k THEN guard.attempts ELSE k)
                  + Cardinality(Among({"count", "lock"})) + faults
=============================================================================
