--------------------------- MODULE RecordsProofs ----------------------------
(***************************************************************************)
(* What the database and the store keep: the versions of contracts         *)
(* (ContractVersions) and the documents of matters (Documents), which share *)
(* no state, for every set of rows and requests and every number of        *)
(* failures.                                                               *)
(*                                                                         *)
(* Versions: the unique key alone keeps the history gapless, and the       *)
(* transactions implement an append-only log.                              *)
(* Documents: uploads in progress and failures account for every object    *)
(* without a row, and retention takes only what was due.                   *)
(***************************************************************************)
EXTENDS ContractVersions, Documents, Sequences, FiniteSetTheorems, TLAPS

Numbers(c) == {v.number : v \in RowsOf(c)}

Inserted(r) == tx[r].pc \in {"point", "commit"}

(* What keeps the numbers gapless: a transaction that has inserted its row *)
(* has the next number of its contract, and no other has inserted a row    *)
(* for the same contract.                                                  *)
TxTrue(r) ==
  /\ tx[r].pc \notin {"idle", "done"} => tx[r].contract \in Contracts
  /\ tx[r].pc = "insert" => tx[r].number \in 1 .. Latest(tx[r].contract) + 1
  /\ Inserted(r) => tx[r].number = Latest(tx[r].contract) + 1
  /\ tx[r].pc # "done" => \A v \in version : v.id # r

Alone ==
  \A r, s \in Requests :
     Inserted(r) /\ Inserted(s) /\ r # s => tx[r].contract # tx[s].contract

IInv ==
  /\ TypeOK
  /\ \A c \in Contracts : Latest(c) \in Nat
  /\ NumbersGapless
  /\ CurrentIsLatest
  /\ \A r \in Requests : TxTrue(r)
  /\ Alone

(* The latest of the numbers 1 to k is k. *)
LEMMA MaxOf ==
  ASSUME NEW k \in Nat
  PROVE  Max({0} \cup 1 .. k) = k
<1> DEFINE S == {0} \cup 1 .. k
<1>1. k \in S /\ \A y \in S : k >= y
  OBVIOUS
<1>2. ASSUME NEW x \in S, \A y \in S : x >= y
      PROVE  x = k
  BY <1>1, <1>2
<1>3. QED
  BY <1>1, <1>2 DEF Max

(* The initial state satisfies the invariant. *)
LEMMA InitInv == Init => IInv
<1> SUFFICES ASSUME Init PROVE IInv
  OBVIOUS
<1>1. TypeOK
  BY DEF Init, TypeOK, NewTx, Tx, Pc
<1>2. \A c \in Contracts : RowsOf(c) = {}
  BY DEF Init, RowsOf
<1>3. \A c \in Contracts : Numbers(c) = 1 .. 0
  BY <1>2 DEF Numbers
<1>4. \A c \in Contracts : Latest(c) = 0
  BY <1>3, MaxOf DEF Latest, Numbers
<1>5. NumbersGapless
  BY <1>2, <1>4 DEF NumbersGapless
<1>6. CurrentIsLatest
  BY <1>2 DEF CurrentIsLatest, Init
<1>7. \A r \in Requests : tx[r].pc = "idle"
  BY DEF Init, NewTx
<1>8. (\A r \in Requests : TxTrue(r)) /\ Alone
  BY <1>7 DEF TxTrue, Alone, Inserted, Init
<1>9. QED
  BY <1>1, <1>4, <1>5, <1>6, <1>8 DEF IInv

(* What a commit does to the rows of each contract. *)
LEMMA CommitRows ==
  ASSUME IInv, NEW r \in Requests, Commit(r),
         NEW d \in Contracts, d = tx[r].contract
  PROVE  LET v == [id |-> r, contract |-> d, number |-> Latest(d) + 1]
         IN  /\ v \in Row /\ version' = version \cup {v}
             /\ RowsOf(d)' = RowsOf(d) \cup {v} /\ v \notin RowsOf(d)
             /\ Latest(d)' = Latest(d) + 1
             /\ \A c \in Contracts \ {d} :
                  RowsOf(c)' = RowsOf(c) /\ Latest(c)' = Latest(c)
<1> DEFINE v == [id |-> r, contract |-> d, number |-> Latest(d) + 1]
<1>1. tx[r].pc = "commit" /\ TxTrue(r)
  BY DEF Commit, IInv
<1>2. tx[r].number = Latest(d) + 1 /\ Latest(d) \in Nat
  BY <1>1 DEF TxTrue, Inserted, IInv
<1>3. v \in Row /\ version' = version \cup {v}
  BY <1>2 DEF Commit, Row
<1>4. RowsOf(d)' = RowsOf(d) \cup {v}
  BY <1>3 DEF RowsOf
<1>5. v \notin RowsOf(d)
  BY <1>1 DEF TxTrue, RowsOf
<1>6. Numbers(d) = 1 .. Latest(d)
  BY <1>2 DEF IInv, NumbersGapless, Numbers
<1>7. Numbers(d)' = 1 .. (Latest(d) + 1)
  <2>1. Numbers(d)' = Numbers(d) \cup {Latest(d) + 1}
    <3>1. Numbers(d)' = {w.number : w \in RowsOf(d) \cup {v}}
      BY <1>4 DEF Numbers
    <3>2. v.number = Latest(d) + 1
      OBVIOUS
    <3>3. ASSUME NEW n
          PROVE  n \in Numbers(d)' <=> n \in Numbers(d) \cup {Latest(d) + 1}
      BY <3>1, <3>2 DEF Numbers
    <3>4. QED
      BY <3>3
  <2>2. QED
    BY <1>2, <1>6, <2>1
<1>8. Latest(d)' = Latest(d) + 1
  <2>1. Latest(d)' = Max({0} \cup Numbers(d)')
    BY DEF Latest, Numbers
  <2>2. QED
    BY <1>2, <1>7, <2>1, MaxOf
<1>9. \A c \in Contracts \ {d} : RowsOf(c)' = RowsOf(c)
  BY <1>3 DEF RowsOf
<1>10. \A c \in Contracts \ {d} : Latest(c)' = Latest(c)
  BY <1>9 DEF Latest
<1>11. QED
  BY <1>3, <1>4, <1>5, <1>8, <1>9, <1>10

(* No step leaves the types. *)
LEMMA TypeStep == IInv /\ [Next]_vars => TypeOK'
<1> SUFFICES ASSUME IInv, [Next]_vars PROVE TypeOK'
  OBVIOUS
<1>0. TypeOK
  BY DEF IInv
<1>g. ASSUME NEW r \in Requests, NEW pc \in Pc, Goto(r, pc)
      PROVE  tx' \in [Requests -> Tx]
  <2>1. [tx[r] EXCEPT !.pc = pc] \in Tx
    BY <1>0, <1>g DEF TypeOK, Tx
  <2>2. QED
    BY <1>0, <1>g, <2>1 DEF TypeOK, Goto
<1>1. ASSUME NEW r \in Requests, NEW c \in Contracts, Begin(r, c)
      PROVE  TypeOK'
  BY <1>0, <1>1 DEF TypeOK, Begin, Tx, Pc
<1>2. ASSUME NEW r \in Requests, ReadLatest(r)
      PROVE  TypeOK'
  <2> DEFINE n == Latest(tx[r].contract) + 1
  <2>1. tx[r].contract \in Contracts
    BY <1>2 DEF IInv, TxTrue, ReadLatest
  <2>2. n \in Nat
    BY <2>1 DEF IInv
  <2>3. [tx[r] EXCEPT !.pc = "insert", !.number = n] \in Tx
    BY <1>0, <2>2 DEF TypeOK, Tx, Pc
  <2>4. QED
    BY <1>0, <1>2, <2>3 DEF TypeOK, ReadLatest
<1>3. ASSUME NEW r \in Requests, Insert(r) \/ InsertConflicts(r) \/ Point(r)
      PROVE  TypeOK'
  BY <1>0, <1>3, <1>g DEF TypeOK, Insert, InsertConflicts, Point, Pc
<1>4. ASSUME NEW r \in Requests, Fails(r)
      PROVE  TypeOK'
  BY <1>0, <1>4, <1>g DEF TypeOK, Fails, Fault, Pc
<1>5. ASSUME NEW r \in Requests, Commit(r)
      PROVE  TypeOK'
  <2>1. PICK d \in Contracts : d = tx[r].contract
    BY <1>5 DEF IInv, TxTrue, Commit
  <2>2. version' \subseteq Row
    <3> DEFINE v == [id |-> r, contract |-> d, number |-> Latest(d) + 1]
    <3>1. v \in Row /\ version' = version \cup {v}
      BY <1>5, <2>1, CommitRows
    <3>2. QED
      BY <1>0, <3>1 DEF TypeOK
  <2>3. current' \in [Contracts -> Requests \cup {None}]
    BY <1>0, <1>5 DEF TypeOK, Commit
  <2>4. tx' \in [Requests -> Tx]
    BY <1>5, <1>g DEF Commit, Pc
  <2>5. QED
    BY <1>0, <1>5, <2>2, <2>3, <2>4 DEF TypeOK, Commit
<1>6. ASSUME NEW c \in Contracts, Delete(c)
      PROVE  TypeOK'
  BY <1>0, <1>6 DEF TypeOK, Delete
<1>7. CASE UNCHANGED vars
  BY <1>0, <1>7 DEF TypeOK, vars
<1>8. QED
  BY <1>1, <1>2, <1>3, <1>4, <1>5, <1>6, <1>7 DEF Next, Step

(* Every step but a commit leaves the rows and the pointers alone. *)
LEMMA OnlyCommitWrites ==
  IInv /\ [Next]_vars
    => \/ UNCHANGED <<version, current>>
       \/ \E r \in Requests : Commit(r)
  BY DEF Next, Step, Begin, ReadLatest, Insert, InsertConflicts, Point, Fails, Delete, vars

(* The numbers stay 1 to the latest, and the pointer follows them. *)
LEMMA RowsStep ==
  IInv /\ [Next]_vars
    => NumbersGapless' /\ CurrentIsLatest' /\ \A c \in Contracts : Latest(c)' \in Nat
<1> SUFFICES ASSUME IInv, [Next]_vars, NEW c \in Contracts
             PROVE  /\ Numbers(c)' = 1 .. Latest(c)' /\ Latest(c)' \in Nat
                    /\ \A v, w \in RowsOf(c)' : v.number = w.number => v = w
                    /\ IF RowsOf(c)' = {} THEN current'[c] = None
                       ELSE \E v \in RowsOf(c)' : v.id = current'[c] /\ v.number = Latest(c)'
  BY DEF NumbersGapless, CurrentIsLatest, Numbers
<1>0. /\ TypeOK /\ Latest(c) \in Nat /\ Numbers(c) = 1 .. Latest(c)
      /\ \A v, w \in RowsOf(c) : v.number = w.number => v = w
      /\ IF RowsOf(c) = {} THEN current[c] = None
         ELSE \E v \in RowsOf(c) : v.id = current[c] /\ v.number = Latest(c)
  BY DEF IInv, NumbersGapless, CurrentIsLatest, Numbers
<1>1. ASSUME RowsOf(c)' = RowsOf(c), Latest(c)' = Latest(c), current'[c] = current[c]
      PROVE  /\ Numbers(c)' = 1 .. Latest(c)' /\ Latest(c)' \in Nat
             /\ \A v, w \in RowsOf(c)' : v.number = w.number => v = w
             /\ IF RowsOf(c)' = {} THEN current'[c] = None
                ELSE \E v \in RowsOf(c)' : v.id = current'[c] /\ v.number = Latest(c)'
  <2>1. Numbers(c)' = Numbers(c)
    BY <1>1 DEF Numbers
  <2>2. QED
    BY <1>0, <1>1, <2>1
<1>2. CASE UNCHANGED <<version, current>>
  BY <1>1, <1>2 DEF RowsOf, Latest
<1>3. ASSUME NEW r \in Requests, Commit(r)
      PROVE  /\ Numbers(c)' = 1 .. Latest(c)' /\ Latest(c)' \in Nat
             /\ \A v, w \in RowsOf(c)' : v.number = w.number => v = w
             /\ IF RowsOf(c)' = {} THEN current'[c] = None
                ELSE \E v \in RowsOf(c)' : v.id = current'[c] /\ v.number = Latest(c)'
  <2>1. PICK d \in Contracts : d = tx[r].contract
    BY <1>3 DEF IInv, TxTrue, Commit
  <2>2. CASE c # d
    <3>1. current'[c] = current[c]
      BY <1>0, <1>3, <2>1, <2>2 DEF TypeOK, Commit
    <3>2. QED
      BY <1>1, <1>3, <2>1, <2>2, <3>1, CommitRows
  <2>3. CASE c = d
    <3> DEFINE v == [id |-> r, contract |-> c, number |-> Latest(c) + 1]
    <3>1. RowsOf(c)' = RowsOf(c) \cup {v} /\ Latest(c)' = Latest(c) + 1
      BY <1>3, <2>1, <2>3, CommitRows
    <3>2. Numbers(c)' = 1 .. (Latest(c) + 1)
      <4>1. ASSUME NEW n
            PROVE  n \in Numbers(c)' <=> n \in Numbers(c) \cup {Latest(c) + 1}
        <5>1. Numbers(c)' = {w.number : w \in RowsOf(c) \cup {v}} /\ v.number = Latest(c) + 1
          BY <3>1 DEF Numbers
        <5>2. QED
          BY <5>1 DEF Numbers
      <4>2. Numbers(c)' = Numbers(c) \cup {Latest(c) + 1}
        BY <4>1
      <4>3. Numbers(c) = 1 .. Latest(c) /\ Latest(c) \in Nat
        BY <1>0
      <4>4. QED
        BY <4>2, <4>3
    <3>3. \A w \in RowsOf(c) : w.number \in 1 .. Latest(c)
      BY <1>0 DEF Numbers
    <3>4. current'[c] = r
      BY <1>0, <1>3, <2>1, <2>3 DEF TypeOK, Commit
    <3>5. \A w, x \in RowsOf(c)' : w.number = x.number => w = x
      BY <1>0, <3>1, <3>3
    <3>6. v \in RowsOf(c)' /\ v.id = current'[c] /\ v.number = Latest(c)'
      BY <3>1, <3>4
    <3>7. RowsOf(c)' # {}
      BY <3>6
    <3>8. Latest(c)' = Latest(c) + 1 /\ Latest(c)' \in Nat
      BY <1>0, <3>1
    <3>9. Numbers(c)' = 1 .. Latest(c)'
      BY <3>2, <3>8
    <3>10. QED
      BY <3>5, <3>6, <3>7, <3>8, <3>9
  <2>4. QED
    BY <2>2, <2>3
<1>4. QED
  BY <1>2, <1>3, OnlyCommitWrites

(* A transaction that inserts takes a number and a contract nobody holds;  *)
(* a commit moves the latest number past those who read it before.         *)
LEMMA TxStep == IInv /\ [Next]_vars => (\A r \in Requests : TxTrue(r)')
<1> SUFFICES ASSUME IInv, [Next]_vars, NEW r \in Requests PROVE TxTrue(r)'
  OBVIOUS
<1>0. /\ TypeOK /\ TxTrue(r) /\ Alone
      /\ \A c \in Contracts : Latest(c) \in Nat
      /\ \A c \in Contracts : Numbers(c) = 1 .. Latest(c)
  BY DEF IInv, NumbersGapless, Numbers
<1>1. ASSUME UNCHANGED version, tx'[r] = tx[r]
      PROVE  TxTrue(r)'
  <2>1. \A c : Latest(c)' = Latest(c)
    BY <1>1 DEF Latest, RowsOf
  <2>2. QED
    BY <1>0, <1>1, <2>1 DEF TxTrue, Inserted
<1>2. ASSUME UNCHANGED version, tx'[r] = [tx[r] EXCEPT !.pc = "done"]
      PROVE  TxTrue(r)'
  BY <1>0, <1>2 DEF TxTrue, Inserted, TypeOK, Tx
<1>3. ASSUME NEW s \in Requests, s # r, NEW q, tx' = [tx EXCEPT ![s] = q], UNCHANGED version
      PROVE  TxTrue(r)'
  BY <1>0, <1>1, <1>3 DEF TypeOK
<1>4. ASSUME NEW s \in Requests, NEW c \in Contracts, Begin(s, c)
      PROVE  TxTrue(r)'
  <2>1. CASE s = r
    BY <1>0, <1>4, <2>1 DEF TypeOK, Begin, TxTrue, Inserted
  <2>2. QED
    BY <1>3, <1>4, <2>1 DEF Begin
<1>5. ASSUME NEW s \in Requests, ReadLatest(s)
      PROVE  TxTrue(r)'
  <2>1. CASE s = r
    <3> DEFINE d == tx[r].contract
    <3>1. PICK c \in Contracts : c = d
      BY <1>0, <1>5, <2>1 DEF ReadLatest, TxTrue
    <3>2. /\ tx'[r].pc = "insert" /\ tx'[r].contract = c
          /\ tx'[r].number = Latest(c) + 1
      BY <1>0, <1>5, <2>1, <3>1 DEF ReadLatest, TypeOK, Tx
    <3>3. Latest(c)' = Latest(c) /\ UNCHANGED version
      BY <1>5 DEF ReadLatest, Latest, RowsOf
    <3>4. \A v \in version : v.id # r
      BY <1>0, <1>5, <2>1 DEF ReadLatest, TxTrue
    <3>5. QED
      BY <1>0, <3>2, <3>3, <3>4 DEF TxTrue, Inserted
  <2>2. QED
    BY <1>3, <1>5, <2>1 DEF ReadLatest
<1>6. ASSUME NEW s \in Requests, Insert(s)
      PROVE  TxTrue(r)'
  <2>1. CASE s = r
    <3>1. PICK c \in Contracts : c = tx[r].contract
      BY <1>0, <1>6, <2>1 DEF Insert, TxTrue
    <3>2. /\ tx'[r].pc = "point" /\ tx'[r].contract = c
          /\ tx'[r].number = tx[r].number
      BY <1>0, <1>6, <2>1, <3>1 DEF Insert, Goto, TypeOK, Tx
    <3>3. tx[r].number \in 1 .. Latest(c) + 1 /\ tx[r].number \notin Numbers(c)
      BY <1>0, <1>6, <2>1, <3>1 DEF Insert, Taken, TxTrue, Numbers
    <3>4. tx[r].number = Latest(c) + 1
      BY <1>0, <3>3
    <3>5. Latest(c)' = Latest(c) /\ UNCHANGED version
      BY <1>6 DEF Insert, Latest, RowsOf
    <3>6. \A v \in version : v.id # r
      BY <1>0, <1>6, <2>1 DEF Insert, TxTrue
    <3>7. QED
      BY <3>2, <3>4, <3>5, <3>6 DEF TxTrue, Inserted
  <2>2. QED
    BY <1>3, <1>6, <2>1 DEF Insert, Goto
<1>7. ASSUME NEW s \in Requests, Point(s)
      PROVE  TxTrue(r)'
  <2>1. CASE s = r
    <3>1. tx'[r] = [tx[r] EXCEPT !.pc = "commit"] /\ tx[r].pc = "point"
      BY <1>0, <1>7, <2>1 DEF Point, Goto, TypeOK
    <3>2. /\ tx'[r].pc = "commit" /\ tx'[r].contract = tx[r].contract
          /\ tx'[r].number = tx[r].number
      BY <1>0, <3>1 DEF TypeOK, Tx
    <3>3. UNCHANGED version /\ \A c : Latest(c)' = Latest(c)
      BY <1>7 DEF Point, Latest, RowsOf
    <3>4. QED
      BY <1>0, <3>1, <3>2, <3>3 DEF TxTrue, Inserted
  <2>2. QED
    BY <1>3, <1>7, <2>1 DEF Point, Goto
<1>8. ASSUME NEW s \in Requests, InsertConflicts(s) \/ Fails(s)
      PROVE  TxTrue(r)'
  <2>1. CASE s = r
    BY <1>0, <1>2, <1>8, <2>1 DEF TypeOK, InsertConflicts, Fails, Goto
  <2>2. QED
    BY <1>3, <1>8, <2>1 DEF InsertConflicts, Fails, Goto
<1>9. ASSUME NEW s \in Requests, Commit(s)
      PROVE  TxTrue(r)'
  <2>1. PICK d \in Contracts : d = tx[s].contract
    BY <1>9 DEF IInv, TxTrue, Commit
  <2> DEFINE v == [id |-> s, contract |-> d, number |-> Latest(d) + 1]
  <2>2. /\ version' = version \cup {v} /\ Latest(d)' = Latest(d) + 1
        /\ \A c \in Contracts \ {d} : Latest(c)' = Latest(c)
    BY <1>9, <2>1, CommitRows
  <2>3. CASE s = r
    BY <1>0, <1>9, <2>3 DEF TypeOK, Tx, Commit, Goto, TxTrue, Inserted
  <2>4. CASE s # r
    <3>1. tx'[r] = tx[r]
      BY <1>0, <1>9, <2>4 DEF TypeOK, Commit, Goto
    <3>2. tx[r].pc # "done" => \A w \in version' : w.id # r
      BY <1>0, <2>2, <2>4 DEF TxTrue
    <3>3. Inserted(r) => tx[r].contract # d
      BY <1>0, <1>9, <2>1, <2>4 DEF Alone, Inserted, Commit
    <3>4. tx[r].contract \in Contracts
            => \/ tx[r].contract # d /\ Latest(tx[r].contract)' = Latest(tx[r].contract)
               \/ tx[r].contract = d /\ Latest(tx[r].contract)' = Latest(d) + 1
      BY <2>2, <3>1
    <3>5. QED
      BY <1>0, <3>1, <3>2, <3>3, <3>4 DEF TxTrue, Inserted
  <2>5. QED
    BY <2>3, <2>4
<1>10. ASSUME NEW c \in Contracts, Delete(c)
       PROVE  TxTrue(r)'
  BY <1>1, <1>10 DEF Delete
<1>11. CASE UNCHANGED vars
  BY <1>1, <1>11 DEF vars
<1>12. QED
  BY <1>4, <1>5, <1>6, <1>7, <1>8, <1>9, <1>10, <1>11 DEF Next, Step

(* Two inserted rows of one contract would have the same key. *)
LEMMA AloneStep == IInv /\ [Next]_vars => Alone'
<1> SUFFICES ASSUME IInv, [Next]_vars, NEW r \in Requests, NEW s \in Requests, r # s,
                    Inserted(r)', Inserted(s)'
             PROVE  tx'[r].contract # tx'[s].contract
  BY DEF Alone
<1>0. TypeOK /\ Alone /\ \A t \in Requests : TxTrue(t)
  BY DEF IInv
<1>1. ASSUME NEW t \in Requests, Insert(t), NEW u \in Requests, u # t, Inserted(u)
      PROVE  tx[t].contract # tx[u].contract
  <2>1. SUFFICES ASSUME tx[u].contract = tx[t].contract PROVE FALSE
    OBVIOUS
  <2>2. PICK c \in Contracts : c = tx[t].contract
    BY <1>0, <1>1 DEF Insert, TxTrue
  <2>3. tx[u].number = Latest(c) + 1
    BY <1>0, <1>1, <2>1, <2>2 DEF TxTrue
  <2>4. tx[t].number \in 1 .. Latest(c) + 1 /\ tx[t].number \notin Numbers(c)
    BY <1>0, <1>1, <2>2 DEF Insert, Taken, TxTrue, Numbers
  <2>5. Latest(c) \in Nat /\ Numbers(c) = 1 .. Latest(c)
    BY DEF IInv, NumbersGapless, Numbers
  <2>6. tx[t].number = tx[u].number
    BY <2>3, <2>4, <2>5
  <2>7. u \in SameKey(t)
    BY <1>1, <2>1, <2>6 DEF SameKey, SameContract, Holders, Inserted
  <2>8. QED
    BY <1>1, <2>7 DEF Insert
<1>2. ASSUME NEW t \in Requests, Insert(t)
      PROVE  tx'[r].contract # tx'[s].contract
  <2>1. \A u \in Requests : tx'[u].contract = tx[u].contract
    BY <1>0, <1>2 DEF Insert, Goto, TypeOK, Tx
  <2>2. \A u \in Requests : u # t => tx'[u] = tx[u]
    BY <1>0, <1>2 DEF Insert, Goto, TypeOK
  <2>3. QED
    BY <1>0, <1>1, <1>2, <2>1, <2>2 DEF Alone, Inserted
<1>3. ASSUME \A u \in Requests : Inserted(u)' => Inserted(u) /\ tx'[u].contract = tx[u].contract
      PROVE  tx'[r].contract # tx'[s].contract
  BY <1>0, <1>3 DEF Alone
<1>4. ASSUME NEW t \in Requests, NEW c \in Contracts, Begin(t, c)
      PROVE  tx'[r].contract # tx'[s].contract
  BY <1>0, <1>3, <1>4 DEF Begin, TypeOK, Inserted
<1>5. ASSUME NEW t \in Requests, ReadLatest(t)
      PROVE  tx'[r].contract # tx'[s].contract
  BY <1>0, <1>3, <1>5 DEF ReadLatest, TypeOK, Tx, Inserted
<1>6. ASSUME NEW t \in Requests, InsertConflicts(t) \/ Fails(t) \/ Commit(t)
      PROVE  tx'[r].contract # tx'[s].contract
  BY <1>0, <1>3, <1>6 DEF InsertConflicts, Fails, Commit, Goto, TypeOK, Tx, Inserted
<1>7. ASSUME NEW t \in Requests, Point(t)
      PROVE  tx'[r].contract # tx'[s].contract
  BY <1>0, <1>3, <1>7 DEF Point, Goto, TypeOK, Tx, Inserted
<1>8. CASE (\E c \in Contracts : Delete(c)) \/ UNCHANGED vars
  BY <1>0, <1>3, <1>8 DEF Delete, vars, Inserted
<1>9. QED
  BY <1>2, <1>4, <1>5, <1>6, <1>7, <1>8 DEF Next, Step

-----------------------------------------------------------------------------
(* The history is gapless and the pointer right in every reachable state. *)
THEOREM Invariance == Spec => []IInv
<1>1. IInv /\ [Next]_vars => IInv'
  BY TypeStep, RowsStep, TxStep, AloneStep DEF IInv
<1>2. QED
  BY <1>1, InitInv, PTL DEF Spec

(* Type correctness of the rows and of the transactions in progress. *)
THEOREM TypeCorrect == Spec => []TypeOK
<1>1. IInv => TypeOK
  BY DEF IInv
<1>2. QED
  BY <1>1, Invariance, PTL

(* The unique key of (contractId, number) and the order read, insert, point *)
(* suffice: no interleaving of transactions leaves a gap or a repetition.   *)
THEOREM Gapless == Spec => []NumbersGapless
<1>1. IInv => NumbersGapless
  BY DEF IInv
<1>2. QED
  BY <1>1, Invariance, PTL

(* The contract's currentVersionId is always its highest version. *)
THEOREM PointerFollows == Spec => []CurrentIsLatest
<1>1. IInv => CurrentIsLatest
  BY DEF IInv
<1>2. QED
  BY <1>1, Invariance, PTL
-----------------------------------------------------------------------------
(* The row of a number there is, is one row. *)
LEMMA OneRow ==
  ASSUME IInv, NEW c \in Contracts, NEW v \in RowsOf(c)
  PROVE  VersionNumbered(c, v.number) = v
  BY DEF IInv, NumbersGapless, VersionNumbered

(* Each number up to the latest has a row. *)
LEMMA RowOfNumber ==
  ASSUME IInv, NEW c \in Contracts, NEW n \in 1 .. Latest(c)
  PROVE  \E v \in RowsOf(c) : v.number = n /\ VersionNumbered(c, n) = v
<1>1. PICK v \in RowsOf(c) : v.number = n
  BY DEF IInv, NumbersGapless
<1>2. QED
  BY <1>1, OneRow

(* A commit appends one version to the log of its contract. *)
LEMMA CommitAppends ==
  ASSUME IInv, IInv', NEW r \in Requests, Commit(r)
  PROVE  Log!Next
<1>1. PICK d \in Contracts : d = tx[r].contract
  BY DEF IInv, TxTrue, Commit
<1> DEFINE v == [id |-> r, contract |-> d, number |-> Latest(d) + 1]
<1>2. /\ RowsOf(d)' = RowsOf(d) \cup {v} /\ Latest(d)' = Latest(d) + 1
      /\ \A c \in Contracts \ {d} : RowsOf(c)' = RowsOf(c) /\ Latest(c)' = Latest(c)
  BY <1>1, CommitRows
<1>3. \A c \in Contracts : Latest(c) \in Nat
  BY DEF IInv
<1>4. r \notin Log!Added
  <2>1. ASSUME NEW c \in Contracts, NEW n \in DOMAIN history[c]
        PROVE  history[c][n] # r
    <3>1. n \in 1 .. Latest(c) /\ history[c][n] = VersionNumbered(c, n).id
      BY <2>1 DEF history
    <3>2. PICK w \in RowsOf(c) : VersionNumbered(c, n) = w
      BY <3>1, RowOfNumber
    <3>3. w \in version /\ w.id # r
      BY DEF RowsOf, IInv, TxTrue, Commit
    <3>4. QED
      BY <3>1, <3>2, <3>3
  <2>2. QED
    BY <2>1 DEF Log!Added
<1>5. ASSUME NEW c \in Contracts \ {d}
      PROVE  history'[c] = history[c]
  <2>1. \A n : VersionNumbered(c, n)' = VersionNumbered(c, n)
    BY <1>2 DEF VersionNumbered
  <2>2. QED
    BY <1>2, <2>1 DEF history
<1>6. history'[d] = Append(history[d], r)
  <2>1. PICK k \in Nat : k = Latest(d)
    BY <1>3
  <2>2. history'[d] = [n \in 1 .. (k + 1) |-> VersionNumbered(d, n)'.id]
    BY <1>2, <2>1 DEF history
  <2>3. history[d] = [n \in 1 .. k |-> VersionNumbered(d, n).id]
    BY <2>1 DEF history
  <2>4. VersionNumbered(d, k + 1)'.id = r
    <3>1. v \in RowsOf(d)' /\ v.number = k + 1 /\ v.id = r
      BY <1>2, <2>1
    <3>2. \A w \in RowsOf(d)' : w.number = k + 1 => w = v
      BY <3>1 DEF IInv, NumbersGapless
    <3>3. VersionNumbered(d, k + 1)' = CHOOSE w \in RowsOf(d)' : w.number = k + 1
      BY DEF VersionNumbered
    <3>4. VersionNumbered(d, k + 1)' = v
      BY <3>1, <3>2, <3>3
    <3>5. QED
      BY <3>1, <3>4
  <2>5. ASSUME NEW n \in 1 .. k
        PROVE  VersionNumbered(d, n)' = VersionNumbered(d, n)
    <3>1. PICK w \in RowsOf(d) : w.number = n /\ VersionNumbered(d, n) = w
      BY <2>1, RowOfNumber
    <3>2. \A x \in RowsOf(d)' : x.number = n => x = w
      BY <1>2, <3>1 DEF IInv, NumbersGapless
    <3>3. QED
      BY <1>2, <3>1, <3>2 DEF VersionNumbered
  <2>6. Append(history[d], r)
          = [n \in 1 .. (k + 1) |-> IF n = k + 1 THEN r ELSE history[d][n]]
    BY <2>3
  <2>7. ASSUME NEW n \in 1 .. (k + 1)
        PROVE  VersionNumbered(d, n)'.id = IF n = k + 1 THEN r ELSE history[d][n]
    <3>1. CASE n = k + 1
      BY <2>4, <3>1
    <3>2. CASE n # k + 1
      <4>1. n \in 1 .. k
        BY <2>1, <3>2
      <4>2. history[d][n] = VersionNumbered(d, n).id
        BY <2>3, <4>1
      <4>3. QED
        BY <2>5, <3>2, <4>1, <4>2
    <3>3. QED
      BY <3>1, <3>2
  <2>8. QED
    BY <2>2, <2>6, <2>7
<1>7. history' = [history EXCEPT ![d] = Append(@, r)]
  BY <1>5, <1>6 DEF history
<1>8. QED
  BY <1>4, <1>7 DEF Log!Next, Log!AddVersion

(* Refinement: the transactions of the handler, with their waiting,        *)
(* conflicts and rollbacks, implement a log to which each request appends  *)
(* at most one version.                                                    *)
THEOREM Refinement == Spec => VersionsAreLog
<1>1. Init => Log!Init
  <2>1. SUFFICES ASSUME Init PROVE \A c \in Contracts : history[c] = <<>>
    BY DEF Log!Init, history
  <2>2. TAKE c \in Contracts
  <2>3. Numbers(c) = 1 .. 0
    BY <2>1 DEF Init, RowsOf, Numbers
  <2>4. Latest(c) = 0
    BY <2>3, MaxOf DEF Latest, Numbers
  <2>5. QED
    BY <2>4 DEF history
<1>2. IInv /\ IInv' /\ [Next]_vars => [Log!Next]_history
  <2> SUFFICES ASSUME IInv, IInv', [Next]_vars PROVE [Log!Next]_history
    OBVIOUS
  <2>1. CASE UNCHANGED <<version, current>>
    BY <2>1 DEF history, Latest, RowsOf, VersionNumbered
  <2>2. CASE \E r \in Requests : Commit(r)
    BY <2>2, CommitAppends
  <2>3. QED
    BY <2>1, <2>2, OnlyCommitWrites
<1>3. QED
  BY <1>1, <1>2, Invariance, PTL DEF Spec, VersionsAreLog, Log!Spec
-----------------------------------------------------------------------------
(* Documents *)

Unclaimed == Orphans \ Held

(* The requests that have an object and not yet its row. *)
Uploading == {q \in Callers : At(q, "row")}

LEMMA DocsFinite ==
  /\ IsFiniteSet(Docs) /\ IsFiniteSet(Callers)
  /\ MatterLimit \in Nat \ {0} /\ Attempts \in Nat \ {0} /\ MaxFailures \in Nat
BY DocumentsAssumption

(* Sets of documents can be counted. *)
LEMMA FewerDocs ==
  ASSUME NEW S \in SUBSET Docs, NEW T \in SUBSET S
  PROVE  /\ IsFiniteSet(S) /\ IsFiniteSet(T)
         /\ Cardinality(S) \in Nat /\ Cardinality(T) \in Nat
         /\ Cardinality(T) <= Cardinality(S)
<1>1. IsFiniteSet(S)
  BY DocsFinite, FS_Subset
<1>2. IsFiniteSet(T) /\ Cardinality(T) <= Cardinality(S)
  BY <1>1, FS_Subset
<1>3. QED
  BY <1>1, <1>2, FS_CardinalityType

(* A step after which no other orphan is unclaimed keeps the account. *)
LEMMA NoneLost ==
  ASSUME DocumentsTypeOK, OrphansCharged, Unclaimed' \subseteq Unclaimed,
         failures' \in Nat, failures <= failures'
  PROVE  OrphansCharged'
<1>1. Unclaimed \subseteq Docs
  BY DEF Unclaimed, Orphans
<1>2. /\ Cardinality(Unclaimed) \in Nat /\ Cardinality(Unclaimed') \in Nat
      /\ Cardinality(Unclaimed') <= Cardinality(Unclaimed)
  BY <1>1, FewerDocs
<1>3. Cardinality(Unclaimed) <= failures
  BY DEF OrphansCharged, Unclaimed
<1>4. Cardinality(Unclaimed') <= failures'
  BY <1>2, <1>3 DEF DocumentsTypeOK
<1>5. QED
  BY <1>4 DEF OrphansCharged, Unclaimed

(* A failure may leave one orphan that nobody has in hand. *)
LEMMA OneLost ==
  ASSUME DocumentsTypeOK, OrphansCharged, NEW d, Unclaimed' \subseteq Unclaimed \cup {d},
         failures' = failures + 1
  PROVE  OrphansCharged'
<1>1. Unclaimed \subseteq Docs /\ Unclaimed' \subseteq Docs'
  BY DEF Unclaimed, Orphans
<1>2. IsFiniteSet(Unclaimed) /\ Cardinality(Unclaimed) \in Nat
  BY <1>1, FewerDocs
<1>3. /\ IsFiniteSet(Unclaimed \cup {d})
      /\ Cardinality(Unclaimed \cup {d}) <= Cardinality(Unclaimed) + 1
  BY <1>2, FS_AddElement
<1>4. /\ Cardinality(Unclaimed') <= Cardinality(Unclaimed \cup {d})
      /\ Cardinality(Unclaimed') \in Nat /\ Cardinality(Unclaimed \cup {d}) \in Nat
  BY <1>3, FS_Subset, FS_CardinalityType
<1>5. Cardinality(Unclaimed) <= failures
  BY DEF OrphansCharged, Unclaimed
<1>6. Cardinality(Unclaimed') <= failures'
  BY <1>2, <1>3, <1>4, <1>5 DEF DocumentsTypeOK
<1>7. QED
  BY <1>6 DEF OrphansCharged, Unclaimed

LEMMA DocumentsInitInv == DocumentsInit => DocumentsInv
<1> SUFFICES ASSUME DocumentsInit PROVE DocumentsInv
  OBVIOUS
<1>1. DocumentsTypeOK
  BY DocsFinite DEF DocumentsInit, DocumentsTypeOK, NoMatter, Matter, NoDoc, Doc,
                    Idle, Request, Asleep
<1>2. OrphansCharged
  <2>1. Unclaimed = {}
    BY DEF DocumentsInit, Unclaimed, Orphans, NoDoc
  <2>2. Cardinality(Unclaimed) = 0
    BY <2>1, FS_EmptySet
  <2>3. QED
    BY <2>2 DEF OrphansCharged, Unclaimed, DocumentsInit
<1>3. RowsHaveObjects /\ RetiredHadCause
  BY DEF DocumentsInit, RowsHaveObjects, RetiredHadCause, NoDoc
<1>4. RequestsKnow /\ JobKnows /\ RunsKnow
  BY DEF DocumentsInit, RequestsKnow, JobKnows, RunsKnow, Idle, Asleep, At
<1>5. DueHaveLapsed
  BY DEF DocumentsInit, DueHaveLapsed, NoMatter
<1>6. QED
  BY <1>1, <1>2, <1>3, <1>4, <1>5 DEF DocumentsInv

(* An ended or advanced request leaves what the others know as it was. *)
LEMMA MatterSteps ==
  ASSUME DocumentsInv, NEW r \in Callers,
         \/ CreateCheck(r) \/ PatchMatter(r) \/ DropMatter(r)
         \/ \E m \in Matters : CreateMatter(r, m)
         \/ \E m \in Matters, pc \in {"patch", "drop", "put"} : FindMatter(r, m, pc)
  PROVE  DocumentsInv'
<1> USE DEF DocumentsInv
<1>1. /\ UNCHANGED <<lapsed, doc, run, job, failures>>
      /\ req'[r].pc \in {"idle", "create", "patch", "drop", "put"}
      /\ req'[r].pc \in {"patch", "drop", "put"} => req'[r].matter \in Matters
      /\ req' \in [Callers -> Request]
      /\ \A q \in Callers \ {r} : req'[q] = req[q]
  <2> USE DEF Goes, Ends, Becomes, Idle, Request, DocumentsTypeOK
  <2>1. CASE CreateCheck(r)
    BY <2>1 DEF CreateCheck
  <2>2. CASE PatchMatter(r)
    BY <2>2 DEF PatchMatter
  <2>3. CASE DropMatter(r)
    BY <2>3 DEF DropMatter
  <2>4. CASE \E m \in Matters : CreateMatter(r, m)
    BY <2>4 DEF CreateMatter
  <2>5. CASE \E m \in Matters, pc \in {"patch", "drop", "put"} : FindMatter(r, m, pc)
    <3>1. PICK m \in Matters, pc \in {"patch", "drop", "put"} : FindMatter(r, m, pc)
      BY <2>5
    <3>2. req' = [req EXCEPT ![r] = [Idle EXCEPT !.pc = pc, !.matter = m]]
      BY <3>1 DEF FindMatter
    <3>3. UNCHANGED <<lapsed, doc, run, job, failures>>
      BY <3>1 DEF FindMatter
    <3>4. [Idle EXCEPT !.pc = pc, !.matter = m] \in Request
      BY <3>1 DEF FindMatter
    <3>5. QED
      BY <3>2, <3>3, <3>4
  <2>6. QED
    BY <2>1, <2>2, <2>3, <2>4, <2>5
<1>2. /\ matter' \in [Matters -> Matter]
      /\ \A m \in Matters : matter'[m].state = "due" => matter[m].state = "due"
  <2> USE DEF DocumentsTypeOK, Matter
  <2>1. CASE CreateCheck(r)
    BY <2>1 DEF CreateCheck
  <2>2. CASE PatchMatter(r)
    <3>1. PICK state \in {"open", "closed"} :
             matter' = [matter EXCEPT ![req[r].matter] = [@ EXCEPT !.state = state]]
      BY <2>2 DEF PatchMatter
    <3>2. req[r].matter \in Matters
      BY <2>2 DEF PatchMatter, At, RequestsKnow
    <3>3. QED
      BY <3>1, <3>2
  <2>3. CASE DropMatter(r)
    BY <2>3 DEF DropMatter
  <2>4. CASE \E m \in Matters : CreateMatter(r, m)
    <3>1. PICK m \in Matters, state \in {"open", "closed"} :
             matter' = [matter EXCEPT ![m] = [NoMatter EXCEPT !.state = state]]
      BY <2>4 DEF CreateMatter
    <3>2. QED
      BY <3>1 DEF NoMatter
  <2>5. CASE \E m \in Matters, pc \in {"patch", "drop", "put"} : FindMatter(r, m, pc)
    BY <2>5 DEF FindMatter
  <2>6. QED
    BY <2>1, <2>2, <2>3, <2>4, <2>5
<1>3. ~At(r, "row")
  BY DEF CreateCheck, PatchMatter, DropMatter, CreateMatter, FindMatter, At
<1>4. DocumentsTypeOK'
  BY <1>1, <1>2 DEF DocumentsTypeOK
<1>5. OrphansCharged'
  <2>1. Held' = Held
    BY <1>1, <1>3 DEF Held, At
  <2>2. Unclaimed' = Unclaimed
    BY <1>1, <2>1 DEF Unclaimed, Orphans
  <2>3. QED
    BY <1>1, <2>2, NoneLost DEF DocumentsTypeOK
<1>6. RequestsKnow'
  BY <1>1 DEF RequestsKnow, At
<1>7. RowsHaveObjects' /\ RetiredHadCause' /\ JobKnows' /\ RunsKnow'
  BY <1>1 DEF RowsHaveObjects, RetiredHadCause, JobKnows, RunsKnow
<1>8. DueHaveLapsed'
  BY <1>1, <1>2 DEF DueHaveLapsed
<1>9. QED
  BY <1>4, <1>5, <1>6, <1>7, <1>8

LEMMA AgesInv ==
  ASSUME DocumentsInv, NEW m \in Matters, Ages(m)
  PROVE  DocumentsInv'
<1> USE DEF DocumentsInv
<1>1. DocumentsTypeOK'
  BY DEF Ages, DocumentsTypeOK, Matter
<1>2. OrphansCharged'
  <2>1. Unclaimed' = Unclaimed
    BY DEF Ages, Unclaimed, Orphans, Held, At
  <2>2. QED
    BY <2>1, NoneLost DEF Ages, DocumentsTypeOK
<1>3. RowsHaveObjects' /\ RequestsKnow' /\ JobKnows'
  BY DEF Ages, RowsHaveObjects, RequestsKnow, JobKnows, At
<1>4. RetiredHadCause' /\ RunsKnow'
  BY DEF Ages, RetiredHadCause, RunsKnow
<1>5. DueHaveLapsed'
  BY DEF Ages, DueHaveLapsed, DocumentsTypeOK, Matter
<1>6. QED
  BY <1>1, <1>2, <1>3, <1>4, <1>5

(* A step that puts an object under a new key. *)
DocsGrow ==
  \A e \in Docs :
    /\ doc[e].object => doc'[e].object
    /\ doc'[e].row = doc[e].row
    /\ doc[e].row # "none" => doc'[e] = doc[e]

(* Nothing knew the key before. *)
LEMMA PutKeeps ==
  ASSUME DocumentsInv, NEW d \in Docs, NEW m \in Matters, Free(d), Put(d, m),
         UNCHANGED lapsed
  PROVE  /\ doc' \in [Docs -> Doc]
         /\ Orphans' = Orphans \cup {d}
         /\ doc'[d].object
         /\ DocsGrow
         /\ RowsHaveObjects' /\ RetiredHadCause'
<1> USE DEF DocumentsInv, DocumentsTypeOK, Put, Free, Doc
<1>1. doc' \in [Docs -> Doc] /\ doc'[d] = [object |-> TRUE, row |-> "none", of |-> m]
  OBVIOUS
<1>2. \A e \in Docs \ {d} : doc'[e] = doc[e]
  OBVIOUS
<1>3. Orphans' = Orphans \cup {d}
  BY <1>1, <1>2 DEF Orphans
<1>4. RowsHaveObjects' /\ RetiredHadCause'
  BY <1>1, <1>2 DEF RowsHaveObjects, RetiredHadCause
<1>5. DocsGrow
  <2>1. doc'[d].row = doc[d].row /\ doc[d].row = "none"
    BY <1>1
  <2>2. QED
    BY <1>1, <1>2, <2>1 DEF DocsGrow
<1>6. QED
  BY <1>1, <1>3, <1>4, <1>5

(* A run that goes on holds what it held, if documents with a row stay in *)
(* their matters.                                                         *)
LEMMA OldDocsHeld ==
  ASSUME DocumentsTypeOK, RunsKnow, UNCHANGED <<lapsed, run>>,
         \A e \in Docs : doc[e].row # "none" => doc'[e].row # "none" /\ doc'[e].of = doc[e].of
  PROVE  RunsKnow'
<1> SUFFICES ASSUME NEW k \in Runs, NEW d \in run[k].docs
             PROVE  doc'[d].row # "none" /\ doc'[d].of \in lapsed
  BY DEF RunsKnow
<1>1. d \in Docs
  BY DEF DocumentsTypeOK
<1>2. QED
  BY <1>1 DEF RunsKnow

LEMMA PutObjectInv ==
  ASSUME DocumentsInv, NEW r \in Callers, NEW d \in Docs, PutObject(r, d)
  PROVE  DocumentsInv'
<1> USE DEF DocumentsInv
<1>1. req[r].matter \in Matters /\ ~At(r, "row")
  BY DEF PutObject, RequestsKnow, At
<1>2. /\ doc' \in [Docs -> Doc] /\ Orphans' = Orphans \cup {d} /\ doc'[d].object
      /\ DocsGrow
      /\ RowsHaveObjects' /\ RetiredHadCause'
  BY <1>1, PutKeeps DEF PutObject
<1>3. /\ UNCHANGED <<matter, lapsed, run, job, failures>>
      /\ req' = [req EXCEPT ![r] = [req[r] EXCEPT !.pc = "row", !.doc = d]]
  BY DEF PutObject, Becomes
<1>4. /\ req' \in [Callers -> Request] /\ req'[r].pc = "row" /\ req'[r].doc = d
      /\ \A q \in Callers \ {r} : req'[q] = req[q]
  BY <1>3 DEF Request, DocumentsTypeOK
<1>5. DocumentsTypeOK'
  BY <1>2, <1>3, <1>4 DEF DocumentsTypeOK
<1>6. OrphansCharged'
  <2>1. Held' = Held \cup {d}
    BY <1>1, <1>3, <1>4 DEF Held, At
  <2>2. Unclaimed' \subseteq Unclaimed
    BY <1>2, <2>1 DEF Unclaimed
  <2>3. QED
    BY <1>3, <2>2, NoneLost DEF DocumentsTypeOK
<1>7. RequestsKnow'
  <2>1. ASSUME NEW q \in Callers \ {r}, At(q, "row")
        PROVE  req[q].doc \in Docs /\ doc'[req[q].doc].object
    BY <1>2, <2>1 DEF RequestsKnow, DocsGrow
  <2>2. ASSUME NEW q \in Callers \ {r}, At(q, "archive")
        PROVE  req[q].doc \in Docs /\ doc'[req[q].doc].row # "none"
    BY <1>2, <2>2 DEF RequestsKnow, DocsGrow
  <2>3. QED
    BY <1>2, <1>4, <2>1, <2>2 DEF RequestsKnow, At
<1>8. JobKnows'
  BY <1>2, <1>3 DEF JobKnows, DocsGrow
<1>9. RunsKnow' /\ DueHaveLapsed'
  BY <1>2, <1>3, OldDocsHeld DEF DueHaveLapsed, DocsGrow
<1>10. QED
  BY <1>2, <1>5, <1>6, <1>7, <1>8, <1>9

LEMMA GenerateInv ==
  ASSUME DocumentsInv, NEW m \in Matters, NEW d \in Docs, Generate(m, d)
  PROVE  DocumentsInv'
<1> USE DEF DocumentsInv
<1>1. /\ UNCHANGED <<matter, lapsed, req, run, failures>>
      /\ job' = [job EXCEPT !.pc = "row", !.left = @ - 1, !.doc = d]
      /\ job.pc = "waiting"
  BY DEF Generate
<1>2. /\ doc' \in [Docs -> Doc] /\ Orphans' = Orphans \cup {d} /\ doc'[d].object
      /\ DocsGrow
      /\ RowsHaveObjects' /\ RetiredHadCause'
  BY <1>1, PutKeeps DEF Generate
<1>3. DocumentsTypeOK'
  <2>1. job.left - 1 \in 0 .. Attempts
    BY DocsFinite DEF Generate, DocumentsTypeOK
  <2>2. QED
    BY <1>1, <1>2, <2>1 DEF DocumentsTypeOK
<1>4. OrphansCharged'
  <2>1. Held' = Held \cup {d}
    BY <1>1 DEF Held, At
  <2>2. Unclaimed' \subseteq Unclaimed
    BY <1>2, <2>1 DEF Unclaimed
  <2>3. QED
    BY <1>1, <2>2, NoneLost DEF DocumentsTypeOK
<1>5. RequestsKnow'
  <2>1. ASSUME NEW q \in Callers, At(q, "row")
        PROVE  req[q].doc \in Docs /\ doc'[req[q].doc].object
    BY <1>2, <2>1 DEF RequestsKnow, DocsGrow
  <2>2. ASSUME NEW q \in Callers, At(q, "archive")
        PROVE  req[q].doc \in Docs /\ doc'[req[q].doc].row # "none"
    BY <1>2, <2>2 DEF RequestsKnow, DocsGrow
  <2>3. QED
    BY <1>1, <2>1, <2>2 DEF RequestsKnow, At
<1>6. JobKnows' /\ DueHaveLapsed'
  BY <1>1, <1>2 DEF JobKnows, DueHaveLapsed
<1>7. RunsKnow'
  BY <1>1, <1>2, OldDocsHeld DEF DocsGrow
<1>8. QED
  BY <1>2, <1>3, <1>4, <1>5, <1>6, <1>7

(* A document that has its object gets a row: no orphan is added, and all that *)
(* is known of documents stays so.                                             *)
LEMMA RowKeeps ==
  ASSUME DocumentsInv, NEW d \in Docs, doc[d].object, HasRow(d)
  PROVE  /\ doc' \in [Docs -> Doc]
         /\ Orphans' = Orphans \ {d}
         /\ \A e \in Docs : doc'[e].object = doc[e].object /\ doc'[e].of = doc[e].of
         /\ \A e \in Docs : doc[e].row # "none" => doc'[e].row # "none"
         /\ RowsHaveObjects'
         /\ lapsed' = lapsed => RetiredHadCause'
<1> USE DEF DocumentsInv, DocumentsTypeOK, HasRow, Doc
<1>1. /\ doc' \in [Docs -> Doc] /\ doc'[d].row = "live"
      /\ \A e \in Docs : doc'[e].object = doc[e].object /\ doc'[e].of = doc[e].of
      /\ \A e \in Docs \ {d} : doc'[e] = doc[e]
  OBVIOUS
<1>2. Orphans' = Orphans \ {d}
  BY <1>1 DEF Orphans
<1>3. RowsHaveObjects'
  BY <1>1 DEF RowsHaveObjects
<1>4. lapsed' = lapsed => RetiredHadCause'
  BY <1>1 DEF RetiredHadCause
<1>5. \A e \in Docs : doc[e].row # "none" => doc'[e].row # "none"
  BY <1>1
<1>6. QED
  BY <1>1, <1>2, <1>3, <1>4, <1>5

LEMMA InsertDocumentInv ==
  ASSUME DocumentsInv, NEW r \in Callers, InsertDocument(r)
  PROVE  DocumentsInv'
<1> USE DEF DocumentsInv
<1> DEFINE d == req[r].doc
<1>1. d \in Docs /\ doc[d].object /\ HasRow(d)
  BY DEF InsertDocument, RequestsKnow
<1>2. /\ UNCHANGED <<matter, lapsed, run, job, failures>>
      /\ req' = [req EXCEPT ![r] = Idle]
  BY DEF InsertDocument, Ends, Becomes
<1>3. /\ req' \in [Callers -> Request] /\ req'[r] = Idle
      /\ \A q \in Callers \ {r} : req'[q] = req[q]
  BY <1>2 DEF DocumentsTypeOK, Request, Idle
<1>4. /\ doc' \in [Docs -> Doc]
      /\ Orphans' = Orphans \ {d}
      /\ \A e \in Docs : doc'[e].object = doc[e].object /\ doc'[e].of = doc[e].of
      /\ \A e \in Docs : doc[e].row # "none" => doc'[e].row # "none"
      /\ RowsHaveObjects' /\ RetiredHadCause'
  BY <1>1, <1>2, RowKeeps
<1>5. DocumentsTypeOK'
  BY <1>2, <1>3, <1>4 DEF DocumentsTypeOK
<1>6. OrphansCharged'
  <2>1. Held \subseteq Held' \cup {d}
    BY <1>2, <1>3 DEF Held, At
  <2>2. Unclaimed' \subseteq Unclaimed
    BY <1>4, <2>1 DEF Unclaimed
  <2>3. QED
    BY <1>2, <2>2, NoneLost DEF DocumentsTypeOK
<1>7. RequestsKnow'
  BY <1>3, <1>4 DEF RequestsKnow, At, Idle
<1>8. JobKnows' /\ DueHaveLapsed'
  BY <1>2, <1>4 DEF JobKnows, DueHaveLapsed
<1>9. RunsKnow'
  BY <1>2, <1>4, OldDocsHeld
<1>10. QED
  BY <1>4, <1>5, <1>6, <1>7, <1>8, <1>9

LEMMA InsertGeneratedInv ==
  ASSUME DocumentsInv, InsertGenerated
  PROVE  DocumentsInv'
<1> USE DEF DocumentsInv
<1> DEFINE d == job.doc
<1>1. d \in Docs /\ doc[d].object /\ HasRow(d)
  BY DEF InsertGenerated, JobKnows
<1>2. /\ UNCHANGED <<matter, lapsed, req, run>>
      /\ job' \in {[job EXCEPT !.pc = "ended"], [job EXCEPT !.pc = "waiting"]}
      /\ failures' \in Nat /\ failures <= failures'
  BY DEF InsertGenerated, DocumentsTypeOK
<1>3. /\ doc' \in [Docs -> Doc]
      /\ Orphans' = Orphans \ {d}
      /\ \A e \in Docs : doc'[e].object = doc[e].object /\ doc'[e].of = doc[e].of
      /\ \A e \in Docs : doc[e].row # "none" => doc'[e].row # "none"
      /\ RowsHaveObjects' /\ RetiredHadCause'
  BY <1>1, <1>2, RowKeeps
<1>4. DocumentsTypeOK' /\ job'.pc # "row"
  BY <1>2, <1>3 DEF DocumentsTypeOK
<1>5. OrphansCharged'
  <2>1. Held \subseteq Held' \cup {d}
    BY <1>2 DEF Held, At
  <2>2. Unclaimed' \subseteq Unclaimed
    BY <1>3, <2>1 DEF Unclaimed
  <2>3. QED
    BY <1>2, <2>2, NoneLost
<1>6. RequestsKnow'
  BY <1>2, <1>3 DEF RequestsKnow, At
<1>7. JobKnows' /\ DueHaveLapsed'
  BY <1>2, <1>4 DEF JobKnows, DueHaveLapsed
<1>8. RunsKnow'
  BY <1>2, <1>3, OldDocsHeld
<1>9. QED
  BY <1>3, <1>4, <1>5, <1>6, <1>7, <1>8

(* A document is found and archived by its id; it may be retired by then. *)
LEMMA ArchiveSteps ==
  ASSUME DocumentsInv, NEW r \in Callers,
         Archive(r) \/ \E d \in Docs : FindDocument(r, d)
  PROVE  DocumentsInv'
<1> USE DEF DocumentsInv
<1>1. CASE \E d \in Docs : FindDocument(r, d)
  <2>1. PICK d \in Docs : FindDocument(r, d)
    BY <1>1
  <2>2. /\ UNCHANGED <<matter, lapsed, doc, run, job, failures>>
        /\ req[r].pc = "idle" /\ doc[d].row # "none"
    BY <2>1 DEF FindDocument, At, Live
  <2>3. /\ req' \in [Callers -> Request]
        /\ req'[r].pc = "archive" /\ req'[r].doc = d
        /\ \A q \in Callers \ {r} : req'[q] = req[q]
    BY <2>1 DEF FindDocument, Becomes, Idle, Request, DocumentsTypeOK
  <2>4. DocumentsTypeOK'
    BY <2>2, <2>3 DEF DocumentsTypeOK
  <2>5. Unclaimed' = Unclaimed
    BY <2>2, <2>3 DEF Unclaimed, Orphans, Held, At
  <2>6. OrphansCharged'
    BY <2>2, <2>5, NoneLost DEF DocumentsTypeOK
  <2>7. RequestsKnow'
    BY <2>2, <2>3 DEF RequestsKnow, At
  <2>8. RowsHaveObjects' /\ RetiredHadCause' /\ JobKnows' /\ RunsKnow' /\ DueHaveLapsed'
    BY <2>2 DEF RowsHaveObjects, RetiredHadCause, JobKnows, RunsKnow, DueHaveLapsed
  <2>9. QED
    BY <2>4, <2>6, <2>7, <2>8
<1>2. CASE Archive(r)
  <2> DEFINE d == req[r].doc
  <2>1. d \in Docs /\ doc[d].row # "none"
    BY <1>2 DEF Archive, RequestsKnow
  <2>2. /\ UNCHANGED <<matter, lapsed, run, job, failures>>
        /\ req[r].pc = "archive" /\ req' = [req EXCEPT ![r] = Idle]
        /\ doc' = [doc EXCEPT ![d].row = "deleted"]
    BY <1>2 DEF Archive, Ends, Becomes, At
  <2>3. /\ req' \in [Callers -> Request] /\ req'[r] = Idle
        /\ \A q \in Callers \ {r} : req'[q] = req[q]
    BY <2>2 DEF DocumentsTypeOK, Request, Idle
  <2>4. /\ doc' \in [Docs -> Doc] /\ doc'[d].row = "deleted"
        /\ \A e \in Docs : doc'[e].object = doc[e].object /\ doc'[e].of = doc[e].of
        /\ \A e \in Docs \ {d} : doc'[e] = doc[e]
    BY <2>1, <2>2 DEF DocumentsTypeOK, Doc
  <2>5. DocumentsTypeOK'
    BY <2>2, <2>3, <2>4 DEF DocumentsTypeOK
  <2>6. Orphans' = Orphans
    BY <2>1, <2>4 DEF Orphans
  <2>7. Held' = Held
    BY <2>2, <2>3 DEF Held, At, Idle
  <2>8. OrphansCharged'
    BY <2>2, <2>6, <2>7, NoneLost DEF Unclaimed, DocumentsTypeOK
  <2>9. RequestsKnow'
    BY <2>3, <2>4 DEF RequestsKnow, At, Idle
  <2>10. RowsHaveObjects' /\ RetiredHadCause'
    BY <2>1, <2>2, <2>4 DEF RowsHaveObjects, RetiredHadCause
  <2>11. JobKnows' /\ DueHaveLapsed'
    BY <2>2, <2>4 DEF JobKnows, DueHaveLapsed
  <2>12. \A e \in Docs : doc[e].row # "none" => doc'[e].row # "none" /\ doc'[e].of = doc[e].of
    BY <2>4
  <2>13. RunsKnow'
    BY <2>2, <2>12, OldDocsHeld
  <2>14. QED
    BY <2>5, <2>8, <2>9, <2>10, <2>11, <2>13
<1>3. QED
  BY <1>1, <1>2

(* A request that fails leaves at most the object it had in hand. *)
LEMMA RequestFailsInv ==
  ASSUME DocumentsInv, NEW r \in Callers, RequestFails(r)
  PROVE  DocumentsInv'
<1> USE DEF DocumentsInv
<1>1. /\ UNCHANGED <<matter, lapsed, doc, run, job>>
      /\ req' = [req EXCEPT ![r] = Idle] /\ failures' = failures + 1
  BY DEF RequestFails, Ends, Becomes
<1>2. /\ req' \in [Callers -> Request] /\ req'[r] = Idle
      /\ \A q \in Callers \ {r} : req'[q] = req[q]
  BY <1>1 DEF DocumentsTypeOK, Request, Idle
<1>3. DocumentsTypeOK'
  BY <1>1, <1>2 DEF DocumentsTypeOK
<1>4. OrphansCharged'
  <2>1. Held \subseteq Held' \cup {req[r].doc}
    BY <1>1, <1>2 DEF Held, At
  <2>2. Unclaimed' \subseteq Unclaimed \cup {req[r].doc}
    BY <1>1, <2>1 DEF Unclaimed, Orphans
  <2>3. QED
    BY <1>1, <2>2, OneLost
<1>5. RequestsKnow'
  BY <1>1, <1>2 DEF RequestsKnow, At, Idle
<1>6. RowsHaveObjects' /\ RetiredHadCause' /\ JobKnows' /\ RunsKnow' /\ DueHaveLapsed'
  BY <1>1 DEF RowsHaveObjects, RetiredHadCause, JobKnows, RunsKnow, DueHaveLapsed
<1>7. QED
  BY <1>3, <1>4, <1>5, <1>6

LEMMA JobFailsInv ==
  ASSUME DocumentsInv, JobFails
  PROVE  DocumentsInv'
<1> USE DEF DocumentsInv
<1>1. /\ UNCHANGED <<matter, lapsed, doc, req, run>>
      /\ job' = [job EXCEPT !.pc = "waiting"] /\ failures' = failures + 1
  BY DEF JobFails
<1>2. DocumentsTypeOK' /\ job'.pc = "waiting"
  BY <1>1 DEF DocumentsTypeOK
<1>3. OrphansCharged'
  <2>1. Held \subseteq Held' \cup {job.doc}
    BY <1>1 DEF Held, At
  <2>2. Unclaimed' \subseteq Unclaimed \cup {job.doc}
    BY <1>1, <2>1 DEF Unclaimed, Orphans
  <2>3. QED
    BY <1>1, <2>2, OneLost
<1>4. RequestsKnow' /\ JobKnows'
  BY <1>1, <1>2 DEF RequestsKnow, JobKnows, At
<1>5. RowsHaveObjects' /\ RetiredHadCause' /\ RunsKnow' /\ DueHaveLapsed'
  BY <1>1 DEF RowsHaveObjects, RetiredHadCause, RunsKnow, DueHaveLapsed
<1>6. QED
  BY <1>2, <1>3, <1>4, <1>5

(* The retention job: what it finds is due or in a matter that was. *)
LEMMA RunStepInv ==
  ASSUME DocumentsInv, NEW k \in Runs, RunStep(k)
  PROVE  DocumentsInv'
<1> USE DEF DocumentsInv
<1>1. /\ UNCHANGED <<matter, lapsed, req, job>>
      /\ failures' \in Nat /\ failures <= failures'
  BY DEF RunStep, FindClosed, FindDocuments, Retire, RunFails, DocumentsTypeOK
<1>2. /\ run' \in [Runs -> [pc : {"idle", "docs", "retire"},
                          matters : SUBSET Matters, docs : SUBSET Docs]]
      /\ \A j \in Runs \ {k} : run'[j] = run[j]
      /\ run'[k].matters \subseteq lapsed
      /\ \A d \in run'[k].docs : doc[d].row # "none" /\ doc[d].of \in lapsed
  <2> USE DEF DocumentsTypeOK, Asleep
  <2>1. CASE FindClosed(k)
    BY <2>1 DEF FindClosed, DueHaveLapsed
  <2>2. CASE FindDocuments(k)
    <3>1. run[k].matters \subseteq lapsed
      BY DEF RunsKnow
    <3>2. \A d \in Downloadable : d \in Docs /\ doc[d].row # "none"
      BY DEF Downloadable, Live
    <3>3. QED
      BY <2>2, <3>1, <3>2 DEF FindDocuments
  <2>3. CASE Retire(k) \/ RunFails(k)
    BY <2>3 DEF Retire, RunFails, Sleeps
  <2>4. QED
    BY <2>1, <2>2, <2>3 DEF RunStep
<1>3. /\ doc' \in [Docs -> Doc]
      /\ \A d \in Docs : \/ doc'[d] = doc[d]
                         \/ /\ doc[d].row # "none" /\ d \in run[k].docs
                            /\ doc'[d] = [doc[d] EXCEPT !.row = "retired"]
  <2>1. CASE Retire(k)
    BY <2>1 DEF Retire, RunsKnow, DocumentsTypeOK, Doc
  <2>2. CASE UNCHANGED doc
    BY <2>2 DEF DocumentsTypeOK
  <2>3. QED
    BY <2>1, <2>2 DEF RunStep, FindClosed, FindDocuments, RunFails
<1>4. \A d \in Docs :
        /\ doc'[d].object = doc[d].object /\ doc'[d].of = doc[d].of
        /\ doc'[d].row = "none" <=> doc[d].row = "none"
        /\ doc'[d].row = "retired" => doc[d].row = "retired" \/ d \in run[k].docs
  BY <1>3 DEF DocumentsTypeOK, Doc
<1>5. DocumentsTypeOK'
  BY <1>1, <1>2, <1>3 DEF DocumentsTypeOK
<1>6. OrphansCharged'
  <2>1. Unclaimed' = Unclaimed
    BY <1>1, <1>4 DEF Unclaimed, Orphans, Held, At
  <2>2. QED
    BY <1>1, <2>1, NoneLost
<1>7. RowsHaveObjects' /\ RequestsKnow' /\ JobKnows'
  BY <1>1, <1>4 DEF RowsHaveObjects, RequestsKnow, JobKnows, At
<1>8. RetiredHadCause'
  BY <1>1, <1>4 DEF RetiredHadCause, RunsKnow
<1>9. DueHaveLapsed'
  BY <1>1 DEF DueHaveLapsed
<1>10. RunsKnow'
  <2> SUFFICES ASSUME NEW j \in Runs
               PROVE  /\ run'[j].matters \subseteq lapsed
                      /\ \A d \in run'[j].docs : /\ doc'[d].row # "none"
                                               /\ doc'[d].of \in lapsed
    BY <1>1 DEF RunsKnow
  <2>1. /\ run'[j].matters \subseteq lapsed
        /\ \A d \in run'[j].docs : doc[d].row # "none" /\ doc[d].of \in lapsed
    BY <1>2 DEF RunsKnow
  <2>2. run'[j].docs \subseteq Docs
    BY <1>2
  <2>3. QED
    BY <1>4, <2>1, <2>2
<1>11. QED
  BY <1>5, <1>6, <1>7, <1>8, <1>9, <1>10

LEMMA DocumentsNextInv == DocumentsInv /\ [DocumentsNext]_documentsVars => DocumentsInv'
<1> SUFFICES ASSUME DocumentsInv, [DocumentsNext]_documentsVars PROVE DocumentsInv'
  OBVIOUS
<1>1. CASE \E r \in Callers : RequestStep(r)
  <2>1. PICK r \in Callers : RequestStep(r)
    BY <1>1
  <2>2. CASE InsertDocument(r)
    BY <2>2, InsertDocumentInv
  <2>3. CASE Archive(r) \/ \E d \in Docs : FindDocument(r, d)
    BY <2>3, ArchiveSteps
  <2>4. CASE \E d \in Docs : PutObject(r, d)
    BY <2>4, PutObjectInv
  <2>5. CASE RequestFails(r)
    BY <2>5, RequestFailsInv
  <2>6. CASE \/ CreateCheck(r) \/ PatchMatter(r) \/ DropMatter(r)
             \/ \E m \in Matters : CreateMatter(r, m)
             \/ \E m \in Matters, pc \in {"patch", "drop", "put"} : FindMatter(r, m, pc)
    BY <2>6, MatterSteps
  <2>7. QED
    BY <2>1, <2>2, <2>3, <2>4, <2>5, <2>6 DEF RequestStep
<1>2. CASE \E k \in Runs : RunStep(k)
  BY <1>2, RunStepInv
<1>3. CASE \E m \in Matters : Ages(m)
  BY <1>3, AgesInv
<1>4. CASE JobStep
  BY <1>4, GenerateInv, InsertGeneratedInv, JobFailsInv DEF JobStep
<1>5. CASE UNCHANGED documentsVars
  <2>1. UNCHANGED <<matter, lapsed, doc, req, run, job, failures>>
    BY <1>5 DEF documentsVars
  <2>2. OrphansCharged'
    BY <2>1 DEF DocumentsInv, OrphansCharged, Orphans, Held, At
  <2>3. QED
    BY <2>1, <2>2 DEF DocumentsInv, DocumentsTypeOK, RowsHaveObjects, RequestsKnow, JobKnows,
                      RunsKnow, DueHaveLapsed, RetiredHadCause, At
<1>6. QED
  BY <1>1, <1>2, <1>3, <1>4, <1>5 DEF DocumentsNext

THEOREM DocumentsInvariance == DocumentsSpec => []DocumentsInv
BY DocumentsInitInv, DocumentsNextInv, PTL DEF DocumentsSpec

(* The rows of matters, objects and documents, for any number of them, of      *)
(* requests and of retention runs (routes/matters.ts, routes/documents.ts).    *)
THEOREM DocumentsTypeCorrect == DocumentsSpec => []DocumentsTypeOK
<1>1. DocumentsInv => DocumentsTypeOK
  BY DEF DocumentsInv
<1>2. QED
  BY <1>1, DocumentsInvariance, PTL

(* Objects in hand are no more than those who have them. *)
LEMMA HeldCounted ==
  ASSUME DocumentsInv
  PROVE  /\ IsFiniteSet(Held) /\ Cardinality(Held) \in Nat
         /\ Cardinality(Uploading) \in Nat
         /\ Cardinality(Held) <= Cardinality(Uploading) + (IF job.pc = "row" THEN 1 ELSE 0)
<1> DEFINE H == {req[r].doc : r \in Uploading}
           f == [r \in Uploading |-> req[r].doc]
<1>1. IsFiniteSet(Uploading) /\ Cardinality(Uploading) \in Nat
  BY DocsFinite, FS_Subset, FS_CardinalityType DEF Uploading
<1>2. f \in Surjection(Uploading, H)
  BY DEF Surjection
<1>3. IsFiniteSet(H) /\ Cardinality(H) <= Cardinality(Uploading)
  BY <1>1, <1>2, FS_Surjection
<1>4. Cardinality(H) \in Nat
  BY <1>3, FS_CardinalityType
<1>5. CASE job.pc = "row"
  <2>1. Held = H \cup {job.doc}
    BY <1>5 DEF Held, Uploading
  <2> HIDE DEF H
  <2>2. IsFiniteSet(H \cup {job.doc}) /\ Cardinality(H \cup {job.doc}) <= Cardinality(H) + 1
    BY <1>3, <1>4, FS_AddElement
  <2>3. QED
    BY <1>1, <1>3, <1>4, <1>5, <2>1, <2>2, FS_CardinalityType
<1>6. CASE job.pc # "row"
  <2>1. Held = H
    BY <1>6 DEF Held, Uploading
  <2>2. QED
    BY <1>1, <1>3, <1>4, <1>6, <2>1
<1>7. QED
  BY <1>5, <1>6

(* Whatever fails, and whoever overlaps with whom: what can be downloaded has *)
(* its object, and each object without a row is in the hands of an upload, or *)
(* of the PDF job, or is charged to a failure (routes/documents.ts,           *)
(* queues/pdf.worker.ts).                                                     *)
THEOREM ObjectsStayAccounted == DocumentsSpec => []ObjectsAccounted
<1>1. DocumentsInv => ObjectsAccounted
  <2> SUFFICES ASSUME DocumentsInv PROVE ObjectsAccounted
    OBVIOUS
  <2> DEFINE extra == IF job.pc = "row" THEN 1 ELSE 0
  <2>1. \A d \in Docs : doc[d].row # "none" => doc[d].object
    BY DEF DocumentsInv, RowsHaveObjects
  <2>2. /\ IsFiniteSet(Held) /\ Cardinality(Held) \in Nat
        /\ Cardinality(Uploading) \in Nat
        /\ Cardinality(Held) <= Cardinality(Uploading) + extra
    BY HeldCounted
  <2>3. IsFiniteSet(Unclaimed) /\ Cardinality(Unclaimed) \in Nat
    BY FewerDocs DEF Unclaimed, Orphans
  <2>4. Cardinality(Unclaimed) <= failures /\ failures \in Nat
    BY DEF DocumentsInv, OrphansCharged, Unclaimed, DocumentsTypeOK
  <2>5. /\ IsFiniteSet(Held \cup Unclaimed)
        /\ Cardinality(Held \cup Unclaimed) <= Cardinality(Held) + Cardinality(Unclaimed)
    <3>1. IsFiniteSet(Held \cap Unclaimed) /\ Cardinality(Held \cap Unclaimed) \in Nat
      BY <2>2, FS_Subset, FS_CardinalityType
    <3>2. /\ IsFiniteSet(Held \cup Unclaimed)
          /\ Cardinality(Held \cup Unclaimed)
               = Cardinality(Held) + Cardinality(Unclaimed) - Cardinality(Held \cap Unclaimed)
      BY <2>2, <2>3, FS_Union
    <3>3. QED
      BY <2>2, <2>3, <3>1, <3>2
  <2>6. /\ Cardinality(Orphans) <= Cardinality(Held \cup Unclaimed)
        /\ Cardinality(Orphans) \in Nat /\ Cardinality(Held \cup Unclaimed) \in Nat
    <3>1. Orphans \subseteq Held \cup Unclaimed
      BY DEF Unclaimed
    <3>2. QED
      BY <2>5, <3>1, FS_Subset, FS_CardinalityType
  <2>7. extra \in Nat
    OBVIOUS
  <2>8. Cardinality(Orphans) <= Cardinality(Uploading) + extra + failures
    <3> HIDE DEF extra
    <3>1. QED
      BY <2>2, <2>3, <2>4, <2>5, <2>6, <2>7
  <2>9. QED
    BY <2>1, <2>8 DEF ObjectsAccounted, Uploading
<1>2. QED
  BY <1>1, DocumentsInvariance, PTL

(* However the calls of the retention job and the requests interleave, what it *)
(* retires is of matters that were closed for the retention period             *)
(* (queues/cleanup.worker.ts).                                                 *)
THEOREM RetirementsHaveCause == DocumentsSpec => []RetiredHadCause
<1>1. DocumentsInv => RetiredHadCause
  BY DEF DocumentsInv
<1>2. QED
  BY <1>1, DocumentsInvariance, PTL
=============================================================================
