------------------------- MODULE LedgerTransactions -------------------------
(***************************************************************************)
(* The handlers of ExecutionLedger as PostgreSQL runs them: a handler is a *)
(* transaction of several statements, at READ COMMITTED, and transactions  *)
(* of concurrent HTTP calls interleave between statements.  What keeps     *)
(* them apart are the advisory lock of a portfolio (_portfolio_lock), the  *)
(* row locks of SELECT ... FOR UPDATE and the unique key on request_id.    *)
(* transition_execution and recover_expired_leases take no portfolio lock. *)
(*                                                                         *)
(* ledger, reservation and expired are the committed tables; what a        *)
(* transaction has read is in its call record, its writes take effect and  *)
(* its locks are freed when it commits.  A crash of the bridge, a lost     *)
(* connection and a deadlock the database breaks all roll it back.         *)
(*                                                                         *)
(* Five kinds of call are modelled: reserve, transition, recover-expired,  *)
(* sync-position and position-closed.  The other handlers take their locks *)
(* in the order sync-position does, deal-event after the row of its deal.  *)
(* On SQLite (tests and development) both kinds of lock are absent.        *)
(***************************************************************************)
EXTENDS ExecutionLedger, Sequences

CONSTANTS
  Sessions,  \* database sessions, one per HTTP call in progress
  Reports    \* the states /transition is called with

ASSUME SessionsAssumption ==
  NoRef \notin Sessions \cup Requests /\ Reports \subseteq States

VARIABLES
  call,  \* what each session is executing, and what it has read
  lock   \* the session that holds each lock

txVars == <<ledger, reservation, expired, deals, mods, call, lock>>

-----------------------------------------------------------------------------

BookLock(p) == <<"book", p>>
RowLock(r) == <<"row", r>>
ReservationLock(r) == <<"reservation", r>>

Locks == {BookLock(p) : p \in Portfolios}
           \cup {RowLock(r) : r \in Requests}
           \cup {ReservationLock(r) : r \in Requests}

\* Faulty variant: a transition locks the reservation before the row.
StatementsSwapped(op) ==
  CASE op = "reserve"    -> <<"book", "row", "count", "insert">>
    [] op = "transition" -> <<"reservation", "row">>
    [] op = "sweep"      -> <<"sweep">>
    [] op = "sync"       -> <<"book", "find", "row", "insert", "reservation">>
    [] op = "close"      -> <<"book", "find", "row", "reservation">>
    [] op = "none"       -> <<>>

\* The statements of each handler, in order.  "find" is the lookup by broker
\* identity, "row" the lock on the ledger row it yields, "count" the locking
\* read of the portfolio's active reservations, "insert" the flush of a new
\* row, "reservation" the lock on the request's reservation.
Statements(op) ==
  CASE op = "reserve"    -> <<"book", "row", "count", "insert">>
    [] op = "transition" -> <<"row", "reservation">>
    [] op = "sweep"      -> <<"sweep">>
    [] op = "sync"       -> <<"book", "find", "row", "insert", "reservation">>
    [] op = "close"      -> <<"book", "find", "row", "reservation">>
    [] op = "none"       -> <<>>

NoCall == [op |-> "none", step |-> 1, portfolio |-> NoRef, request |-> NoRef,
           state |-> "ABSENT", position |-> NoRef, deal |-> NoRef, risk |-> 0,
           seen |-> NoRow,   \* the row as the transaction read it
           todo |-> {},      \* rows a multi-row statement has still to lock
           aim |-> NoRef,    \* the one it is locking
           heat |-> 0]       \* risk counted so far

ReserveCall(p, r, k) ==
  [NoCall EXCEPT !.op = "reserve", !.portfolio = p, !.request = r, !.risk = k]

TransitionCall(r, s, pos) ==
  [NoCall EXCEPT !.op = "transition", !.request = r, !.state = s, !.position = pos]

SyncCall(p, r, pos, k) ==
  [NoCall EXCEPT !.op = "sync", !.portfolio = p, !.request = r, !.position = pos, !.risk = k]

CloseCall(p, r, pos, d) ==
  [NoCall EXCEPT !.op = "close", !.portfolio = p, !.request = r, !.position = pos, !.deal = d]

NewCalls ==
  {ReserveCall(p, r, k) : p \in Portfolios, r \in Requests, k \in Risks}
  \cup {TransitionCall(r, s, pos) : r \in Requests, s \in Reports, pos \in OrNull(Positions)}
  \cup {SyncCall(p, r, pos, k) : p \in Portfolios, r \in Requests, pos \in Positions, k \in Risks}
  \cup {CloseCall(p, r, pos, d) : p \in Portfolios, r \in Requests, pos \in Positions, d \in Deals}

Statement(c) ==
  IF call[c].step <= Len(Statements(call[c].op))
  THEN Statements(call[c].op)[call[c].step]
  ELSE "commit"

TxInit ==
  /\ Init
  /\ call = [c \in Sessions |-> NoCall]
  /\ lock = [l \in Locks |-> NoRef]

-----------------------------------------------------------------------------
(* Steps within a transaction *)

Running(c, op) == call[c].op = op

At(c, statement) == call[c].op # "none" /\ Statement(c) = statement

Acquire(c, l) == lock[l] \in {NoRef, c} /\ lock' = [lock EXCEPT ![l] = c]

\* The call goes on with its next statement, having read what rec records.
Proceed(c, rec) == call' = [call EXCEPT ![c] = [rec EXCEPT !.step = @ + 1]]

\* The end of the transaction, by commit or by rollback.
End(c) ==
  /\ call' = [call EXCEPT ![c] = NoCall]
  /\ lock' = [l \in Locks |-> IF lock[l] = c THEN NoRef ELSE lock[l]]

UnchangedTables == UNCHANGED <<ledger, reservation, expired, deals, mods>>

Begin(c) ==
  /\ call[c] = NoCall
  /\ \E new \in NewCalls : call' = [call EXCEPT ![c] = new]
  /\ UNCHANGED lock /\ UnchangedTables

\* The sweep's statement starts from the rows that are late at its start.
BeginSweep(c) ==
  LET late == {r \in Requests : Late(r)}
  IN  /\ call[c] = NoCall
      /\ late # {}
      /\ call' = [call EXCEPT ![c] = [NoCall EXCEPT !.op = "sweep", !.todo = late]]
      /\ UNCHANGED lock /\ UnchangedTables

\* Faulty variant: the advisory lock excludes nobody, as on SQLite.
LockBookShared(c) ==
  /\ At(c, "book")
  /\ Proceed(c, call[c])
  /\ UNCHANGED lock /\ UnchangedTables

LockBook(c) ==
  /\ At(c, "book")
  /\ Acquire(c, BookLock(call[c].portfolio))
  /\ Proceed(c, call[c])
  /\ UnchangedTables

\* _lookup_broker_record: a row of the position, else the named request.
Find(c) ==
  LET found == RowsByPosition(call[c].portfolio, call[c].position)
  IN  /\ At(c, "find")
      /\ IF found # {}
         THEN \E t \in found : Proceed(c, [call[c] EXCEPT !.request = t])
         ELSE Proceed(c, call[c])
      /\ UNCHANGED lock /\ UnchangedTables

\* What a handler asks of the row it has locked; otherwise it answers 4xx.
\* The claim a transition makes is taken to be the one its move asks for.
RowAccepted(x, row) ==
  CASE x.op = "reserve"    -> FALSE
    [] x.op = "transition" ->
         LET ids == [order |-> NoRef, deal |-> NoRef, position |-> x.position]
         IN  IF x.state = row.state
             THEN x.state # "RESERVED" /\ ~Conflicts(row, ids)
             ELSE /\ x.state \in AllowedTransitions[row.state]
                  /\ \E claim \in Claims : HasEvidence(row, x.state, claim, ids)
    [] x.op = "sync"       -> /\ row.portfolio = x.portfolio
                              /\ row.position \in {NoRef, x.position}
    [] x.op = "close"      -> row.portfolio = x.portfolio

\* SELECT ... FOR UPDATE of a committed row: it waits for the lock and reads
\* the row as it is then.
LockRow(c) ==
  LET row == ledger[call[c].request]
  IN  /\ At(c, "row")
      /\ Known(call[c].request)
      /\ lock[RowLock(call[c].request)] \in {NoRef, c}
      /\ IF RowAccepted(call[c], row)
         THEN /\ Acquire(c, RowLock(call[c].request))
              /\ Proceed(c, [call[c] EXCEPT !.seen = row])
         ELSE End(c)
      /\ UnchangedTables

\* It does not see a row that no transaction has committed.
MissRow(c) ==
  /\ At(c, "row")
  /\ ~Known(call[c].request)
  /\ CASE Running(c, "reserve") ->
            Proceed(c, [call[c] EXCEPT !.todo = Active(call[c].portfolio)])
              /\ UNCHANGED lock
       [] Running(c, "sync") -> Proceed(c, call[c]) /\ UNCHANGED lock
       [] OTHER -> End(c)
  /\ UnchangedTables

\* A statement that locks several rows takes them one after the other, in an
\* order that no ORDER BY fixes.
Aim(c) ==
  /\ At(c, "count") \/ At(c, "sweep")
  /\ call[c].aim = NoRef
  /\ \E r \in call[c].todo :
       call' = [call EXCEPT ![c].aim = r, ![c].todo = @ \ {r}]
  /\ UNCHANGED lock /\ UnchangedTables

\* A row that no longer qualifies when its lock is granted is not returned.
Count(c) ==
  LET r == call[c].aim
      counted == IF r \in Active(call[c].portfolio) THEN reservation[r].risk ELSE 0
  IN  /\ At(c, "count")
      /\ r # NoRef
      /\ Acquire(c, ReservationLock(r))
      /\ call' = [call EXCEPT ![c].aim = NoRef, ![c].heat = @ + counted]
      /\ UnchangedTables

Admit(c) ==
  /\ At(c, "count")
  /\ call[c].todo = {} /\ call[c].aim = NoRef
  /\ IF call[c].heat + call[c].risk <= MaxHeat
     THEN Proceed(c, call[c]) /\ UNCHANGED lock
     ELSE End(c)
  /\ UnchangedTables

SweepRow(c) ==
  LET r == call[c].aim
  IN  /\ At(c, "sweep")
      /\ r # NoRef
      /\ IF Late(r) THEN Acquire(c, RowLock(r))
                    ELSE lock[RowLock(r)] = NoRef /\ UNCHANGED lock
      /\ call' = [call EXCEPT ![c].aim = NoRef]
      /\ UnchangedTables

\* The lease sweep has locked the row, and writes it only as it commits.
Swept(r) == \E h \in Sessions : lock[RowLock(r)] = h /\ Running(h, "sweep")

\* The unique key makes an insert wait for a transaction that has inserted or
\* updated the row, and fail once there is a committed one.  A row that is
\* only locked does not make it wait.
Insert(c) ==
  LET r == call[c].request
  IN  /\ At(c, "insert")
      /\ IF call[c].seen # NoRow
         THEN Proceed(c, call[c]) /\ UNCHANGED lock
         ELSE /\ lock[RowLock(r)] = NoRef \/ Swept(r)
              /\ IF Known(r) THEN End(c)
                             ELSE Acquire(c, RowLock(r)) /\ Proceed(c, call[c])
      /\ UnchangedTables

ReleasesRisk(x) == x.op = "transition" /\ x.state \in Terminal

\* Only a handler that writes the reservation locks it.
LockReservation(c) ==
  LET r == call[c].request
  IN  /\ At(c, "reservation")
      /\ IF /\ Running(c, "transition") => ReleasesRisk(call[c])
            /\ reservation[r].status # "NONE"
         THEN Acquire(c, ReservationLock(r))
         ELSE UNCHANGED lock
      /\ Proceed(c, call[c])
      /\ UnchangedTables

-----------------------------------------------------------------------------
(* Commit: the columns each handler assigns *)

CommitReserve(x) ==
  /\ SetRow(x.request, [NoRow EXCEPT !.portfolio = x.portfolio,
                                     !.state = "RESERVED"])
  /\ Hold(x.request, x.portfolio, x.risk)
  /\ RenewLease(x.request)

\* A repeated report fills a missing position in; a move replaces it.
CommitTransition(x) ==
  /\ ledger' = [ledger EXCEPT
       ![x.request].state = x.state,
       ![x.request].position = IF x.state = x.seen.state THEN Given(@, x.position)
                                                         ELSE Given(x.position, @)]
  /\ IF ReleasesRisk(x) /\ x.state # x.seen.state
     THEN Release(x.request) ELSE UNCHANGED reservation
  /\ UNCHANGED expired

CommitSync(x) ==
  /\ ledger' = [ledger EXCEPT ![x.request] =
       [@ EXCEPT !.portfolio = x.portfolio, !.state = "FILLED",
                 !.position = x.position]]
  /\ Hold(x.request, x.portfolio, x.risk)
  /\ RenewLease(x.request)

CommitClose(x) ==
  /\ ledger' = [ledger EXCEPT ![x.request] =
       [@ EXCEPT !.state = "RECONCILED", !.position = x.position,
                 !.deal = x.deal]]
  /\ Release(x.request)
  /\ UNCHANGED expired

Commit(c) ==
  /\ At(c, "commit")
  /\ \/ Running(c, "reserve") /\ CommitReserve(call[c])
     \/ Running(c, "transition") /\ CommitTransition(call[c])
     \/ Running(c, "sync") /\ CommitSync(call[c])
     \/ Running(c, "close") /\ CommitClose(call[c])
  /\ End(c)
  /\ UNCHANGED <<deals, mods>>

CommitSweep(c) ==
  /\ At(c, "sweep")
  /\ call[c].todo = {} /\ call[c].aim = NoRef
  /\ ledger' = [r \in Requests |->
       IF lock[RowLock(r)] = c THEN [ledger[r] EXCEPT !.state = "RECOVERING"]
                               ELSE ledger[r]]
  /\ End(c)
  /\ UNCHANGED <<reservation, expired, deals, mods>>

\* Rolled back: a crash, a lost connection, a deadlock victim.
Fail(c) ==
  /\ call[c] # NoCall
  /\ End(c)
  /\ UnchangedTables

Lapse == /\ \E r \in Requests : LapseLease(r)
         /\ UNCHANGED <<call, lock>>

TxNext ==
  \/ \E c \in Sessions :
       \/ Begin(c) \/ BeginSweep(c)
       \/ LockBook(c) \/ Find(c) \/ LockRow(c) \/ MissRow(c)
       \/ Aim(c) \/ Count(c) \/ Admit(c) \/ SweepRow(c)
       \/ Insert(c) \/ LockReservation(c)
       \/ Commit(c) \/ CommitSweep(c) \/ Fail(c)
  \/ Lapse

TxSpec == TxInit /\ [][TxNext]_txVars

-----------------------------------------------------------------------------
(* Properties *)

\* A snapshot or a closure of a position is written to the request it names
\* although another row holds that position: /transition, which takes no
\* portfolio lock, recorded the position there after the lookup.
StaleLookup ==
  \E p \in Portfolios, r \in Requests, pos \in Positions :
    LET x == [NoCall EXCEPT !.portfolio = p, !.request = r, !.position = pos]
    IN  /\ RowsByPosition(p, pos) \ {r} # {}
        /\ \/ /\ ledger[r].portfolio = p => ledger[r].position = NoRef
              /\ \E k \in Risks : CommitSync([x EXCEPT !.risk = k])
           \/ /\ ledger[r].portfolio = p
              /\ \E d \in Deals : CommitClose([x EXCEPT !.deal = d])
        /\ UNCHANGED <<deals, mods>>

\* Interleaved as they are, the transactions implement the atomic handlers:
\* every commit is one action of ExecutionLedger on the committed tables, with
\* the one exception of a stale lookup.
AtomicHandlers == Init /\ [][Next \/ StaleLookup]_vars

\* The locks whose holders keep the call from going on.
Wanted(c) ==
  CASE At(c, "book") -> {BookLock(call[c].portfolio)}
    [] At(c, "row") /\ Known(call[c].request) -> {RowLock(call[c].request)}
    [] At(c, "insert") /\ call[c].seen = NoRow /\ ~Swept(call[c].request) ->
         {RowLock(call[c].request)}
    [] At(c, "reservation") -> {ReservationLock(call[c].request)}
    [] At(c, "count") /\ call[c].aim # NoRef -> {ReservationLock(call[c].aim)}
    [] At(c, "sweep") /\ call[c].aim # NoRef -> {RowLock(call[c].aim)}
    [] OTHER -> {}

Waits(c, h) == c # h /\ \E l \in Wanted(c) : lock[l] = h

\* Each of these calls waits for one of them and is waited for by one of them,
\* as the members of a circle do.
Entangled(D) ==
  \A c \in D : (\E h \in D : Waits(c, h)) /\ (\E h \in D : Waits(h, c))

\* Calls that wait for each other in a circle are all lease sweeps, which lock
\* rows of every portfolio in no fixed order: no admission, transition or
\* reconciliation is ever a party to a deadlock.
OnlySweepsDeadlock ==
  \A D \in SUBSET Sessions : Entangled(D) => \A c \in D : Running(c, "sweep")

=============================================================================
