----------------------------- MODULE Membership -----------------------------
(***************************************************************************)
(* Who may read the copy-trading feed and who stays in the Telegram group: *)
(* payments (subscriptions.py, payments_bot.py), the sweep that warns,     *)
(* expires and removes (group_enforcement.py), and the operator's master   *)
(* switch with its confirmation (settings_store.py, copytrading_admin.py). *)
(*                                                                         *)
(* Telegram delivers updates as concurrent HTTP calls, at least once and   *)
(* in any order; the sweep is one more call.  Nobody locks a row to read   *)
(* it: a call works on the row it loaded, and SQLAlchemy updates only the  *)
(* columns whose value differs from the one loaded.                        *)
(***************************************************************************)
EXTENDS Naturals, FiniteSets

CONSTANTS
  Users,    \* Telegram user ids
  Charges,  \* telegram_payment_charge_id values
  Buyer,    \* whose payment a charge is
  Calls,    \* webhook updates and sweeps in progress
  NoCharge, \* no charge
  Period,   \* SUBSCRIPTION_PERIOD_DAYS
  Grace,    \* SUBSCRIPTION_GRACE_PERIOD_DAYS
  Warning,  \* SUBSCRIPTION_WARNING_HOURS_BEFORE_EXPIRY
  MaxTime   \* bound: how far the clock goes

ASSUME MembershipAssumption ==
  /\ Buyer \in [Charges -> Users] /\ NoCharge \notin Charges
  /\ IsFiniteSet(Charges)
  /\ Period \in Nat \ {0} /\ Grace \in Nat /\ Warning \in Nat
  /\ MaxTime \in Nat

VARIABLES
  now,       \* the clock
  sub,       \* table subscribers
  payments,  \* table payments: the charges recorded
  group,     \* the group chat: who is in, out or banned
  on,        \* bot setting copy_trading_enabled
  pending,   \* bot setting copy_trading_pending_on
  proc,      \* what each call is doing, with the rows it loaded
  stale,     \* history: users for whom a call acted on a row changed since
  off        \* history: an answered OFF nobody asked to undo

members == <<sub, payments, group, stale>>
switch == <<on, pending, off>>
vars == <<now, members, switch, proc>>

-----------------------------------------------------------------------------

Row == [status : {"none", "pending", "active", "expired", "removed"},
        end : Nat, warned : BOOLEAN]

NoRow == [status |-> "none", end |-> 0, warned |-> FALSE]

Idle == [pc |-> "idle", charge |-> NoCharge, time |-> 0, welcome |-> FALSE,
         seen |-> [u \in Users |-> NoRow],
         warn |-> {}, expire |-> {}, remove |-> {}]

\* pc: "pay" a charge and "reply" to it; "flush", "commit", "ban" and "unban"
\* in a sweep; "clear" after switching off; "enable" after a valid yes.
ProcType ==
  [pc : {"idle", "pay", "reply", "flush", "commit", "ban", "unban", "clear",
         "enable"},
   charge : Charges \cup {NoCharge}, time : Nat, welcome : BOOLEAN,
   seen : [Users -> Row],
   warn : SUBSET Users, expire : SUBSET Users, remove : SUBSET Users]

TypeOK ==
  /\ now \in 0..MaxTime
  /\ sub \in [Users -> Row]
  /\ payments \subseteq Charges
  /\ group \in [Users -> {"in", "out", "banned"}]
  /\ on \in BOOLEAN
  /\ pending \in {"none", "fresh", "lapsed"}
  /\ proc \in [Calls -> ProcType]
  /\ stale \subseteq Users
  /\ off \in BOOLEAN

Init ==
  /\ now = 0
  /\ sub = [u \in Users |-> NoRow]
  /\ payments = {}
  /\ group = [u \in Users |-> "out"]
  /\ on = FALSE /\ pending = "none"
  /\ proc = [c \in Calls |-> Idle]
  /\ stale = {} /\ off = FALSE

Become(c, what) == proc' = [proc EXCEPT ![c] = what]

\* is_entitled, and can_copy: what GET /copy/feed asks of the caller's row.
Entitled(u) == sub[u].status = "active" /\ sub[u].end > now
CanCopy(u) == Entitled(u) /\ on

PaidBy(u) == {a \in payments : Buyer[a] = u}

-----------------------------------------------------------------------------
(* Payments *)

\* get_or_create_subscriber
Created(row) == IF row.status = "none" THEN [row EXCEPT !.status = "pending"]
                ELSE row

\* /subscribe and /mysubscription
Subscribe(u) ==
  /\ sub[u].status = "none"
  /\ sub' = [sub EXCEPT ![u] = Created(@)]
  /\ UNCHANGED <<now, payments, group, stale, switch, proc>>

\* Telegram delivers successful_payment, perhaps again.
ReceivePayment(c, a) ==
  LET u == Buyer[a]
      row == Created(sub[u])
  IN  /\ proc[c] = Idle
      /\ sub' = [sub EXCEPT ![u] = row]
      /\ Become(c, [Idle EXCEPT !.pc = "pay", !.charge = a, !.seen[u] = row])
      /\ UNCHANGED <<now, payments, group, stale, switch>>

\* A renewal is stacked on what is left.
PaidRow(row) ==
  [status |-> "active", end |-> (IF row.end > now THEN row.end ELSE now) + Period,
   warned |-> FALSE]

\* The UPDATE of a row that was loaded as old and set to new.
Written(row, old, new) ==
  [f \in DOMAIN row |-> IF new[f] = old[f] THEN row[f] ELSE new[f]]

\* A sweep holds the rows it has flushed until it commits.
Locked(u) == \E c \in Calls : proc[c].pc = "commit"
                                /\ u \in proc[c].warn \cup proc[c].expire

\* Faulty variant: a redelivered charge extends the period again.
RecordPaymentAgain(c) ==
  LET a == proc[c].charge
      u == Buyer[a]
      old == proc[c].seen[u]
  IN  /\ proc[c].pc = "pay" /\ ~Locked(u)
      /\ payments' = payments \cup {a}
      /\ sub' = [sub EXCEPT ![u] = Written(@, old, PaidRow(old))]
      /\ stale' = stale \cup (IF sub[u] = old THEN {} ELSE {u})
      /\ Become(c, [Idle EXCEPT !.pc = "reply", !.charge = a])
      /\ UNCHANGED <<now, group, switch>>

\* record_payment.  The unique charge id lets one delivery win.  was_removed is
\* read from the row after it was made active.
RecordPayment(c) ==
  LET a == proc[c].charge
      u == Buyer[a]
      old == proc[c].seen[u]
      new == PaidRow(old)
  IN  /\ proc[c].pc = "pay" /\ ~Locked(u)
      /\ IF a \in payments
         THEN Become(c, Idle) /\ UNCHANGED <<sub, payments, stale>>
         ELSE /\ payments' = payments \cup {a}
              /\ sub' = [sub EXCEPT ![u] = Written(@, old, new)]
              /\ stale' = stale \cup (IF sub[u] = old THEN {} ELSE {u})
              /\ Become(c, [Idle EXCEPT !.pc = "reply", !.charge = a,
                              !.welcome = new.status = "removed"])
      /\ UNCHANGED <<now, group, switch>>

\* The reply, and _welcome_back: lift the ban and send an invitation.
Reply(c) ==
  LET u == Buyer[proc[c].charge]
  IN  /\ proc[c].pc = "reply"
      /\ group' = [group EXCEPT ![u] = IF proc[c].welcome /\ @ = "banned"
                                       THEN "out" ELSE @]
      /\ Become(c, Idle)
      /\ UNCHANGED <<now, sub, payments, stale, switch>>

-----------------------------------------------------------------------------
(* sweep_subscriber_statuses and run_subscription_enforcement *)

ToWarn(rows, t) == {u \in Users : /\ rows[u].status = "active" /\ ~rows[u].warned
                                  /\ rows[u].end > t /\ rows[u].end <= t + Warning}
\* Faulty variant: the sweep goes by the warning, not by the end of the period.
ToExpireWarned(rows, t) ==
  {u \in Users : rows[u].status = "active" /\ (rows[u].warned \/ rows[u].end <= t)}

ToExpire(rows, t) == {u \in Users : rows[u].status = "active" /\ rows[u].end <= t}

ToRemove(rows, t) ==
  {u \in Users : rows[u].status = "expired" /\ rows[u].end + Grace <= t}

\* Rows with the values a sweep gives them.
Marked(rows, p) ==
  [u \in Users |->
     [rows[u] EXCEPT !.warned = IF u \in p.warn THEN TRUE ELSE @,
                     !.status = IF u \in p.remove THEN "removed"
                                ELSE IF u \in p.expire THEN "expired" ELSE @]]

ChangedSince(p, S) == {u \in S : sub[u] # p.seen[u]}

SelectDue(c) ==
  /\ proc[c] = Idle
  /\ Become(c, [Idle EXCEPT !.pc = "flush", !.time = now, !.seen = sub,
                  !.warn = ToWarn(sub, now), !.expire = ToExpire(sub, now)])
  /\ UNCHANGED <<now, members, switch>>

\* Autoflush writes the first two groups, still uncommitted, before the third
\* is selected among the rows as they are by now.
Flush(c) ==
  LET p == proc[c]
      rows == Marked(sub, p)
  IN  /\ p.pc = "flush"
      /\ \A u \in p.warn \cup p.expire : ~Locked(u)
      /\ Become(c, [p EXCEPT !.pc = "commit", !.seen = sub,
                      !.remove = ToRemove(rows, p.time)])
      /\ stale' = stale \cup ChangedSince(p, p.warn \cup p.expire)
      /\ UNCHANGED <<now, sub, payments, group, switch>>

Commit(c) ==
  LET p == proc[c]
  IN  /\ p.pc = "commit"
      /\ \A d \in Calls \ {c} : proc[d].pc = "commit" =>
           p.remove \cap (proc[d].warn \cup proc[d].expire) = {}
      /\ sub' = Marked(sub, p)
      /\ Become(c, IF p.remove = {} THEN Idle
                   ELSE [Idle EXCEPT !.pc = "ban", !.remove = p.remove,
                           !.seen = sub'])
      /\ stale' = stale \cup ChangedSince(p, p.remove)
      /\ UNCHANGED <<now, payments, group, switch>>

\* The call to Telegram may fail; the loop goes on.
Ban(c, u, done) ==
  /\ proc[c].pc = "ban" /\ u \in proc[c].remove
  /\ group' = [group EXCEPT ![u] = IF done THEN "banned" ELSE @]
  /\ Become(c, [proc[c] EXCEPT !.pc = "unban", !.expire = {u}])
  /\ stale' = stale \cup ChangedSince(proc[c], {u})
  /\ UNCHANGED <<now, sub, payments, switch>>

Unban(c, u, done) ==
  LET rest == proc[c].remove \ {u}
  IN  /\ proc[c].pc = "unban" /\ u \in proc[c].expire
      /\ group' = [group EXCEPT ![u] = IF done /\ @ = "banned" THEN "out" ELSE @]
      /\ Become(c, IF rest = {} THEN Idle
                   ELSE [proc[c] EXCEPT !.pc = "ban", !.remove = rest, !.expire = {}])
      /\ UNCHANGED <<now, sub, payments, stale, switch>>

\* Somebody uses an invitation.
Join(u) ==
  /\ group[u] = "out"
  /\ group' = [group EXCEPT ![u] = "in"]
  /\ UNCHANGED <<now, sub, payments, stale, switch, proc>>

-----------------------------------------------------------------------------
(* The copy-trading master switch: each setting has its own commit. *)

RequestOn ==
  /\ ~on
  /\ pending' = "fresh" /\ off' = FALSE
  /\ UNCHANGED <<now, members, on, proc>>

TurnOff(c) ==
  /\ proc[c] = Idle
  /\ on' = FALSE
  /\ Become(c, [Idle EXCEPT !.pc = "clear"])
  /\ UNCHANGED <<now, members, pending, off>>

\* Faulty variant: a request in flight survives the OFF.
ClearPendingNot(c) ==
  /\ proc[c].pc = "clear"
  /\ off' = (~on /\ \A d \in Calls : proc[d].pc # "enable")
  /\ Become(c, Idle)
  /\ UNCHANGED <<now, members, on, pending>>

ClearPending(c) ==
  /\ proc[c].pc = "clear"
  /\ pending' = "none"
  /\ off' = (~on /\ \A d \in Calls : proc[d].pc # "enable")
  /\ Become(c, Idle)
  /\ UNCHANGED <<now, members, on>>

\* confirm_copy_trading_on takes the request away whatever it is.
Yes(c) ==
  /\ proc[c] = Idle
  /\ pending # "none"
  /\ pending' = "none"
  /\ Become(c, IF pending = "fresh" THEN [Idle EXCEPT !.pc = "enable"] ELSE Idle)
  /\ UNCHANGED <<now, members, on, off>>

Enable(c) ==
  /\ proc[c].pc = "enable"
  /\ on' = TRUE
  /\ Become(c, Idle)
  /\ UNCHANGED <<now, members, pending, off>>

-----------------------------------------------------------------------------

Tick ==
  /\ now < MaxTime
  /\ now' = now + 1
  /\ UNCHANGED <<members, switch, proc>>

\* COPY_TRADING_CONFIRM_TTL_SECONDS pass.
LapseRequest ==
  /\ pending = "fresh"
  /\ pending' = "lapsed"
  /\ UNCHANGED <<now, members, on, off, proc>>

\* The process dies, or the handler raises: telegram_webhook answers ok all
\* the same.
Fail(c) ==
  /\ proc[c] # Idle
  /\ Become(c, Idle)
  /\ UNCHANGED <<now, members, switch>>

Call(c) ==
  \/ \E a \in Charges : ReceivePayment(c, a)
  \/ RecordPayment(c) \/ Reply(c)
  \/ SelectDue(c) \/ Flush(c) \/ Commit(c)
  \/ \E u \in Users, done \in BOOLEAN : Ban(c, u, done) \/ Unban(c, u, done)
  \/ TurnOff(c) \/ ClearPending(c) \/ Yes(c) \/ Enable(c)
  \/ Fail(c)

Next ==
  \/ \E c \in Calls : Call(c)
  \/ \E u \in Users : Subscribe(u) \/ Join(u)
  \/ RequestOn \/ LapseRequest \/ Tick

Spec == Init /\ [][Next]_vars

-----------------------------------------------------------------------------
(* Properties.  A call that acts on a row another one has changed since may *)
(* lose the other's work; whom that befell is in stale.                     *)

\* Every recorded charge counts once: nobody reads the feed for longer than
\* was paid for, whatever is redelivered or raced, and nobody's paid time is
\* dropped but where a call acted on a row that another payment, or a sweep, had
\* changed since.
PaidTimeIsCounted ==
  \A u \in Users :
    LET paid == Period * Cardinality(PaidBy(u))
    IN  /\ sub[u].end <= now + paid
        /\ u \notin stale => paid <= sub[u].end

\* Who has paid time left is served whenever the switch is on, in whatever
\* order payments and sweeps came.
PaidIsServed ==
  \A u \in Users : u \notin stale /\ sub[u].end > now /\ on => CanCopy(u)

\* After an answered OFF the switch stays off until somebody asks for ON: a
\* request left over from before cannot be confirmed.
OffHolds == off => ~on
=============================================================================
