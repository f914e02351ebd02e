--------------------------- MODULE SignalDelivery ---------------------------
(***************************************************************************)
(* How the bridge accepts signals and trade events from the EA and gets    *)
(* them into the Telegram chat (routes.py, signal_outbox.py, telegram.py). *)
(*                                                                         *)
(* A signal is queued: POST /signal commits the row and an outbox entry in *)
(* one transaction, and a worker of each bridge instance delivers it.  A   *)
(* trade event is sent by its own HTTP call.  /retry-failed resends both   *)
(* from the rows it read at its start, next to the worker.  No row is      *)
(* locked, and sessions keep what they read (expire_on_commit=False), so a *)
(* write may rest on a row as it was long before; SQLAlchemy updates only  *)
(* the columns whose value differs from the one loaded.                    *)
(*                                                                         *)
(* A step is what lies between two awaits another actor can notice: a      *)
(* SELECT followed at once by its COMMIT is one step, sending to Telegram  *)
(* is a step of its own.  A crash loses a running call, never a row.       *)
(***************************************************************************)
EXTENDS Naturals, Sequences, FiniteSets

CONSTANTS
  Signals,             \* signal_id values
  TradeEvents,         \* event_id values
  Workers,             \* outbox workers, one per bridge instance
  Calls,               \* HTTP calls and bot commands in progress
  NoItem,              \* no signal and no event
  RequireFingerprint,  \* settings.REQUIRE_DECISION_FINGERPRINT
  MAX_ATTEMPTS,        \* after which a failing delivery is given up
  RetryLimit,          \* rows one /retry-failed takes
  Updates,             \* lifecycle states the EA reports
  MaxMessages          \* bound: messages in the chat about one item

Items == Signals \cup TradeEvents
Processes == Workers \cup Calls

ASSUME DeliveryAssumption ==
  /\ Signals \cap TradeEvents = {} /\ NoItem \notin Items
  /\ Workers \cap Calls = {}
  /\ RequireFingerprint \in BOOLEAN
  /\ MAX_ATTEMPTS \in Nat \ {0} /\ RetryLimit \in Nat \ {0}
  /\ Updates \subseteq {"valid", "stale", "expired", "invalidated"}
  /\ MaxMessages \in Nat

VARIABLES
  row,     \* tables signals and trade_events
  outbox,  \* table signal_delivery_outbox
  chat,    \* per item, the messages in the primary chat: the banner of each
  paused,  \* bot setting broadcast_paused
  proc     \* what each worker and call is doing, with what it has read

vars == <<row, outbox, chat, paused, proc>>

-----------------------------------------------------------------------------

SignalStatus == {"pending", "active", "failed", "permanently_failed"}
SignalLifecycleStatus == {"valid", "stale", "expired", "invalidated"}
ParityStatus == {"PARITY_OK", "PARITY_MISMATCH", "FINGERPRINT_MISSING"}

NoRow == [status |-> "none", parity |-> "none", message |-> 0,
          lifecycle |-> "valid"]
NoEntry == [status |-> "none", attempts |-> 0, due |-> FALSE]
Earlier == [NoRow EXCEPT !.status = "active", !.message = 1]
Idle == [pc |-> "idle", item |-> NoItem, note |-> "none", seen |-> "none",
         attempts |-> 0, message |-> 0, todo |-> {}]
Gone == [Idle EXCEPT !.pc = "gone"]

\* pc: "admit" a signal whose broadcast controls are read, "claim" an entry
\* that is read, "send", "record" an acknowledged message, "edit" and "mark" a
\* card, "retry" the next row of a batch; "gone" is one that never runs.  note says on whose behalf: "worker",
\* "event" or "retry", or carries the parity or lifecycle state to be written.
ProcType ==
  [pc : {"idle", "gone", "admit", "claim", "send", "record", "edit", "mark", "retry"},
   item : Items \cup {NoItem},
   note : {"none", "worker", "event", "retry"} \cup ParityStatus
             \cup SignalLifecycleStatus,
   seen : {"none", "quiet", "pending", "processing"} \cup SignalLifecycleStatus,
   attempts : 0..MAX_ATTEMPTS, message : Nat, todo : SUBSET Items]

TypeOK ==
  /\ row \in [Items -> [status : SignalStatus \cup {"none"},
                        parity : ParityStatus \cup {"none"},
                        message : Nat, lifecycle : SignalLifecycleStatus]]
  /\ outbox \in [Signals -> [status : {"none", "pending", "processing", "sent",
                                       "failed"},
                             attempts : 0..MAX_ATTEMPTS, due : BOOLEAN]]
  /\ chat \in [Items -> Seq(SignalLifecycleStatus)]
  /\ paused \in BOOLEAN
  /\ proc \in [Processes -> ProcType]

Known(i) == row[i].status # "none"
Queued(s) == outbox[s].status # "none"

\* What GET /copy/feed lists to an entitled subscriber.
CopyFeed == {s \in Signals : row[s].status = "active" /\ row[s].lifecycle = "valid"}

\* Some trade events were posted before; not every process need exist.
Init ==
  /\ \E old \in SUBSET TradeEvents :
       /\ row = [i \in Items |-> IF i \in old THEN Earlier ELSE NoRow]
       /\ chat = [i \in Items |-> IF i \in old THEN <<"valid">> ELSE <<>>]
  /\ outbox = [s \in Signals |-> NoEntry]
  /\ paused = FALSE
  /\ proc \in [Processes -> {Idle, Gone}]

Become(p, what) == proc' = [proc EXCEPT ![p] = what]

-----------------------------------------------------------------------------
(* POST /signal *)

\* A decision whose fingerprint is wrong, or missing where it is required, is
\* stored for audit and answered with an error.
Refused(parity) ==
  \/ parity = "PARITY_MISMATCH"
  \/ parity = "FINGERPRINT_MISSING" /\ RequireFingerprint

RefuseSignal(s, parity) ==
  /\ Refused(parity)
  /\ ~Known(s)
  /\ row' = [row EXCEPT ![s].status = "permanently_failed", ![s].parity = parity]
  /\ UNCHANGED <<outbox, chat, paused, proc>>

\* get_signal_broadcast_controls, before anything is written.  Symbols are
\* muted and unmuted at any time, so whether this one is, is a choice.
ReadControls(c, s, parity) ==
  /\ proc[c] = Idle
  /\ ~Refused(parity)
  /\ \E muted \in BOOLEAN :
       Become(c, [Idle EXCEPT !.pc = "admit", !.item = s, !.note = parity,
                    !.seen = IF paused \/ muted THEN "quiet" ELSE "none"])
  /\ UNCHANGED <<row, outbox, chat, paused>>

\* Faulty variant: a repeated signal is queued again.
AdmitSignalAgain(c) ==
  LET s == proc[c].item
  IN  /\ proc[c].pc = "admit"
      /\ Become(c, Idle)
      /\ IF proc[c].seen = "quiet"
         THEN /\ row' = [row EXCEPT ![s].status = "active",
                                    ![s].parity = proc[c].note]
              /\ UNCHANGED outbox
         ELSE /\ row' = [row EXCEPT ![s].status = "pending",
                                    ![s].parity = proc[c].note]
              /\ outbox' = [outbox EXCEPT ![s] = [status |-> "pending",
                                                  attempts |-> 0, due |-> TRUE]]
      /\ UNCHANGED <<chat, paused>>

\* The transaction that writes the row, with its outbox entry unless the
\* broadcast is suppressed.  The unique signal_id lets one call win.
AdmitSignal(c) ==
  LET s == proc[c].item
  IN  /\ proc[c].pc = "admit"
      /\ Become(c, Idle)
      /\ IF Known(s)
         THEN UNCHANGED <<row, outbox>>
         ELSE IF proc[c].seen = "quiet"
         THEN /\ row' = [row EXCEPT ![s].status = "active",
                                    ![s].parity = proc[c].note]
              /\ UNCHANGED outbox
         ELSE /\ row' = [row EXCEPT ![s].status = "pending",
                                    ![s].parity = proc[c].note]
              /\ outbox' = [outbox EXCEPT ![s] = [status |-> "pending",
                                                  attempts |-> 0, due |-> TRUE]]
      /\ UNCHANGED <<chat, paused>>

(* POST /trade: the row is reserved first, then the call sends it itself. *)
ReceiveTradeEvent(c, e) ==
  /\ proc[c] = Idle
  /\ ~Known(e)
  /\ row' = [row EXCEPT ![e].status = "pending"]
  /\ Become(c, [Idle EXCEPT !.pc = "send", !.item = e, !.note = "event"])
  /\ UNCHANGED <<outbox, chat, paused>>

-----------------------------------------------------------------------------
(* send_telegram_message, for whoever called it *)

Room(i) == Len(chat[i]) < MaxMessages

\* Telegram posted the message and its answer arrived.
Send(p) ==
  LET i == proc[p].item
  IN  /\ proc[p].pc = "send" /\ Room(i)
      /\ chat' = [chat EXCEPT ![i] = Append(@, "valid")]
      /\ Become(p, [proc[p] EXCEPT !.pc = "record", !.message = Len(chat[i]) + 1])
      /\ UNCHANGED <<row, outbox, paused>>

\* Telegram posted the message, the answer was lost, and _send_to_chat tries
\* again or gives up.
LoseAnswer(p) ==
  LET i == proc[p].item
  IN  /\ proc[p].pc = "send" /\ Room(i)
      /\ chat' = [chat EXCEPT ![i] = Append(@, "valid")]
      /\ UNCHANGED <<row, outbox, paused, proc>>

-----------------------------------------------------------------------------
(* deliver_pending_once *)

ReadEntry(w) ==
  /\ proc[w] = Idle
  /\ \E s \in Signals :
       /\ outbox[s].status \in {"pending", "processing"} /\ outbox[s].due
       /\ Become(w, [Idle EXCEPT !.pc = "claim", !.item = s, !.note = "worker",
                       !.seen = outbox[s].status, !.attempts = outbox[s].attempts])
  /\ UNCHANGED <<row, outbox, chat, paused>>

\* The counter saturates: only its comparison with MAX_ATTEMPTS is ever used.
NextAttempt(n) == IF n < MAX_ATTEMPTS THEN n + 1 ELSE n

\* The entry is taken for 60 seconds.  Another worker may have read it too.
ClaimEntry(w) ==
  LET s == proc[w].item
      n == NextAttempt(proc[w].attempts)
  IN  /\ proc[w].pc = "claim"
      /\ outbox' = [outbox EXCEPT ![s].attempts = n, ![s].due = FALSE,
                      ![s].status = IF proc[w].seen = "processing" THEN @
                                    ELSE "processing"]
      /\ Become(w, [proc[w] EXCEPT !.pc = "send", !.attempts = n])
      /\ UNCHANGED <<row, chat, paused>>

\* Faulty variant: a failure is put back however often it was tried.
FailEntryForever(w, permanent) ==
  LET s == proc[w].item
  IN  /\ proc[w].pc = "send"
      /\ outbox' = [outbox EXCEPT ![s].due = FALSE,
                      ![s].status = IF permanent THEN "failed" ELSE "pending"]
      /\ Become(w, Idle)
      /\ UNCHANGED <<row, chat, paused>>

\* NonRetryableError, or any other exception; the signal's row is left alone.
FailEntry(w, permanent) ==
  LET s == proc[w].item
  IN  /\ proc[w].pc = "send"
      /\ outbox' = [outbox EXCEPT ![s].due = FALSE,
                      ![s].status = IF permanent \/ proc[w].attempts >= MAX_ATTEMPTS
                                    THEN "failed" ELSE "pending"]
      /\ Become(w, Idle)
      /\ UNCHANGED <<row, chat, paused>>

\* Faulty variant: the entry is settled, the signal is not.
RecordSentEntryOnly(w) ==
  /\ proc[w].pc = "record"
  /\ outbox' = [outbox EXCEPT ![proc[w].item].status = "sent"]
  /\ Become(w, Idle)
  /\ UNCHANGED <<row, chat, paused>>

\* Faulty variant: the message id is not kept.
RecordSentNoMessage(w) ==
  /\ proc[w].pc = "record"
  /\ outbox' = [outbox EXCEPT ![proc[w].item].status = "sent"]
  /\ row' = [row EXCEPT ![proc[w].item].status = "active"]
  /\ Become(w, Idle)
  /\ UNCHANGED <<chat, paused>>

RecordSent(w) ==
  LET s == proc[w].item
  IN  /\ proc[w].pc = "record"
      /\ outbox' = [outbox EXCEPT ![s].status = "sent"]
      /\ row' = [row EXCEPT ![s].status = "active",
                            ![s].message = proc[w].message]
      /\ Become(w, Idle)
      /\ UNCHANGED <<chat, paused>>

Work(w) ==
  \/ ReadEntry(w) \/ ClaimEntry(w)
  \/ Send(w) \/ LoseAnswer(w)
  \/ \E permanent \in BOOLEAN : FailEntry(w, permanent)
  \/ RecordSent(w)

-----------------------------------------------------------------------------
(* The trade event's own call, and retry_failed_signals_core and            *)
(* retry_failed_trade_events_core, which send the rows they read earlier.   *)

\* Faulty variant: rows that failed for good are sent again.
RetryableAlways(aged) ==
  {i \in Items : row[i].status \in {"failed", "permanently_failed"}
                  \/ (row[i].status = "pending" /\ i \in aged)}

\* aged are the rows received more than PENDING_STALE_SECONDS ago.
Retryable(aged) ==
  {i \in Items : row[i].status = "failed"
                  \/ (row[i].status = "pending" /\ i \in aged)}

\* POST /retry-failed or /trade/retry-failed; the bot's /retry calls both.  How
\* long ago a row came is a choice.
BeginRetry(c, table) ==
  /\ proc[c] = Idle
  /\ \E aged \in SUBSET table, batch \in SUBSET table :
       LET found == table \cap Retryable(aged)
       IN  /\ batch # {} /\ batch \subseteq found
           /\ Cardinality(batch) <= RetryLimit
           /\ batch = found \/ Cardinality(batch) = RetryLimit
           /\ Become(c, [Idle EXCEPT !.pc = "retry", !.note = "retry", !.todo = batch])
  /\ UNCHANGED <<row, outbox, chat, paused>>

RetryNext(c) ==
  /\ proc[c].pc = "retry"
  /\ \E i \in proc[c].todo :
       Become(c, [proc[c] EXCEPT !.pc = "send", !.item = i, !.todo = @ \ {i}])
  /\ UNCHANGED <<row, outbox, chat, paused>>

\* After one row, the rest of the batch.
Continue(c) ==
  Become(c, IF proc[c].todo = {} THEN Idle
            ELSE [Idle EXCEPT !.pc = "retry", !.note = "retry",
                              !.todo = proc[c].todo])

\* A transient failure of the event's own call stores FAILED, one of a retry
\* leaves the status as it is.
FailCall(c, permanent) ==
  LET i == proc[c].item
  IN  /\ proc[c].pc = "send"
      /\ row' = [row EXCEPT ![i].status = IF permanent THEN "permanently_failed"
                                          ELSE IF proc[c].note = "event" THEN "failed"
                                          ELSE @]
      /\ Continue(c)
      /\ UNCHANGED <<outbox, chat, paused>>

RecordCall(c) ==
  LET i == proc[c].item
  IN  /\ proc[c].pc = "record"
      /\ row' = [row EXCEPT ![i].status = "active", ![i].message = proc[c].message]
      /\ Continue(c)
      /\ UNCHANGED <<outbox, chat, paused>>

-----------------------------------------------------------------------------
(* PATCH /signal/{signal_id}/status *)

\* A card that is not posted, or a state that is valid again, edits nothing.
UpdateLifecycle(c, s, new) ==
  /\ proc[c] = Idle
  /\ Known(s)
  /\ IF row[s].message # 0 /\ new # "valid"
     THEN /\ Become(c, [Idle EXCEPT !.pc = "edit", !.item = s, !.note = new,
                          !.seen = row[s].lifecycle, !.message = row[s].message])
          /\ UNCHANGED row
     ELSE /\ row' = [row EXCEPT ![s].lifecycle = new]
          /\ UNCHANGED proc
  /\ UNCHANGED <<outbox, chat, paused>>

EditCard(c) ==
  LET s == proc[c].item
  IN  /\ proc[c].pc = "edit"
      /\ chat' = [chat EXCEPT ![s][proc[c].message] = proc[c].note]
      /\ Become(c, [proc[c] EXCEPT !.pc = "mark"])
      /\ UNCHANGED <<row, outbox, paused>>

\* The row is written after the edit, also after one that failed.
MarkSignal(c) ==
  LET s == proc[c].item
  IN  /\ proc[c].pc \in {"edit", "mark"}
      /\ row' = [row EXCEPT ![s].lifecycle = IF proc[c].note = proc[c].seen THEN @
                                             ELSE proc[c].note]
      /\ Become(c, Idle)
      /\ UNCHANGED <<outbox, chat, paused>>

-----------------------------------------------------------------------------
(* /pause and /resume; time; and the loss of a process *)

SetBroadcastPaused ==
  /\ paused' = ~paused
  /\ UNCHANGED <<row, outbox, chat, proc>>

\* next_attempt_at of an entry passes.
Lapse(s) ==
  /\ outbox[s].status \in {"pending", "processing"}
  /\ ~outbox[s].due
  /\ outbox' = [outbox EXCEPT ![s].due = TRUE]
  /\ UNCHANGED <<row, chat, paused, proc>>

Crash(p) ==
  /\ proc[p] \notin {Idle, Gone}
  /\ Become(p, Idle)
  /\ UNCHANGED <<row, outbox, chat, paused>>

Call(c) ==
  \/ \E s \in Signals, parity \in ParityStatus : ReadControls(c, s, parity)
  \/ AdmitSignal(c)
  \/ \E e \in TradeEvents : ReceiveTradeEvent(c, e)
  \/ BeginRetry(c, Signals) \/ BeginRetry(c, TradeEvents) \/ RetryNext(c)
  \/ Send(c) \/ LoseAnswer(c)
  \/ \E permanent \in BOOLEAN : FailCall(c, permanent)
  \/ RecordCall(c)
  \/ \E s \in Signals, new \in Updates : UpdateLifecycle(c, s, new)
  \/ EditCard(c) \/ MarkSignal(c)

Next ==
  \/ \E s \in Signals, parity \in ParityStatus : RefuseSignal(s, parity)
  \/ \E c \in Calls : Call(c)
  \/ \E w \in Workers : Work(w)
  \/ SetBroadcastPaused
  \/ \E s \in Signals : Lapse(s)
  \/ \E p \in Processes : Crash(p)

Spec == Init /\ [][Next]_vars

\* run_outbox_worker polls forever, every request to Telegram has a timeout,
\* and next_attempt_at passes.  Nothing is assumed of the EA or of operators.
Fairness ==
  /\ WF_vars(\E w \in Workers : Work(w))
  /\ \A s \in Signals : WF_vars(Lapse(s))

FairSpec == Spec /\ Fairness

-----------------------------------------------------------------------------
(* Properties *)

\* Only a signal that was queued is ever posted: neither a decision whose
\* fingerprint was refused nor one suppressed at intake comes back through the
\* worker or /retry-failed, and a refused one is not in the copy feed.
OnlyQueuedIsPosted ==
  \A s \in Signals :
    /\ ~Queued(s) => chat[s] = <<>>
    /\ Refused(row[s].parity) => s \notin CopyFeed

\* A row that says delivered names a message that is in the chat; the only
\* active signal without one was suppressed at intake.
ActiveWasPosted ==
  \A i \in Items :
    /\ row[i].message <= Len(chat[i])
    /\ row[i].status = "active" =>
         \/ row[i].message # 0
         \/ i \in Signals /\ ~Queued(i)

\* No accepted signal is lost: until it is active, or Telegram refused it for
\* good, its row stays pending and so within reach of /retry-failed, and an
\* entry marked sent has its signal marked too.
AcceptedIsRecoverable ==
  \A s \in Signals :
    /\ row[s].status = "pending" => Queued(s)
    /\ Queued(s) => row[s].status \in {"pending", "active", "permanently_failed"}
    /\ outbox[s].status = "sent" /\ row[s].status # "permanently_failed" =>
         row[s].status = "active"

\* What was delivered stays delivered, except that a call which read the row
\* while it was still undelivered may write its own failure over it.
DeliveredStays ==
  [][\A i \in Items :
       row[i].status = "active" /\ row'[i].status # "active" =>
         \E c \in Calls : proc[c].pc = "send" /\ proc[c].item = i
                            /\ proc'[c].item # i]_vars

\* Once workers stop dying, every entry of the outbox is sent or given up,
\* whatever Telegram answers and however often calls and workers raced before.
WorkerStopsDying == <>[][\A w \in Workers : proc[w] # Idle /\ proc'[w] = Idle =>
                           outbox' # outbox]_vars
OutboxSettles ==
  WorkerStopsDying =>
    \A s \in Signals : Queued(s) ~> outbox[s].status \in {"sent", "failed"}

=============================================================================
