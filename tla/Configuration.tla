---------------------------- MODULE Configuration ----------------------------
(***************************************************************************)
(* How a trading configuration gets from a Strategy Tester report to the   *)
(* EA: ingested evidence (api/backtest_evidence.py), the evaluation of     *)
(* challengers (recalibration_lifecycle.py), the operator's decision on    *)
(* the promotion card (bot_promotions.py), the EA's poll and its           *)
(* acknowledgement, and the fallback when a runtime report says the active *)
(* configuration is unhealthy (api/config_sync.py).                        *)
(*                                                                         *)
(* One symbol, strategy and timeframe.  A configuration is its place in    *)
(* the order of creation.  Nobody locks a row to read it: a call computes  *)
(* from the rows it loaded, and SQLAlchemy updates only the columns whose  *)
(* value differs from the one loaded.                                      *)
(***************************************************************************)
EXTENDS BacktestEvidence, SequencesExt

CONSTANTS
  N,          \* configurations are 1..N, in the order they are registered
  Runs,       \* Strategy Tester runs
  ReportOf,   \* the report of each run
  TestedIn,   \* the configuration it tests
  Calls,      \* requests, taps and cycles in progress
  Founders,   \* configurations 1..Founders were made champions by hand
  MaxPromos,  \* bound: promotion requests ever made
  MaxReports  \* bound: reports stored for one configuration

Configs == 1..N
None == 0

ASSUME ConfigurationAssumption ==
  /\ N \in Nat \ {0} /\ Founders \in 1..N /\ MaxPromos \in Nat /\ MaxReports \in Nat
  /\ TestedIn \in [Runs -> Configs]
  /\ ReportOf \in [Runs -> Report]

VARIABLES
  stage,      \* configuration_registry.lifecycle_status
  evidence,   \* configuration_evaluations: the runs stored, in version order
  promos,     \* promotion_requests
  sync,       \* the symbol's row of config_sync_states
  ea,         \* CConfigSync: the hash last acknowledged, the one being sent
  call,       \* what each call has loaded and is about to write
  past        \* history

vars == <<stage, evidence, promos, sync, ea, call, past>>

-----------------------------------------------------------------------------

Stages == {"absent", "BACKTESTED", "VALIDATED", "CHALLENGER", "CHAMPION"}

Row == [active : Configs \cup {None}, acked : Configs \cup {None},
        pending : Configs \cup {None}, rollback : Configs \cup {None},
        state : {"HOLD", "PENDING_ACK", "ACTIVE", "ROLLBACK", "DEFENSIVE", "HALT"}]

NewRow == [active |-> None, acked |-> None, pending |-> None,
           rollback |-> None, state |-> "HOLD"]

Promo == [config : Configs, status : {"pending", "approved", "rejected"},
          sent : BOOLEAN]

NoCall == [op |-> "none", row |-> NewRow, new |-> NewRow, configs |-> {}, promo |-> 0]

CallType == [op : {"none", "ack", "runtime", "tap", "approve", "refuse",
                   "reject", "evaluate", "cards"},
             row : Row, new : Row, configs : SUBSET Configs, promo : 0..MaxPromos]

Champions == {c \in Configs : stage[c] = "CHAMPION"}

\* The UPDATE of a row that was loaded as old and set to new.
Written(row, old, new) ==
  [f \in DOMAIN row |-> IF new[f] = old[f] THEN row[f] ELSE new[f]]

\* The row changed since the call loaded it.
Stale(p) == sync # call[p].row

Begin(p, what) ==
  /\ call[p] = NoCall
  /\ call' = [call EXCEPT ![p] = what]

Done(p) == call' = [call EXCEPT ![p] = NoCall]

-----------------------------------------------------------------------------
(* Evidence                                                                 *)

\* ingest_backtest_evidence.  Two reports of one configuration at once would
\* take the same version and the second is refused, so this is one step.
Ingest(run) ==
  LET c == TestedIn[run]
      tested == IF stage[c] = "absent" THEN "BACKTESTED" ELSE stage[c]
  IN  /\ \A d \in 1..(c - 1) : stage[d] # "absent"
      /\ Len(evidence[c]) < MaxReports
      /\ \A i \in DOMAIN evidence[c] : evidence[c][i] # run
      /\ Accepted(ReportOf[run])
      /\ stage' = [stage EXCEPT ![c] =
           IF tested = "BACKTESTED" /\ Decision(ReportOf[run]) = "VALIDATED"
           THEN "VALIDATED" ELSE tested]
      /\ evidence' = [evidence EXCEPT ![c] = Append(@, run)]
      /\ UNCHANGED <<promos, sync, ea, call, past>>

\* Quarantine, shadow and challenger review: no code of the repository takes
\* these steps, and nothing distinguishes the stages between.
Review(c) ==
  /\ stage[c] = "VALIDATED"
  /\ stage' = [stage EXCEPT ![c] = "CHALLENGER"]
  /\ UNCHANGED <<evidence, promos, sync, ea, call, past>>

Latest(c) == ReportOf[evidence[c][Len(evidence[c])]]

\* The challengers evaluate_registered_challengers makes a request for.
Promotable ==
  {c \in Configs :
     /\ stage[c] = "CHALLENGER" /\ Champions # {}
     /\ LET champion == Max(Champions)
        IN  /\ evidence[c] # << >> /\ evidence[champion] # << >>
            /\ Promote(Latest(champion), Latest(c))
     /\ ~\E i \in DOMAIN promos : /\ promos[i].config = c
                                  /\ promos[i].status \in {"pending", "approved"}}

Evaluate(p) ==
  /\ Promotable # {}
  /\ Begin(p, [NoCall EXCEPT !.op = "evaluate", !.configs = Promotable])
  /\ UNCHANGED <<stage, evidence, promos, sync, ea, past>>

\* Two evaluations at once may each have found no request.
CommitPromotions(p) ==
  LET chosen == SetToSeq(call[p].configs)
  IN  /\ call[p].op = "evaluate"
      /\ Len(promos) + Len(chosen) <= MaxPromos
      /\ promos' = promos \o
           [i \in DOMAIN chosen |-> [config |-> chosen[i], status |-> "pending", sent |-> FALSE]]
      /\ call' = [call EXCEPT ![p].op = "cards", ![p].promo = Len(promos) + 1]
      /\ UNCHANGED <<stage, evidence, sync, ea, past>>

\* _send_config_promotion_cards; a card that cannot be sent is not sent again.
SendCard(p, c) ==
  /\ call[p].op = "cards" /\ c \in call[p].configs
  /\ \E sent \in BOOLEAN :
       promos' = [i \in DOMAIN promos |->
         IF i >= call[p].promo /\ promos[i].config = c /\ promos[i].status = "pending"
         THEN [promos[i] EXCEPT !.sent = sent] ELSE promos[i]]
  /\ call' = [call EXCEPT ![p] = IF call[p].configs = {c} THEN NoCall
                                 ELSE [call[p] EXCEPT !.configs = @ \ {c}]]
  /\ UNCHANGED <<stage, evidence, sync, ea, past>>

-----------------------------------------------------------------------------
(* The operator's decision: handle_promotion_callback                       *)

\* A tap on a card: the request is loaded and must be pending.
Tap(p, i, decision) ==
  /\ promos[i].sent /\ promos[i].status = "pending"
  /\ Begin(p, [NoCall EXCEPT !.op = decision, !.configs = {promos[i].config}, !.promo = i])
  /\ UNCHANGED <<stage, evidence, promos, sync, ea, past>>

\* Faulty variant: approving activates.
StagedActive(row, c) ==
  [row EXCEPT !.active = c, !.acked = c, !.rollback = row.active, !.state = "ACTIVE"]

\* Approving stages the champion; the EA has yet to acknowledge it.
Staged(row, c) ==
  [row EXCEPT !.pending = c, !.rollback = row.active, !.state = "PENDING_ACK"]

\* The registry row, then the synchronization row.
LoadCandidate(p, c) ==
  /\ call[p].op = "tap" /\ call[p].configs = {c}
  /\ call' = [call EXCEPT ![p] =
       IF stage[c] = "CHALLENGER"
       THEN [@ EXCEPT !.op = "approve", !.row = sync, !.new = Staged(sync, c)]
       ELSE [@ EXCEPT !.op = "refuse"]]
  /\ UNCHANGED <<stage, evidence, promos, sync, ea, past>>

Approve(p, c) ==
  /\ call[p].op = "approve" /\ call[p].configs = {c}
  /\ stage' = [stage EXCEPT ![c] = "CHAMPION"]
  /\ sync' = Written(sync, call[p].row, call[p].new)
  /\ promos' = [promos EXCEPT ![call[p].promo].status = "approved"]
  /\ past' = [past EXCEPT !.offered = c,
                !.stale = @ \/ Stale(p) \/ stage[c] # "CHALLENGER",
                !.contested = IF promos[call[p].promo].status = "pending"
                              THEN @ ELSE @ \cup {call[p].promo},
                !.rolled = 0]
  /\ Done(p)
  /\ UNCHANGED <<evidence, ea>>

\* Rejected, or no longer a challenger.
Reject(p) ==
  /\ call[p].op \in {"reject", "refuse"}
  /\ promos' = [promos EXCEPT ![call[p].promo].status = "rejected"]
  /\ past' = [past EXCEPT !.contested = IF promos[call[p].promo].status = "pending"
                                        THEN @ ELSE @ \cup {call[p].promo}]
  /\ Done(p)
  /\ UNCHANGED <<stage, evidence, sync, ea>>

-----------------------------------------------------------------------------
(* The EA's poll and acknowledgement                                        *)

\* _expected_activation_hash
Expected(row) ==
  IF row.pending # None THEN row.pending
  ELSE IF row.state = "ROLLBACK" /\ row.rollback # None THEN row.rollback
  ELSE row.active

\* ... or the latest champion.  That a target is a champion is an invariant, so
\* the branches for one that is not are never taken.
Offer ==
  IF Expected(sync) # None THEN Expected(sync)
  ELSE IF Champions # {} THEN Max(Champions) ELSE None

\* CConfigSync::Poll: what it acknowledged last it does not acknowledge again.
Poll ==
  /\ ea.sending = None
  /\ Offer \notin {None, ea.acked}
  /\ ea' = [ea EXCEPT !.sending = Offer]
  /\ UNCHANGED <<stage, evidence, promos, sync, call, past>>

\* acknowledge_config activates the exact hash it expects.
Activated(row, c) ==
  [active |-> c, acked |-> c, pending |-> None,
   rollback |-> IF row.state = "ROLLBACK" /\ row.pending = c THEN None ELSE row.active,
   state |-> "ACTIVE"]

\* Faulty variant: whatever the EA says it runs is activated.
AcknowledgeAnything(p) ==
  /\ ea.sending # None
  /\ \A q \in Calls : call[q].op # "ack"
  /\ Begin(p, [NoCall EXCEPT !.op = "ack", !.row = sync, !.configs = {ea.sending},
                            !.new = Activated(sync, ea.sending)])
  /\ UNCHANGED <<stage, evidence, promos, sync, ea, past>>

\* The envelope always validates: the EA asks for the strategy and timeframe it
\* runs.
Acknowledge(p) ==
  /\ ea.sending # None /\ ea.sending = Offer
  /\ \A q \in Calls : call[q].op # "ack"
  /\ Begin(p, [NoCall EXCEPT !.op = "ack", !.row = sync, !.configs = {ea.sending},
                            !.new = Activated(sync, ea.sending)])
  /\ UNCHANGED <<stage, evidence, promos, sync, ea, past>>

\* 409: the offer changed since the poll, and the EA polls again.
Mismatch ==
  /\ ea.sending # None /\ ea.sending # Offer
  /\ \A q \in Calls : call[q].op # "ack"
  /\ ea' = [ea EXCEPT !.sending = None]
  /\ UNCHANGED <<stage, evidence, promos, sync, call, past>>

\* The answer may be lost; then the EA believes nothing was acknowledged.
Activate(p, c) ==
  /\ call[p].op = "ack" /\ call[p].configs = {c}
  /\ sync' = Written(sync, call[p].row, call[p].new)
  /\ \E answered \in BOOLEAN :
       /\ ea' = [acked |-> IF answered THEN c ELSE ea.acked, sending |-> None]
       /\ past' = [past EXCEPT !.ran = @ \cup {c}, !.stale = @ \/ Stale(p),
                     !.offered = IF @ = c THEN None ELSE @,
                     !.lost = @ \/ ~answered]
  /\ Done(p)
  /\ UNCHANGED <<stage, evidence, promos>>

\* A terminal restart between requests.
Restart ==
  /\ ea.sending = None /\ ea.acked # None
  /\ ea' = [ea EXCEPT !.acked = None]
  /\ UNCHANGED <<stage, evidence, promos, sync, call, past>>

-----------------------------------------------------------------------------
(* Runtime reports: report_runtime and rollback_decision                    *)

\* Faulty variant: any other champion may be the fallback.
Others(c) == Champions \ {c}

Older(c) == {d \in Champions : d < c}

\* The recorded fallback, else the latest champion older than the active one,
\* else the active one itself.
RollbackTarget(row, c) ==
  IF row.rollback \in Champions THEN row.rollback
  ELSE IF Older(c) # {} THEN Max(Older(c)) ELSE c

\* Faulty variant: an unhealthy configuration without an alternative is its own
\* fallback.
JudgedRollingBack(row, healthy) ==
  IF healthy THEN [row EXCEPT !.state = "ACTIVE"]
  ELSE [row EXCEPT !.pending = RollbackTarget(row, row.active), !.active = None,
                   !.acked = None, !.state = "ROLLBACK"]

Judged(row, healthy) ==
  LET target == RollbackTarget(row, row.active)
  IN  IF healthy THEN [row EXCEPT !.state = "ACTIVE"]
      ELSE IF target = row.active THEN [row EXCEPT !.state = "DEFENSIVE"]
      ELSE [row EXCEPT !.pending = target, !.active = None, !.acked = None,
                       !.state = "ROLLBACK"]

\* Reports about the active configuration; one that changes nothing is left out.
ReportRuntime(p, healthy) ==
  /\ sync.active \in Champions
  /\ Judged(sync, healthy) # sync
  /\ Begin(p, [NoCall EXCEPT !.op = "runtime", !.row = sync,
                            !.new = Judged(sync, healthy)])
  /\ UNCHANGED <<stage, evidence, promos, sync, ea, past>>

\* A report about any other configuration writes one column whatever the rest of
\* the row says, so its load and its commit are one step.
ReportOther(c) ==
  /\ c \notin Champions \/ c # sync.active
  /\ sync.state # "HALT"
  /\ sync' = [sync EXCEPT !.state = "HALT"]
  /\ UNCHANGED <<stage, evidence, promos, ea, call, past>>

\* A rollback takes back whatever was on offer.
Judge(p) ==
  LET rollsBack == call[p].new.state = "ROLLBACK" /\ call[p].row.active # None
  IN  /\ call[p].op = "runtime"
      /\ sync' = Written(sync, call[p].row, call[p].new)
      /\ past' = [past EXCEPT !.stale = @ \/ Stale(p),
                    !.rolled = IF rollsBack /\ ~past.stale /\ ~Stale(p) THEN @ + 1 ELSE @,
                    !.offered = IF rollsBack THEN None ELSE @]
      /\ Done(p)
      /\ UNCHANGED <<stage, evidence, promos, ea>>

\* A call ends without a commit.
Fail(p) ==
  /\ call[p] # NoCall
  /\ ea' = [ea EXCEPT !.sending = IF call[p].op = "ack" THEN None ELSE @]
  /\ Done(p)
  /\ UNCHANGED <<stage, evidence, promos, sync, past>>

-----------------------------------------------------------------------------

\* The first champions were ingested and then made champions by hand: nothing is
\* promoted before there is one.  The EA has asked for none yet.
Init ==
  /\ stage = [c \in Configs |-> IF c <= Founders THEN "CHAMPION" ELSE "absent"]
  /\ evidence \in [Configs -> {<< >>} \cup {<<run>> : run \in Runs}]
  /\ \A c \in Configs : IF c <= Founders THEN \E run \in Runs : TestedIn[run] = c /\ evidence[c] = <<run>>
                      ELSE evidence[c] = << >>
  /\ promos = << >>
  /\ sync = NewRow
  /\ ea = [acked |-> None, sending |-> None]
  /\ call = [p \in Calls |-> NoCall]
  /\ past = [ran |-> {}, rolled |-> 0, offered |-> None, contested |-> {},
             stale |-> FALSE, lost |-> FALSE]

Commit(p) ==
  \/ CommitPromotions(p)
  \/ \E c \in Configs : \/ SendCard(p, c) \/ LoadCandidate(p, c)
                       \/ Approve(p, c) \/ Activate(p, c)
  \/ Reject(p)
  \/ Judge(p)

Next ==
  \/ \E run \in Runs : Ingest(run)
  \/ \E c \in Configs : Review(c) \/ ReportOther(c)
  \/ Poll
  \/ Mismatch
  \/ Restart
  \/ \E p \in Calls :
       \/ Evaluate(p)
       \/ Acknowledge(p)
       \/ \E i \in DOMAIN promos, decision \in {"tap", "reject"} : Tap(p, i, decision)
       \/ \E healthy \in BOOLEAN : ReportRuntime(p, healthy)
       \/ Commit(p)
       \/ Fail(p)

Spec == Init /\ [][Next]_vars

-----------------------------------------------------------------------------
(* Properties                                                               *)

\* Every table keeps its shape, and every hash the EA may be sent to is that of
\* a champion, so the server never finds a target it cannot serve.
TypeOK ==
  /\ stage \in [Configs -> Stages]
  /\ evidence \in [Configs -> Seq(Runs)]
  /\ promos \in Seq(Promo) /\ Len(promos) <= MaxPromos
  /\ sync \in Row
  /\ ea \in [acked : Configs \cup {None}, sending : Configs \cup {None}]
  /\ call \in [Calls -> CallType]

OnlyChampionsAreServed ==
  {Expected(sync), sync.active, sync.rollback, ea.sending} \ {None} \subseteq Champions

\* What the bridge believes active is what it believes acknowledged, and the EA
\* did acknowledge it.
OnlyAcknowledgedRuns ==
  /\ OnlyChampionsAreServed
  /\ sync.active = sync.acked
  /\ sync.active # None => sync.active \in past.ran

\* No use of data on both sides of a split, judged on the trades themselves.
OutOfSample(r) ==
  \A t \in Holdout(r), u \in r.trades \ Holdout(r) : u.exit < t.enter /\ u.id # t.id

\* Every champion but the founders was approved by the operator, and some report on
\* it has a holdout nothing was fitted on.  When two taps raced on one request
\* its status says the last of them.
PromotionIsEarned ==
  \A c \in Champions \ (1..Founders) :
    /\ \E i \in DOMAIN promos : /\ promos[i].config = c
                                /\ promos[i].status = "approved" \/ i \in past.contested
    /\ \E i \in DOMAIN evidence[c] : OutOfSample(ReportOf[evidence[c][i]])

\* An approved configuration stays on offer until the EA acknowledges it,
\* another is approved or a rollback begins, but for a call that wrote
\* from a row changed since.
ApprovedStaysOffered ==
  past.offered # None /\ ~past.stale => sync.pending = past.offered

\* Unhealthy reports end in a configuration that stays: between two approvals no
\* more rollbacks happen than there are champions.  A rollback may lead to one that
\* failed before, because the latest older champion is taken whatever became of it.
RollbacksEnd == past.rolled <= Cardinality(Champions)

\* Whatever awaits the EA's acknowledgement is something the EA will acknowledge:
\* it repeats no acknowledgement it believes delivered, so only a lost answer can
\* leave the bridge waiting for one, or a call that wrote from rows changed since.
OfferIsAnswered ==
  sync.pending # None /\ ~past.lost /\ ~past.stale => ea.acked # sync.pending
=============================================================================
