------------------------ MODULE ConfigurationProofs ------------------------
(***************************************************************************)
(* What Configuration promises of the rows, the requests and the EA, for   *)
(* any configurations, reports and calls.  A call writes what it computed  *)
(* from the row it loaded, so the inductive invariant says of each call    *)
(* what that computation rests on (Sound) and uses that champions are      *)
(* never dismissed and requests never deleted.  That rollbacks end needs   *)
(* an invariant of its own, RollbackInv.                                   *)
(***************************************************************************)
EXTENDS Configuration, SequenceTheorems, FiniteSetTheorems, NaturalsInduction, TLAPS

\* A row every hash of which the server can serve to the EA, C the champions.
Served(row, C) ==
  /\ row.active = row.acked
  /\ {row.active, row.pending, row.rollback} \subseteq C \cup {None}

Restated(row, new) ==
  /\ new.active = row.active /\ new.acked = row.acked
  /\ new.pending = row.pending /\ new.rollback = row.rollback
  /\ new.state # "ROLLBACK"

RolledBack(row, target) ==
  [row EXCEPT !.pending = target, !.active = None, !.acked = None, !.state = "ROLLBACK"]

\* What call k rests on, C the champions and P the promotion requests.
Sound(k, C, P) ==
  /\ Served(k.row, C)
  /\ k.op = "evaluate" => k.configs # {}
  /\ k.op \in {"tap", "approve", "refuse", "reject"} =>
       k.promo \in DOMAIN P /\ k.configs = {P[k.promo].config}
  /\ k.op = "approve" => \A c \in k.configs : k.new = Staged(k.row, c)
  /\ k.op = "ack" =>
       \E c \in C : /\ k.configs = {c} /\ k.new = Activated(k.row, c)
                    /\ k.row.pending \in {None, c}
  /\ k.op = "runtime" =>
       /\ k.row.active # None
       /\ \/ Restated(k.row, k.new)
          \/ \E target \in C \ {k.row.active} : k.new = RolledBack(k.row, target)

\* A configuration that was ever tested has a report with a clean holdout.
Studied(c) ==
  stage[c] # "absent" /\ c \notin 1..Founders =>
    \E i \in DOMAIN evidence[c] : OutOfSample(ReportOf[evidence[c][i]])

\* What is about to be approved was tested.
TestedBefore ==
  \A p \in Calls : call[p].op = "approve" => \A c \in call[p].configs : stage[c] # "absent"

\* A champion was approved.
Asked(c) ==
  c \in Champions \ (1..Founders) =>
    \E i \in DOMAIN promos : /\ promos[i].config = c
                             /\ promos[i].status = "approved" \/ i \in past.contested

History == [ran : SUBSET Configs, rolled : Nat, offered : Configs \cup {None},
            contested : SUBSET Nat, stale : BOOLEAN, lost : BOOLEAN]

\* What the EA believes acknowledged is what runs, and it waits for nothing else,
\* but for lost answers and calls that wrote from rows changed since.
Agreed ==
  ~past.lost /\ ~past.stale =>
    /\ sync.active # None => ea.acked \in {None, sync.active}
    /\ sync.pending # None => ea.acked # sync.pending

ConfigInv ==
  /\ TypeOK /\ past \in History
  /\ Served(sync, Champions) /\ {ea.sending, ea.acked} \subseteq Champions \cup {None}
  /\ sync.active # None => sync.active \in past.ran
  /\ \A p \in Calls : Sound(call[p], Champions, promos)
  /\ TestedBefore
  /\ \A c \in Configs : Studied(c) /\ Asked(c)
  /\ ApprovedStaysOffered /\ Agreed

-----------------------------------------------------------------------------
(***************************************************************************)
(* Facts about the operators of the model.                                 *)
(***************************************************************************)

LEMMA NoneIsNoConfig == None \notin Configs /\ Configs \subseteq Nat
BY ConfigurationAssumption DEF None, Configs

LEMMA NewRowType == NewRow \in Row /\ Served(NewRow, {}) /\ NoCall \in CallType
<1>1. NewRow \in Row
  BY DEF NewRow, Row
<1> QED BY <1>1, ConfigurationAssumption DEF NewRow, Served, NoCall, CallType

LEMMA StagedType ==
  ASSUME NEW row \in Row, NEW c \in Configs
  PROVE  /\ Staged(row, c) \in Row
         /\ Staged(row, c).active = row.active /\ Staged(row, c).acked = row.acked
         /\ Staged(row, c).pending = c /\ Staged(row, c).rollback = row.active
BY DEF Staged, Row

LEMMA ActivatedType ==
  ASSUME NEW row \in Row, NEW c \in Configs
  PROVE  /\ Activated(row, c) \in Row
         /\ Activated(row, c).active = c /\ Activated(row, c).acked = c
         /\ Activated(row, c).pending = None
         /\ Activated(row, c).rollback \in {None, row.active}
BY DEF Activated, Row

LEMMA RolledBackType ==
  ASSUME NEW row \in Row, NEW c \in Configs
  PROVE  /\ RolledBack(row, c) \in Row
         /\ RolledBack(row, c).active = None /\ RolledBack(row, c).acked = None
         /\ RolledBack(row, c).pending = c
         /\ RolledBack(row, c).rollback = row.rollback
         /\ RolledBack(row, c).state = "ROLLBACK"
BY DEF RolledBack, Row

\* A column is written or left as it is.
LEMMA WrittenType ==
  ASSUME NEW row \in Row, NEW old \in Row, NEW new \in Row
  PROVE  /\ Written(row, old, new) \in Row
         /\ Written(row, old, new).active =
              IF new.active = old.active THEN row.active ELSE new.active
         /\ Written(row, old, new).acked =
              IF new.acked = old.acked THEN row.acked ELSE new.acked
         /\ Written(row, old, new).pending =
              IF new.pending = old.pending THEN row.pending ELSE new.pending
         /\ Written(row, old, new).rollback =
              IF new.rollback = old.rollback THEN row.rollback ELSE new.rollback
<1> DEFINE W == Written(row, old, new)
           Fields == {"active", "acked", "pending", "rollback", "state"}
<1>1. DOMAIN row = Fields
  BY DEF Row
<1>2. W = [f \in Fields |-> IF new[f] = old[f] THEN row[f] ELSE new[f]]
  BY <1>1 DEF Written
<1>3. W = [active |-> W.active, acked |-> W.acked, pending |-> W.pending,
           rollback |-> W.rollback, state |-> W.state]
  BY <1>2
<1>4. /\ W.active = IF new.active = old.active THEN row.active ELSE new.active
      /\ W.acked = IF new.acked = old.acked THEN row.acked ELSE new.acked
      /\ W.pending = IF new.pending = old.pending THEN row.pending ELSE new.pending
      /\ W.rollback = IF new.rollback = old.rollback THEN row.rollback ELSE new.rollback
      /\ W.state = IF new.state = old.state THEN row.state ELSE new.state
  BY <1>2
<1> HIDE DEF W
<1>5. W \in Row
  BY <1>3, <1>4 DEF Row
<1> QED BY <1>4, <1>5 DEF W

LEMMA WrittenServed ==
  ASSUME NEW C, NEW row \in Row, NEW old \in Row, NEW new \in Row,
         Served(row, C), Served(old, C), Served(new, C)
  PROVE  Served(Written(row, old, new), C)
BY WrittenType DEF Served

\* Who writes from the row as it is stores what it computed.
LEMMA WrittenFresh ==
  ASSUME NEW row \in Row, NEW new \in Row
  PROVE  Written(row, row, new).pending = new.pending
BY WrittenType

LEMMA MoreChampionsServe ==
  ASSUME NEW C, NEW D, C \subseteq D, NEW row, Served(row, C)
  PROVE  Served(row, D)
BY DEF Served

LEMMA SoundStays ==
  ASSUME NEW C, NEW D, C \subseteq D, NEW P, NEW Q, DOMAIN P \subseteq DOMAIN Q,
         \A i \in DOMAIN P : Q[i].config = P[i].config,
         NEW k, Sound(k, C, P)
  PROVE  Sound(k, D, Q)
<1>1. Served(k.row, D)
  BY MoreChampionsServe DEF Sound
<1> QED BY <1>1 DEF Sound

LEMMA AcceptedIsOutOfSample ==
  ASSUME NEW r \in Report, Accepted(r)
  PROVE  OutOfSample(r)
<1> SUFFICES ASSUME NEW t \in Holdout(r), NEW u \in r.trades \ Holdout(r)
             PROVE  u.exit < t.enter /\ u.id # t.id
  BY DEF OutOfSample
<1>1. t \in Trade /\ u \in Trade /\ r.lockedStart \in Nat
  BY DEF Report, Holdout, Part
<1>2. r.lockedStart <= t.enter /\ u.exit < r.lockedStart
  BY DEF Accepted, WithinPeriods
<1>3. u.exit < t.enter
  BY <1>1, <1>2 DEF Trade
<1>4. u.id # t.id
  <2>1. Ids(Holdout(r)) \cap Ids(r.trades \ Holdout(r)) = {}
    BY DEF Accepted, DisjointParts
  <2> QED BY <2>1 DEF Ids
<1> QED BY <1>3, <1>4

-----------------------------------------------------------------------------
(***************************************************************************)
(* What the steps share: champions stay, requests stay, calls stay sound.  *)
(***************************************************************************)

\* No configuration goes back to "absent" and no champion is dismissed.
LEMMA ChampionsStay ==
  ASSUME TypeOK, NEW c \in Configs, NEW to \in Stages, stage' = [stage EXCEPT ![c] = to],
         stage[c] = "CHAMPION" => to = "CHAMPION"
  PROVE  stage' \in [Configs -> Stages] /\ Champions \subseteq Champions'
BY DEF TypeOK, Champions

LEMMA OtherCallsStaySound ==
  ASSUME ConfigInv, NEW D, Champions \subseteq D,
         NEW Q, DOMAIN promos \subseteq DOMAIN Q,
         \A i \in DOMAIN promos : Q[i].config = promos[i].config,
         NEW p \in Calls, NEW k \in CallType, Sound(k, D, Q),
         call' = [call EXCEPT ![p] = k]
  PROVE  call' \in [Calls -> CallType] /\ \A q \in Calls : Sound(call'[q], D, Q)
<1>1. call \in [Calls -> CallType]
  BY DEF ConfigInv, TypeOK
<1>2. ASSUME NEW q \in Calls PROVE Sound(call'[q], D, Q)
  <2>1. Sound(call[q], D, Q)
    BY SoundStays DEF ConfigInv
  <2> QED BY <1>1, <2>1
<1> QED BY <1>1, <1>2

LEMMA AllCallsStaySound ==
  ASSUME ConfigInv, NEW D, Champions \subseteq D,
         NEW Q, DOMAIN promos \subseteq DOMAIN Q,
         \A i \in DOMAIN promos : Q[i].config = promos[i].config
  PROVE  \A q \in Calls : Sound(call[q], D, Q)
BY SoundStays DEF ConfigInv

LEMMA CallsTested ==
  ASSUME ConfigInv, \A c \in Configs : stage[c] # "absent" => stage'[c] # "absent",
         NEW p \in Calls, NEW k, call' = [call EXCEPT ![p] = k],
         k.op = "approve" => \A c \in k.configs : stage'[c] # "absent"
  PROVE  TestedBefore'
<1>1. call \in [Calls -> CallType]
  BY DEF ConfigInv, TypeOK
<1> SUFFICES ASSUME NEW q \in Calls, call'[q].op = "approve", NEW c \in call'[q].configs
             PROVE  stage'[c] # "absent"
  BY DEF TestedBefore
<1>2. CASE q = p
  BY <1>1, <1>2
<1>3. CASE q # p
  <2>1. call'[q] = call[q] /\ call[q] \in CallType
    BY <1>1, <1>3
  <2>2. c \in Configs /\ stage[c] # "absent"
    BY <2>1 DEF CallType, ConfigInv, TestedBefore
  <2> QED BY <2>2
<1> QED BY <1>2, <1>3

LEMMA NoCallSound == ASSUME NEW C, NEW P PROVE Sound(NoCall, C, P)
BY NewRowType DEF Sound, Served, NoCall, NewRow

\* A step that only starts, continues or ends a call.
LEMMA OnlyCallsChange ==
  ASSUME ConfigInv, NEW p \in Calls, NEW k \in CallType, Sound(k, Champions, promos),
         call' = [call EXCEPT ![p] = k],
         UNCHANGED <<stage, evidence, promos, sync, past>>,
         ea' \in [acked : Configs \cup {None}, sending : Configs \cup {None}],
         ea'.sending \in {ea.sending, None}, ea'.acked = ea.acked,
         k.op = "approve" => \A c \in k.configs : stage[c] # "absent"
  PROVE  ConfigInv'
<1>1. call' \in [Calls -> CallType] /\ \A q \in Calls : Sound(call'[q], Champions, promos)
  BY OtherCallsStaySound
<1>2. Champions' = Champions
  BY DEF Champions
<1>3. TypeOK'
  BY <1>1 DEF ConfigInv, TypeOK
<1>4. Served(sync', Champions') /\ {ea'.sending, ea'.acked} \subseteq Champions' \cup {None}
  BY <1>2 DEF ConfigInv
<1>5. \A c \in Configs : Studied(c)' /\ Asked(c)'
  BY <1>2 DEF ConfigInv, Studied, Asked
<1>6. ApprovedStaysOffered' /\ Agreed'
  BY DEF ConfigInv, ApprovedStaysOffered, Agreed
<1>7. TestedBefore'
  BY CallsTested
<1> QED BY <1>1, <1>2, <1>3, <1>4, <1>5, <1>6, <1>7 DEF ConfigInv

-----------------------------------------------------------------------------
(***************************************************************************)
(* Evidence and review.                                                    *)
(***************************************************************************)

\* The stages and the evidence change, for the better, and nothing else.
LEMMA OnlyStagesChange ==
  ASSUME ConfigInv, stage' \in [Configs -> Stages], evidence' \in [Configs -> Seq(Runs)],
         Champions' = Champions, \A c \in Configs : Studied(c)',
         \A c \in Configs : stage[c] # "absent" => stage'[c] # "absent",
         UNCHANGED <<promos, sync, ea, call, past>>
  PROVE  ConfigInv'
<1>1. TypeOK'
  BY DEF ConfigInv, TypeOK
<1>2. \A c \in Configs : Asked(c)'
  BY DEF ConfigInv, Asked
<1>3. TestedBefore'
  <2>1. call \in [Calls -> CallType]
    BY DEF ConfigInv, TypeOK
  <2> QED BY <2>1 DEF ConfigInv, TestedBefore, CallType
<1>4. {ea'.sending, ea'.acked} \subseteq Champions' \cup {None}
  BY DEF ConfigInv
<1> QED BY <1>1, <1>2, <1>3, <1>4 DEF ConfigInv, ApprovedStaysOffered, Agreed

LEMMA IngestKeeps ==
  ASSUME ConfigInv, NEW run \in Runs, Ingest(run)
  PROVE  ConfigInv'
<1> DEFINE c == TestedIn[run]
           Tests == Append(evidence[c], run)
<1>1. c \in Configs /\ ReportOf[run] \in Report
  BY ConfigurationAssumption
<1>2. stage \in [Configs -> Stages] /\ evidence \in [Configs -> Seq(Runs)]
  BY DEF ConfigInv, TypeOK
<1>3. PICK to \in Stages : /\ stage' = [stage EXCEPT ![c] = to]
                           /\ to = "CHAMPION" <=> stage[c] = "CHAMPION"
                           /\ to # "absent"
  BY <1>1, <1>2 DEF Ingest, Stages
<1>4. evidence' = [evidence EXCEPT ![c] = Tests] /\ Tests \in Seq(Runs)
  BY <1>1, <1>2, AppendProperties DEF Ingest
<1> HIDE DEF c
<1>5. stage' \in [Configs -> Stages] /\ evidence' \in [Configs -> Seq(Runs)]
  BY <1>1, <1>2, <1>3, <1>4
<1>6. Champions' = Champions
  BY <1>1, <1>2, <1>3, <1>5 DEF Champions
<1>7. OutOfSample(ReportOf[run])
  BY <1>1, AcceptedIsOutOfSample DEF Ingest
<1>8. ASSUME NEW d \in Configs PROVE Studied(d)'
  <2>1. CASE d = c
    <3>1. /\ Len(evidence[c]) + 1 \in DOMAIN Tests
          /\ Tests[Len(evidence[c]) + 1] = run
      BY <1>1, <1>2, AppendProperties
    <3>2. evidence'[c] = Tests
      BY <1>1, <1>2, <1>4
    <3> QED BY <1>7, <2>1, <3>1, <3>2 DEF Studied, OutOfSample, Holdout, Part
  <2>2. CASE d # c
    <3>1. evidence'[d] = evidence[d] /\ stage'[d] = stage[d]
      BY <1>1, <1>2, <1>3, <1>4, <2>2
    <3> QED BY <3>1 DEF ConfigInv, Studied
  <2> QED BY <2>1, <2>2
<1>9. \A d \in Configs : stage[d] # "absent" => stage'[d] # "absent"
  BY <1>1, <1>2, <1>3
<1> QED BY <1>5, <1>6, <1>8, <1>9, OnlyStagesChange DEF Ingest

LEMMA ReviewKeeps ==
  ASSUME ConfigInv, NEW c \in Configs, Review(c)
  PROVE  ConfigInv'
<1>1. stage \in [Configs -> Stages]
  BY DEF ConfigInv, TypeOK
<1>2. stage' \in [Configs -> Stages] /\ Champions' = Champions
  BY <1>1 DEF Review, Champions, Stages
<1>3. ASSUME NEW d \in Configs PROVE Studied(d)'
  <2>1. stage'[d] # "absent" => stage[d] # "absent"
    BY <1>1 DEF Review
  <2> QED BY <2>1 DEF ConfigInv, Studied, Review
<1>4. evidence' \in [Configs -> Seq(Runs)]
  BY DEF Review, ConfigInv, TypeOK
<1>5. \A d \in Configs : stage[d] # "absent" => stage'[d] # "absent"
  BY <1>1 DEF Review
<1> QED BY <1>2, <1>3, <1>4, <1>5, OnlyStagesChange DEF Review

-----------------------------------------------------------------------------
(***************************************************************************)
(* Calls that load and compute.                                            *)
(***************************************************************************)

LEMMA GreatestConfig ==
  ASSUME NEW S, S \subseteq Configs, S # {}
  PROVE  Max(S) \in S
<1> DEFINE Above == {k \in Nat : \A x \in S : x <= k}
<1>1. N \in Nat /\ \A x \in S : x \in Nat /\ x <= N
  BY ConfigurationAssumption DEF Configs
<1>2. N \in Above
  BY <1>1
<1>3. PICK m \in Above : \A k \in Above : <<k, m>> \notin OpToRel(<, Nat)
  BY <1>2, NatLessThanWellFounded, WFMin
<1>4. m \in Nat /\ \A x \in S : x <= m
  OBVIOUS
<1>5. \A k \in Above : ~(k < m)
  BY <1>3 DEF OpToRel
<1>6. m \in S
  <2> SUFFICES ASSUME m \notin S PROVE FALSE
    OBVIOUS
  <2>1. \A x \in S : x <= m - 1 /\ 0 <= m - 1
    BY <1>1, <1>4
  <2>2. m - 1 \in Above /\ m - 1 < m
    BY <2>1, <1>4
  <2> QED BY <2>2, <1>5
<1>7. \E x \in S : \A y \in S : x >= y
  BY <1>1, <1>4, <1>6
<1> QED BY <1>7 DEF Max

LEMMA OfferIsChampion ==
  ASSUME ConfigInv
  PROVE  /\ Offer \in Champions \cup {None}
         /\ sync.pending \in {None, Offer}
<1>1. Champions \subseteq Configs
  BY DEF Champions
<1>2. Champions # {} => Max(Champions) \in Champions
  BY <1>1, GreatestConfig
<1>3. Served(sync, Champions)
  BY DEF ConfigInv
<1>4. Expected(sync) \in Champions \cup {None}
  BY <1>3 DEF Served, Expected
<1>5. sync.pending # None => Offer = sync.pending
  BY DEF Offer, Expected
<1> QED BY <1>2, <1>4, <1>5 DEF Offer

LEMMA JudgementIsSound ==
  ASSUME ConfigInv, NEW healthy \in BOOLEAN, sync.active \in Champions
  PROVE  /\ Judged(sync, healthy) \in Row
         /\ \/ Restated(sync, Judged(sync, healthy))
            \/ \E target \in Champions \ {sync.active} :
                 Judged(sync, healthy) = RolledBack(sync, target)
<1> DEFINE target == RollbackTarget(sync, sync.active)
<1>1. sync \in Row
  BY DEF ConfigInv, TypeOK
<1>2. Champions \subseteq Configs
  BY DEF Champions
<1>3. target \in Champions
  <2>1. Older(sync.active) # {} => Max(Older(sync.active)) \in Champions
    BY <1>2, GreatestConfig DEF Older
  <2> QED BY <2>1 DEF RollbackTarget
<1> HIDE DEF target
<1>4. CASE healthy \/ target = sync.active
  <2>1. PICK s \in {"ACTIVE", "DEFENSIVE"} :
          Judged(sync, healthy) = [sync EXCEPT !.state = s]
    BY <1>4 DEF Judged, target
  <2> QED BY <1>1, <2>1 DEF Restated, Row
<1>5. CASE ~healthy /\ target # sync.active
  <2>1. Judged(sync, healthy) = RolledBack(sync, target)
    BY <1>5 DEF Judged, RolledBack, target
  <2> QED BY <1>1, <1>2, <1>3, <1>5, <2>1, RolledBackType
<1> QED BY <1>4, <1>5

LEMMA EvaluateKeeps ==
  ASSUME ConfigInv, NEW p \in Calls, Evaluate(p)
  PROVE  ConfigInv'
<1> DEFINE k == [NoCall EXCEPT !.op = "evaluate", !.configs = Promotable]
<1>1. Promotable \subseteq Configs /\ Promotable # {}
  BY DEF Promotable, Evaluate
<1>2. k \in CallType /\ k.op = "evaluate" /\ k.configs = Promotable /\ k.row = NewRow
  BY <1>1, NewRowType, ConfigurationAssumption DEF NoCall, CallType
<1>3. Sound(k, Champions, promos)
  BY <1>1, <1>2, NewRowType, MoreChampionsServe DEF Sound
<1>4. call' = [call EXCEPT ![p] = k]
  BY DEF Evaluate, Begin
<1> HIDE DEF k
<1>5. ea' = ea /\ ea \in [acked : Configs \cup {None}, sending : Configs \cup {None}]
  BY DEF Evaluate, ConfigInv, TypeOK
<1> QED BY <1>2, <1>3, <1>4, <1>5, OnlyCallsChange DEF Evaluate

LEMMA TapKeeps ==
  ASSUME ConfigInv, NEW p \in Calls, NEW i \in DOMAIN promos,
         NEW decision \in {"tap", "reject"}, Tap(p, i, decision)
  PROVE  ConfigInv'
<1> DEFINE k == [NoCall EXCEPT !.op = decision, !.configs = {promos[i].config}, !.promo = i]
<1>1. i \in 0..MaxPromos /\ promos[i].config \in Configs
  <2>1. promos \in Seq(Promo) /\ Len(promos) <= MaxPromos /\ MaxPromos \in Nat
    BY ConfigurationAssumption DEF ConfigInv, TypeOK
  <2>2. i \in 1..Len(promos) /\ promos[i] \in Promo /\ Len(promos) \in Nat
    BY <2>1
  <2> QED BY <2>1, <2>2 DEF Promo
<1>2. /\ k \in CallType /\ k.op = decision /\ k.configs = {promos[i].config}
      /\ k.row = NewRow /\ k.promo = i
  BY <1>1, NewRowType DEF NoCall, CallType
<1>3. Sound(k, Champions, promos)
  BY <1>1, <1>2, NewRowType, MoreChampionsServe DEF Sound
<1>4. call' = [call EXCEPT ![p] = k]
  BY DEF Tap, Begin
<1> HIDE DEF k
<1>5. ea' = ea /\ ea \in [acked : Configs \cup {None}, sending : Configs \cup {None}]
  BY DEF Tap, ConfigInv, TypeOK
<1> QED BY <1>2, <1>3, <1>4, <1>5, OnlyCallsChange DEF Tap

LEMMA LoadCandidateKeeps ==
  ASSUME ConfigInv, NEW p \in Calls, NEW c \in Configs, LoadCandidate(p, c)
  PROVE  ConfigInv'
<1> DEFINE loaded == [call[p] EXCEPT !.op = "approve", !.row = sync, !.new = Staged(sync, c)]
           refused == [call[p] EXCEPT !.op = "refuse"]
<1>1. /\ call[p] \in CallType /\ Sound(call[p], Champions, promos)
      /\ sync \in Row /\ Served(sync, Champions) /\ Staged(sync, c) \in Row
      /\ call \in [Calls -> CallType]
  BY StagedType DEF ConfigInv, TypeOK
<1>2. call[p].op = "tap" /\ call[p].configs = {c}
  BY DEF LoadCandidate
<1>3. /\ loaded \in CallType /\ loaded.op = "approve" /\ loaded.row = sync
      /\ loaded.new = Staged(sync, c) /\ loaded.configs = {c}
      /\ loaded.promo = call[p].promo
  BY <1>1, <1>2 DEF CallType
<1>4. /\ refused \in CallType /\ refused.op = "refuse" /\ refused.row = call[p].row
      /\ refused.configs = {c} /\ refused.promo = call[p].promo
  BY <1>1, <1>2 DEF CallType
<1>5. Sound(loaded, Champions, promos) /\ Sound(refused, Champions, promos)
  <2> HIDE DEF loaded, refused
  <2> QED BY <1>1, <1>2, <1>3, <1>4 DEF Sound
<1>6. PICK k \in {loaded, refused} : /\ call' = [call EXCEPT ![p] = k]
                                     /\ k = loaded => stage[c] # "absent"
  <2>1. CASE stage[c] = "CHALLENGER"
    BY <1>1, <2>1 DEF LoadCandidate
  <2>2. CASE stage[c] # "CHALLENGER"
    <3>1. refused # loaded
      BY <1>3, <1>4
    <3> QED BY <1>1, <2>2, <3>1 DEF LoadCandidate
  <2> QED BY <2>1, <2>2
<1> HIDE DEF loaded, refused
<1>7. ea' = ea /\ ea \in [acked : Configs \cup {None}, sending : Configs \cup {None}]
  BY DEF LoadCandidate, ConfigInv, TypeOK
<1> QED BY <1>3, <1>4, <1>5, <1>6, <1>7, OnlyCallsChange DEF LoadCandidate

LEMMA AcknowledgeKeeps ==
  ASSUME ConfigInv, NEW p \in Calls, Acknowledge(p)
  PROVE  ConfigInv'
<1> DEFINE c == ea.sending
           k == [NoCall EXCEPT !.op = "ack", !.row = sync, !.configs = {c},
                               !.new = Activated(sync, c)]
<1>1. c \in Champions /\ c \in Configs /\ sync.pending \in {None, c}
  BY OfferIsChampion, NoneIsNoConfig DEF Acknowledge, ConfigInv, Champions
<1>2. sync \in Row /\ Served(sync, Champions) /\ Activated(sync, c) \in Row
  BY <1>1, ActivatedType DEF ConfigInv, TypeOK
<1>3. call' = [call EXCEPT ![p] = k]
  BY DEF Acknowledge, Begin
<1>4. ea' = ea /\ ea \in [acked : Configs \cup {None}, sending : Configs \cup {None}]
  BY DEF Acknowledge, ConfigInv, TypeOK
<1> HIDE DEF c
<1>5. /\ k \in CallType /\ k.op = "ack" /\ k.row = sync /\ k.configs = {c}
      /\ k.new = Activated(sync, c)
  BY <1>1, <1>2, NewRowType DEF NoCall, CallType
<1> HIDE DEF k
<1>6. Sound(k, Champions, promos)
  BY <1>1, <1>2, <1>5 DEF Sound
<1> QED BY <1>3, <1>4, <1>5, <1>6, OnlyCallsChange DEF Acknowledge

LEMMA ReportRuntimeKeeps ==
  ASSUME ConfigInv, NEW p \in Calls, NEW healthy \in BOOLEAN, ReportRuntime(p, healthy)
  PROVE  ConfigInv'
<1> DEFINE judged == Judged(sync, healthy)
           k == [NoCall EXCEPT !.op = "runtime", !.row = sync, !.new = judged]
<1>1. /\ sync.active # None /\ judged \in Row
      /\ \/ Restated(sync, judged)
         \/ \E target \in Champions \ {sync.active} : judged = RolledBack(sync, target)
  BY JudgementIsSound, NoneIsNoConfig DEF ReportRuntime, Champions
<1>2. sync \in Row /\ Served(sync, Champions)
  BY DEF ConfigInv, TypeOK
<1>3. call' = [call EXCEPT ![p] = k]
  BY DEF ReportRuntime, Begin
<1> HIDE DEF judged
<1>4. k \in CallType /\ k.op = "runtime" /\ k.row = sync /\ k.new = judged
  BY <1>1, <1>2, NewRowType DEF NoCall, CallType
<1> HIDE DEF k
<1>5. Sound(k, Champions, promos)
  BY <1>1, <1>2, <1>4 DEF Sound
<1>6. ea' = ea /\ ea \in [acked : Configs \cup {None}, sending : Configs \cup {None}]
  BY DEF ReportRuntime, ConfigInv, TypeOK
<1> QED BY <1>3, <1>4, <1>5, <1>6, OnlyCallsChange DEF ReportRuntime

LEMMA FailKeeps ==
  ASSUME ConfigInv, NEW p \in Calls, Fail(p)
  PROVE  ConfigInv'
<1>1. call' = [call EXCEPT ![p] = NoCall]
  BY DEF Fail, Done
<1>2. /\ ea' \in [acked : Configs \cup {None}, sending : Configs \cup {None}]
      /\ ea'.sending \in {ea.sending, None} /\ ea'.acked = ea.acked
  BY DEF Fail, ConfigInv, TypeOK
<1> QED BY <1>1, <1>2, NewRowType, NoCallSound, OnlyCallsChange DEF Fail, NoCall

-----------------------------------------------------------------------------
(***************************************************************************)
(* Requests and cards: the requests made stay, each for its configuration. *)
(***************************************************************************)

LEMMA FunctionIsSeq ==
  ASSUME NEW S, NEW n \in Nat, NEW f \in [1..n -> S]
  PROVE  f \in Seq(S) /\ Len(f) = n /\ DOMAIN f = 1..n
<1>1. f \in Seq(S) /\ DOMAIN f = 1..n
  BY SeqDef
<1> QED BY <1>1, LenProperties

\* What is chosen for a request is a configuration.
LEMMA ChosenAreConfigs ==
  ASSUME NEW S, S \subseteq Configs
  PROVE  SetToSeq(S) \in Seq(Configs) /\ (S # {} => Len(SetToSeq(S)) > 0)
<1>1. IsFiniteSet(Configs)
  BY ConfigurationAssumption, FS_Interval DEF Configs
<1>2. IsFiniteSet(S)
  BY <1>1, FS_Subset
<1>3. Cardinality(S) \in Nat /\ ExistsBijection(1..Cardinality(S), S)
  BY <1>2, FS_CardinalityType
<1>4. PICK f \in [1..Cardinality(S) -> S] : IsInjective(f)
  BY <1>3 DEF ExistsBijection, Bijection, Injection, IsInjective
<1>5. SetToSeq(S) \in [1..Cardinality(S) -> S]
  BY <1>4 DEF SetToSeq
<1>6. SetToSeq(S) \in Seq(Configs) /\ Len(SetToSeq(S)) = Cardinality(S)
  BY <1>3, <1>5, SeqDef, LenProperties
<1>7. S # {} => Cardinality(S) > 0
  BY <1>2, <1>3, FS_EmptySet
<1> QED BY <1>6, <1>7

\* A step of a call that makes or marks requests.
LEMMA OnlyRequestsChange ==
  ASSUME ConfigInv, NEW p \in Calls, NEW k \in CallType, Sound(k, Champions, promos'),
         call' = [call EXCEPT ![p] = k],
         promos' \in Seq(Promo), Len(promos') <= MaxPromos,
         DOMAIN promos \subseteq DOMAIN promos',
         \A i \in DOMAIN promos :
           /\ promos'[i].config = promos[i].config
           /\ promos[i].status = "approved" =>
                promos'[i].status = "approved" \/ i \in past'.contested,
         past' \in History, past.contested \subseteq past'.contested,
         past'.ran = past.ran, past'.offered = past.offered, past'.stale = past.stale,
         past'.lost = past.lost,
         UNCHANGED <<stage, evidence, sync, ea>>,
         k.op # "approve"
  PROVE  ConfigInv'
<1>1. call' \in [Calls -> CallType] /\ \A q \in Calls : Sound(call'[q], Champions, promos')
  BY OtherCallsStaySound
<1>2. Champions' = Champions
  BY DEF Champions
<1>3. TypeOK'
  BY <1>1 DEF ConfigInv, TypeOK
<1>4. ASSUME NEW c \in Configs PROVE Asked(c)'
  <2> SUFFICES ASSUME c \in Champions \ (1..Founders)
               PROVE  \E i \in DOMAIN promos' :
                        /\ promos'[i].config = c
                        /\ promos'[i].status = "approved" \/ i \in past'.contested
    BY <1>2 DEF Asked
  <2>1. PICK i \in DOMAIN promos : /\ promos[i].config = c
                                   /\ promos[i].status = "approved" \/ i \in past.contested
    BY DEF ConfigInv, Asked
  <2> QED BY <2>1
<1>5. \A c \in Configs : Studied(c)'
  BY DEF ConfigInv, Studied
<1>6. ApprovedStaysOffered' /\ Agreed'
  BY DEF ConfigInv, ApprovedStaysOffered, Agreed
<1>7. Served(sync', Champions') /\ {ea'.sending, ea'.acked} \subseteq Champions' \cup {None}
  BY <1>2 DEF ConfigInv
<1>8. TestedBefore'
  BY CallsTested
<1> QED BY <1>1, <1>2, <1>3, <1>4, <1>5, <1>6, <1>7, <1>8 DEF ConfigInv

LEMMA CommitPromotionsKeeps ==
  ASSUME ConfigInv, NEW p \in Calls, CommitPromotions(p)
  PROVE  ConfigInv'
<1> DEFINE chosen == SetToSeq(call[p].configs)
           asked == [i \in DOMAIN chosen |->
                       [config |-> chosen[i], status |-> "pending", sent |-> FALSE]]
           k == [call[p] EXCEPT !.op = "cards", !.promo = Len(promos) + 1]
<1>1. /\ call[p] \in CallType /\ call \in [Calls -> CallType]
      /\ Sound(call[p], Champions, promos) /\ call[p].op = "evaluate"
      /\ promos \in Seq(Promo) /\ past \in History
  BY DEF CommitPromotions, ConfigInv, TypeOK
<1>2. call[p].configs \subseteq Configs /\ call[p].configs # {}
  BY <1>1 DEF CallType, Sound
<1>3. chosen \in Seq(Configs) /\ Len(chosen) > 0
  BY <1>2, ChosenAreConfigs
<1>4. Len(promos) + Len(chosen) <= MaxPromos /\ promos' = promos \o asked
  BY DEF CommitPromotions
<1>5. call' = [call EXCEPT ![p] = k]
  BY <1>1 DEF CommitPromotions
<1> HIDE DEF chosen
<1>6. asked \in Seq(Promo) /\ Len(asked) = Len(chosen)
  <2>1. DOMAIN chosen = 1..Len(chosen) /\ Len(chosen) \in Nat
    BY <1>3
  <2>2. ASSUME NEW i \in 1..Len(chosen)
        PROVE  [config |-> chosen[i], status |-> "pending", sent |-> FALSE] \in Promo
    BY <1>3 DEF Promo
  <2>3. asked \in [1..Len(chosen) -> Promo]
    BY <2>1, <2>2
  <2> HIDE DEF asked
  <2> QED BY <2>1, <2>3, FunctionIsSeq
<1> HIDE DEF asked
<1>7. /\ promos' \in Seq(Promo) /\ Len(promos') = Len(promos) + Len(asked)
      /\ \A i \in 1..Len(promos) : promos'[i] = promos[i]
  <2> HIDE DEF Promo
  <2>1. promos \o asked \in Seq(Promo) /\ Len(promos \o asked) = Len(promos) + Len(asked)
    BY <1>1, <1>6, ConcatProperties
  <2>2. \A i \in 1..(Len(promos) + Len(asked)) :
          i <= Len(promos) => (promos \o asked)[i] = promos[i]
    BY <1>1, <1>6, ConcatProperties
  <2>3. Len(promos) \in Nat /\ Len(asked) \in Nat
    BY <1>1, <1>6, LenProperties
  <2>4. ASSUME NEW i \in 1..Len(promos) PROVE (promos \o asked)[i] = promos[i]
    <3>1. i \in 1..(Len(promos) + Len(asked)) /\ i <= Len(promos)
      BY <2>3
    <3> QED BY <2>2, <3>1
  <2> QED BY <1>4, <2>1, <2>4
<1>8. DOMAIN promos \subseteq DOMAIN promos' /\ \A i \in DOMAIN promos : promos'[i] = promos[i]
  <2>1. /\ DOMAIN promos = 1..Len(promos) /\ DOMAIN promos' = 1..Len(promos')
        /\ Len(promos) \in Nat /\ Len(asked) \in Nat
    BY <1>1, <1>6, <1>7, LenProperties
  <2> QED BY <1>7, <2>1
<1>9. Len(promos) + 1 \in 0..MaxPromos
  BY <1>1, <1>3, <1>4, ConfigurationAssumption
<1>10. k \in CallType /\ k.op = "cards" /\ k.row = call[p].row
  BY <1>1, <1>9 DEF CallType
<1> HIDE DEF k
<1>11. Sound(k, Champions, promos')
  BY <1>1, <1>10 DEF Sound
<1>12. Len(promos') <= MaxPromos
  BY <1>4, <1>6, <1>7
<1>13. UNCHANGED <<stage, evidence, sync, ea>> /\ past' = past
  BY DEF CommitPromotions
<1>14. /\ past' \in History /\ past.contested \subseteq past'.contested
       /\ past'.ran = past.ran /\ past'.offered = past.offered
       /\ past'.stale = past.stale /\ past'.lost = past.lost
  BY <1>1, <1>13
<1>15. \A i \in DOMAIN promos :
         /\ promos'[i].config = promos[i].config
         /\ promos[i].status = "approved" =>
              promos'[i].status = "approved" \/ i \in past'.contested
  BY <1>8
<1> QED BY <1>5, <1>7, <1>8, <1>10, <1>11, <1>12, <1>13, <1>14, <1>15,
           OnlyRequestsChange

LEMMA SendCardKeeps ==
  ASSUME ConfigInv, NEW p \in Calls, NEW c \in Configs, SendCard(p, c)
  PROVE  ConfigInv'
<1> DEFINE rest == [call[p] EXCEPT !.configs = @ \ {c}]
<1>1. /\ call[p] \in CallType /\ call \in [Calls -> CallType]
      /\ Sound(call[p], Champions, promos) /\ call[p].op = "cards"
      /\ promos \in Seq(Promo) /\ Len(promos) <= MaxPromos /\ past \in History
  BY DEF SendCard, ConfigInv, TypeOK
<1>2. PICK sent \in BOOLEAN :
        promos' = [i \in DOMAIN promos |->
          IF i >= call[p].promo /\ promos[i].config = c /\ promos[i].status = "pending"
          THEN [promos[i] EXCEPT !.sent = sent] ELSE promos[i]]
  BY DEF SendCard
<1>3. \A i \in 1..Len(promos) : promos[i] \in Promo
  BY <1>1
<1>4. \A i \in 1..Len(promos) :
        /\ promos'[i] \in Promo
        /\ promos'[i].config = promos[i].config /\ promos'[i].status = promos[i].status
  BY <1>1, <1>2, <1>3 DEF Promo
<1>5. promos' \in Seq(Promo) /\ DOMAIN promos' = DOMAIN promos /\ Len(promos') = Len(promos)
  <2>1. DOMAIN promos = 1..Len(promos) /\ Len(promos) \in Nat
    BY <1>1
  <2>2. promos' = [i \in 1..Len(promos) |-> promos'[i]]
    BY <1>2, <2>1
  <2>3. promos' \in [1..Len(promos) -> Promo]
    BY <1>4, <2>2
  <2> QED BY <2>1, <2>3, FunctionIsSeq
<1>6. rest \in CallType /\ rest.op = "cards" /\ rest.row = call[p].row
  BY <1>1 DEF CallType
<1>7. PICK k \in {rest, NoCall} : call' = [call EXCEPT ![p] = k]
  <2>1. call' = [call EXCEPT ![p] = IF call[p].configs = {c} THEN NoCall ELSE rest]
    BY DEF SendCard
  <2> QED BY <2>1
<1> HIDE DEF rest
<1>8. Sound(rest, Champions, promos')
  BY <1>1, <1>6 DEF Sound
<1>9. k \in CallType /\ Sound(k, Champions, promos') /\ k.op # "approve"
  BY <1>6, <1>7, <1>8, NoCallSound, NewRowType DEF NoCall
<1>10. DOMAIN promos = 1..Len(promos)
  BY <1>1
<1> QED BY <1>1, <1>4, <1>5, <1>7, <1>9, <1>10, OnlyRequestsChange DEF SendCard

LEMMA RejectKeeps ==
  ASSUME ConfigInv, NEW p \in Calls, Reject(p)
  PROVE  ConfigInv'
<1> DEFINE i == call[p].promo
<1>1. /\ promos \in Seq(Promo) /\ Len(promos) <= MaxPromos /\ past \in History
      /\ Sound(call[p], Champions, promos) /\ call[p].op \in {"reject", "refuse"}
  BY DEF Reject, ConfigInv, TypeOK
<1>2. i \in 1..Len(promos) /\ promos[i] \in Promo
  BY <1>1 DEF Sound
<1>3. promos' = [promos EXCEPT ![i].status = "rejected"]
  BY DEF Reject
<1>4. past' = [past EXCEPT !.contested = IF promos[i].status = "pending"
                                         THEN past.contested
                                         ELSE past.contested \cup {i}]
  BY DEF Reject
<1>5. call' = [call EXCEPT ![p] = NoCall]
  BY DEF Reject, Done
<1> HIDE DEF i
<1>6. promos' = [promos EXCEPT ![i] = [promos[i] EXCEPT !.status = "rejected"]]
  BY <1>3
<1>7. [promos[i] EXCEPT !.status = "rejected"] \in Promo
  BY <1>2 DEF Promo
<1>8. promos' \in Seq(Promo) /\ Len(promos') = Len(promos) /\ DOMAIN promos' = DOMAIN promos
  BY <1>1, <1>2, <1>6, <1>7
<1>9. \A j \in DOMAIN promos : j # i => promos'[j] = promos[j]
  BY <1>1, <1>6
<1>10. promos'[i].config = promos[i].config
  BY <1>1, <1>2, <1>6 DEF Promo
<1>11. /\ past' \in History /\ past.contested \subseteq past'.contested
       /\ past'.ran = past.ran /\ past'.offered = past.offered /\ past'.stale = past.stale
       /\ past'.lost = past.lost
       /\ promos[i].status # "pending" => i \in past'.contested
  BY <1>1, <1>2, <1>4 DEF History
<1>12. \A j \in DOMAIN promos :
         /\ promos'[j].config = promos[j].config
         /\ promos[j].status = "approved" =>
              promos'[j].status = "approved" \/ j \in past'.contested
  BY <1>9, <1>10, <1>11
<1> QED BY <1>1, <1>5, <1>8, <1>11, <1>12, NewRowType, NoCallSound, OnlyRequestsChange
        DEF Reject, NoCall

-----------------------------------------------------------------------------
(***************************************************************************)
(* Commits to the synchronization row.                                     *)
(***************************************************************************)

LEMMA ApproveKeeps ==
  ASSUME ConfigInv, NEW p \in Calls, NEW c \in Configs, Approve(p, c)
  PROVE  ConfigInv'
<1> DEFINE i == call[p].promo
           old == call[p].row
           new == call[p].new
<1>1. /\ call[p] \in CallType /\ Sound(call[p], Champions, promos)
      /\ promos \in Seq(Promo) /\ Len(promos) <= MaxPromos /\ past \in History
      /\ sync \in Row /\ Served(sync, Champions) /\ stage \in [Configs -> Stages]
  BY DEF ConfigInv, TypeOK
<1>2. call[p].op = "approve" /\ call[p].configs = {c}
  BY DEF Approve
<1>3. /\ i \in 1..Len(promos) /\ promos[i] \in Promo /\ promos[i].config = c
      /\ new = Staged(old, c) /\ Served(old, Champions)
  BY <1>1, <1>2 DEF Sound
<1>4. old \in Row /\ new \in Row
  BY <1>1 DEF CallType
<1>5. /\ stage' = [stage EXCEPT ![c] = "CHAMPION"] /\ sync' = Written(sync, old, new)
      /\ call' = [call EXCEPT ![p] = NoCall] /\ evidence' = evidence /\ ea' = ea
  BY DEF Approve, Done
<1>6. /\ stage' \in [Configs -> Stages] /\ Champions \subseteq Champions'
      /\ c \in Champions' /\ Champions' \subseteq Champions \cup {c}
      /\ \A d \in Configs : stage[d] # "absent" => stage'[d] # "absent"
  BY <1>1, <1>5 DEF Champions, Stages
<1>7. PICK D : D = Champions'
  OBVIOUS
<1>8. promos' = [promos EXCEPT ![i] = [promos[i] EXCEPT !.status = "approved"]]
  BY DEF Approve
<1>9. past' = [past EXCEPT !.offered = c, !.stale = past.stale \/ sync # old \/ stage[c] # "CHALLENGER",
                 !.contested = IF promos[i].status = "pending" THEN past.contested
                               ELSE past.contested \cup {i},
                 !.rolled = 0]
  BY DEF Approve, Stale
<1> HIDE DEF i, old, new
<1>10. /\ past' \in History /\ past'.ran = past.ran /\ past'.offered = c
       /\ past'.stale = (past.stale \/ sync # old \/ stage[c] # "CHALLENGER")
       /\ past.contested \subseteq past'.contested /\ past'.lost = past.lost
  <2> DEFINE changed == past.stale \/ sync # old \/ stage[c] # "CHALLENGER"
  <2>1. i \in Nat /\ past.contested \subseteq Nat /\ changed \in BOOLEAN
    BY <1>1, <1>3, LenProperties DEF History
  <2>2. PICK k \in SUBSET Nat : /\ past.contested \subseteq k
                                /\ past' = [past EXCEPT !.offered = c,
                                              !.stale = changed,
                                              !.contested = k, !.rolled = 0]
    BY <1>9, <2>1
  <2>3. PICK b \in BOOLEAN : b = changed
    BY <2>1
  <2>4. past' = [past EXCEPT !.offered = c, !.stale = b, !.contested = k, !.rolled = 0]
    BY <2>2, <2>3
  <2>5. /\ past' \in History /\ past'.ran = past.ran /\ past'.offered = c
        /\ past'.stale = b /\ past'.contested = k /\ past'.lost = past.lost
    BY <1>1, <2>4 DEF History
  <2> QED BY <2>2, <2>3, <2>5
<1>11. Served(sync, D) /\ Served(old, D) /\ Served(new, D)
  BY <1>1, <1>3, <1>4, <1>6, <1>7, MoreChampionsServe, StagedType DEF Served
<1>12. sync' \in Row /\ Served(sync', D)
  BY <1>1, <1>4, <1>5, <1>11, WrittenType, WrittenServed
<1>13. sync'.active = sync.active
  BY <1>1, <1>3, <1>4, <1>5, WrittenType, StagedType
<1>14. [promos[i] EXCEPT !.status = "approved"] \in Promo
  BY <1>3 DEF Promo
<1>15. promos' \in Seq(Promo) /\ Len(promos') = Len(promos) /\ DOMAIN promos' = DOMAIN promos
  BY <1>1, <1>3, <1>8, <1>14
<1>16. /\ \A j \in DOMAIN promos : j # i => promos'[j] = promos[j]
       /\ promos'[i].config = c /\ promos'[i].status = "approved"
  BY <1>1, <1>3, <1>8 DEF Promo
<1>17. /\ call' \in [Calls -> CallType]
       /\ \A q \in Calls : Sound(call'[q], Champions', promos')
  <2>1. \A j \in DOMAIN promos : promos'[j].config = promos[j].config
    BY <1>3, <1>16
  <2> QED BY <1>5, <1>6, <1>15, <2>1, NewRowType, NoCallSound, OtherCallsStaySound
<1>18. TypeOK'
  BY <1>1, <1>5, <1>6, <1>12, <1>15, <1>17 DEF ConfigInv, TypeOK
<1>19. TestedBefore'
  BY <1>5, <1>6, CallsTested DEF NoCall
<1>20. ASSUME NEW d \in Configs PROVE Studied(d)'
  <2>1. stage'[d] # "absent" => stage[d] # "absent"
    BY <1>1, <1>2, <1>5 DEF ConfigInv, TestedBefore
  <2> QED BY <1>5, <2>1 DEF ConfigInv, Studied
<1>21. ASSUME NEW d \in Configs PROVE Asked(d)'
  <2>1. CASE d = c
    BY <1>1, <1>3, <1>15, <1>16, <2>1 DEF Asked
  <2>2. CASE d # c
    <3> SUFFICES ASSUME d \in Champions \ (1..Founders)
                 PROVE  \E j \in DOMAIN promos' :
                          /\ promos'[j].config = d
                          /\ promos'[j].status = "approved" \/ j \in past'.contested
      BY <1>6, <2>2 DEF Asked
    <3>1. PICK j \in DOMAIN promos :
            promos[j].config = d /\ (promos[j].status = "approved" \/ j \in past.contested)
      BY DEF ConfigInv, Asked
    <3> QED BY <1>3, <1>10, <1>15, <1>16, <2>2, <3>1
  <2> QED BY <2>1, <2>2
<1>22. ApprovedStaysOffered' /\ Agreed'
  <2>1. sync = old => sync'.pending = c
    <3> SUFFICES ASSUME sync = old PROVE sync'.pending = c
      OBVIOUS
    <3>1. sync' = Written(old, old, new)
      BY <1>5
    <3>2. sync'.pending = new.pending
      BY <1>4, <3>1, WrittenFresh
    <3> QED BY <1>3, <1>4, <3>2, StagedType
  <2>2. stage[c] = "CHALLENGER" => ea.acked # c
    BY NoneIsNoConfig DEF ConfigInv, Champions
  <2> QED BY <1>5, <1>10, <1>13, <2>1, <2>2 DEF ApprovedStaysOffered, Agreed, ConfigInv
<1>23. {ea'.sending, ea'.acked} \subseteq Champions' \cup {None} /\ (sync'.active # None => sync'.active \in past'.ran)
  BY <1>5, <1>6, <1>10, <1>13 DEF ConfigInv
<1> QED BY <1>7, <1>10, <1>12, <1>17, <1>18, <1>19, <1>20, <1>21, <1>22, <1>23 DEF ConfigInv

\* A commit that leaves stages, evidence and requests alone.
LEMMA OnlyRowCommits ==
  ASSUME ConfigInv, NEW p \in Calls, call' = [call EXCEPT ![p] = NoCall],
         UNCHANGED <<stage, evidence, promos>>,
         sync' \in Row, Served(sync', Champions),
         ea' \in [acked : Configs \cup {None}, sending : Configs \cup {None}],
         ea'.sending \in {ea.sending, None}, ea'.acked \in Champions \cup {None}, Agreed',
         past' \in History, past'.contested = past.contested,
         sync'.active # None => sync'.active \in past'.ran,
         past'.offered # None /\ ~past'.stale => sync'.pending = past'.offered
  PROVE  ConfigInv'
<1>1. call' \in [Calls -> CallType] /\ \A q \in Calls : Sound(call'[q], Champions, promos)
  BY OtherCallsStaySound, NewRowType, NoCallSound
<1>2. Champions' = Champions
  BY DEF Champions
<1>3. TypeOK'
  BY <1>1 DEF ConfigInv, TypeOK
<1>4. \A c \in Configs : Studied(c)' /\ Asked(c)'
  BY <1>2 DEF ConfigInv, Studied, Asked
<1>5. TestedBefore'
  BY CallsTested DEF NoCall
<1>6. Served(sync', Champions') /\ {ea'.sending, ea'.acked} \subseteq Champions' \cup {None}
  BY <1>2 DEF ConfigInv
<1> QED BY <1>1, <1>2, <1>3, <1>4, <1>5, <1>6 DEF ConfigInv, ApprovedStaysOffered

LEMMA ActivateKeeps ==
  ASSUME ConfigInv, NEW p \in Calls, NEW c \in Configs, Activate(p, c)
  PROVE  ConfigInv'
<1> DEFINE old == call[p].row
           new == call[p].new
<1>1. /\ call[p] \in CallType /\ Sound(call[p], Champions, promos) /\ past \in History
      /\ sync \in Row /\ Served(sync, Champions)
      /\ ea \in [acked : Configs \cup {None}, sending : Configs \cup {None}]
  BY DEF ConfigInv, TypeOK
<1>2. call[p].op = "ack" /\ call[p].configs = {c}
  BY DEF Activate
<1>3. /\ c \in Champions /\ new = Activated(old, c) /\ old.pending \in {None, c}
      /\ Served(old, Champions) /\ old \in Row /\ new \in Row
  BY <1>1, <1>2 DEF Sound, CallType
<1>4. /\ sync' = Written(sync, old, new) /\ call' = [call EXCEPT ![p] = NoCall]
      /\ UNCHANGED <<stage, evidence, promos>>
  BY DEF Activate, Done
<1>5. PICK answered \in BOOLEAN :
        /\ ea' = [acked |-> IF answered THEN c ELSE ea.acked, sending |-> None]
        /\ past' = [past EXCEPT !.ran = past.ran \cup {c}, !.stale = past.stale \/ sync # old,
                      !.offered = IF past.offered = c THEN None ELSE past.offered,
                      !.lost = past.lost \/ ~answered]
  BY DEF Activate, Stale
<1> HIDE DEF old, new
<1>6. /\ past' \in History /\ past'.contested = past.contested
      /\ past'.ran = past.ran \cup {c} /\ past'.stale = (past.stale \/ sync # old)
      /\ past'.lost = (past.lost \/ ~answered)
      /\ past'.offered = IF past.offered = c THEN None ELSE past.offered
  BY <1>1, <1>5 DEF History
<1>7. ea' \in [acked : Configs \cup {None}, sending : Configs \cup {None}] /\ ea'.sending = None
      /\ ea'.acked = IF answered THEN c ELSE ea.acked
  BY <1>1, <1>5
<1>8. Served(new, Champions)
  BY <1>3, ActivatedType DEF Served
<1>9. sync' \in Row /\ Served(sync', Champions)
  BY <1>1, <1>3, <1>4, <1>8, WrittenType, WrittenServed
<1>10. sync'.active \in {sync.active, c}
  <2>1. sync'.active = IF new.active = old.active THEN sync.active ELSE new.active
    BY <1>1, <1>3, <1>4, WrittenType
  <2>2. new.active = c
    BY <1>3, ActivatedType
  <2> QED BY <2>1, <2>2
<1>11. sync'.active # None => sync'.active \in past'.ran
  BY <1>6, <1>10 DEF ConfigInv
<1>12. past'.offered # None => past'.stale
  <2> SUFFICES ASSUME ~past'.stale, past.offered # None PROVE past.offered = c
    BY <1>6
  <2>1. ~past.stale /\ sync = old
    BY <1>6
  <2> QED BY <1>3, <2>1 DEF ConfigInv, ApprovedStaysOffered
<1>13. Agreed'
  <2> SUFFICES ASSUME ~past'.lost, ~past'.stale
               PROVE  sync'.active = c /\ sync'.pending = None /\ ea'.acked = c
    BY <1>3, NoneIsNoConfig DEF Agreed, Champions
  <2>1. sync = old /\ answered
    BY <1>6
  <2>2. sync'.pending = None
    BY <1>3, <1>4, <2>1, WrittenFresh, ActivatedType
  <2>3. sync'.active = c
    BY <1>3, <1>4, <2>1, WrittenType, ActivatedType
  <2> QED BY <1>7, <2>1, <2>2, <2>3
<1>14. ea'.acked \in Champions \cup {None}
  BY <1>3, <1>7 DEF ConfigInv
<1> QED BY <1>4, <1>6, <1>7, <1>9, <1>11, <1>12, <1>13, <1>14, OnlyRowCommits

LEMMA JudgeKeeps ==
  ASSUME ConfigInv, NEW p \in Calls, Judge(p)
  PROVE  ConfigInv'
<1> DEFINE old == call[p].row
           new == call[p].new
           rollsBack == new.state = "ROLLBACK" /\ old.active # None
<1>1. /\ call[p] \in CallType /\ Sound(call[p], Champions, promos) /\ past \in History
      /\ sync \in Row /\ Served(sync, Champions)
      /\ ea \in [acked : Configs \cup {None}, sending : Configs \cup {None}]
  BY DEF ConfigInv, TypeOK
<1>2. /\ call[p].op = "runtime" /\ ea' = ea /\ UNCHANGED <<stage, evidence, promos>>
      /\ sync' = Written(sync, old, new) /\ call' = [call EXCEPT ![p] = NoCall]
  BY DEF Judge, Done
<1>3. /\ old.active # None /\ Served(old, Champions) /\ old \in Row /\ new \in Row
      /\ \/ Restated(old, new)
         \/ \E target \in Champions \ {old.active} : new = RolledBack(old, target)
  BY <1>1, <1>2 DEF Sound, CallType
<1>4. past' = [past EXCEPT !.stale = past.stale \/ sync # old,
                 !.rolled = IF rollsBack /\ ~past.stale /\ sync = old
                            THEN past.rolled + 1 ELSE past.rolled,
                 !.offered = IF rollsBack THEN None ELSE past.offered]
  BY DEF Judge, Stale
<1> HIDE DEF old, new
<1>5. /\ past' \in History /\ past'.contested = past.contested /\ past'.ran = past.ran
      /\ past'.stale = (past.stale \/ sync # old)
      /\ past'.offered = IF rollsBack THEN None ELSE past.offered
      /\ past'.lost = past.lost
  <2>1. PICK b \in BOOLEAN : b = (past.stale \/ sync # old)
    BY <1>1 DEF History
  <2>2. PICK n \in Nat, o \in Configs \cup {None} :
          /\ o = IF rollsBack THEN None ELSE past.offered
          /\ past' = [past EXCEPT !.stale = b, !.rolled = n, !.offered = o]
    <3> HIDE DEF rollsBack
    <3>1. past.rolled \in Nat /\ past.rolled + 1 \in Nat /\ past.offered \in Configs \cup {None}
      BY <1>1 DEF History
    <3> QED BY <1>4, <2>1, <3>1
  <2> QED BY <1>1, <2>1, <2>2 DEF History
<1>6. /\ Served(new, Champions) /\ new.active \in {None, old.active}
      /\ ~rollsBack => new.pending = old.pending
      /\ \/ new.active = old.active /\ new.pending = old.pending
         \/ new.active = None /\ new.pending # old.active
  <2>1. CASE Restated(old, new)
    BY <1>3, <2>1 DEF Restated, Served
  <2>2. CASE \E target \in Champions \ {old.active} : new = RolledBack(old, target)
    <3>1. PICK target \in Champions \ {old.active} : new = RolledBack(old, target)
      BY <2>2
    <3>2. target \in Configs
      BY DEF Champions
    <3>3. /\ new.active = None /\ new.acked = None /\ new.pending = target
          /\ new.rollback = old.rollback /\ new.state = "ROLLBACK"
      BY <1>3, <3>1, <3>2, RolledBackType
    <3> QED BY <1>3, <3>3 DEF Served
  <2> QED BY <1>3, <2>1, <2>2
<1> HIDE DEF rollsBack
<1>7. sync' \in Row /\ Served(sync', Champions)
  BY <1>1, <1>2, <1>3, <1>6, WrittenType, WrittenServed
<1>8. sync'.active \in {None, sync.active}
  BY <1>1, <1>2, <1>3, <1>6, WrittenType
<1>9. sync'.active # None => sync'.active \in past'.ran
  BY <1>5, <1>8 DEF ConfigInv
<1>10. past'.offered # None /\ ~past'.stale => sync'.pending = past'.offered
  <2> SUFFICES ASSUME past'.offered # None, ~past'.stale
               PROVE  sync'.pending = past'.offered
    OBVIOUS
  <2>1. ~rollsBack /\ past'.offered = past.offered /\ ~past.stale /\ sync = old
    BY <1>5
  <2>2. sync'.pending = sync.pending
    BY <1>1, <1>2, <1>3, <1>6, <2>1, WrittenFresh
  <2> QED BY <2>1, <2>2 DEF ConfigInv, ApprovedStaysOffered
<1>11. Agreed'
  <2> SUFFICES ASSUME ~past'.lost, ~past'.stale
               PROVE  /\ sync'.active # None => ea.acked \in {None, sync'.active}
                      /\ sync'.pending # None => ea.acked # sync'.pending
    BY <1>2 DEF Agreed
  <2>1. ~past.lost /\ ~past.stale /\ sync = old
    BY <1>5
  <2>2. sync'.active = new.active /\ sync'.pending = new.pending
    BY <1>2, <1>3, <2>1, WrittenType
  <2>3. /\ ea.acked \in {None, old.active}
        /\ old.pending # None => ea.acked # old.pending
    BY <1>3, <2>1 DEF ConfigInv, Agreed
  <2> QED BY <1>6, <2>2, <2>3
<1>12. ea'.acked \in Champions \cup {None}
  BY <1>2 DEF ConfigInv
<1> QED BY <1>1, <1>2, <1>5, <1>7, <1>9, <1>10, <1>11, <1>12, OnlyRowCommits

-----------------------------------------------------------------------------
(***************************************************************************)
(* The EA's own steps, and the theorems.                                   *)
(***************************************************************************)

\* Steps of the EA, and reports that only halt.
LEMMA NoCallChanges ==
  ASSUME ConfigInv, UNCHANGED <<stage, evidence, promos, call, past>>,
         sync' \in {sync, [sync EXCEPT !.state = "HALT"]},
         ea' \in [acked : Configs \cup {None}, sending : Configs \cup {None}],
         ea'.sending \in Champions \cup {None}, ea'.acked \in {ea.acked, None}
  PROVE  ConfigInv'
<1>1. /\ sync' \in Row /\ sync'.active = sync.active /\ sync'.acked = sync.acked
      /\ sync'.pending = sync.pending /\ sync'.rollback = sync.rollback
  BY DEF ConfigInv, TypeOK, Row
<1>2. Champions' = Champions
  BY DEF Champions
<1>3. TypeOK'
  BY <1>1 DEF ConfigInv, TypeOK
<1>4. Served(sync', Champions')
  BY <1>1, <1>2 DEF ConfigInv, Served
<1>5. \A c \in Configs : Studied(c)' /\ Asked(c)'
  BY <1>2 DEF ConfigInv, Studied, Asked
<1>6. {ea'.sending, ea'.acked} \subseteq Champions' \cup {None}
  BY <1>2 DEF ConfigInv
<1>7. Agreed'
  BY <1>1 DEF ConfigInv, Agreed
<1> QED BY <1>1, <1>2, <1>3, <1>4, <1>5, <1>6, <1>7
        DEF ConfigInv, TestedBefore, ApprovedStaysOffered

LEMMA ExchangeKeeps ==
  ASSUME ConfigInv, Poll \/ Mismatch \/ Restart \/ \E c \in Configs : ReportOther(c)
  PROVE  ConfigInv'
<1>1. /\ ea \in [acked : Configs \cup {None}, sending : Configs \cup {None}]
      /\ ea.sending \in Champions \cup {None} /\ Champions \subseteq Configs
  BY DEF ConfigInv, TypeOK, Champions
<1>2. CASE Poll
  BY <1>1, <1>2, OfferIsChampion, NoCallChanges DEF Poll
<1>3. CASE Mismatch
  BY <1>1, <1>3, NoCallChanges DEF Mismatch
<1>4. CASE Restart
  BY <1>1, <1>4, NoCallChanges DEF Restart
<1>5. CASE \E c \in Configs : ReportOther(c)
  BY <1>1, <1>5, NoCallChanges DEF ReportOther
<1> QED BY <1>2, <1>3, <1>4, <1>5

LEMMA ConfigInit == Init => ConfigInv
<1> SUFFICES ASSUME Init PROVE ConfigInv
  OBVIOUS
<1>1. Founders \in 1..N /\ MaxPromos \in Nat
  BY ConfigurationAssumption
<1>2. stage \in [Configs -> Stages]
  BY DEF Init, Stages
<1>3. evidence \in [Configs -> Seq(Runs)]
  <2>1. \A run \in Runs : <<run>> \in Seq(Runs)
    OBVIOUS
  <2>2. << >> \in Seq(Runs)
    OBVIOUS
  <2> QED BY <2>1, <2>2 DEF Init
<1>4. promos = << >> /\ promos \in Seq(Promo) /\ Len(promos) <= MaxPromos
  BY <1>1 DEF Init
<1>5. /\ sync = NewRow /\ sync \in Row /\ Served(sync, Champions)
      /\ sync.active = None /\ sync.pending = None
  BY NewRowType, MoreChampionsServe DEF Init, NewRow
<1>6. /\ ea \in [acked : Configs \cup {None}, sending : Configs \cup {None}]
      /\ ea.sending = None /\ ea.acked = None
  BY DEF Init
<1>7. call = [p \in Calls |-> NoCall] /\ call \in [Calls -> CallType]
  BY NewRowType DEF Init
<1>8. \A p \in Calls : Sound(call[p], Champions, promos)
  BY <1>7, NoCallSound
<1>9. TestedBefore
  BY <1>7 DEF TestedBefore, NoCall
<1>10. past \in History /\ past.offered = None
  BY DEF Init, History, None
<1>11. \A c \in Configs : c \notin 1..Founders => stage[c] = "absent"
  BY <1>1 DEF Init, Configs
<1>12. \A c \in Configs : Studied(c) /\ Asked(c)
  BY <1>11 DEF Studied, Asked, Champions
<1> QED BY <1>2, <1>3, <1>4, <1>5, <1>6, <1>7, <1>8, <1>9, <1>10, <1>12
        DEF ConfigInv, TypeOK, ApprovedStaysOffered, Agreed

LEMMA ConfigStep == ConfigInv /\ [Next]_vars => ConfigInv'
<1> SUFFICES ASSUME ConfigInv, [Next]_vars PROVE ConfigInv'
  OBVIOUS
<1>1. CASE \E run \in Runs : Ingest(run)
  BY <1>1, IngestKeeps
<1>2. CASE \E c \in Configs : Review(c) \/ ReportOther(c)
  BY <1>2, ReviewKeeps, ExchangeKeeps
<1>3. CASE Poll \/ Mismatch \/ Restart
  BY <1>3, ExchangeKeeps
<1>4. ASSUME NEW p \in Calls,
             \/ Evaluate(p) \/ Acknowledge(p) \/ Fail(p)
             \/ \E i \in DOMAIN promos, decision \in {"tap", "reject"} : Tap(p, i, decision)
             \/ \E healthy \in BOOLEAN : ReportRuntime(p, healthy)
      PROVE  ConfigInv'
  BY <1>4, EvaluateKeeps, AcknowledgeKeeps, FailKeeps, TapKeeps, ReportRuntimeKeeps
<1>5. ASSUME NEW p \in Calls, Commit(p) PROVE ConfigInv'
  BY <1>5, CommitPromotionsKeeps, SendCardKeeps, LoadCandidateKeeps, ApproveKeeps,
     ActivateKeeps, RejectKeeps, JudgeKeeps DEF Commit
<1>6. CASE UNCHANGED vars
  <2>1. Champions' = Champions
    BY <1>6 DEF vars, Champions
  <2> QED BY <1>6, <2>1 DEF vars, ConfigInv, TypeOK, TestedBefore, Studied, Asked,
                            ApprovedStaysOffered, Agreed
<1> QED BY <1>1, <1>2, <1>3, <1>4, <1>5, <1>6 DEF Next

(***************************************************************************)
(* The strengthened invariant: types, what each call rests on, evidence    *)
(* and requests behind the champions, however calls interleave.            *)
(***************************************************************************)
THEOREM ConfigurationCorrect == Spec => []ConfigInv
BY ConfigInit, ConfigStep, PTL DEF Spec

(***************************************************************************)
(* Every hash the EA may be sent is a champion's, and what the bridge      *)
(* believes active the EA did acknowledge, although acknowledgements,      *)
(* approvals and rollbacks write what they computed from rows that         *)
(* changed since.                                                          *)
(***************************************************************************)
THEOREM OnlyAcknowledgedConfigurationsRun == Spec => []OnlyAcknowledgedRuns
<1>1. ConfigInv => OnlyAcknowledgedRuns
  BY DEF ConfigInv, OnlyAcknowledgedRuns, OnlyChampionsAreServed, Served, Expected
<1> QED BY <1>1, ConfigurationCorrect, PTL

(***************************************************************************)
(* Nothing becomes champion without the operator's approval and a report   *)
(* whose holdout nothing was fitted on.                                    *)
(***************************************************************************)
THEOREM ChampionsEarnedIt == Spec => []PromotionIsEarned
<1>1. ASSUME ConfigInv PROVE PromotionIsEarned
  <2> SUFFICES ASSUME NEW c \in Champions \ (1..Founders)
               PROVE  /\ \E i \in DOMAIN promos :
                           /\ promos[i].config = c
                           /\ promos[i].status = "approved" \/ i \in past.contested
                      /\ \E i \in DOMAIN evidence[c] : OutOfSample(ReportOf[evidence[c][i]])
    BY DEF PromotionIsEarned
  <2>1. c \in Configs /\ stage[c] # "absent"
    BY DEF Champions
  <2> QED BY <1>1, <2>1 DEF ConfigInv, Asked, Studied
<1> QED BY <1>1, ConfigurationCorrect, PTL

(***************************************************************************)
(* An approval is not forgotten: only the EA's acknowledgement, another    *)
(* approval or a rollback ends it, or a call whose row changed meanwhile.  *)
(***************************************************************************)
THEOREM ApprovalsStayOffered == Spec => []ApprovedStaysOffered
<1>1. ConfigInv => ApprovedStaysOffered
  BY DEF ConfigInv
<1> QED BY <1>1, ConfigurationCorrect, PTL

(***************************************************************************)
(* Whatever awaits the EA's acknowledgement is something the EA will       *)
(* acknowledge, since it is never what the EA believes acknowledged, but   *)
(* for a lost answer or a call that wrote from rows changed since.         *)
(***************************************************************************)
THEOREM OffersGetAnswered == Spec => []OfferIsAnswered
<1>1. ConfigInv => OfferIsAnswered
  BY DEF ConfigInv, Agreed, OfferIsAnswered
<1> QED BY <1>1, ConfigurationCorrect, PTL

-----------------------------------------------------------------------------
(***************************************************************************)
(* Rollbacks come to an end.  Since the last approval, and as long as      *)
(* every call wrote from the row as it was, each rollback leads to a       *)
(* champion older than the one before it, but the first, which may lead to *)
(* the recorded fallback: Untried are the champions still to come.         *)
(***************************************************************************)

Untried ==
  IF sync.pending # None THEN Older(sync.pending)
  ELSE IF sync.rollback = None THEN Older(sync.active) ELSE {}

\* A rollback took place since the last approval.
Rolling ==
  /\ IF sync.active = None THEN sync.pending # None
     ELSE sync.pending = None /\ sync.rollback \in {None, sync.active}
  /\ past.rolled + Cardinality(Untried) <= Cardinality(Champions)

\* What a call that acknowledges or rolls back was computed from.
Based(k, C) ==
  /\ k.op = "ack" =>
       \E c \in C : /\ k.configs = {c} /\ k.new = Activated(k.row, c)
                    /\ Expected(k.row) \in {None, c}
  /\ k.op = "runtime" /\ k.new.state = "ROLLBACK" =>
       \E target \in C \ {k.row.active} :
         /\ k.new.pending = target
         /\ IF k.row.rollback = None THEN target < k.row.active
            ELSE target = k.row.rollback

RollbackInv ==
  /\ past.rolled <= Cardinality(Champions)
  /\ ~past.stale /\ past.rolled # 0 => Rolling
  /\ \A p \in Calls : Based(call[p], Champions)

LEMMA ChampionsAreFinite ==
  ASSUME TypeOK
  PROVE  /\ Champions \subseteq Configs /\ IsFiniteSet(Champions)
         /\ \A S \in SUBSET Champions : IsFiniteSet(S) /\ Cardinality(S) \in Nat
<1>1. IsFiniteSet(Configs)
  BY ConfigurationAssumption, FS_Interval DEF Configs
<1>2. Champions \subseteq Configs
  BY DEF Champions
<1>3. IsFiniteSet(Champions)
  BY <1>1, <1>2, FS_Subset
<1>4. ASSUME NEW S \in SUBSET Champions PROVE IsFiniteSet(S) /\ Cardinality(S) \in Nat
  <2>1. IsFiniteSet(S)
    BY <1>3, FS_Subset
  <2> QED BY <2>1, FS_CardinalityType
<1> QED BY <1>2, <1>3, <1>4

LEMMA ChampionsAreCounted == TypeOK => Cardinality(Champions) \in Nat
BY ChampionsAreFinite

\* Whoever falls back to an older champion has one champion less to fall back to.
LEMMA OlderAreFewer ==
  ASSUME TypeOK, NEW S \in SUBSET Champions, NEW c \in S, Older(c) \subseteq S
  PROVE  1 + Cardinality(Older(c)) <= Cardinality(S)
<1>1. IsFiniteSet(S) /\ Cardinality(S) \in Nat
  BY ChampionsAreFinite
<1>2. IsFiniteSet(S \ {c}) /\ Cardinality(S \ {c}) = Cardinality(S) - 1
  BY <1>1, FS_RemoveElement
<1>3. Older(c) \subseteq S \ {c}
  <2>1. c \in Nat
    BY ChampionsAreFinite, NoneIsNoConfig
  <2>2. c \notin Older(c)
    BY <2>1 DEF Older
  <2> QED BY <2>2
<1>4. Cardinality(Older(c)) <= Cardinality(S \ {c}) /\ Cardinality(Older(c)) \in Nat
  BY <1>2, <1>3, FS_Subset, FS_CardinalityType
<1> QED BY <1>1, <1>2, <1>4

LEMMA OlderReachDown ==
  ASSUME ConfigInv, NEW c \in Champions, c < sync.active
  PROVE  /\ Older(sync.active) \subseteq Champions /\ c \in Older(sync.active)
         /\ Older(c) \subseteq Older(sync.active)
<1>1. sync.active \in Configs \cup {0}
  BY DEF ConfigInv, TypeOK, Row, None
<1>2. Champions \subseteq Nat
  BY NoneIsNoConfig DEF Champions
<1>3. sync.active \in Nat
  <2>1. CASE sync.active = 0
    BY ONLY <2>1
  <2>2. CASE sync.active \in Configs
    BY <2>2, NoneIsNoConfig
  <2> QED BY <1>1, <2>1, <2>2
<1>4. \A d \in Older(c) : d \in Champions /\ d < sync.active
  <2>1. \A a, b, d \in Nat : a < b /\ d < a => d < b
    OBVIOUS
  <2>2. \A d \in Older(c) : d \in Champions /\ d < c
    BY DEF Older
  <2> QED BY <1>2, <1>3, <2>1, <2>2
<1> QED BY <1>4 DEF Older

LEMMA CallsStayBased ==
  ASSUME ConfigInv, RollbackInv, NEW D, Champions \subseteq D, NEW p \in Calls, NEW k,
         call' = [call EXCEPT ![p] = k], Based(k, D)
  PROVE  \A q \in Calls : Based(call'[q], D)
<1>1. call \in [Calls -> CallType]
  BY DEF ConfigInv, TypeOK
<1>2. ASSUME NEW q \in Calls PROVE Based(call[q], D)
  BY DEF RollbackInv, Based
<1> QED BY <1>1, <1>2

\* The hashes of the row and the count of rollbacks stay.
LEMMA RowAndCountStay ==
  ASSUME RollbackInv, Champions' = Champions,
         sync'.active = sync.active, sync'.pending = sync.pending,
         sync'.rollback = sync.rollback,
         past'.rolled = past.rolled, past.stale => past'.stale,
         \A q \in Calls : Based(call'[q], Champions)
  PROVE  RollbackInv'
<1>1. Untried' = Untried
  BY DEF Untried, Older
<1>2. Rolling => Rolling'
  BY <1>1 DEF Rolling
<1> QED BY <1>2 DEF RollbackInv

\* A step of a call that neither acknowledges nor reports.
LEMMA OtherCallsKeepCount ==
  ASSUME ConfigInv, RollbackInv, NEW p \in Calls, NEW k, k.op \notin {"ack", "runtime"},
         call' = [call EXCEPT ![p] = k], UNCHANGED <<stage, sync>>,
         past'.rolled = past.rolled, past'.stale = past.stale
  PROVE  RollbackInv'
<1>1. Champions' = Champions
  BY DEF Champions
<1>2. Based(k, Champions)
  BY DEF Based
<1>3. \A q \in Calls : Based(call'[q], Champions)
  BY <1>2, CallsStayBased
<1> QED BY <1>1, <1>3, RowAndCountStay

LEMMA CallStepsKeepCount ==
  ASSUME ConfigInv, RollbackInv, NEW p \in Calls,
         \/ Evaluate(p) \/ CommitPromotions(p) \/ Reject(p) \/ Fail(p)
         \/ \E i \in DOMAIN promos, decision \in {"tap", "reject"} : Tap(p, i, decision)
         \/ \E c \in Configs : SendCard(p, c) \/ LoadCandidate(p, c)
  PROVE  RollbackInv'
<1> USE DEF NoCall, CallType
<1>1. call \in [Calls -> CallType] /\ call[p] \in CallType /\ past \in History
  BY DEF ConfigInv, TypeOK
<1>2. CASE Evaluate(p)
  <2>1. PICK k : k.op = "evaluate" /\ call' = [call EXCEPT ![p] = k]
    BY <1>2 DEF Evaluate, Begin
  <2> QED BY <1>2, <2>1, OtherCallsKeepCount DEF Evaluate
<1>3. CASE CommitPromotions(p)
  <2>1. PICK k : k.op = "cards" /\ call' = [call EXCEPT ![p] = k]
    <3>1. call' = [call EXCEPT ![p] = [call[p] EXCEPT !.op = "cards", !.promo = Len(promos) + 1]]
      BY <1>1, <1>3 DEF CommitPromotions
    <3> QED BY <1>1, <3>1
  <2> QED BY <1>3, <2>1, OtherCallsKeepCount DEF CommitPromotions
<1>4. CASE Reject(p)
  <2>1. past'.rolled = past.rolled /\ past'.stale = past.stale
    BY <1>1, <1>4 DEF Reject, History
  <2> QED BY <1>4, <2>1, OtherCallsKeepCount DEF Reject, Done
<1>5. CASE Fail(p)
  BY <1>5, OtherCallsKeepCount DEF Fail, Done
<1>6. CASE \E i \in DOMAIN promos, decision \in {"tap", "reject"} : Tap(p, i, decision)
  <2>1. PICK i \in DOMAIN promos, decision \in {"tap", "reject"} : Tap(p, i, decision)
    BY <1>6
  <2>2. PICK k : k.op = decision /\ call' = [call EXCEPT ![p] = k]
    BY <2>1 DEF Tap, Begin
  <2> QED BY <2>1, <2>2, OtherCallsKeepCount DEF Tap
<1>7. ASSUME NEW c \in Configs, SendCard(p, c) PROVE RollbackInv'
  <2> DEFINE rest == [call[p] EXCEPT !.configs = @ \ {c}]
  <2>1. UNCHANGED <<stage, sync, past>> /\ rest.op = "cards" /\ NoCall.op = "none"
    BY <1>1, <1>7 DEF SendCard
  <2>2. call' = [call EXCEPT ![p] = IF call[p].configs = {c} THEN NoCall ELSE rest]
    BY <1>7 DEF SendCard
  <2> HIDE DEF rest, NoCall
  <2>3. CASE call[p].configs = {c}
    BY <2>1, <2>2, <2>3, OtherCallsKeepCount
  <2>4. CASE call[p].configs # {c}
    BY <2>1, <2>2, <2>4, OtherCallsKeepCount
  <2> QED BY <2>3, <2>4
<1>8. ASSUME NEW c \in Configs, LoadCandidate(p, c) PROVE RollbackInv'
  <2>1. UNCHANGED <<stage, sync, past>>
    BY <1>8 DEF LoadCandidate
  <2>2. CASE stage[c] = "CHALLENGER"
    <3> DEFINE k == [call[p] EXCEPT !.op = "approve", !.row = sync, !.new = Staged(sync, c)]
    <3>1. call' = [call EXCEPT ![p] = k]
      BY <1>1, <1>8, <2>2 DEF LoadCandidate
    <3>2. k.op = "approve"
      BY <1>1
    <3> HIDE DEF k
    <3> QED BY <2>1, <3>1, <3>2, OtherCallsKeepCount
  <2>3. CASE stage[c] # "CHALLENGER"
    <3> DEFINE k == [call[p] EXCEPT !.op = "refuse"]
    <3>1. call' = [call EXCEPT ![p] = k]
      BY <1>1, <1>8, <2>3 DEF LoadCandidate
    <3>2. k.op = "refuse"
      BY <1>1
    <3> HIDE DEF k
    <3> QED BY <2>1, <3>1, <3>2, OtherCallsKeepCount
  <2> QED BY <2>2, <2>3
<1> QED BY <1>2, <1>3, <1>4, <1>5, <1>6, <1>7, <1>8

LEMMA StageStepsKeepCount ==
  ASSUME ConfigInv, RollbackInv,
         (\E run \in Runs : Ingest(run)) \/ (\E c \in Configs : Review(c))
  PROVE  RollbackInv'
<1>1. stage \in [Configs -> Stages]
  BY DEF ConfigInv, TypeOK
<1>2. Champions' = Champions
  <2>1. ASSUME NEW run \in Runs, Ingest(run) PROVE Champions' = Champions
    <3>1. PICK c \in Configs, to \in Stages :
            /\ stage' = [stage EXCEPT ![c] = to]
            /\ to = "CHAMPION" <=> stage[c] = "CHAMPION"
      <4>1. TestedIn[run] \in Configs
        BY ConfigurationAssumption
      <4> QED BY <1>1, <2>1, <4>1 DEF Ingest, Stages
    <3> QED BY <1>1, <3>1 DEF Champions
  <2>2. ASSUME NEW c \in Configs, Review(c) PROVE Champions' = Champions
    BY <1>1, <2>2 DEF Review, Champions
  <2> QED BY <2>1, <2>2
<1>3. UNCHANGED <<sync, call, past>>
  BY DEF Ingest, Review
<1> QED BY <1>2, <1>3, RowAndCountStay DEF RollbackInv

LEMMA ExchangeKeepsCount ==
  ASSUME ConfigInv, RollbackInv,
         Poll \/ Mismatch \/ Restart \/ \E c \in Configs : ReportOther(c)
  PROVE  RollbackInv'
<1>1. /\ sync'.active = sync.active /\ sync'.pending = sync.pending
      /\ sync'.rollback = sync.rollback
  BY DEF Poll, Mismatch, Restart, ReportOther, ConfigInv, TypeOK, Row
<1>2. Champions' = Champions /\ UNCHANGED <<call, past>>
  BY DEF Poll, Mismatch, Restart, ReportOther, Champions
<1> QED BY <1>1, <1>2, RowAndCountStay DEF RollbackInv

LEMMA LoadsAreBased ==
  ASSUME ConfigInv, RollbackInv, NEW p \in Calls,
         Acknowledge(p) \/ \E healthy \in BOOLEAN : ReportRuntime(p, healthy)
  PROVE  RollbackInv'
<1>1. sync \in Row /\ Served(sync, Champions) /\ Champions \subseteq Configs
  BY DEF ConfigInv, TypeOK, Champions
<1>2. PICK k : call' = [call EXCEPT ![p] = k] /\ Based(k, Champions)
  <2>1. CASE Acknowledge(p)
    <3> DEFINE c == ea.sending
               k == [NoCall EXCEPT !.op = "ack", !.row = sync, !.configs = {c},
                                   !.new = Activated(sync, c)]
    <3>1. c # None /\ c = Offer /\ call' = [call EXCEPT ![p] = k]
      BY <2>1 DEF Acknowledge, Begin
    <3>2. c \in Champions /\ Expected(sync) \in {None, c}
      BY <3>1, OfferIsChampion DEF Offer
    <3> HIDE DEF c
    <3>3. k.op = "ack" /\ k.row = sync /\ k.configs = {c} /\ k.new = Activated(sync, c)
      BY DEF NoCall
    <3> HIDE DEF k
    <3>4. Based(k, Champions)
      BY <3>2, <3>3 DEF Based
    <3> QED BY <3>1, <3>4
  <2>2. ASSUME NEW healthy \in BOOLEAN, ReportRuntime(p, healthy)
        PROVE  \E k : call' = [call EXCEPT ![p] = k] /\ Based(k, Champions)
    <3> DEFINE judged == Judged(sync, healthy)
               k == [NoCall EXCEPT !.op = "runtime", !.row = sync, !.new = judged]
               target == RollbackTarget(sync, sync.active)
    <3>1. sync.active \in Champions /\ call' = [call EXCEPT ![p] = k]
      BY <2>2 DEF ReportRuntime, Begin
    <3>2. judged.state = "ROLLBACK" =>
            /\ judged.pending = target /\ target \in Champions \ {sync.active}
            /\ IF sync.rollback = None THEN target < sync.active ELSE target = sync.rollback
      <4> SUFFICES ASSUME judged.state = "ROLLBACK"
                   PROVE  /\ judged.pending = target /\ target \in Champions \ {sync.active}
                          /\ IF sync.rollback = None THEN target < sync.active
                             ELSE target = sync.rollback
        OBVIOUS
      <4>1. target # sync.active /\ judged.pending = target
        <5> HIDE DEF target
        <5> QED BY <1>1 DEF Judged, Row, target
      <4>2. Older(sync.active) # {} => Max(Older(sync.active)) \in Older(sync.active)
        BY <1>1, GreatestConfig DEF Older
      <4>3. CASE sync.rollback \in Champions
        BY <1>1, <4>1, <4>3, NoneIsNoConfig DEF RollbackTarget
      <4>4. CASE sync.rollback \notin Champions
        <5>1. sync.rollback = None
          BY <1>1, <4>4 DEF Served
        <5>2. target \in Older(sync.active)
          BY <4>1, <4>2, <4>4 DEF RollbackTarget
        <5> QED BY <4>1, <5>1, <5>2 DEF Older
      <4> QED BY <4>3, <4>4
    <3> HIDE DEF judged, target
    <3>3. k.op = "runtime" /\ k.row = sync /\ k.new = judged
      BY DEF NoCall
    <3> HIDE DEF k
    <3>4. Based(k, Champions)
      BY <3>2, <3>3 DEF Based
    <3> QED BY <3>1, <3>4
  <2> QED BY <2>1, <2>2
<1>3. \A q \in Calls : Based(call'[q], Champions)
  BY <1>2, CallsStayBased
<1>4. Champions' = Champions /\ UNCHANGED <<sync, past>>
  BY DEF Acknowledge, ReportRuntime, Champions
<1> QED BY <1>3, <1>4, RowAndCountStay

LEMMA ApproveKeepsCount ==
  ASSUME ConfigInv, ConfigInv', RollbackInv, NEW p \in Calls, NEW c \in Configs, Approve(p, c)
  PROVE  RollbackInv'
<1>1. past'.rolled = 0
  <2>1. past \in History
    BY DEF ConfigInv
  <2> QED BY <2>1 DEF Approve, History
<1>2. Champions \subseteq Champions'
  <2>1. TypeOK /\ "CHAMPION" \in Stages
    BY DEF ConfigInv, Stages
  <2> QED BY <2>1, ChampionsStay DEF Approve
<1>3. \A q \in Calls : Based(call'[q], Champions')
  <2>1. Based(NoCall, Champions') /\ call' = [call EXCEPT ![p] = NoCall]
    BY DEF Based, NoCall, Approve, Done
  <2> QED BY <1>2, <2>1, CallsStayBased
<1>4. Cardinality(Champions') \in Nat
  <2>1. (TypeOK => Cardinality(Champions) \in Nat)'
    BY ChampionsAreCounted, PTL
  <2> QED BY <2>1 DEF ConfigInv
<1> QED BY <1>1, <1>3, <1>4 DEF RollbackInv


\* Fresh calls store what they computed.
LEMMA FreshCommit ==
  ASSUME ConfigInv, NEW p \in Calls, ~Stale(p), call[p].new \in Row,
         sync' = Written(sync, call[p].row, call[p].new)
  PROVE  /\ sync'.active = call[p].new.active /\ sync'.pending = call[p].new.pending
         /\ sync'.rollback = call[p].new.rollback /\ sync = call[p].row
<1>1. sync \in Row /\ sync = call[p].row
  BY DEF ConfigInv, TypeOK, Stale
<1>2. sync' = Written(sync, sync, call[p].new)
  BY <1>1
<1>3. /\ sync'.active = IF call[p].new.active = sync.active THEN sync.active ELSE call[p].new.active
      /\ sync'.pending = IF call[p].new.pending = sync.pending THEN sync.pending ELSE call[p].new.pending
      /\ sync'.rollback = IF call[p].new.rollback = sync.rollback THEN sync.rollback ELSE call[p].new.rollback
  BY <1>1, <1>2, WrittenType
<1> QED BY <1>1, <1>3

\* A commit of the call p that ends it.
LEMMA CommitKeepsCount ==
  ASSUME ConfigInv, RollbackInv, NEW p \in Calls, call' = [call EXCEPT ![p] = NoCall],
         UNCHANGED stage, past'.rolled \in {past.rolled, past.rolled + 1},
         past'.stale = (past.stale \/ Stale(p)),
         past'.stale => past'.rolled = past.rolled,
         ~past'.stale /\ past'.rolled # 0 => Rolling'
  PROVE  RollbackInv'
<1>1. Champions' = Champions
  BY DEF Champions
<1>2. \A q \in Calls : Based(call'[q], Champions)
  <2>1. Based(NoCall, Champions)
    BY DEF Based, NoCall
  <2> QED BY <2>1, CallsStayBased
<1>3. past'.rolled <= Cardinality(Champions')
  <2>1. CASE past'.stale \/ past'.rolled = 0
    <3>1. past.rolled \in Nat
      BY DEF ConfigInv, History
    <3>2. past'.rolled = past.rolled
      BY <2>1, <3>1
    <3> QED BY <1>1, <3>2 DEF RollbackInv
  <2>2. CASE ~past'.stale /\ past'.rolled # 0
    <3>1. past'.rolled + Cardinality(Untried') <= Cardinality(Champions')
      BY <2>2 DEF Rolling
    <3>2. /\ Untried' \subseteq Champions
      BY <1>1 DEF Untried, Older
    <3>3. Cardinality(Untried') \in Nat /\ Cardinality(Champions) \in Nat
      BY <3>2, ChampionsAreFinite DEF ConfigInv
    <3>4. past'.rolled \in Nat
      BY DEF ConfigInv, History
    <3> QED BY <1>1, <3>1, <3>3, <3>4
  <2> QED BY <2>1, <2>2
<1> QED BY <1>1, <1>2, <1>3 DEF RollbackInv

LEMMA ActivateKeepsCount ==
  ASSUME ConfigInv, RollbackInv, NEW p \in Calls, NEW c \in Configs, Activate(p, c)
  PROVE  RollbackInv'
<1> DEFINE row == call[p].row
           new == call[p].new
<1>1. call[p] \in CallType /\ row \in Row /\ new \in Row /\ past \in History
  BY DEF ConfigInv, TypeOK, CallType
<1>2. c \in Champions /\ new = Activated(row, c) /\ Expected(row) \in {None, c}
  <2>1. call[p].op = "ack" /\ call[p].configs = {c} /\ Based(call[p], Champions)
    BY DEF Activate, RollbackInv
  <2> QED BY <2>1 DEF Based
<1>3. /\ sync' = Written(sync, row, new) /\ call' = [call EXCEPT ![p] = NoCall]
      /\ UNCHANGED stage
  BY DEF Activate, Done
<1>4. past'.rolled = past.rolled /\ past'.stale = (past.stale \/ Stale(p))
  BY <1>1 DEF Activate, History
<1>5. ASSUME ~past'.stale, past'.rolled # 0 PROVE Rolling'
  <2>1. ~past.stale /\ ~Stale(p) /\ Rolling
    BY <1>4, <1>5 DEF RollbackInv
  <2>2. /\ sync = row /\ sync'.active = new.active /\ sync'.pending = new.pending
        /\ sync'.rollback = new.rollback
    BY <1>1, <1>3, <2>1, FreshCommit
  <2>3. /\ new.active = c /\ new.pending = None
        /\ new.rollback = IF row.state = "ROLLBACK" /\ row.pending = c THEN None ELSE row.active
    BY <1>2 DEF Activated
  <2>4. c # None /\ Champions' = Champions /\ Cardinality(Champions) \in Nat
    BY <1>2, <1>3, NoneIsNoConfig, ChampionsAreFinite DEF Champions, ConfigInv
  <2> HIDE DEF row, new
  <2>5. CASE sync.active = None
    <3>1. sync.pending # None /\ Expected(sync) = sync.pending
      BY <2>1, <2>5 DEF Rolling, Expected
    <3>2. sync.pending = c
      BY <1>2, <2>2, <3>1
    <3>3. sync'.active = c /\ sync'.pending = None /\ sync'.rollback = None
      BY <2>2, <2>3, <2>5
    <3>4. Untried = Older(c) /\ Untried' = Older(c)'
      BY <2>4, <3>2, <3>3 DEF Untried
    <3>5. Untried' = Untried
      BY <2>4, <3>4 DEF Older
    <3> QED BY <1>4, <2>1, <2>4, <3>3, <3>5 DEF Rolling
  <2>6. CASE sync.active # None
    <3>1. sync.pending = None /\ Expected(sync) = sync.active
      BY <2>1, <2>6 DEF Rolling, Expected
    <3>2. sync.active = c
      BY <1>2, <2>2, <2>6, <3>1
    <3>3. sync'.active = c /\ sync'.pending = None /\ sync'.rollback = c
      BY <2>2, <2>3, <2>4, <3>1, <3>2
    <3>4. Untried' = {}
      BY <2>4, <3>3 DEF Untried
    <3>5. past'.rolled + Cardinality(Untried') <= Cardinality(Champions')
      <4>1. past.rolled <= Cardinality(Champions) /\ past.rolled \in Nat
        BY <1>1 DEF RollbackInv, History
      <4>2. Cardinality(Untried') = 0
        BY <3>4, FS_EmptySet
      <4> QED BY <1>4, <2>4, <4>1, <4>2
    <3> QED BY <2>4, <3>3, <3>5 DEF Rolling
  <2> QED BY <2>5, <2>6
<1> QED BY <1>3, <1>4, <1>5, CommitKeepsCount

LEMMA JudgeKeepsCount ==
  ASSUME ConfigInv, RollbackInv, NEW p \in Calls, Judge(p)
  PROVE  RollbackInv'
<1> DEFINE row == call[p].row
           new == call[p].new
<1>1. /\ call[p] \in CallType /\ row \in Row /\ new \in Row /\ past \in History
      /\ Sound(call[p], Champions, promos) /\ Based(call[p], Champions)
      /\ call[p].op = "runtime"
  BY DEF ConfigInv, TypeOK, CallType, RollbackInv, Judge
<1>2. /\ sync' = Written(sync, row, new) /\ call' = [call EXCEPT ![p] = NoCall]
      /\ UNCHANGED stage
  BY DEF Judge, Done
<1>3. row.active # None
  BY <1>1 DEF Sound
<1>4. /\ past'.stale = (past.stale \/ Stale(p))
      /\ past'.rolled = IF new.state = "ROLLBACK" /\ ~past.stale /\ ~Stale(p)
                        THEN past.rolled + 1 ELSE past.rolled
  BY <1>1, <1>3 DEF Judge, History
<1>5. Champions' = Champions /\ Cardinality(Champions) \in Nat /\ past.rolled \in Nat
  BY <1>1, <1>2, ChampionsAreFinite DEF Champions, ConfigInv, History
<1>6. ASSUME ~past'.stale, past'.rolled # 0 PROVE Rolling'
  <2>1. ~past.stale /\ ~Stale(p)
    BY <1>4, <1>6
  <2>2. /\ sync = row /\ sync'.active = new.active /\ sync'.pending = new.pending
        /\ sync'.rollback = new.rollback
    BY <1>1, <1>2, <2>1, FreshCommit
  <2>3. CASE new.state = "ROLLBACK"
    <3>1. PICK target \in Champions \ {row.active} :
            /\ new.pending = target
            /\ IF row.rollback = None THEN target < row.active ELSE target = row.rollback
      BY <1>1, <2>3 DEF Based
    <3>2. target \in Configs /\ target # None /\ target \in Nat
      BY NoneIsNoConfig DEF Champions
    <3>3. new.active = None
      <4>1. ~Restated(row, new)
        BY <2>3 DEF Restated
      <4>2. PICK other \in Champions : new = RolledBack(row, other)
        BY <1>1, <4>1 DEF Sound
      <4>3. other \in Configs
        BY DEF Champions
      <4> QED BY <1>1, <4>2, <4>3, RolledBackType
    <3> HIDE DEF row, new
    <3>4. sync'.active = None /\ sync'.pending = target
      BY <2>2, <3>1, <3>3
    <3>5. Untried' = Older(target)
      <4>1. Untried' = Older(target)'
        BY <3>2, <3>4 DEF Untried
      <4> QED BY <1>5, <4>1 DEF Older
    <3>6. Cardinality(Older(target)) \in Nat
      BY ChampionsAreFinite DEF Older, ConfigInv
    <3>7. past.rolled + 1 + Cardinality(Older(target)) <= Cardinality(Champions)
      <4>1. CASE past.rolled = 0
        <5>1. Older(target) \subseteq Champions
          BY DEF Older
        <5>2. 1 + Cardinality(Older(target)) <= Cardinality(Champions)
          BY <5>1, OlderAreFewer DEF ConfigInv
        <5> QED BY <1>5, <3>6, <4>1, <5>2
      <4>2. CASE past.rolled # 0
        <5>1. Rolling
          BY <2>1, <4>2 DEF RollbackInv
        <5>2. sync.pending = None /\ sync.rollback = None /\ target < sync.active
          BY <1>3, <2>2, <3>1, <5>1 DEF Rolling
        <5>3. Untried = Older(sync.active)
          BY <5>2 DEF Untried
        <5>4. /\ Older(sync.active) \subseteq Champions /\ target \in Older(sync.active)
              /\ Older(target) \subseteq Older(sync.active)
          BY <5>2, OlderReachDown
        <5>5. 1 + Cardinality(Older(target)) <= Cardinality(Older(sync.active))
          BY <5>4, OlderAreFewer DEF ConfigInv
        <5>6. past.rolled + Cardinality(Older(sync.active)) <= Cardinality(Champions)
          BY <5>1, <5>3 DEF Rolling
        <5>7. Cardinality(Older(sync.active)) \in Nat
          BY <5>4, ChampionsAreFinite DEF ConfigInv
        <5> QED BY <1>5, <3>6, <5>5, <5>6, <5>7
      <4> QED BY <4>1, <4>2
    <3>8. past'.rolled = past.rolled + 1
      BY <1>4, <2>1, <2>3
    <3> QED BY <1>5, <3>2, <3>4, <3>5, <3>7, <3>8 DEF Rolling
  <2>4. CASE new.state # "ROLLBACK"
    <3>1. Restated(row, new)
      <4> SUFFICES ASSUME NEW target \in Champions, new = RolledBack(row, target) PROVE FALSE
        BY <1>1 DEF Sound
      <4>1. target \in Configs
        BY DEF Champions
      <4> QED BY <1>1, <2>4, <4>1, RolledBackType
    <3>2. past'.rolled = past.rolled
      BY <1>4, <2>4
    <3>3. Rolling
      BY <1>6, <2>1, <3>2 DEF RollbackInv
    <3> HIDE DEF row, new
    <3>4. /\ sync'.active = sync.active /\ sync'.pending = sync.pending
          /\ sync'.rollback = sync.rollback
      BY <2>2, <3>1 DEF Restated
    <3>5. Untried' = Untried
      BY <1>5, <3>4 DEF Untried, Older
    <3> QED BY <1>5, <3>2, <3>3, <3>4, <3>5 DEF Rolling
  <2> QED BY <2>3, <2>4
<1>7. /\ past'.rolled \in {past.rolled, past.rolled + 1}
      /\ past'.stale => past'.rolled = past.rolled
  BY <1>4
<1> QED BY <1>2, <1>4, <1>6, <1>7, CommitKeepsCount

LEMMA CountInit == Init => RollbackInv
<1> SUFFICES ASSUME Init PROVE RollbackInv
  OBVIOUS
<1>1. past.rolled = 0 /\ call = [p \in Calls |-> NoCall]
  BY DEF Init
<1>2. Cardinality(Champions) \in Nat
  BY ConfigInit, ChampionsAreFinite DEF ConfigInv
<1>3. \A p \in Calls : Based(call[p], Champions)
  BY <1>1 DEF Based, NoCall
<1> QED BY <1>1, <1>2, <1>3 DEF RollbackInv

LEMMA CountStep == ConfigInv /\ RollbackInv /\ [Next]_vars /\ ConfigInv' => RollbackInv'
<1> SUFFICES ASSUME ConfigInv, RollbackInv, [Next]_vars, ConfigInv' PROVE RollbackInv'
  OBVIOUS
<1>1. CASE (\E run \in Runs : Ingest(run)) \/ (\E c \in Configs : Review(c))
  BY <1>1, StageStepsKeepCount
<1>2. CASE Poll \/ Mismatch \/ Restart \/ \E c \in Configs : ReportOther(c)
  BY <1>2, ExchangeKeepsCount
<1>3. ASSUME NEW p \in Calls,
             Acknowledge(p) \/ \E healthy \in BOOLEAN : ReportRuntime(p, healthy)
      PROVE  RollbackInv'
  BY <1>3, LoadsAreBased
<1>4. ASSUME NEW p \in Calls,
             \/ Evaluate(p) \/ CommitPromotions(p) \/ Reject(p) \/ Fail(p)
             \/ \E i \in DOMAIN promos, decision \in {"tap", "reject"} : Tap(p, i, decision)
             \/ \E c \in Configs : SendCard(p, c) \/ LoadCandidate(p, c)
      PROVE  RollbackInv'
  BY <1>4, CallStepsKeepCount
<1>5. ASSUME NEW p \in Calls,
             Judge(p) \/ \E c \in Configs : Approve(p, c) \/ Activate(p, c)
      PROVE  RollbackInv'
  BY <1>5, JudgeKeepsCount, ApproveKeepsCount, ActivateKeepsCount
<1>6. CASE UNCHANGED vars
  <2>1. Champions' = Champions /\ UNCHANGED <<sync, past, call>>
    BY <1>6 DEF vars, Champions
  <2> QED BY <2>1, RowAndCountStay DEF RollbackInv
<1> QED BY <1>1, <1>2, <1>3, <1>4, <1>5, <1>6 DEF Next, Commit

(***************************************************************************)
(* However many configurations there are, however they fail and whatever   *)
(* is acknowledged, lost or halted between: from one approval to the next  *)
(* no more rollbacks are committed than there are champions, because each  *)
(* leaves fewer champions to fall back to.                                 *)
(***************************************************************************)
THEOREM RollbacksComeToAnEnd == Spec => []RollbacksEnd
<1>1. RollbackInv => RollbacksEnd
  BY DEF RollbackInv, RollbacksEnd
<1>2. Spec => []RollbackInv
  BY CountInit, CountStep, ConfigurationCorrect, PTL DEF Spec
<1> QED BY <1>1, <1>2, PTL
=============================================================================
