------------------------ MODULE SignalDeliveryProofs ------------------------
(***************************************************************************)
(* What SignalDelivery promises of the rows, the outbox and the chat, for  *)
(* any signals, trade events, workers and calls.  A process keeps what it  *)
(* read while others write, so the inductive invariant says of each        *)
(* process what stays true of the item it works on (Sound), next to what   *)
(* is true of every item (ItemInv).                                        *)
(***************************************************************************)
EXTENDS SignalDelivery, SequenceTheorems, TLAPS

Rows == [status : SignalStatus \cup {"none"}, parity : ParityStatus \cup {"none"},
         message : Nat, lifecycle : SignalLifecycleStatus]

Entries == [status : {"none", "pending", "processing", "sent", "failed"},
            attempts : 0..MAX_ATTEMPTS, due : BOOLEAN]

Messages == Seq(SignalLifecycleStatus)

\* What process p, in state a, relies on: entries box and chat log.
Sound(p, a, box, log) ==
  /\ a.pc = "admit" =>
       a.item \in Signals /\ a.note \in ParityStatus /\ ~Refused(a.note)
  /\ a.pc = "claim" => a.item \in Signals
  /\ a.pc \in {"claim", "send", "record"} =>
       /\ a.item \in Items
       /\ a.item \in Signals => box[a.item].status # "none"
       /\ p \in Workers => a.item \in Signals
       /\ a.note = "event" => a.item \in TradeEvents
  /\ a.pc \in {"record", "edit", "mark"} => a.message \in 1..Len(log[a.item])
  /\ a.pc \in {"edit", "mark"} =>
       a.item \in Signals /\ a.note \in SignalLifecycleStatus
  /\ a.pc = "retry" => a.note = "retry"
  /\ \A i \in a.todo : i \in Signals => box[i].status # "none"

WorkInv == \A p \in Processes : Sound(p, proc[p], outbox, chat)

ItemInv(i) ==
  /\ row[i].message <= Len(chat[i])
  /\ row[i].status = "active" => row[i].message # 0 \/ (i \in Signals /\ ~Queued(i))
  /\ i \in Signals =>
       /\ ~Queued(i) => chat[i] = <<>>
       /\ Refused(row[i].parity) =>
            row[i].status = "permanently_failed" /\ ~Queued(i)
       /\ row[i].status \in {"pending", "failed"} => Queued(i)
       /\ Queued(i) => row[i].status \in {"pending", "active", "permanently_failed"}
       /\ outbox[i].status = "sent" /\ row[i].status # "permanently_failed" =>
            row[i].status = "active"

DeliveryInv == TypeOK /\ WorkInv /\ \A i \in Items : ItemInv(i)

(***************************************************************************)
(* Shapes                                                                  *)
(***************************************************************************)

LEMMA Typed ==
  TypeOK <=> /\ row \in [Items -> Rows] /\ outbox \in [Signals -> Entries]
             /\ chat \in [Items -> Messages] /\ paused \in BOOLEAN
             /\ proc \in [Processes -> ProcType]
BY DEF TypeOK, Rows, Entries, Messages

LEMMA IdleSound ==
  /\ Idle \in ProcType /\ Gone \in ProcType
  /\ \A p, box, log : Sound(p, Idle, box, log) /\ Sound(p, Gone, box, log)
<1>1. Idle \in ProcType /\ Gone \in ProcType
  BY DeliveryAssumption DEF Idle, Gone, ProcType
<1>2. ASSUME NEW p, NEW box, NEW log
      PROVE  Sound(p, Idle, box, log) /\ Sound(p, Gone, box, log)
  BY DEF Idle, Gone, Sound
<1> QED BY <1>1, <1>2

\* Entries are never removed and the chat only grows.
Grows ==
  /\ \A s \in Signals : outbox[s].status # "none" => outbox'[s].status # "none"
  /\ \A i \in Items : Len(chat'[i]) >= Len(chat[i])

LEMMA SoundStays ==
  ASSUME TypeOK, TypeOK', Grows, NEW p, NEW a \in ProcType, Sound(p, a, outbox, chat)
  PROVE  Sound(p, a, outbox', chat')
<1>1. \A i \in Items : Len(chat[i]) \in Nat /\ Len(chat'[i]) \in Nat
  BY LenProperties, Typed DEF Messages, TypeOK
<1>2. Signals \subseteq Items
  BY DEF Items
<1>3. a.pc \in {"record", "edit", "mark"} => a.item \in Items
  BY <1>2 DEF Sound
<1>4. a.pc \in {"record", "edit", "mark"} => a.message \in 1..Len(chat'[a.item])
  BY <1>1, <1>3 DEF Sound, Grows, ProcType
<1> QED BY <1>4 DEF Sound, Grows

(***************************************************************************)
(* A step of process p about one item i: other items and other processes   *)
(* keep what they rely on.                                                 *)
(***************************************************************************)
LEMMA OneItem ==
  ASSUME DeliveryInv, NEW i \in Items, NEW p \in Processes, NEW what \in ProcType,
         Become(p, what), TypeOK',
         \A j \in Items \ {i} : row'[j] = row[j] /\ chat'[j] = chat[j],
         \A s \in Signals \ {i} : outbox'[s] = outbox[s],
         i \in Signals => (Queued(i) => Queued(i)'),
         Len(chat'[i]) >= Len(chat[i]),
         ItemInv(i)', Sound(p, what, outbox', chat')
  PROVE  DeliveryInv'
<1>1. Grows
  <2>1. \A j \in Items : Len(chat[j]) \in Nat
    BY LenProperties, Typed DEF DeliveryInv, Messages
  <2> QED BY <2>1 DEF Grows, Queued
<1>2. WorkInv'
  <2> SUFFICES ASSUME NEW q \in Processes
               PROVE  Sound(q, proc'[q], outbox', chat')
    BY DEF WorkInv
  <2>1. CASE q = p
    BY <2>1, Typed DEF Become, DeliveryInv
  <2>2. CASE q # p
    <3>1. proc'[q] = proc[q] /\ proc[q] \in ProcType
      BY <2>2, Typed DEF Become, DeliveryInv
    <3> QED BY <1>1, <3>1, SoundStays DEF DeliveryInv, WorkInv
  <2> QED BY <2>1, <2>2
<1>3. ASSUME NEW j \in Items
      PROVE  ItemInv(j)'
  <2>1. CASE j # i
    <3>1. row'[j] = row[j] /\ chat'[j] = chat[j]
          /\ (j \in Signals => outbox'[j] = outbox[j])
      BY <2>1
    <3> QED BY <3>1 DEF ItemInv, DeliveryInv, Queued
  <2> QED BY <2>1
<1> QED BY <1>2, <1>3 DEF DeliveryInv

\* A step of process p that writes nothing.
LEMMA NoItemWritten ==
  ASSUME DeliveryInv, NEW p \in Processes, NEW what \in ProcType, Become(p, what),
         UNCHANGED <<row, outbox, chat, paused>>, Sound(p, what, outbox, chat)
  PROVE  DeliveryInv'
<1>1. TypeOK'
  BY Typed DEF DeliveryInv, TypeOK, Become
<1>2. WorkInv'
  BY Typed DEF DeliveryInv, WorkInv, Become
<1>3. \A i \in Items : ItemInv(i)'
  BY DEF DeliveryInv, ItemInv, Queued
<1> QED BY <1>1, <1>2, <1>3 DEF DeliveryInv

(***************************************************************************)
(* Admission                                                               *)
(***************************************************************************)

LEMMA InitInv == Init => DeliveryInv
<1> SUFFICES ASSUME Init PROVE DeliveryInv
  OBVIOUS
<1>1. PICK old \in SUBSET TradeEvents :
        /\ row = [i \in Items |-> IF i \in old THEN Earlier ELSE NoRow]
        /\ chat = [i \in Items |-> IF i \in old THEN <<"valid">> ELSE <<>>]
  BY DEF Init
<1>2. <<"valid">> \in Messages /\ <<>> \in Messages
      /\ Len(<<"valid">>) = 1 /\ Len(<<>>) = 0
  BY DEF Messages, SignalLifecycleStatus
<1>3. Earlier \in Rows /\ NoRow \in Rows /\ Earlier.message = 1
      /\ Earlier.status = "active" /\ NoRow.status = "none" /\ NoRow.message = 0
      /\ NoRow.parity = "none"
  BY DEF Earlier, NoRow, Rows, SignalStatus, ParityStatus, SignalLifecycleStatus
<1>4. NoEntry \in Entries /\ NoEntry.status = "none"
  BY DeliveryAssumption DEF NoEntry, Entries
<1>5. TypeOK
  <2>1. proc \in [Processes -> ProcType] /\ paused \in BOOLEAN
    BY IdleSound DEF Init
  <2>2. chat \in [Items -> Messages]
    BY <1>1, <1>2
  <2>3. row \in [Items -> Rows] /\ outbox \in [Signals -> Entries]
    BY <1>1, <1>3, <1>4 DEF Init
  <2> QED BY <2>1, <2>2, <2>3, Typed
<1>6. WorkInv
  BY IdleSound DEF Init, WorkInv
<1>7. ASSUME NEW i \in Items
      PROVE  ItemInv(i)
  <2>1. CASE i \in old
    <3>1. i \notin Signals /\ row[i] = Earlier /\ chat[i] = <<"valid">>
      BY <1>1, <2>1, DeliveryAssumption
    <3> QED BY <1>2, <1>3, <3>1 DEF ItemInv
  <2>2. CASE i \notin old
    <3>1. row[i] = NoRow /\ chat[i] = <<>> /\ (i \in Signals => ~Queued(i))
      BY <1>1, <1>4, <2>2 DEF Init, Queued
    <3>2. ~Refused("none")
      BY DEF Refused
    <3> QED BY <1>2, <1>3, <1>4, <3>1, <3>2 DEF ItemInv, Init
  <2> QED BY <2>1, <2>2
<1> QED BY <1>5, <1>6, <1>7 DEF DeliveryInv

LEMMA RefuseSignalInv ==
  ASSUME DeliveryInv, NEW s \in Signals, NEW parity \in ParityStatus,
         RefuseSignal(s, parity)
  PROVE  DeliveryInv'
<1>1. s \in Items
  BY DEF Items
<1>2. /\ row' = [row EXCEPT ![s].status = "permanently_failed", ![s].parity = parity]
      /\ UNCHANGED <<outbox, chat, paused, proc>> /\ row[s].status = "none"
  BY DEF RefuseSignal, Known
<1>3. /\ row[s] \in Rows
      /\ row'[s] = [row[s] EXCEPT !.status = "permanently_failed", !.parity = parity]
      /\ \A j \in Items \ {s} : row'[j] = row[j]
  BY <1>1, <1>2, Typed DEF DeliveryInv
<1>4. row'[s] \in Rows
  BY <1>3 DEF Rows, SignalStatus
<1>5. TypeOK'
  BY <1>2, <1>4, Typed DEF DeliveryInv, TypeOK, Rows
<1>6. WorkInv'
  BY <1>2 DEF DeliveryInv, WorkInv
<1>7. ~Queued(s)
  BY <1>1, <1>2 DEF DeliveryInv, ItemInv
<1>8. ASSUME NEW i \in Items
      PROVE  ItemInv(i)'
  <2>1. CASE i = s
    <3>1. /\ row'[s].status = "permanently_failed"
          /\ row'[s].message = row[s].message
      BY <1>3 DEF Rows
    <3>2. ItemInv(s) /\ chat' = chat /\ outbox'[s].status = "none"
      BY <1>1, <1>2, <1>7 DEF DeliveryInv, Queued
    <3>3. ItemInv(s)'
      BY <1>7, <3>1, <3>2 DEF ItemInv, Queued
    <3> QED BY <2>1, <3>3
  <2>2. CASE i # s
    <3>1. row'[i] = row[i] /\ chat'[i] = chat[i] /\ outbox' = outbox
      BY <1>2, <1>3, <2>2
    <3> QED BY <3>1 DEF ItemInv, DeliveryInv, Queued
  <2> QED BY <2>1, <2>2
<1> QED BY <1>5, <1>6, <1>8 DEF DeliveryInv

LEMMA ReadControlsInv ==
  ASSUME DeliveryInv, NEW c \in Calls, NEW s \in Signals,
         NEW parity \in ParityStatus, ReadControls(c, s, parity)
  PROVE  DeliveryInv'
<1>1. PICK muted \in BOOLEAN :
        Become(c, [Idle EXCEPT !.pc = "admit", !.item = s, !.note = parity,
                     !.seen = IF paused \/ muted THEN "quiet" ELSE "none"])
  BY DEF ReadControls
<1> DEFINE what == [Idle EXCEPT !.pc = "admit", !.item = s, !.note = parity,
                      !.seen = IF paused \/ muted THEN "quiet" ELSE "none"]
<1>2. what \in ProcType
  BY IdleSound DEF ProcType, Items
<1>3. what.pc = "admit" /\ what.item = s /\ what.note = parity /\ what.todo = {}
  BY DEF Idle
<1>4. Sound(c, what, outbox, chat)
  BY <1>3 DEF Sound, ReadControls
<1>5. Become(c, what)
  BY <1>1
<1> HIDE DEF what
<1> QED BY <1>2, <1>4, <1>5, NoItemWritten DEF ReadControls, Processes

\* A signal that is stored already stays as it is.
LEMMA AdmitSignalInv ==
  ASSUME DeliveryInv, NEW c \in Calls, AdmitSignal(c)
  PROVE  DeliveryInv'
<1>1. c \in Processes /\ Become(c, Idle) /\ proc[c].pc = "admit"
  BY DEF AdmitSignal, Processes
<1>2. PICK s \in Signals, n \in ParityStatus :
        s = proc[c].item /\ s \in Items /\ n = proc[c].note /\ ~Refused(n)
  BY <1>1 DEF DeliveryInv, WorkInv, Sound, Items
<1>3. CASE Known(s)
  BY <1>1, <1>2, <1>3, IdleSound, NoItemWritten DEF AdmitSignal
<1>4. CASE ~Known(s)
  <2> DEFINE t == IF proc[c].seen = "quiet" THEN "active" ELSE "pending"
             e == IF proc[c].seen = "quiet" THEN outbox[s]
                  ELSE [status |-> "pending", attempts |-> 0, due |-> TRUE]
  <2>1. /\ row' = [row EXCEPT ![s].status = t, ![s].parity = n]
        /\ outbox' = [outbox EXCEPT ![s] = e]
        /\ UNCHANGED <<chat, paused>>
    BY <1>2, <1>4, Typed DEF AdmitSignal, DeliveryInv
  <2>2. row[s] \in Rows /\ row'[s] = [row[s] EXCEPT !.status = t, !.parity = n]
    BY <1>2, <2>1, Typed DEF DeliveryInv
  <2>3. row'[s] \in Rows /\ row'[s].status = t /\ row'[s].parity = n
        /\ row'[s].message = row[s].message
    BY <1>2, <2>2 DEF Rows, SignalStatus
  <2>4. outbox[s] \in Entries /\ e \in Entries
    BY <1>2, DeliveryAssumption, Typed DEF DeliveryInv, Entries
  <2>5. /\ row' \in [Items -> Rows] /\ outbox' \in [Signals -> Entries]
        /\ proc' \in [Processes -> ProcType]
    BY <1>1, <1>2, <2>1, <2>3, <2>4, IdleSound, Typed DEF DeliveryInv, Become, Rows
  <2>6. TypeOK'
    BY <2>1, <2>5, Typed DEF DeliveryInv, TypeOK, Rows, Entries
  <2>7. /\ ~Queued(s) /\ chat[s] = <<>> /\ outbox'[s] = e /\ chat' = chat
        /\ row[s].message <= Len(chat[s])
    BY <1>2, <1>4, <2>1, Typed DEF DeliveryInv, ItemInv, Known, Queued
  <2>8. ItemInv(s)'
    <3>1. CASE proc[c].seen = "quiet"
      <4>1. t = "active" /\ e = outbox[s] /\ ~Queued(s)'
        BY <2>7, <3>1 DEF Queued
      <4> QED BY <1>2, <2>3, <2>7, <4>1 DEF ItemInv, Queued
    <3>2. CASE proc[c].seen # "quiet"
      <4>1. t = "pending" /\ e.status = "pending" /\ Queued(s)'
        BY <2>7, <3>2 DEF Queued
      <4> QED BY <1>2, <2>3, <2>7, <4>1 DEF ItemInv
    <3> QED BY <3>1, <3>2
  <2>9. /\ \A j \in Items \ {s} : row'[j] = row[j] /\ chat'[j] = chat[j]
        /\ \A q \in Signals \ {s} : outbox'[q] = outbox[q]
        /\ Len(chat'[s]) >= Len(chat[s])
    BY <1>2, <2>1, <2>7, Typed, LenProperties DEF DeliveryInv
  <2> HIDE DEF t, e
  <2> QED BY <1>1, <1>2, <2>6, <2>7, <2>8, <2>9, IdleSound, OneItem
<1> QED BY <1>3, <1>4

LEMMA ReceiveTradeEventInv ==
  ASSUME DeliveryInv, NEW c \in Calls, NEW e \in TradeEvents,
         ReceiveTradeEvent(c, e)
  PROVE  DeliveryInv'
<1> DEFINE what == [Idle EXCEPT !.pc = "send", !.item = e, !.note = "event"]
<1>1. c \in Processes /\ e \in Items /\ e \notin Signals /\ c \notin Workers
  BY DeliveryAssumption DEF Processes, Items
<1>2. /\ Become(c, what) /\ row' = [row EXCEPT ![e].status = "pending"]
      /\ UNCHANGED <<outbox, chat, paused>>
  BY DEF ReceiveTradeEvent
<1>3. what \in ProcType /\ what.pc = "send" /\ what.item = e /\ what.note = "event"
      /\ what.todo = {}
  BY <1>1, IdleSound DEF ProcType, Idle
<1>4. Sound(c, what, outbox', chat')
  BY <1>1, <1>3 DEF Sound
<1> HIDE DEF what
<1>5. /\ row[e] \in Rows /\ row'[e] = [row[e] EXCEPT !.status = "pending"]
      /\ \A j \in Items \ {e} : row'[j] = row[j] /\ chat'[j] = chat[j]
  BY <1>1, <1>2, Typed DEF DeliveryInv
<1>6. row'[e] \in Rows /\ row'[e].status = "pending" /\ row'[e].message = row[e].message
  BY <1>5 DEF Rows, SignalStatus
<1>7. TypeOK'
  <2>1. proc' \in [Processes -> ProcType]
    BY <1>1, <1>2, <1>3, Typed DEF DeliveryInv, Become
  <2> QED BY <1>2, <1>6, <2>1, Typed DEF DeliveryInv, TypeOK, Rows
<1>8. ItemInv(e)'
  BY <1>1, <1>2, <1>6 DEF DeliveryInv, ItemInv
<1>9. Len(chat'[e]) >= Len(chat[e])
  BY <1>1, <1>2, Typed, LenProperties DEF DeliveryInv, Messages
<1> QED BY <1>1, <1>2, <1>3, <1>4, <1>5, <1>7, <1>8, <1>9, OneItem

(***************************************************************************)
(* Sending                                                                 *)
(***************************************************************************)

\* A message posted about an item some process is sending.
LEMMA PostedInv ==
  ASSUME DeliveryInv, NEW p \in Processes, NEW i \in Items, NEW what \in ProcType,
         proc[p].pc = "send", proc[p].item = i, Become(p, what),
         chat' = [chat EXCEPT ![i] = Append(@, "valid")],
         UNCHANGED <<row, outbox, paused>>,
         Sound(p, what, outbox', chat')
  PROVE  DeliveryInv'
<1>1. /\ chat[i] \in Messages /\ "valid" \in SignalLifecycleStatus
      /\ Signals \subseteq Items
  BY Typed DEF DeliveryInv, SignalLifecycleStatus, Items
<1>2. /\ Append(chat[i], "valid") \in Messages
      /\ Len(Append(chat[i], "valid")) = Len(chat[i]) + 1
      /\ Len(chat[i]) \in Nat
  BY <1>1, AppendProperties, LenProperties DEF Messages
<1>3. /\ chat' \in [Items -> Messages] /\ chat'[i] = Append(chat[i], "valid")
      /\ \A j \in Items \ {i} : chat'[j] = chat[j]
  BY <1>1, <1>2, Typed DEF DeliveryInv
<1>4. proc' \in [Processes -> ProcType]
  BY Typed DEF DeliveryInv, Become
<1>5. TypeOK'
  BY <1>3, <1>4, Typed DEF DeliveryInv, TypeOK, Messages
<1>6. i \in Signals => Queued(i)
  BY DEF DeliveryInv, WorkInv, Sound, Queued
<1>7. row[i].message \in Nat
  BY Typed DEF DeliveryInv, Rows
<1>8. ItemInv(i)'
  <2>1. ItemInv(i) /\ Len(chat'[i]) = Len(chat[i]) + 1
    BY <1>2, <1>3 DEF DeliveryInv
  <2> QED BY <1>2, <1>6, <1>7, <2>1 DEF ItemInv, Queued
<1>9. Len(chat'[i]) >= Len(chat[i])
  BY <1>2, <1>3
<1>10. i \in Signals => (Queued(i) => Queued(i)')
  BY DEF Queued
<1> QED BY <1>3, <1>5, <1>8, <1>9, <1>10, OneItem

LEMMA SendInv ==
  ASSUME DeliveryInv, NEW p \in Processes, Send(p) \/ LoseAnswer(p)
  PROVE  DeliveryInv'
<1>1. proc[p] \in ProcType /\ Sound(p, proc[p], outbox, chat) /\ proc[p].pc = "send"
  BY Typed DEF DeliveryInv, WorkInv, Send, LoseAnswer
<1>2. PICK i \in Items : i = proc[p].item
  BY <1>1 DEF Sound
<1>3. /\ chat' = [chat EXCEPT ![i] = Append(@, "valid")]
      /\ UNCHANGED <<row, outbox, paused>>
  BY <1>2 DEF Send, LoseAnswer
<1>4. /\ chat'[i] = Append(chat[i], "valid")
      /\ Len(chat'[i]) = Len(chat[i]) + 1 /\ Len(chat[i]) \in Nat
  <2>1. chat[i] \in Messages /\ "valid" \in SignalLifecycleStatus
    BY Typed DEF DeliveryInv, SignalLifecycleStatus
  <2> QED BY <1>3, <2>1, Typed, AppendProperties, LenProperties DEF DeliveryInv, Messages
<1>5. CASE Send(p)
  <2> DEFINE m == Len(chat[i]) + 1
             what == [proc[p] EXCEPT !.pc = "record", !.message = m]
  <2>1. Become(p, what) /\ m \in 1..Len(chat'[i]) /\ m \in Nat
    BY <1>2, <1>4, <1>5 DEF Send
  <2> HIDE DEF m
  <2>2. what \in ProcType
    BY <1>1, <2>1 DEF ProcType
  <2>3. /\ what.pc = "record" /\ what.item = i /\ what.message = m
        /\ what.note = proc[p].note /\ what.todo = proc[p].todo
    BY <1>1, <1>2 DEF ProcType
  <2>4. Sound(p, what, outbox', chat')
    BY <1>1, <1>2, <1>3, <2>1, <2>3 DEF Sound
  <2> HIDE DEF what
  <2> QED BY <1>1, <1>2, <1>3, <2>1, <2>2, <2>4, PostedInv
<1>6. CASE LoseAnswer(p)
  <2>1. Become(p, proc[p])
    BY <1>6, Typed DEF LoseAnswer, Become, DeliveryInv
  <2>2. Sound(p, proc[p], outbox', chat')
    BY <1>1, <1>3 DEF Sound
  <2> QED BY <1>1, <1>2, <1>3, <2>1, <2>2, PostedInv
<1> QED BY <1>5, <1>6

\* A row recorded as delivered, by a worker or a call.
LEMMA DeliveredInv ==
  ASSUME DeliveryInv, NEW p \in Processes, NEW i \in Items, NEW what \in ProcType,
         proc[p].pc = "record", proc[p].item = i, Become(p, what),
         row' = [row EXCEPT ![i].status = "active", ![i].message = proc[p].message],
         UNCHANGED <<chat, paused>>, outbox' \in [Signals -> Entries],
         \A s \in Signals \ {i} : outbox'[s] = outbox[s],
         i \in Signals => outbox'[i].status # "none",
         Sound(p, what, outbox', chat')
  PROVE  DeliveryInv'
<1>1. /\ proc[p] \in ProcType /\ Sound(p, proc[p], outbox, chat)
      /\ row[i] \in Rows /\ Signals \subseteq Items /\ Len(chat[i]) \in Nat
  BY Typed, LenProperties DEF DeliveryInv, WorkInv, Items, Messages
<1>2. proc[p].message \in 1..Len(chat[i]) /\ (i \in Signals => Queued(i))
  BY <1>1 DEF Sound, Queued
<1>3. /\ row'[i] = [row[i] EXCEPT !.status = "active", !.message = proc[p].message]
      /\ \A j \in Items \ {i} : row'[j] = row[j]
  BY Typed DEF DeliveryInv
<1>4. /\ row'[i] \in Rows /\ row'[i].status = "active"
      /\ row'[i].message = proc[p].message /\ row'[i].parity = row[i].parity
  <2>1. PICK m \in Nat : m = proc[p].message
    BY <1>1 DEF ProcType
  <2>2. row'[i] = [row[i] EXCEPT !.status = "active", !.message = m]
    BY <1>3, <2>1
  <2>3. \A r \in Rows : LET r1 == [r EXCEPT !.status = "active"]
                            r2 == [r1 EXCEPT !.message = m]
                        IN  /\ r2 \in Rows /\ r2.status = "active"
                            /\ r2.message = m /\ r2.parity = r.parity
    BY DEF Rows, SignalStatus
  <2> QED BY <1>1, <2>1, <2>2, <2>3
<1>5. proc' \in [Processes -> ProcType] /\ row' \in [Items -> Rows]
  BY <1>4, Typed DEF DeliveryInv, Become
<1>6. TypeOK'
  BY <1>5, Typed DEF DeliveryInv, TypeOK, Rows, Entries
<1>7. ItemInv(i)'
  <2>1. ItemInv(i) /\ chat'[i] = chat[i] /\ row'[i].message # 0
        /\ row'[i].message <= Len(chat'[i])
    BY <1>1, <1>2, <1>4 DEF DeliveryInv
  <2> QED BY <1>2, <1>4, <2>1 DEF ItemInv, Queued
<1>8. Len(chat'[i]) >= Len(chat[i]) /\ \A j \in Items \ {i} : chat'[j] = chat[j]
  BY <1>1
<1>9. i \in Signals => (Queued(i) => Queued(i)')
  BY DEF Queued
<1> QED BY <1>3, <1>6, <1>7, <1>8, <1>9, OneItem

\* An entry written by the worker that read it; the row is left alone.  Only
\* RecordSent writes "sent".
LEMMA EntryInv ==
  ASSUME DeliveryInv, NEW w \in Processes, NEW s \in Signals, NEW what \in ProcType,
         NEW e \in Entries, Queued(s), Become(w, what),
         outbox' = [outbox EXCEPT ![s] = e],
         e.status \in {"pending", "processing", "failed"} \/ e.status = outbox[s].status,
         UNCHANGED <<row, chat, paused>>, Sound(w, what, outbox', chat')
  PROVE  DeliveryInv'
<1>1. s \in Items /\ Len(chat[s]) \in Nat
  BY Typed, LenProperties DEF DeliveryInv, Items, Messages
<1>2. /\ outbox' \in [Signals -> Entries] /\ outbox'[s] = e
      /\ \A q \in Signals \ {s} : outbox'[q] = outbox[q]
      /\ proc' \in [Processes -> ProcType]
  BY Typed DEF DeliveryInv, Become
<1>3. TypeOK'
  BY <1>2, Typed DEF DeliveryInv, TypeOK, Entries
<1>4. e.status # "none"
  BY DEF Queued
<1>5. ItemInv(s)'
  <2>1. ItemInv(s) /\ row' = row /\ chat' = chat
    BY <1>1 DEF DeliveryInv
  <2> QED BY <1>2, <1>4, <2>1 DEF ItemInv, Queued
<1>6. /\ Len(chat'[s]) >= Len(chat[s])
      /\ \A j \in Items \ {s} : row'[j] = row[j] /\ chat'[j] = chat[j]
  BY <1>1
<1>7. s \in Signals => (Queued(s) => Queued(s)')
  BY <1>2, <1>4 DEF Queued
<1> QED BY <1>1, <1>2, <1>3, <1>5, <1>6, <1>7, OneItem

LEMMA WorkerInv ==
  ASSUME DeliveryInv, NEW w \in Workers, Work(w)
  PROVE  DeliveryInv'
<1>1. w \in Processes /\ proc[w] \in ProcType /\ Sound(w, proc[w], outbox, chat)
  BY Typed DEF Processes, DeliveryInv, WorkInv
<1>2. CASE ReadEntry(w)
  <2>1. PICK s \in Signals :
          /\ outbox[s].status \in {"pending", "processing"}
          /\ Become(w, [Idle EXCEPT !.pc = "claim", !.item = s, !.note = "worker",
                          !.seen = outbox[s].status, !.attempts = outbox[s].attempts])
    BY <1>2 DEF ReadEntry
  <2> DEFINE what == [Idle EXCEPT !.pc = "claim", !.item = s, !.note = "worker",
                        !.seen = outbox[s].status, !.attempts = outbox[s].attempts]
  <2>2. outbox[s].attempts \in 0..MAX_ATTEMPTS
    BY Typed DEF DeliveryInv, Entries
  <2>3. what \in ProcType /\ what.pc = "claim" /\ what.item = s
        /\ what.note = "worker" /\ what.todo = {}
    BY <2>1, <2>2, IdleSound DEF ProcType, Items, Idle
  <2>4. Sound(w, what, outbox, chat)
    BY <2>1, <2>3 DEF Sound, Items
  <2>5. Become(w, what)
    BY <2>1
  <2> HIDE DEF what
  <2> QED BY <1>1, <1>2, <2>3, <2>4, <2>5, NoItemWritten DEF ReadEntry
<1>3. CASE ClaimEntry(w)
  <2>1. proc[w].pc = "claim"
    BY <1>3 DEF ClaimEntry
  <2>2. PICK s \in Signals : s = proc[w].item /\ Queued(s) /\ proc[w].note # "event"
    BY <1>1, <2>1, DeliveryAssumption DEF Sound, Queued
  <2> DEFINE n == NextAttempt(proc[w].attempts)
             what == [proc[w] EXCEPT !.pc = "send", !.attempts = n]
             e == [outbox[s] EXCEPT !.attempts = n, !.due = FALSE,
                     !.status = IF proc[w].seen = "processing" THEN @ ELSE "processing"]
  <2>3. n \in 0..MAX_ATTEMPTS
    BY <1>1, DeliveryAssumption DEF ProcType, NextAttempt
  <2>4. outbox[s] \in Entries /\ e \in Entries
        /\ (e.status = "processing" \/ e.status = outbox[s].status)
    BY <2>3, Typed DEF DeliveryInv, Entries
  <2>5. Become(w, what) /\ outbox' = [outbox EXCEPT ![s] = e]
        /\ UNCHANGED <<row, chat, paused>>
    BY <1>3, <2>2, Typed DEF ClaimEntry, DeliveryInv
  <2>6. what \in ProcType /\ what.pc = "send" /\ what.item = s
        /\ what.note = proc[w].note /\ what.todo = proc[w].todo
    BY <1>1, <2>2, <2>3 DEF ProcType
  <2>7. \A q \in Signals : outbox[q].status # "none" => outbox'[q].status # "none"
    BY <2>2, <2>4, <2>5, Typed DEF DeliveryInv, Queued
  <2>8. Sound(w, what, outbox', chat')
    BY <1>1, <2>2, <2>6, <2>7 DEF Sound, Items, Queued
  <2> HIDE DEF n, what, e
  <2> QED BY <1>1, <2>2, <2>4, <2>5, <2>6, <2>8, EntryInv
<1>4. CASE Send(w) \/ LoseAnswer(w)
  BY <1>1, <1>4, SendInv
<1>5. ASSUME NEW permanent \in BOOLEAN, FailEntry(w, permanent)
      PROVE  DeliveryInv'
  <2>1. PICK s \in Signals : s = proc[w].item /\ Queued(s)
    BY <1>1, <1>5 DEF FailEntry, Sound, Queued
  <2> DEFINE t == IF permanent \/ proc[w].attempts >= MAX_ATTEMPTS
                  THEN "failed" ELSE "pending"
             e == [outbox[s] EXCEPT !.due = FALSE, !.status = t]
  <2>2. e \in Entries /\ e.status \in {"pending", "failed"}
    BY <2>1, Typed DEF DeliveryInv, Entries
  <2>3. Become(w, Idle) /\ outbox' = [outbox EXCEPT ![s] = e]
        /\ UNCHANGED <<row, chat, paused>>
    BY <1>5, <2>1, Typed DEF FailEntry, DeliveryInv
  <2> HIDE DEF t, e
  <2> QED BY <1>1, <2>1, <2>2, <2>3, IdleSound, EntryInv
<1>6. CASE RecordSent(w)
  <2>1. PICK s \in Signals : s = proc[w].item /\ Queued(s)
    BY <1>1, <1>6 DEF RecordSent, Sound, Queued
  <2>2. /\ Become(w, Idle) /\ outbox' = [outbox EXCEPT ![s].status = "sent"]
        /\ row' = [row EXCEPT ![s].status = "active", ![s].message = proc[w].message]
        /\ UNCHANGED <<chat, paused>> /\ proc[w].pc = "record"
    BY <1>6, <2>1 DEF RecordSent
  <2>3. /\ outbox' \in [Signals -> Entries] /\ outbox'[s].status = "sent"
        /\ \A q \in Signals \ {s} : outbox'[q] = outbox[q]
    BY <2>2, Typed DEF DeliveryInv, Entries
  <2>4. s \in Items
    BY DEF Items
  <2> QED BY <1>1, <2>1, <2>2, <2>3, <2>4, IdleSound, DeliveredInv
<1> QED BY <1>2, <1>3, <1>4, <1>5, <1>6 DEF Work

(***************************************************************************)
(* Calls that resend rows, and lifecycle updates                           *)
(***************************************************************************)

LEMMA BeginRetryInv ==
  ASSUME DeliveryInv, NEW c \in Calls, NEW table \in SUBSET Items,
         BeginRetry(c, table)
  PROVE  DeliveryInv'
<1>1. PICK aged \in SUBSET table, batch \in SUBSET table :
        /\ batch \subseteq Retryable(aged)
        /\ Become(c, [Idle EXCEPT !.pc = "retry", !.note = "retry", !.todo = batch])
  BY DEF BeginRetry
<1> DEFINE what == [Idle EXCEPT !.pc = "retry", !.note = "retry", !.todo = batch]
<1>2. what \in ProcType /\ what.pc = "retry" /\ what.note = "retry"
      /\ what.todo = batch
  BY IdleSound DEF ProcType, Idle
<1>3. \A i \in batch : i \in Signals => outbox[i].status # "none"
  BY <1>1 DEF Retryable, DeliveryInv, ItemInv, Queued
<1>4. Sound(c, what, outbox, chat)
  BY <1>2, <1>3 DEF Sound
<1>5. Become(c, what)
  BY <1>1
<1> HIDE DEF what
<1> QED BY <1>2, <1>4, <1>5, NoItemWritten DEF BeginRetry, Processes

LEMMA RetryNextInv ==
  ASSUME DeliveryInv, NEW c \in Calls, RetryNext(c)
  PROVE  DeliveryInv'
<1>1. /\ c \in Processes /\ c \notin Workers
      /\ proc[c] \in ProcType /\ Sound(c, proc[c], outbox, chat)
  BY Typed, DeliveryAssumption DEF DeliveryInv, WorkInv, Processes
<1>2. PICK i \in proc[c].todo :
        Become(c, [proc[c] EXCEPT !.pc = "send", !.item = i, !.todo = @ \ {i}])
  BY DEF RetryNext
<1>3. i \in Items /\ proc[c].note # "event" => DeliveryInv'
  <2> SUFFICES ASSUME i \in Items, proc[c].note # "event" PROVE DeliveryInv'
    OBVIOUS
  <2> DEFINE what == [proc[c] EXCEPT !.pc = "send", !.item = i, !.todo = @ \ {i}]
  <2>1. what \in ProcType /\ what.pc = "send" /\ what.item = i
        /\ what.note = proc[c].note /\ what.todo = proc[c].todo \ {i}
    BY <1>1 DEF ProcType
  <2>2. Sound(c, what, outbox, chat)
    BY <1>1, <1>2, <2>1 DEF Sound
  <2>3. Become(c, what)
    BY <1>2
  <2> HIDE DEF what
  <2> QED BY <1>1, <2>1, <2>2, <2>3, NoItemWritten DEF RetryNext
<1>4. i \in Items
  BY <1>1, <1>2 DEF ProcType
<1>5. proc[c].note # "event"
  BY <1>1 DEF RetryNext, Sound
<1> QED BY <1>3, <1>4, <1>5

\* What a call becomes after one row of a batch.
LEMMA Continuing ==
  ASSUME DeliveryInv, NEW c \in Calls, Continue(c)
  PROVE  \E what \in ProcType :
           /\ Become(c, what) /\ what.item = NoItem
           /\ \A box, log :
                (\A s \in Signals : outbox[s].status # "none" => box[s].status # "none")
                  => Sound(c, what, box, log)
<1> DEFINE what == IF proc[c].todo = {} THEN Idle
                   ELSE [Idle EXCEPT !.pc = "retry", !.note = "retry",
                                     !.todo = proc[c].todo]
<1>1. proc[c] \in ProcType /\ Sound(c, proc[c], outbox, chat)
  BY Typed DEF DeliveryInv, WorkInv, Processes
<1>2. what \in ProcType /\ what.item = NoItem
  BY <1>1, IdleSound DEF ProcType, Idle
<1>3. /\ what.pc \in {"idle", "retry"} /\ what.todo \subseteq proc[c].todo
      /\ what.pc = "retry" => what.note = "retry"
  BY DEF Idle
<1>4. Become(c, what)
  BY DEF Continue
<1> HIDE DEF what
<1>5. ASSUME NEW box, NEW log,
             \A s \in Signals : outbox[s].status # "none" => box[s].status # "none"
      PROVE  Sound(c, what, box, log)
  BY <1>1, <1>3, <1>5 DEF Sound
<1> QED BY <1>2, <1>4, <1>5

LEMMA FailCallInv ==
  ASSUME DeliveryInv, NEW c \in Calls, NEW permanent \in BOOLEAN,
         FailCall(c, permanent)
  PROVE  DeliveryInv'
<1>1. /\ c \in Processes /\ proc[c] \in ProcType /\ proc[c].pc = "send"
      /\ Sound(c, proc[c], outbox, chat)
  BY Typed DEF DeliveryInv, WorkInv, Processes, FailCall
<1>2. PICK i \in Items : i = proc[c].item
  BY <1>1 DEF Sound
<1>3. PICK what \in ProcType : Become(c, what) /\ Sound(c, what, outbox, chat)
  BY Continuing DEF FailCall
<1> DEFINE t == IF permanent THEN "permanently_failed"
                ELSE IF proc[c].note = "event" THEN "failed" ELSE row[i].status
<1>4. row' = [row EXCEPT ![i].status = t] /\ UNCHANGED <<outbox, chat, paused>>
  BY <1>2, Typed DEF FailCall, DeliveryInv
<1>5. row[i] \in Rows /\ Len(chat[i]) \in Nat
  BY Typed, LenProperties DEF DeliveryInv, Messages
<1>6. /\ t \in SignalStatus \cup {"none"}
      /\ i \in Signals => t \in {"permanently_failed", row[i].status} /\ Queued(i)
      /\ t \in {"permanently_failed", "failed", row[i].status}
  BY <1>1, <1>2, <1>5, DeliveryAssumption DEF Rows, SignalStatus, Sound, Queued
<1> HIDE DEF t
<1>7. row'[i] = [row[i] EXCEPT !.status = t] /\ \A j \in Items \ {i} : row'[j] = row[j]
  BY <1>4, Typed DEF DeliveryInv
<1>8. /\ row'[i] \in Rows /\ row'[i].status = t /\ row'[i].message = row[i].message
      /\ row'[i].parity = row[i].parity
  BY <1>5, <1>6, <1>7 DEF Rows
<1>9. row' \in [Items -> Rows] /\ proc' \in [Processes -> ProcType]
  BY <1>3, <1>4, <1>8, Typed DEF DeliveryInv, Become
<1>10. TypeOK'
  BY <1>4, <1>9, Typed DEF DeliveryInv, TypeOK, Rows
<1>11. ItemInv(i)'
  <2>1. ItemInv(i) /\ chat' = chat /\ outbox' = outbox
    BY <1>4 DEF DeliveryInv
  <2> QED BY <1>6, <1>8, <2>1 DEF ItemInv, Queued
<1>12. /\ Len(chat'[i]) >= Len(chat[i]) /\ \A j \in Items \ {i} : chat'[j] = chat[j]
       /\ \A s \in Signals \ {i} : outbox'[s] = outbox[s]
       /\ Sound(c, what, outbox', chat')
  BY <1>3, <1>4, <1>5
<1>13. i \in Signals => (Queued(i) => Queued(i)')
  BY <1>4 DEF Queued
<1> QED BY <1>1, <1>3, <1>7, <1>10, <1>11, <1>12, <1>13, OneItem

LEMMA RecordCallInv ==
  ASSUME DeliveryInv, NEW c \in Calls, RecordCall(c)
  PROVE  DeliveryInv'
<1>1. /\ c \in Processes /\ proc[c].pc = "record" /\ Sound(c, proc[c], outbox, chat)
  BY DEF DeliveryInv, WorkInv, Processes, RecordCall
<1>2. PICK i \in Items : i = proc[c].item /\ (i \in Signals => outbox[i].status # "none")
  BY <1>1 DEF Sound
<1>3. PICK what \in ProcType : Become(c, what) /\ Sound(c, what, outbox, chat)
  BY Continuing DEF RecordCall
<1>4. /\ row' = [row EXCEPT ![i].status = "active", ![i].message = proc[c].message]
      /\ UNCHANGED <<outbox, chat, paused>>
  BY <1>2 DEF RecordCall
<1>5. /\ outbox' \in [Signals -> Entries]
      /\ \A s \in Signals \ {i} : outbox'[s] = outbox[s]
      /\ i \in Signals => outbox'[i].status # "none"
      /\ Sound(c, what, outbox', chat')
  BY <1>2, <1>3, <1>4, Typed DEF DeliveryInv
<1> QED BY <1>1, <1>2, <1>3, <1>4, <1>5, DeliveredInv

\* A lifecycle state written over a signal's row.
LEMMA LifecycleInv ==
  ASSUME DeliveryInv, NEW s \in Signals, NEW new \in SignalLifecycleStatus,
         NEW what \in ProcType, NEW p \in Processes, Become(p, what),
         row' = [row EXCEPT ![s].lifecycle = new], UNCHANGED <<outbox, chat, paused>>,
         Sound(p, what, outbox, chat)
  PROVE  DeliveryInv'
<1>1. s \in Items /\ row[s] \in Rows /\ Len(chat[s]) \in Nat
  BY Typed, LenProperties DEF DeliveryInv, Messages, Items
<1>2. /\ row'[s] = [row[s] EXCEPT !.lifecycle = new]
      /\ \A j \in Items \ {s} : row'[j] = row[j] /\ chat'[j] = chat[j]
  BY <1>1, Typed DEF DeliveryInv
<1>3. row'[s] \in Rows /\ row'[s].status = row[s].status
      /\ row'[s].message = row[s].message /\ row'[s].parity = row[s].parity
  BY <1>1, <1>2 DEF Rows
<1>4. row' \in [Items -> Rows] /\ proc' \in [Processes -> ProcType]
  BY <1>3, Typed DEF DeliveryInv, Become
<1>5. TypeOK'
  BY <1>4, Typed DEF DeliveryInv, TypeOK, Rows
<1>6. ItemInv(s)'
  <2>1. ItemInv(s) /\ chat' = chat /\ outbox' = outbox
    BY <1>1 DEF DeliveryInv
  <2> QED BY <1>3, <2>1 DEF ItemInv, Queued
<1>7. /\ Len(chat'[s]) >= Len(chat[s]) /\ \A q \in Signals \ {s} : outbox'[q] = outbox[q]
      /\ Sound(p, what, outbox', chat')
  BY <1>1
<1>8. s \in Signals => (Queued(s) => Queued(s)')
  BY DEF Queued
<1> QED BY <1>1, <1>2, <1>5, <1>6, <1>7, <1>8, OneItem

LEMMA UpdateLifecycleInv ==
  ASSUME DeliveryInv, NEW c \in Calls, NEW s \in Signals, NEW new \in Updates,
         UpdateLifecycle(c, s, new)
  PROVE  DeliveryInv'
<1>1. /\ c \in Processes /\ s \in Items /\ row[s] \in Rows /\ Len(chat[s]) \in Nat
      /\ new \in SignalLifecycleStatus /\ proc[c] = Idle
  BY Typed, LenProperties, DeliveryAssumption
     DEF DeliveryInv, Processes, Items, Messages, SignalLifecycleStatus, UpdateLifecycle
<1>2. CASE row[s].message # 0 /\ new # "valid"
  <2> DEFINE what == [Idle EXCEPT !.pc = "edit", !.item = s, !.note = new,
                        !.seen = row[s].lifecycle, !.message = row[s].message]
  <2>1. Become(c, what) /\ UNCHANGED <<row, outbox, chat, paused>>
    BY <1>2 DEF UpdateLifecycle
  <2>2. what \in ProcType
    BY <1>1, IdleSound DEF ProcType, Rows
  <2>3. what.pc = "edit" /\ what.item = s /\ what.note = new
        /\ what.message = row[s].message /\ what.todo = {}
    BY DEF Idle
  <2>4. row[s].message \in 1..Len(chat[s])
    BY <1>1, <1>2 DEF DeliveryInv, ItemInv, Rows
  <2> HIDE DEF what
  <2>5. Sound(c, what, outbox, chat)
    BY <1>1, <2>3, <2>4 DEF Sound
  <2> QED BY <1>1, <2>1, <2>2, <2>5, NoItemWritten
<1>3. CASE ~(row[s].message # 0 /\ new # "valid")
  <2>1. Become(c, Idle) /\ row' = [row EXCEPT ![s].lifecycle = new]
        /\ UNCHANGED <<outbox, chat, paused>>
    BY <1>1, <1>3, Typed DEF UpdateLifecycle, Become, DeliveryInv
  <2> QED BY <1>1, <2>1, IdleSound, LifecycleInv
<1> QED BY <1>2, <1>3

LEMMA EditCardInv ==
  ASSUME DeliveryInv, NEW c \in Calls, EditCard(c)
  PROVE  DeliveryInv'
<1>1. /\ c \in Processes /\ proc[c] \in ProcType /\ proc[c].pc = "edit"
      /\ Sound(c, proc[c], outbox, chat)
  BY Typed DEF DeliveryInv, WorkInv, Processes, EditCard
<1>2. PICK s \in Signals, m \in Nat, note \in SignalLifecycleStatus :
        /\ s = proc[c].item /\ m = proc[c].message /\ note = proc[c].note
        /\ s \in Items /\ m \in 1..Len(chat[s])
  BY <1>1 DEF Sound, ProcType, Items
<1> DEFINE what == [proc[c] EXCEPT !.pc = "mark"]
           log == [chat[s] EXCEPT ![m] = note]
<1>3. /\ chat' = [chat EXCEPT ![s] = log] /\ Become(c, what)
      /\ UNCHANGED <<row, outbox, paused>>
  BY <1>2, Typed DEF EditCard, DeliveryInv
<1>4. chat[s] \in Messages /\ log \in Messages /\ Len(log) = Len(chat[s])
      /\ Len(chat[s]) \in Nat
  BY <1>2, Typed, ExceptSeq, LenProperties DEF DeliveryInv, Messages
<1>5. what \in ProcType /\ what.pc = "mark" /\ what.item = s /\ what.message = m
      /\ what.note = note /\ what.todo = proc[c].todo
  BY <1>1, <1>2 DEF ProcType
<1> HIDE DEF what, log
<1>6. /\ chat'[s] = log /\ chat' \in [Items -> Messages]
      /\ \A j \in Items \ {s} : chat'[j] = chat[j]
      /\ proc' \in [Processes -> ProcType]
  BY <1>2, <1>3, <1>4, <1>5, Typed DEF DeliveryInv, Become
<1>7. TypeOK'
  BY <1>3, <1>6, Typed DEF DeliveryInv, TypeOK, Messages
<1>8. Queued(s) /\ Len(chat'[s]) = Len(chat[s]) /\ Len(chat'[s]) # 0
  <2>1. chat[s] # <<>>
    BY <1>2, <1>4
  <2>2. ItemInv(s)
    BY <1>2 DEF DeliveryInv
  <2> QED BY <1>2, <1>4, <1>6, <2>1, <2>2 DEF ItemInv
<1>9. ItemInv(s)'
  <2>1. ItemInv(s) /\ row' = row /\ outbox' = outbox
    BY <1>2, <1>3 DEF DeliveryInv
  <2> QED BY <1>8, <2>1 DEF ItemInv, Queued
<1>10. Sound(c, what, outbox', chat')
  BY <1>1, <1>2, <1>3, <1>5, <1>8 DEF Sound
<1>11. /\ Len(chat'[s]) >= Len(chat[s])
       /\ \A j \in Items \ {s} : row'[j] = row[j] /\ chat'[j] = chat[j]
       /\ \A q \in Signals \ {s} : outbox'[q] = outbox[q]
  BY <1>3, <1>4, <1>6, <1>8
<1>12. s \in Signals => (Queued(s) => Queued(s)')
  BY <1>3 DEF Queued
<1> QED BY <1>1, <1>2, <1>3, <1>5, <1>7, <1>9, <1>10, <1>11, <1>12, OneItem

LEMMA MarkSignalInv ==
  ASSUME DeliveryInv, NEW c \in Calls, MarkSignal(c)
  PROVE  DeliveryInv'
<1>1. /\ c \in Processes /\ proc[c].pc \in {"edit", "mark"}
      /\ Sound(c, proc[c], outbox, chat)
  BY DEF DeliveryInv, WorkInv, Processes, MarkSignal
<1>2. PICK s \in Signals : s = proc[c].item /\ s \in Items
  BY <1>1 DEF Sound, Items
<1>3. PICK new \in SignalLifecycleStatus :
        new = IF proc[c].note = proc[c].seen THEN row[s].lifecycle ELSE proc[c].note
  BY <1>1, <1>2, Typed DEF Sound, DeliveryInv, Rows
<1>4. /\ row' = [row EXCEPT ![s].lifecycle = new] /\ Become(c, Idle)
      /\ UNCHANGED <<outbox, chat, paused>>
  BY <1>2, <1>3, Typed DEF MarkSignal, DeliveryInv
<1> QED BY <1>1, <1>4, IdleSound, LifecycleInv

(***************************************************************************)
(* The invariant, and what follows from it                                 *)
(***************************************************************************)

LEMMA CallInv ==
  ASSUME DeliveryInv, NEW c \in Calls, Call(c)
  PROVE  DeliveryInv'
<1>1. c \in Processes /\ Signals \in SUBSET Items /\ TradeEvents \in SUBSET Items
  BY DEF Processes, Items
<1>2. ASSUME NEW s \in Signals, NEW parity \in ParityStatus,
             ReadControls(c, s, parity)
      PROVE  DeliveryInv'
  BY <1>2, ReadControlsInv
<1>3. CASE AdmitSignal(c)
  BY <1>3, AdmitSignalInv
<1>4. ASSUME NEW e \in TradeEvents, ReceiveTradeEvent(c, e)
      PROVE  DeliveryInv'
  BY <1>4, ReceiveTradeEventInv
<1>5. CASE BeginRetry(c, Signals) \/ BeginRetry(c, TradeEvents) \/ RetryNext(c)
  BY <1>1, <1>5, BeginRetryInv, RetryNextInv
<1>6. CASE Send(c) \/ LoseAnswer(c)
  BY <1>1, <1>6, SendInv
<1>7. ASSUME NEW permanent \in BOOLEAN, FailCall(c, permanent)
      PROVE  DeliveryInv'
  BY <1>7, FailCallInv
<1>8. CASE RecordCall(c)
  BY <1>8, RecordCallInv
<1>9. ASSUME NEW s \in Signals, NEW new \in Updates, UpdateLifecycle(c, s, new)
      PROVE  DeliveryInv'
  BY <1>9, UpdateLifecycleInv
<1>10. CASE EditCard(c) \/ MarkSignal(c)
  BY <1>10, EditCardInv, MarkSignalInv
<1> QED BY <1>2, <1>3, <1>4, <1>5, <1>6, <1>7, <1>8, <1>9, <1>10 DEF Call

LEMMA LapseInv ==
  ASSUME DeliveryInv, NEW s \in Signals, Lapse(s)
  PROVE  DeliveryInv'
<1>1. /\ outbox' = [outbox EXCEPT ![s].due = TRUE]
      /\ UNCHANGED <<row, chat, paused, proc>>
  BY DEF Lapse
<1>2. outbox[s] \in Entries
  BY Typed DEF DeliveryInv
<1>3. [outbox[s] EXCEPT !.due = TRUE] \in Entries
      /\ [outbox[s] EXCEPT !.due = TRUE].status = outbox[s].status
  BY <1>2 DEF Entries
<1>4. /\ outbox' \in [Signals -> Entries]
      /\ \A q \in Signals : outbox'[q].status = outbox[q].status
  BY <1>1, <1>3, Typed DEF DeliveryInv
<1>5. TypeOK'
  BY <1>1, <1>4, Typed DEF DeliveryInv, TypeOK, Entries
<1>6. WorkInv'
  <2> SUFFICES ASSUME NEW p \in Processes
               PROVE  Sound(p, proc[p], outbox', chat)
    BY <1>1 DEF WorkInv
  <2> QED BY <1>4 DEF DeliveryInv, WorkInv, Sound
<1>7. \A i \in Items : ItemInv(i)'
  BY <1>1, <1>4 DEF DeliveryInv, ItemInv, Queued
<1> QED BY <1>5, <1>6, <1>7 DEF DeliveryInv

LEMMA DeliveryStep ==
  ASSUME DeliveryInv, [Next]_vars
  PROVE  DeliveryInv'
<1>1. ASSUME NEW s \in Signals, NEW parity \in ParityStatus, RefuseSignal(s, parity)
      PROVE  DeliveryInv'
  BY <1>1, RefuseSignalInv
<1>2. ASSUME NEW c \in Calls, Call(c)
      PROVE  DeliveryInv'
  BY <1>2, CallInv
<1>3. ASSUME NEW w \in Workers, Work(w)
      PROVE  DeliveryInv'
  BY <1>3, WorkerInv
<1>4. CASE SetBroadcastPaused
  <2>1. paused' \in BOOLEAN /\ UNCHANGED <<row, outbox, chat, proc>>
    BY <1>4, Typed DEF SetBroadcastPaused, DeliveryInv
  <2> QED BY <2>1 DEF DeliveryInv, TypeOK, WorkInv, ItemInv, Queued
<1>5. ASSUME NEW s \in Signals, Lapse(s)
      PROVE  DeliveryInv'
  BY <1>5, LapseInv
<1>6. ASSUME NEW p \in Processes, Crash(p)
      PROVE  DeliveryInv'
  BY <1>6, IdleSound, NoItemWritten DEF Crash
<1>7. CASE UNCHANGED vars
  BY <1>7 DEF vars, DeliveryInv, TypeOK, WorkInv, ItemInv, Queued
<1> QED BY <1>1, <1>2, <1>3, <1>4, <1>5, <1>6, <1>7 DEF Next

(***************************************************************************)
(* The strengthened invariant of delivery: every item is consistent, and   *)
(* every process works on what is still true of the item it read, however  *)
(* the steps of workers, calls, crashes and lapsed claims interleave.      *)
(***************************************************************************)
THEOREM DeliveryCorrect == Spec => []DeliveryInv
BY InitInv, DeliveryStep, PTL DEF Spec

(***************************************************************************)
(* A decision that was refused at intake, or whose broadcast was           *)
(* suppressed, is never posted, whoever retries, and a refused one never   *)
(* reaches the copy feed.                                                  *)
(***************************************************************************)
THEOREM RefusedStayUnposted == Spec => []OnlyQueuedIsPosted
<1>1. DeliveryInv => OnlyQueuedIsPosted
  BY DEF DeliveryInv, ItemInv, OnlyQueuedIsPosted, CopyFeed, Items
<1> QED BY <1>1, DeliveryCorrect, PTL

(***************************************************************************)
(* A row that says delivered names a message that was posted.              *)
(***************************************************************************)
THEOREM ActiveMeansPosted == Spec => []ActiveWasPosted
<1>1. DeliveryInv => ActiveWasPosted
  BY DEF DeliveryInv, ItemInv, ActiveWasPosted
<1> QED BY <1>1, DeliveryCorrect, PTL

(***************************************************************************)
(* Crashes, lost answers, racing workers and retries lose no accepted      *)
(* signal: it stays pending until it is active or refused for good.        *)
(***************************************************************************)
THEOREM AcceptedIsNeverLost == Spec => []AcceptedIsRecoverable
<1>1. DeliveryInv => AcceptedIsRecoverable
  BY DEF DeliveryInv, ItemInv, AcceptedIsRecoverable, Items
<1> QED BY <1>1, DeliveryCorrect, PTL

(***************************************************************************)
(* A delivered row stops being delivered only when a call that was still   *)
(* sending it, from a row it read earlier, writes its own failure.         *)
(***************************************************************************)
Undone(i) ==
  row[i].status = "active" /\ row'[i].status # "active" =>
    \E c \in Calls : proc[c].pc = "send" /\ proc[c].item = i /\ proc'[c].item # i

LEMMA OtherWritesKeepStatus ==
  ASSUME DeliveryInv, NEW k \in Items, NEW r,
         row' = [row EXCEPT ![k] = r],
         row[k].status = "active" => r.status = "active"
  PROVE  \A i \in Items : Undone(i)
<1> TAKE i \in Items
<1>1. row'[i] = IF i = k THEN r ELSE row[i]
  BY Typed DEF DeliveryInv
<1> QED BY <1>1 DEF Undone

LEMMA FailCallUndoes ==
  ASSUME DeliveryInv, NEW c \in Calls, NEW permanent \in BOOLEAN,
         FailCall(c, permanent)
  PROVE  \A i \in Items : Undone(i)
<1> TAKE i \in Items
<1>1. CASE i = proc[c].item
  <2>1. proc[c].pc = "send"
    BY DEF FailCall
  <2>2. PICK what \in ProcType : Become(c, what) /\ what.item = NoItem
    BY Continuing DEF FailCall
  <2>3. proc'[c].item # i
    BY <2>2, Typed, DeliveryAssumption DEF Become, DeliveryInv, Processes
  <2> QED BY <1>1, <2>1, <2>3 DEF Undone
<1>2. CASE i # proc[c].item
  <2>1. row'[i] = row[i]
    BY <1>2, Typed DEF FailCall, DeliveryInv
  <2> QED BY <2>1 DEF Undone
<1> QED BY <1>1, <1>2

LEMMA CallUndoes ==
  ASSUME DeliveryInv, NEW c \in Calls, Call(c)
  PROVE  \A i \in Items : Undone(i)
<1>1. proc[c] \in ProcType /\ Sound(c, proc[c], outbox, chat) /\ Signals \subseteq Items
      /\ TradeEvents \subseteq Items
  BY Typed DEF DeliveryInv, WorkInv, Processes, Items
<1>2. CASE UNCHANGED row
  BY <1>2 DEF Undone
<1>3. CASE AdmitSignal(c)
  <2>1. PICK s \in Items : s = proc[c].item
    BY <1>1, <1>3 DEF AdmitSignal, Sound
  <2>2. \/ UNCHANGED row
        \/ /\ row[s].status = "none"
           /\ \E t : row' = [row EXCEPT ![s] = t]
    <3>1. CASE Known(s)
      BY <1>3, <2>1, <3>1 DEF AdmitSignal
    <3>2. CASE ~Known(s)
      <4>1. \/ row' = [row EXCEPT ![s].status = "active", ![s].parity = proc[c].note]
            \/ row' = [row EXCEPT ![s].status = "pending", ![s].parity = proc[c].note]
        BY <1>3, <2>1, <3>2 DEF AdmitSignal
      <4> QED BY <3>2, <4>1 DEF Known
    <3> QED BY <3>1, <3>2
  <2> QED BY <1>2, <2>2, OtherWritesKeepStatus
<1>4. ASSUME NEW e \in TradeEvents, ReceiveTradeEvent(c, e)
      PROVE  \A i \in Items : Undone(i)
  <2>1. row[e].status = "none" /\ \E t : row' = [row EXCEPT ![e] = t]
    BY <1>4 DEF ReceiveTradeEvent, Known
  <2> QED BY <1>1, <2>1, OtherWritesKeepStatus
<1>5. CASE RecordCall(c)
  <2>1. PICK i \in Items : i = proc[c].item
    BY <1>1, <1>5 DEF RecordCall, Sound
  <2>2. row[i] \in Rows
    BY Typed DEF DeliveryInv
  <2>3. row' = [row EXCEPT ![i] = [[row[i] EXCEPT !.status = "active"]
                                     EXCEPT !.message = proc[c].message]]
    BY <1>5, <2>1, Typed DEF RecordCall, DeliveryInv
  <2>4. [[row[i] EXCEPT !.status = "active"] EXCEPT !.message = proc[c].message].status
          = "active"
    BY <2>2 DEF Rows
  <2> QED BY <2>3, <2>4, OtherWritesKeepStatus
<1>6. ASSUME NEW s \in Signals, NEW new,
             row' = [row EXCEPT ![s].lifecycle = new]
      PROVE  \A i \in Items : Undone(i)
  <2>1. row[s] \in Rows /\ row' = [row EXCEPT ![s] = [row[s] EXCEPT !.lifecycle = new]]
    BY <1>1, <1>6, Typed DEF DeliveryInv
  <2>2. [row[s] EXCEPT !.lifecycle = new].status = row[s].status
    BY <2>1 DEF Rows
  <2> QED BY <1>1, <2>1, <2>2, OtherWritesKeepStatus
<1>7. ASSUME NEW s \in Signals, NEW new \in Updates, UpdateLifecycle(c, s, new)
      PROVE  \A i \in Items : Undone(i)
  <2>1. UNCHANGED row \/ row' = [row EXCEPT ![s].lifecycle = new]
    BY <1>7 DEF UpdateLifecycle
  <2> QED BY <1>2, <1>6, <2>1
<1>8. CASE MarkSignal(c)
  <2>1. PICK s \in Signals : s = proc[c].item
    BY <1>1, <1>8 DEF MarkSignal, Sound
  <2>2. \E new : row' = [row EXCEPT ![s].lifecycle = new]
    BY <1>8, <2>1 DEF MarkSignal
  <2> QED BY <1>6, <2>2
<1>9. ASSUME NEW permanent \in BOOLEAN, FailCall(c, permanent)
      PROVE  \A i \in Items : Undone(i)
  BY <1>9, FailCallUndoes
<1>10. CASE \/ \E s \in Signals, parity \in ParityStatus : ReadControls(c, s, parity)
            \/ BeginRetry(c, Signals) \/ BeginRetry(c, TradeEvents) \/ RetryNext(c)
            \/ Send(c) \/ LoseAnswer(c) \/ EditCard(c)
  BY <1>2, <1>10 DEF ReadControls, BeginRetry, RetryNext, Send, LoseAnswer, EditCard
<1> QED BY <1>3, <1>4, <1>5, <1>7, <1>8, <1>9, <1>10 DEF Call

(***************************************************************************)
(* No worker, crash or repeated delivery takes an active row back: only a  *)
(* call that read it while it was undelivered and is still sending it may  *)
(* write its own failure over it.                                          *)
(***************************************************************************)
THEOREM DeliveredIsUndoneOnlyByStaleCalls == Spec => DeliveredStays
<1> DEFINE Kept == \A i \in Items : Undone(i)
<1>1. DeliveryInv /\ [Next]_vars => Kept
  <2> SUFFICES ASSUME DeliveryInv, [Next]_vars PROVE Kept
    OBVIOUS
  <2>1. CASE UNCHANGED row
    BY <2>1 DEF Undone
  <2>2. ASSUME NEW s \in Signals, NEW parity \in ParityStatus, RefuseSignal(s, parity)
        PROVE  Kept
    <3>1. row[s].status = "none" /\ \E t : row' = [row EXCEPT ![s] = t]
      BY <2>2 DEF RefuseSignal, Known
    <3> QED BY <3>1, OtherWritesKeepStatus DEF Items
  <2>3. ASSUME NEW c \in Calls, Call(c)
        PROVE  Kept
    BY <2>3, CallUndoes
  <2>4. ASSUME NEW w \in Workers, Work(w)
        PROVE  Kept
    <3>1. CASE RecordSent(w)
      <4>1. w \in Processes
        BY DEF Processes
      <4>2. PICK s \in Items : s = proc[w].item
        BY <3>1, <4>1 DEF RecordSent, DeliveryInv, WorkInv, Sound
      <4>3. row[s] \in Rows
        BY Typed DEF DeliveryInv
      <4>4. row' = [row EXCEPT ![s] = [[row[s] EXCEPT !.status = "active"]
                                         EXCEPT !.message = proc[w].message]]
        BY <3>1, <4>2, Typed DEF RecordSent, DeliveryInv
      <4>5. [[row[s] EXCEPT !.status = "active"] EXCEPT !.message = proc[w].message].status
              = "active"
        BY <4>3 DEF Rows
      <4> QED BY <4>4, <4>5, OtherWritesKeepStatus
    <3>2. CASE ~RecordSent(w)
      <4>1. UNCHANGED row
        BY <2>4, <3>2 DEF Work, ReadEntry, ClaimEntry, Send, LoseAnswer, FailEntry
      <4> QED BY <2>1, <4>1
    <3> QED BY <3>1, <3>2
  <2>5. CASE SetBroadcastPaused \/ (\E s \in Signals : Lapse(s))
               \/ (\E p \in Processes : Crash(p)) \/ UNCHANGED vars
    <3>1. UNCHANGED row
      BY <2>5 DEF SetBroadcastPaused, Lapse, Crash, vars
    <3> QED BY <2>1, <3>1
  <2> HIDE DEF Kept
  <2> QED BY <2>2, <2>3, <2>4, <2>5 DEF Next
<1>2. DeliveryInv /\ [Next]_vars => [Kept]_vars
  BY <1>1
<1>3. Spec => [][Kept]_vars
  BY <1>2, DeliveryCorrect, PTL DEF Spec
<1> QED BY <1>3 DEF DeliveredStays, Undone

=============================================================================
