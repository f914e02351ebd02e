-------------------------- MODULE MCSignalDelivery --------------------------
(***************************************************************************)
(* Three casts of SignalDelivery for TLC, chosen by the initial state: two *)
(* workers and a call, a worker and two calls, each about a signal, and a  *)
(* worker and a call about a signal and a trade event.                     *)
(***************************************************************************)
EXTENDS SignalDelivery

CONSTANTS w1, w2, c1, c2

Running == {p \in Processes : proc[p] = Idle}

Casts ==
  \/ Running \in {{w1, w2, c1}, {w1, c1, c2}} /\ \A e \in TradeEvents : Known(e)
  \/ Running = {w1, c1} /\ \A e \in TradeEvents : ~Known(e)

MCInit == Init /\ Casts
MCSpec == MCInit /\ [][Next]_vars
MCFairSpec == MCSpec /\ Fairness
=============================================================================
