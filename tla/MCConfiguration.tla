-------------------------- MODULE MCConfiguration --------------------------
(***************************************************************************)
(* Configurations 1 and 2 are champions from the start; 3 and 4 can earn   *)
(* it.  A behavior is either a race, in which two calls overlap over one   *)
(* promotion request for 3, or a relay, in which 3 and 4 are both promoted *)
(* and calls follow one another: together they would be too many states.   *)
(***************************************************************************)
EXTENDS Configuration, TLC

CONSTANTS first, better, best, leaky, thin, rival

VARIABLE cast

T(i, part, f, a, b) ==
  [id |-> i, part |-> part, fold |-> f, enter |-> a, exit |-> b, resolved |-> TRUE]

\* One fold, one trade on each side, one neighbour.
Sound(score) ==
  [trades |-> {T(1, "train", 1, 1, 1), T(2, "validation", 1, 2, 2),
               T(3, "locked_oos", 0, 4, 4)},
   lockedStart |-> 4, lockedEnd |-> 6, end |-> 6, overlapping |-> {1},
   validationR |-> 20, oosR |-> 20,
   neighbors |-> {[hash |-> 1, near |-> TRUE, same |-> TRUE, trades |-> 1, meanR |-> 19]},
   studies |-> TRUE, scope |-> "ENTRY", scaleOut |-> FALSE, pValue |-> "low",
   score |-> score]

\* A validation trade is still open when the locked window begins.
Leaky == [Sound(70) EXCEPT !.trades =
           {T(1, "train", 1, 1, 1), T(2, "validation", 1, 2, 5), T(3, "locked_oos", 0, 4, 4)}]

\* One neighbour loses.
Thin == [Sound(60) EXCEPT !.neighbors =
          @ \cup {[hash |-> 2, near |-> TRUE, same |-> TRUE, trades |-> 1, meanR |-> -5]}]

ReportOfRun ==
  [r \in Runs |-> CASE r = first -> Sound(40) [] r = better -> Sound(60)
                    [] r = best -> Sound(80) [] r = rival -> Sound(90)
                    [] r = leaky -> Leaky [] r = thin -> Thin]
TestedInRun ==
  [r \in Runs |-> CASE r = first -> 1 [] r = better -> 2 [] r = rival -> 4 [] OTHER -> 3]

MCInit == Init /\ cast \in {"race", "relay"}

InCast ==
  IF cast = "race" THEN stage'[4] = "absent" /\ Len(promos') <= 1
  ELSE /\ Cardinality({p \in Calls : call'[p] # NoCall}) <= 1
       /\ \A i \in DOMAIN evidence'[3] : evidence'[3][i] = best

MCNext == Next /\ InCast /\ cast' = cast

MCSpec == MCInit /\ [][MCNext]_<<vars, cast>>

Symmetry == Permutations(Calls)
=============================================================================
