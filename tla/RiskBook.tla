------------------------------ MODULE RiskBook ------------------------------
(***************************************************************************)
(* What the execution ledger promises about risk, without rows, states or  *)
(* messages.  Each request has a reservation in one portfolio's book.      *)
(*                                                                         *)
(* Risk enters a book in two ways: by admission, which respects the        *)
(* ceiling and is closed while a stop modification of the portfolio is     *)
(* unresolved, or by an observation of the broker, which is recorded       *)
(* whatever the ceiling says, because the exposure exists.                 *)
(***************************************************************************)
EXTENDS Integers, FiniteSets, Functions

CONSTANTS
  Portfolios, Requests,
  Risks,     \* sizes of risk, in units of R
  MaxHeat,   \* the ceiling of a portfolio's admitted heat
  None

VARIABLES
  book,     \* the reservation of each request
  backed,   \* the requests a broker identity is known for
  blocked   \* the portfolios with an unresolved stop modification

bookVars == <<book, backed, blocked>>

Entry == [portfolio : Portfolios \cup {None},
          status : {"NONE", "ACTIVE", "RELEASED"}, risk : Risks \cup {0}]

BookTypeOK ==
  /\ book \in [Requests -> Entry]
  /\ backed \subseteq Requests
  /\ blocked \subseteq Portfolios

Init ==
  /\ book = [r \in Requests |->
               [portfolio |-> None, status |-> "NONE", risk |-> 0]]
  /\ backed = {}
  /\ blocked = {}

Held(p) == {r \in Requests : book[r].status = "ACTIVE" /\ book[r].portfolio = p}

Total(S) == SumFunctionOnSet([r \in Requests |-> book[r].risk], S)

Admit(p, r, k) ==
  /\ book[r].status = "NONE"
  /\ p \notin blocked
  /\ Total(Held(p)) + k <= MaxHeat
  /\ book' = [book EXCEPT
       ![r] = [portfolio |-> p, status |-> "ACTIVE", risk |-> k]]
  /\ UNCHANGED <<backed, blocked>>

\* The broker shows an order or a position of the request.
Observe(p, r, k) ==
  /\ book[r].status = "NONE" \/ book[r].portfolio = p
  /\ book' = [book EXCEPT
       ![r] = [portfolio |-> p, status |-> "ACTIVE", risk |-> k]]
  /\ backed' = backed \cup {r}
  /\ blocked' \subseteq blocked

\* A report names a broker identity of the request.
Identify(r) ==
  /\ book[r].status # "NONE"
  /\ backed' = backed \cup {r}
  /\ blocked' \subseteq blocked
  /\ UNCHANGED book

Reduce(r, k) ==
  /\ book[r].status = "ACTIVE"
  /\ k <= book[r].risk
  /\ book' = [book EXCEPT ![r].risk = k]
  /\ blocked' \subseteq blocked
  /\ UNCHANGED backed

Release(r) ==
  /\ book[r].status = "ACTIVE"
  /\ book' = [book EXCEPT ![r].status = "RELEASED"]
  /\ backed' \in {backed, backed \cup {r}}
  /\ blocked' \subseteq blocked

\* The intent of a stop modification is written, or resolved without a change
\* to any reservation.
MarkUnresolved(p) ==
  /\ blocked' = blocked \cup {p}
  /\ UNCHANGED <<book, backed>>

MarkResolved(p) ==
  /\ blocked' = blocked \ {p}
  /\ UNCHANGED <<book, backed>>

Next ==
  \/ \E p \in Portfolios, r \in Requests, k \in Risks : Admit(p, r, k)
  \/ \E p \in Portfolios, r \in Requests, k \in Risks \cup {0} : Observe(p, r, k)
  \/ \E r \in Requests : Identify(r)
  \/ \E r \in Requests, k \in Risks \cup {0} : Reduce(r, k)
  \/ \E r \in Requests : Release(r)
  \/ \E p \in Portfolios : MarkUnresolved(p) \/ MarkResolved(p)

Spec == Init /\ [][Next]_bookVars

-----------------------------------------------------------------------------

\* The heat of a portfolio that no broker identity backs never exceeds the
\* ceiling: what takes a book over it is exposure the broker already shows.
UnbackedHeatBounded ==
  \A p \in Portfolios :
    Total({r \in Held(p) : r \notin backed}) <= MaxHeat

=============================================================================
