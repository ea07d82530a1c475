----------------------------- MODULE QslQueueMC -----------------------------
(* Two contacts with one station, and a few tasks. *)
EXTENDS QslQueue, TLC

CONSTANTS q1, q2, k1

oneStation == [q \in Qso |-> k1]

EveryKind == TaskKinds

\* Nobody asks for a message to be sent again.
NoResend == TaskKinds \ {"resend", "gateway", "unsubscribe"}

\* At most two passes of the timer among the tasks.
TwoPassInit ==
    /\ Init
    /\ Cardinality({t \in Task : kind[t] = "auto"}) <= 2

TwoPassSpec == TwoPassInit /\ [][Next]_vars

Symmetry == Permutations(Task)
=============================================================================
