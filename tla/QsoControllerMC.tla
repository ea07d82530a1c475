--------------------------- MODULE QsoControllerMC ---------------------------
(* Instances of QsoController. *)
EXTENDS QsoController

CONSTANT x

\* What may be heard of a partner: a roger with a report for us, which is progress to whoever
\* answered and none to whoever called, or, as a fox sends it, a closing for us with a report
\* for somebody else.  Either end can log, give up, or keep what it has as incomplete.
Heard == {<< <<Me, "rreport">> >>, << <<Me, "rr73">>, <<x, "report">> >>}
=============================================================================
