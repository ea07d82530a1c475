----------------------------- MODULE QsoOutcome -----------------------------
(***************************************************************************)
(* What the two ends of a contact may make of it.  The caller has the      *)
(* other's report first; the answerer has the caller's once the caller has *)
(* rogered its own.  A contact is logged only when each has the other's    *)
(* report, and an end that has a report never drops the contact without a  *)
(* trace: it logs it or keeps the incomplete exchange for the operator.    *)
(***************************************************************************)
CONSTANTS Caller, Answerer

VARIABLES
    heard,      \* the ends that have the other's report
    result      \* what each end has made of the contact

Ends == {Caller, Answerer}
Other(s) == IF s = Caller THEN Answerer ELSE Caller

OutInit ==
    /\ heard = {}
    /\ result = [s \in Ends |-> "none"]

GetsReport(s) ==
    /\ result[s] = "none"
    /\ s = Answerer => Caller \in heard
    /\ heard' = heard \cup {s}
    /\ UNCHANGED result

Becomes(s, r) ==
    /\ result[s] = "none"
    /\ result' = [result EXCEPT ![s] = r]
    /\ UNCHANGED heard

Log(s) == heard = Ends /\ Becomes(s, "logged")
Keep(s) == s \in heard /\ Becomes(s, "kept")
Drop(s) == s \notin heard /\ Becomes(s, "dropped")

OutNext == \E s \in Ends : GetsReport(s) \/ Log(s) \/ Keep(s) \/ Drop(s)

outVars == <<heard, result>>
OutSpec == OutInit /\ [][OutNext]_outVars

\* A contact one end has logged is in the other's log, or kept there for its operator.
NoContactVanishes ==
    \A s \in Ends : result[s] = "logged" => result[Other(s)] # "dropped"
=============================================================================
