------------------------------ MODULE QslQueue ------------------------------
(***************************************************************************)
(* The review queue of QSL emails: lib/qsl/queue.ts, auto.ts, opt-out.ts.  *)
(*                                                                         *)
(* One row per contact.  Two processes work on the rows with no lock       *)
(* between them: the web server, for the operator's requests, and the      *)
(* bridge, whose timer queues, approves and sends by itself.  A request or *)
(* a pass of that timer is a Task, and every statement it runs against the *)
(* database is a step: what it read may be stale when it writes.           *)
(***************************************************************************)
EXTENDS Naturals, FiniteSets

CONSTANTS
    Qso,            \* contacts nobody has a QSL for yet
    Callsign,
    callsignOf,     \* the station each contact was with
    Gateway,        \* contacts whose address is a Winlink or placeholder one
    Task,           \* requests to the web server, and passes of the timer
    Kinds,          \* what tasks may be
    None,           \* no contact, no task
    MaxPerDay, MaxPerRun,   \* qsl.auto.maxPerDay, qsl.auto.maxPerRun
    Approvals,      \* bound: times each row is approved
    Crashes,        \* a process may die
    FailsAt         \* where the database may fail a statement while a row is claimed

\* Between a claim and the end of what the sender does with it.
Claimed == {"reread", "checking", "declining", "smtp", "accepted", "refused", "releasing"}
\* Of those, what runs inside the try of sendApprovedQsls.
InsideTry == {"checking", "declining", "smtp"}

TaskKinds == {"queue", "resend", "send", "auto", "unsubscribe", "gateway"}

ASSUME QslAssumption ==
    /\ IsFiniteSet(Qso)
    /\ callsignOf \in [Qso -> Callsign]
    /\ Gateway \subseteq Qso
    /\ Kinds \subseteq TaskKinds
    /\ None \notin Qso \cup Task
    /\ MaxPerDay \in Nat \ {0} /\ MaxPerRun \in Nat \ {0} /\ Approvals \in Nat \ {0}
    /\ Crashes \in BOOLEAN
    /\ FailsAt \subseteq Claimed

VARIABLES
    row,            \* each contact's row: its status, or none
    claim,          \* the task whose claim a row's `error` holds, or None
    emailQslSent,   \* the contact's own record of having been emailed
    optOuts,        \* callsigns that asked not to be emailed
    pc, kind,       \* where each task has got to, and what it is
    qso,            \* the contact each task is busy with
    todo,           \* contacts each task has still to go through
    budget, queued, \* an automatic pass: how many it may do, how many it has queued
    approvals,      \* times each row has been approved
    used,           \* the approval each task's claim was made under
    mails,          \* messages the mail server has taken, per contact and approval
    cancelled,      \* callsigns whose opt-out has cancelled their rows
    late            \* tasks whose claim was made after that

db == <<row, claim, emailQslSent, optOuts>>
tasks == <<pc, kind, qso, todo, budget, queued>>
ghosts == <<approvals, used, mails, cancelled, late>>
vars == <<db, tasks, ghosts>>

Status == {"none", "PENDING", "APPROVED", "SENT", "SKIPPED", "FAILED"}
Enqueueing == {"optOut", "lookup", "upsert"}
OptingOut == {"record", "cancel"}
AutoPlaces == {"candidates", "queueing", "pending", "approving"}
Sending == {"batch", "sending"} \cup Claimed
Ended == {"done", "dead"}
Places == {"idle", "requeueing"} \cup Enqueueing \cup OptingOut \cup AutoPlaces \cup Sending \cup Ended

TypeOK ==
    /\ row \in [Qso -> Status]
    /\ claim \in [Qso -> Task \cup {None}]
    /\ emailQslSent \in [Qso -> BOOLEAN]
    /\ optOuts \subseteq Callsign
    /\ pc \in [Task -> Places]
    /\ kind \in [Task -> TaskKinds]
    /\ qso \in [Task -> Qso \cup {None}]
    /\ todo \in [Task -> SUBSET Qso]
    /\ budget \in [Task -> 0 .. MaxPerRun]
    /\ queued \in [Task -> 0 .. MaxPerRun]
    /\ approvals \in [Qso -> 0 .. Approvals]
    /\ used \in [Task -> 0 .. Approvals]
    /\ mails \in [Qso -> [1 .. Approvals -> Nat]]
    /\ cancelled \subseteq Callsign
    /\ late \subseteq Task

Init ==
    /\ row = [q \in Qso |-> "none"]
    /\ claim = [q \in Qso |-> None]
    /\ emailQslSent = [q \in Qso |-> FALSE]
    /\ optOuts = {}
    /\ pc = [t \in Task |-> "idle"]
    /\ kind \in [Task -> Kinds]
    /\ qso = [t \in Task |-> None]
    /\ todo = [t \in Task |-> {}]
    /\ budget = [t \in Task |-> 0]
    /\ queued = [t \in Task |-> 0]
    /\ approvals = [q \in Qso |-> 0]
    /\ used = [t \in Task |-> 0]
    /\ mails = [q \in Qso |-> [n \in 1 .. Approvals |-> 0]]
    /\ cancelled = {}
    /\ late = {}

Go(t, place) == pc' = [pc EXCEPT ![t] = place]

Becomes(q, status) ==
    /\ row' = [row EXCEPT ![q] = status]
    /\ claim' = [claim EXCEPT ![q] = None]

---------------------------------------------------------------------------
(* enqueueQsl, for one contact: by request, forced by a resend, or from an *)
(* automatic pass.  The row is looked at, the opt-outs asked and QRZ looked*)
(* up, and then the row is written, whatever it has become.                *)

\* The request's first statement.
First(t, k) == pc[t] = "idle" /\ kind[t] = k

\* The task is through with its contact.
Through(t) == Go(t, IF kind[t] = "auto" THEN "queueing" ELSE "done")

LooksAtRow(t, q) ==
    /\ qso' = [qso EXCEPT ![t] = q]
    /\ IF row[q] \in {"PENDING", "APPROVED", "SENT"} THEN Through(t) ELSE Go(t, "optOut")

Queue(t) ==
    /\ First(t, "queue")
    /\ \E q \in Qso : LooksAtRow(t, q)
    /\ UNCHANGED <<db, kind, todo, budget, queued, ghosts>>

AsksOptOuts(t, q) == IF callsignOf[q] \in optOuts THEN Through(t) ELSE Go(t, "lookup")

Resend(t) ==
    /\ First(t, "resend")
    /\ \E q \in Qso : qso' = [qso EXCEPT ![t] = q] /\ AsksOptOuts(t, q)
    /\ UNCHANGED <<db, kind, todo, budget, queued, ghosts>>

NotQueuedYet(t) ==
    /\ pc[t] = "optOut"
    /\ AsksOptOuts(t, qso[t])
    /\ UNCHANGED <<db, kind, qso, todo, budget, queued, ghosts>>

\* QRZ has no usable address, or an opt-out marker, or an address.
LooksUp(t) ==
    /\ pc[t] = "lookup"
    /\ \/ Through(t)
       \/ Go(t, "record")
       \/ Go(t, "upsert")
    /\ UNCHANGED <<db, kind, qso, todo, budget, queued, ghosts>>

Upserts(t) ==
    /\ pc[t] = "upsert"
    /\ Becomes(qso[t], "PENDING")
    /\ queued' = [queued EXCEPT ![t] = IF kind[t] = "auto" THEN @ + 1 ELSE 0]
    /\ Through(t)
    /\ UNCHANGED <<emailQslSent, optOuts, kind, qso, todo, budget, ghosts>>

---------------------------------------------------------------------------
(* optOut: from the link in a message, or QRZ's marker. *)

RecordsOptOut(t) ==
    /\ \/ First(t, "unsubscribe") /\ \E q \in Qso : qso' = [qso EXCEPT ![t] = q]
       \/ pc[t] = "record" /\ UNCHANGED qso
    /\ optOuts' = optOuts \cup {callsignOf[qso'[t]]}
    /\ Go(t, "cancel")
    /\ UNCHANGED <<row, claim, emailQslSent, kind, todo, budget, queued, ghosts>>

CancelsRows(t) ==
    /\ pc[t] = "cancel"
    /\ row' = [q \in Qso |->
                 IF callsignOf[q] = callsignOf[qso[t]] /\ row[q] \in {"PENDING", "APPROVED"}
                 THEN "SKIPPED" ELSE row[q]]
    /\ cancelled' = cancelled \cup {callsignOf[qso[t]]}
    /\ Through(t)
    /\ UNCHANGED <<claim, emailQslSent, optOuts, kind, qso, todo, budget, queued,
                   approvals, used, mails, late>>

---------------------------------------------------------------------------
(* The operator, a statement at a time, and requeueGatewayAffected. *)

\* approveQsl: only rows that are still pending.
Approved(Rows) ==
    LET P == {q \in Rows : row[q] = "PENDING"} IN
    /\ \A q \in P : approvals[q] < Approvals
    /\ row' = [q \in Qso |-> IF q \in P THEN "APPROVED" ELSE row[q]]
    /\ approvals' = [q \in Qso |-> IF q \in P THEN approvals[q] + 1 ELSE approvals[q]]

Approve(q) ==
    /\ row[q] = "PENDING"
    /\ Approved({q})
    /\ UNCHANGED <<claim, emailQslSent, optOuts, tasks, used, mails, cancelled, late>>

Skip(q) ==
    /\ row[q] \in {"PENDING", "FAILED"}
    /\ row' = [row EXCEPT ![q] = "SKIPPED"]
    /\ UNCHANGED <<claim, emailQslSent, optOuts, tasks, ghosts>>

FindsAffected(t) ==
    /\ First(t, "gateway")
    /\ Go(t, "requeueing")
    /\ todo' = [todo EXCEPT ![t] = {q \in Gateway : row[q] \in {"SENT", "FAILED"}}]
    /\ UNCHANGED <<db, kind, qso, budget, queued, ghosts>>

Requeues(t) ==
    /\ pc[t] = "requeueing"
    /\ \/ /\ todo[t] = {}
          /\ Go(t, "done")
          /\ UNCHANGED <<row, claim, emailQslSent, todo>>
       \/ \E q \in todo[t] :
             /\ Becomes(q, "PENDING")
             /\ emailQslSent' = [emailQslSent EXCEPT ![q] = FALSE]
             /\ todo' = [todo EXCEPT ![t] = @ \ {q}]
             /\ UNCHANGED pc
    /\ UNCHANGED <<optOuts, kind, qso, budget, queued, ghosts>>

---------------------------------------------------------------------------
(* sendApprovedQsls: the Send button, or the end of an automatic pass. *)

\* An automatic pass takes no more than its budget, oldest approval first; here,
\* any of them.
ReadsBatch(t) ==
    /\ First(t, "send") \/ pc[t] = "batch"
    /\ \E B \in SUBSET {q \in Qso : row[q] = "APPROVED"} :
          /\ kind[t] = "auto" => Cardinality(B) <= budget[t]
          /\ todo' = [todo EXCEPT ![t] = B]
    /\ Go(t, "sending")
    /\ UNCHANGED <<db, kind, qso, budget, queued, ghosts>>

\* Fault: the row is taken because the batch had it.
ClaimsUnlooked(t) ==
    /\ pc[t] = "sending"
    /\ \E q \in todo[t] :
          /\ row' = [row EXCEPT ![q] = "SENT"]
          /\ claim' = [claim EXCEPT ![q] = t]
          /\ qso' = [qso EXCEPT ![t] = q]
          /\ todo' = [todo EXCEPT ![t] = @ \ {q}]
          /\ used' = [used EXCEPT ![t] = approvals[q]]
          /\ late' = IF callsignOf[q] \in cancelled THEN late \cup {t} ELSE late \ {t}
    /\ Go(t, "reread")
    /\ UNCHANGED <<emailQslSent, optOuts, kind, budget, queued, approvals, mails, cancelled>>

\* claimForSending: compare and set.
Claims(t) ==
    /\ pc[t] = "sending"
    /\ \E q \in todo[t] :
          /\ row[q] = "APPROVED"
          /\ row' = [row EXCEPT ![q] = "SENT"]
          /\ claim' = [claim EXCEPT ![q] = t]
          /\ qso' = [qso EXCEPT ![t] = q]
          /\ todo' = [todo EXCEPT ![t] = @ \ {q}]
          /\ used' = [used EXCEPT ![t] = approvals[q]]
          /\ late' = IF callsignOf[q] \in cancelled THEN late \cup {t} ELSE late \ {t}
    /\ Go(t, "reread")
    /\ UNCHANGED <<emailQslSent, optOuts, kind, budget, queued, approvals, mails, cancelled>>

\* Somebody else's by now: another sender claimed it, or it was cancelled.
Contended(t) ==
    /\ pc[t] = "sending"
    /\ \E q \in todo[t] :
          /\ row[q] # "APPROVED"
          /\ todo' = [todo EXCEPT ![t] = @ \ {q}]
    /\ UNCHANGED <<db, pc, kind, qso, budget, queued, ghosts>>

SendEnds(t) ==
    /\ pc[t] = "sending" /\ todo[t] = {}
    /\ Go(t, "done")
    /\ UNCHANGED <<db, kind, qso, todo, budget, queued, ghosts>>

Ours(t) == row[qso[t]] = "SENT" /\ claim[qso[t]] = t

\* The claimed row is read again; a row replaced since is no longer this sender's.
RereadsRow(t) ==
    /\ pc[t] = "reread"
    /\ Go(t, IF Ours(t) THEN "checking" ELSE "sending")
    /\ UNCHANGED <<db, kind, qso, todo, budget, queued, ghosts>>

\* Fault: the opt-outs are not asked again after the claim.
ChecksNothing(t) ==
    /\ pc[t] = "checking"
    /\ Go(t, "smtp")
    /\ UNCHANGED <<db, kind, qso, todo, budget, queued, ghosts>>

\* The last look before SMTP.
ChecksOptOut(t) ==
    /\ pc[t] = "checking"
    /\ Go(t, IF callsignOf[qso[t]] \in optOuts THEN "declining" ELSE "smtp")
    /\ UNCHANGED <<db, kind, qso, todo, budget, queued, ghosts>>

\* The server takes the message or not, and the sender is told which.
Delivers(t) ==
    /\ pc[t] = "smtp"
    /\ \/ /\ Go(t, "accepted")
          /\ mails' = [mails EXCEPT ![qso[t]][used[t]] = @ + 1]
       \/ /\ Go(t, "refused")
          /\ UNCHANGED mails
    /\ UNCHANGED <<db, kind, qso, todo, budget, queued, approvals, used, cancelled, late>>

\* Fault: the claim is not compared before the outcome is written.
SettlesUnlooked(t, status) ==
    /\ Becomes(qso[t], status)
    /\ UNCHANGED <<emailQslSent, optOuts>>

\* settleClaim: only while the row is still this sender's claim.
Settles(t, status) ==
    /\ IF Ours(t) THEN Becomes(qso[t], status) ELSE UNCHANGED <<row, claim>>
    /\ UNCHANGED <<emailQslSent, optOuts>>

Declines(t) ==
    /\ pc[t] = "declining"
    /\ Settles(t, "SKIPPED")
    /\ Go(t, "sending")
    /\ UNCHANGED <<kind, qso, todo, budget, queued, ghosts>>

\* Fault: a refused message's claim is left standing.
FailsClaimed(t) ==
    /\ pc[t] \in {"refused", "releasing"}
    /\ Go(t, "sending")
    /\ UNCHANGED <<db, kind, qso, todo, budget, queued, ghosts>>

\* The server refused it, or something threw before the server was reached.
Fails(t) ==
    /\ pc[t] \in {"refused", "releasing"}
    /\ Settles(t, "FAILED")
    /\ Go(t, "sending")
    /\ UNCHANGED <<kind, qso, todo, budget, queued, ghosts>>

\* Fault: the contact is marked only when the row is still this sender's.
RecordsOwn(t) ==
    /\ pc[t] = "accepted"
    /\ claim' = IF Ours(t) THEN [claim EXCEPT ![qso[t]] = None] ELSE claim
    /\ emailQslSent' = [emailQslSent EXCEPT ![qso[t]] = @ \/ Ours(t)]
    /\ Go(t, "sending")
    /\ UNCHANGED <<row, optOuts, kind, qso, todo, budget, queued, ghosts>>

\* One transaction: the claim is cleared if it still stands, and the contact is
\* marked whatever became of the row.
Records(t) ==
    /\ pc[t] = "accepted"
    /\ claim' = IF Ours(t) THEN [claim EXCEPT ![qso[t]] = None] ELSE claim
    /\ emailQslSent' = [emailQslSent EXCEPT ![qso[t]] = TRUE]
    /\ Go(t, "sending")
    /\ UNCHANGED <<row, optOuts, kind, qso, todo, budget, queued, ghosts>>

\* The database fails a statement.  A throw inside the try releases the claim, if
\* the release itself can be written; any other leaves the run.
Throws(t) ==
    /\ pc[t] \in FailsAt
    /\ Go(t, IF pc[t] \in InsideTry THEN "releasing"
             ELSE IF pc[t] = "releasing" THEN "sending"
             ELSE "done")
    /\ UNCHANGED <<db, kind, qso, todo, budget, queued, ghosts>>

---------------------------------------------------------------------------
(* runAutoQsl: one pass of the bridge's timer. *)

SentToday == Cardinality({q \in Qso : row[q] = "SENT"})

Smaller(a, b) == IF a < b THEN a ELSE b

\* Fault: the pass goes on at the ceiling.
AutoBeginsAtCeiling(t) ==
    /\ First(t, "auto")
    /\ budget' = [budget EXCEPT ![t] = MaxPerRun + SentToday]
    /\ Go(t, "candidates")
    /\ UNCHANGED <<db, kind, qso, todo, queued, ghosts>>

\* Every row sent counts against the day's ceiling: the model's day does not end.
AutoBegins(t) ==
    /\ First(t, "auto")
    /\ \/ SentToday >= MaxPerDay /\ Go(t, "done") /\ UNCHANGED budget
       \/ /\ SentToday < MaxPerDay
          /\ Go(t, "candidates")
          /\ budget' = [budget EXCEPT ![t] = Smaller(MaxPerRun, MaxPerDay - SentToday)]
    /\ UNCHANGED <<db, kind, qso, todo, queued, ghosts>>

Candidates == {q \in Qso : ~emailQslSent[q] /\ row[q] \in {"none", "FAILED"}}

\* Those of the age window, which may be any.
FindsCandidates(t) ==
    /\ pc[t] = "candidates"
    /\ \E C \in SUBSET Candidates :
          /\ Cardinality(C) <= 4 * budget[t]
          /\ todo' = [todo EXCEPT ![t] = C]
    /\ Go(t, "queueing")
    /\ UNCHANGED <<db, kind, qso, budget, queued, ghosts>>

QueuesNext(t) ==
    /\ pc[t] = "queueing"
    /\ queued[t] < budget[t]
    /\ \E q \in todo[t] :
          /\ todo' = [todo EXCEPT ![t] = @ \ {q}]
          /\ LooksAtRow(t, q)
    /\ UNCHANGED <<db, kind, budget, queued, ghosts>>

\* The pass ends here unless qsl.auto.approve is on.
QueuedAll(t) ==
    /\ pc[t] = "queueing"
    /\ queued[t] = budget[t] \/ todo[t] = {}
    /\ Go(t, "done") \/ Go(t, "pending")
    /\ UNCHANGED <<db, kind, qso, todo, budget, queued, ghosts>>

\* The oldest pending rows, whoever queued them; here, any.
ReadsPending(t) ==
    /\ pc[t] = "pending"
    /\ \E P \in SUBSET {q \in Qso : row[q] = "PENDING"} :
          /\ Cardinality(P) <= budget[t]
          /\ todo' = [todo EXCEPT ![t] = P]
    /\ Go(t, "approving")
    /\ UNCHANGED <<db, kind, qso, budget, queued, ghosts>>

AutoApproves(t) ==
    /\ pc[t] = "approving"
    /\ Approved(todo[t])
    /\ Go(t, "batch")
    /\ UNCHANGED <<claim, emailQslSent, optOuts, kind, qso, todo, budget, queued,
                   used, mails, cancelled, late>>

---------------------------------------------------------------------------

\* The process dies, and the task with it.
Crash(t) ==
    /\ Crashes
    /\ pc[t] \notin {"idle", "done", "dead"}
    /\ Go(t, "dead")
    /\ UNCHANGED <<db, kind, qso, todo, budget, queued, ghosts>>

Enqueue(t) ==
    \/ Queue(t) \/ Resend(t) \/ NotQueuedYet(t) \/ LooksUp(t) \/ Upserts(t)

OptOut(t) == RecordsOptOut(t) \/ CancelsRows(t)

GatewayRequeue(t) == FindsAffected(t) \/ Requeues(t)

Send(t) ==
    \/ ReadsBatch(t)
    \/ Claims(t) \/ Contended(t) \/ SendEnds(t)
    \/ RereadsRow(t) \/ ChecksOptOut(t) \/ Delivers(t)
    \/ Declines(t) \/ Fails(t) \/ Records(t)

AutoPass(t) ==
    \/ AutoBegins(t) \/ FindsCandidates(t) \/ QueuesNext(t) \/ QueuedAll(t)
    \/ ReadsPending(t) \/ AutoApproves(t)

Next ==
    \/ \E t \in Task : \/ Enqueue(t) \/ OptOut(t) \/ GatewayRequeue(t)
                       \/ Send(t) \/ Throws(t) \/ AutoPass(t) \/ Crash(t)
    \/ \E q \in Qso : Approve(q) \/ Skip(q)

Spec == Init /\ [][Next]_vars
---------------------------------------------------------------------------
(* What is promised. *)

\* The Send button and the timer, two processes, never mail a row twice under
\* one approval, though both read it as approved and though either may die.
MailedOncePerApproval == \A q \in Qso, n \in 1 .. Approvals : mails[q][n] <= 1

\* A row claimed after its station's opt-out cancelled what was queued is not
\* mailed: not though a request that asked the list before queues it again.
OptOutHonoured ==
    [][\A t \in Task : pc[t] = "smtp" /\ pc'[t] = "accepted" => t \notin late]_vars

\* "A SKIPPED row is never overwritten" by a sender: it comes back only as a row
\* to be reviewed.
SkippedStays ==
    [][\A q \in Qso : row[q] = "SKIPPED" => row'[q] \in {"SKIPPED", "PENDING"}]_vars

\* "Only a crash may strand a row.  A throw may not": the sender whose claim a
\* row holds is at work on it, or died.  It holds of what throws inside the try.
OnlyCrashStrands ==
    \A q \in Qso : claim[q] # None =>
        pc[claim[q]] = "dead" \/ (pc[claim[q]] \in Claimed /\ qso[claim[q]] = q)

\* The flag on a contact is "the durable record": a message that was accepted is
\* on it, whatever replaced the row, once its sender has moved on.  (A gateway
\* re-queue clears it, because those messages did not arrive.)
FlagIsDurable ==
    \A q \in Qso \ Gateway :
        (\E n \in 1 .. Approvals : mails[q][n] > 0) =>
            \/ emailQslSent[q]
            \/ \E t \in Task : qso[t] = q /\ pc[t] \in {"accepted", "dead"}

\* "Never email the same contact twice", when nobody asks for it to be sent again.
NeverTwice ==
    \A q \in Qso : \A m, n \in 1 .. Approvals :
        m # n => mails[q][m] = 0 \/ mails[q][n] = 0
=============================================================================
