--------------------------- MODULE QslQueueProofs ---------------------------
(***************************************************************************)
(* Theorems about the QSL queue, for any number of contacts, requests and  *)
(* timer passes: types, one message per approval, no claim stranded but by *)
(* a crash, skipped rows left alone, opt-outs honoured, and every accepted *)
(* message recorded.  Each is proved from an inductive invariant over the  *)
(* types of what a sender and a row know of each other.                    *)
(***************************************************************************)
EXTENDS QslQueue, FiniteSetTheorems, TLAPS

\* A task that is busy with a contact names one.
WithContact == Enqueueing \cup OptingOut \cup Claimed

Types ==
    /\ row \in [Qso -> Status]
    /\ claim \in [Qso -> Task \cup {None}]
    /\ pc \in [Task -> Places]
    /\ qso \in [Task -> Qso \cup {None}]
    /\ todo \in [Task -> SUBSET Qso]
    /\ approvals \in [Qso -> 0 .. Approvals]
    /\ used \in [Task -> 0 .. Approvals]
    /\ mails \in [Qso -> [1 .. Approvals -> Nat]]
    /\ \A t \in Task : pc[t] \in WithContact => qso[t] \in Qso

USE DEF Status, Enqueueing, OptingOut, AutoPlaces, Claimed, InsideTry, Sending, Ended,
        Places, WithContact

LEMMA TypesInit == Init => Types
  BY QslAssumption DEF Init, Types

\* A step of one task that moves it, and leaves rows, claims and counts alone.
LEMMA TaskMoves ==
  ASSUME Types, NEW t \in Task, NEW place \in Places, Go(t, place),
         UNCHANGED <<row, claim, approvals, used, mails>>,
         todo' \in [Task -> SUBSET Qso],
         NEW q \in Qso \cup {None}, qso' = [qso EXCEPT ![t] = q],
         place \in WithContact => q \in Qso
  PROVE  Types'
  BY DEF Types, Go

LEMMA TaskStays ==
  ASSUME Types, NEW t \in Task, NEW place \in Places, Go(t, place),
         UNCHANGED <<row, claim, approvals, used, mails, qso>>,
         todo' \in [Task -> SUBSET Qso],
         place \in WithContact => pc[t] \in WithContact
  PROVE  Types'
  BY DEF Types, Go

LEMMA QueueTypes ==
  ASSUME Types, NEW t \in Task, Enqueue(t)
  PROVE  Types'
<1>1. CASE Queue(t)
  <2>1. PICK q \in Qso : LooksAtRow(t, q)
    BY <1>1 DEF Queue
  <2>2. PICK place \in {"done", "queueing", "optOut"} : Go(t, place)
    BY <2>1 DEF LooksAtRow, Through
  <2>3. qso' = [qso EXCEPT ![t] = q] /\ UNCHANGED <<row, claim, approvals, used, mails, todo>>
    BY <1>1, <2>1 DEF Queue, LooksAtRow, db, ghosts
  <2>4. todo' \in [Task -> SUBSET Qso]
    BY <2>3 DEF Types
  <2> QED
    BY <2>2, <2>3, <2>4, TaskMoves
<1>2. CASE Resend(t)
  BY <1>2, TaskMoves DEF Resend, First, AsksOptOuts, Through, db, ghosts, Types
<1>3. CASE NotQueuedYet(t)
  BY <1>3, TaskStays DEF NotQueuedYet, AsksOptOuts, Through, db, ghosts, Types
<1>4. CASE LooksUp(t)
  BY <1>4, TaskStays DEF LooksUp, Through, db, ghosts, Types
<1>5. CASE Upserts(t)
  BY <1>5 DEF Upserts, Becomes, Through, Go, ghosts, Types
<1> QED
  BY <1>1, <1>2, <1>3, <1>4, <1>5 DEF Enqueue

LEMMA OptOutTypes ==
  ASSUME Types, NEW t \in Task, OptOut(t)
  PROVE  Types'
<1>1. CASE RecordsOptOut(t)
  <2>1. CASE First(t, "unsubscribe") /\ \E q \in Qso : qso' = [qso EXCEPT ![t] = q]
    BY <1>1, <2>1, TaskMoves DEF RecordsOptOut, ghosts, Types
  <2>2. CASE pc[t] = "record" /\ UNCHANGED qso
    BY <1>1, <2>2, TaskStays DEF RecordsOptOut, ghosts, Types
  <2> QED
    BY <1>1, <2>1, <2>2 DEF RecordsOptOut
<1>2. CASE CancelsRows(t)
  BY <1>2 DEF CancelsRows, Through, Go, Types
<1> QED
  BY <1>1, <1>2 DEF OptOut

LEMMA GatewayTypes ==
  ASSUME Types, NEW t \in Task, GatewayRequeue(t)
  PROVE  Types'
<1>1. CASE FindsAffected(t)
  <2>1. todo' \in [Task -> SUBSET Qso]
    BY <1>1, QslAssumption DEF FindsAffected, Types
  <2> QED
    BY <1>1, <2>1, TaskStays DEF FindsAffected, First, db, ghosts
<1>2. CASE Requeues(t)
  <2>1. CASE todo[t] = {} /\ Go(t, "done") /\ UNCHANGED <<row, claim, emailQslSent, todo>>
    BY <1>2, <2>1, TaskStays DEF Requeues, ghosts, Types
  <2>2. ASSUME NEW q \in todo[t], Becomes(q, "PENDING"),
               todo' = [todo EXCEPT ![t] = @ \ {q}], UNCHANGED pc
        PROVE  Types'
    <3>1. q \in Qso
      BY <2>2 DEF Types
    <3>2. todo' \in [Task -> SUBSET Qso]
      BY <2>2 DEF Types
    <3> QED
      BY <1>2, <2>2, <3>1, <3>2 DEF Requeues, Becomes, ghosts, Types
  <2> QED
    BY <1>2, <2>1, <2>2 DEF Requeues
<1> QED
  BY <1>1, <1>2 DEF GatewayRequeue

LEMMA SendTypes ==
  ASSUME Types, NEW t \in Task, Send(t)
  PROVE  Types'
<1>1. CASE ReadsBatch(t)
  <2>1. todo' \in [Task -> SUBSET Qso]
    BY <1>1 DEF ReadsBatch, Types
  <2> QED
    BY <1>1, <2>1, TaskStays DEF ReadsBatch, First, db, ghosts
<1>2. CASE Claims(t)
  BY <1>2 DEF Claims, Go, Types
<1>3. CASE Contended(t)
  BY <1>3 DEF Contended, db, ghosts, Types
<1>4. CASE SendEnds(t)
  BY <1>4, TaskStays DEF SendEnds, db, ghosts, Types
<1>5. CASE RereadsRow(t)
  BY <1>5, TaskStays DEF RereadsRow, db, ghosts, Types
<1>6. CASE ChecksOptOut(t)
  BY <1>6, TaskStays DEF ChecksOptOut, db, ghosts, Types
<1>7. CASE Delivers(t)
  <2>1. qso[t] \in Qso /\ used[t] \in Nat
    BY <1>7 DEF Delivers, Types
  <2>2. mails' \in [Qso -> [1 .. Approvals -> Nat]]
    <3>1. ASSUME mails' = [mails EXCEPT ![qso[t]][used[t]] = @ + 1]
          PROVE  mails' \in [Qso -> [1 .. Approvals -> Nat]]
      <4> DEFINE before == mails[qso[t]]
                 taken == [before EXCEPT ![used[t]] = @ + 1]
      <4>1. before \in [1 .. Approvals -> Nat]
        BY <2>1 DEF Types
      <4>2. mails' = [mails EXCEPT ![qso[t]] = taken]
        BY <3>1
      <4>3. taken \in [1 .. Approvals -> Nat]
        <5> HIDE DEF before
        <5>1. \A n \in 1 .. Approvals : before[n] \in Nat
          BY <4>1
        <5>2. DOMAIN before = 1 .. Approvals
          BY <4>1
        <5>3. taken = [n \in 1 .. Approvals |->
                         IF n = used[t] THEN before[n] + 1 ELSE before[n]]
          BY <5>2
        <5>4. \A n \in 1 .. Approvals : before[n] + 1 \in Nat
          BY <5>1
        <5> QED
          BY <5>1, <5>3, <5>4
      <4> QED
        BY <2>1, <4>2, <4>3 DEF Types
    <3> QED
      BY <1>7, <3>1 DEF Delivers, Types
  <2>3. pc' \in [Task -> Places] /\ \A u \in Task : pc'[u] \in WithContact => qso'[u] \in Qso
    BY <1>7, <2>1 DEF Delivers, Go, Types
  <2> QED
    BY <1>7, <2>2, <2>3 DEF Delivers, db, Types
<1>8. CASE Declines(t)
  BY <1>8 DEF Declines, Settles, Becomes, Go, ghosts, Types
<1>9. CASE Fails(t)
  BY <1>9 DEF Fails, Settles, Becomes, Go, ghosts, Types
<1>10. CASE Records(t)
  BY <1>10 DEF Records, Go, ghosts, Types
<1> QED
  BY <1>1, <1>2, <1>3, <1>4, <1>5, <1>6, <1>7, <1>8, <1>9, <1>10 DEF Send

LEMMA ApprovedTypes ==
  ASSUME Types, NEW Rows \in SUBSET Qso, Approved(Rows)
  PROVE  /\ row' \in [Qso -> Status]
         /\ approvals' \in [Qso -> 0 .. Approvals]
  BY QslAssumption DEF Approved, Types

LEMMA AutoTypes ==
  ASSUME Types, NEW t \in Task, AutoPass(t)
  PROVE  Types'
<1>1. CASE AutoBegins(t)
  BY <1>1, TaskStays DEF AutoBegins, First, db, ghosts, Types
<1>2. CASE FindsCandidates(t)
  <2>1. todo' \in [Task -> SUBSET Qso]
    BY <1>2 DEF FindsCandidates, Candidates, Types
  <2> QED
    BY <1>2, <2>1, TaskStays DEF FindsCandidates, db, ghosts
<1>3. CASE QueuesNext(t)
  <2>1. PICK q \in todo[t] : todo' = [todo EXCEPT ![t] = @ \ {q}] /\ LooksAtRow(t, q)
    BY <1>3 DEF QueuesNext
  <2>2. q \in Qso /\ todo' \in [Task -> SUBSET Qso]
    BY <2>1 DEF Types
  <2> QED
    BY <1>3, <2>1, <2>2, TaskMoves DEF QueuesNext, LooksAtRow, Through, db, ghosts
<1>4. CASE QueuedAll(t)
  BY <1>4, TaskStays DEF QueuedAll, db, ghosts, Types
<1>5. CASE ReadsPending(t)
  <2>1. todo' \in [Task -> SUBSET Qso]
    BY <1>5 DEF ReadsPending, Types
  <2> QED
    BY <1>5, <2>1, TaskStays DEF ReadsPending, db, ghosts
<1>6. CASE AutoApproves(t)
  <2>1. row' \in [Qso -> Status] /\ approvals' \in [Qso -> 0 .. Approvals]
    BY <1>6, ApprovedTypes DEF AutoApproves, Types
  <2> QED
    BY <1>6, <2>1 DEF AutoApproves, Go, Types
<1> QED
  BY <1>1, <1>2, <1>3, <1>4, <1>5, <1>6 DEF AutoPass

LEMMA TypesNext == Types /\ [Next]_vars => Types'
<1> SUFFICES ASSUME Types, [Next]_vars
             PROVE  Types'
  OBVIOUS
<1>1. ASSUME NEW t \in Task, Throws(t)
      PROVE  Types'
  BY <1>1, QslAssumption, TaskStays DEF Throws, db, ghosts, Types
<1>2. ASSUME NEW t \in Task, Crash(t)
      PROVE  Types'
  BY <1>2, TaskStays DEF Crash, db, ghosts, Types
<1>3. ASSUME NEW q \in Qso, Approve(q)
      PROVE  Types'
  <2>1. row' \in [Qso -> Status] /\ approvals' \in [Qso -> 0 .. Approvals]
    BY <1>3, ApprovedTypes DEF Approve
  <2> QED
    BY <1>3, <2>1 DEF Approve, tasks, Types
<1>4. ASSUME NEW q \in Qso, Skip(q)
      PROVE  Types'
  BY <1>4 DEF Skip, tasks, ghosts, Types
<1>5. CASE UNCHANGED vars
  BY <1>5 DEF vars, db, tasks, ghosts, Types
<1> QED
  BY <1>1, <1>2, <1>3, <1>4, <1>5, QueueTypes, OptOutTypes, GatewayTypes, SendTypes,
     AutoTypes DEF Next

\* Every variable a sender and a row know each other by has its type, and a busy task
\* names its contact.
THEOREM TypesHold == Spec => []Types
  BY TypesInit, TypesNext, PTL DEF Spec

---------------------------------------------------------------------------
(* The types of the rest: what a pass may do and has done, the contacts'   *)
(* flags and the opt-outs.  A pass stays within its budget because it looks*)
(* at its count before each contact, and counts one row for each.          *)

Within ==
    /\ emailQslSent \in [Qso -> BOOLEAN]
    /\ optOuts \subseteq Callsign
    /\ kind \in [Task -> TaskKinds]
    /\ budget \in [Task -> 0 .. MaxPerRun]
    /\ queued \in [Task -> 0 .. MaxPerRun]
    /\ cancelled \subseteq Callsign
    /\ late \subseteq Task
    /\ \A t \in Task : kind[t] = "auto" /\ pc[t] \in Enqueueing => queued[t] < budget[t]

\* None of it changes, and a pass begins with a contact only if it may queue one.
Frugal ==
    /\ UNCHANGED <<emailQslSent, optOuts, kind, budget, queued, cancelled, late>>
    /\ \A t \in Task : kind[t] = "auto" /\ pc'[t] \in Enqueueing =>
                          pc[t] \in Enqueueing \/ queued[t] < budget[t]

LEMMA FrugalStaysWithin ==
  ASSUME Within, Frugal
  PROVE  Within'
  BY DEF Within, Frugal

LEMMA EnqueueWithin ==
  ASSUME Types, Within, NEW t \in Task, Enqueue(t)
  PROVE  Within'
<1>1. CASE Queue(t)
  BY <1>1, FrugalStaysWithin DEF Queue, First, LooksAtRow, Through, Go, db, ghosts, Frugal, Types
<1>2. CASE Resend(t)
  BY <1>2, FrugalStaysWithin DEF Resend, First, AsksOptOuts, Through, Go, db, ghosts, Frugal, Types
<1>3. CASE NotQueuedYet(t)
  BY <1>3, FrugalStaysWithin DEF NotQueuedYet, AsksOptOuts, Through, Go, db, ghosts, Frugal, Types
<1>4. CASE LooksUp(t)
  BY <1>4, FrugalStaysWithin DEF LooksUp, Through, Go, db, ghosts, Frugal, Types
<1>5. CASE Upserts(t)
  <2>1. /\ pc[t] = "upsert"
        /\ queued' = [queued EXCEPT ![t] = IF kind[t] = "auto" THEN @ + 1 ELSE 0]
        /\ UNCHANGED <<emailQslSent, optOuts, kind, budget, cancelled, late>>
    BY <1>5 DEF Upserts, ghosts
  <2>2. queued' \in [Task -> 0 .. MaxPerRun]
    <3>1. kind[t] = "auto" => queued[t] + 1 \in 0 .. MaxPerRun
      BY <2>1, QslAssumption DEF Within
    <3> QED
      BY <2>1, <3>1, QslAssumption DEF Within
  <2>3. \A s \in Task : pc'[s] \in Enqueueing => s # t /\ pc'[s] = pc[s]
    BY <1>5 DEF Upserts, Through, Go, Types
  <2>4. \A s \in Task : s # t => queued'[s] = queued[s]
    BY <2>1 DEF Within
  <2> QED
    BY <2>1, <2>2, <2>3, <2>4 DEF Within
<1> QED
  BY <1>1, <1>2, <1>3, <1>4, <1>5 DEF Enqueue

LEMMA OptOutWithin ==
  ASSUME Types, Within, NEW t \in Task, OptOut(t)
  PROVE  Within'
<1>1. CASE RecordsOptOut(t)
  <2>1. qso'[t] \in Qso
    BY <1>1 DEF RecordsOptOut, Types
  <2>2. optOuts' \subseteq Callsign
    BY <1>1, <2>1, QslAssumption DEF RecordsOptOut, Within
  <2>3. \A s \in Task : pc'[s] \in Enqueueing => pc[s] \in Enqueueing
    BY <1>1 DEF RecordsOptOut, Go, Types
  <2> QED
    BY <1>1, <2>2, <2>3 DEF RecordsOptOut, ghosts, Within
<1>2. CASE CancelsRows(t)
  <2>1. qso[t] \in Qso
    BY <1>2 DEF CancelsRows, Types
  <2>2. cancelled' \subseteq Callsign
    BY <1>2, <2>1, QslAssumption DEF CancelsRows, Within
  <2>3. \A s \in Task : pc'[s] \in Enqueueing => pc[s] \in Enqueueing
    BY <1>2 DEF CancelsRows, Through, Go, Types
  <2> QED
    BY <1>2, <2>2, <2>3 DEF CancelsRows, Within
<1> QED
  BY <1>1, <1>2 DEF OptOut

LEMMA GatewayWithin ==
  ASSUME Types, Within, NEW t \in Task, GatewayRequeue(t)
  PROVE  Within'
<1>1. CASE FindsAffected(t)
  BY <1>1, FrugalStaysWithin DEF FindsAffected, Go, db, ghosts, Frugal, Types
<1>2. CASE Requeues(t)
  <2>1. UNCHANGED <<optOuts, kind, budget, queued, cancelled, late>>
    BY <1>2 DEF Requeues, ghosts
  <2>2. emailQslSent' \in [Qso -> BOOLEAN]
    BY <1>2 DEF Requeues, Within
  <2>3. \A s \in Task : pc'[s] \in Enqueueing => pc[s] \in Enqueueing
    BY <1>2 DEF Requeues, Go, Types
  <2> QED
    BY <2>1, <2>2, <2>3 DEF Within
<1> QED
  BY <1>1, <1>2 DEF GatewayRequeue

LEMMA SendWithin ==
  ASSUME Types, Within, NEW t \in Task, Send(t)
  PROVE  Within'
<1>1. CASE Claims(t)
  <2>1. UNCHANGED <<emailQslSent, optOuts, kind, budget, queued, cancelled>>
    BY <1>1 DEF Claims
  <2>2. late' \subseteq Task
    BY <1>1 DEF Claims, Within
  <2>3. \A s \in Task : pc'[s] \in Enqueueing => pc[s] \in Enqueueing
    BY <1>1 DEF Claims, Go, Types
  <2> QED
    BY <2>1, <2>2, <2>3 DEF Within
<1>2. CASE Records(t)
  <2>1. UNCHANGED <<optOuts, kind, budget, queued, cancelled, late>>
    BY <1>2 DEF Records, ghosts
  <2>2. emailQslSent' \in [Qso -> BOOLEAN]
    BY <1>2 DEF Records, Within
  <2>3. \A s \in Task : pc'[s] \in Enqueueing => pc[s] \in Enqueueing
    BY <1>2 DEF Records, Go, Types
  <2> QED
    BY <2>1, <2>2, <2>3 DEF Within
<1>3. CASE ReadsBatch(t)
  BY <1>3, FrugalStaysWithin DEF ReadsBatch, Go, db, ghosts, Frugal, Types
<1>4. CASE Contended(t)
  BY <1>4, FrugalStaysWithin DEF Contended, db, ghosts, Frugal
<1>5. CASE SendEnds(t)
  BY <1>5, FrugalStaysWithin DEF SendEnds, Go, db, ghosts, Frugal, Types
<1>6. CASE RereadsRow(t)
  BY <1>6, FrugalStaysWithin DEF RereadsRow, Go, db, ghosts, Frugal, Types
<1>7. CASE ChecksOptOut(t)
  BY <1>7, FrugalStaysWithin DEF ChecksOptOut, Go, db, ghosts, Frugal, Types
<1>8. CASE Delivers(t)
  BY <1>8, FrugalStaysWithin DEF Delivers, Go, db, Frugal, Types
<1>9. CASE Declines(t)
  BY <1>9, FrugalStaysWithin DEF Declines, Settles, Go, ghosts, Frugal, Types
<1>10. CASE Fails(t)
  BY <1>10, FrugalStaysWithin DEF Fails, Settles, Go, ghosts, Frugal, Types
<1> QED
  BY <1>1, <1>2, <1>3, <1>4, <1>5, <1>6, <1>7, <1>8, <1>9, <1>10 DEF Send

LEMMA SentTodayCounts == SentToday \in Nat
<1>1. IsFiniteSet({q \in Qso : row[q] = "SENT"})
  BY QslAssumption, FS_Subset
<1> QED
  BY <1>1, FS_CardinalityType DEF SentToday

LEMMA AutoWithin ==
  ASSUME Types, Within, NEW t \in Task, AutoPass(t)
  PROVE  Within'
<1>1. CASE AutoBegins(t)
  <2>1. Go(t, "done") \/ Go(t, "candidates")
    BY <1>1 DEF AutoBegins
  <2>2. \A s \in Task : pc'[s] \in Enqueueing => s # t /\ pc'[s] = pc[s]
    BY <2>1 DEF Go, Types
  <2>3. UNCHANGED <<emailQslSent, optOuts, kind, queued, cancelled, late>>
    BY <1>1 DEF AutoBegins, db, ghosts
  <2>4. /\ budget' \in [Task -> 0 .. MaxPerRun]
        /\ \A s \in Task \ {t} : budget'[s] = budget[s]
    <3>1. CASE UNCHANGED budget
      BY <3>1 DEF Within
    <3>2. CASE SentToday < MaxPerDay /\
               budget' = [budget EXCEPT ![t] = Smaller(MaxPerRun, MaxPerDay - SentToday)]
      <4>1. Smaller(MaxPerRun, MaxPerDay - SentToday) \in 0 .. MaxPerRun
        BY <3>2, SentTodayCounts, QslAssumption DEF Smaller
      <4> QED
        BY <3>2, <4>1 DEF Within
    <3> QED
      BY <1>1, <3>1, <3>2 DEF AutoBegins
  <2> QED
    BY <2>2, <2>3, <2>4 DEF Within
<1>2. CASE FindsCandidates(t)
  BY <1>2, FrugalStaysWithin DEF FindsCandidates, Go, db, ghosts, Frugal, Types
<1>3. CASE QueuesNext(t)
  BY <1>3, FrugalStaysWithin DEF QueuesNext, LooksAtRow, Through, Go, db, ghosts, Frugal, Types
<1>4. CASE QueuedAll(t)
  BY <1>4, FrugalStaysWithin DEF QueuedAll, Go, db, ghosts, Frugal, Types
<1>5. CASE ReadsPending(t)
  BY <1>5, FrugalStaysWithin DEF ReadsPending, Go, db, ghosts, Frugal, Types
<1>6. CASE AutoApproves(t)
  BY <1>6, FrugalStaysWithin DEF AutoApproves, Go, Frugal, Types
<1> QED
  BY <1>1, <1>2, <1>3, <1>4, <1>5, <1>6 DEF AutoPass

LEMMA WithinNext == Types /\ Within /\ [Next]_vars => Within'
<1> SUFFICES ASSUME Types, Within, [Next]_vars
             PROVE  Within'
  OBVIOUS
<1>1. ASSUME NEW t \in Task, Throws(t)
      PROVE  Within'
  BY <1>1, FrugalStaysWithin DEF Throws, Go, db, ghosts, Frugal, Types
<1>2. ASSUME NEW t \in Task, Crash(t)
      PROVE  Within'
  BY <1>2, FrugalStaysWithin DEF Crash, Go, db, ghosts, Frugal, Types
<1>3. ASSUME NEW q \in Qso, Approve(q) \/ Skip(q)
      PROVE  Within'
  BY <1>3, FrugalStaysWithin DEF Approve, Skip, tasks, ghosts, Frugal
<1>4. CASE UNCHANGED vars
  BY <1>4, FrugalStaysWithin DEF vars, db, tasks, ghosts, Frugal
<1> QED
  BY <1>1, <1>2, <1>3, <1>4, EnqueueWithin, OptOutWithin, GatewayWithin, SendWithin, AutoWithin
  DEF Next

\* Every variable has its type; above all, no pass queues more than the timer's limit
\* for one, whatever becomes of the rows it queues.
THEOREM TypeCorrect == Spec => []TypeOK
<1>1. Init => Within
  <2> SUFFICES ASSUME Init
               PROVE  Within
    OBVIOUS
  <2>1. kind \in [Task -> TaskKinds]
    BY QslAssumption DEF Init
  <2>2. \A t \in Task : pc[t] \notin Enqueueing
    BY DEF Init
  <2>3. budget \in [Task -> 0 .. MaxPerRun] /\ queued \in [Task -> 0 .. MaxPerRun]
    BY QslAssumption DEF Init
  <2> QED
    BY <2>1, <2>2, <2>3 DEF Init, Within
<1>2. Types /\ Within => TypeOK
  BY DEF Types, Within, TypeOK
<1> QED
  BY TypesInit, TypesNext, <1>1, <1>2, WithinNext, PTL DEF Spec

---------------------------------------------------------------------------
(* One message per approval.  What a sender may still mail under is an     *)
(* approval of its contact that nobody has mailed under and no other sender*)
(* holds; an approved row's own approval is unspent; later ones do not     *)
(* exist yet.                                                              *)

InFlight == {"reread", "checking", "smtp"}

ApprovedIsUnspent ==
    \A q \in Qso : row[q] = "APPROVED" =>
        /\ approvals[q] \in 1 .. Approvals
        /\ mails[q][approvals[q]] = 0
        /\ \A t \in Task : pc[t] \in InFlight /\ qso[t] = q => used[t] # approvals[q]

HeldIsUnspent ==
    \A t \in Task : pc[t] \in InFlight =>
        /\ used[t] \in 1 .. approvals[qso[t]]
        /\ mails[qso[t]][used[t]] = 0

HeldByOne ==
    \A s, t \in Task :
        s # t /\ pc[s] \in InFlight /\ pc[t] \in InFlight /\ qso[s] = qso[t] => used[s] # used[t]

LaterIsUnspent ==
    \A q \in Qso, n \in 1 .. Approvals : n > approvals[q] => mails[q][n] = 0

Spent == ApprovedIsUnspent /\ HeldIsUnspent /\ HeldByOne /\ LaterIsUnspent /\ MailedOncePerApproval

\* Nothing is approved, claimed or mailed.
Quiet ==
    /\ UNCHANGED <<approvals, used, mails>>
    /\ \A q \in Qso : row'[q] = "APPROVED" => row[q] = "APPROVED"
    /\ \A t \in Task : pc'[t] \in InFlight => pc[t] \in InFlight /\ qso'[t] = qso[t]

USE DEF InFlight

LEMMA SpentInit == Init => Spent
  BY QslAssumption
  DEF Init, Spent, ApprovedIsUnspent, HeldIsUnspent, HeldByOne, LaterIsUnspent,
      MailedOncePerApproval

LEMMA QuietSpends ==
  ASSUME Spent, Quiet
  PROVE  Spent'
<1>1. ApprovedIsUnspent'
  BY DEF Spent, Quiet, ApprovedIsUnspent
<1>2. HeldIsUnspent'
  BY DEF Spent, Quiet, HeldIsUnspent
<1>3. HeldByOne'
  BY DEF Spent, Quiet, HeldByOne
<1>4. LaterIsUnspent' /\ MailedOncePerApproval'
  BY DEF Spent, Quiet, LaterIsUnspent, MailedOncePerApproval
<1> QED
  BY <1>1, <1>2, <1>3, <1>4 DEF Spent

LEMMA QueueQuiet ==
  ASSUME Types, NEW t \in Task, Enqueue(t)
  PROVE  Quiet
<1>1. CASE Queue(t)
  BY <1>1 DEF Queue, LooksAtRow, Through, Go, db, ghosts, Quiet, Types
<1>2. CASE Resend(t)
  BY <1>2 DEF Resend, AsksOptOuts, Through, Go, db, ghosts, Quiet, Types
<1>3. CASE NotQueuedYet(t)
  BY <1>3 DEF NotQueuedYet, AsksOptOuts, Through, Go, db, ghosts, Quiet, Types
<1>4. CASE LooksUp(t)
  BY <1>4 DEF LooksUp, Through, Go, db, ghosts, Quiet, Types
<1>5. CASE Upserts(t)
  BY <1>5 DEF Upserts, Becomes, Through, Go, ghosts, Quiet, Types
<1> QED
  BY <1>1, <1>2, <1>3, <1>4, <1>5 DEF Enqueue

LEMMA OthersQuiet ==
  ASSUME Types, NEW t \in Task, OptOut(t) \/ GatewayRequeue(t) \/ Throws(t) \/ Crash(t)
  PROVE  Quiet
<1>1. CASE RecordsOptOut(t)
  BY <1>1 DEF RecordsOptOut, First, Go, ghosts, Quiet, Types
<1>2. CASE CancelsRows(t)
  BY <1>2 DEF CancelsRows, Through, Go, Quiet, Types
<1>3. CASE FindsAffected(t)
  BY <1>3 DEF FindsAffected, Go, db, ghosts, Quiet, Types
<1>4. CASE Requeues(t)
  BY <1>4 DEF Requeues, Becomes, Go, ghosts, Quiet, Types
<1>5. CASE Throws(t)
  BY <1>5 DEF Throws, Go, db, ghosts, Quiet, Types
<1>6. CASE Crash(t)
  BY <1>6 DEF Crash, Go, db, ghosts, Quiet, Types
<1> QED
  BY <1>1, <1>2, <1>3, <1>4, <1>5, <1>6 DEF OptOut, GatewayRequeue

LEMMA AutoQuiet ==
  ASSUME Types, NEW t \in Task, AutoPass(t), ~AutoApproves(t)
  PROVE  Quiet
<1>1. CASE AutoBegins(t)
  BY <1>1 DEF AutoBegins, Go, db, ghosts, Quiet, Types
<1>2. CASE FindsCandidates(t)
  BY <1>2 DEF FindsCandidates, Go, db, ghosts, Quiet, Types
<1>3. CASE QueuesNext(t)
  BY <1>3 DEF QueuesNext, LooksAtRow, Through, Go, db, ghosts, Quiet, Types
<1>4. CASE QueuedAll(t)
  BY <1>4 DEF QueuedAll, Go, db, ghosts, Quiet, Types
<1>5. CASE ReadsPending(t)
  BY <1>5 DEF ReadsPending, Go, db, ghosts, Quiet, Types
<1> QED
  BY <1>1, <1>2, <1>3, <1>4, <1>5 DEF AutoPass

LEMMA SendQuiet ==
  ASSUME Types, NEW t \in Task, Send(t), ~Claims(t), ~Delivers(t)
  PROVE  Quiet
<1>1. CASE ReadsBatch(t)
  BY <1>1 DEF ReadsBatch, Go, db, ghosts, Quiet, Types
<1>2. CASE Contended(t)
  BY <1>2 DEF Contended, db, ghosts, Quiet, Types
<1>3. CASE SendEnds(t)
  BY <1>3 DEF SendEnds, Go, db, ghosts, Quiet, Types
<1>4. CASE RereadsRow(t)
  BY <1>4 DEF RereadsRow, Go, db, ghosts, Quiet, Types
<1>5. CASE ChecksOptOut(t)
  BY <1>5 DEF ChecksOptOut, Go, db, ghosts, Quiet, Types
<1>6. CASE Declines(t)
  BY <1>6 DEF Declines, Settles, Becomes, Go, ghosts, Quiet, Types
<1>7. CASE Fails(t)
  BY <1>7 DEF Fails, Settles, Becomes, Go, ghosts, Quiet, Types
<1>8. CASE Records(t)
  BY <1>8 DEF Records, Go, ghosts, Quiet, Types
<1> QED
  BY <1>1, <1>2, <1>3, <1>4, <1>5, <1>6, <1>7, <1>8 DEF Send

\* An approval makes one that nobody holds and nobody has mailed under.
LEMMA ApprovedSpends ==
  ASSUME Types, Spent, NEW Rows \in SUBSET Qso, Approved(Rows), UNCHANGED <<used, mails>>,
         \A t \in Task : pc'[t] \in InFlight => pc[t] \in InFlight /\ qso'[t] = qso[t]
  PROVE  Spent'
<1> DEFINE P == {q \in Rows : row[q] = "PENDING"}
<1>1. \A q \in Qso : /\ row'[q] = "APPROVED" => q \in P \/ row[q] = "APPROVED"
                     /\ q \in P => approvals'[q] = approvals[q] + 1 /\ approvals[q] < Approvals
                     /\ q \notin P => approvals'[q] = approvals[q]
                     /\ approvals[q] \in Nat
  BY DEF Approved, Types
<1>2. \A q \in P : row[q] # "APPROVED"
  OBVIOUS
<1> HIDE DEF P
<1>3. \A q \in Qso : approvals[q] <= approvals'[q]
  BY <1>1
<1>4. \A t \in Task : pc[t] \in InFlight => qso[t] \in Qso
  BY DEF Types
<1>5. ApprovedIsUnspent'
  <2> SUFFICES ASSUME NEW q \in Qso, row'[q] = "APPROVED"
               PROVE  /\ approvals'[q] \in 1 .. Approvals
                      /\ mails[q][approvals'[q]] = 0
                      /\ \A t \in Task : pc'[t] \in InFlight /\ qso'[t] = q =>
                            used[t] # approvals'[q]
    BY DEF ApprovedIsUnspent
  <2>1. CASE q \in P
    <3>1. approvals'[q] \in 1 .. Approvals /\ approvals'[q] > approvals[q]
      BY <1>1, <2>1, QslAssumption
    <3>2. mails[q][approvals'[q]] = 0
      BY <3>1 DEF Spent, LaterIsUnspent
    <3>3. ASSUME NEW t \in Task, pc'[t] \in InFlight, qso'[t] = q
          PROVE  used[t] # approvals'[q]
      BY <3>3, <1>1, <2>1 DEF Spent, HeldIsUnspent
    <3> QED
      BY <3>1, <3>2, <3>3
  <2>2. CASE q \notin P
    BY <1>1, <2>2 DEF Spent, ApprovedIsUnspent
  <2> QED
    BY <2>1, <2>2
<1>6. HeldIsUnspent'
  <2> SUFFICES ASSUME NEW t \in Task, pc'[t] \in InFlight
               PROVE  used[t] \in 1 .. approvals'[qso'[t]] /\ mails[qso'[t]][used[t]] = 0
    BY DEF HeldIsUnspent
  <2>1. qso'[t] = qso[t] /\ pc[t] \in InFlight /\ qso[t] \in Qso
    BY <1>4
  <2>2. used[t] \in 1 .. approvals[qso[t]] /\ mails[qso[t]][used[t]] = 0
    BY <2>1 DEF Spent, HeldIsUnspent
  <2> QED
    BY <1>1, <2>1, <2>2
<1>7. HeldByOne'
  BY DEF Spent, HeldByOne
<1>8. LaterIsUnspent'
  <2> SUFFICES ASSUME NEW q \in Qso, NEW n \in 1 .. Approvals, n > approvals'[q]
               PROVE  mails[q][n] = 0
    BY DEF LaterIsUnspent
  <2>1. n > approvals[q]
    BY <1>1
  <2> QED
    BY <2>1 DEF Spent, LaterIsUnspent
<1>9. MailedOncePerApproval'
  BY DEF Spent, MailedOncePerApproval
<1> QED
  BY <1>5, <1>6, <1>7, <1>8, <1>9 DEF Spent

LEMMA ClaimSpends ==
  ASSUME Types, Spent, NEW t \in Task, Claims(t)
  PROVE  Spent'
<1>1. PICK q \in todo[t] : /\ row[q] = "APPROVED"
                           /\ row' = [row EXCEPT ![q] = "SENT"]
                           /\ qso' = [qso EXCEPT ![t] = q]
                           /\ used' = [used EXCEPT ![t] = approvals[q]]
  BY DEF Claims
<1>2. q \in Qso /\ UNCHANGED <<approvals, mails>> /\ pc' = [pc EXCEPT ![t] = "reread"]
  BY DEF Claims, Go, Types
<1>3. /\ approvals[q] \in 1 .. Approvals
      /\ mails[q][approvals[q]] = 0
      /\ \A s \in Task : pc[s] \in InFlight /\ qso[s] = q => used[s] # approvals[q]
  BY <1>1, <1>2 DEF Spent, ApprovedIsUnspent
<1>4. \A s \in Task \ {t} : pc'[s] = pc[s] /\ qso'[s] = qso[s] /\ used'[s] = used[s]
  BY <1>1, <1>2 DEF Types
<1>5. qso'[t] = q /\ used'[t] = approvals[q]
  BY <1>1 DEF Types
<1>6. ApprovedIsUnspent'
  <2> SUFFICES ASSUME NEW r \in Qso, row'[r] = "APPROVED"
               PROVE  /\ approvals[r] \in 1 .. Approvals
                      /\ mails[r][approvals[r]] = 0
                      /\ \A s \in Task : pc'[s] \in InFlight /\ qso'[s] = r =>
                            used'[s] # approvals[r]
    BY <1>2 DEF ApprovedIsUnspent
  <2>1. r # q /\ row[r] = "APPROVED"
    BY <1>1, <1>2 DEF Types
  <2> QED
    BY <2>1, <1>4, <1>5 DEF Spent, ApprovedIsUnspent
<1>7. HeldIsUnspent'
  BY <1>2, <1>3, <1>4, <1>5 DEF Spent, HeldIsUnspent
<1>8. HeldByOne'
  BY <1>2, <1>3, <1>4, <1>5 DEF Spent, HeldByOne
<1>9. LaterIsUnspent' /\ MailedOncePerApproval'
  BY <1>2 DEF Spent, LaterIsUnspent, MailedOncePerApproval
<1> QED
  BY <1>6, <1>7, <1>8, <1>9 DEF Spent

LEMMA DeliverySpends ==
  ASSUME Types, Spent, NEW t \in Task, Delivers(t)
  PROVE  Spent'
<1>1. pc[t] = "smtp" /\ UNCHANGED <<row, qso, approvals, used>>
  BY DEF Delivers, db
<1>2. CASE Go(t, "refused") /\ UNCHANGED mails
  <2>1. Quiet
    BY <1>1, <1>2 DEF Go, Quiet, Types
  <2> QED
    BY <2>1, QuietSpends
<1>3. CASE Go(t, "accepted") /\ mails' = [mails EXCEPT ![qso[t]][used[t]] = @ + 1]
  <2>1. qso[t] \in Qso
    BY <1>1 DEF Types
  <2>2. used[t] \in 1 .. approvals[qso[t]] /\ mails[qso[t]][used[t]] = 0
    BY <1>1 DEF Spent, HeldIsUnspent
  <2>3. \A q \in Qso, n \in 1 .. Approvals :
           mails'[q][n] = IF q = qso[t] /\ n = used[t] THEN 1 ELSE mails[q][n]
    <3> DEFINE before == mails[qso[t]]
    <3>1. before \in [1 .. Approvals -> Nat] /\ before[used[t]] = 0
      BY <2>1, <2>2 DEF Types
    <3>2. \A q \in Qso : q # qso[t] => mails'[q] = mails[q]
      BY <1>3 DEF Types
    <3>3. mails'[qso[t]] = [before EXCEPT ![used[t]] = @ + 1]
      BY <1>3, <2>1 DEF Types
    <3>4. \A n \in 1 .. Approvals : [before EXCEPT ![used[t]] = @ + 1][n] =
                                      IF n = used[t] THEN 1 ELSE before[n]
      <4> HIDE DEF before
      <4> QED
        BY <3>1
    <3> QED
      BY <3>2, <3>3, <3>4
  <2>4. \A s \in Task : pc'[s] \in InFlight => s # t /\ pc[s] \in InFlight
    BY <1>3 DEF Go, Types
  <2>5. \A s \in Task : pc[s] \in InFlight => qso[s] \in Qso /\ used[s] \in 1 .. Approvals
    BY QslAssumption DEF Spent, HeldIsUnspent, Types
  <2>6. ApprovedIsUnspent'
    BY <1>1, <2>3, <2>4 DEF Spent, ApprovedIsUnspent
  <2>7. HeldIsUnspent'
    <3> SUFFICES ASSUME NEW s \in Task, pc'[s] \in InFlight
                 PROVE  used[s] \in 1 .. approvals[qso[s]] /\ mails'[qso[s]][used[s]] = 0
      BY <1>1 DEF HeldIsUnspent
    <3>1. s # t /\ pc[s] \in InFlight /\ (qso[s] = qso[t] => used[s] # used[t])
      BY <1>1, <2>4 DEF Spent, HeldByOne
    <3> QED
      BY <2>3, <2>5, <3>1 DEF Spent, HeldIsUnspent
  <2>8. HeldByOne'
    BY <1>1, <2>4 DEF Spent, HeldByOne
  <2>9. LaterIsUnspent'
    BY <1>1, <2>1, <2>2, <2>3 DEF Spent, LaterIsUnspent, Types
  <2>10. MailedOncePerApproval'
    BY <2>3 DEF Spent, MailedOncePerApproval
  <2> QED
    BY <2>6, <2>7, <2>8, <2>9, <2>10 DEF Spent
<1> QED
  BY <1>2, <1>3 DEF Delivers

LEMMA SpentNext == Types /\ Spent /\ [Next]_vars => Spent'
<1> SUFFICES ASSUME Types, Spent, [Next]_vars
             PROVE  Spent'
  OBVIOUS
<1>1. ASSUME NEW t \in Task, AutoApproves(t)
      PROVE  Spent'
  <2>1. todo[t] \in SUBSET Qso
    BY DEF Types
  <2>2. Approved(todo[t]) /\ UNCHANGED <<used, mails>>
    BY <1>1 DEF AutoApproves
  <2>3. \A s \in Task : pc'[s] \in InFlight => pc[s] \in InFlight /\ qso'[s] = qso[s]
    BY <1>1 DEF AutoApproves, Go, Types
  <2> QED
    BY <2>1, <2>2, <2>3, ApprovedSpends
<1>2. ASSUME NEW q \in Qso, Approve(q)
      PROVE  Spent'
  BY <1>2, ApprovedSpends DEF Approve, tasks
<1>3. ASSUME NEW q \in Qso, Skip(q)
      PROVE  Spent'
  <2>1. Quiet
    BY <1>3 DEF Skip, tasks, ghosts, Quiet, Types
  <2> QED
    BY <2>1, QuietSpends
<1>4. CASE UNCHANGED vars
  <2>1. Quiet
    BY <1>4 DEF vars, db, tasks, ghosts, Quiet
  <2> QED
    BY <2>1, QuietSpends
<1> QED
  BY <1>1, <1>2, <1>3, <1>4, QueueQuiet, OthersQuiet, AutoQuiet, SendQuiet, QuietSpends,
     ClaimSpends, DeliverySpends DEF Next

\* No row is mailed twice under one approval: not by the Send button and the timer
\* reading the same batch, not by any number of them, and not when they crash.
THEOREM OneMailPerApproval == Spec => []MailedOncePerApproval
<1>1. Spent => MailedOncePerApproval
  BY DEF Spent
<1> QED
  BY TypesInit, TypesNext, SpentInit, SpentNext, <1>1, PTL DEF Spec

---------------------------------------------------------------------------
(* No claim stranded but by a crash, when what throws is inside the try.   *)

Attended ==
    \A q \in Qso : claim[q] # None =>
        /\ row[q] = "SENT"
        /\ pc[claim[q]] = "dead" \/ (pc[claim[q]] \in Claimed /\ qso[claim[q]] = q)

\* Whose claim a row holds is at work on it, or dead.
LEMMA Claimant ==
  ASSUME Types, Attended, NEW t \in Task, NEW r \in Qso, claim[r] = t
  PROVE  row[r] = "SENT" /\ (pc[t] = "dead" \/ (pc[t] \in Claimed /\ qso[t] = r))
<1>1. t # None
  BY QslAssumption
<1> QED
  BY <1>1 DEF Attended

\* A task that holds no claim goes on and takes none.
LEMMA Unclaimed ==
  ASSUME Types, Attended, NEW t \in Task, pc[t] \notin Claimed, pc[t] # "dead",
         NEW place \in Places, Go(t, place), UNCHANGED <<row, claim>>,
         \A s \in Task \ {t} : qso'[s] = qso[s]
  PROVE  Attended'
  BY DEF Attended, Go, Types

\* A task goes on with the contact it has claimed.
LEMMA StillClaimed ==
  ASSUME Types, Attended, NEW t \in Task, pc[t] # "dead",
         NEW place \in Claimed \cup {"dead"}, Go(t, place),
         UNCHANGED <<row, claim, qso>>
  PROVE  Attended'
  BY DEF Attended, Go, Types

\* A row that is not claimed changes.
LEMMA RowReplaced ==
  ASSUME Types, Attended, NEW q \in Qso, NEW status \in Status, Becomes(q, status),
         NEW t \in Task, \A s \in Task \ {t} : pc'[s] = pc[s] /\ qso'[s] = qso[s],
         \A r \in Qso : claim[r] = t => r = q
  PROVE  Attended'
  BY DEF Attended, Becomes, Types

LEMMA EnqueueAttends ==
  ASSUME Types, Attended, NEW t \in Task, Enqueue(t)
  PROVE  Attended'
<1>1. CASE Queue(t)
  BY <1>1, Unclaimed DEF Queue, First, LooksAtRow, Through, db, Types
<1>2. CASE Resend(t)
  BY <1>2, Unclaimed DEF Resend, First, AsksOptOuts, Through, db, Types
<1>3. CASE NotQueuedYet(t)
  BY <1>3, Unclaimed DEF NotQueuedYet, AsksOptOuts, Through, db, Types
<1>4. CASE LooksUp(t)
  BY <1>4, Unclaimed DEF LooksUp, Through, db, Types
<1>5. CASE Upserts(t)
  <2>1. qso[t] \in Qso /\ \A r \in Qso : claim[r] # t
    BY <1>5, Claimant DEF Upserts, Types
  <2>2. \A s \in Task \ {t} : pc'[s] = pc[s] /\ qso'[s] = qso[s]
    BY <1>5 DEF Upserts, Through, Go, Types
  <2> QED
    BY <1>5, <2>1, <2>2, RowReplaced DEF Upserts
<1> QED
  BY <1>1, <1>2, <1>3, <1>4, <1>5 DEF Enqueue

LEMMA OthersAttend ==
  ASSUME Types, Attended, NEW t \in Task, OptOut(t) \/ GatewayRequeue(t) \/ Crash(t)
  PROVE  Attended'
<1>1. CASE RecordsOptOut(t)
  BY <1>1, Unclaimed DEF RecordsOptOut, First, Types
<1>2. CASE CancelsRows(t)
  BY <1>2, QslAssumption DEF CancelsRows, Through, Go, Attended, Types
<1>3. CASE FindsAffected(t)
  BY <1>3, Unclaimed DEF FindsAffected, First, db, Types
<1>4. CASE Requeues(t)
  <2>1. CASE Go(t, "done") /\ UNCHANGED <<row, claim>>
    BY <1>4, <2>1, Unclaimed DEF Requeues, Types
  <2>2. ASSUME NEW q \in todo[t], Becomes(q, "PENDING"), UNCHANGED pc
        PROVE  Attended'
    <3>1. q \in Qso
      BY DEF Types
    <3>2. \A r \in Qso : claim[r] # t
      BY <1>4, Claimant DEF Requeues
    <3> QED
      BY <1>4, <2>2, <3>1, <3>2, RowReplaced DEF Requeues
  <2> QED
    BY <1>4, <2>1, <2>2 DEF Requeues
<1>5. CASE Crash(t)
  BY <1>5, StillClaimed DEF Crash, db
<1> QED
  BY <1>1, <1>2, <1>3, <1>4, <1>5 DEF OptOut, GatewayRequeue

LEMMA AutoAttends ==
  ASSUME Types, Attended, NEW t \in Task, AutoPass(t)
  PROVE  Attended'
<1>1. CASE AutoBegins(t)
  BY <1>1, Unclaimed DEF AutoBegins, First, db
<1>2. CASE FindsCandidates(t)
  BY <1>2, Unclaimed DEF FindsCandidates, db
<1>3. CASE QueuesNext(t)
  BY <1>3, Unclaimed DEF QueuesNext, LooksAtRow, Through, db, Types
<1>4. CASE QueuedAll(t)
  BY <1>4, Unclaimed DEF QueuedAll, db
<1>5. CASE ReadsPending(t)
  BY <1>5, Unclaimed DEF ReadsPending, db
<1>6. CASE AutoApproves(t)
  BY <1>6, QslAssumption DEF AutoApproves, Approved, Go, Attended, Types
<1> QED
  BY <1>1, <1>2, <1>3, <1>4, <1>5, <1>6 DEF AutoPass

\* The outcome is written, or the row was not this sender's any more.
LEMMA SettlesAttends ==
  ASSUME Types, Attended, NEW t \in Task, pc[t] \in Claimed,
         NEW status \in Status, Settles(t, status), Go(t, "sending"), UNCHANGED qso
  PROVE  Attended'
<1>1. qso[t] \in Qso
  BY DEF Types
<1>2. \A r \in Qso : claim[r] = t => r = qso[t]
  BY Claimant
<1>3. \A s \in Task \ {t} : pc'[s] = pc[s] /\ qso'[s] = qso[s]
  BY DEF Go, Types
<1>4. CASE Ours(t)
  BY <1>1, <1>2, <1>3, <1>4, RowReplaced DEF Settles
<1>5. CASE ~Ours(t)
  <2>1. UNCHANGED <<row, claim>>
    BY <1>5 DEF Settles
  <2>2. \A r \in Qso : claim[r] # t
    BY <1>2, <1>5, QslAssumption DEF Ours, Attended, Types
  <2> QED
    BY <1>3, <2>1, <2>2 DEF Attended, Types
<1> QED
  BY <1>4, <1>5

LEMMA SendAttends ==
  ASSUME Types, Attended, NEW t \in Task, Send(t)
  PROVE  Attended'
<1>1. CASE ReadsBatch(t)
  BY <1>1, Unclaimed DEF ReadsBatch, First, db
<1>2. CASE Claims(t)
  <2>1. PICK q \in todo[t] : /\ row[q] = "APPROVED"
                             /\ row' = [row EXCEPT ![q] = "SENT"]
                             /\ claim' = [claim EXCEPT ![q] = t]
                             /\ qso' = [qso EXCEPT ![t] = q]
    BY <1>2 DEF Claims
  <2>2. q \in Qso /\ pc[t] = "sending" /\ pc' = [pc EXCEPT ![t] = "reread"]
    BY <1>2 DEF Claims, Go, Types
  <2> QED
    BY <2>1, <2>2, QslAssumption DEF Attended, Types
<1>3. CASE Contended(t)
  BY <1>3 DEF Contended, db, Attended
<1>4. CASE SendEnds(t)
  BY <1>4, Unclaimed DEF SendEnds, db
<1>5. CASE RereadsRow(t)
  BY <1>5, QslAssumption DEF RereadsRow, Ours, Go, db, Attended, Types
<1>6. CASE ChecksOptOut(t)
  BY <1>6, StillClaimed DEF ChecksOptOut, db
<1>7. CASE Delivers(t)
  BY <1>7, StillClaimed DEF Delivers, db
<1>8. CASE Declines(t)
  BY <1>8, SettlesAttends DEF Declines
<1>9. CASE Fails(t)
  BY <1>9, SettlesAttends DEF Fails
<1>10. CASE Records(t)
  BY <1>10, QslAssumption DEF Records, Ours, Go, Attended, Types
<1> QED
  BY <1>1, <1>2, <1>3, <1>4, <1>5, <1>6, <1>7, <1>8, <1>9, <1>10 DEF Send

LEMMA AttendedNext ==
  ASSUME FailsAt \subseteq InsideTry
  PROVE  Types /\ Attended /\ [Next]_vars => Attended'
<1> SUFFICES ASSUME Types, Attended, [Next]_vars
             PROVE  Attended'
  OBVIOUS
<1>1. ASSUME NEW t \in Task, Throws(t)
      PROVE  Attended'
  BY <1>1, StillClaimed DEF Throws, db
<1>2. ASSUME NEW q \in Qso, Approve(q)
      PROVE  Attended'
  BY <1>2, QslAssumption DEF Approve, Approved, tasks, Attended, Types
<1>3. ASSUME NEW q \in Qso, Skip(q)
      PROVE  Attended'
  BY <1>3 DEF Skip, tasks, Attended, Types
<1>4. CASE UNCHANGED vars
  BY <1>4 DEF vars, db, tasks, Attended
<1> QED
  BY <1>1, <1>2, <1>3, <1>4, EnqueueAttends, OthersAttend, AutoAttends, SendAttends DEF Next

\* "Only a crash may strand a row": when what the database fails is a statement of
\* the try, the sender whose claim a row holds is at work on it, or died.
THEOREM ThrowsStrandNothing ==
  ASSUME FailsAt \subseteq InsideTry
  PROVE  Spec => []OnlyCrashStrands
<1>1. Init => Attended
  BY DEF Init, Attended
<1>2. Attended => OnlyCrashStrands
  BY DEF Attended, OnlyCrashStrands
<1> QED
  BY TypesInit, TypesNext, <1>1, <1>2, AttendedNext, PTL DEF Spec

---------------------------------------------------------------------------
(* A skipped row is not overwritten: it follows from the guards alone, but *)
(* from those of every statement that writes a row.                        *)

Skipped(q) == row[q] = "SKIPPED" => row'[q] \in {"SKIPPED", "PENDING"}

LEMMA SettlesSkips ==
  ASSUME Types, NEW t \in Task, NEW status \in Status, Settles(t, status), NEW q \in Qso
  PROVE  Skipped(q)
  BY DEF Settles, Ours, Becomes, Skipped, Types

LEMMA SendSkips ==
  ASSUME Types, NEW t \in Task, Send(t), NEW q \in Qso
  PROVE  Skipped(q)
<1>1. CASE Claims(t)
  BY <1>1 DEF Claims, Skipped, Types
<1>2. CASE Declines(t)
  BY <1>2, SettlesSkips DEF Declines
<1>3. CASE Fails(t)
  BY <1>3, SettlesSkips DEF Fails
<1>4. CASE UNCHANGED row
  BY <1>4 DEF Skipped
<1> QED
  BY <1>1, <1>2, <1>3, <1>4
  DEF Send, ReadsBatch, Contended, SendEnds, RereadsRow, ChecksOptOut, Delivers, Records, db

LEMMA EnqueueSkips ==
  ASSUME Types, NEW t \in Task, Enqueue(t), NEW q \in Qso
  PROVE  Skipped(q)
<1>1. CASE Upserts(t)
  BY <1>1 DEF Upserts, Becomes, Skipped, Types
<1>2. CASE UNCHANGED row
  BY <1>2 DEF Skipped
<1> QED
  BY <1>1, <1>2 DEF Enqueue, Queue, Resend, NotQueuedYet, LooksUp, db

LEMMA OthersSkip ==
  ASSUME Types, NEW t \in Task, OptOut(t) \/ GatewayRequeue(t) \/ AutoPass(t), NEW q \in Qso
  PROVE  Skipped(q)
<1>1. CASE CancelsRows(t)
  BY <1>1 DEF CancelsRows, Skipped
<1>2. CASE Requeues(t)
  BY <1>2 DEF Requeues, Becomes, Skipped, Types
<1>3. CASE AutoApproves(t)
  BY <1>3 DEF AutoApproves, Approved, Skipped
<1>4. CASE UNCHANGED row
  BY <1>4 DEF Skipped
<1> QED
  BY <1>1, <1>2, <1>3, <1>4
  DEF OptOut, RecordsOptOut, GatewayRequeue, FindsAffected, AutoPass, AutoBegins,
      FindsCandidates, QueuesNext, QueuedAll, ReadsPending, db

LEMMA NextSkips == Types /\ [Next]_vars => \A q \in Qso : Skipped(q)
<1> SUFFICES ASSUME Types, [Next]_vars, NEW q \in Qso
             PROVE  Skipped(q)
  OBVIOUS
<1>1. ASSUME NEW t \in Task, Throws(t) \/ Crash(t)
      PROVE  Skipped(q)
  BY <1>1 DEF Throws, Crash, db, Skipped
<1>2. ASSUME NEW r \in Qso, Approve(r) \/ Skip(r)
      PROVE  Skipped(q)
  BY <1>2 DEF Approve, Approved, Skip, Skipped, Types
<1>3. CASE UNCHANGED vars
  BY <1>3 DEF vars, db, Skipped
<1> QED
  BY <1>1, <1>2, <1>3, SendSkips, EnqueueSkips, OthersSkip DEF Next

\* A row that was skipped, by the operator or by an opt-out, is sent or failed by no
\* sender that still has it in its batch: it comes back only to be reviewed.
THEOREM SkippedRowsStay == Spec => SkippedStays
<1>1. Types /\ [Next]_vars => [\A q \in Qso : Skipped(q)]_vars
  BY NextSkips
<1> QED
  BY TypesInit, TypesNext, <1>1, PTL DEF Spec, SkippedStays, Skipped

---------------------------------------------------------------------------
(* The opt-out that cancelled a station's rows is on the list before it    *)
(* cancels them, so whoever claims later finds it at the last look.        *)

Heeded ==
    /\ cancelled \subseteq optOuts
    /\ \A t \in Task :
          /\ pc[t] = "cancel" => callsignOf[qso[t]] \in optOuts
          /\ pc[t] \in {"reread", "checking"} /\ t \in late => callsignOf[qso[t]] \in cancelled
          /\ pc[t] = "smtp" => t \notin late

\* No opt-out is forgotten, and no task begins to cancel or to send.
Unhurried ==
    /\ optOuts \subseteq optOuts'
    /\ UNCHANGED <<cancelled, late>>
    /\ \A t \in Task : pc'[t] \in {"cancel", "reread", "checking", "smtp"} =>
                          pc'[t] = pc[t] /\ qso'[t] = qso[t]

LEMMA UnhurriedHeeds ==
  ASSUME Heeded, Unhurried
  PROVE  Heeded'
  BY DEF Heeded, Unhurried

LEMMA EnqueueHeeds ==
  ASSUME Types, Heeded, NEW t \in Task, Enqueue(t)
  PROVE  Heeded'
<1>1. CASE Queue(t)
  BY <1>1, UnhurriedHeeds DEF Queue, LooksAtRow, Through, Go, db, ghosts, Unhurried, Types
<1>2. CASE Resend(t)
  BY <1>2, UnhurriedHeeds DEF Resend, AsksOptOuts, Through, Go, db, ghosts, Unhurried, Types
<1>3. CASE NotQueuedYet(t)
  BY <1>3, UnhurriedHeeds DEF NotQueuedYet, AsksOptOuts, Through, Go, db, ghosts, Unhurried, Types
<1>4. CASE LooksUp(t)
  BY <1>4, UnhurriedHeeds DEF LooksUp, Through, Go, db, ghosts, Unhurried, Types
<1>5. CASE Upserts(t)
  BY <1>5, UnhurriedHeeds DEF Upserts, Through, Go, ghosts, Unhurried, Types
<1> QED
  BY <1>1, <1>2, <1>3, <1>4, <1>5 DEF Enqueue

LEMMA OptOutHeeds ==
  ASSUME Types, Heeded, NEW t \in Task, OptOut(t)
  PROVE  Heeded'
<1>1. CASE RecordsOptOut(t)
  <2>1. \A s \in Task \ {t} : pc'[s] = pc[s] /\ qso'[s] = qso[s]
    BY <1>1 DEF RecordsOptOut, First, Go, Types
  <2>2. pc'[t] = "cancel" /\ optOuts' = optOuts \cup {callsignOf[qso'[t]]}
    BY <1>1 DEF RecordsOptOut, Go, Types
  <2> QED
    BY <1>1, <2>1, <2>2 DEF RecordsOptOut, ghosts, Heeded
<1>2. CASE CancelsRows(t)
  <2>1. pc[t] = "cancel" /\ UNCHANGED <<optOuts, late, qso>>
    BY <1>2 DEF CancelsRows
  <2>2. cancelled' = cancelled \cup {callsignOf[qso[t]]}
    BY <1>2 DEF CancelsRows
  <2>3. \A s \in Task : pc'[s] \in {"cancel", "reread", "checking", "smtp"} => pc'[s] = pc[s]
    BY <1>2 DEF CancelsRows, Through, Go, Types
  <2> QED
    BY <2>1, <2>2, <2>3 DEF Heeded
<1> QED
  BY <1>1, <1>2 DEF OptOut

LEMMA OthersHeed ==
  ASSUME Types, Heeded, NEW t \in Task,
         GatewayRequeue(t) \/ AutoPass(t) \/ Throws(t) \/ Crash(t)
  PROVE  Heeded'
<1>1. CASE FindsAffected(t)
  BY <1>1, UnhurriedHeeds DEF FindsAffected, Go, db, ghosts, Unhurried, Types
<1>2. CASE Requeues(t)
  BY <1>2, UnhurriedHeeds DEF Requeues, Go, ghosts, Unhurried, Types
<1>3. CASE AutoBegins(t)
  BY <1>3, UnhurriedHeeds DEF AutoBegins, Go, db, ghosts, Unhurried, Types
<1>4. CASE FindsCandidates(t)
  BY <1>4, UnhurriedHeeds DEF FindsCandidates, Go, db, ghosts, Unhurried, Types
<1>5. CASE QueuesNext(t)
  BY <1>5, UnhurriedHeeds DEF QueuesNext, LooksAtRow, Through, Go, db, ghosts, Unhurried, Types
<1>6. CASE QueuedAll(t)
  BY <1>6, UnhurriedHeeds DEF QueuedAll, Go, db, ghosts, Unhurried, Types
<1>7. CASE ReadsPending(t)
  BY <1>7, UnhurriedHeeds DEF ReadsPending, Go, db, ghosts, Unhurried, Types
<1>8. CASE AutoApproves(t)
  BY <1>8, UnhurriedHeeds DEF AutoApproves, Go, Unhurried, Types
<1>9. CASE Throws(t)
  BY <1>9, UnhurriedHeeds DEF Throws, Go, db, ghosts, Unhurried, Types
<1>10. CASE Crash(t)
  BY <1>10, UnhurriedHeeds DEF Crash, Go, db, ghosts, Unhurried, Types
<1> QED
  BY <1>1, <1>2, <1>3, <1>4, <1>5, <1>6, <1>7, <1>8, <1>9, <1>10 DEF GatewayRequeue, AutoPass

LEMMA SendHeeds ==
  ASSUME Types, Heeded, NEW t \in Task, Send(t)
  PROVE  Heeded'
<1>1. CASE ReadsBatch(t)
  BY <1>1, UnhurriedHeeds DEF ReadsBatch, Go, db, ghosts, Unhurried, Types
<1>2. CASE Claims(t)
  <2>1. PICK q \in todo[t] :
           /\ qso' = [qso EXCEPT ![t] = q]
           /\ late' = IF callsignOf[q] \in cancelled THEN late \cup {t} ELSE late \ {t}
    BY <1>2 DEF Claims
  <2>2. pc' = [pc EXCEPT ![t] = "reread"] /\ UNCHANGED <<optOuts, cancelled>>
    BY <1>2 DEF Claims, Go
  <2>3. \A s \in Task \ {t} : pc'[s] = pc[s] /\ qso'[s] = qso[s] /\ (s \in late' <=> s \in late)
    BY <2>1, <2>2 DEF Types
  <2>4. pc'[t] = "reread" /\ (t \in late' => callsignOf[qso'[t]] \in cancelled)
    BY <2>1, <2>2 DEF Types
  <2> QED
    BY <2>2, <2>3, <2>4 DEF Heeded
<1>3. CASE Contended(t)
  BY <1>3, UnhurriedHeeds DEF Contended, db, ghosts, Unhurried
<1>4. CASE SendEnds(t)
  BY <1>4, UnhurriedHeeds DEF SendEnds, Go, db, ghosts, Unhurried, Types
<1>5. CASE RereadsRow(t)
  BY <1>5 DEF RereadsRow, Go, db, ghosts, Heeded, Types
<1>6. CASE ChecksOptOut(t)
  BY <1>6 DEF ChecksOptOut, Go, db, ghosts, Heeded, Types
<1>7. CASE Delivers(t)
  BY <1>7, UnhurriedHeeds DEF Delivers, Go, db, Unhurried, Types
<1>8. CASE Declines(t)
  BY <1>8, UnhurriedHeeds DEF Declines, Settles, Go, ghosts, Unhurried, Types
<1>9. CASE Fails(t)
  BY <1>9, UnhurriedHeeds DEF Fails, Settles, Go, ghosts, Unhurried, Types
<1>10. CASE Records(t)
  BY <1>10, UnhurriedHeeds DEF Records, Go, ghosts, Unhurried, Types
<1> QED
  BY <1>1, <1>2, <1>3, <1>4, <1>5, <1>6, <1>7, <1>8, <1>9, <1>10 DEF Send

LEMMA HeededNext == Types /\ Heeded /\ [Next]_vars => Heeded'
<1> SUFFICES ASSUME Types, Heeded, [Next]_vars
             PROVE  Heeded'
  OBVIOUS
<1>1. ASSUME NEW q \in Qso, Approve(q) \/ Skip(q)
      PROVE  Heeded'
  BY <1>1, UnhurriedHeeds DEF Approve, Skip, tasks, ghosts, Unhurried
<1>2. CASE UNCHANGED vars
  BY <1>2, UnhurriedHeeds DEF vars, db, tasks, ghosts, Unhurried
<1> QED
  BY <1>1, <1>2, EnqueueHeeds, OptOutHeeds, OthersHeed, SendHeeds DEF Next

\* No row claimed after its station's opt-out had cancelled what was queued is
\* mailed, whatever queued it again and however many senders are at work.
THEOREM OptOutsAreHonoured == Spec => OptOutHonoured
<1>1. Init => Heeded
  BY DEF Init, Heeded
<1>2. Heeded => [\A t \in Task : pc[t] = "smtp" /\ pc'[t] = "accepted" => t \notin late]_vars
  BY DEF Heeded
<1> QED
  BY TypesInit, TypesNext, <1>1, <1>2, HeededNext, PTL DEF Spec, OptOutHonoured

---------------------------------------------------------------------------
(* A message the server took is on its contact's record, or its sender is  *)
(* about to write it there, or died first.                                 *)

Durable ==
    /\ emailQslSent \in [Qso -> BOOLEAN]
    /\ \A t \in Task : pc[t] = "requeueing" => todo[t] \subseteq Gateway
    /\ FlagIsDurable

\* Nothing is taken by the server or unmarked, and whoever has a message to
\* record still has it.
Unrecorded ==
    /\ UNCHANGED <<emailQslSent, mails>>
    /\ \A t \in Task :
          /\ pc[t] \in {"accepted", "dead"} => pc'[t] \in {"accepted", "dead"} /\ qso'[t] = qso[t]
          /\ pc'[t] = "requeueing" => pc[t] = "requeueing" /\ todo'[t] \subseteq todo[t]

LEMMA UnrecordedLasts ==
  ASSUME Durable, Unrecorded
  PROVE  Durable'
<1>1. FlagIsDurable'
  BY DEF Durable, Unrecorded, FlagIsDurable
<1> QED
  BY <1>1 DEF Durable, Unrecorded

LEMMA EnqueueLasts ==
  ASSUME Types, NEW t \in Task, Enqueue(t)
  PROVE  Unrecorded
<1>1. CASE Queue(t)
  BY <1>1 DEF Queue, First, LooksAtRow, Through, Go, db, ghosts, Unrecorded, Types
<1>2. CASE Resend(t)
  BY <1>2 DEF Resend, First, AsksOptOuts, Through, Go, db, ghosts, Unrecorded, Types
<1>3. CASE NotQueuedYet(t)
  BY <1>3 DEF NotQueuedYet, AsksOptOuts, Through, Go, db, ghosts, Unrecorded, Types
<1>4. CASE LooksUp(t)
  BY <1>4 DEF LooksUp, Through, Go, db, ghosts, Unrecorded, Types
<1>5. CASE Upserts(t)
  BY <1>5 DEF Upserts, Through, Go, ghosts, Unrecorded, Types
<1> QED
  BY <1>1, <1>2, <1>3, <1>4, <1>5 DEF Enqueue

LEMMA OthersLast ==
  ASSUME Types, NEW t \in Task, OptOut(t) \/ AutoPass(t) \/ Crash(t)
  PROVE  Unrecorded
<1>1. CASE RecordsOptOut(t)
  BY <1>1 DEF RecordsOptOut, First, Go, ghosts, Unrecorded, Types
<1>2. CASE CancelsRows(t)
  BY <1>2 DEF CancelsRows, Through, Go, Unrecorded, Types
<1>3. CASE AutoBegins(t)
  BY <1>3 DEF AutoBegins, First, Go, db, ghosts, Unrecorded, Types
<1>4. CASE FindsCandidates(t)
  BY <1>4 DEF FindsCandidates, Go, db, ghosts, Unrecorded, Types
<1>5. CASE QueuesNext(t)
  BY <1>5 DEF QueuesNext, LooksAtRow, Through, Go, db, ghosts, Unrecorded, Types
<1>6. CASE QueuedAll(t)
  BY <1>6 DEF QueuedAll, Go, db, ghosts, Unrecorded, Types
<1>7. CASE ReadsPending(t)
  BY <1>7 DEF ReadsPending, Go, db, ghosts, Unrecorded, Types
<1>8. CASE AutoApproves(t)
  BY <1>8 DEF AutoApproves, Go, Unrecorded, Types
<1>9. CASE Crash(t)
  BY <1>9 DEF Crash, Go, db, ghosts, Unrecorded, Types
<1> QED
  BY <1>1, <1>2, <1>3, <1>4, <1>5, <1>6, <1>7, <1>8, <1>9 DEF OptOut, AutoPass

\* A re-queue clears the flag of gateway contacts only.
LEMMA GatewayLasts ==
  ASSUME Types, Durable, NEW t \in Task, GatewayRequeue(t)
  PROVE  Durable'
<1>1. CASE FindsAffected(t)
  <2>1. pc' = [pc EXCEPT ![t] = "requeueing"] /\ pc[t] = "idle"
    BY <1>1 DEF FindsAffected, First, Go
  <2>2. todo'[t] \subseteq Gateway /\ \A s \in Task \ {t} : todo'[s] = todo[s]
    BY <1>1 DEF FindsAffected, Types
  <2>3. UNCHANGED <<emailQslSent, mails, qso>>
    BY <1>1 DEF FindsAffected, db, ghosts
  <2>4. FlagIsDurable'
    BY <2>1, <2>3 DEF Durable, FlagIsDurable, Types
  <2> QED
    BY <2>1, <2>2, <2>3, <2>4 DEF Durable, Types
<1>2. CASE Requeues(t)
  <2>1. pc[t] = "requeueing" /\ UNCHANGED <<mails, qso>>
    BY <1>2 DEF Requeues, ghosts
  <2>2. CASE Go(t, "done") /\ UNCHANGED <<emailQslSent, todo>>
    <3>1. Unrecorded
      BY <2>1, <2>2 DEF Go, Unrecorded, Types
    <3> QED
      BY <3>1, UnrecordedLasts
  <2>3. ASSUME NEW q \in todo[t], emailQslSent' = [emailQslSent EXCEPT ![q] = FALSE],
               todo' = [todo EXCEPT ![t] = @ \ {q}], UNCHANGED pc
        PROVE  Durable'
    <3>1. q \in Gateway
      BY <2>1 DEF Durable
    <3>2. FlagIsDurable'
      BY <2>1, <2>3, <3>1 DEF Durable, FlagIsDurable
    <3>3. \A s \in Task : todo'[s] \subseteq todo[s]
      BY <2>3 DEF Types
    <3> QED
      BY <2>1, <2>3, <3>2, <3>3 DEF Durable
  <2> QED
    BY <1>2, <2>2, <2>3 DEF Requeues
<1> QED
  BY <1>1, <1>2 DEF GatewayRequeue

LEMMA SendLasts ==
  ASSUME Types, Durable, NEW t \in Task, Send(t)
  PROVE  Durable'
<1>1. CASE ReadsBatch(t)
  BY <1>1, UnrecordedLasts DEF ReadsBatch, First, Go, db, ghosts, Unrecorded, Types
<1>2. CASE Claims(t)
  BY <1>2, UnrecordedLasts DEF Claims, Go, Unrecorded, Types
<1>3. CASE Contended(t)
  BY <1>3, UnrecordedLasts DEF Contended, db, ghosts, Unrecorded, Types
<1>4. CASE SendEnds(t)
  BY <1>4, UnrecordedLasts DEF SendEnds, Go, db, ghosts, Unrecorded, Types
<1>5. CASE RereadsRow(t)
  BY <1>5, UnrecordedLasts DEF RereadsRow, Go, db, ghosts, Unrecorded, Types
<1>6. CASE ChecksOptOut(t)
  BY <1>6, UnrecordedLasts DEF ChecksOptOut, Go, db, ghosts, Unrecorded, Types
<1>7. CASE Delivers(t)
  <2>1. pc[t] = "smtp" /\ UNCHANGED <<emailQslSent, qso, todo>>
    BY <1>7 DEF Delivers, db
  <2>2. CASE Go(t, "refused") /\ UNCHANGED mails
    BY <2>1, <2>2, UnrecordedLasts DEF Go, Unrecorded, Types
  <2>3. CASE Go(t, "accepted") /\ mails' = [mails EXCEPT ![qso[t]][used[t]] = @ + 1]
    <3>1. pc' = [pc EXCEPT ![t] = "accepted"]
      BY <2>3 DEF Go
    <3>2. \A q \in Qso : q # qso[t] => mails'[q] = mails[q]
      BY <2>3 DEF Types
    <3>3. FlagIsDurable'
      <4> SUFFICES ASSUME NEW q \in Qso \ Gateway,
                          \E n \in 1 .. Approvals : mails'[q][n] > 0, ~emailQslSent[q]
                   PROVE  \E s \in Task : qso[s] = q /\ pc'[s] \in {"accepted", "dead"}
        BY <2>1 DEF FlagIsDurable
      <4>1. CASE q = qso[t]
        BY <3>1, <4>1 DEF Types
      <4>2. CASE q # qso[t]
        <5>1. PICK s \in Task : qso[s] = q /\ pc[s] \in {"accepted", "dead"}
          BY <3>2, <4>2 DEF Durable, FlagIsDurable
        <5> QED
          BY <3>1, <4>2, <5>1
      <4> QED
        BY <4>1, <4>2
    <3> QED
      BY <2>1, <3>1, <3>3 DEF Durable, Types
  <2> QED
    BY <1>7, <2>2, <2>3 DEF Delivers
<1>8. CASE Declines(t)
  BY <1>8, UnrecordedLasts DEF Declines, Settles, Go, ghosts, Unrecorded, Types
<1>9. CASE Fails(t)
  BY <1>9, UnrecordedLasts DEF Fails, Settles, Go, ghosts, Unrecorded, Types
<1>10. CASE Records(t)
  <2>1. pc[t] = "accepted" /\ pc' = [pc EXCEPT ![t] = "sending"] /\ UNCHANGED <<mails, qso, todo>>
    BY <1>10 DEF Records, Go, ghosts
  <2>2. emailQslSent' = [emailQslSent EXCEPT ![qso[t]] = TRUE]
    BY <1>10 DEF Records
  <2>3. FlagIsDurable'
    <3> SUFFICES ASSUME NEW q \in Qso \ Gateway,
                        \E n \in 1 .. Approvals : mails[q][n] > 0, ~emailQslSent'[q]
                 PROVE  \E s \in Task : qso[s] = q /\ pc'[s] \in {"accepted", "dead"}
      BY <2>1 DEF FlagIsDurable
    <3>1. q # qso[t] /\ ~emailQslSent[q]
      BY <2>2 DEF Durable
    <3>2. PICK s \in Task : qso[s] = q /\ pc[s] \in {"accepted", "dead"}
      BY <3>1 DEF Durable, FlagIsDurable
    <3> QED
      BY <2>1, <3>1, <3>2
  <2> QED
    BY <2>1, <2>2, <2>3 DEF Durable, Types
<1> QED
  BY <1>1, <1>2, <1>3, <1>4, <1>5, <1>6, <1>7, <1>8, <1>9, <1>10 DEF Send

LEMMA DurableNext ==
  ASSUME FailsAt \subseteq InsideTry
  PROVE  Types /\ Durable /\ [Next]_vars => Durable'
<1> SUFFICES ASSUME Types, Durable, [Next]_vars
             PROVE  Durable'
  OBVIOUS
<1>1. ASSUME NEW t \in Task, Throws(t)
      PROVE  Durable'
  BY <1>1, UnrecordedLasts DEF Throws, Go, db, ghosts, Unrecorded, Types
<1>2. ASSUME NEW q \in Qso, Approve(q) \/ Skip(q)
      PROVE  Durable'
  BY <1>2, UnrecordedLasts DEF Approve, Skip, tasks, ghosts, Unrecorded
<1>3. CASE UNCHANGED vars
  BY <1>3, UnrecordedLasts DEF vars, db, tasks, ghosts, Unrecorded
<1> QED
  BY <1>1, <1>2, <1>3, EnqueueLasts, OthersLast, UnrecordedLasts, GatewayLasts, SendLasts
  DEF Next

\* A message the server took is on its contact, whatever replaced the row meanwhile,
\* unless its sender has still to write it or died: when what the database fails is a
\* statement of the try.
THEOREM AcceptedIsRecorded ==
  ASSUME FailsAt \subseteq InsideTry
  PROVE  Spec => []FlagIsDurable
<1>1. Init => Durable
  BY DEF Init, Durable, FlagIsDurable
<1>2. Durable => FlagIsDurable
  BY DEF Durable
<1> QED
  BY TypesInit, TypesNext, <1>1, <1>2, DurableNext, PTL DEF Spec
=============================================================================
