---------------------------- MODULE QsoSequencer ----------------------------
(***************************************************************************)
(* One contact as QsoSequencer of lib/digital/qso.ts conducts it: a value   *)
(* and what decodes and transmit windows make of it.  The sequencer never   *)
(* transmits; it says what it would send, and how the contact ended.        *)
(*                                                                         *)
(* A statement is what the parser makes of a message: who says what kind   *)
(* of thing to whom.  RRR and RR73 are one kind here, as every branch of    *)
(* the code treats them alike.                                              *)
(***************************************************************************)
EXTENDS Naturals, Sequences

CONSTANTS
    maxRepeats,     \* QsoOptions.maxRepeats
    None

ASSUME RepeatsAssumption == maxRepeats \in Nat \ {0}

ClosingRepeatLimit == 2

Closings == {"rr73", "73"}
Kinds == {"cq", "grid", "report", "rreport", "rexchange"} \cup Closings
ASSUME NoneAssumption == None \notin Kinds

Statement(from, to, kind) == [from |-> from, to |-> to, kind |-> kind]

Waiting == {"calling", "report-sent", "rreport-sent", "rr73-sent"}
States == Waiting \cup {"complete", "abandoned"}

\* `seen` holds the transmissions of the latest receive window already applied: a
\* decode of an older window does not come again.
NewSequencer(me, them, role) ==
    [me |-> me, them |-> them,
     state |-> IF role = "caller" THEN "calling" ELSE "report-sent",
     reportRcvd |-> FALSE, repeats |-> 0, stalledRx |-> 0, lastSent |-> None,
     closingTo |-> None, closingCount |-> 0, owes |-> None,
     pending |-> FALSE, logged |-> FALSE, seen |-> {}]

isDone(q) == q.state \in {"complete", "abandoned"}

NextWindow(q) == [q EXCEPT !.seen = {}]

-----------------------------------------------------------------------------
\* What a decode does.

\* Fault: the contact is given up without being marked for the next tick to report.
abandonForSilently(q) == [q EXCEPT !.state = "abandoned"]

abandonFor(q) == [q EXCEPT !.state = "abandoned", !.pending = TRUE]

\* Fault: whom the partner turned to is noted as the partner.
ToAnotherNoted(q, m) == [q EXCEPT !.closingTo = m.from, !.closingCount = @ + 1]

\* The partner talks to somebody else.  One closing frees them; the same closing
\* again, or anything else, means they are not listening for us.
ToAnother(q, m) ==
    LET count == IF q.closingTo = m.to THEN q.closingCount + 1 ELSE 1
        streak == [q EXCEPT !.closingTo = m.to, !.closingCount = count]
    IN  CASE m.kind \notin Closings -> abandonFor(q)
          [] m.kind \in Closings /\ count >= ClosingRepeatLimit -> abandonFor(streak)
          [] OTHER -> streak

\* The pairs of state and statement that close the contact.
ClosedBy ==
    ({"calling", "rreport-sent", "rr73-sent"} \X {"rr73"})
        \cup ({"rreport-sent", "rr73-sent"} \X {"73"})
        \cup ({"calling"} \X {"rexchange"})

MovesTo(state, kind) ==
    CASE state = "calling" /\ kind = "report" -> "rreport-sent"
      [] state = "report-sent" /\ kind = "rreport" -> "rr73-sent"
      [] <<state, kind>> \in ClosedBy -> "complete"
      [] OTHER -> state

\* The sign-off still owed when `kind` closes the contact.
Owed(state, kind) ==
    CASE kind = "rexchange" -> "rr73"
      [] kind = "rr73" /\ state # "rr73-sent" -> "73"
      [] OTHER -> None

\* Fault: any answer renews the patience.
ToUsRenewed(q, m) ==
    LET to == MovesTo(q.state, m.kind)
    IN  [q EXCEPT !.closingTo = None, !.closingCount = 0,
                  !.reportRcvd = @ \/ m.kind \in {"report", "rreport"},
                  !.state = to,
                  !.owes = IF to = "complete" THEN Owed(q.state, m.kind) ELSE @,
                  !.repeats = 0, !.stalledRx = 0]

\* An answer that brought nothing is counted; beyond maxRepeats the count makes no difference.
Counted(n) == IF n < maxRepeats THEN n + 1 ELSE n

\* The partner talks to us.  Only progress renews the patience.
ToUs(q, m) ==
    LET to == MovesTo(q.state, m.kind)
        moved == to # q.state
    IN  [q EXCEPT !.closingTo = None, !.closingCount = 0,
                  !.reportRcvd = @ \/ m.kind \in {"report", "rreport"},
                  !.state = to,
                  !.owes = IF to = "complete" THEN Owed(q.state, m.kind) ELSE @,
                  !.repeats = IF moved THEN 0 ELSE @,
                  !.stalledRx = IF moved THEN 0 ELSE Counted(@)]

applyOne(q, m) ==
    CASE m.from # q.them \/ m.kind = "cq" -> q
      [] m.from = q.them /\ m.kind # "cq" /\ m.to # q.me -> ToAnother(q, m)
      [] OTHER -> ToUs(q, m)

\* A transmission is one statement, or the two of a fox/hound message.
onDecode(q, raw) ==
    LET noted == [q EXCEPT !.seen = @ \cup {raw}]
        first == applyOne(noted, raw[1])
    IN  CASE isDone(q) \/ raw \in q.seen -> q
          [] ~isDone(q) /\ raw \notin q.seen /\ (Len(raw) = 1 \/ isDone(first)) -> first
          [] OTHER -> applyOne(first, raw[2])

-----------------------------------------------------------------------------
\* What a transmit window does: the sequencer after it, what to send, and whether the
\* contact is logged, given up, and kept as an incomplete exchange.

Says(q, send) == [seq |-> q, send |-> send, log |-> FALSE, gaveUp |-> FALSE, kept |-> FALSE]

\* Fault: what has been exchanged is not kept.
GivesUpForGood(q) ==
    [Says([q EXCEPT !.state = "abandoned", !.pending = FALSE], None) EXCEPT !.gaveUp = TRUE]

GivesUp(q) ==
    [Says([q EXCEPT !.state = "abandoned", !.pending = FALSE], None)
        EXCEPT !.gaveUp = TRUE, !.kept = q.reportRcvd]

\* Fault: logged again by every tick of a complete contact.
LogsAgain(q) == [Says([q EXCEPT !.logged = TRUE], q.owes) EXCEPT !.log = TRUE]

\* Logged once, with the sign-off that is owed.
Logs(q) ==
    IF q.logged THEN Says(q, None)
    ELSE [Says([q EXCEPT !.logged = TRUE], q.owes) EXCEPT !.log = TRUE]

NextMessage(state) ==
    CASE state = "calling" -> "grid"
      [] state = "report-sent" -> "report"
      [] state = "rreport-sent" -> "rreport"
      [] OTHER -> "rr73"

\* Fault: a roger repeated often enough is taken for an answer.
RepeatsAndLogs(q) ==
    LET next == NextMessage(q.state)
        again == [q EXCEPT !.lastSent = next, !.repeats = IF next = q.lastSent THEN @ + 1 ELSE @]
        spent == next = q.lastSent /\ again.repeats >= maxRepeats
    IN  CASE ~spent -> Says(again, next)
          [] spent /\ q.state # "calling" -> Logs([again EXCEPT !.state = "complete"])
          [] OTHER -> GivesUp(again)

\* Sends the message of its state, and gives up or, once RR73 has been sent, logs when it
\* has said the same thing often enough.
Repeats(q) ==
    LET next == NextMessage(q.state)
        again == [q EXCEPT !.lastSent = next, !.repeats = IF next = q.lastSent THEN @ + 1 ELSE @]
        spent == next = q.lastSent /\ again.repeats >= maxRepeats
    IN  CASE ~spent -> Says(again, next)
          [] spent /\ q.state = "rr73-sent" -> Logs([again EXCEPT !.state = "complete"])
          [] OTHER -> GivesUp(again)

tick(q) ==
    CASE q.state = "abandoned" -> IF q.pending THEN GivesUp(q) ELSE Says(q, None)
      [] q.state # "abandoned" /\ q.stalledRx >= maxRepeats -> GivesUp(q)
      [] q.state = "complete" /\ q.stalledRx < maxRepeats -> Logs(q)
      [] OTHER -> Repeats(q)
=============================================================================
