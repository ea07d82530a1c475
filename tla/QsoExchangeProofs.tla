-------------------------- MODULE QsoExchangeProofs --------------------------
(***************************************************************************)
(* A contact between two stations that both run the sequencer, for any      *)
(* patience and any number of other stations.  The invariant relates the    *)
(* two ends through what can be on the air between them: the answerer has   *)
(* the caller's report only if the caller has the answerer's, and the       *)
(* caller's end is complete only if the answerer has rogered.               *)
(***************************************************************************)
EXTENDS QsoExchange, TLAPS

USE RepeatsAssumption, NoneAssumption, StationsAssumption

Raws == {<<m>> : m \in [from : Ends, to : Ends \cup Third, kind : Kinds]}

Sequencers ==
    [me : Ends, them : Ends, state : States, reportRcvd : BOOLEAN,
     repeats : 0 .. maxRepeats, stalledRx : 0 .. maxRepeats, lastSent : Ticks,
     closingTo : Third \cup {None}, closingCount : Nat, owes : Ticks,
     pending : BOOLEAN, logged : BOOLEAN, seen : SUBSET Raws]

\* What the sequencer keeps to while it waits for an answer.
Patient(q) ==
    q.state \in Waiting => q.repeats < maxRepeats /\ q.owes = None /\ ~q.logged

---------------------------------------------------------------------------
(* What a decode and a tick make of a sequencer *)

LEMMA EndsAre ==
  /\ Ends = {Caller, Answerer} /\ Caller # Answerer
  /\ \A s \in Ends : Other(s) \in Ends /\ Other(s) # s /\ Other(Other(s)) = s
  BY DEF Ends, Other

LEMMA NewTypes ==
  ASSUME NEW s \in Ends, NEW role \in {"caller", "answerer"}
  PROVE  /\ NewSequencer(s, Other(s), role) \in Sequencers
         /\ Patient(NewSequencer(s, Other(s), role))
  BY EndsAre DEF NewSequencer, Sequencers, Patient, States, Waiting, Ticks

\* What turning to another leaves alone.
Alike(r, q) ==
    /\ r.me = q.me /\ r.them = q.them /\ r.reportRcvd = q.reportRcvd /\ r.logged = q.logged
    /\ r.repeats = q.repeats /\ r.lastSent = q.lastSent /\ r.owes = q.owes

\* To another: the state stays or the contact is given up.
LEMMA ToAnotherEffect ==
  ASSUME NEW q \in Sequencers, NEW f \in Ends, NEW x \in Third, NEW k \in Kinds
  PROVE  /\ ToAnother(q, Statement(f, x, k)) \in Sequencers
         /\ ToAnother(q, Statement(f, x, k)).state \in {q.state, "abandoned"}
         /\ Alike(ToAnother(q, Statement(f, x, k)), q)
<1> DEFINE m == Statement(f, x, k)
           count == IF q.closingTo = x THEN q.closingCount + 1 ELSE 1
           streak == [q EXCEPT !.closingTo = x, !.closingCount = count]
<1>1. m.to = x /\ m.kind = k /\ count \in Nat
  BY DEF Statement, Sequencers
<1>2. streak \in Sequencers /\ streak.state = q.state
  BY <1>1 DEF Sequencers
<1>3. abandonFor(q) \in Sequencers /\ abandonFor(q).state = "abandoned"
  BY DEF abandonFor, Sequencers, States
<1>4. abandonFor(streak) \in Sequencers /\ abandonFor(streak).state = "abandoned"
  BY <1>2 DEF abandonFor, Sequencers, States
<1>5. ToAnother(q, m) \in {abandonFor(q), abandonFor(streak), streak}
  BY <1>1 DEF ToAnother
<1>6. Alike(streak, q)
  BY <1>1 DEF Sequencers, Alike
<1>7. Alike(abandonFor(q), q) /\ Alike(abandonFor(streak), streak)
  BY <1>2 DEF abandonFor, Sequencers, Alike
<1>8. Alike(abandonFor(streak), q)
  BY <1>6, <1>7 DEF Alike
<1> HIDE DEF m, streak
<1> QED
  BY <1>2, <1>3, <1>4, <1>5, <1>6, <1>7, <1>8 DEF m

LEMMA MovesToWhere ==
  ASSUME NEW state \in States, NEW k \in Kinds
  PROVE  /\ MovesTo(state, k) \in States \ {"abandoned"} \/ MovesTo(state, k) = state
         /\ Owed(state, k) \in Ticks
  BY DEF MovesTo, Owed, ClosedBy, States, Waiting, Ticks

Answer(q, b, to, owes, n, stalled) ==
    [q EXCEPT !.closingTo = None, !.closingCount = 0, !.reportRcvd = b, !.state = to,
              !.owes = owes, !.repeats = n, !.stalledRx = stalled]

LEMMA AnswerEffect ==
  ASSUME NEW q \in Sequencers, NEW b \in BOOLEAN, NEW to \in States, NEW owes \in Ticks,
         NEW n \in 0 .. maxRepeats, NEW stalled \in 0 .. maxRepeats
  PROVE  LET r == Answer(q, b, to, owes, n, stalled)
         IN  /\ r \in Sequencers
             /\ r.me = q.me /\ r.them = q.them /\ r.lastSent = q.lastSent
             /\ r.logged = q.logged /\ r.state = to /\ r.reportRcvd = b
             /\ r.owes = owes /\ r.repeats = n
  BY DEF Answer, Sequencers

LEMMA ToUsEffect ==
  ASSUME NEW q \in Sequencers, NEW f \in Ends, NEW k \in Kinds
  PROVE  LET r == ToUs(q, Statement(f, q.me, k)) IN
         /\ r \in Sequencers
         /\ r.me = q.me /\ r.them = q.them /\ r.lastSent = q.lastSent /\ r.logged = q.logged
         /\ r.state = MovesTo(q.state, k)
         /\ r.reportRcvd = (q.reportRcvd \/ k \in {"report", "rreport"})
         /\ r.owes = IF r.state = "complete" THEN Owed(q.state, k) ELSE q.owes
         /\ r.repeats = IF r.state # q.state THEN 0 ELSE q.repeats
<1> DEFINE r == ToUs(q, Statement(f, q.me, k))
           b == q.reportRcvd \/ k \in {"report", "rreport"}
           to == MovesTo(q.state, k)
           owes == IF to = "complete" THEN Owed(q.state, k) ELSE q.owes
           n == IF to # q.state THEN 0 ELSE q.repeats
           stalled == IF to # q.state THEN 0 ELSE Counted(q.stalledRx)
<1>1. b \in BOOLEAN
  OBVIOUS
<1>2. to \in States /\ Owed(q.state, k) \in Ticks
  BY MovesToWhere DEF Sequencers
<1>3. owes \in Ticks
  BY <1>2 DEF Sequencers
<1>4. n \in 0 .. maxRepeats
  BY DEF Sequencers
<1>5. stalled \in 0 .. maxRepeats
  <2>1. q.stalledRx \in 0 .. maxRepeats
    BY DEF Sequencers
  <2>2. Counted(q.stalledRx) \in 0 .. maxRepeats
    BY <2>1 DEF Counted
  <2> QED
    BY <2>2
<1>6. r = Answer(q, b, to, owes, n, stalled)
  BY Zenon DEF ToUs, Answer, Statement
<1>7. owes = (IF to = "complete" THEN Owed(q.state, k) ELSE q.owes)
  OBVIOUS
<1>8. n = IF to # q.state THEN 0 ELSE q.repeats
  OBVIOUS
<1> HIDE DEF r, b, to, owes, n, stalled
<1>9. /\ r \in Sequencers
      /\ r.me = q.me /\ r.them = q.them /\ r.lastSent = q.lastSent
      /\ r.logged = q.logged /\ r.state = to /\ r.reportRcvd = b
      /\ r.owes = owes /\ r.repeats = n
  BY <1>1, <1>2, <1>3, <1>4, <1>5, <1>6, AnswerEffect
<1> QED
  BY <1>7, <1>8, <1>9, Zenon DEF r, b, to

Noted(q, raw) == [q EXCEPT !.seen = @ \cup {raw}]

LEMMA NotedEffect ==
  ASSUME NEW q \in Sequencers, NEW raw \in Raws
  PROVE  /\ Noted(q, raw) \in Sequencers
         /\ Alike(Noted(q, raw), q) /\ Noted(q, raw).state = q.state
<1>1. q.seen \cup {raw} \in SUBSET Raws
  BY DEF Sequencers
<1>2. \A all \in SUBSET Raws : [q EXCEPT !.seen = all] \in Sequencers
  BY DEF Sequencers
<1>3. Noted(q, raw) = [q EXCEPT !.seen = q.seen \cup {raw}]
  BY Zenon DEF Noted, Sequencers
<1>4. \A all \in SUBSET Raws :
         Alike([q EXCEPT !.seen = all], q) /\ [q EXCEPT !.seen = all].state = q.state
  BY DEF Sequencers, Alike
<1> QED
  BY <1>1, <1>2, <1>3, <1>4

\* What an answer from the partner makes of the contact.
Answered(r, q, k) ==
    /\ r.me = q.me /\ r.them = q.them /\ r.lastSent = q.lastSent /\ r.logged = q.logged
    /\ r.state = MovesTo(q.state, k)
    /\ r.reportRcvd = (q.reportRcvd \/ k \in {"report", "rreport"})
    /\ r.owes = IF r.state = "complete" THEN Owed(q.state, k) ELSE q.owes
    /\ r.repeats = IF r.state # q.state THEN 0 ELSE q.repeats

\* What one transmission of the partner's does: nothing but being noted, or giving up, or
\* what an answer does.
Decoded(r, q, to, k) ==
    /\ r \in Sequencers
    /\ \/ Alike(r, q) /\ r.state = q.state
       \/ Alike(r, q) /\ r.state = "abandoned" /\ ~isDone(q)
       \/ to = q.me /\ k # "cq" /\ Answered(r, q, k) /\ ~isDone(q)

LEMMA DecodeEffect ==
  ASSUME NEW q \in Sequencers, NEW to \in Ends \cup Third, NEW k \in Kinds,
         k = "cq" \/ to = q.me \/ to \in Third
  PROVE  Decoded(onDecode(q, <<Statement(q.them, to, k)>>), q, to, k)
<1> DEFINE m == Statement(q.them, to, k)
           raw == <<m>>
           noted == Noted(q, raw)
           r == onDecode(q, raw)
<1>1. /\ m.from = q.them /\ m.to = to /\ m.kind = k
      /\ m \in [from : Ends, to : Ends \cup Third, kind : Kinds]
  BY DEF Statement, Sequencers
<1>2. raw \in Raws /\ Len(raw) = 1 /\ raw[1] = m
  BY <1>1 DEF Raws
<1>3. noted \in Sequencers /\ Alike(noted, q) /\ noted.state = q.state
  BY <1>2, NotedEffect
<1>4. Alike(q, q)
  BY DEF Alike
<1> HIDE DEF raw, noted
<1>5. r = q \/ (r = applyOne(noted, m) /\ ~isDone(q))
  BY <1>2, Zenon DEF onDecode, noted, Noted
<1>6. noted.them = q.them /\ noted.me = q.me /\ q.them \in Ends
  BY <1>3 DEF Alike, Sequencers
<1>7. ASSUME r = q PROVE Decoded(r, q, to, k)
  BY <1>4, <1>7 DEF Decoded
<1>8. ASSUME r = applyOne(noted, m), ~isDone(q) PROVE Decoded(r, q, to, k)
  <2>1. CASE k = "cq"
    <3>1. applyOne(noted, m) = noted
      BY <1>1, <1>6, <2>1, Zenon DEF applyOne
    <3> QED
      BY <3>1, <1>3, <1>8 DEF Decoded
  <2>2. CASE k # "cq" /\ to # q.me
    <3>1. applyOne(noted, m) = ToAnother(noted, m)
      BY <1>1, <1>6, <2>2, Zenon DEF applyOne
    <3>2. to \in Third
      BY <2>2
    <3>3. /\ r \in Sequencers
          /\ r.state \in {noted.state, "abandoned"} /\ Alike(r, noted)
      BY <3>1, <3>2, <1>3, <1>6, <1>8, ToAnotherEffect
    <3>4. Alike(r, q)
      BY <3>3, <1>3 DEF Alike
    <3> QED
      BY <3>3, <3>4, <1>3, <1>8 DEF Decoded
  <2>3. CASE k # "cq" /\ to = q.me
    <3>1. applyOne(noted, m) = ToUs(noted, m)
      BY <1>1, <1>6, <2>3, Zenon DEF applyOne
    <3>2. m = Statement(q.them, noted.me, k)
      BY <2>3, <1>6
    <3>3. r \in Sequencers /\ Answered(r, noted, k)
      BY <3>1, <3>2, <1>3, <1>6, <1>8, ToUsEffect DEF Answered
    <3>4. Answered(r, q, k)
      BY <3>3, <1>3 DEF Answered, Alike
    <3> QED
      BY <3>3, <3>4, <2>3, <1>8 DEF Decoded
  <2> QED
    BY <2>1, <2>2, <2>3
<1> HIDE DEF r, m
<1>9. raw = <<Statement(q.them, to, k)>>
  BY DEF raw, m
<1>10. r = onDecode(q, <<Statement(q.them, to, k)>>)
  BY <1>9 DEF r
<1> QED
  BY <1>5, <1>7, <1>8, <1>10

\* What a tick may come to: the contact is given up, logged or over, or a message sent again.
HasGivenUp(t, q) ==
    t.gaveUp /\ ~t.log /\ t.send = None /\ t.kept = q.reportRcvd /\ t.seq.state = "abandoned"

HasLogged(t, q) ==
    /\ t.log /\ ~t.gaveUp /\ t.send = q.owes
    /\ q.state \in {"complete", "rr73-sent"} /\ t.seq.state = "complete"

HasNothing(t, q) ==
    ~t.log /\ ~t.gaveUp /\ t.send = None /\ q.state \notin Waiting /\ t.seq.state = q.state

HasRepeated(t, q) ==
    /\ ~t.log /\ ~t.gaveUp
    /\ q.state \in Waiting /\ t.seq.state = q.state
    /\ t.send = NextMessage(q.state) /\ t.seq.lastSent = t.send
    /\ t.seq.repeats = IF q.lastSent = t.send THEN q.repeats + 1 ELSE q.repeats
    /\ t.seq.repeats < maxRepeats /\ ~t.seq.logged

Kept(r, q) ==
    /\ r \in Sequencers
    /\ r.me = q.me /\ r.them = q.them /\ r.reportRcvd = q.reportRcvd /\ r.owes = q.owes

Ticked(t, q) ==
    /\ Kept(t.seq, q)
    /\ HasGivenUp(t, q) \/ HasLogged(t, q) \/ HasNothing(t, q) \/ HasRepeated(t, q)

LEMMA GivesUpEffect ==
  ASSUME NEW q \in Sequencers, NEW r \in Sequencers, Kept(r, q)
  PROVE  Ticked(GivesUp(r), q)
<1> DEFINE over == [r EXCEPT !.state = "abandoned", !.pending = FALSE]
           t == GivesUp(r)
<1>1. Kept(over, r) /\ over.state = "abandoned"
  BY DEF Sequencers, States, Kept
<1> HIDE DEF over
<1>2. t.seq = over /\ t.send = None /\ t.gaveUp = TRUE /\ t.log = FALSE /\ t.kept = r.reportRcvd
  BY DEF GivesUp, Says, over
<1> HIDE DEF t
<1>3. Kept(over, q) /\ t.kept = q.reportRcvd
  BY <1>1, <1>2 DEF Kept
<1>4. Ticked(t, q)
  BY <1>1, <1>2, <1>3 DEF Ticked, HasGivenUp
<1> QED
  BY <1>4 DEF t

LEMMA LogsEffect ==
  ASSUME NEW q \in Sequencers, NEW r \in Sequencers, Kept(r, q),
         r.state = "complete", q.state = "complete" \/ q.state = "rr73-sent",
         r.logged => q.state = "complete"
  PROVE  Ticked(Logs(r), q)
<1> DEFINE over == [r EXCEPT !.logged = TRUE]
           t == Logs(r)
<1>1. CASE r.logged
  <2>1. t = Says(r, None)
    BY <1>1, Zenon DEF Logs
  <2>2. t.seq = r /\ t.send = None /\ t.gaveUp = FALSE /\ t.log = FALSE
    BY <2>1 DEF Says
  <2> HIDE DEF t
  <2>3. HasNothing(t, q)
    BY <1>1, <2>2 DEF HasNothing, Waiting
  <2>4. Ticked(t, q)
    BY <2>2, <2>3 DEF Ticked
  <2> QED
    BY <2>4 DEF t
<1>2. CASE ~r.logged
  <2>1. Kept(over, r) /\ over.state = "complete" /\ over.owes = r.owes
    BY DEF Sequencers, Kept
  <2>2. t = [Says(over, r.owes) EXCEPT !.log = TRUE]
    BY <1>2, Zenon DEF Logs
  <2> HIDE DEF over
  <2>3. t.seq = over /\ t.send = r.owes /\ t.gaveUp = FALSE /\ t.log = TRUE
    BY <2>2 DEF Says
  <2> HIDE DEF t
  <2>4. Kept(over, q) /\ r.owes = q.owes
    BY <2>1 DEF Kept
  <2>5. HasLogged(t, q)
    BY <2>1, <2>3, <2>4 DEF HasLogged
  <2>6. Ticked(t, q)
    BY <2>3, <2>4, <2>5 DEF Ticked
  <2> QED
    BY <2>6 DEF t
<1> QED
  BY <1>1, <1>2

LEMMA NextMessageTypes ==
  ASSUME NEW state \in Waiting
  PROVE  NextMessage(state) \in Ticks \ {None, "73"}
  BY DEF NextMessage, Ticks, Waiting, Kinds, Closings

LEMMA RepeatsEffect ==
  ASSUME NEW q \in Sequencers, Patient(q), q.state \in Waiting
  PROVE  Ticked(Repeats(q), q)
<1> DEFINE next == NextMessage(q.state)
           n == IF next = q.lastSent THEN q.repeats + 1 ELSE q.repeats
           again == [q EXCEPT !.lastSent = next, !.repeats = n]
           spent == next = q.lastSent /\ again.repeats >= maxRepeats
           t == Repeats(q)
<1>1. next \in Ticks
  BY NextMessageTypes
<1>2. n \in 0 .. maxRepeats /\ (n >= maxRepeats => next = q.lastSent)
  BY DEF Sequencers, Patient
<1> HIDE DEF next, n
<1>3. /\ Kept(again, q) /\ again.state = q.state /\ again.repeats = n
      /\ again.lastSent = next /\ again.logged = q.logged
  BY <1>1, <1>2 DEF Sequencers, Kept
<1>4. again = [q EXCEPT !.lastSent = next,
                        !.repeats = IF next = q.lastSent THEN @ + 1 ELSE @]
  BY Zenon DEF n, Sequencers
<1> HIDE DEF again
<1>5. t = CASE ~spent -> Says(again, next)
            [] spent /\ q.state = "rr73-sent" -> Logs([again EXCEPT !.state = "complete"])
            [] OTHER -> GivesUp(again)
  BY <1>4, Zenon DEF Repeats, next
<1> HIDE DEF spent
<1>6. CASE ~spent
  <2>1. t = Says(again, next)
    BY <1>5, <1>6, Zenon
  <2> HIDE DEF t
  <2>2. t.seq = again /\ t.send = next /\ t.gaveUp = FALSE /\ t.log = FALSE
    BY <2>1 DEF Says
  <2>3. n < maxRepeats
    BY <1>2, <1>3, <1>6 DEF spent
  <2>4. HasRepeated(t, q)
    BY <1>3, <2>2, <2>3 DEF HasRepeated, next, n, Patient
  <2>5. Ticked(t, q)
    BY <1>3, <2>2, <2>4 DEF Ticked
  <2> QED
    BY <2>5 DEF t
<1>7. CASE spent /\ q.state = "rr73-sent"
  <2> DEFINE done == [again EXCEPT !.state = "complete"]
  <2>1. Kept(done, again) /\ done.state = "complete" /\ done.logged = again.logged
    BY <1>3 DEF Kept, Sequencers, States
  <2> HIDE DEF done
  <2>2. Kept(done, q) /\ done \in Sequencers /\ ~done.logged
    BY <1>3, <2>1 DEF Kept, Patient
  <2>3. t = Logs(done)
    BY <1>5, <1>7, Zenon DEF done
  <2> HIDE DEF t
  <2>4. Ticked(Logs(done), q)
    BY <1>7, <2>1, <2>2, LogsEffect
  <2> QED
    BY <2>3, <2>4 DEF t
<1>8. CASE spent /\ q.state # "rr73-sent"
  <2>1. t = GivesUp(again)
    BY <1>5, <1>8, Zenon
  <2> HIDE DEF t
  <2>2. again \in Sequencers
    BY <1>3 DEF Kept
  <2>3. Ticked(GivesUp(again), q)
    BY <1>3, <2>2, GivesUpEffect
  <2> QED
    BY <2>1, <2>3 DEF t
<1> QED
  BY <1>6, <1>7, <1>8

LEMMA TickEffect ==
  ASSUME NEW q \in Sequencers, Patient(q)
  PROVE  Ticked(tick(q), q)
<1>1. Kept(q, q)
  BY DEF Kept
<1>2. CASE q.state = "abandoned"
  <2>1. CASE q.pending
    <3>1. tick(q) = GivesUp(q)
      BY <1>2, <2>1, Zenon DEF tick
    <3> QED
      BY <1>1, <3>1, GivesUpEffect
  <2>2. CASE ~q.pending
    <3> DEFINE t == tick(q)
    <3>1. t = Says(q, None)
      BY <1>2, <2>2, Zenon DEF tick
    <3> HIDE DEF t
    <3>2. t.seq = q /\ t.send = None /\ t.gaveUp = FALSE /\ t.log = FALSE
      BY <3>1 DEF Says
    <3>3. HasNothing(t, q)
      BY <1>2, <3>2 DEF HasNothing, Waiting
    <3>4. Ticked(t, q)
      BY <1>1, <3>2, <3>3 DEF Ticked
    <3> QED
      BY <3>4 DEF t
  <2> QED
    BY <2>1, <2>2
<1>3. CASE q.state # "abandoned" /\ q.stalledRx >= maxRepeats
  <2>1. ~(q.stalledRx < maxRepeats)
    BY <1>3 DEF Sequencers
  <2>2. tick(q) = GivesUp(q)
    BY <1>3, <2>1, Zenon DEF tick
  <2> QED
    BY <1>1, <2>2, GivesUpEffect
<1>4. CASE q.state # "abandoned" /\ q.stalledRx < maxRepeats
  <2>1. ~(q.stalledRx >= maxRepeats)
    BY <1>4 DEF Sequencers
  <2>2. CASE q.state = "complete"
    <3>1. tick(q) = Logs(q)
      BY <1>4, <2>1, <2>2, Zenon DEF tick
    <3> QED
      BY <1>1, <2>2, <3>1, LogsEffect
  <2>3. CASE q.state # "complete"
    <3>1. tick(q) = Repeats(q)
      BY <1>4, <2>1, <2>3, Zenon DEF tick
    <3>2. q.state \in Waiting
      BY <1>4, <2>3 DEF Sequencers, States
    <3> QED
      BY <3>1, <3>2, RepeatsEffect
  <2> QED
    BY <2>2, <2>3
<1> QED
  BY <1>2, <1>3, <1>4 DEF Sequencers

---------------------------------------------------------------------------
(* The invariant *)

Typed ==
    /\ turn \in Ends /\ outcome \in [Ends -> Outcomes] /\ sent \in [Ends -> Nat]
    /\ seq \in [Ends -> Sequencers]
    /\ \A s \in Ends : seq[s].me = s /\ seq[s].them = Other(s) /\ Patient(seq[s])

First(s) == IF s = Caller THEN "calling" ELSE "report-sent"
Second(s) == IF s = Caller THEN "rreport-sent" ELSE "rr73-sent"

\* An end that has begun to wait for its roger, or is through, has the other's report.
InRole(s) ==
    /\ seq[s].state \in {First(s), Second(s), "complete", "abandoned"}
    /\ seq[s].state = First(s) => ~seq[s].reportRcvd
    /\ seq[s].state \in {Second(s), "complete"} => seq[s].reportRcvd

\* The reports are exchanged in order, and the caller's end is complete, or owes a 73,
\* only when both have theirs.
InOrder ==
    /\ seq[Answerer].reportRcvd => seq[Caller].reportRcvd
    /\ seq[Caller].state = "complete" => seq[Answerer].reportRcvd
    /\ outcome[Caller] # "idle"
    /\ outcome[Answerer] = "idle" => ~seq[Answerer].reportRcvd
    /\ \A s \in Ends : seq[s].owes # None =>
          s = Caller /\ seq[s].owes = "73" /\ seq[s].reportRcvd

\* What an end may be heard telling the other.
Meant(s, k) ==
    \/ k = IF s = Caller THEN "grid" ELSE "report"
    \/ k \in (IF s = Caller THEN {"rreport", "73"} ELSE {"rr73"}) /\ seq[s].reportRcvd

AirMeant ==
    \/ air \in {<<>>, Silence}
    \/ \E to \in Third \cup Ends, k \in Kinds :
          /\ air = OnAir(turn, to, k)
          /\ k = "cq" \/ to \in Third \/ (to = Other(turn) /\ Meant(turn, k))

\* How often an end has spoken, by where its sequencer is.
Spoken(s) ==
    LET q == seq[s]
        next == NextMessage(q.state)
    IN  /\ sent[s] <= 2 * maxRepeats + 1
        /\ outcome[s] = "working" => sent[s] <= 2 * maxRepeats
        /\ outcome[s] = "idle" => sent[s] = 0
        /\ q.state = First(s) =>
              IF q.lastSent = None THEN sent[s] = 0
              ELSE q.lastSent = next /\ sent[s] <= q.repeats + 1
        /\ q.state = Second(s) =>
              sent[s] <= IF q.lastSent = next THEN maxRepeats + q.repeats + 1 ELSE maxRepeats

ExchangeInv ==
    /\ Typed
    /\ \A s \in Ends : InRole(s)
    /\ InOrder /\ AirMeant
    /\ \A s \in Ends : Spoken(s)
    /\ LoggedInEarnest

LEMMA ExchangeInit == Init => ExchangeInv
<1> SUFFICES ASSUME Init PROVE ExchangeInv
  OBVIOUS
<1> DEFINE new(s) == NewSequencer(s, Other(s), IF s = Caller THEN "caller" ELSE "answerer")
<1>1. \A s \in Ends : new(s) \in Sequencers /\ Patient(new(s))
  BY NewTypes
<1>2. \A s \in Ends :
         /\ new(s).me = s /\ new(s).them = Other(s) /\ new(s).state = First(s)
         /\ ~new(s).reportRcvd /\ new(s).owes = None /\ new(s).lastSent = None
  BY EndsAre DEF NewSequencer, First
<1> HIDE DEF new
<1>3. seq = [s \in Ends |-> new(s)]
  BY Zenon DEF Init, new
<1>4. /\ outcome = [s \in Ends |-> IF s = Caller THEN "working" ELSE "idle"]
      /\ turn = Caller /\ air = <<>> /\ sent = [s \in Ends |-> 0]
  BY DEF Init
<1>5. Typed
  BY <1>1, <1>2, <1>3, <1>4, EndsAre DEF Typed, Outcomes, Over
<1>6. \A s \in Ends : InRole(s)
  BY <1>2, <1>3, EndsAre DEF InRole, First, Second
<1>7. InOrder
  BY <1>2, <1>3, <1>4, EndsAre DEF InOrder, First
<1>8. AirMeant
  BY <1>4 DEF AirMeant
<1>9. \A s \in Ends : Spoken(s)
  BY <1>2, <1>3, <1>4, EndsAre DEF Spoken, First, Second
<1>10. LoggedInEarnest
  BY <1>4, EndsAre DEF LoggedInEarnest
<1> QED
  BY <1>5, <1>6, <1>7, <1>8, <1>9, <1>10 DEF ExchangeInv

\* What a tick does to the exchange.
TicksTo(s, t) ==
    /\ Ticked(t, seq[s])
    /\ \A e \in Ends : seq'[e] = IF e = s THEN t.seq ELSE seq[e]
    /\ seq' \in [Ends -> Sequencers]
    /\ turn = s /\ turn' = turn /\ outcome[s] = "working"
    /\ outcome' = [outcome EXCEPT ![s] = IF t.log THEN "logged"
                                         ELSE IF t.gaveUp THEN IF t.kept THEN "kept"
                                                               ELSE "dropped"
                                         ELSE "working"]
    /\ air' = IF t.send = None THEN Silence ELSE OnAir(s, Other(s), t.send)
    /\ sent' = [sent EXCEPT ![s] = IF t.send = None THEN @ ELSE @ + 1]

LEMMA TickSteps ==
  ASSUME Typed, NEW s \in Ends, TakesWindow(s)
  PROVE  \E t : TicksTo(s, t)
<1> DEFINE t == tick(seq[s])
<1>1. seq[s] \in Sequencers /\ Patient(seq[s])
  BY DEF Typed
<1>2. Ticked(t, seq[s])
  BY <1>1, TickEffect
<1>3. t.seq \in Sequencers
  BY <1>2 DEF Ticked, Kept
<1>4. /\ seq' = [seq EXCEPT ![s] = t.seq]
      /\ turn = s /\ turn' = turn /\ outcome[s] = "working"
      /\ outcome' = [outcome EXCEPT ![s] = Verdict(t, @)]
      /\ air' = IF t.send = None THEN Silence ELSE OnAir(s, Other(s), t.send)
      /\ sent' = [sent EXCEPT ![s] = IF t.send = None THEN @ ELSE @ + 1]
  BY Zenon DEF TakesWindow
<1>5. Verdict(t, outcome[s]) = IF t.log THEN "logged"
                               ELSE IF t.gaveUp THEN IF t.kept THEN "kept" ELSE "dropped"
                               ELSE "working"
  BY <1>4, Zenon DEF Verdict
<1> HIDE DEF t
<1>6. \A e \in Ends : seq'[e] = IF e = s THEN t.seq ELSE seq[e]
  BY <1>4 DEF Typed
<1>7. seq' \in [Ends -> Sequencers]
  BY <1>3, <1>4 DEF Typed
<1>8. outcome' = [outcome EXCEPT ![s] = IF t.log THEN "logged"
                                        ELSE IF t.gaveUp THEN IF t.kept THEN "kept" ELSE "dropped"
                                        ELSE "working"]
  BY <1>4, <1>5, Zenon DEF Typed
<1> QED
  BY <1>2, <1>4, <1>6, <1>7, <1>8, Zenon DEF TicksTo

LEMMA NextMessageIs ==
  /\ \A s \in Ends : NextMessage(First(s)) = IF s = Caller THEN "grid" ELSE "report"
  /\ \A s \in Ends : NextMessage(Second(s)) = IF s = Caller THEN "rreport" ELSE "rr73"
  BY EndsAre DEF NextMessage, First, Second

LEMMA TakesWindowKeeps ==
  ASSUME ExchangeInv, NEW s \in Ends, TakesWindow(s)
  PROVE  ExchangeInv'
<1> DEFINE q == seq[s]
<1> USE DEF ExchangeInv
<1>1. PICK t : TicksTo(s, t)
  BY TickSteps, Zenon
<1> USE DEF TicksTo
<1>2. \A e \in Ends : e # s => seq'[e] = seq[e] /\ outcome'[e] = outcome[e] /\ sent'[e] = sent[e]
  BY <1>1 DEF Typed
<1>3. /\ outcome'[s] \in Over \cup {"working"}
      /\ outcome'[s] = "logged" => t.log
      /\ sent'[s] = IF t.send = None THEN sent[s] ELSE sent[s] + 1
      /\ seq'[s] = t.seq
  BY <1>1 DEF Typed, Over
<1>4. Kept(t.seq, q)
  BY <1>1 DEF Ticked
<1>5. HasGivenUp(t, q) \/ HasLogged(t, q) \/ HasNothing(t, q) \/ HasRepeated(t, q)
  BY <1>1 DEF Ticked
<1>6. Patient(t.seq)
  <2>1. t.seq.state \in Waiting => HasRepeated(t, q)
    BY <1>5 DEF HasGivenUp, HasLogged, HasNothing, Waiting
  <2>2. Patient(q)
    BY DEF Typed
  <2> QED
    BY <1>4, <2>1, <2>2 DEF Patient, HasRepeated, Kept
<1>7. Typed'
  <2>1. turn' \in Ends /\ outcome' \in [Ends -> Outcomes]
    BY <1>1, <1>3 DEF Typed, Outcomes
  <2>2. sent' \in [Ends -> Nat]
    BY <1>1 DEF Typed
  <2>3. \A e \in Ends : seq'[e].me = e /\ seq'[e].them = Other(e) /\ Patient(seq'[e])
    BY <1>2, <1>3, <1>4, <1>6 DEF Typed, Kept
  <2> QED
    BY <1>1, <2>1, <2>2, <2>3 DEF Typed
<1>8. \A e \in Ends : seq'[e].reportRcvd = seq[e].reportRcvd /\ seq'[e].owes = seq[e].owes
  BY <1>2, <1>3, <1>4 DEF Kept
<1>9. /\ t.seq.state \in {q.state, "complete", "abandoned"}
      /\ t.seq.state = "complete" => q.state \in {"complete", "rr73-sent"}
  BY <1>5 DEF HasGivenUp, HasLogged, HasNothing, HasRepeated
<1>10. \A e \in Ends : InRole(e)'
  <2>1. InRole(s)'
    BY <1>3, <1>8, <1>9, EndsAre DEF InRole, First, Second
  <2>2. \A e \in Ends : e # s => InRole(e)'
    BY <1>2 DEF InRole
  <2> QED
    BY <2>1, <2>2
<1>11. InOrder'
  <2>1. seq'[Caller].state = "complete" => seq[Caller].state = "complete"
    BY <1>2, <1>3, <1>9, EndsAre DEF InRole, First, Second
  <2>2. \A e \in Ends : outcome'[e] = "idle" <=> outcome[e] = "idle"
    BY <1>1, <1>2, <1>3 DEF Over
  <2> QED
    BY <1>8, <2>1, <2>2, EndsAre DEF InOrder
<1>12. AirMeant'
  <2>1. CASE t.send = None
    BY <1>1, <2>1 DEF AirMeant
  <2>2. CASE t.send # None
    <3>1. air' = OnAir(turn', Other(turn'), t.send)
      BY <1>1, <2>2
    <3>2. CASE HasLogged(t, q)
      BY <3>1, <3>2, <2>2, <1>1, <1>8, EndsAre
         DEF HasLogged, AirMeant, Meant, InOrder, Kinds, Closings
    <3>3. CASE HasRepeated(t, q)
      <4>1. q.state = First(s) \/ (q.state = Second(s) /\ q.reportRcvd)
        BY <3>3 DEF HasRepeated, InRole, Waiting
      <4>2. t.send = NextMessage(q.state)
        BY <3>3 DEF HasRepeated
      <4>3. Meant(s, t.send)' /\ t.send \in Kinds
        BY <4>1, <4>2, <1>8, NextMessageIs, EndsAre DEF Meant, Kinds, Closings
      <4> QED
        BY <3>1, <4>3, <1>1, EndsAre DEF AirMeant
    <3> QED
      BY <3>2, <3>3, <2>2, <1>5 DEF HasGivenUp, HasNothing
  <2> QED
    BY <2>1, <2>2
<1>13. \A e \in Ends : Spoken(e)'
  <2>1. \A e \in Ends : e # s => Spoken(e)'
    BY <1>2 DEF Spoken
  <2>2. CASE HasRepeated(t, q)
    <3>1. /\ t.send = NextMessage(q.state) /\ t.send # None /\ t.seq.state = q.state
          /\ q.state \in Waiting /\ t.seq.lastSent = t.send
          /\ t.seq.repeats = IF q.lastSent = t.send THEN q.repeats + 1 ELSE q.repeats
          /\ t.seq.repeats < maxRepeats
      BY <2>2, NextMessageTypes DEF HasRepeated
    <3>2. q.repeats \in Nat /\ t.seq.repeats \in Nat /\ sent[s] \in Nat /\ maxRepeats \in Nat
      BY <1>4 DEF Typed, Sequencers, Kept
    <3>3. outcome'[s] = "working"
      BY <1>1, <2>2 DEF HasRepeated, Typed
    <3>4. sent'[s] = sent[s] + 1
      BY <3>1, <1>3
    <3>5. First(s) # Second(s) /\ q.state \in {First(s), Second(s)}
      BY <3>1 DEF First, Second, InRole, Waiting
    <3>6. /\ q.state = First(s) => IF q.lastSent = None THEN sent[s] = 0
                                   ELSE q.lastSent = t.send /\ sent[s] <= q.repeats + 1
          /\ q.state = Second(s) =>
              sent[s] <= IF q.lastSent = t.send THEN maxRepeats + q.repeats + 1 ELSE maxRepeats
      BY <3>1 DEF Spoken
    <3>7. /\ q.state = First(s) => sent'[s] <= t.seq.repeats + 1
          /\ q.state = Second(s) => sent'[s] <= maxRepeats + t.seq.repeats + 1
      BY <3>1, <3>2, <3>4, <3>6
    <3>8. sent'[s] <= 2 * maxRepeats
      BY <3>1, <3>2, <3>4, <3>5, <3>7
    <3>9. Spoken(s)'
      BY <1>3, <3>1, <3>2, <3>3, <3>4, <3>5, <3>7, <3>8 DEF Spoken
    <3> QED
      BY <2>1, <3>9
  <2>3. CASE ~HasRepeated(t, q)
    <3>1. t.seq.state \notin Waiting
      BY <1>5, <2>3 DEF HasGivenUp, HasLogged, HasNothing, Waiting
    <3>2. t.seq.state \notin {First(s), Second(s)}
      BY <3>1 DEF First, Second, Waiting
    <3>3. sent[s] \in Nat /\ sent[s] <= 2 * maxRepeats
      BY <1>1 DEF Typed, Spoken
    <3>4. t.send # None => t.log
      BY <1>5, <2>3 DEF HasGivenUp, HasLogged, HasNothing
    <3>5. t.log => outcome'[s] = "logged"
      BY <1>1 DEF Typed
    <3>6. /\ sent'[s] <= 2 * maxRepeats + 1
          /\ outcome'[s] = "working" => sent'[s] <= 2 * maxRepeats
          /\ outcome'[s] # "idle"
      BY <1>3, <3>3, <3>4, <3>5 DEF Over
    <3>7. Spoken(s)'
      BY <1>3, <3>2, <3>6 DEF Spoken
    <3> QED
      BY <2>1, <3>7
  <2> QED
    BY <2>2, <2>3
<1>14. LoggedInEarnest'
  <2>1. outcome'[s] = "logged" => \A e \in Ends : seq[e].reportRcvd
    BY <1>3, <1>5, EndsAre
       DEF HasLogged, HasGivenUp, HasNothing, HasRepeated, InRole, InOrder, First, Second
  <2> QED
    BY <2>1, <1>2, <1>8 DEF LoggedInEarnest
<1> QED
  BY <1>7, <1>10, <1>11, <1>12, <1>13, <1>14

\* What a decode leaves of an end: nothing new, the contact given up, the next message or
\* its completion.
Heard(s, r, q) ==
    /\ r \in Sequencers
    /\ r.me = q.me /\ r.them = q.them /\ r.lastSent = q.lastSent /\ r.logged = q.logged
    /\ q.reportRcvd => r.reportRcvd
    /\ r.reportRcvd /\ ~q.reportRcvd => s = Caller \/ seq[Caller].reportRcvd
    /\ \/ /\ r.state = q.state /\ r.owes = q.owes /\ r.repeats = q.repeats
          /\ q.state = First(s) => ~r.reportRcvd
       \/ r.state = "abandoned" /\ r.owes = q.owes
       \/ /\ q.state = First(s) /\ r.state = Second(s) /\ r.reportRcvd
          /\ r.owes = q.owes /\ r.repeats = 0
       \/ /\ q.state = Second(s) /\ r.state = "complete" /\ r.reportRcvd
          /\ r.owes = IF s = Caller THEN "73" ELSE None
          /\ s = Caller => seq[Answerer].reportRcvd

LEMMA HearsSteps ==
  ASSUME ExchangeInv, NEW s \in Ends, Hears(s)
  PROVE  \E r :
            /\ Heard(s, r, seq[s])
            /\ \A e \in Ends : seq'[e] = IF e = s THEN r ELSE seq[e]
            /\ seq' \in [Ends -> Sequencers]
<1> USE DEF ExchangeInv
<1> DEFINE q == seq[s]
           r == onDecode(q, air[1])
<1>1. air # <<>> /\ air # Silence /\ turn = Other(s) /\ seq' = [seq EXCEPT ![s] = r]
  BY Zenon DEF Hears, Typed
<1>2. /\ q \in Sequencers /\ q.me = s /\ q.them = turn
      /\ InRole(s)
  BY <1>1 DEF Typed
<1>3. PICK to \in Third \cup Ends, k \in Kinds :
          /\ air = OnAir(turn, to, k)
          /\ k = "cq" \/ to \in Third \/ (to = Other(turn) /\ Meant(turn, k))
  BY <1>1 DEF AirMeant
<1>4. air[1] = <<Statement(q.them, to, k)>>
  BY <1>2, <1>3 DEF OnAir
<1>5. k = "cq" \/ to \in Third \/ (to = s /\ Meant(Other(s), k))
  BY <1>1, <1>3, EndsAre
<1>6. Decoded(r, q, to, k)
  <2>1. k = "cq" \/ to = q.me \/ to \in Third
    BY <1>2, <1>5
  <2>2. Decoded(onDecode(q, <<Statement(q.them, to, k)>>), q, to, k)
    BY <1>2, <2>1, DecodeEffect
  <2> QED
    BY <1>4, <2>2
<1> HIDE DEF r
<1>7. Heard(s, r, q)
  <2>1. CASE Alike(r, q) /\ r.state = q.state
    BY <1>2, <1>6, <2>1 DEF Heard, Decoded, Alike, InRole
  <2>2. CASE Alike(r, q) /\ r.state = "abandoned"
    BY <1>6, <2>2 DEF Heard, Decoded, Alike
  <2>3. CASE to = q.me /\ k # "cq" /\ Answered(r, q, k) /\ ~isDone(q)
    <3>1. Meant(Other(s), k)
      BY <1>2, <1>5, <2>3, EndsAre
    <3>2. q.state \in {First(s), Second(s)}
      BY <1>2, <2>3 DEF InRole, isDone
    <3>3. /\ r \in Sequencers
          /\ r.me = q.me /\ r.them = q.them /\ r.lastSent = q.lastSent /\ r.logged = q.logged
          /\ r.state = MovesTo(q.state, k)
          /\ r.reportRcvd = (q.reportRcvd \/ k \in {"report", "rreport"})
          /\ r.owes = IF r.state = "complete" THEN Owed(q.state, k) ELSE q.owes
          /\ r.repeats = IF r.state # q.state THEN 0 ELSE q.repeats
      BY <1>6, <2>3 DEF Decoded, Answered
    <3>4. CASE s = Caller
      <4>1. k = "report" \/ (k = "rr73" /\ seq[Answerer].reportRcvd)
        BY <3>1, <3>4 DEF Meant, Other
      <4>2. First(s) = "calling" /\ Second(s) = "rreport-sent"
        BY <3>4 DEF First, Second
      <4>3. CASE q.state = "calling"
        <5>1. k = "report"
          BY <4>1, <4>2, <4>3, <3>4, <1>2 DEF InOrder, InRole
        <5>2. MovesTo(q.state, k) = "rreport-sent"
          BY <4>3, <5>1 DEF MovesTo, ClosedBy
        <5> QED
          BY <3>3, <3>4, <4>2, <4>3, <5>1, <5>2 DEF Heard
      <4>4. CASE q.state = "rreport-sent" /\ k = "report"
        <5>1. MovesTo(q.state, k) = q.state
          BY <4>4 DEF MovesTo, ClosedBy
        <5> QED
          BY <3>3, <3>4, <4>2, <4>4, <5>1 DEF Heard
      <4>5. CASE q.state = "rreport-sent" /\ k = "rr73"
        <5>1. MovesTo(q.state, k) = "complete" /\ Owed(q.state, k) = "73"
          BY <4>5 DEF MovesTo, Owed, ClosedBy
        <5>2. q.reportRcvd /\ seq[Answerer].reportRcvd
          BY <4>1, <4>2, <4>5, <1>2 DEF InRole
        <5>3. r.state = "complete" /\ r.owes = "73" /\ r.reportRcvd
          BY <3>3, <5>1, <5>2
        <5>4. q.state = Second(s)
          BY <4>2, <4>5
        <5> QED
          BY <3>3, <3>4, <5>2, <5>3, <5>4 DEF Heard
      <4> QED
        BY <3>2, <4>1, <4>2, <4>3, <4>4, <4>5
    <3>5. CASE s = Answerer
      <4>1. k = "grid" \/ (k \in {"rreport", "73"} /\ seq[Caller].reportRcvd)
        BY <3>1, <3>5, EndsAre DEF Meant, Other
      <4>2. First(s) = "report-sent" /\ Second(s) = "rr73-sent" /\ s # Caller
        BY <3>5, EndsAre DEF First, Second
      <4>3. CASE q.state = "report-sent" /\ k = "rreport"
        <5>1. MovesTo(q.state, k) = "rr73-sent"
          BY <4>3 DEF MovesTo, ClosedBy
        <5> QED
          BY <3>3, <4>1, <4>2, <4>3, <5>1 DEF Heard
      <4>4. CASE q.state = "report-sent" /\ k \in {"grid", "73"}
        <5>1. MovesTo(q.state, k) = q.state
          BY <4>4 DEF MovesTo, ClosedBy
        <5>2. ~q.reportRcvd
          BY <4>2, <4>4, <1>2 DEF InRole
        <5> QED
          BY <3>3, <4>2, <4>4, <5>1, <5>2 DEF Heard
      <4>5. CASE q.state = "rr73-sent" /\ k \in {"grid", "rreport"}
        <5>1. MovesTo(q.state, k) = q.state
          BY <4>5 DEF MovesTo, ClosedBy
        <5>2. q.reportRcvd
          BY <4>2, <4>5, <1>2 DEF InRole
        <5> QED
          BY <3>3, <4>2, <4>5, <5>1, <5>2 DEF Heard
      <4>6. CASE q.state = "rr73-sent" /\ k = "73"
        <5>1. MovesTo(q.state, k) = "complete" /\ Owed(q.state, k) = None
          BY <4>6 DEF MovesTo, Owed, ClosedBy
        <5>2. q.reportRcvd
          BY <4>2, <4>6, <1>2 DEF InRole
        <5>3. r.state = "complete" /\ r.owes = None /\ r.reportRcvd
          BY <3>3, <5>1, <5>2
        <5>4. q.state = Second(s) /\ s # Caller
          BY <4>2, <4>6
        <5> QED
          BY <3>3, <5>2, <5>3, <5>4 DEF Heard
      <4> QED
        BY <3>2, <4>1, <4>2, <4>3, <4>4, <4>5, <4>6
    <3> QED
      BY <3>4, <3>5, EndsAre
  <2> QED
    BY <1>6, <2>1, <2>2, <2>3 DEF Decoded
<1>8. \A e \in Ends : seq'[e] = IF e = s THEN r ELSE seq[e]
  BY <1>1 DEF Typed
<1>9. seq' \in [Ends -> Sequencers]
  BY <1>1, <1>7 DEF Typed, Heard
<1> QED
  BY <1>7, <1>8, <1>9, Zenon

LEMMA HearsKeeps ==
  ASSUME ExchangeInv, NEW s \in Ends, Hears(s)
  PROVE  ExchangeInv'
<1> USE DEF ExchangeInv
<1> DEFINE q == seq[s]
<1>1. PICK r :
            /\ Heard(s, r, q)
            /\ \A e \in Ends : seq'[e] = IF e = s THEN r ELSE seq[e]
            /\ seq' \in [Ends -> Sequencers]
  BY HearsSteps, Zenon
<1>2. UNCHANGED <<outcome, turn, air, sent>> /\ outcome[s] = "working"
  BY DEF Hears
<1>3. seq'[s] = r /\ \A e \in Ends : e # s => seq'[e] = seq[e]
  BY <1>1
<1>4. InRole(s) /\ Spoken(s) /\ Patient(q) /\ q.me = s /\ q.them = Other(s)
  BY DEF Typed
<1>5. Patient(r)
  <2>1. First(s) \in Waiting /\ Second(s) \in Waiting /\ "complete" \notin Waiting
        /\ "abandoned" \notin Waiting
    BY DEF First, Second, Waiting
  <2> QED
    BY <1>1, <1>4, <2>1 DEF Heard, Patient
<1>6. Typed'
  BY <1>1, <1>2, <1>3, <1>4, <1>5 DEF Typed, Heard
<1>7. \A e \in Ends : seq[e].reportRcvd => seq'[e].reportRcvd
  BY <1>1, <1>3 DEF Heard
<1>8. \A e \in Ends : InRole(e)'
  <2>1. InRole(s)'
    BY <1>1, <1>3, <1>4 DEF Heard, InRole, First, Second
  <2>2. \A e \in Ends : e # s => InRole(e)'
    BY <1>3 DEF InRole
  <2> QED
    BY <2>1, <2>2
<1>9. InOrder'
  <2>1. seq'[Answerer].reportRcvd => seq'[Caller].reportRcvd
    BY <1>1, <1>3, <1>7, EndsAre DEF Heard, InOrder
  <2>2. seq'[Caller].state = "complete" => seq'[Answerer].reportRcvd
    BY <1>1, <1>3, <1>7, EndsAre DEF Heard, InOrder, First, Second
  <2>3. outcome'[Caller] # "idle" /\ (outcome'[Answerer] = "idle" => ~seq'[Answerer].reportRcvd)
    BY <1>2, <1>3, EndsAre DEF InOrder
  <2>4. \A e \in Ends : seq'[e].owes # None =>
            e = Caller /\ seq'[e].owes = "73" /\ seq'[e].reportRcvd
    BY <1>1, <1>3, <1>7, EndsAre DEF Heard, InOrder
  <2> QED
    BY <2>1, <2>2, <2>3, <2>4 DEF InOrder
<1>10. AirMeant'
  <2>1. \A e \in Ends, k \in Kinds : Meant(e, k) => Meant(e, k)'
    BY <1>7 DEF Meant
  <2>2. CASE air \in {<<>>, Silence}
    BY <1>2, <2>2 DEF AirMeant
  <2>3. CASE air \notin {<<>>, Silence}
    <3>1. PICK e \in Ends : e = turn
      BY DEF Typed
    <3>2. PICK to \in Third \cup Ends, k \in Kinds :
              /\ air = OnAir(e, to, k)
              /\ k = "cq" \/ to \in Third \/ (to = Other(e) /\ Meant(e, k))
      BY <2>3, <3>1 DEF AirMeant
    <3>3. /\ air' = OnAir(e, to, k) /\ turn' = e
          /\ k = "cq" \/ to \in Third \/ (to = Other(e) /\ Meant(e, k)')
      BY <1>2, <2>1, <3>1, <3>2
    <3> QED
      BY <3>3 DEF AirMeant
  <2> QED
    BY <2>2, <2>3
<1>11. \A e \in Ends : Spoken(e)'
  <2>1. \A e \in Ends : e # s => Spoken(e)'
    BY <1>2, <1>3 DEF Spoken
  <2>2. First(s) # Second(s) /\ "complete" \notin {First(s), Second(s)}
        /\ "abandoned" \notin {First(s), Second(s)}
    BY DEF First, Second
  <2>3. sent'[s] = sent[s] /\ sent[s] \in Nat /\ q.repeats \in Nat /\ r.repeats \in Nat
    BY <1>1, <1>2 DEF Typed, Heard, Sequencers
  <2>4. CASE r.state = q.state /\ r.repeats = q.repeats
    BY <1>1, <1>2, <1>3, <1>4, <2>4 DEF Heard, Spoken
  <2>5. CASE q.state = First(s) /\ r.state = Second(s) /\ r.repeats = 0
    <3>1. First(s) \in Waiting
      BY DEF First, Waiting
    <3>2. q.repeats < maxRepeats
      BY <1>4, <2>5, <3>1 DEF Patient
    <3>3. NextMessage(Second(s)) # NextMessage(First(s))
          /\ NextMessage(Second(s)) # None
      BY NextMessageIs DEF Kinds, Closings
    <3>4. r.lastSent # NextMessage(r.state)
      BY <1>1, <1>4, <2>5, <3>3 DEF Heard, Spoken
    <3>5. sent[s] <= maxRepeats
      BY <1>4, <2>3, <2>5, <3>2 DEF Spoken
    <3>6. Spoken(s)'
      BY <1>2, <1>3, <1>4, <2>2, <2>3, <2>5, <3>4, <3>5 DEF Spoken
    <3> QED
      BY <2>1, <3>6
  <2>6. CASE r.state \notin {First(s), Second(s)}
    BY <1>2, <1>3, <1>4, <2>6 DEF Spoken
  <2>7. \/ r.state = q.state /\ r.repeats = q.repeats
        \/ q.state = First(s) /\ r.state = Second(s) /\ r.repeats = 0
        \/ r.state \notin {First(s), Second(s)}
    BY <1>1, <2>2 DEF Heard
  <2> QED
    BY <2>4, <2>5, <2>6, <2>7
<1>12. LoggedInEarnest'
  BY <1>2, <1>7 DEF LoggedInEarnest
<1> QED
  BY <1>6, <1>8, <1>9, <1>10, <1>11, <1>12

LEMMA IsCalledKeeps ==
  ASSUME ExchangeInv, NEW s \in Ends, IsCalled(s)
  PROVE  ExchangeInv'
<1> USE DEF ExchangeInv
<1> DEFINE r == NewSequencer(s, Other(s), "answerer")
<1>1. r \in Sequencers /\ Patient(r)
  BY NewTypes
<1>2. /\ outcome[s] = "idle" /\ seq' = [seq EXCEPT ![s] = r]
      /\ outcome' = [outcome EXCEPT ![s] = "working"]
      /\ UNCHANGED <<turn, air, sent>>
  BY DEF IsCalled
<1>3. s = Answerer
  BY <1>2, EndsAre DEF InOrder
<1>4. /\ r.me = s /\ r.them = Other(s) /\ r.state = First(s) /\ ~r.reportRcvd
      /\ r.owes = None /\ r.lastSent = None
  BY <1>3, EndsAre DEF NewSequencer, First
<1> HIDE DEF r
<1>5. /\ seq'[s] = r /\ outcome'[s] = "working"
      /\ \A e \in Ends : e # s => seq'[e] = seq[e] /\ outcome'[e] = outcome[e]
  BY <1>2 DEF Typed
<1>6. ~seq[s].reportRcvd
  BY <1>2, <1>3 DEF InOrder
<1>7. \A e \in Ends : seq'[e].reportRcvd = seq[e].reportRcvd
  <2>1. seq[s].reportRcvd \in BOOLEAN /\ r.reportRcvd \in BOOLEAN
    BY <1>1 DEF Typed, Sequencers
  <2> QED
    BY <1>4, <1>5, <1>6, <2>1
<1>8. Typed'
  <2>1. outcome' \in [Ends -> Outcomes]
    BY <1>2 DEF Typed, Outcomes
  <2>2. seq' \in [Ends -> Sequencers]
    BY <1>1, <1>2 DEF Typed
  <2> QED
    BY <1>1, <1>2, <1>4, <1>5, <2>1, <2>2 DEF Typed
<1>9. \A e \in Ends : InRole(e)'
  <2>1. InRole(s)'
    BY <1>4, <1>5, EndsAre DEF InRole, First, Second
  <2> QED
    BY <1>5, <2>1 DEF InRole
<1>10. InOrder'
  BY <1>3, <1>4, <1>5, <1>7, EndsAre DEF InOrder
<1>11. AirMeant'
  <2>1. \A e \in Ends, k \in Kinds : Meant(e, k) => Meant(e, k)'
    BY <1>7 DEF Meant
  <2>2. PICK e \in Ends : e = turn /\ turn' = e
    BY <1>2 DEF Typed
  <2> QED
    BY <1>2, <2>1, <2>2 DEF AirMeant
<1>12. \A e \in Ends : Spoken(e)'
  <2>1. sent'[s] = 0
    BY <1>2 DEF Spoken
  <2>2. Spoken(s)'
    BY <1>4, <1>5, <2>1 DEF Spoken, First, Second
  <2> QED
    BY <1>2, <1>5, <2>2 DEF Spoken
<1>13. LoggedInEarnest'
  BY <1>5, <1>7 DEF LoggedInEarnest
<1> QED
  BY <1>8, <1>9, <1>10, <1>11, <1>12, <1>13

\* A window the sequencers have no part in.
LEMMA OtherWindowsKeep ==
  ASSUME ExchangeInv, NEW s \in Ends, LosesWindow(s) \/ WorksOthers(s)
  PROVE  ExchangeInv'
<1> USE DEF ExchangeInv
<1>1. UNCHANGED <<seq, outcome, turn, sent>> /\ turn = s
  BY DEF LosesWindow, WorksOthers
<1>2. AirMeant'
  <2>1. CASE air' = Silence
    BY <2>1 DEF AirMeant
  <2>2. CASE air' = OnAir(s, s, "cq")
    BY <1>1, <2>2 DEF AirMeant, Kinds
  <2>3. CASE \E x \in Third, k \in {"report", "rr73"} : air' = OnAir(s, x, k)
    BY <1>1, <2>3 DEF AirMeant, Kinds, Closings
  <2> QED
    BY <2>1, <2>2, <2>3 DEF LosesWindow, WorksOthers
<1> QED
  BY <1>1, <1>2 DEF Typed, InRole, InOrder, Spoken, LoggedInEarnest

LEMMA NextWindowEffect ==
  ASSUME NEW q \in Sequencers
  PROVE  NextWindow(q) \in Sequencers /\ Alike(NextWindow(q), q) /\ NextWindow(q).state = q.state
  BY DEF NextWindow, Sequencers, Alike

LEMMA WindowEndsKeeps ==
  ASSUME ExchangeInv, WindowEnds
  PROVE  ExchangeInv'
<1> USE DEF ExchangeInv
<1>1. /\ air' = <<>> /\ turn' = Other(turn) /\ UNCHANGED <<outcome, sent>>
      /\ seq' = [s \in Ends |-> NextWindow(seq[s])]
  BY DEF WindowEnds
<1>2. \A s \in Ends : /\ seq'[s] \in Sequencers
                      /\ Alike(seq'[s], seq[s]) /\ seq'[s].state = seq[s].state
  BY <1>1, NextWindowEffect DEF Typed
<1>3. Typed'
  <2>1. seq' \in [Ends -> Sequencers]
    BY <1>1, <1>2
  <2> QED
    BY <1>1, <1>2, <2>1, EndsAre DEF Typed, Alike, Patient
<1>4. \A s \in Ends : InRole(s)'
  BY <1>2 DEF InRole, Alike
<1>5. InOrder'
  BY <1>1, <1>2, EndsAre DEF InOrder, Alike
<1>6. AirMeant'
  BY <1>1 DEF AirMeant
<1>7. \A s \in Ends : Spoken(s)'
  BY <1>1, <1>2 DEF Spoken, Alike
<1>8. LoggedInEarnest'
  BY <1>1, <1>2 DEF LoggedInEarnest, Alike
<1> QED
  BY <1>3, <1>4, <1>5, <1>6, <1>7, <1>8

LEMMA ExchangeStep == ExchangeInv /\ [Next]_vars => ExchangeInv'
<1> SUFFICES ASSUME ExchangeInv, [Next]_vars PROVE ExchangeInv'
  OBVIOUS
<1>1. CASE UNCHANGED vars
  BY <1>1 DEF vars, ExchangeInv, Typed, InRole, InOrder, AirMeant, Meant, Spoken, LoggedInEarnest
<1>2. ASSUME NEW s \in Ends, TakesWindow(s) PROVE ExchangeInv'
  BY <1>2, TakesWindowKeeps
<1>3. ASSUME NEW s \in Ends, LosesWindow(s) \/ WorksOthers(s) PROVE ExchangeInv'
  BY <1>3, OtherWindowsKeep
<1>4. ASSUME NEW s \in Ends, Hears(s) PROVE ExchangeInv'
  BY <1>4, HearsKeeps
<1>5. ASSUME NEW s \in Ends, IsCalled(s) PROVE ExchangeInv'
  BY <1>5, IsCalledKeeps
<1>6. CASE WindowEnds
  BY <1>6, WindowEndsKeeps
<1> QED
  BY <1>1, <1>2, <1>3, <1>4, <1>5, <1>6 DEF Next

LEMMA ExchangeInvariant == Spec => []ExchangeInv
  BY ExchangeInit, ExchangeStep, PTL DEF Spec

---------------------------------------------------------------------------
(* What follows of the exchange itself *)

\* Each end's sequencer stays its own and within its counters.
THEOREM TypeCorrect == Spec => []TypeOK
<1>1. ExchangeInv => TypeOK
  BY DEF ExchangeInv, Typed, TypeOK, Sequencers
<1> QED
  BY <1>1, ExchangeInvariant, PTL

\* QsoSequencer.tick logs a contact only when each end has the other's report.
THEOREM LogsInEarnest == Spec => []LoggedInEarnest
<1>1. ExchangeInv => LoggedInEarnest
  BY DEF ExchangeInv
<1> QED
  BY <1>1, ExchangeInvariant, PTL

\* maxRepeats bounds what an end sends in a contact, whatever the other end does.
THEOREM SpeaksWithinPatience == Spec => []SentWithinPatience
<1>1. ExchangeInv => SentWithinPatience
  BY DEF ExchangeInv, Spoken, SentWithinPatience
<1> QED
  BY <1>1, ExchangeInvariant, PTL

---------------------------------------------------------------------------
(* The two ends implement QsoOutcome *)

heardBy == {s \in Ends : seq[s].reportRcvd}
resultOf == [s \in Ends |-> IF outcome[s] \in Over THEN outcome[s] ELSE "none"]

LEMMA OutcomeInit == Init => Outcome!OutInit
<1> SUFFICES ASSUME Init PROVE Outcome!OutInit
  OBVIOUS
<1>1. ExchangeInv
  BY ExchangeInit
<1>2. \A s \in Ends : ~seq[s].reportRcvd
  <2>1. seq = [s \in Ends |->
                 NewSequencer(s, Other(s), IF s = Caller THEN "caller" ELSE "answerer")]
    BY Zenon DEF Init
  <2> QED
    BY <2>1 DEF NewSequencer
<1>3. \A s \in Ends : outcome[s] \notin Over
  BY DEF Init, Over
<1> QED
  BY <1>2, <1>3, EndsAre DEF Outcome!OutInit, Outcome!Ends, Ends

LEMMA OutcomeNames ==
  /\ Outcome!Ends = Ends
  /\ \A s \in Ends : Outcome!Other(s) = Other(s)
  BY DEF Outcome!Ends, Outcome!Other, Ends, Other

\* A step that disturbs neither who has a report nor how the contact stands.
LEMMA OutcomeStutters ==
  ASSUME \A s \in Ends : seq'[s].reportRcvd = seq[s].reportRcvd,
         \A s \in Ends : outcome'[s] = outcome[s] \/ (outcome[s] \notin Over /\ outcome'[s] \notin Over)
  PROVE  UNCHANGED Outcome!outVars
<1>1. heardBy' = heardBy
  BY DEF heardBy
<1>2. resultOf' = resultOf
  BY DEF resultOf
<1> QED
  BY <1>1, <1>2 DEF Outcome!outVars, heardBy, resultOf

LEMMA OutcomeTick ==
  ASSUME ExchangeInv, ExchangeInv', NEW s \in Ends, TakesWindow(s)
  PROVE  Outcome!OutNext \/ UNCHANGED Outcome!outVars
<1> DEFINE q == seq[s]
<1>1. PICK t : TicksTo(s, t)
  BY TickSteps, Zenon DEF ExchangeInv
<1> USE DEF TicksTo
<1>2. \A e \in Ends : seq'[e].reportRcvd = seq[e].reportRcvd
  BY <1>1 DEF Ticked, Kept
<1>3. heardBy' = heardBy
  BY <1>2 DEF heardBy
<1>4. \A e \in Ends : e # s => outcome'[e] = outcome[e]
  BY <1>1 DEF ExchangeInv, Typed
<1>5. outcome'[s] = IF t.log THEN "logged"
                    ELSE IF t.gaveUp THEN IF t.kept THEN "kept" ELSE "dropped"
                    ELSE "working"
  BY <1>1 DEF ExchangeInv, Typed
<1>6. outcome[s] = "working" /\ resultOf[s] = "none"
  BY <1>1 DEF resultOf, Over
<1>7. CASE outcome'[s] \notin Over
  <2>1. UNCHANGED Outcome!outVars
    BY <1>2, <1>4, <1>6, <1>7, OutcomeStutters DEF Over
  <2> QED
    BY <2>1
<1>8. CASE outcome'[s] \in Over
  <2>1. resultOf' = [resultOf EXCEPT ![s] = outcome'[s]]
    BY <1>4, <1>8 DEF resultOf
  <2>2. outcome'[s] = "logged" => heardBy = Ends
    BY <1>2 DEF ExchangeInv, LoggedInEarnest, heardBy
  <2>3. /\ outcome'[s] = "kept" => s \in heardBy
        /\ outcome'[s] = "dropped" => s \notin heardBy
    BY <1>1, <1>5
       DEF Ticked, HasGivenUp, HasLogged, HasNothing, HasRepeated, heardBy
  <2>4. outcome'[s] \in {"logged", "kept", "dropped"}
    BY <1>8 DEF Over
  <2>5. Outcome!Log(s) \/ Outcome!Keep(s) \/ Outcome!Drop(s)
    BY <1>3, <1>6, <2>1, <2>2, <2>3, <2>4, OutcomeNames
       DEF Outcome!Log, Outcome!Keep, Outcome!Drop, Outcome!Becomes, heardBy, resultOf
  <2> QED
    BY <2>5, OutcomeNames DEF Outcome!OutNext
<1> QED
  BY <1>7, <1>8

LEMMA OutcomeHears ==
  ASSUME ExchangeInv, NEW s \in Ends, Hears(s)
  PROVE  Outcome!OutNext \/ UNCHANGED Outcome!outVars
<1>1. PICK r :
            /\ Heard(s, r, seq[s])
            /\ \A e \in Ends : seq'[e] = IF e = s THEN r ELSE seq[e]
            /\ seq' \in [Ends -> Sequencers]
  BY HearsSteps, Zenon
<1>2. outcome' = outcome /\ outcome[s] = "working"
  BY DEF Hears
<1>3. seq'[s].reportRcvd \in BOOLEAN /\ seq[s].reportRcvd \in BOOLEAN
  BY <1>1 DEF ExchangeInv, Typed, Sequencers
<1>4. CASE seq'[s].reportRcvd = seq[s].reportRcvd
  <2>1. UNCHANGED Outcome!outVars
    BY <1>1, <1>2, <1>4, OutcomeStutters
  <2> QED
    BY <2>1
<1>5. CASE seq'[s].reportRcvd # seq[s].reportRcvd
  <2>1. seq'[s].reportRcvd /\ ~seq[s].reportRcvd
    BY <1>1, <1>3, <1>5 DEF Heard
  <2>2. heardBy' = heardBy \cup {s}
    BY <1>1, <2>1 DEF heardBy
  <2>3. s = Answerer => Caller \in heardBy
    BY <1>1, <2>1, EndsAre DEF Heard, heardBy
  <2>4. resultOf' = resultOf /\ resultOf[s] = "none"
    BY <1>2 DEF resultOf, Over
  <2>5. Outcome!GetsReport(s)
    BY <2>2, <2>3, <2>4 DEF Outcome!GetsReport, heardBy, resultOf
  <2> QED
    BY <2>5, OutcomeNames DEF Outcome!OutNext
<1> QED
  BY <1>4, <1>5

LEMMA OutcomeStep ==
  ExchangeInv /\ ExchangeInv' /\ [Next]_vars => [Outcome!OutNext]_(Outcome!outVars)
<1> SUFFICES ASSUME ExchangeInv, ExchangeInv', [Next]_vars
             PROVE  Outcome!OutNext \/ UNCHANGED Outcome!outVars
  BY Zenon
<1>1. CASE UNCHANGED vars
  BY <1>1, OutcomeStutters DEF vars
<1>2. ASSUME NEW s \in Ends, TakesWindow(s)
      PROVE  Outcome!OutNext \/ UNCHANGED Outcome!outVars
  BY <1>2, OutcomeTick
<1>3. ASSUME NEW s \in Ends, LosesWindow(s) \/ WorksOthers(s)
      PROVE  Outcome!OutNext \/ UNCHANGED Outcome!outVars
  BY <1>3, OutcomeStutters DEF LosesWindow, WorksOthers
<1>4. ASSUME NEW s \in Ends, Hears(s)
      PROVE  Outcome!OutNext \/ UNCHANGED Outcome!outVars
  BY <1>4, OutcomeHears
<1>5. ASSUME NEW s \in Ends, IsCalled(s)
      PROVE  Outcome!OutNext \/ UNCHANGED Outcome!outVars
  <2> DEFINE r == NewSequencer(s, Other(s), "answerer")
  <2>1. seq' = [seq EXCEPT ![s] = r] /\ outcome' = [outcome EXCEPT ![s] = "working"]
        /\ outcome[s] = "idle"
    BY <1>5 DEF IsCalled
  <2>2. r.reportRcvd = FALSE
    BY DEF NewSequencer
  <2> HIDE DEF r
  <2>3. seq[s].reportRcvd = FALSE
    <3>1. s = Answerer
      BY <2>1, EndsAre DEF ExchangeInv, InOrder
    <3> QED
      BY <2>1, <3>1 DEF ExchangeInv, InOrder, Typed, Sequencers
  <2>4. \A e \in Ends : seq'[e].reportRcvd = seq[e].reportRcvd
    BY <2>1, <2>2, <2>3 DEF ExchangeInv, Typed
  <2>5. \A e \in Ends : \/ outcome'[e] = outcome[e]
                        \/ outcome[e] \notin Over /\ outcome'[e] \notin Over
    BY <2>1 DEF ExchangeInv, Typed, Over
  <2> QED
    BY <2>4, <2>5, OutcomeStutters
<1>6. CASE WindowEnds
  <2>1. \A s \in Ends : Alike(seq'[s], seq[s])
    BY <1>6, NextWindowEffect DEF WindowEnds, ExchangeInv, Typed
  <2> QED
    BY <1>6, <2>1, OutcomeStutters DEF WindowEnds, Alike
<1> QED
  BY <1>1, <1>2, <1>3, <1>4, <1>5, <1>6 DEF Next

\* The two ends do only what QsoOutcome allows: they log what both have, and keep what one
\* has (QsoSequencer.onDecode, tick).
THEOREM ExchangeKeepsOutcome == Spec => EndsAgree
<1>1. Init => Outcome!OutInit
  BY OutcomeInit
<1>2. ExchangeInv /\ ExchangeInv' /\ [Next]_vars => [Outcome!OutNext]_(Outcome!outVars)
  BY OutcomeStep
<1> QED
  BY <1>1, <1>2, ExchangeInvariant, PTL DEF Spec, EndsAgree, Outcome!OutSpec

\* What the outcome spec gives: a logged contact was exchanged, a dropped end had nothing.
OutInv ==
    /\ heardBy \subseteq Ends
    /\ \A s \in Ends : resultOf[s] = "logged" => heardBy = Ends
    /\ \A s \in Ends : resultOf[s] = "dropped" => s \notin heardBy

LEMMA OutcomeInvariant == Outcome!OutSpec => []OutInv
<1>1. Outcome!OutInit => OutInv
  BY EndsAre, OutcomeNames DEF Outcome!OutInit, OutInv, heardBy, resultOf
<1>2. OutInv /\ [Outcome!OutNext]_(Outcome!outVars) => OutInv'
  <2> SUFFICES ASSUME OutInv, [Outcome!OutNext]_(Outcome!outVars) PROVE OutInv'
    OBVIOUS
  <2>1. CASE heardBy' = heardBy /\ resultOf' = resultOf
    BY <2>1 DEF OutInv
  <2>2. ASSUME NEW s \in Ends, Outcome!GetsReport(s) PROVE OutInv'
    <3>1. heardBy' = heardBy \cup {s} /\ resultOf' = resultOf /\ resultOf[s] = "none"
      BY <2>2 DEF Outcome!GetsReport, heardBy, resultOf
    <3> QED
      BY <3>1 DEF OutInv
  <2>3. ASSUME NEW s \in Ends, NEW r,
               heardBy' = heardBy, resultOf' = [resultOf EXCEPT ![s] = r],
               r \in {"logged", "kept", "dropped"},
               r = "logged" => heardBy = Ends, r = "dropped" => s \notin heardBy
        PROVE  OutInv'
    <3>1. \A e \in Ends : resultOf'[e] = IF e = s THEN r ELSE resultOf[e]
      BY <2>3 DEF resultOf
    <3> QED
      BY <2>3, <3>1 DEF OutInv
  <2>4. ASSUME NEW s \in Ends,
               Outcome!Log(s) \/ Outcome!Keep(s) \/ Outcome!Drop(s)
        PROVE  OutInv'
    <3>1. CASE Outcome!Log(s)
      BY <2>3, <3>1, OutcomeNames DEF Outcome!Log, Outcome!Becomes, heardBy, resultOf
    <3>2. CASE Outcome!Keep(s)
      BY <2>3, <3>2 DEF Outcome!Keep, Outcome!Becomes, heardBy, resultOf
    <3>3. CASE Outcome!Drop(s)
      BY <2>3, <3>3 DEF Outcome!Drop, Outcome!Becomes, heardBy, resultOf
    <3> QED
      BY <2>4, <3>1, <3>2, <3>3
  <2>5. CASE UNCHANGED Outcome!outVars
    BY <2>1, <2>5 DEF Outcome!outVars, heardBy, resultOf
  <2> QED
    BY <2>2, <2>4, <2>5, OutcomeNames DEF Outcome!OutNext
<1> QED
  BY <1>1, <1>2, PTL DEF Outcome!OutSpec

\* A contact one end has logged is in the other's log, or kept there for its operator:
\* what onDecode and tick promise of a contact the partner turned away from.
THEOREM NothingVanishes == Spec => []Outcome!NoContactVanishes
<1>1. OutInv => Outcome!NoContactVanishes
  BY EndsAre, OutcomeNames DEF OutInv, Outcome!NoContactVanishes, heardBy, resultOf
<1> QED
  BY <1>1, OutcomeInvariant, ExchangeKeepsOutcome, PTL DEF EndsAgree
=============================================================================
