------------------------- MODULE QsoControllerProofs -------------------------
(***************************************************************************)
(* Theorems of QsoController, for any requests, stations and limits, and   *)
(* whatever is heard.  Whoever is worked, the controller relies on three   *)
(* things of its sequencer: a contact that is over stays over, a tick logs *)
(* it or gives it up at most once, and the partner never changes.          *)
(***************************************************************************)
EXTENDS QsoController, TLAPS

---------------------------------------------------------------------------
(* The sequencer. *)

Fields == {"me", "them", "state", "reportRcvd", "repeats", "stalledRx", "lastSent", "closingTo",
           "closingCount", "owes", "pending", "logged", "seen"}

\* What a sequencer is in, as far as a tick tells cases apart.
Sound(q) ==
    /\ DOMAIN q = Fields
    /\ q.state \in States
    /\ q.stalledRx \in 0 .. maxRepeats
    /\ q.state = "complete" => q.stalledRx < maxRepeats

\* The contact has been reported.
Settled(q) ==
    \/ q.state = "abandoned" /\ ~q.pending
    \/ q.state = "complete" /\ q.logged

\* The same contact, still as it was where `Settled` looks.
Follows(r, q) == Sound(r) /\ r.them = q.them

LEMMA NewSound ==
  ASSUME NEW me, NEW them, NEW role \in {"caller", "answerer"}
  PROVE  /\ Sound(NewSequencer(me, them, role))
         /\ NewSequencer(me, them, role).them = them
  BY RepeatsAssumption DEF NewSequencer, Sound, Fields, States, Waiting

LEMMA NextWindowKeeps ==
  ASSUME NEW q, Sound(q)
  PROVE  /\ Follows(NextWindow(q), q)
         /\ isDone(NextWindow(q)) <=> isDone(q)
         /\ Settled(NextWindow(q)) <=> Settled(q)
<1> DEFINE r == NextWindow(q)
<1>1. /\ DOMAIN r = Fields /\ r.them = q.them /\ r.state = q.state /\ r.stalledRx = q.stalledRx
      /\ r.pending = q.pending /\ r.logged = q.logged
  BY DEF NextWindow, Sound, Fields
<1> HIDE DEF r
<1>2. Follows(r, q) /\ (isDone(r) <=> isDone(q)) /\ (Settled(r) <=> Settled(q))
  BY <1>1 DEF Follows, Sound, isDone, Settled
<1> QED
  BY <1>2 DEF r

LEMMA AbandonSound ==
  ASSUME NEW q, Sound(q)
  PROVE  Follows(abandonFor(q), q)
<1> DEFINE r == abandonFor(q)
<1>1. DOMAIN r = Fields /\ r.them = q.them /\ r.state = "abandoned" /\ r.stalledRx = q.stalledRx
  BY DEF abandonFor, Sound, Fields
<1> HIDE DEF r
<1>2. Follows(r, q)
  BY <1>1 DEF Follows, Sound, States
<1> QED
  BY <1>2 DEF r

LEMMA ToAnotherSound ==
  ASSUME NEW q, Sound(q), NEW m
  PROVE  Follows(ToAnother(q, m), q)
<1> DEFINE count == IF q.closingTo = m.to THEN q.closingCount + 1 ELSE 1
           streak == [q EXCEPT !.closingTo = m.to, !.closingCount = count]
<1> HIDE DEF count
<1>1. DOMAIN streak = Fields /\ streak.them = q.them /\ streak.state = q.state
      /\ streak.stalledRx = q.stalledRx
  BY DEF Sound, Fields
<1>2. ToAnother(q, m) \in {abandonFor(q), abandonFor(streak), streak}
  BY Zenon DEF ToAnother, count
<1> HIDE DEF streak
<1>3. Follows(streak, q)
  BY <1>1 DEF Follows, Sound
<1>4. Follows(abandonFor(streak), q) /\ Follows(abandonFor(q), q)
  BY <1>3, AbandonSound DEF Follows
<1> QED
  BY <1>2, <1>3, <1>4

LEMMA ToUsSound ==
  ASSUME NEW q, Sound(q), ~isDone(q), NEW m
  PROVE  Follows(ToUs(q, m), q)
<1> DEFINE to == MovesTo(q.state, m.kind)
           stalled == IF to # q.state THEN 0 ELSE Counted(q.stalledRx)
           r == ToUs(q, m)
<1>1. to \in States /\ q.state \notin {"complete", "abandoned"}
  BY DEF MovesTo, States, Waiting, Sound, isDone
<1>2. Counted(q.stalledRx) \in 0 .. maxRepeats
  BY RepeatsAssumption DEF Counted, Sound
<1>3. stalled \in 0 .. maxRepeats /\ (to = "complete" => stalled < maxRepeats)
  BY <1>1, <1>2, RepeatsAssumption
<1> HIDE DEF to, stalled
<1>4. ToUs(q, m) = [q EXCEPT !.closingTo = None, !.closingCount = 0,
                  !.reportRcvd = q.reportRcvd \/ m.kind \in {"report", "rreport"},
                  !.state = to,
                  !.owes = IF to = "complete" THEN Owed(q.state, m.kind) ELSE q.owes,
                  !.repeats = IF to # q.state THEN 0 ELSE q.repeats,
                  !.stalledRx = stalled]
  BY Zenon DEF ToUs, to, stalled, Sound, Fields
<1>5. DOMAIN r = Fields /\ r.them = q.them /\ r.state = to /\ r.stalledRx = stalled
  BY <1>4 DEF Sound, Fields
<1> HIDE DEF r
<1>6. Follows(r, q)
  BY <1>1, <1>3, <1>5 DEF Follows, Sound
<1> QED
  BY <1>6 DEF r

LEMMA ApplySound ==
  ASSUME NEW q, Sound(q), ~isDone(q), NEW m
  PROVE  Follows(applyOne(q, m), q)
<1>1. applyOne(q, m) \in {q, ToAnother(q, m), ToUs(q, m)}
  BY Zenon DEF applyOne
<1>2. Follows(q, q)
  BY DEF Follows
<1> QED
  BY <1>1, <1>2, ToAnotherSound, ToUsSound

\* A decode keeps the partner, and does nothing to a contact that is over.
LEMMA DecodeSound ==
  ASSUME NEW q, Sound(q), NEW raw
  PROVE  Follows(onDecode(q, raw), q) /\ (isDone(q) => onDecode(q, raw) = q)
<1> DEFINE noted == [q EXCEPT !.seen = q.seen \cup {raw}]
           first == applyOne(noted, raw[1])
<1>1. DOMAIN noted = Fields /\ noted.them = q.them /\ noted.state = q.state
      /\ noted.stalledRx = q.stalledRx
  BY DEF Sound, Fields
<1>2. \/ onDecode(q, raw) = q
      \/ ~isDone(q) /\ onDecode(q, raw) = first
      \/ ~isDone(q) /\ ~isDone(first) /\ onDecode(q, raw) = applyOne(first, raw[2])
  BY Zenon DEF onDecode, Sound, Fields
<1>3. isDone(q) => onDecode(q, raw) = q
  BY Zenon DEF onDecode
<1> HIDE DEF noted
<1>4. Follows(noted, q) /\ (isDone(noted) <=> isDone(q))
  BY <1>1 DEF Follows, Sound, isDone
<1>5. ~isDone(q) => Follows(first, noted)
  BY <1>4, ApplySound DEF Follows
<1> HIDE DEF first
<1>6. ~isDone(q) /\ ~isDone(first) => Follows(applyOne(first, raw[2]), first)
  BY <1>5, ApplySound DEF Follows
<1> QED
  BY <1>2, <1>3, <1>4, <1>5, <1>6 DEF Follows

---------------------------------------------------------------------------
(* A tick. *)

\* A tick reports a contact that has not been, and then it has been; a contact that is
\* over stays over.
Ticked(t, q) ==
    /\ Follows(t.seq, q)
    /\ t.log \/ t.gaveUp => ~Settled(q) /\ Settled(t.seq)
    /\ Settled(q) => t.seq = q
    /\ isDone(q) => isDone(t.seq)

LEMMA SaysTicked ==
  ASSUME NEW q, NEW r, Follows(r, q), Settled(q) => r = q, isDone(q) => isDone(r), NEW send
  PROVE  Ticked(Says(r, send), q)
<1> DEFINE t == Says(r, send)
<1>1. t.seq = r /\ ~t.log /\ ~t.gaveUp
  BY DEF Says
<1> HIDE DEF t
<1>2. Ticked(t, q)
  BY <1>1 DEF Ticked
<1> QED
  BY <1>2 DEF t

LEMMA GivesUpTicked ==
  ASSUME NEW q, NEW r, Follows(r, q), ~Settled(q)
  PROVE  Ticked(GivesUp(r), q)
<1> DEFINE over == [r EXCEPT !.state = "abandoned", !.pending = FALSE]
           t == GivesUp(r)
<1>1. /\ DOMAIN over = Fields /\ over.them = r.them /\ over.state = "abandoned"
      /\ over.pending = FALSE /\ over.stalledRx = r.stalledRx
  BY DEF Sound, Fields, Follows
<1> HIDE DEF over
<1>2. t.seq = over
  BY DEF GivesUp, Says, over
<1> HIDE DEF t
<1>3. Follows(over, q) /\ Settled(over) /\ isDone(over)
  BY <1>1 DEF Follows, Sound, States, Settled, isDone
<1>4. Ticked(t, q)
  BY <1>2, <1>3 DEF Ticked
<1> QED
  BY <1>4 DEF t

LEMMA LogsTicked ==
  ASSUME NEW q, NEW r, Follows(r, q), r.state = "complete", Settled(q) => r = q,
         ~r.logged => ~Settled(q)
  PROVE  Ticked(Logs(r), q)
<1> DEFINE over == [r EXCEPT !.logged = TRUE]
           t == Logs(r)
<1>0. isDone(r)
  BY DEF isDone
<1>1. CASE r.logged
  <2>1. Logs(r) = Says(r, None)
    BY <1>1, Zenon DEF Logs
  <2> QED
    BY <1>0, <2>1, SaysTicked
<1>2. CASE ~r.logged
  <2>1. /\ DOMAIN over = Fields /\ over.them = r.them /\ over.state = "complete"
        /\ over.logged = TRUE /\ over.stalledRx = r.stalledRx
    BY DEF Sound, Fields, Follows
  <2>2. t = [Says(over, r.owes) EXCEPT !.log = TRUE]
    BY <1>2, Zenon DEF Logs
  <2> HIDE DEF over
  <2>3. t.seq = over
    BY <2>2 DEF Says
  <2> HIDE DEF t
  <2>4. Follows(over, q) /\ Settled(over) /\ isDone(over)
    BY <2>1 DEF Follows, Sound, Settled, isDone
  <2>5. Ticked(t, q)
    BY <1>2, <2>3, <2>4 DEF Ticked
  <2> QED
    BY <2>5 DEF t
<1> QED
  BY <1>1, <1>2

LEMMA RepeatsTicked ==
  ASSUME NEW q, Sound(q), ~isDone(q), q.stalledRx < maxRepeats
  PROVE  Ticked(Repeats(q), q)
<1> DEFINE next == NextMessage(q.state)
           n == IF next = q.lastSent THEN q.repeats + 1 ELSE q.repeats
           again == [q EXCEPT !.lastSent = next, !.repeats = n]
           complete == [again EXCEPT !.state = "complete"]
<1>1. ~Settled(q)
  BY DEF Settled, isDone
<1> HIDE DEF next, n
<1>2. DOMAIN again = Fields /\ again.them = q.them /\ again.state = q.state
      /\ again.stalledRx = q.stalledRx
  BY DEF Sound, Fields
<1>3. Repeats(q) = Says(again, next) \/ Repeats(q) = GivesUp(again) \/ Repeats(q) = Logs(complete)
  BY Zenon DEF Repeats, next, n, Sound, Fields
<1> HIDE DEF again
<1>4. Follows(again, q)
  BY <1>2 DEF Follows, Sound
<1>5. DOMAIN complete = Fields /\ complete.them = again.them /\ complete.state = "complete"
      /\ complete.stalledRx = again.stalledRx
  BY <1>2 DEF Fields
<1> HIDE DEF complete
<1>6. Follows(complete, q)
  BY <1>2, <1>4, <1>5 DEF Follows, Sound, States
<1>7. Ticked(Says(again, next), q)
  BY <1>1, <1>4, SaysTicked
<1>8. Ticked(GivesUp(again), q)
  BY <1>1, <1>4, GivesUpTicked
<1>9. Ticked(Logs(complete), q)
  BY <1>1, <1>5, <1>6, LogsTicked
<1> QED
  BY <1>3, <1>7, <1>8, <1>9

LEMMA TickTicked ==
  ASSUME NEW q, Sound(q)
  PROVE  Ticked(tick(q), q)
<1>0. Follows(q, q)
  BY DEF Follows
<1>1. CASE q.state = "abandoned" /\ q.pending
  <2>1. tick(q) = GivesUp(q)
    BY <1>1, Zenon DEF tick
  <2>2. ~Settled(q)
    BY <1>1 DEF Settled
  <2> QED
    BY <1>0, <2>1, <2>2, GivesUpTicked
<1>2. CASE q.state = "abandoned" /\ ~q.pending
  <2>1. tick(q) = Says(q, None)
    BY <1>2, Zenon DEF tick
  <2> QED
    BY <1>0, <2>1, SaysTicked
<1>3. CASE q.state # "abandoned" /\ q.stalledRx >= maxRepeats
  <2>1. ~(q.stalledRx < maxRepeats)
    BY <1>3, RepeatsAssumption DEF Sound
  <2>2. tick(q) = GivesUp(q)
    BY <1>3, <2>1, Zenon DEF tick
  <2>3. ~Settled(q)
    BY <1>3, <2>1 DEF Settled, Sound
  <2> QED
    BY <1>0, <2>2, <2>3, GivesUpTicked
<1>4. CASE q.state # "abandoned" /\ q.stalledRx < maxRepeats
  <2>1. ~(q.stalledRx >= maxRepeats)
    BY <1>4, RepeatsAssumption DEF Sound
  <2>2. CASE q.state = "complete"
    <3>1. tick(q) = Logs(q)
      BY <1>4, <2>1, <2>2, Zenon DEF tick
    <3>2. ~q.logged => ~Settled(q)
      BY <2>2 DEF Settled
    <3> QED
      BY <1>0, <2>2, <3>1, <3>2, LogsTicked
  <2>3. CASE q.state # "complete"
    <3>1. tick(q) = Repeats(q)
      BY <1>4, <2>1, <2>3, Zenon DEF tick
    <3>2. ~isDone(q)
      BY <1>4, <2>3 DEF isDone
    <3> QED
      BY <1>4, <3>1, <3>2, RepeatsTicked
  <2> QED
    BY <2>2, <2>3
<1> QED
  BY <1>1, <1>2, <1>3, <1>4, RepeatsAssumption DEF Sound

---------------------------------------------------------------------------
(* The contact. *)

\* The controller as runTick finds it or leaves it: whose contact, its sequencer, its
\* partner, our parity, the last window ticked, the count of the brake, and what became of
\* contacts.
Good(k, q, b, p, l, n, o) ==
    /\ k \in Request \cup {None}
    /\ k = None => q = Idle /\ b = None /\ p = None
    /\ Sound(q)
    /\ p \in {0, 1, None} /\ l \in {0, 1, 2, None}
    /\ n \in 0 .. maxConsecutiveTx + 1
    /\ o \in [Request -> Outcomes]
    /\ k # None => /\ o[k] # "stopped"
                   /\ o[k] = "live" \/ Settled(q)

ContactGood == Good(contact, seq, partner, txParity, lastTickWindow, consecutiveTx, outcome)

\* What runTick does to the rest.
Handed(k, p, w) ==
    /\ paused => paused'
    /\ flight' \subseteq flight \cup {[req |-> k, window |-> w]}
    /\ flight' # flight => p # None
    /\ txPending' => (txPending /\ flight' = flight) \/ flight' # {}
    /\ ~paused' => consecutiveTx' <= maxConsecutiveTx

LEMMA RunTick ==
  ASSUME NEW c, NEW w \in 0 .. 2,
         Good(c.contact, c.seq, c.partner, c.txParity, c.last, c.count, c.outcome),
         paused \in BOOLEAN, ~paused => c.count <= maxConsecutiveTx,
         runTick(c, w) \/ Stands(c)
  PROVE  /\ ContactGood'
         /\ contact' = c.contact /\ partner' = c.partner /\ seq'.them = c.seq.them
         /\ isDone(c.seq) => isDone(seq')
         /\ txParity' \in {c.txParity, None}
         /\ \A r \in Request : r # c.contact => outcome'[r] = c.outcome[r]
         /\ paused' \in BOOLEAN
         /\ Handed(c.contact, c.txParity, w)
<1>1. CASE Stands(c)
  <2>1. UNCHANGED <<paused, txPending, flight>>
    BY <1>1 DEF Stands, txVars
  <2>2. /\ contact' = c.contact /\ seq' = c.seq /\ partner' = c.partner
        /\ txParity' = c.txParity
        /\ lastTickWindow' = c.last /\ consecutiveTx' = c.count /\ outcome' = c.outcome
    BY <1>1 DEF Stands
  <2>3. ContactGood'
    BY <2>2 DEF ContactGood
  <2>4. Handed(c.contact, c.txParity, w)
    BY <2>1, <2>2 DEF Handed
  <2> QED
    BY <2>1, <2>2, <2>3, <2>4
<1>2. CASE Ticks(c, w) /\ c.txParity # None
  <2> DEFINE t == tick(c.seq)
             count == IF t.log THEN 0 ELSE c.count
             asks == t.send # None
             brakes == asks /\ ~paused /\ BrakeTrips(count + 1)
             blocked == asks /\ (paused \/ brakes)
             over == isDone(t.seq) /\ ~blocked
  <2>1. Ticked(t, c.seq)
    BY TickTicked DEF Good
  <2>2. c.contact \in Request /\ c.contact # None
    BY <1>2 DEF Good
  <2> HIDE DEF t
  <2>3. /\ contact' = c.contact /\ seq' = t.seq /\ partner' = c.partner
        /\ txParity' = IF over THEN None ELSE c.txParity
        /\ lastTickWindow' = IF over THEN None ELSE w
        /\ outcome' = [c.outcome EXCEPT ![c.contact] = Verdict(t, c.outcome[c.contact])]
        /\ consecutiveTx' = IF asks /\ ~paused THEN count + 1 ELSE count
        /\ paused' = (paused \/ brakes)
        /\ IF asks /\ ~blocked
           THEN flight' = flight \cup {[req |-> c.contact, window |-> w]} /\ txPending' = TRUE
           ELSE UNCHANGED txVars
    BY <1>2, <2>2, Zenon DEF Ticks, t, Good
  <2> HIDE DEF over, asks
  <2>4. /\ consecutiveTx' \in 0 .. maxConsecutiveTx + 1
        /\ ~paused' => consecutiveTx' <= maxConsecutiveTx
    <3>1. count \in 0 .. maxConsecutiveTx + 1 /\ (~paused => count <= maxConsecutiveTx)
      BY ControllerAssumption DEF Good
    <3> HIDE DEF count
    <3>2. asks /\ ~paused /\ ~BrakeTrips(count + 1) => count + 1 <= maxConsecutiveTx
      BY <3>1, ControllerAssumption DEF BrakeTrips
    <3>3. ~paused' => ~paused /\ (asks => ~BrakeTrips(count + 1))
      BY <2>3, Zenon
    <3>4. consecutiveTx' = IF asks /\ ~paused THEN count + 1 ELSE count
      BY <2>3
    <3> QED
      BY <3>1, <3>2, <3>3, <3>4, ControllerAssumption
  <2>5. outcome' = [c.outcome EXCEPT ![c.contact] = Verdict(t, c.outcome[c.contact])]
    BY <2>3
  <2>6. /\ Verdict(t, c.outcome[c.contact]) \in Outcomes \ {"stopped"}
        /\ Verdict(t, c.outcome[c.contact]) = "live" \/ Settled(t.seq)
    <3>1. CASE t.log \/ t.gaveUp
      <4>1. c.outcome[c.contact] = "live" /\ Settled(t.seq)
        BY <2>1, <2>2, <3>1 DEF Good, Ticked
      <4> QED
        BY <3>1, <4>1 DEF Verdict, Outcomes
    <3>2. CASE ~t.log /\ ~t.gaveUp
      <4>1. Verdict(t, c.outcome[c.contact]) = c.outcome[c.contact]
        BY <3>2 DEF Verdict
      <4> QED
        BY <2>1, <2>2, <4>1 DEF Good, Ticked
    <3> QED
      BY <3>1, <3>2
  <2>7. /\ outcome' \in [Request -> Outcomes]
        /\ outcome'[c.contact] = Verdict(t, c.outcome[c.contact])
        /\ \A r \in Request : r # c.contact => outcome'[r] = c.outcome[r]
    BY <2>2, <2>5, <2>6 DEF Good
  <2>8. txParity' \in {c.txParity, None} /\ lastTickWindow' \in {w, None}
    BY <2>3
  <2>9. ContactGood'
    BY <2>1, <2>2, <2>3, <2>4, <2>6, <2>7, <2>8 DEF ContactGood, Good, Ticked, Follows
  <2>10. paused' \in BOOLEAN /\ (paused => paused')
    BY <2>3, Zenon
  <2>11. /\ flight' \subseteq flight \cup {[req |-> c.contact, window |-> w]}
         /\ txPending' => (txPending /\ flight' = flight) \/ flight' # {}
    BY <2>3 DEF txVars
  <2>12. Handed(c.contact, c.txParity, w)
    BY <1>2, <2>4, <2>10, <2>11 DEF Handed
  <2> QED
    BY <2>1, <2>3, <2>7, <2>8, <2>9, <2>10, <2>12 DEF Ticked, Follows
<1> QED
  BY <1>1, <1>2 DEF runTick

---------------------------------------------------------------------------
(* The invariant. *)

Openings == (UNION {RawsFrom(s) : s \in Station}) \cup {None}

CallRecords ==
    [them : Station \cup {None}, opening : Openings, theirs : {0, 1, None}, fresh : BOOLEAN,
     path : {"operator", "candidate", "window", None}]

\* Whom a contact is with, heard in which windows, and the CQ it answers.
Partners == [them : Station \cup {None}, theirs : {0, 1}, cq : {0, 1, None}]

\* A request that has not begun has no contact, and one under way names a parity.
RequestsGood ==
    /\ phase \in [Request -> {"out", "deciding", "asking", "refused", "begun"}]
    /\ call \in [Request -> CallRecords]
    /\ \A r \in Request : phase[r] \in {"deciding", "asking"} => call[r].theirs \in {0, 1}
    /\ \A r \in Request : phase[r] # "begun" => outcome[r] = "none"

\* The contact in progress is with its partner, in the windows that leaves us.
ContactMatches ==
    contact # None => /\ phase[contact] = "begun"
                      /\ partner \in Partners
                      /\ seq.them = partner.them
                      /\ txParity # None => txParity = Leaves(partner)

\* Whoever is awaiting the guards while a contact is on was doing so when it began.
RivalsGood == rivals \subseteq Asking /\ (hasActive => Asking \subseteq rivals)

RestGood ==
    /\ paused \in BOOLEAN /\ (~paused => consecutiveTx <= maxConsecutiveTx)
    /\ parity \in {0, 1} /\ decodes \in {"none", "early", "all", "done"}
    /\ flight \subseteq [req : Request, window : 0 .. 2]
    /\ PendingMeansInFlight

CqTyped == cqParity \in {0, 1, None}

ControllerInv == ContactGood /\ RequestsGood /\ ContactMatches /\ RivalsGood /\ RestGood

\* What is handed over for the window named w goes out in a window the contact leaves us.
InOwnWindow(w) ==
    LET p == (parity + w) % 2
    IN  IF partner'.cq = None THEN p # partner'.theirs ELSE p = partner'.cq

\* What a step may do: a contact in progress only gives way to a rival, and what is handed
\* over is the contact's, for one of its windows.
StepGood ==
    /\ hasActive /\ contact' # contact => contact' \in rivals \cup {None}
    /\ \A f \in flight' \ flight : parity' = parity =>
          /\ f.req \in Request /\ outcome[f.req] # "stopped"
          /\ f.req = contact' /\ InOwnWindow(f.window)

LEMMA OwnWindow ==
  ASSUME partner' \in Partners, NEW w, (parity + w) % 2 = Leaves(partner')
  PROVE  InOwnWindow(w)
  BY ControllerAssumption DEF InOwnWindow, Leaves, Partners

LEMMA NoCallTypes == NoCall \in CallRecords
  BY DEF NoCall, CallRecords, Openings

LEMMA IdleSound == Sound(Idle) /\ Idle.seen = {} /\ NextWindow(Idle) = Idle
<1>1. Sound(Idle)
  BY NewSound DEF Idle
<1>2. Idle = [me |-> Me, them |-> None, state |-> "calling",
              reportRcvd |-> FALSE, repeats |-> 0, stalledRx |-> 0, lastSent |-> None,
              closingTo |-> None, closingCount |-> 0, owes |-> None,
              pending |-> FALSE, logged |-> FALSE, seen |-> {}]
  BY DEF Idle, NewSequencer
<1>3. DOMAIN Idle = Fields /\ Idle.seen = {}
  BY <1>2 DEF Fields
<1>4. /\ Idle = [k \in Fields |-> Idle[k]]
      /\ [Idle EXCEPT !.seen = {}] = [k \in Fields |-> IF k = "seen" THEN {} ELSE Idle[k]]
  BY <1>2 DEF Fields
<1>5. [Idle EXCEPT !.seen = {}] = Idle
  BY <1>3, <1>4
<1> QED
  BY <1>1, <1>3, <1>5 DEF NextWindow

LEMMA InvInit == Init => ControllerInv
<1> SUFFICES ASSUME Init PROVE ControllerInv
  OBVIOUS
<1>1. ContactGood
  BY IdleSound, ControllerAssumption DEF Init, ContactGood, Good, Outcomes
<1>2. RequestsGood
  BY NoCallTypes DEF Init, RequestsGood
<1>3. RivalsGood
  BY DEF Init, RivalsGood, hasActive
<1>4. RestGood
  <2>1. paused \in BOOLEAN /\ ~txPending
    BY Zenon DEF Init
  <2>2. /\ consecutiveTx <= maxConsecutiveTx /\ parity \in {0, 1} /\ decodes = "none"
        /\ flight \subseteq [req : Request, window : 0 .. 2]
    BY ControllerAssumption DEF Init
  <2> QED
    BY <2>1, <2>2 DEF RestGood, PendingMeansInFlight
<1> QED
  BY <1>1, <1>2, <1>3, <1>4 DEF ControllerInv, ContactMatches, Init

LEMMA InvSame ==
  ASSUME ControllerInv,
         UNCHANGED <<contactVars, requestVars, guardVars, windowVars, txVars, outcome, rivals>>
  PROVE  ControllerInv' /\ StepGood
<1>1. ContactGood' /\ RequestsGood'
  BY DEF ControllerInv, ContactGood, RequestsGood, contactVars, requestVars, guardVars
<1>2. ContactMatches' /\ RivalsGood'
  BY DEF ControllerInv, ContactMatches, RivalsGood, Asking, hasActive, contactVars, requestVars
<1>3. RestGood'
  BY DEF ControllerInv, RestGood, PendingMeansInFlight, guardVars, windowVars, txVars
<1> QED
  BY <1>1, <1>2, <1>3 DEF ControllerInv, StepGood, contactVars, txVars

---------------------------------------------------------------------------
(* What is heard. *)

LEMMA AfterWindowKeeps ==
  ASSUME ControllerInv, NEW q, Follows(q, seq), isDone(seq) \/ contact = None => q = seq,
         afterWindow(q), UNCHANGED <<requestVars, parity, rivals>>,
         decodes' \in {"none", "early", "all", "done"}
  PROVE  ControllerInv' /\ StepGood
<1> DEFINE c == [Controller EXCEPT !.seq = q]
<1>1. /\ c.contact = contact /\ c.seq = q /\ c.partner = partner
      /\ c.txParity = txParity /\ c.last = lastTickWindow /\ c.count = consecutiveTx /\ c.outcome = outcome
  BY DEF Controller
<1>2. (runTick(c, 0) /\ decodes = "none" /\ contact # None /\ txParity = parity) \/ Stands(c)
  BY Zenon DEF afterWindow
<1> HIDE DEF c
<1>3. Good(c.contact, c.seq, c.partner, c.txParity, c.last, c.count, c.outcome)
  <2>1. Settled(seq) => q = seq
    BY DEF Settled, isDone
  <2> QED
    BY <1>1, <2>1 DEF ControllerInv, ContactGood, Good, Follows
<1>4. /\ ContactGood'
      /\ contact' = contact /\ partner' = partner /\ seq'.them = seq.them
      /\ isDone(q) => isDone(seq')
      /\ txParity' \in {txParity, None}
      /\ \A r \in Request : r # contact => outcome'[r] = outcome[r]
      /\ paused' \in BOOLEAN
      /\ Handed(contact, txParity, 0)
  BY <1>1, <1>2, <1>3, RunTick DEF ControllerInv, RestGood, Follows
<1>5. RequestsGood'
  <2>1. UNCHANGED <<phase, call>>
    BY DEF requestVars
  <2>2. \A r \in Request : phase[r] # "begun" => r # contact
    BY ControllerAssumption DEF ControllerInv, ContactMatches, Request
  <2> QED
    BY <1>4, <2>1, <2>2 DEF ControllerInv, RequestsGood
<1>6. ContactMatches'
  BY <1>4 DEF ControllerInv, ContactMatches, requestVars
<1>7. RivalsGood'
  <2>1. hasActive' => hasActive
    BY <1>4 DEF hasActive
  <2> QED
    BY <2>1 DEF ControllerInv, RivalsGood, Asking, requestVars
<1>8. \A f \in flight' \ flight : f = [req |-> contact, window |-> 0] /\ contact \in Request
                                  /\ txParity = parity
  <2>1. flight' # flight => contact # None /\ txParity = parity
    BY <1>1, <1>2 DEF Stands, txVars
  <2>2. contact # None => contact \in Request
    BY DEF ControllerInv, ContactGood, Good
  <2> QED
    BY <1>4, <2>1, <2>2 DEF Handed
<1>9. RestGood'
  <2>1. flight' \subseteq [req : Request, window : 0 .. 2]
    BY <1>8 DEF ControllerInv, RestGood
  <2>2. PendingMeansInFlight'
    BY <1>4 DEF Handed, ControllerInv, RestGood, PendingMeansInFlight
  <2> QED
    BY <1>4, <2>1, <2>2 DEF Handed, ControllerInv, RestGood
<1>10. StepGood
  <2>1. ASSUME NEW f \in flight' \ flight
        PROVE  /\ f.req \in Request /\ outcome[f.req] # "stopped"
               /\ f.req = contact' /\ InOwnWindow(f.window)
    <3>1. f.req = contact /\ f.window = 0 /\ contact \in Request /\ contact # None
          /\ txParity = parity
      BY <1>8, ControllerAssumption DEF Request
    <3>2. txParity # None
      BY <1>4, <2>1 DEF Handed
    <3>3. outcome[contact] # "stopped"
      BY <3>1 DEF ControllerInv, ContactGood, Good
    <3>4. parity \in {0, 1} /\ (parity + 0) % 2 = parity
      BY DEF ControllerInv, RestGood
    <3>5. partner' \in Partners /\ Leaves(partner') = parity
      BY <1>4, <3>1, <3>2 DEF ControllerInv, ContactMatches
    <3>6. InOwnWindow(0)
      BY <3>4, <3>5, OwnWindow
    <3> QED
      BY <1>4, <3>1, <3>3, <3>6
  <2> QED
    BY <1>4, <2>1 DEF StepGood
<1> QED
  BY <1>4, <1>5, <1>6, <1>7, <1>9, <1>10 DEF ControllerInv

LEMMA HearsKeeps ==
  ASSUME ControllerInv, onPriorityDecodes \/ onDecodes
  PROVE  ControllerInv' /\ StepGood
<1>1. decodes' \in {"none", "early", "all", "done"} /\ UNCHANGED <<requestVars, parity, rivals>>
  BY DEF onPriorityDecodes, onDecodes
<1>2. Sound(seq)
  BY DEF ControllerInv, ContactGood, Good
<1>3. PICK q : afterWindow(q) /\ (q = seq \/ (contact # None /\ \E raw : q = onDecode(seq, raw)))
  BY DEF onPriorityDecodes, onDecodes, Hears, hasActive
<1>4. Follows(q, seq) /\ (isDone(seq) \/ contact = None => q = seq)
  BY <1>2, <1>3, DecodeSound DEF Follows
<1> QED
  BY <1>1, <1>3, <1>4, AfterWindowKeeps

LEMMA PassFailsKeeps ==
  ASSUME ControllerInv, passFails
  PROVE  ControllerInv' /\ StepGood
<1>1. /\ UNCHANGED <<contactVars, requestVars, guardVars, txVars, outcome, rivals, parity>>
      /\ decodes' = "done"
  BY DEF passFails
<1>2. ContactGood' /\ RequestsGood'
  BY <1>1 DEF ControllerInv, ContactGood, RequestsGood, contactVars, requestVars, guardVars
<1>3. ContactMatches' /\ RivalsGood'
  BY <1>1 DEF ControllerInv, ContactMatches, RivalsGood, Asking, hasActive, contactVars,
              requestVars
<1>4. RestGood'
  BY <1>1 DEF ControllerInv, RestGood, PendingMeansInFlight, guardVars, txVars
<1> QED
  BY <1>1, <1>2, <1>3, <1>4 DEF ControllerInv, StepGood, contactVars, txVars

\* The windows are named anew, and what was handed over for the next is still under way.
LEMMA WindowEndsKeeps ==
  ASSUME ControllerInv, WindowEnds
  PROVE  ControllerInv' /\ StepGood
<1>1. /\ UNCHANGED <<contact, partner, txParity, phase, guardVars, txPending, outcome, rivals>>
      /\ parity' = 1 - parity /\ decodes' = "none" /\ seq' = NextWindow(seq)
      /\ lastTickWindow' = IF lastTickWindow \in {1, 2} THEN lastTickWindow - 1 ELSE None
      /\ flight' = {[f EXCEPT !.window = f.window - 1] : f \in flight}
      /\ call' = [r \in Request |-> [call[r] EXCEPT !.fresh = FALSE]]
      /\ \A f \in flight : f.window # 0
  BY DEF WindowEnds
<1>2. Follows(seq', seq) /\ (isDone(seq') <=> isDone(seq)) /\ (Settled(seq') <=> Settled(seq))
  BY <1>1, NextWindowKeeps DEF ControllerInv, ContactGood, Good
<1>3. ContactGood'
  <2>1. lastTickWindow' \in {0, 1, 2, None}
    BY <1>1 DEF ControllerInv, ContactGood, Good
  <2>2. contact = None => seq' = Idle
    BY <1>1, IdleSound DEF ControllerInv, ContactGood, Good
  <2> QED
    BY <1>1, <1>2, <2>1, <2>2 DEF ControllerInv, ContactGood, Good, Follows, guardVars
<1>4. /\ call' \in [Request -> CallRecords]
      /\ \A r \in Request : call'[r].theirs = call[r].theirs
  <2>1. ASSUME NEW r \in Request
        PROVE  /\ [call[r] EXCEPT !.fresh = FALSE] \in CallRecords
               /\ [call[r] EXCEPT !.fresh = FALSE].theirs = call[r].theirs
    <3>1. call[r] \in CallRecords
      BY DEF ControllerInv, RequestsGood
    <3> QED
      BY <3>1 DEF CallRecords
  <2> QED
    BY <1>1, <2>1
<1>5. RequestsGood'
  BY <1>1, <1>4 DEF ControllerInv, RequestsGood
<1>6. ContactMatches'
  <2>1. contact # None => contact \in Request
    BY DEF ControllerInv, ContactGood, Good
  <2> QED
    BY <1>1, <1>2, <1>4, <2>1 DEF ControllerInv, ContactMatches, Follows
<1>7. RivalsGood'
  BY <1>1, <1>2 DEF ControllerInv, RivalsGood, Asking, hasActive
<1>8. RestGood'
  <2>1. parity' \in {0, 1}
    BY <1>1 DEF ControllerInv, RestGood
  <2>2. flight' \subseteq [req : Request, window : 0 .. 2]
    <3>1. ASSUME NEW f \in flight
          PROVE  [f EXCEPT !.window = f.window - 1] \in [req : Request, window : 0 .. 2]
      <4>1. f \in [req : Request, window : 0 .. 2] /\ f.window # 0
        BY <1>1 DEF ControllerInv, RestGood
      <4> QED
        BY <4>1
    <3> QED
      BY <1>1, <3>1
  <2>3. flight # {} => flight' # {}
    BY <1>1
  <2>4. PendingMeansInFlight'
    BY <1>1, <2>3 DEF ControllerInv, RestGood, PendingMeansInFlight
  <2> QED
    BY <1>1, <2>1, <2>2, <2>4 DEF ControllerInv, RestGood, guardVars
<1>9. StepGood
  <2>1. parity' # parity
    BY <1>1 DEF ControllerInv, RestGood
  <2> QED
    BY <1>1, <2>1 DEF StepGood
<1> QED
  BY <1>3, <1>5, <1>6, <1>7, <1>8, <1>9 DEF ControllerInv

LEMMA TxReturnsKeeps ==
  ASSUME ControllerInv, NEW f \in flight, TxReturns(f)
  PROVE  ControllerInv' /\ StepGood
<1>1. /\ UNCHANGED <<contactVars, requestVars, guardVars, windowVars, outcome, rivals>>
      /\ flight' \subseteq flight /\ ~txPending'
  BY DEF TxReturns
<1>2. ContactGood' /\ RequestsGood'
  BY <1>1 DEF ControllerInv, ContactGood, RequestsGood, contactVars, requestVars, guardVars
<1>3. ContactMatches' /\ RivalsGood'
  BY <1>1 DEF ControllerInv, ContactMatches, RivalsGood, Asking, hasActive, contactVars,
              requestVars
<1>4. RestGood'
  BY <1>1 DEF ControllerInv, RestGood, PendingMeansInFlight, guardVars, windowVars
<1> QED
  BY <1>1, <1>2, <1>3, <1>4 DEF ControllerInv, StepGood, contactVars

---------------------------------------------------------------------------
(* Requests for a contact. *)

\* A request moves on while no contact is on, or leaves whoever is asking.
LEMMA EntersKeeps ==
  ASSUME ControllerInv, NEW r \in Request, phase[r] # "begun",
         NEW p \in {"deciding", "asking", "refused"}, Enters(r, p),
         NEW k \in CallRecords, call' = [call EXCEPT ![r] = k],
         p # "refused" => k.theirs \in {0, 1},
         p = "asking" => ~hasActive,
         UNCHANGED <<contactVars, guardVars, windowVars, txVars, outcome>>
  PROVE  ControllerInv' /\ StepGood
<1>1. phase' = [phase EXCEPT ![r] = p] /\ rivals' = rivals \ {r}
  BY DEF Enters
<1>2. r # contact \/ contact = None
  BY DEF ControllerInv, ContactMatches
<1>3. ContactGood'
  BY DEF ControllerInv, ContactGood, contactVars, guardVars
<1>4. RequestsGood'
  BY <1>1 DEF ControllerInv, RequestsGood
<1>5. ContactMatches'
  <2>1. contact # None => /\ contact \in Request /\ contact # r
                          /\ phase'[contact] = phase[contact] /\ call'[contact] = call[contact]
    BY <1>1, <1>2 DEF ControllerInv, ContactGood, Good, RequestsGood
  <2> QED
    BY <2>1 DEF ControllerInv, ContactMatches, contactVars
<1>6. RivalsGood'
  <2>1. hasActive' <=> hasActive
    BY DEF hasActive, contactVars
  <2>2. Asking' \ {r} = Asking \ {r} /\ (r \in Asking' => p = "asking")
    BY <1>1 DEF Asking, ControllerInv, RequestsGood
  <2>3. rivals \subseteq Asking /\ (hasActive => Asking \subseteq rivals)
    BY DEF ControllerInv, RivalsGood
  <2>4. rivals' \subseteq Asking'
    BY <1>1, <2>2, <2>3
  <2>5. hasActive => Asking' \subseteq rivals'
    BY <1>1, <2>2, <2>3
  <2> QED
    BY <2>1, <2>4, <2>5 DEF RivalsGood
<1>7. RestGood'
  BY DEF ControllerInv, RestGood, PendingMeansInFlight, guardVars, windowVars, txVars
<1> QED
  BY <1>3, <1>4, <1>5, <1>6, <1>7 DEF ControllerInv, StepGood, contactVars, txVars

LEMMA StartCallKeeps ==
  ASSUME ControllerInv, NEW r \in Request, startCall(r)
  PROVE  ControllerInv' /\ StepGood
<1>1. /\ phase[r] = "deciding" /\ ~hasActive /\ Enters(r, "asking")
      /\ UNCHANGED <<contactVars, call, guardVars, windowVars, txVars, outcome>>
  BY DEF startCall
<1>2. call[r] \in CallRecords /\ call[r].theirs \in {0, 1} /\ call' = [call EXCEPT ![r] = call[r]]
  BY <1>1 DEF ControllerInv, RequestsGood
<1> QED
  BY <1>1, <1>2, EntersKeeps

LEMMA IsRefusedKeeps ==
  ASSUME ControllerInv, NEW r \in Request, IsRefused(r)
  PROVE  ControllerInv' /\ StepGood
<1>1. /\ phase[r] # "begun" /\ Enters(r, "refused") /\ call' = [call EXCEPT ![r] = NoCall]
      /\ UNCHANGED <<contactVars, guardVars, windowVars, txVars, outcome>>
  BY DEF IsRefused, Forgets
<1> QED
  BY <1>1, NoCallTypes, EntersKeeps

LEMMA OperatorCallsKeeps ==
  ASSUME ControllerInv, NEW r \in ByOperator, OperatorCalls(r)
  PROVE  ControllerInv' /\ StepGood
<1>1. /\ ~hasActive /\ Enters(r, "asking")
      /\ UNCHANGED <<contactVars, guardVars, windowVars, txVars, outcome>>
  BY DEF OperatorCalls
<1>2. PICK s \in Station, theirs \in {0, 1} :
        \E opening \in RawsFrom(s) \cup {None} : Asks(r, "operator", s, opening, theirs)
  BY DEF OperatorCalls
<1>3. r \in Request /\ phase[r] # "begun"
  BY <1>2 DEF Asks, Request
<1>4. PICK opening \in RawsFrom(s) \cup {None} : Asks(r, "operator", s, opening, theirs)
  BY <1>2
<1> DEFINE k == [them |-> s, opening |-> opening, theirs |-> theirs, fresh |-> opening # None,
                 path |-> "operator"]
<1>5. k \in CallRecords /\ k.theirs \in {0, 1}
  BY DEF CallRecords, Openings
<1>6. call' = [call EXCEPT ![r] = k]
  BY <1>4 DEF Asks
<1> HIDE DEF k
<1> QED
  BY <1>1, <1>3, <1>5, <1>6, EntersKeeps

LEMMA AutoPicksKeeps ==
  ASSUME ControllerInv, NEW r \in ByAuto, AutoPicks(r)
  PROVE  ControllerInv' /\ StepGood
<1>1. /\ Enters(r, "deciding")
      /\ UNCHANGED <<contactVars, guardVars, windowVars, txVars, outcome>>
  BY DEF AutoPicks
<1>2. PICK s \in Station, theirs \in {0, 1}, path \in {"candidate", "window"} :
        \E opening \in RawsFrom(s) \cup {None} : Asks(r, path, s, opening, theirs)
  BY DEF AutoPicks
<1>3. r \in Request /\ phase[r] # "begun"
  BY <1>2 DEF Asks, Request
<1>4. PICK opening \in RawsFrom(s) \cup {None} : Asks(r, path, s, opening, theirs)
  BY <1>2
<1> DEFINE k == [them |-> s, opening |-> opening, theirs |-> theirs, fresh |-> opening # None,
                 path |-> path]
<1>5. k \in CallRecords /\ k.theirs \in {0, 1}
  BY DEF CallRecords, Openings
<1>6. call' = [call EXCEPT ![r] = k]
  BY <1>4 DEF Asks
<1> HIDE DEF k
<1> QED
  BY <1>1, <1>3, <1>5, <1>6, EntersKeeps

---------------------------------------------------------------------------
(* A contact is stopped, or begins. *)

\* Nothing is on any more; what was handed over stays under way.
LEMMA ClearsKeeps ==
  ASSUME ControllerInv, Clears, UNCHANGED <<paused, windowVars>>,
         phase' \in [Request -> {"out", "deciding", "asking", "refused", "begun"}],
         call' \in [Request -> CallRecords],
         \A r \in Request : phase'[r] \in {"deciding", "asking"} => call'[r].theirs \in {0, 1},
         \A r \in Request : phase'[r] # "begun" => phase[r] # "begun",
         rivals' \subseteq Asking'
  PROVE  ControllerInv' /\ StepGood
<1>1. /\ contact' = None /\ seq' = Idle /\ partner' = None
      /\ txParity' = None /\ lastTickWindow' = None
      /\ ~txPending' /\ flight' = flight /\ consecutiveTx' = 0
      /\ outcome' = [r \in Request |->
                       IF r = contact /\ outcome[r] = "live" THEN "stopped" ELSE outcome[r]]
  BY DEF Clears
<1>2. outcome \in [Request -> Outcomes]
  BY DEF ControllerInv, ContactGood, Good
<1>3. ContactGood'
  <2>1. outcome' \in [Request -> Outcomes]
    BY <1>1, <1>2 DEF Outcomes
  <2> QED
    BY <1>1, <2>1, IdleSound, ControllerAssumption DEF ContactGood, Good
<1>4. RequestsGood'
  <2>1. ASSUME NEW r \in Request, phase'[r] # "begun"
        PROVE  outcome'[r] = "none"
    BY <1>1, <2>1 DEF ControllerInv, RequestsGood
  <2> QED
    BY <2>1 DEF RequestsGood
<1>5. ContactMatches' /\ RivalsGood'
  <2>1. ~hasActive'
    BY <1>1 DEF hasActive
  <2> QED
    BY <1>1, <2>1 DEF ContactMatches, RivalsGood
<1>6. RestGood'
  BY <1>1, ControllerAssumption DEF ControllerInv, RestGood, PendingMeansInFlight, windowVars
<1> QED
  BY <1>1, <1>3, <1>4, <1>5, <1>6 DEF ControllerInv, StepGood

LEMMA HaltsKeeps ==
  ASSUME ControllerInv, Halts \/ Skips
  PROVE  ControllerInv' /\ StepGood
<1>1. Clears /\ UNCHANGED <<paused, windowVars>> /\ UNCHANGED <<requestVars, rivals>>
  BY DEF Halts, Skips
<1>2. rivals' \subseteq Asking'
  BY <1>1 DEF ControllerInv, RivalsGood, Asking, requestVars
<1>3. /\ phase' \in [Request -> {"out", "deciding", "asking", "refused", "begun"}]
      /\ call' \in [Request -> CallRecords]
      /\ \A r \in Request : phase'[r] \in {"deciding", "asking"} => call'[r].theirs \in {0, 1}
      /\ \A r \in Request : phase'[r] # "begun" => phase[r] # "begun"
  BY <1>1 DEF ControllerInv, RequestsGood, requestVars
<1> QED
  BY <1>1, <1>2, <1>3, ClearsKeeps

LEMMA TakesOverKeeps ==
  ASSUME ControllerInv, NEW r \in ByOperator, OperatorTakesOver(r)
  PROVE  ControllerInv' /\ StepGood
<1>1. Clears /\ UNCHANGED <<paused, windowVars>> /\ Enters(r, "deciding")
  BY DEF OperatorTakesOver
<1>2. PICK s \in Station, theirs \in {0, 1} : Asks(r, "operator", s, None, theirs)
  BY DEF OperatorTakesOver
<1>3. r \in Request /\ phase[r] = "out"
  BY <1>2 DEF Asks, Request
<1> DEFINE k == [them |-> s, opening |-> None, theirs |-> theirs, fresh |-> None # None,
                 path |-> "operator"]
<1>4. k \in CallRecords /\ k.theirs \in {0, 1}
  BY DEF CallRecords, Openings
<1>5. call' = [call EXCEPT ![r] = k]
  BY <1>2 DEF Asks
<1> HIDE DEF k
<1>6. phase' = [phase EXCEPT ![r] = "deciding"] /\ rivals' = rivals \ {r}
  BY <1>1 DEF Enters
<1>7. /\ phase' \in [Request -> {"out", "deciding", "asking", "refused", "begun"}]
      /\ call' \in [Request -> CallRecords]
      /\ \A o \in Request : phase'[o] \in {"deciding", "asking"} => call'[o].theirs \in {0, 1}
      /\ \A o \in Request : phase'[o] # "begun" => phase[o] # "begun"
  BY <1>3, <1>4, <1>5, <1>6 DEF ControllerInv, RequestsGood
<1>8. rivals' \subseteq Asking'
  BY <1>3, <1>6 DEF ControllerInv, RivalsGood, RequestsGood, Asking
<1> QED
  BY <1>1, <1>7, <1>8, ClearsKeeps

\* A window the first transmission may be asked for is one of our own.
LEMMA FirstWindowOurs ==
  ASSUME NEW p \in {0, 1}, NEW ours \in {0, 1}, parity = p, NEW w \in FirstTxWindows(ours)
  PROVE  w \in 0 .. 2 /\ (p + w) % 2 = ours
  BY DEF FirstTxWindows

\* A contact begins for r with the partner k, whose first tick may come at once.
LEMMA BeginsKeeps ==
  ASSUME ControllerInv, NEW r \in Request, phase[r] # "begun",
         hasActive => r \in Asking,
         NEW q, Sound(q), NEW k \in Partners, k.them = q.them, NEW n \in {0, consecutiveTx},
         NEW w \in FirstTxWindows(Leaves(k)), runTick(Taken(r, q, k, n), w), Began(r),
         UNCHANGED windowVars,
         call' \in [Request -> CallRecords],
         \A o \in Request : o # r => call'[o] = call[o]
  PROVE  ControllerInv' /\ StepGood
<1> DEFINE c == Taken(r, q, k, n)
           ours == Leaves(k)
<1>0. ours \in {0, 1}
  BY ControllerAssumption DEF Leaves, Partners
<1>1. /\ c.contact = r /\ c.seq = q /\ c.partner = k /\ c.txParity = ours /\ c.last = None
      /\ c.count = n
      /\ c.outcome = [o \in Request |-> IF o = r THEN "live"
                                        ELSE IF o = contact /\ outcome[o] = "live" THEN "stopped"
                                        ELSE outcome[o]]
  BY DEF Taken
<1>2. runTick(c, w)
  OBVIOUS
<1>3. w \in FirstTxWindows(ours)
  OBVIOUS
<1> HIDE DEF c, ours
<1>4. phase' = [phase EXCEPT ![r] = "begun"] /\ rivals' = Asking \ {r}
  BY DEF Began
<1>5. r # None
  BY ControllerAssumption DEF Request
<1>6. r # contact
  BY <1>5 DEF ControllerInv, ContactMatches
<1>7. paused \in BOOLEAN /\ parity \in {0, 1} /\ consecutiveTx \in 0 .. maxConsecutiveTx + 1
      /\ outcome \in [Request -> Outcomes] /\ (~paused => consecutiveTx <= maxConsecutiveTx)
  BY DEF ControllerInv, RestGood, ContactGood, Good
<1>8. n \in 0 .. maxConsecutiveTx + 1 /\ (~paused => n <= maxConsecutiveTx)
  BY <1>7, ControllerAssumption
<1>9. w \in 0 .. 2 /\ (parity + w) % 2 = ours
  BY <1>0, <1>3, <1>7, FirstWindowOurs
<1>10. Good(c.contact, c.seq, c.partner, c.txParity, c.last, c.count, c.outcome)
  <2>1. c.outcome \in [Request -> Outcomes] /\ c.outcome[r] = "live"
    BY <1>1, <1>7 DEF Outcomes
  <2> QED
    BY <1>0, <1>1, <1>5, <1>8, <2>1 DEF Good
<1>11. /\ ContactGood'
       /\ contact' = r /\ partner' = k /\ seq'.them = q.them
       /\ txParity' \in {ours, None}
       /\ \A o \in Request : o # r => outcome'[o] = c.outcome[o]
       /\ paused' \in BOOLEAN
       /\ Handed(r, ours, w)
  BY <1>1, <1>2, <1>7, <1>8, <1>9, <1>10, RunTick
<1>12. RequestsGood'
  <2>1. ASSUME NEW o \in Request, phase'[o] # "begun"
        PROVE  outcome'[o] = "none"
    <3>1. o # r /\ phase[o] # "begun"
      BY <1>4, <2>1 DEF ControllerInv, RequestsGood
    <3>2. outcome[o] = "none"
      BY <3>1 DEF ControllerInv, RequestsGood
    <3> QED
      BY <1>1, <1>11, <3>1, <3>2
  <2>2. /\ phase' \in [Request -> {"out", "deciding", "asking", "refused", "begun"}]
        /\ call' \in [Request -> CallRecords]
        /\ \A o \in Request : phase'[o] \in {"deciding", "asking"} => call'[o].theirs \in {0, 1}
    BY <1>4 DEF ControllerInv, RequestsGood
  <2> QED
    BY <2>1, <2>2 DEF RequestsGood
<1>14. ContactMatches'
  BY <1>4, <1>11, ControllerAssumption DEF ContactMatches, ControllerInv, RequestsGood, ours
<1>15. RivalsGood'
  <2>1. Asking' = Asking \ {r}
    BY <1>4 DEF Asking, ControllerInv, RequestsGood
  <2> QED
    BY <1>4, <2>1 DEF RivalsGood
<1>16. \A f \in flight' \ flight : f = [req |-> r, window |-> w]
  BY <1>11 DEF Handed
<1>17. RestGood'
  <2>1. flight' \subseteq [req : Request, window : 0 .. 2]
    BY <1>9, <1>16 DEF ControllerInv, RestGood
  <2>2. PendingMeansInFlight'
    BY <1>11 DEF Handed, ControllerInv, RestGood, PendingMeansInFlight
  <2> QED
    BY <1>11, <2>1, <2>2 DEF Handed, ControllerInv, RestGood, windowVars
<1>18. StepGood
  <2>1. hasActive => contact' \in rivals \cup {None}
    BY <1>11 DEF ControllerInv, RivalsGood
  <2>2. outcome[r] # "stopped"
    BY DEF ControllerInv, RequestsGood
  <2>3. ASSUME NEW f \in flight' \ flight
        PROVE  /\ f.req \in Request /\ outcome[f.req] # "stopped"
               /\ f.req = contact' /\ InOwnWindow(f.window)
    <3>1. f.req = r /\ f.window = w
      BY <1>16
    <3>2. InOwnWindow(w)
      BY <1>9, <1>11, OwnWindow DEF ours
    <3> QED
      BY <1>11, <2>2, <3>1, <3>2
  <2> QED
    BY <2>1, <2>3 DEF StepGood
<1> QED
  BY <1>11, <1>12, <1>14, <1>15, <1>17, <1>18 DEF ControllerInv

LEMMA CallBeginsKeeps ==
  ASSUME ControllerInv, NEW r \in Request, CallBegins(r)
  PROVE  ControllerInv' /\ StepGood
<1> DEFINE req == call[r]
           new == NewSequencer(Me, req.them, "caller")
           fed == IF req.opening = None THEN new ELSE onDecode(new, req.opening)
           q == IF req.fresh THEN fed ELSE NextWindow(fed)
           k == [them |-> req.them, theirs |-> req.theirs, cq |-> None]
<1>1. /\ phase[r] = "asking" /\ Began(r) /\ Forgets(r) /\ UNCHANGED windowVars
      /\ \E w \in FirstTxWindows(Leaves(k)) : runTick(Taken(r, q, k, 0), w)
  BY Zenon DEF CallBegins
<1>2. req \in CallRecords /\ req.theirs \in {0, 1}
  BY <1>1 DEF ControllerInv, RequestsGood
<1>3. Sound(new) /\ new.them = req.them
  BY NewSound
<1>4. /\ call' \in [Request -> CallRecords]
      /\ \A o \in Request : o # r => call'[o] = call[o]
  BY <1>1, NoCallTypes DEF Forgets, ControllerInv, RequestsGood
<1> HIDE DEF new
<1>5. Follows(fed, new)
  BY <1>3, DecodeSound DEF Follows
<1> HIDE DEF fed
<1>6. Sound(q) /\ q.them = req.them
  BY <1>3, <1>5, NextWindowKeeps DEF Follows
<1>7. k \in Partners /\ k.them = req.them
  BY <1>2 DEF CallRecords, Partners
<1> HIDE DEF req, q, k
<1>8. r \in Asking /\ phase[r] # "begun"
  BY <1>1 DEF Asking
<1>9. PICK w \in FirstTxWindows(Leaves(k)) : runTick(Taken(r, q, k, 0), w)
  BY <1>1
<1> QED
  BY <1>1, <1>4, <1>6, <1>7, <1>8, <1>9, BeginsKeeps

LEMMA AnswerBeginsKeeps ==
  ASSUME ControllerInv, CqTyped, NEW r \in ByAuto, AnswerBegins(r)
  PROVE  ControllerInv' /\ StepGood
<1>1. /\ r \in Request /\ phase[r] # "begun" /\ ~hasActive /\ Began(r)
      /\ UNCHANGED windowVars /\ call' = call
  BY DEF AnswerBegins, Request
<1> DEFINE k(s) == [them |-> s, theirs |-> 1 - parity, cq |-> cqParity]
           q(s) == NewSequencer(Me, s, "answerer")
<1>2. PICK s \in Station : \E w \in FirstTxWindows(Leaves(k(s))) :
                             runTick(Taken(r, q(s), k(s), consecutiveTx), w)
  BY Zenon DEF AnswerBegins
<1>3. Sound(q(s)) /\ q(s).them = s
  BY NewSound
<1>4. k(s) \in Partners /\ k(s).them = s
  <2>1. 1 - parity \in {0, 1}
    BY DEF ControllerInv, RestGood
  <2> QED
    BY <2>1 DEF CqTyped, Partners
<1>5. PICK w \in FirstTxWindows(Leaves(k(s))) : runTick(Taken(r, q(s), k(s), consecutiveTx), w)
  BY <1>2
<1>6. call' \in [Request -> CallRecords] /\ \A o \in Request : o # r => call'[o] = call[o]
  BY <1>1 DEF ControllerInv, RequestsGood
<1> HIDE DEF k, q
<1> QED
  BY <1>1, <1>3, <1>4, <1>5, <1>6, BeginsKeeps

---------------------------------------------------------------------------
(* The guards. *)

LEMMA GuardsKeep ==
  ASSUME ControllerInv, Pauses \/ Rearms \/ SetsMode \/ CallsCq \/ DropsCq
  PROVE  ControllerInv' /\ StepGood
<1>1. /\ UNCHANGED <<contactVars, requestVars, parity, txVars, outcome, rivals>>
      /\ decodes' \in {decodes, "done"}
  BY DEF Pauses, Rearms, SetsMode, CallsCq, DropsCq, windowVars
<1>2. \/ paused' = TRUE /\ consecutiveTx' = consecutiveTx
      \/ paused' = FALSE /\ consecutiveTx' = 0
      \/ paused' = paused /\ consecutiveTx' = consecutiveTx
      \/ /\ ~paused /\ consecutiveTx' = consecutiveTx + 1
         /\ paused' = BrakeTrips(consecutiveTx + 1)
  BY Zenon DEF Pauses, Rearms, SetsMode, CallsCq, DropsCq, guardVars
<1>3. paused' \in BOOLEAN
  <2>1. BrakeTrips(consecutiveTx + 1) \in BOOLEAN
    BY DEF BrakeTrips
  <2>2. paused \in BOOLEAN
    BY DEF ControllerInv, RestGood
  <2> QED
    BY <1>2, <2>1, <2>2, Zenon
<1>4. /\ consecutiveTx' \in 0 .. maxConsecutiveTx + 1
      /\ ~paused' => consecutiveTx' <= maxConsecutiveTx
  <2>1. /\ consecutiveTx \in 0 .. maxConsecutiveTx + 1
        /\ ~paused => consecutiveTx <= maxConsecutiveTx
    BY DEF ControllerInv, ContactGood, Good, RestGood
  <2>2. ~BrakeTrips(consecutiveTx + 1) => consecutiveTx + 1 <= maxConsecutiveTx
    BY <2>1, ControllerAssumption DEF BrakeTrips
  <2>3. \/ consecutiveTx' = consecutiveTx /\ (paused' \/ (~paused /\ ~paused'))
        \/ consecutiveTx' = 0
        \/ ~paused /\ consecutiveTx' = consecutiveTx + 1
            /\ (paused' \/ ~BrakeTrips(consecutiveTx + 1))
    BY <1>2, Zenon DEF ControllerInv, RestGood
  <2> QED
    BY <2>1, <2>2, <2>3, ControllerAssumption
<1>5. ContactGood' /\ RequestsGood'
  BY <1>1, <1>4 DEF ControllerInv, ContactGood, Good, RequestsGood, contactVars, requestVars
<1>6. ContactMatches' /\ RivalsGood'
  BY <1>1 DEF ControllerInv, ContactMatches, RivalsGood, Asking, hasActive, contactVars,
              requestVars
<1>7. RestGood'
  BY <1>1, <1>3, <1>4 DEF ControllerInv, RestGood, PendingMeansInFlight, txVars
<1> QED
  BY <1>1, <1>5, <1>6, <1>7 DEF ControllerInv, StepGood, contactVars, txVars

\* The CQ is called in the windows of a parity: that of the window running when it is picked.
LEMMA CqStep ==
  ASSUME ControllerInv, CqTyped, [Next]_vars
  PROVE  CqTyped'
<1>1. cqParity' \in {cqParity, None, parity}
  <2>1. CASE UNCHANGED vars
    BY <2>1 DEF vars, autoVars
  <2>2. CASE onPriorityDecodes \/ onDecodes \/ passFails \/ WindowEnds
    BY <2>2 DEF onPriorityDecodes, onDecodes, passFails, WindowEnds, autoVars
  <2>3. ASSUME NEW f \in flight, TxReturns(f) PROVE cqParity' = cqParity
    BY <2>3 DEF TxReturns, autoVars
  <2>4. ASSUME NEW r \in Request, startCall(r) \/ IsRefused(r) \/ CallBegins(r)
        PROVE  cqParity' = cqParity
    BY <2>4 DEF startCall, IsRefused, CallBegins, autoVars
  <2>5. ASSUME NEW r \in ByOperator, OperatorCalls(r) \/ OperatorTakesOver(r)
        PROVE  cqParity' = cqParity
    BY <2>5 DEF OperatorCalls, OperatorTakesOver, autoVars
  <2>6. ASSUME NEW r \in ByAuto, AutoPicks(r) \/ AnswerBegins(r)
        PROVE  cqParity' \in {cqParity, None}
    BY <2>6 DEF AutoPicks, AnswerBegins, autoVars
  <2>7. CASE CallsCq \/ DropsCq \/ Halts \/ Skips \/ Pauses \/ Rearms \/ SetsMode
    BY <2>7 DEF CallsCq, DropsCq, Halts, Skips, Pauses, Rearms, SetsMode, autoVars
  <2> QED
    BY <2>1, <2>2, <2>3, <2>4, <2>5, <2>6, <2>7 DEF Next
<1> QED
  BY <1>1 DEF CqTyped, ControllerInv, RestGood

---------------------------------------------------------------------------
(* The theorems. *)

LEMMA InvStep ==
  ASSUME ControllerInv, CqTyped, [Next]_vars
  PROVE  ControllerInv' /\ StepGood
<1>1. CASE UNCHANGED vars
  BY <1>1, InvSame DEF vars
<1>2. CASE onPriorityDecodes \/ onDecodes
  BY <1>2, HearsKeeps
<1>3. CASE passFails
  BY <1>3, PassFailsKeeps
<1>4. CASE WindowEnds
  BY <1>4, WindowEndsKeeps
<1>5. ASSUME NEW f \in flight, TxReturns(f)
      PROVE  ControllerInv' /\ StepGood
  BY <1>5, TxReturnsKeeps
<1>6. ASSUME NEW r \in Request, startCall(r) \/ IsRefused(r) \/ CallBegins(r)
      PROVE  ControllerInv' /\ StepGood
  BY <1>6, StartCallKeeps, IsRefusedKeeps, CallBeginsKeeps
<1>7. ASSUME NEW r \in ByOperator, OperatorCalls(r) \/ OperatorTakesOver(r)
      PROVE  ControllerInv' /\ StepGood
  BY <1>7, OperatorCallsKeeps, TakesOverKeeps
<1>8. ASSUME NEW r \in ByAuto, AutoPicks(r) \/ AnswerBegins(r)
      PROVE  ControllerInv' /\ StepGood
  BY <1>8, AutoPicksKeeps, AnswerBeginsKeeps
<1>9. CASE Halts \/ Skips
  BY <1>9, HaltsKeeps
<1>10. CASE Pauses \/ Rearms \/ SetsMode \/ CallsCq \/ DropsCq
  BY <1>10, GuardsKeep
<1> QED
  BY <1>1, <1>2, <1>3, <1>4, <1>5, <1>6, <1>7, <1>8, <1>9, <1>10, Zenon DEF Next

LEMMA ControllerHolds == Spec => []ControllerInv /\ []CqTyped
<1>1. Init => ControllerInv /\ CqTyped
  BY InvInit DEF Init, CqTyped
<1>2. ControllerInv /\ CqTyped /\ [Next]_vars => ControllerInv' /\ CqTyped'
  BY InvStep, CqStep
<1> QED
  BY <1>1, <1>2, PTL DEF Spec

\* Whoever asks and whatever is heard, the controller's parity, windows and count stay in
\* their ranges, and its sequencer is the one of the contact it says is on
\* (services/radio/qso-controller.ts).
THEOREM TypeCorrect == Spec => []TypeOK
<1>1. ControllerInv /\ CqTyped => TypeOK
  <2> SUFFICES ASSUME ControllerInv, CqTyped PROVE TypeOK
    OBVIOUS
  <2> QED
    BY DEF CqTyped, ControllerInv, ContactGood, Good, ContactMatches, RivalsGood, RestGood, TypeOK
<1> QED
  BY <1>1, ControllerHolds, PTL

\* A contact that has been logged or given up is never logged or given up again, whatever
\* ticks, decodes and stops follow (runTick and the early returns of QsoSequencer.tick).
THEOREM OncePerContact == Spec => []ReportedOnce
<1>1. ControllerInv => ReportedOnce
  BY DEF ControllerInv, ContactGood, Good, ReportedOnce
<1> QED
  BY <1>1, ControllerHolds, PTL

\* The flag that a transmission is pending is never left set when none is under way (txPending,
\* set and cleared by runTick and by what stops a contact; it breaks off early decodes).
THEOREM FlagIsCleared == Spec => []PendingMeansInFlight
<1>1. ControllerInv => PendingMeansInFlight
  BY DEF ControllerInv, RestGood
<1> QED
  BY <1>1, ControllerHolds, PTL

\* A contact in progress gives way only to HALT, Skip, a take-over, or a startCall that was
\* awaiting its guards when it began: nobody who asks later replaces it.
THEOREM ContactStands == Spec => LiveContactHolds
<1>1. ControllerInv /\ CqTyped /\ [Next]_vars
        => [hasActive /\ contact' # contact => contact' \in rivals \cup {None}]_vars
  BY InvStep DEF StepGood
<1> QED
  BY <1>1, ControllerHolds, PTL DEF Spec, LiveContactHolds

\* What runTick hands over is the contact's in progress, for a window its partner was not
\* heard in, or, when the contact answers our CQ, for one of the CQ's windows, whichever the
\* partner was heard in (startCall, startAnswer, firstTxWindow, afterWindow).
THEOREM SendsInItsWindows == Spec => OwnWindowsOnly
<1>1. ControllerInv /\ CqTyped /\ [Next]_vars
        => [\A f \in flight' \ flight :
              parity' = parity =>
                LET p == (parity + f.window) % 2
                IN  /\ f.req = contact'
                    /\ IF partner'.cq = None THEN p # partner'.theirs ELSE p = partner'.cq]_vars
  BY InvStep DEF StepGood, InOwnWindow
<1> QED
  BY <1>1, ControllerHolds, PTL DEF Spec, OwnWindowsOnly

\* A contact that was stopped or replaced hands nothing more to the transmitter, whichever
\* window event or decode comes after.
THEOREM StoppedIsSilent == Spec => StoppedStaysSilent
<1>1. ControllerInv /\ CqTyped /\ [Next]_vars
        => [\A f \in flight' \ flight :
              parity' = parity => outcome[f.req] # "stopped"]_vars
  BY InvStep DEF StepGood
<1> QED
  BY <1>1, ControllerHolds, PTL DEF Spec, StoppedStaysSilent
=============================================================================
