---------------------------- MODULE QsoController ----------------------------
(***************************************************************************)
(* services/radio/qso-controller.ts: it owns the contact in progress, feeds *)
(* its sequencer what is decoded, asks it once per transmit window what to  *)
(* send, and hands that to the transmitter.  Contacts are asked for by the  *)
(* operator (POST /call) and by the automatic operator, and stopped by HALT *)
(* and Skip (services/radio/index.ts, auto-operator.ts); startCall awaits   *)
(* the guards between its check and its act, so the rest may come between.  *)
(*                                                                         *)
(* Windows are named from the present one: 0 is the window that is running, *)
(* 1 the next, 2 the one after.  The decodes of the window before it arrive *)
(* while it runs: perhaps early ones of the partner, then the full pass.    *)
(***************************************************************************)
EXTENDS QsoSequencer

CONSTANTS
    ByOperator,         \* requests the operator makes for a contact, each made once
    ByAuto,             \* requests of the automatic operator
    Station,            \* stations that may be worked
    Me,
    Spoken,             \* what a station may say in a window: pairs of addressee and kind
    maxConsecutiveTx    \* GuardConfig.maxConsecutiveTx, switched on

ASSUME ControllerAssumption == maxConsecutiveTx \in Nat /\ None \notin ByOperator \cup ByAuto

Request == ByOperator \cup ByAuto

VARIABLES
    contact, seq,       \* whose sequencer is `this.seq`, and that sequencer
    partner,            \* history: whom it is with, heard in which windows, answering which CQ
    txParity, lastTickWindow, txPending,
    phase, call,        \* how far each request has got, and what it asks
    auto, cqParity,     \* an automatic mode is on, and in which windows it has been calling CQ
    paused, consecutiveTx,      \* OperatingGuards
    parity,             \* of the window that is running
    decodes,            \* how far the decoding of the window before it has got
    flight,             \* calls of the transmitter that have not returned
    outcome,            \* what has become of each contact: reported, or stopped or replaced
    rivals              \* history: the requests asking since before the contact began

contactVars == <<contact, seq, partner, txParity, lastTickWindow>>
requestVars == <<phase, call>>
guardVars == <<paused, consecutiveTx>>
windowVars == <<parity, decodes>>
autoVars == <<auto, cqParity>>
txVars == <<txPending, flight>>
vars == <<contactVars, requestVars, guardVars, windowVars, txVars, autoVars, outcome, rivals>>

-----------------------------------------------------------------------------
RawsFrom(s) == {[i \in DOMAIN w |-> Statement(s, w[i][1], w[i][2])] : w \in Spoken}

Idle == NewSequencer(Me, None, "caller")
NoCall == [them |-> None, opening |-> None, theirs |-> None, fresh |-> FALSE, path |-> None]

\* The windows a contact leaves us: those its partner was not heard in, but the CQ's for one
\* that answers it.
Leaves(k) == IF k.cq = None THEN 1 - k.theirs ELSE k.cq

hasActive == contact # None /\ ~isDone(seq)
Asking == {r \in Request : phase[r] = "asking"}
startingCall == \E r \in Request : phase[r] \in {"deciding", "asking"} /\ call[r].path = "candidate"

Init ==
    /\ contact = None /\ seq = Idle /\ partner = None
    /\ txParity = None /\ lastTickWindow = None
    /\ phase = [r \in Request |-> "out"] /\ call = [r \in Request |-> NoCall]
    /\ auto = FALSE /\ cqParity = None
    /\ paused = FALSE /\ consecutiveTx = 0
    /\ parity = 0 /\ decodes = "none"
    /\ txPending = FALSE /\ flight = {}
    /\ outcome = [r \in Request |-> "none"]
    /\ rivals = {}

-----------------------------------------------------------------------------
\* runTick, on the controller as `c` describes it, for the transmit window w.

Controller ==
    [contact |-> contact, seq |-> seq, partner |-> partner, txParity |-> txParity,
     last |-> lastTickWindow, count |-> consecutiveTx, outcome |-> outcome]

Verdict(t, before) ==
    IF ~(t.log \/ t.gaveUp) THEN before
    ELSE IF before = "live" THEN "reported" ELSE "twice"

Stands(c) ==
    /\ contact' = c.contact /\ seq' = c.seq /\ partner' = c.partner
    /\ txParity' = c.txParity /\ lastTickWindow' = c.last
    /\ consecutiveTx' = c.count /\ outcome' = c.outcome
    /\ UNCHANGED <<paused, txVars>>

\* Fault: the brake trips one transmission late.
BrakeTripsLate(count) == count > maxConsecutiveTx + 1

BrakeTrips(count) == count > maxConsecutiveTx

\* beforeTx: a paused guard refuses; so does the brake, which then pauses.
Ticks(c, w) ==
    LET t == tick(c.seq)
        count == IF t.log THEN 0 ELSE c.count
        asks == t.send # None
        brakes == asks /\ ~paused /\ BrakeTrips(count + 1)
        blocked == asks /\ (paused \/ brakes)
        over == isDone(t.seq) /\ ~blocked
    IN  /\ contact' = c.contact /\ seq' = t.seq /\ partner' = c.partner
        /\ txParity' = IF over THEN None ELSE c.txParity
        /\ lastTickWindow' = IF over THEN None ELSE w
        /\ outcome' = [c.outcome EXCEPT ![c.contact] = Verdict(t, @)]
        /\ consecutiveTx' = IF asks /\ ~paused THEN count + 1 ELSE count
        /\ paused' = (paused \/ brakes)
        /\ IF asks /\ ~blocked
           THEN flight' = flight \cup {[req |-> c.contact, window |-> w]} /\ txPending' = TRUE
           ELSE UNCHANGED txVars

runTick(c, w) == IF c.txParity = None \/ c.last = w THEN Stands(c) ELSE Ticks(c, w)

\* afterWindow, with the sequencer already fed: once per window, for the one that runs.
afterWindow(q) ==
    LET c == [Controller EXCEPT !.seq = q]
        ours == contact # None /\ txParity = parity
    IN  IF decodes = "none" /\ ours THEN runTick(c, 0) ELSE Stands(c)

\* Fault: when it is too late for this window the next is taken, whoever's it is.
NextWhateverItsParity(ours) == IF ours = parity THEN {0, 1} ELSE {1}

\* The next window of our parity that there is still time to key in: the one that is
\* running, while it is not too late for that.
FirstTxWindows(ours) == IF ours = parity THEN {0, 2} ELSE {1}

-----------------------------------------------------------------------------
\* The receiver.

\* The partner's transmission of the window before, decoded: the same one each time.
Hears(raw) ==
    /\ seq.seen \subseteq {raw}
    /\ afterWindow(onDecode(seq, raw))

onPriorityDecodes ==
    /\ hasActive /\ decodes \in {"none", "early"}
    /\ \E raw \in RawsFrom(seq.them) : Hears(raw)
    /\ decodes' = "early"
    /\ UNCHANGED <<requestVars, autoVars, parity, rivals>>

\* The full pass has the partner's transmission, or nothing new of theirs, or the window
\* was skipped as silent: our own transmission, or a short one.
onDecodes ==
    /\ decodes \in {"none", "early"}
    /\ decodes' = "all"
    /\ \/ hasActive /\ \E raw \in RawsFrom(seq.them) : Hears(raw)
       \/ afterWindow(seq)
    /\ UNCHANGED <<requestVars, autoVars, parity, rivals>>

\* The pass fails and says nothing to anyone.
passFails ==
    /\ decodes \in {"none", "early"}
    /\ decodes' = "done"
    /\ UNCHANGED <<contactVars, requestVars, guardVars, txVars, autoVars, outcome, rivals, parity>>

\* A transmission handed over for this window occupies it and not the next.
WindowEnds ==
    /\ decodes \in {"all", "done"}
    /\ \A f \in flight : f.window # 0
    /\ parity' = 1 - parity
    /\ decodes' = "none"
    /\ seq' = NextWindow(seq)
    /\ lastTickWindow' = IF lastTickWindow \in {1, 2} THEN lastTickWindow - 1 ELSE None
    /\ flight' = {[f EXCEPT !.window = @ - 1] : f \in flight}
    /\ call' = [r \in Request |-> [call[r] EXCEPT !.fresh = FALSE]]
    /\ UNCHANGED <<contact, partner, txParity, phase, guardVars, txPending, autoVars, outcome,
                   rivals>>

\* Fault: only what the contact in progress has sent clears the flag.
TxReturnsToItsContact(f) ==
    /\ f \in flight
    /\ flight' = flight \ {f}
    /\ txPending' = (txPending /\ f.req # contact)
    /\ UNCHANGED <<contactVars, requestVars, guardVars, windowVars, autoVars, outcome, rivals>>

\* The transmitter returns: it has sent, or refused, or been stopped.
TxReturns(f) ==
    /\ f \in flight
    /\ flight' = flight \ {f}
    /\ txPending' = FALSE
    /\ UNCHANGED <<contactVars, requestVars, guardVars, windowVars, autoVars, outcome, rivals>>

-----------------------------------------------------------------------------
\* Requests for a contact.

Enters(r, p) ==
    /\ phase' = [phase EXCEPT ![r] = p]
    /\ rivals' = rivals \ {r}

\* A request names a station and the parity of a window it was heard in, and perhaps the
\* transmission that prompts it, heard just now in the window before.
Asks(r, path, s, opening, theirs) ==
    /\ phase[r] = "out"
    /\ opening # None => theirs # parity /\ ~(s = seq.them /\ opening \notin seq.seen)
    /\ call' = [call EXCEPT ![r] = [them |-> s, opening |-> opening, theirs |-> theirs,
                                    fresh |-> opening # None, path |-> path]]

\* What was asked is of no more use.
Forgets(r) == call' = [call EXCEPT ![r] = NoCall]

\* POST /call with nothing on: startCall, as far as its await.  Of the guards' answers only
\* the pause is modelled; a cooldown or a duplicate is a refusal that may come.
OperatorCalls(r) ==
    /\ ~hasActive /\ ~paused
    /\ \E s \in Station, theirs \in {0, 1} :
          \E opening \in RawsFrom(s) \cup {None} : Asks(r, "operator", s, opening, theirs)
    /\ Enters(r, "asking")
    /\ UNCHANGED <<contactVars, guardVars, txVars, autoVars, outcome, windowVars>>

\* Fault: the sequencer is left in place.
ClearsTheRest ==
    /\ txPending' = FALSE /\ UNCHANGED <<contactVars, flight>>
    /\ consecutiveTx' = 0
    /\ outcome' = [r \in Request |->
                     IF r = contact /\ outcome[r] = "live" THEN "stopped" ELSE outcome[r]]

\* `this.seq = null` and what goes with it, for HALT, Skip and a take-over.
Clears ==
    /\ contact' = None /\ seq' = Idle /\ partner' = None
    /\ txParity' = None /\ lastTickWindow' = None
    /\ txPending' = FALSE /\ UNCHANGED flight
    /\ consecutiveTx' = 0
    /\ outcome' = [r \in Request |->
                     IF r = contact /\ outcome[r] = "live" THEN "stopped" ELSE outcome[r]]

\* POST /call with takeOver: the contact is halted, and the call goes on after the await.
OperatorTakesOver(r) ==
    /\ hasActive
    /\ \E s \in Station, theirs \in {0, 1} : Asks(r, "operator", s, None, theirs)
    /\ Enters(r, "deciding")
    /\ Clears
    /\ UNCHANGED <<paused, autoVars, windowVars>>

\* The automatic operator picks a station out of a window, or one that called us, and asks
\* the guards.  A candidate's slice holds off every other choice; a full pass does not.
AutoPicks(r) ==
    /\ auto /\ ~paused
    /\ ~hasActive /\ ~startingCall
    /\ \E s \in Station, theirs \in {0, 1}, path \in {"candidate", "window"} :
          \E opening \in RawsFrom(s) \cup {None} : Asks(r, path, s, opening, theirs)
    /\ Enters(r, "deciding")
    /\ UNCHANGED <<contactVars, guardVars, txVars, autoVars, outcome, windowVars>>

\* Fault: nothing asks whether a contact is on.
startCallRegardless(r) ==
    /\ phase[r] = "deciding"
    /\ ~paused
    /\ Enters(r, "asking")
    /\ UNCHANGED <<contactVars, call, guardVars, windowVars, txVars, autoVars, outcome>>

\* startCall, as far as its await.
startCall(r) ==
    /\ phase[r] = "deciding"
    /\ ~hasActive /\ ~paused
    /\ Enters(r, "asking")
    /\ UNCHANGED <<contactVars, call, guardVars, windowVars, txVars, autoVars, outcome>>

\* The contact on, the pause, a cooldown, a duplicate or the list refuses it.
IsRefused(r) ==
    /\ phase[r] \in {"deciding", "asking"}
    /\ Enters(r, "refused") /\ Forgets(r)
    /\ UNCHANGED <<contactVars, guardVars, windowVars, txVars, autoVars, outcome>>

\* A sequencer for r and its partner k takes the place of whatever `this.seq` was.
Taken(r, q, k, count) ==
    [contact |-> r, seq |-> q, partner |-> k, txParity |-> Leaves(k), last |-> None,
     count |-> count,
     outcome |-> [o \in Request |-> IF o = r THEN "live"
                                    ELSE IF o = contact /\ outcome[o] = "live" THEN "stopped"
                                    ELSE outcome[o]]]

Began(r) ==
    /\ phase' = [phase EXCEPT ![r] = "begun"]
    /\ rivals' = Asking \ {r}

\* The rest of startCall: the message that prompted it is fed at once, and the first
\* transmission is asked for without waiting for a window event.
CallBegins(r) ==
    /\ phase[r] = "asking"
    /\ LET req == call[r]
           new == NewSequencer(Me, req.them, "caller")
           fed == IF req.opening = None THEN new ELSE onDecode(new, req.opening)
           q == IF req.fresh THEN fed ELSE NextWindow(fed)
           k == [them |-> req.them, theirs |-> req.theirs, cq |-> None]
       IN  \E w \in FirstTxWindows(Leaves(k)) : runTick(Taken(r, q, k, 0), w)
    /\ Began(r) /\ Forgets(r)
    /\ UNCHANGED <<autoVars, windowVars>>

\* cqWindow, when a window has been decoded and nobody is to be called: the first CQ picks the
\* window that is running, and the later ones go out in windows like it.  A CQ counts for the
\* brake; it is the automatic operator's own, no contact's.
CallsCq ==
    /\ auto /\ ~paused /\ decodes = "all"
    /\ ~hasActive /\ ~startingCall
    /\ cqParity \in {None, parity}
    /\ cqParity' = parity
    /\ consecutiveTx' = consecutiveTx + 1
    /\ paused' = BrakeTrips(consecutiveTx + 1)
    /\ decodes' = "done"
    /\ UNCHANGED <<contactVars, requestVars, txVars, auto, parity, outcome, rivals>>

\* The band is left, or the hunt's CQ fallback begins or ends: the next CQ picks again.
DropsCq ==
    /\ cqParity # None
    /\ cqParity' = None
    /\ UNCHANGED <<contactVars, requestVars, guardVars, windowVars, txVars, auto, outcome, rivals>>

\* startAnswer: a station heard in the window before called us, and we have been calling CQ.
\* It is answered in the CQ's windows, whichever it was heard in; no request asked for it.
AnswerBegins(r) ==
    /\ auto /\ ~paused /\ decodes = "all" /\ cqParity # None
    /\ ~hasActive /\ ~startingCall
    /\ phase[r] = "out"
    /\ \E s \in Station :
          LET k == [them |-> s, theirs |-> 1 - parity, cq |-> cqParity]
              q == NewSequencer(Me, s, "answerer")
          IN  \E w \in FirstTxWindows(Leaves(k)) : runTick(Taken(r, q, k, consecutiveTx), w)
    /\ cqParity' \in {cqParity, None}
    /\ Began(r)
    /\ UNCHANGED <<call, auto, windowVars>>

-----------------------------------------------------------------------------
\* What stops a contact, and the guards.

\* haltOperating: any automatic mode off, then the controller's halt.
Halts ==
    /\ auto' = FALSE /\ cqParity' = None
    /\ Clears
    /\ UNCHANGED <<requestVars, paused, windowVars, rivals>>

\* As HALT for the contact; the mode stays on.  With nothing on it still counts as a touch.
Skips ==
    /\ Clears
    /\ UNCHANGED <<requestVars, autoVars, paused, windowVars, rivals>>

\* SWR, temperature, a dead receiver or a run limit pauses; the operator re-arms.
Pauses ==
    /\ ~paused /\ paused' = TRUE
    /\ UNCHANGED <<contactVars, requestVars, windowVars, txVars, autoVars, outcome, rivals,
                   consecutiveTx>>

Rearms ==
    /\ paused' = FALSE /\ consecutiveTx' = 0
    /\ UNCHANGED <<contactVars, requestVars, windowVars, txVars, autoVars, outcome, rivals>>

\* Turning a mode on re-arms too; turning it off leaves the contact in progress alone.
SetsMode ==
    /\ cqParity' = None
    /\ \/ auto' = TRUE /\ paused' = FALSE /\ consecutiveTx' = 0
       \/ auto' = FALSE /\ UNCHANGED guardVars
    /\ UNCHANGED <<contactVars, requestVars, windowVars, txVars, outcome, rivals>>

Next ==
    \/ onPriorityDecodes \/ onDecodes \/ passFails \/ WindowEnds
    \/ \E f \in flight : TxReturns(f)
    \/ \E r \in Request : startCall(r) \/ IsRefused(r) \/ CallBegins(r)
    \/ \E r \in ByOperator : OperatorCalls(r) \/ OperatorTakesOver(r)
    \/ \E r \in ByAuto : AutoPicks(r) \/ AnswerBegins(r)
    \/ CallsCq \/ DropsCq
    \/ Halts \/ Skips \/ Pauses \/ Rearms \/ SetsMode

Spec == Init /\ [][Next]_vars

-----------------------------------------------------------------------------
Outcomes == {"none", "live", "reported", "stopped"}

TypeOK ==
    /\ contact \in Request \cup {None}
    /\ contact = None => seq = Idle /\ partner = None /\ txParity = None
    /\ contact # None => seq.them = partner.them
    /\ txParity \in {0, 1, None}
    /\ lastTickWindow \in {0, 1, 2, None}
    /\ consecutiveTx \in 0 .. maxConsecutiveTx + 1
    /\ rivals \subseteq Asking
    /\ flight \subseteq [req : Request, window : 0 .. 2]
    /\ decodes \in {"none", "early", "all", "done"}
    /\ cqParity \in {0, 1, None}

\* A contact is reported once: logged or given up, whatever ticks come after
\* (QsoSequencer.logged and pendingAbandon under runTick and its early returns).
ReportedOnce == outcome \in [Request -> Outcomes]

\* While the flag says a transmission is pending, one is under way: it is never left set by one
\* that was stopped, refused or overtaken (runTick's finally).  Left set, it would break off
\* every later early decode after its first slices (decode-pipeline.ts).
PendingMeansInFlight == txPending => flight # {}

\* A contact in progress gives way to HALT, Skip or a take-over, or to a startCall that was
\* already awaiting its guards when the contact began; to no other request.
LiveContactHolds ==
    [][hasActive /\ contact' # contact => contact' \in rivals \cup {None}]_vars

\* Whatever is handed to the transmitter is handed over for a window its contact leaves us:
\* for a contact of startCall one its partner does not transmit in, on the first tick as on
\* every later one; for an answer one of our CQ's windows, which is all the code looks at.
OwnWindowsOnly ==
    [][\A f \in flight' \ flight :
          parity' = parity =>
            LET p == (parity + f.window) % 2
            IN  /\ f.req = contact'
                /\ IF partner'.cq = None THEN p # partner'.theirs ELSE p = partner'.cq]_vars

\* Nothing is handed to the transmitter for a contact that was stopped or replaced.
StoppedStaysSilent ==
    [][\A f \in flight' \ flight :
          parity' = parity => outcome[f.req] # "stopped"]_vars

-----------------------------------------------------------------------------
\* What the code says of itself and does not do.

\* "HALT means everything: the active QSO and any auto mode" (services/radio/index.ts): with
\* the mode off nothing begins that the automatic operator picked.
HaltMeansEverything ==
    [][\A r \in ByAuto : phase[r] # "begun" /\ phase'[r] = "begun" => auto]_vars

\* "Whoever we are working transmitted in a window of some parity, so we transmit on the other
\* parity and listen on theirs" (qso-controller.ts): the same of an answer, whose parity
\* is that of a CQ perhaps called long ago.
ListensOnTheirs ==
    [][\A f \in flight' \ flight :
          parity' = parity => (parity + f.window) % 2 # partner'.theirs]_vars

\* "One tick per transmit window, whichever path got here first" (qso-controller.ts): what
\* is handed over for a window of a contact is the only thing that is.
OneTickPerWindow ==
    [][\A w \in 0 .. 2 : contact # None /\ contact' = contact /\ parity' = parity
         /\ [req |-> contact, window |-> w] \in flight /\ lastTickWindow # w
         => lastTickWindow' # w]_vars

\* "Hard brake: this many consecutive transmit windows without operator input"
\* (lib/digital/qso.ts, maxConsecutiveTx): only the operator or a completed contact
\* releases it.
BrakeHolds ==
    [][\A r \in ByAuto : consecutiveTx > 1 /\ phase[r] # "begun" /\ phase'[r] = "begun"
          => consecutiveTx' >= consecutiveTx \/ outcome'[r] = "reported"]_vars
=============================================================================
