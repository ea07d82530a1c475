-------------------------- MODULE IcomTransmitter --------------------------
(***************************************************************************)
(* IcomTransmitter of lib/icom/transmitter.ts, and the sessions it lives in*)
(* (startIcomSource and its stop() in services/radio/icom-source.ts, the   *)
(* rebuild and teardown of startIcomBridge in services/radio/index.ts).    *)
(*                                                                         *)
(* Push-to-talk is a CI-V datagram nothing acknowledges, on a stream of its*)
(* own that can die while the radio is keyed.  A session that is lost or   *)
(* given up is torn down and another attached, with a new transmitter; the *)
(* radio keeps whatever it was doing.                                      *)
(***************************************************************************)
EXTENDS TransmitGate, Naturals, Sequences

CONSTANTS
    Call,           \* the calls of transmit, transmitText and transmitAudio
    Stop,           \* the requests that call unkey()
    None,           \* no call
    Chunks,         \* audio chunks in a waveform
    Rebuilds,       \* sessions that may be torn down
    StreamsDie,     \* a session's streams may die under it
    CommandsLost    \* a datagram may be lost for good

ASSUME IcomAssumption ==
    /\ Call \cap Stop = {}
    /\ None \notin Call \cup Stop
    /\ Chunks \in Nat \ {0}
    /\ Rebuilds \in Nat
    /\ StreamsDie \in BOOLEAN /\ CommandsLost \in BOOLEAN

VARIABLES
    busy, keyed, cancelled, watchdog,   \* the transmitter's flags
    stopGen,        \* unkeys so far, over every transmitter there has been
    wakePending,    \* the call waiting for its window, or None
    pc,             \* where each call and each stop has got to
    kind,           \* what each call sends and each stop is for
    stopsAtStart,   \* stopGen when each call began
    reading,        \* each call's reading of the transmit gate
    sent,           \* chunks each call has sent
    streams,        \* the CI-V and audio streams are open
    session,        \* live, being confirmed silent, being closed, or down
    attempt,        \* unkeys stop() has repeated
    rebuilds,       \* teardowns so far
    wire,           \* PTT commands the radio has not taken yet
    radioKeyed,     \* the radio is transmitting
    stray           \* history: it transmits because the last PTT-off for it was
                    \* lost, or this session took it over unseen

flags == <<busy, keyed, cancelled, watchdog, stopGen, wakePending>>
locals == <<kind, stopsAtStart, reading, sent>>
sessionVars == <<streams, session, attempt, rebuilds>>
radioVars == <<wire, radioKeyed, stray>>
vars == <<gateVars, flags, pc, locals, sessionVars, radioVars>>

CallKinds == {"framed", "text"}
StopKinds == {"halt", "disarm", "voice", "restart"}
Places == {"idle", "gate", "window", "regate", "streaming", "sent", "refused",
           "writing", "done"}

Owning == {"window", "regate", "streaming"}
Owners == {c \in Call : pc[c] \in Owning}

TypeOK ==
    /\ GateTypeOK
    /\ busy \in BOOLEAN /\ keyed \in BOOLEAN /\ cancelled \in BOOLEAN /\ watchdog \in BOOLEAN
    /\ stopGen \in Nat
    /\ wakePending \in Call \cup {None}
    /\ pc \in [Call \cup Stop -> Places]
    /\ kind \in [Call \cup Stop -> CallKinds \cup StopKinds]
    /\ stopsAtStart \in [Call -> Nat]
    /\ reading \in [Call -> Readings]
    /\ sent \in [Call -> 0 .. Chunks]
    /\ streams \in BOOLEAN
    /\ session \in {"live", "confirming", "closing", "down"}
    /\ attempt \in 0 .. 3
    /\ rebuilds \in 0 .. Rebuilds
    /\ wire \in Seq({"on", "off"})
    /\ radioKeyed \in BOOLEAN /\ stray \in BOOLEAN

Init ==
    /\ GateInit
    /\ busy = FALSE /\ keyed = FALSE /\ cancelled = FALSE /\ watchdog = FALSE
    /\ stopGen = 0
    /\ wakePending = None
    /\ pc = [x \in Call \cup Stop |-> "idle"]
    /\ kind \in [Call \cup Stop -> CallKinds \cup StopKinds]
    /\ \A c \in Call : kind[c] \in CallKinds
    /\ \A s \in Stop : kind[s] \in StopKinds
    /\ stopsAtStart = [c \in Call |-> 0]
    /\ reading = [c \in Call |-> "off"]
    /\ sent = [c \in Call |-> 0]
    /\ streams = TRUE
    /\ session = "live"
    /\ attempt = 0
    /\ rebuilds = 0
    /\ wire = <<>>
    /\ radioKeyed = FALSE /\ stray = FALSE

Go(x, place) == pc' = [pc EXCEPT ![x] = place]

---------------------------------------------------------------------------
(* unkey() *)

Waiting == {c \in Call : c = wakePending}

\* unkey() runs to its end in one turn; a waiting call wakes, finds itself
\* cancelled and returns.  Those in `moved` go to `place`: the caller.
Unkey(moved, place) ==
    /\ stopGen' = stopGen + 1
    /\ cancelled' = TRUE
    /\ wakePending' = None
    /\ watchdog' = FALSE
    /\ keyed' = FALSE
    /\ wire' = IF streams THEN Append(wire, "off") ELSE wire
    /\ pc' = [y \in DOMAIN pc |-> IF y \in moved THEN place
                                  ELSE IF y \in Waiting THEN "refused"
                                  ELSE pc[y]]
    /\ busy' = (busy /\ (moved \cup Waiting) \cap Owners = {})
    /\ UNCHANGED <<radioKeyed, stray>>

---------------------------------------------------------------------------
(* A call. *)

Begin(c) ==
    /\ pc[c] = "idle"
    /\ session # "down"
    /\ Go(c, "gate")
    /\ stopsAtStart' = [stopsAtStart EXCEPT ![c] = stopGen]
    /\ reading' = [reading EXCEPT ![c] = ReadingStarts]
    /\ UNCHANGED <<gateVars, flags, kind, sent, sessionVars, radioVars>>

\* The settings read a call awaits completes.
ReadSetting(c) ==
    /\ pc[c] \in {"gate", "regate"}
    /\ reading[c] = "unread"
    /\ \E r \in ReadingEnds : reading' = [reading EXCEPT ![c] = r]
    /\ UNCHANGED <<gateVars, flags, pc, kind, stopsAtStart, sent, sessionVars, radioVars>>

Stopped(c) == stopGen # stopsAtStart[c]

\* Refused with no state changed: the gate is off, a stop came, another call
\* holds the transmitter, a stream is closed, or the message does not encode.
Refused(c) ==
    /\ pc[c] = "gate"
    /\ reading[c] # "unread"
    /\ Go(c, "refused")
    /\ UNCHANGED <<gateVars, flags, locals, sessionVars, radioVars>>

\* Fault: `busy` is not looked at.
AdmitsAnyway(c) ==
    /\ pc[c] = "gate"
    /\ reading[c] = "on"
    /\ ~Stopped(c) /\ streams
    /\ cancelled' = FALSE

\* The call passes the gate, and every other check but those of its own message.
Admits(c) ==
    /\ pc[c] = "gate"
    /\ reading[c] = "on"
    /\ ~Stopped(c) /\ ~busy /\ streams
    /\ cancelled' = FALSE

\* A framed message has missed its window, or is far too early.
Unsendable(c) ==
    /\ kind[c] = "framed"
    /\ Admits(c)
    /\ Go(c, "refused")
    /\ UNCHANGED <<gateVars, busy, keyed, watchdog, stopGen, wakePending, locals,
                   sessionVars, radioVars>>

Waits(c) ==
    /\ kind[c] = "framed"
    /\ Admits(c)
    /\ busy' = TRUE
    /\ wakePending' = c
    /\ Go(c, "window")
    /\ UNCHANGED <<gateVars, keyed, watchdog, stopGen, locals, sessionVars, radioVars>>

Rereads(c) ==
    /\ Go(c, "regate")
    /\ reading' = [reading EXCEPT ![c] = ReadingStarts]
    /\ UNCHANGED <<gateVars, keyed, watchdog, stopGen, kind, stopsAtStart, sent,
                   sessionVars, radioVars>>

\* Text, a picture, or a window that has begun already.
GoesNow(c) ==
    /\ Admits(c)
    /\ busy' = TRUE
    /\ Rereads(c)
    /\ UNCHANGED wakePending

WindowBegins(c) ==
    /\ pc[c] = "window"
    /\ wakePending' = None
    /\ Rereads(c)
    /\ UNCHANGED <<busy, cancelled>>

DroppedBeforeKeying(c) ==
    /\ pc[c] = "regate"
    /\ reading[c] = "off" \/ (reading[c] = "on" /\ (cancelled \/ Stopped(c)))
    /\ busy' = FALSE
    /\ Go(c, "refused")
    /\ UNCHANGED <<gateVars, keyed, cancelled, watchdog, stopGen, wakePending, locals,
                   sessionVars, radioVars>>

\* Fault: a stop that came while the gate was read again is lost.
KeysDespiteStop(c) ==
    /\ pc[c] = "regate"
    /\ reading[c] = "on"
    /\ streams
    /\ watchdog' = TRUE
    /\ keyed' = TRUE
    /\ wire' = Append(wire, "on")
    /\ sent' = [sent EXCEPT ![c] = 1]
    /\ Go(c, "streaming")
    /\ UNCHANGED <<gateVars, busy, cancelled, stopGen, wakePending, kind, stopsAtStart,
                   reading, sessionVars, radioKeyed, stray>>

\* PTT on and the first chunk, in one turn.
Keys(c) ==
    /\ pc[c] = "regate"
    /\ reading[c] = "on"
    /\ ~cancelled /\ ~Stopped(c)
    /\ streams
    /\ watchdog' = TRUE
    /\ keyed' = TRUE
    /\ wire' = Append(wire, "on")
    /\ sent' = [sent EXCEPT ![c] = 1]
    /\ Go(c, "streaming")
    /\ UNCHANGED <<gateVars, busy, cancelled, stopGen, wakePending, kind, stopsAtStart,
                   reading, sessionVars, radioKeyed, stray>>

\* The write throws: the streams have closed.
KeysInVain(c) ==
    /\ pc[c] = "regate"
    /\ reading[c] = "on"
    /\ ~cancelled /\ ~Stopped(c)
    /\ ~streams
    /\ Unkey({c}, "refused")
    /\ UNCHANGED <<gateVars, locals, sessionVars>>

\* Fault: one chunk past the end of the waveform.
SendChunkTooMany(c) ==
    /\ pc[c] = "streaming"
    /\ sent[c] <= Chunks
    /\ ~cancelled /\ keyed /\ streams
    /\ sent' = [sent EXCEPT ![c] = @ + 1]
    /\ UNCHANGED <<gateVars, flags, pc, kind, stopsAtStart, reading, sessionVars, radioVars>>

SendChunk(c) ==
    /\ pc[c] = "streaming"
    /\ sent[c] < Chunks
    /\ ~cancelled /\ keyed /\ streams
    /\ sent' = [sent EXCEPT ![c] = @ + 1]
    /\ UNCHANGED <<gateVars, flags, pc, kind, stopsAtStart, reading, sessionVars, radioVars>>

\* Every chunk has gone; or a stop came, or the audio stream is closed.
StreamEnds(c) ==
    /\ pc[c] = "streaming"
    /\ \/ sent[c] = Chunks /\ Unkey({c}, "sent")
       \/ /\ sent[c] < Chunks
          /\ cancelled \/ ~keyed \/ ~streams
          /\ Unkey({c}, "refused")
    /\ UNCHANGED <<gateVars, locals, sessionVars>>

\* Fault: the watchdog only stops the send loop.
WatchdogCancels ==
    /\ watchdog
    /\ watchdog' = FALSE
    /\ cancelled' = TRUE
    /\ UNCHANGED <<gateVars, busy, keyed, stopGen, wakePending, pc, locals, sessionVars,
                   radioVars>>

WatchdogFires ==
    /\ watchdog
    /\ Unkey({}, "idle")
    /\ UNCHANGED <<gateVars, locals, sessionVars>>

---------------------------------------------------------------------------
(* The handlers that stop a transmission, and those that allow one.  They  *)
(* reach the transmitter through `activeTx`, which is null from the start  *)
(* of a teardown to the end of the next attach.                            *)

StopsBy(s, place) ==
    /\ \/ session = "live" /\ Unkey({s}, place)
       \/ session # "live" /\ Go(s, place) /\ UNCHANGED <<flags, radioVars>>
    /\ UNCHANGED <<locals, sessionVars>>

Halts(s) ==
    /\ pc[s] = "idle" /\ kind[s] = "halt"
    /\ StopsBy(s, "done")
    /\ UNCHANGED gateVars

\* The header's disarm and FT-0 unkey, then write the setting.
Disarms(s) ==
    /\ pc[s] = "idle" /\ kind[s] = "disarm"
    /\ StopsBy(s, "writing")
    /\ UNCHANGED gateVars

DisarmWritten(s) ==
    /\ pc[s] = "writing"
    /\ WriteAllowTransmit(FALSE)
    /\ Go(s, "done")
    /\ UNCHANGED <<flags, locals, sessionVars, radioVars>>

TakesVoice(s) ==
    /\ pc[s] = "idle" /\ kind[s] = "voice"
    /\ SetDigitalTransmitHold(TRUE)
    /\ StopsBy(s, "done")

LatchesForExit(s) ==
    /\ pc[s] = "idle" /\ kind[s] = "restart"
    /\ CloseTransmitGateForExit
    /\ StopsBy(s, "done")

Settings ==
    /\ \E on \in BOOLEAN : WriteAllowTransmit(on)
    /\ UNCHANGED <<flags, pc, locals, sessionVars, radioVars>>

ReleasesVoice ==
    /\ digitalHold
    /\ SetDigitalTransmitHold(FALSE)
    /\ UNCHANGED <<flags, pc, locals, sessionVars, radioVars>>

---------------------------------------------------------------------------
(* The session. *)

LoseStreams ==
    /\ StreamsDie
    /\ session = "live" /\ streams
    /\ rebuilds < Rebuilds
    /\ streams' = FALSE
    /\ UNCHANGED <<gateVars, flags, pc, locals, session, attempt, rebuilds, radioVars>>

\* onLost, and the service shutting down: activeTx goes, and stop() unkeys.
Teardown ==
    /\ session = "live"
    /\ rebuilds < Rebuilds
    /\ rebuilds' = rebuilds + 1
    /\ session' = "confirming"
    /\ attempt' = 0
    /\ Unkey({}, "idle")
    /\ UNCHANGED <<gateVars, locals, streams>>

\* PTT is read back.  CI-V answers in order, so every command sent before has
\* been taken or lost.
ReadsSilent ==
    /\ session = "confirming" /\ streams
    /\ wire = <<>> /\ ~radioKeyed
    /\ session' = "closing"
    /\ UNCHANGED <<gateVars, flags, pc, locals, streams, attempt, rebuilds, radioVars>>

ReadsKeyed ==
    /\ session = "confirming" /\ streams
    /\ wire = <<>> /\ radioKeyed
    /\ Unkey({}, "idle")
    /\ attempt' = attempt + 1
    /\ session' = IF attempt' = 3 THEN "closing" ELSE "confirming"
    /\ UNCHANGED <<gateVars, locals, streams, rebuilds>>

\* PTT cannot be read: one more unkey, and out.
ReadsNothing ==
    /\ session = "confirming"
    /\ CommandsLost \/ ~streams
    /\ Unkey({}, "idle")
    /\ session' = "closing"
    /\ UNCHANGED <<gateVars, locals, streams, attempt, rebuilds>>

\* source.stop() closes the streams; what is on the wire may still arrive.
Released ==
    /\ session = "closing"
    /\ session' = "down"
    /\ streams' = FALSE
    /\ UNCHANGED <<gateVars, flags, pc, locals, attempt, rebuilds, radioVars>>

\* The next session: new streams and a new transmitter.  What the old transmitter's
\* calls still do can no longer reach a radio.
NewSession ==
    /\ session = "down"
    /\ session' = "live"
    /\ streams' = TRUE
    /\ busy' = FALSE /\ keyed' = FALSE /\ watchdog' = FALSE
    /\ stopGen' = stopGen + 1
    /\ wakePending' = None
    /\ pc' = [x \in DOMAIN pc |-> IF pc[x] \in Owning THEN "refused" ELSE pc[x]]
    /\ UNCHANGED <<gateVars, locals, attempt, rebuilds, radioKeyed>>

\* Fault: a radio found transmitting is reported and left transmitting.
AttachReporting ==
    /\ NewSession
    /\ cancelled' = FALSE /\ wire' = <<>>
    /\ stray' = FALSE

\* The preflight's PTT read is answered: a radio found transmitting is unkeyed
\* before anybody is given the transmitter.
AttachSeeing ==
    /\ NewSession
    /\ cancelled' = radioKeyed
    /\ wire' = IF radioKeyed THEN <<"off">> ELSE <<>>
    /\ stray' = FALSE

\* It is not: no CI-V frame came in time, the read timed out, or the preflight
\* threw.  Nothing is sent, and the transmitter is handed out all the same.
AttachBlind ==
    /\ NewSession
    /\ cancelled' = FALSE /\ wire' = <<>>
    /\ stray' = radioKeyed

Attach == AttachSeeing \/ AttachBlind

---------------------------------------------------------------------------
(* The radio. *)

RadioObeys ==
    /\ wire # <<>>
    /\ wire' = Tail(wire)
    /\ radioKeyed' = (Head(wire) = "on")
    /\ stray' = FALSE
    /\ UNCHANGED <<gateVars, flags, pc, locals, sessionVars>>

RadioMisses ==
    /\ wire # <<>>
    /\ CommandsLost \/ ~streams
    /\ wire' = Tail(wire)
    /\ stray' = (stray \/ (radioKeyed /\ Head(wire) = "off"))
    /\ UNCHANGED <<gateVars, flags, pc, locals, sessionVars, radioKeyed>>

---------------------------------------------------------------------------

CallStep(c) ==
    \/ Begin(c)
    \/ ReadSetting(c)
    \/ Refused(c)
    \/ Unsendable(c)
    \/ Waits(c)
    \/ GoesNow(c)
    \/ WindowBegins(c)
    \/ DroppedBeforeKeying(c)
    \/ Keys(c)
    \/ KeysInVain(c)
    \/ SendChunk(c)
    \/ StreamEnds(c)

StopStep(s) ==
    \/ Halts(s)
    \/ Disarms(s)
    \/ DisarmWritten(s)
    \/ TakesVoice(s)
    \/ LatchesForExit(s)

Confirms == ReadsSilent \/ ReadsKeyed \/ ReadsNothing

SessionStep == LoseStreams \/ Teardown \/ Confirms \/ Released \/ Attach

Next ==
    \/ \E c \in Call : CallStep(c)
    \/ \E s \in Stop : StopStep(s)
    \/ WatchdogFires
    \/ Settings
    \/ ReleasesVoice
    \/ SessionStep
    \/ RadioObeys
    \/ RadioMisses

Spec == Init /\ [][Next]_vars
---------------------------------------------------------------------------
(* What is promised. *)

\* One call at a time holds a session's transmitter and `busy` says so; only a
\* call waiting for its window can be woken, and only one that is streaming is
\* keyed.  A rebuilt session starts with nobody holding it.
OneHolder ==
    /\ \A c, d \in Owners : c = d
    /\ busy <=> Owners # {}
    /\ wakePending # None => pc[wakePending] = "window"
    /\ keyed => \E c \in Call : pc[c] = "streaming"

\* The gate is closed for every caller and the unkey that goes with it is done.
Shut ==
    \/ digitalHold
    \/ \E s \in Stop : kind[s] = "restart" /\ pc[s] = "done"

\* In a live session nothing keys once the gate is held by voice mode or latched
\* for exit: not a call whose reading of the gate was in flight when it shut, nor
\* one that began in the session before.  (While a session is torn down the stop
\* does not reach its transmitter: see ReleasedIsSilent.)
NothingKeysOnceShut ==
    [][\A c \in Call : pc[c] # "streaming" /\ pc'[c] = "streaming"
                         => session # "live" \/ ~Shut]_vars

\* The program never leaves the radio keyed: once the radio has taken or lost what
\* it was sent, it transmits only while a call is streaming to it, or because the
\* PTT-off for it was lost, or because the session took it over with its preflight
\* unanswered; and then only until it obeys any command of that session.
NeverLeftKeyed == streams /\ wire = <<>> /\ radioKeyed => keyed \/ stray

(* Three things the source says of itself and TLC refutes: see the README.  *)

\* "Unconditional: there is no state in which we want to attach to a radio that is
\* transmitting something we did not ask for."
AttachUnkeys == [][Attach /\ radioKeyed => wire' = <<"off">>]_vars

\* "Unkey, then CONFIRM, and only then release the streams": a session that was
\* given up with its streams alive leaves the radio silent.
ReleasedIsSilent == session = "down" /\ wire = <<>> => ~radioKeyed

\* The watchdog is "the only thing standing between a dropped packet and a stuck
\* transmitter": it runs for as long as the radio transmits.
WatchdogOutlastsKey == session = "live" /\ streams /\ wire = <<>> /\ radioKeyed => watchdog

(***************************************************************************)
(* Liveness: timers fire, a datagram arrives or is lost, confirming ends,  *)
(* and a session that is lost is torn down and another attached (onLost    *)
(* retries without end), whether or not its preflight is answered.  The    *)
(* calls themselves are granted nothing.                                   *)
(***************************************************************************)
RecoverySpec ==
    /\ Spec
    /\ WF_vars(RadioObeys)
    /\ WF_vars(WatchdogFires)
    /\ WF_vars(~streams /\ Teardown)
    /\ WF_vars(Confirms)
    /\ WF_vars(Released)
    /\ WF_vars(Attach)

\* A radio that is keyed comes down, though the send loop hangs (the watchdog), and
\* though the streams die under it with the PTT-off unsent (the next session whose
\* preflight is answered): it stays up only where that PTT-off was itself lost or
\* the preflight was not answered.
RadioComesDown == radioKeyed ~> ~radioKeyed \/ stray
---------------------------------------------------------------------------
(* The promise of Transmitter.tla, kept by this transmitter. *)

placeOf == [c \in Call |->
    IF pc[c] = "idle" THEN "out"
    ELSE IF pc[c] = "gate" THEN "asking"
    ELSE IF pc[c] \in {"window", "regate"} THEN "holding"
    ELSE IF pc[c] = "streaming" THEN "onAir"
    ELSE "ended"]

overtakenOf == {c \in Call : pc[c] # "idle" /\ Stopped(c)}

Promise == INSTANCE Transmitter WITH place <- placeOf, overtaken <- overtakenOf

\* Every behaviour of the Icom transmitter, across its sessions, is one the
\* promise allows: one holder, and nothing a stop has overtaken ever keyed.
KeepsPromise == Promise!TrSpec
=============================================================================
