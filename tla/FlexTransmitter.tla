-------------------------- MODULE FlexTransmitter --------------------------
(***************************************************************************)
(* FlexDaxTransmitter of lib/flex/tx.ts: everything between "send this     *)
(* message" and RF, together with the bridge handlers that stop it.        *)
(*                                                                         *)
(* A Call is one call of transmit, transmitText, transmitAudio or          *)
(* transmitCw; a Stop is one request that ends in unkey(): HALT and skip,  *)
(* disarming from the header or FT-0, switching to voice, and the restart  *)
(* the bridge gives itself.  JavaScript runs one continuation at a time, so*)
(* a step here is what the code runs between two awaits that can really    *)
(* suspend it: a settings read, a timer, a command's reply, a packet sent. *)
(***************************************************************************)
EXTENDS TransmitGate, FlexCommand

CONSTANTS
    Call,           \* the calls of transmit and its sisters
    Stop,           \* the requests that call unkey()
    None,           \* no call
    Packets         \* audio packets in a waveform

ASSUME TransmitterAssumption ==
    /\ Client = Call \cup Stop
    /\ Call \cap Stop = {}
    /\ None \notin Client
    /\ Packets \in Nat \ {0}

VARIABLES
    busy, keyed,    \* the two flags a new request is refused by
    txGen, stopGen, \* accepted requests, and stops, so far
    pendingKey,     \* the call waiting for its window, or None
    watchdog,       \* the watchdog timer is running
    pc,             \* where each call and each stop has got to
    kind,           \* what each call sends and each stop is for
    stopsAtStart,   \* stopGen when each call began
    gen,            \* txGen when each call was accepted
    reading,        \* each call's reading of the transmit gate
    wasKeyed,       \* `keyed` when each unkey() began
    sent,           \* packets each call has sent
    aired,          \* (history) packets sent while the radio was transmitting
    stopAt,         \* (history) stopGen when each stop's unkey() began
    disarmed        \* (history) a disarm has completed and nobody has armed since

flags == <<busy, keyed, txGen, stopGen, pendingKey, watchdog>>
locals == <<kind, stopsAtStart, gen, reading, wasKeyed, sent>>
history == <<aired, stopAt, disarmed>>
vars == <<gateVars, linkVars, flags, pc, locals, history>>

CallKinds == {"framed", "text", "cw"}
StopKinds == {"halt", "disarm", "voice", "restart"}

CallPlaces == {"idle", "gate", "window", "regate", "keying", "streaming",
               "unkeyAll", "unkeyCut", "cwWpm", "cwSend", "cwTimer",
               "sent", "refused"}
StopPlaces == {"idle", "tuneOff", "unkeying", "writing", "done"}

\* The call has been accepted and has not returned.
Owning == {"window", "regate", "keying", "streaming", "unkeyAll", "unkeyCut",
           "cwWpm", "cwSend", "cwTimer"}
Owners == {c \in Call : pc[c] \in Owning}

TypeOK ==
    /\ GateTypeOK
    /\ LinkTypeOK
    /\ busy \in BOOLEAN /\ keyed \in BOOLEAN /\ watchdog \in BOOLEAN
    /\ txGen \in Nat /\ stopGen \in Nat
    /\ pendingKey \in Call \cup {None}
    /\ pc \in [Client -> CallPlaces \cup StopPlaces]
    /\ kind \in [Client -> CallKinds \cup StopKinds]
    /\ stopsAtStart \in [Call -> Nat]
    /\ gen \in [Call -> Nat]
    /\ reading \in [Call -> Readings]
    /\ wasKeyed \in [Client -> BOOLEAN]
    /\ sent \in [Call -> 0 .. Packets]
    /\ aired \in [Call -> Nat]
    /\ stopAt \in [Stop -> Nat]
    /\ disarmed \in BOOLEAN

Init ==
    /\ GateInit
    /\ LinkInit
    /\ busy = FALSE /\ keyed = FALSE /\ watchdog = FALSE
    /\ txGen = 0 /\ stopGen = 0
    /\ pendingKey = None
    /\ pc = [x \in Client |-> "idle"]
    /\ kind \in [Client -> CallKinds \cup StopKinds]
    /\ \A c \in Call : kind[c] \in CallKinds
    /\ \A s \in Stop : kind[s] \in StopKinds
    /\ stopsAtStart = [c \in Call |-> 0]
    /\ gen = [c \in Call |-> 0]
    /\ reading = [c \in Call |-> "off"]
    /\ wasKeyed = [x \in Client |-> FALSE]
    /\ sent = [c \in Call |-> 0]
    /\ aired = [c \in Call |-> 0]
    /\ stopAt = [s \in Stop |-> 0]
    /\ disarmed = FALSE

Go(x, place) == pc' = [pc EXCEPT ![x] = place]

---------------------------------------------------------------------------
(* unkey(): the part that runs before its await. *)

\* The calls unkey() cancels while they wait for their window.
Cancelled == IF pendingKey # None /\ ~keyed THEN {pendingKey} ELSE {}

\* x runs unkey(), and is at `place` until the radio answers.
Unkey(x, place) ==
    /\ stopGen' = stopGen + 1
    /\ watchdog' = FALSE
    /\ pendingKey' = IF Cancelled = {} THEN pendingKey ELSE None
    /\ pc' = [y \in Client |-> IF y = x THEN place
                               ELSE IF y \in Cancelled THEN "refused"
                               ELSE pc[y]]
    \* a cancelled call returns at once, and lets go of what it still owns
    /\ busy' = (busy /\ \A c \in Cancelled : gen[c] # txGen)
    /\ wasKeyed' = [wasKeyed EXCEPT ![x] = keyed]
    /\ Send(x, "xmit 0")
    /\ UNCHANGED <<keyed, txGen>>

\* The rest of unkey(), once the radio has answered x or ten seconds are gone.
Unkeyed(x) ==
    /\ keyed' = FALSE
    /\ \/ /\ Answered(x)
          /\ ReadReply(x)
          /\ UNCHANGED <<seq, wire, radioKeyed>>
       \/ /\ TimedOut(x)
          /\ GiveUp(x)
          /\ IF wasKeyed[x] THEN SendAndForget("xmit 0")
                            ELSE UNCHANGED <<seq, wire, radioKeyed>>
    /\ UNCHANGED <<txGen, stopGen, watchdog>>

\* The `finally` every accepted call ends with.
LetGo(c) ==
    /\ busy' = (busy /\ gen[c] # txGen)
    /\ pendingKey' = IF gen[c] = txGen THEN None ELSE pendingKey

---------------------------------------------------------------------------
(* A call, from its first line to the transmitter being its own. *)

\* transmit records stopGen and asks the gate.  A mode that is never sent as a
\* timed frame is refused on the way, with no state changed.
Begin(c) ==
    /\ pc[c] = "idle"
    /\ Go(c, "gate")
    /\ stopsAtStart' = [stopsAtStart EXCEPT ![c] = stopGen]
    /\ reading' = [reading EXCEPT ![c] = ReadingStarts]
    /\ UNCHANGED <<gateVars, linkVars, flags, kind, gen, wasKeyed, sent, history>>

\* The settings read a call awaits completes.
ReadSetting(c) ==
    /\ pc[c] \in {"gate", "regate"}
    /\ reading[c] = "unread"
    /\ \E r \in ReadingEnds : reading' = [reading EXCEPT ![c] = r]
    /\ UNCHANGED <<gateVars, linkVars, flags, pc, kind, stopsAtStart, gen,
                   wasKeyed, sent, history>>

\* A call waiting for its window gives way to a newer request; one that has
\* keyed, or is about to, never does.
Superseded == IF busy /\ ~keyed /\ pendingKey # None THEN {pendingKey} ELSE {}
\* Fault: `busy` no longer protects a call past its window.
InUseOnceKeyed == keyed

InUse == keyed \/ (busy /\ Superseded = {})

RefusedAtGate(c) ==
    /\ pc[c] = "gate"
    /\ \/ reading[c] = "off"
       \/ reading[c] = "on" /\ InUse
    /\ Go(c, "refused")
    /\ UNCHANGED <<gateVars, linkVars, flags, locals, history>>

\* c has passed the gate, and whoever waited has gone: c's own place is `place`.
PassesGate(c, place) ==
    /\ pc[c] = "gate"
    /\ reading[c] = "on"
    /\ ~InUse
    /\ pc' = [y \in Client |-> IF y = c THEN place
                               ELSE IF y \in Superseded THEN "refused"
                               ELSE pc[y]]

\* Past the gate but not keyed after all: a stop came first, the message does
\* not encode, or a framed one has missed its window or is far too early.
DroppedAfterGate(c) ==
    /\ PassesGate(c, "refused")
    /\ stopGen # stopsAtStart[c] \/ kind[c] = "framed"
    /\ busy' = FALSE
    /\ pendingKey' = None
    /\ UNCHANGED <<gateVars, linkVars, keyed, txGen, stopGen, watchdog, locals,
                   history>>

\* Fault: a stop that came while the gate was read is lost.
TakesDespiteStop(c, place) ==
    /\ PassesGate(c, place)
    /\ busy' = TRUE
    /\ txGen' = txGen + 1
    /\ gen' = [gen EXCEPT ![c] = txGen + 1]
    /\ UNCHANGED <<gateVars, keyed, stopGen, kind, stopsAtStart, wasKeyed, sent,
                   history>>

\* The call takes the transmitter.
Takes(c, place) ==
    /\ PassesGate(c, place)
    /\ stopGen = stopsAtStart[c]
    /\ busy' = TRUE
    /\ txGen' = txGen + 1
    /\ gen' = [gen EXCEPT ![c] = txGen + 1]
    /\ UNCHANGED <<gateVars, keyed, stopGen, kind, stopsAtStart, wasKeyed, sent,
                   history>>

TakesAndWaits(c) ==
    /\ kind[c] = "framed"
    /\ Takes(c, "window")
    /\ pendingKey' = c
    /\ UNCHANGED <<linkVars, watchdog, reading>>

\* Its window has begun already: the gate is read again straight away.
TakesAndRereads(c) ==
    /\ kind[c] = "framed"
    /\ Takes(c, "regate")
    /\ pendingKey' = None
    /\ reading' = [reading EXCEPT ![c] = ReadingStarts]
    /\ UNCHANGED <<linkVars, watchdog>>

\* keyAndStream, up to its first await.
KeysUp(c) ==
    /\ watchdog' = TRUE
    /\ Send(c, "xmit 1")
    /\ UNCHANGED replies

\* Text and pictures go now.
TakesAndKeys(c) ==
    /\ kind[c] = "text"
    /\ Takes(c, "keying")
    /\ pendingKey' = None
    /\ KeysUp(c)
    /\ UNCHANGED reading

TakesForCw(c) ==
    /\ kind[c] = "cw"
    /\ Takes(c, "cwWpm")
    /\ pendingKey' = None
    /\ Send(c, "cwx wpm")
    /\ UNCHANGED <<replies, watchdog, reading>>

WindowBegins(c) ==
    /\ pc[c] = "window"
    /\ Go(c, "regate")
    /\ pendingKey' = None
    /\ reading' = [reading EXCEPT ![c] = ReadingStarts]
    /\ UNCHANGED <<gateVars, linkVars, busy, keyed, txGen, stopGen, watchdog,
                   kind, stopsAtStart, gen, wasKeyed, sent, history>>

\* The gate has closed, or a stop has come, since the call was accepted.
DroppedBeforeKeying(c) ==
    /\ pc[c] = "regate"
    /\ reading[c] = "off" \/ (reading[c] = "on" /\ stopGen # stopsAtStart[c])
    /\ LetGo(c)
    /\ Go(c, "refused")
    /\ UNCHANGED <<gateVars, linkVars, keyed, txGen, stopGen, watchdog, locals,
                   history>>

\* Fault: a stop that came while the gate was read again is lost.
KeysDespiteStop(c) ==
    /\ pc[c] = "regate"
    /\ reading[c] = "on"
    /\ KeysUp(c)
    /\ Go(c, "keying")
    /\ UNCHANGED <<gateVars, busy, keyed, txGen, stopGen, pendingKey, locals,
                   history>>

Keys(c) ==
    /\ pc[c] = "regate"
    /\ reading[c] = "on"
    /\ stopGen = stopsAtStart[c]
    /\ KeysUp(c)
    /\ Go(c, "keying")
    /\ UNCHANGED <<gateVars, busy, keyed, txGen, stopGen, pendingKey, locals,
                   history>>

---------------------------------------------------------------------------
(* On the air. *)

PacketGoesOut(c) ==
    /\ sent' = [sent EXCEPT ![c] = @ + 1]
    /\ aired' = [aired EXCEPT ![c] = IF radioKeyed THEN @ + 1 ELSE @]

\* xmit 1 is acknowledged; the first packet follows in the same turn.
KeyAcknowledged(c) ==
    /\ pc[c] = "keying"
    /\ Answered(c)
    /\ Head(replies).ok
    /\ ReadReply(c)
    /\ keyed' = TRUE
    /\ PacketGoesOut(c)
    /\ Go(c, "streaming")
    /\ UNCHANGED <<gateVars, seq, wire, radioKeyed, busy, txGen, stopGen,
                   pendingKey, watchdog, kind, stopsAtStart, gen, reading,
                   wasKeyed, stopAt, disarmed>>

\* Fault: an error reply is taken for no reply.
KeyFailsOnTimeout(c) ==
    /\ pc[c] = "keying"
    /\ TimedOut(c) /\ GiveUp(c)
    /\ watchdog' = FALSE
    /\ busy' = FALSE
    /\ pendingKey' = IF gen[c] = txGen THEN None ELSE pendingKey
    /\ Go(c, "refused")
    /\ UNCHANGED <<gateVars, seq, wire, radioKeyed, keyed, txGen, stopGen,
                   locals, history>>

\* The radio refused to key, or has not answered: back to idle, and no xmit 0.
KeyFails(c) ==
    /\ pc[c] = "keying"
    /\ \/ Answered(c) /\ ~Head(replies).ok /\ ReadReply(c)
       \/ TimedOut(c) /\ GiveUp(c)
    /\ watchdog' = FALSE
    /\ busy' = FALSE
    /\ pendingKey' = IF gen[c] = txGen THEN None ELSE pendingKey
    /\ Go(c, "refused")
    /\ UNCHANGED <<gateVars, seq, wire, radioKeyed, keyed, txGen, stopGen,
                   locals, history>>

\* Fault: one packet too many.
SendPacketTooMany(c) ==
    /\ pc[c] = "streaming"
    /\ keyed
    /\ sent[c] <= Packets
    /\ PacketGoesOut(c)
    /\ UNCHANGED <<gateVars, linkVars, flags, pc, kind, stopsAtStart, gen,
                   reading, wasKeyed, stopAt, disarmed>>

SendPacket(c) ==
    /\ pc[c] = "streaming"
    /\ keyed
    /\ sent[c] < Packets
    /\ PacketGoesOut(c)
    /\ UNCHANGED <<gateVars, linkVars, flags, pc, kind, stopsAtStart, gen,
                   reading, wasKeyed, stopAt, disarmed>>

\* The loop ends: every packet has gone, or the key was taken from under it.
\* `keyed` is looked at before each packet and not after the last.
StreamEnds(c) ==
    /\ pc[c] = "streaming"
    /\ \/ sent[c] = Packets /\ Unkey(c, "unkeyAll")
       \/ sent[c] < Packets /\ ~keyed /\ Unkey(c, "unkeyCut")
    /\ UNCHANGED <<gateVars, replies, kind, stopsAtStart, gen, reading, sent,
                   history>>

\* Fault: the catch returns without unkeying.
StreamFailsKeyed(c) ==
    /\ pc[c] = "streaming"
    /\ LetGo(c)
    /\ Go(c, "refused")
    /\ keyed' = FALSE
    /\ UNCHANGED <<gateVars, linkVars, txGen, stopGen, watchdog, locals, history>>

\* A send fails, and the call's catch unkeys.
StreamFails(c) ==
    /\ pc[c] = "streaming"
    /\ Unkey(c, "unkeyCut")
    /\ UNCHANGED <<gateVars, replies, kind, stopsAtStart, gen, reading, sent,
                   history>>

CallUnkeyed(c) ==
    /\ pc[c] \in {"unkeyAll", "unkeyCut"}
    /\ Unkeyed(c)
    /\ LetGo(c)
    /\ Go(c, IF pc[c] = "unkeyAll" THEN "sent" ELSE "refused")
    /\ UNCHANGED <<gateVars, locals, history>>

\* Fault: the watchdog leaves the radio alone while a call holds it.
WatchdogWhenIdle ==
    /\ watchdog /\ ~busy
    /\ stopGen' = stopGen + 1
    /\ watchdog' = FALSE
    /\ keyed' = FALSE
    /\ SendAndForget("xmit 0")
    /\ UNCHANGED <<gateVars, pending, replies, busy, txGen, pendingKey, pc,
                   locals, history>>

\* The watchdog's emergencyUnkey: nothing is awaited and no call is woken.  On a
\* prompt link its margin outlasts the wait for xmit 1.
WatchdogFires ==
    /\ watchdog
    /\ SlowLink \/ \A c \in Call : pc[c] # "keying"
    /\ stopGen' = stopGen + 1
    /\ watchdog' = FALSE
    /\ keyed' = FALSE
    /\ SendAndForget("xmit 0")
    /\ UNCHANGED <<gateVars, pending, replies, busy, txGen, pendingKey, pc,
                   locals, history>>

---------------------------------------------------------------------------
(* CW, which the radio keys itself: cwx wpm, cwx send, then its length. *)

CwSpeedSet(c) ==
    /\ pc[c] = "cwWpm"
    /\ Answered(c) /\ Head(replies).ok
    /\ stopGen = stopsAtStart[c]
    /\ Send(c, "cwx send")
    /\ replies' = Tail(replies)
    /\ Go(c, "cwSend")
    /\ UNCHANGED <<gateVars, flags, locals, history>>

CwSent(c) ==
    /\ pc[c] = "cwSend"
    /\ Answered(c) /\ Head(replies).ok
    /\ ReadReply(c)
    /\ Go(c, "cwTimer")
    /\ UNCHANGED <<gateVars, seq, wire, radioKeyed, flags, locals, history>>

CwFails(c) ==
    /\ pc[c] \in {"cwWpm", "cwSend"}
    /\ \/ TimedOut(c) /\ GiveUp(c)
       \/ /\ Answered(c)
          /\ ReadReply(c)
          /\ \/ ~Head(replies).ok
             \/ pc[c] = "cwWpm" /\ stopGen # stopsAtStart[c]
    /\ LetGo(c)
    /\ Go(c, "refused")
    /\ UNCHANGED <<gateVars, seq, wire, radioKeyed, keyed, txGen, stopGen,
                   watchdog, locals, history>>

CwEnds(c) ==
    /\ pc[c] = "cwTimer"
    /\ LetGo(c)
    /\ Go(c, "sent")
    /\ UNCHANGED <<gateVars, linkVars, keyed, txGen, stopGen, watchdog, locals,
                   history>>

---------------------------------------------------------------------------
(* The handlers that stop a transmission, and those that allow one. *)

StopUnkeys(s) ==
    /\ Unkey(s, "unkeying")
    /\ stopAt' = [stopAt EXCEPT ![s] = stopGen + 1]
    /\ UNCHANGED <<replies, kind, stopsAtStart, gen, reading, sent, aired,
                   disarmed>>

\* HALT, skip and /restart, and the start of a disarm: unkey() and nothing else.
Halts(s) ==
    /\ pc[s] = "idle" /\ kind[s] \in {"halt", "disarm"}
    /\ StopUnkeys(s)
    /\ UNCHANGED gateVars

\* /voice closes the gate and unkeys in one turn.
TakesVoice(s) ==
    /\ pc[s] = "idle" /\ kind[s] = "voice"
    /\ SetDigitalTransmitHold(TRUE)
    /\ StopUnkeys(s)

\* exitForRestart latches the gate, stops a tune carrier, and only then unkeys.
LatchesForExit(s) ==
    /\ pc[s] = "idle" /\ kind[s] = "restart"
    /\ CloseTransmitGateForExit
    /\ Send(s, "tune 0")
    /\ Go(s, "tuneOff")
    /\ UNCHANGED <<replies, flags, locals, history>>

UnkeysForExit(s) ==
    /\ pc[s] = "tuneOff"
    /\ \/ Answered(s) /\ replies' = Tail(replies)
       \/ TimedOut(s) /\ UNCHANGED replies
    /\ Unkey(s, "unkeying")
    /\ stopAt' = [stopAt EXCEPT ![s] = stopGen + 1]
    /\ UNCHANGED <<gateVars, kind, stopsAtStart, gen, reading, sent, aired,
                   disarmed>>

StopUnkeyed(s) ==
    /\ pc[s] = "unkeying"
    /\ Unkeyed(s)
    /\ Go(s, IF kind[s] = "disarm" THEN "writing" ELSE "done")
    /\ UNCHANGED <<gateVars, busy, pendingKey, locals, history>>

\* The header's disarm, and FT-0, write the setting after their unkey().
DisarmWritten(s) ==
    /\ pc[s] = "writing"
    /\ WriteAllowTransmit(FALSE)
    /\ disarmed' = TRUE
    /\ Go(s, "done")
    /\ UNCHANGED <<linkVars, flags, locals, aired, stopAt>>

\* Transmit armed, from the header or in Settings.
Arms ==
    /\ WriteAllowTransmit(TRUE)
    /\ disarmed' = FALSE
    /\ UNCHANGED <<linkVars, flags, pc, locals, aired, stopAt>>

\* Transmit turned off in Settings: nothing unkeys.
SettingsTurnOff ==
    /\ WriteAllowTransmit(FALSE)
    /\ UNCHANGED <<linkVars, flags, pc, locals, history>>

ReleasesVoice ==
    /\ digitalHold
    /\ SetDigitalTransmitHold(FALSE)
    /\ UNCHANGED <<linkVars, flags, pc, locals, history>>

---------------------------------------------------------------------------

Accepts(c) == TakesAndWaits(c) \/ TakesAndRereads(c) \/ TakesAndKeys(c) \/ TakesForCw(c)

CallStep(c) ==
    \/ Begin(c)
    \/ ReadSetting(c)
    \/ RefusedAtGate(c)
    \/ DroppedAfterGate(c)
    \/ Accepts(c)
    \/ WindowBegins(c)
    \/ DroppedBeforeKeying(c)
    \/ Keys(c)
    \/ KeyAcknowledged(c)
    \/ KeyFails(c)
    \/ SendPacket(c)
    \/ StreamEnds(c)
    \/ StreamFails(c)
    \/ CallUnkeyed(c)
    \/ CwSpeedSet(c)
    \/ CwSent(c)
    \/ CwFails(c)
    \/ CwEnds(c)

StopStep(s) ==
    \/ Halts(s)
    \/ TakesVoice(s)
    \/ LatchesForExit(s)
    \/ UnkeysForExit(s)
    \/ StopUnkeyed(s)
    \/ DisarmWritten(s)

RadioStep ==
    /\ LinkNext
    /\ UNCHANGED <<gateVars, flags, pc, locals, history>>

Next ==
    \/ \E c \in Call : CallStep(c)
    \/ \E s \in Stop : StopStep(s)
    \/ WatchdogFires
    \/ Arms
    \/ SettingsTurnOff
    \/ ReleasesVoice
    \/ RadioStep

Spec == Init /\ [][Next]_vars
---------------------------------------------------------------------------
(* What is promised. *)

\* At most one call holds the transmitter, and the flags a newcomer is refused
\* by say so exactly: `busy` while somebody holds it, under the generation of
\* the holder, and `keyed` only while the holder is streaming or unkeying.  A
\* superseded or cancelled call that clears flags it no longer owns breaks it.
OneHolder ==
    /\ \A c, d \in Owners : c = d
    /\ busy <=> Owners # {}
    /\ \A c \in Owners : gen[c] = txGen
    /\ pendingKey # None => pendingKey \in Call /\ pc[pendingKey] = "window"
    /\ keyed => \E c \in Call : pc[c] \in {"streaming", "unkeyAll", "unkeyCut"}

\* The gate is closed for every caller, and an unkey() has begun since: voice
\* mode does both in one turn, a restart unkeys after latching.
Shut ==
    \/ digitalHold
    \/ \E s \in Stop : kind[s] = "restart" /\ pc[s] \in {"unkeying", "done"}

StartsRf(c) == pc[c] # pc'[c] /\ pc'[c] \in {"keying", "cwSend"}

\* Once the gate is held or latched and the stop that goes with it has begun,
\* nothing keys: not a call whose gate reading was in flight, not one waiting
\* for its window, not one made later.
NothingKeysOnceShut == [][\A c \in Call : StartsRf(c) => ~Shut]_vars

\* When a stop has had its answer the radio is silent, unless a call that began
\* after that stop has keyed it: no transmission the stop was meant for survives
\* it or starts behind its back.
HaltedIsSilent ==
    \A s \in Stop :
        pc[s] \in {"writing", "done"} /\ radioKeyed
            => \E c \in Owners : stopsAtStart[c] >= stopAt[s]

\* The transmitter is never left keyed: while the radio transmits, either some
\* call holds the transmitter or a command is still on its way to the radio.
NeverLeftKeyed == radioKeyed => Owners # {} \/ wire # <<>>

(***************************************************************************)
(* What the source says of itself and TLC refutes: no behaviour of this    *)
(* module is promised to have these.  The README tells how each fails.     *)
(***************************************************************************)

\* "Off means nothing can key the radio, ever": after a disarm has completed, and
\* until somebody arms again, the radio is not transmitting.
DisarmedIsSilent == disarmed => ~radioKeyed

\* "the pending wait is aborted and this request takes over": a waiting call is
\* only ever turned away by a stop or by a request that takes the transmitter.
SupersederTakesOver ==
    [][\A c \in Call : pc[c] = "window" /\ pc'[c] = "refused"
                         => busy' \/ stopGen' # stopGen]_vars

\* "A waveform cut short by unkey() ... must not be reported as sent": a call
\* reported as sent put at least one packet on the air.
SentWasAired ==
    \A c \in Call : pc[c] = "sent" /\ kind[c] # "cw" => aired[c] > 0

\* The xmit 0 an unanswered unkey() sends again "can never land after a later
\* xmit 1": when a stop gives up on its answer, no call that began after the stop
\* has sent its xmit 1.
RetryPrecedesNextKey ==
    [][\A s \in Stop :
          pc[s] = "unkeying" /\ pc'[s] # "unkeying" /\ seq' # seq
              => \A c \in Call : stopsAtStart[c] >= stopAt[s]
                                  => pc[c] \notin {"keying", "streaming"}]_vars

(***************************************************************************)
(* Liveness.  Timers fire, the radio takes the commands it is sent, replies*)
(* and settings reads are delivered.  Of the audio loop only this is asked:*)
(* that it returns once its packets are gone or it has been unkeyed.  That *)
(* it sends its packets is not: the watchdog exists for when it does not.  *)
(***************************************************************************)
Replied(c) == KeyAcknowledged(c) \/ KeyFails(c) \/ CallUnkeyed(c) \/ CwSpeedSet(c)
                  \/ CwSent(c) \/ CwFails(c)
Answers(c) == RefusedAtGate(c) \/ DroppedAfterGate(c) \/ Accepts(c) \/ DroppedBeforeKeying(c)
                  \/ Keys(c)

Fairness ==
    /\ WF_vars(RadioStep)
    /\ WF_vars(WatchdogFires)
    /\ \A s \in Stop : WF_vars(UnkeysForExit(s) \/ StopUnkeyed(s) \/ DisarmWritten(s))
    /\ \A c \in Call :
          /\ WF_vars(Replied(c))
          /\ WF_vars(ReadSetting(c))
          /\ WF_vars(Answers(c))
          /\ WF_vars(WindowBegins(c) \/ CwEnds(c))
          /\ WF_vars(StreamEnds(c))

\* "A watchdog unkeys unconditionally, independent of the send loop": a radio
\* that is keyed is unkeyed, even when no more audio is ever sent.
RadioComesDown == radioKeyed ~> ~radioKeyed

\* Every call returns to its caller, superseded, stopped or with its audio loop
\* stalled, so the transmitter is never held for ever.
EveryCallReturns == \A c \in Call : pc[c] = "gate" ~> pc[c] \in {"sent", "refused"}
---------------------------------------------------------------------------
(* The promise of Transmitter.tla, kept by this transmitter. *)

Holding == {"window", "regate", "cwWpm"}
OnAir == {"keying", "streaming", "unkeyAll", "unkeyCut", "cwSend", "cwTimer"}

placeOf == [c \in Call |->
    IF pc[c] = "idle" THEN "out"
    ELSE IF pc[c] = "gate" THEN "asking"
    ELSE IF pc[c] \in Holding THEN "holding"
    ELSE IF pc[c] \in OnAir THEN "onAir"
    ELSE "ended"]

overtakenOf == {c \in Call : pc[c] # "idle" /\ stopsAtStart[c] # stopGen}

Promise == INSTANCE Transmitter WITH place <- placeOf, overtaken <- overtakenOf

\* Every behaviour of the Flex transmitter is one the promise allows: one holder,
\* nothing on the air displaced, nothing a stop has overtaken ever keyed.
KeepsPromise == Promise!TrSpec
=============================================================================
