----------------------------- MODULE QsoExchange -----------------------------
(***************************************************************************)
(* Two stations that both run QsoSequencer (lib/digital/qso.ts) work each   *)
(* other over a channel that loses whole transmissions.  Transmit windows   *)
(* alternate; in its own a station sends what its sequencer says, in the    *)
(* other's it decodes what it hears, perhaps twice (the early pass and the  *)
(* full pass of one window).  A station that has finished goes on to work   *)
(* others, and may be heard doing so.                                       *)
(***************************************************************************)
EXTENDS QsoSequencer

CONSTANTS
    Caller, Answerer,
    Third       \* stations either may turn to afterwards

ASSUME StationsAssumption ==
    /\ Caller # Answerer
    /\ Caller \notin Third /\ Answerer \notin Third

VARIABLES
    seq,        \* the sequencer at each end
    outcome,    \* what each end has made of the contact
    turn,       \* whose transmit window this is
    air,        \* <<>> before that station has had its say, or the transmissions in the window
    sent        \* how many times each end has transmitted in this contact

vars == <<seq, outcome, turn, air, sent>>

Ends == {Caller, Answerer}
Other(s) == IF s = Caller THEN Answerer ELSE Caller

Over == {"logged", "kept", "dropped"}
Outcomes == {"idle", "working"} \cup Over

\* The caller has picked a CQ of the answerer's, who does not know of it yet.
Init ==
    /\ seq = [s \in Ends |-> NewSequencer(s, Other(s), IF s = Caller THEN "caller" ELSE "answerer")]
    /\ outcome = [s \in Ends |-> IF s = Caller THEN "working" ELSE "idle"]
    /\ turn = Caller
    /\ air = <<>>
    /\ sent = [s \in Ends |-> 0]

\* A window with a transmission and one without.
OnAir(from, to, kind) == << << Statement(from, to, kind) >> >>
Silence == << << >> >>

Verdict(t, before) ==
    CASE t.log -> "logged"
      [] ~t.log /\ t.gaveUp -> IF t.kept THEN "kept" ELSE "dropped"
      [] OTHER -> before

\* Its window comes and the sequencer is asked what to send.
TakesWindow(s) ==
    LET t == tick(seq[s]) IN
    /\ turn = s /\ air = <<>>
    /\ outcome[s] = "working"
    /\ seq' = [seq EXCEPT ![s] = t.seq]
    /\ outcome' = [outcome EXCEPT ![s] = Verdict(t, @)]
    /\ air' = IF t.send = None THEN Silence ELSE OnAir(s, Other(s), t.send)
    /\ sent' = [sent EXCEPT ![s] = IF t.send = None THEN @ ELSE @ + 1]
    /\ UNCHANGED turn

\* The pass that should have asked never finished, or there is nothing to ask.
LosesWindow(s) ==
    /\ turn = s /\ air = <<>>
    /\ outcome[s] \notin Over
    /\ air' = Silence
    /\ UNCHANGED <<seq, outcome, turn, sent>>

\* With this contact over the station calls CQ, works or finishes with somebody else,
\* or listens.
WorksOthers(s) ==
    /\ turn = s /\ air = <<>>
    /\ outcome[s] \in Over
    /\ \/ air' = Silence
       \/ air' = OnAir(s, s, "cq")
       \/ \E x \in Third, k \in {"report", "rr73"} : air' = OnAir(s, x, k)
    /\ UNCHANGED <<seq, outcome, turn, sent>>

\* The other end decodes the transmission.
Hears(s) ==
    /\ turn = Other(s) /\ air \notin {<<>>, Silence}
    /\ outcome[s] = "working"
    /\ seq' = [seq EXCEPT ![s] = onDecode(@, air[1])]
    /\ UNCHANGED <<outcome, turn, air, sent>>

\* An idle answerer decodes a call to itself and answers it.
IsCalled(s) ==
    /\ turn = Other(s) /\ air = OnAir(Other(s), s, "grid")
    /\ outcome[s] = "idle"
    /\ seq' = [seq EXCEPT ![s] = NewSequencer(s, Other(s), "answerer")]
    /\ outcome' = [outcome EXCEPT ![s] = "working"]
    /\ UNCHANGED <<turn, air, sent>>

WindowEnds ==
    /\ air # <<>>
    /\ air' = <<>>
    /\ turn' = Other(turn)
    /\ seq' = [s \in Ends |-> NextWindow(seq[s])]
    /\ UNCHANGED <<outcome, sent>>

Next ==
    \/ \E s \in Ends :
          TakesWindow(s) \/ LosesWindow(s) \/ WorksOthers(s) \/ Hears(s) \/ IsCalled(s)
    \/ WindowEnds

Spec == Init /\ [][Next]_vars

\* Time passes, and not every pass that should ask the sequencer fails.
Fairness ==
    /\ WF_vars(WindowEnds)
    /\ \A s \in Ends : /\ WF_vars(LosesWindow(s) \/ TakesWindow(s) \/ WorksOthers(s))
                       /\ SF_vars(TakesWindow(s))

FairSpec == Spec /\ Fairness

-----------------------------------------------------------------------------
Ticks == {None, "grid", "report", "rreport", "rr73", "73"}

TypeOK ==
    /\ turn \in Ends
    /\ outcome \in [Ends -> Outcomes]
    /\ \A s \in Ends :
          /\ seq[s].me = s /\ seq[s].them = Other(s)
          /\ seq[s].state \in States
          /\ seq[s].repeats \in 0 .. maxRepeats /\ seq[s].stalledRx \in 0 .. maxRepeats
          /\ seq[s].closingTo \in Third \cup {None}
          /\ seq[s].lastSent \in Ticks /\ seq[s].owes \in Ticks
          /\ sent[s] \in Nat

\* No end logs a contact unless each has the other's report: neither a roger nor a 73
\* logs it on the strength of one side's report (QsoSequencer.tick, log).
LoggedInEarnest ==
    \A s \in Ends : outcome[s] = "logged" =>
        \A e \in Ends : seq[e].reportRcvd

\* Each of the two messages an end waits on an answer to is sent at most maxRepeats times,
\* and one sign-off after them, whatever the other sends or repeats: the endless loop of
\* reports and rogers that `stalledRx` was written against.
SentWithinPatience == \A s \in Ends : sent[s] <= 2 * maxRepeats + 1

\* A contact that has begun ends, at each end of it: logged, kept or given up
\* (maxRepeats, stalledRx, abandonFor).
EveryContactEnds ==
    \A s \in Ends : outcome[s] = "working" ~> outcome[s] # "working"

\* The two ends together do what QsoOutcome allows: they log only what both have, and a
\* contact logged at one end leaves a trace at the other ("thirteen QSOs went missing").
Outcome ==
    INSTANCE QsoOutcome WITH
        heard <- {s \in Ends : seq[s].reportRcvd},
        result <- [s \in Ends |-> IF outcome[s] \in Over THEN outcome[s] ELSE "none"]

EndsAgree == Outcome!OutSpec

-----------------------------------------------------------------------------
\* What the code says of itself and does not do.

\* "rr73-sent is special: WE consider the QSO good (they roger'd our report) ... Log it
\* rather than throwing away a valid contact" (lib/digital/qso.ts, tick): an end that has
\* sent RR73 never abandons the contact.
RogeredIsLogged ==
    [][\A s \in Ends : seq[s].state = "rr73-sent" => seq'[s].state # "abandoned"]_vars
=============================================================================
