----------------------------- MODULE Transmitter -----------------------------
(***************************************************************************)
(* What the operating layer is promised by the transmitter of any radio    *)
(* (RadioTransmitter in lib/radio/types.ts): a call asks, may come to hold *)
(* the transmitter, may go on the air, and ends.  One call at a time holds *)
(* it; a call on the air is never displaced by a newer one; and a call that*)
(* a stop has overtaken, wherever it had got to, never goes on the air.    *)
(***************************************************************************)
CONSTANT Call

VARIABLES
    place,      \* where each call has got to
    overtaken   \* the calls that had begun when the last stop came

trVars == <<place, overtaken>>

Places == {"out", "asking", "holding", "onAir", "ended"}

At(p) == {c \in Call : place[c] = p}
Holders == At("holding") \cup At("onAir")

TrInit ==
    /\ place = [c \in Call |-> "out"]
    /\ overtaken = {}

Ask(c) ==
    /\ place[c] = "out"
    /\ place' = [place EXCEPT ![c] = "asking"]
    /\ UNCHANGED overtaken

\* c leaves `asking` for p; a call that holds the transmitter and is not yet on
\* the air may be displaced by it.
AnswerWith(c, p) ==
    /\ place[c] = "asking"
    /\ \E displaced \in SUBSET At("holding") :
          /\ p # "ended" => Holders = displaced
          /\ place' = [d \in Call |-> IF d = c THEN p
                                      ELSE IF d \in displaced THEN "ended"
                                      ELSE place[d]]
    /\ UNCHANGED overtaken

TurnAway(c) == AnswerWith(c, "ended")
Take(c) == c \notin overtaken /\ AnswerWith(c, "holding")
TakeOnAir(c) == c \notin overtaken /\ AnswerWith(c, "onAir")

GoOnAir(c) ==
    /\ place[c] = "holding"
    /\ c \notin overtaken
    /\ place' = [place EXCEPT ![c] = "onAir"]
    /\ UNCHANGED overtaken

End(c) ==
    /\ place[c] \in {"holding", "onAir"}
    /\ place' = [place EXCEPT ![c] = "ended"]
    /\ UNCHANGED overtaken

\* A stop overtakes every call that has begun, and may end those that hold.
StopAll ==
    /\ overtaken' = {c \in Call : place[c] # "out"}
    /\ \E gone \in SUBSET Holders :
          place' = [c \in Call |-> IF c \in gone THEN "ended" ELSE place[c]]

TrNext ==
    \/ \E c \in Call :
          Ask(c) \/ TurnAway(c) \/ Take(c) \/ TakeOnAir(c) \/ GoOnAir(c) \/ End(c)
    \/ StopAll

TrSpec == TrInit /\ [][TrNext]_trVars
=============================================================================
