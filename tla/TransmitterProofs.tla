-------------------------- MODULE TransmitterProofs --------------------------
(* What the promise of Transmitter.tla gives its reader: one holder at a time. *)
EXTENDS Transmitter, TLAPS

TrTypeOK ==
    /\ place \in [Call -> Places]
    /\ overtaken \subseteq Call

OneHolds == \A c, d \in Holders : c = d

TrInv == TrTypeOK /\ OneHolds

\* At any time at most one call holds the transmitter or is on the air
\* (lib/flex/tx.ts, lib/icom/transmitter.ts: "refuse to overlap").
THEOREM OneHolderAtATime == TrSpec => []OneHolds
<1>1. TrInit => TrInv
  BY DEF TrInit, TrInv, TrTypeOK, OneHolds, Holders, At, Places
<1>2. TrInv /\ [TrNext]_trVars => TrInv'
  <2> SUFFICES ASSUME TrInv, [TrNext]_trVars PROVE TrInv'
    OBVIOUS
  <2> USE DEF TrInv, TrTypeOK, OneHolds, Holders, At, Places
  <2>1. ASSUME NEW c \in Call, Ask(c) PROVE TrInv'
    BY <2>1 DEF Ask
  <2>2. ASSUME NEW c \in Call, NEW p \in {"ended", "holding", "onAir"}, AnswerWith(c, p)
        PROVE TrInv'
    <3>1. CASE p = "ended"
      BY <2>2, <3>1 DEF AnswerWith
    <3>2. CASE p # "ended"
      <4>1. PICK displaced \in SUBSET At("holding") :
              /\ Holders = displaced
              /\ place' = [d \in Call |-> IF d = c THEN p
                                          ELSE IF d \in displaced THEN "ended"
                                          ELSE place[d]]
        BY <2>2, <3>2 DEF AnswerWith
      <4>2. \A d \in Call : d # c => place'[d] \notin {"holding", "onAir"}
        BY <4>1
      <4> QED
        BY <2>2, <4>1, <4>2 DEF AnswerWith
    <3> QED
      BY <3>1, <3>2
  <2>3. ASSUME NEW c \in Call, GoOnAir(c) PROVE TrInv'
    BY <2>3 DEF GoOnAir
  <2>4. ASSUME NEW c \in Call, End(c) PROVE TrInv'
    BY <2>4 DEF End
  <2>5. CASE StopAll
    BY <2>5 DEF StopAll
  <2>6. CASE UNCHANGED trVars
    BY <2>6 DEF trVars
  <2> QED
    BY <2>1, <2>2, <2>3, <2>4, <2>5, <2>6 DEF TrNext, TurnAway, Take, TakeOnAir
<1>3. TrInv => OneHolds
  BY DEF TrInv
<1> QED
  BY <1>1, <1>2, <1>3, PTL DEF TrSpec
=============================================================================
