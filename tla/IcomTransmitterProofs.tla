------------------------ MODULE IcomTransmitterProofs ------------------------
(***************************************************************************)
(* Theorems of IcomTransmitter, for any numbers of calls, stops, chunks    *)
(* and rebuilds, over streams that may die and a link that may lose any    *)
(* command, whether or not a preflight is answered.                        *)
(***************************************************************************)
EXTENDS IcomTransmitter, SequenceTheorems, TLAPS

LEMMA Apart == None \notin Call /\ \A s \in Stop : s \notin Call
  BY IcomAssumption

\* Whether or not its preflight is answered, an attach renews the transmitter.
LEMMA AttachRenews == Attach => NewSession
  BY DEF Attach, AttachSeeing, AttachBlind

---------------------------------------------------------------------------
(* Type correctness. *)

FlagsTypeOK ==
    /\ busy \in BOOLEAN /\ keyed \in BOOLEAN /\ cancelled \in BOOLEAN /\ watchdog \in BOOLEAN
    /\ stopGen \in Nat
    /\ wakePending \in Call \cup {None}

PcTypeOK == pc \in [Call \cup Stop -> Places]

LocalsTypeOK ==
    /\ kind \in [Call \cup Stop -> CallKinds \cup StopKinds]
    /\ stopsAtStart \in [Call -> Nat]
    /\ reading \in [Call -> Readings]
    /\ sent \in [Call -> 0 .. Chunks]

SessionTypeOK ==
    /\ streams \in BOOLEAN
    /\ session \in {"live", "confirming", "closing", "down"}
    /\ attempt \in 0 .. 3
    /\ rebuilds \in 0 .. Rebuilds

RadioTypeOK == wire \in Seq({"on", "off"}) /\ radioKeyed \in BOOLEAN /\ stray \in BOOLEAN

LEMMA TypeOKParts ==
  TypeOK <=> /\ GateTypeOK /\ FlagsTypeOK /\ PcTypeOK
             /\ LocalsTypeOK /\ SessionTypeOK /\ RadioTypeOK
  BY DEF TypeOK, FlagsTypeOK, PcTypeOK, LocalsTypeOK, SessionTypeOK, RadioTypeOK

\* `sent` stays within Chunks because a call that does not stream yet has sent
\* nothing, and `attempt` because the third unkey ends the confirming.
Early == {"idle", "gate", "window", "regate"}
NothingSentYet == \A c \in Call : pc[c] \in Early => sent[c] = 0
AttemptsLeft == session = "confirming" => attempt < 3

TypeInv == TypeOK /\ NothingSentYet /\ AttemptsLeft

LEMMA InitTypeInv == Init => TypeInv
<1> SUFFICES ASSUME Init PROVE TypeInv
  OBVIOUS
<1>1. GateTypeOK
  BY DEF Init, GateInit, GateTypeOK
<1>2. FlagsTypeOK /\ PcTypeOK
  BY DEF Init, FlagsTypeOK, PcTypeOK, Places
<1>3. LocalsTypeOK
  BY IcomAssumption DEF Init, LocalsTypeOK, Readings
<1>4. SessionTypeOK
  BY IcomAssumption DEF Init, SessionTypeOK
<1>5. RadioTypeOK
  <2>1. <<>> \in Seq({"on", "off"})
    BY EmptySeq
  <2> QED
    BY <2>1 DEF Init, RadioTypeOK
<1>6. NothingSentYet /\ AttemptsLeft
  BY DEF Init, NothingSentYet, AttemptsLeft
<1> QED
  BY <1>1, <1>2, <1>3, <1>4, <1>5, <1>6, TypeOKParts DEF TypeInv

\* What the parts of a step that changes nothing of theirs keep.
LEMMA GateUnchanged == GateTypeOK /\ UNCHANGED gateVars => GateTypeOK'
  BY DEF GateTypeOK, gateVars

LEMMA FlagsUnchanged == FlagsTypeOK /\ UNCHANGED flags => FlagsTypeOK'
  BY DEF FlagsTypeOK, flags

LEMMA LocalsUnchanged == LocalsTypeOK /\ UNCHANGED locals => LocalsTypeOK'
  BY DEF LocalsTypeOK, locals

LEMMA SessionUnchanged == SessionTypeOK /\ UNCHANGED sessionVars => SessionTypeOK'
  BY DEF SessionTypeOK, sessionVars

LEMMA RadioUnchanged == RadioTypeOK /\ UNCHANGED radioVars => RadioTypeOK'
  BY DEF RadioTypeOK, radioVars

LEMMA GoTypeOK ==
  ASSUME PcTypeOK, NEW x \in Call \cup Stop, NEW place \in Places, Go(x, place)
  PROVE  PcTypeOK'
  BY DEF PcTypeOK, Go

LEMMA ReadingTypes == ReadingStarts \in Readings /\ ReadingEnds \subseteq Readings
  BY DEF ReadingStarts, ReadingEnds, Readings

LEMMA UnkeyTypeOK ==
  ASSUME TypeOK, NEW moved, NEW place \in Places, Unkey(moved, place)
  PROVE  FlagsTypeOK' /\ PcTypeOK' /\ RadioTypeOK'
<1>1. busy' \in BOOLEAN /\ keyed' \in BOOLEAN /\ cancelled' \in BOOLEAN /\ watchdog' \in BOOLEAN
  BY Zenon DEF Unkey
<1>2. stopGen' = stopGen + 1 /\ wakePending' = None /\ UNCHANGED <<radioKeyed, stray>>
      /\ wire' = IF streams THEN Append(wire, "off") ELSE wire
  BY Zenon DEF Unkey
<1>3. FlagsTypeOK'
  BY <1>1, <1>2 DEF TypeOK, FlagsTypeOK
<1>4. PcTypeOK'
  BY DEF TypeOK, PcTypeOK, Places, Unkey
<1>5. RadioTypeOK'
  <2>1. Append(wire, "off") \in Seq({"on", "off"})
    BY AppendProperties DEF TypeOK
  <2> QED
    BY <1>2, <2>1, Zenon DEF TypeOK, RadioTypeOK
<1> QED
  BY <1>3, <1>4, <1>5

\* One lemma per group of actions: a call's, a stop's, the session's, the rest.
LEMMA CallTypeOK ==
  ASSUME TypeInv, NEW c \in Call, CallStep(c)
  PROVE  TypeOK' /\ UNCHANGED sessionVars
<1>0. /\ GateTypeOK /\ FlagsTypeOK /\ PcTypeOK
      /\ LocalsTypeOK /\ SessionTypeOK /\ RadioTypeOK
  BY TypeOKParts DEF TypeInv
<1> SUFFICES /\ GateTypeOK' /\ FlagsTypeOK' /\ PcTypeOK'
             /\ LocalsTypeOK' /\ SessionTypeOK' /\ RadioTypeOK'
             /\ UNCHANGED sessionVars
  BY DEF TypeOK, FlagsTypeOK, PcTypeOK, LocalsTypeOK, SessionTypeOK, RadioTypeOK
<1>1. CASE Begin(c)
  <2>1. PcTypeOK'
    BY <1>0, <1>1, GoTypeOK DEF Begin, Places
  <2>2. LocalsTypeOK'
    BY <1>0, <1>1, ReadingTypes DEF Begin, LocalsTypeOK, FlagsTypeOK
  <2> QED
    BY <1>0, <1>1, <2>1, <2>2, GateUnchanged, FlagsUnchanged, SessionUnchanged, RadioUnchanged
       DEF Begin
<1>2. CASE ReadSetting(c)
  <2>1. LocalsTypeOK'
    BY <1>0, <1>2, ReadingTypes DEF ReadSetting, LocalsTypeOK
  <2> QED
    BY <1>0, <1>2, <2>1, GateUnchanged, FlagsUnchanged, SessionUnchanged, RadioUnchanged
       DEF ReadSetting, PcTypeOK
<1>3. CASE Refused(c)
  <2>1. PcTypeOK'
    BY <1>0, <1>3, GoTypeOK DEF Refused, Places
  <2> QED
    BY <1>0, <1>3, <2>1, GateUnchanged, FlagsUnchanged, LocalsUnchanged, SessionUnchanged,
       RadioUnchanged DEF Refused
<1>4. CASE Unsendable(c) \/ Waits(c)
  <2>1. PcTypeOK'
    BY <1>0, <1>4, GoTypeOK DEF Unsendable, Waits, Places
  <2>2. busy' \in BOOLEAN /\ keyed' \in BOOLEAN /\ cancelled' \in BOOLEAN /\ watchdog' \in BOOLEAN
    BY <1>0, <1>4, Zenon DEF Unsendable, Waits, Admits, FlagsTypeOK
  <2>3. stopGen' \in Nat /\ wakePending' \in Call \cup {None}
    BY <1>0, <1>4 DEF Unsendable, Waits, FlagsTypeOK
  <2> QED
    BY <1>0, <1>4, <2>1, <2>2, <2>3, GateUnchanged, LocalsUnchanged, SessionUnchanged,
       RadioUnchanged DEF Unsendable, Waits, FlagsTypeOK
<1>5. CASE GoesNow(c) \/ WindowBegins(c)
  <2>1. Rereads(c)
    BY <1>5 DEF GoesNow, WindowBegins
  <2>2. PcTypeOK'
    BY <1>0, <2>1, GoTypeOK DEF Rereads, Places
  <2>3. LocalsTypeOK'
    BY <1>0, <2>1, ReadingTypes DEF Rereads, LocalsTypeOK
  <2>4. busy' \in BOOLEAN /\ keyed' \in BOOLEAN /\ cancelled' \in BOOLEAN /\ watchdog' \in BOOLEAN
    BY <1>0, <1>5, Zenon DEF GoesNow, WindowBegins, Rereads, Admits, FlagsTypeOK
  <2>5. stopGen' \in Nat /\ wakePending' \in Call \cup {None}
    BY <1>0, <1>5 DEF GoesNow, WindowBegins, Rereads, FlagsTypeOK
  <2> QED
    BY <1>0, <2>1, <2>2, <2>3, <2>4, <2>5, GateUnchanged, SessionUnchanged, RadioUnchanged
       DEF Rereads, FlagsTypeOK
<1>6. CASE DroppedBeforeKeying(c)
  <2>1. PcTypeOK'
    BY <1>0, <1>6, GoTypeOK DEF DroppedBeforeKeying, Places
  <2>2. busy' \in BOOLEAN /\ keyed' \in BOOLEAN /\ cancelled' \in BOOLEAN /\ watchdog' \in BOOLEAN
    BY <1>0, <1>6, Zenon DEF DroppedBeforeKeying, FlagsTypeOK
  <2> QED
    BY <1>0, <1>6, <2>1, <2>2, GateUnchanged, LocalsUnchanged, SessionUnchanged, RadioUnchanged
       DEF DroppedBeforeKeying, FlagsTypeOK
<1>7. CASE Keys(c)
  <2>1. PcTypeOK'
    BY <1>0, <1>7, GoTypeOK DEF Keys, Places
  <2>2. busy' \in BOOLEAN /\ keyed' \in BOOLEAN /\ cancelled' \in BOOLEAN /\ watchdog' \in BOOLEAN
    BY <1>0, <1>7, Zenon DEF Keys, FlagsTypeOK
  <2>3. LocalsTypeOK'
    BY <1>0, <1>7, IcomAssumption DEF Keys, LocalsTypeOK
  <2>4. RadioTypeOK'
    BY <1>0, <1>7, AppendProperties DEF Keys, RadioTypeOK
  <2> QED
    BY <1>0, <1>7, <2>1, <2>2, <2>3, <2>4, GateUnchanged, SessionUnchanged
       DEF Keys, FlagsTypeOK
<1>8. CASE KeysInVain(c) \/ StreamEnds(c)
  <2>1. FlagsTypeOK' /\ PcTypeOK' /\ RadioTypeOK'
    BY <1>8, UnkeyTypeOK DEF TypeInv, KeysInVain, StreamEnds, Places
  <2> QED
    BY <1>0, <1>8, <2>1, GateUnchanged, LocalsUnchanged, SessionUnchanged
       DEF KeysInVain, StreamEnds
<1>9. CASE SendChunk(c)
  <2>1. LocalsTypeOK'
    BY <1>0, <1>9, IcomAssumption DEF SendChunk, LocalsTypeOK
  <2> QED
    BY <1>0, <1>9, <2>1, GateUnchanged, FlagsUnchanged, SessionUnchanged, RadioUnchanged
       DEF SendChunk, PcTypeOK
<1> QED
  BY <1>1, <1>2, <1>3, <1>4, <1>5, <1>6, <1>7, <1>8, <1>9 DEF CallStep

LEMMA StopTypeOK ==
  ASSUME TypeOK, NEW s \in Stop, StopStep(s)
  PROVE  TypeOK' /\ UNCHANGED sessionVars
<1>0. /\ GateTypeOK /\ FlagsTypeOK /\ PcTypeOK
      /\ LocalsTypeOK /\ SessionTypeOK /\ RadioTypeOK
  BY TypeOKParts
<1> SUFFICES /\ GateTypeOK' /\ FlagsTypeOK' /\ PcTypeOK'
             /\ LocalsTypeOK' /\ SessionTypeOK' /\ RadioTypeOK'
             /\ UNCHANGED sessionVars
  BY DEF TypeOK, FlagsTypeOK, PcTypeOK, LocalsTypeOK, SessionTypeOK, RadioTypeOK
<1>1. ASSUME NEW place \in Places, StopsBy(s, place)
      PROVE  /\ FlagsTypeOK' /\ PcTypeOK' /\ RadioTypeOK'
             /\ LocalsTypeOK' /\ SessionTypeOK' /\ UNCHANGED sessionVars
  <2>1. FlagsTypeOK' /\ PcTypeOK' /\ RadioTypeOK'
    BY <1>0, <1>1, UnkeyTypeOK, GoTypeOK, FlagsUnchanged, RadioUnchanged DEF StopsBy
  <2> QED
    BY <1>0, <1>1, <2>1, LocalsUnchanged, SessionUnchanged DEF StopsBy
<1>2. CASE Halts(s) \/ Disarms(s)
  BY <1>0, <1>1, <1>2, GateUnchanged DEF Halts, Disarms, Places
<1>3. CASE DisarmWritten(s)
  <2>1. PcTypeOK' /\ GateTypeOK'
    BY <1>0, <1>3, GoTypeOK DEF DisarmWritten, Places, WriteAllowTransmit, GateTypeOK
  <2> QED
    BY <1>0, <1>3, <2>1, FlagsUnchanged, LocalsUnchanged, SessionUnchanged, RadioUnchanged
       DEF DisarmWritten
<1>4. CASE TakesVoice(s)
  BY <1>0, <1>1, <1>4 DEF TakesVoice, Places, SetDigitalTransmitHold, GateTypeOK
<1>5. CASE LatchesForExit(s)
  BY <1>0, <1>1, <1>5 DEF LatchesForExit, Places, CloseTransmitGateForExit, GateTypeOK
<1> QED
  BY <1>2, <1>3, <1>4, <1>5 DEF StopStep

LEMMA SessionStepTypeOK ==
  ASSUME TypeOK, AttemptsLeft, SessionStep
  PROVE  TypeOK' /\ AttemptsLeft'
<1>0. /\ GateTypeOK /\ FlagsTypeOK /\ PcTypeOK
      /\ LocalsTypeOK /\ SessionTypeOK /\ RadioTypeOK
  BY TypeOKParts
<1> SUFFICES /\ GateTypeOK' /\ FlagsTypeOK' /\ PcTypeOK'
             /\ LocalsTypeOK' /\ SessionTypeOK' /\ RadioTypeOK' /\ AttemptsLeft'
  BY DEF TypeOK, FlagsTypeOK, PcTypeOK, LocalsTypeOK, SessionTypeOK, RadioTypeOK
<1>1. CASE LoseStreams \/ Released \/ ReadsSilent
  <2>1. streams' \in BOOLEAN
    BY <1>0, <1>1, Zenon DEF LoseStreams, Released, ReadsSilent, SessionTypeOK
  <2> QED
    BY <1>0, <1>1, <2>1, GateUnchanged, FlagsUnchanged, LocalsUnchanged, RadioUnchanged
       DEF LoseStreams, Released, ReadsSilent, PcTypeOK, SessionTypeOK, AttemptsLeft
<1>2. CASE Teardown \/ ReadsKeyed \/ ReadsNothing
  <2>1. FlagsTypeOK' /\ PcTypeOK' /\ RadioTypeOK'
    BY <1>2, UnkeyTypeOK DEF Teardown, ReadsKeyed, ReadsNothing, Places
  <2>2. streams' \in BOOLEAN
    BY <1>0, <1>2, Zenon DEF Teardown, ReadsKeyed, ReadsNothing, SessionTypeOK
  <2>3. SessionTypeOK' /\ AttemptsLeft'
    BY <1>0, <1>2, <2>2, IcomAssumption
       DEF Teardown, ReadsKeyed, ReadsNothing, SessionTypeOK, AttemptsLeft
  <2> QED
    BY <1>0, <1>2, <2>1, <2>3, GateUnchanged, LocalsUnchanged
       DEF Teardown, ReadsKeyed, ReadsNothing
<1>3. CASE Attach
  <2>0. NewSession
    BY <1>3, AttachRenews
  <2>1. busy' \in BOOLEAN /\ keyed' \in BOOLEAN /\ watchdog' \in BOOLEAN /\ streams' \in BOOLEAN
    BY <2>0, Zenon DEF NewSession
  <2>2. FlagsTypeOK'
    <3>1. cancelled' \in BOOLEAN
      BY <1>0, <1>3, Zenon DEF Attach, AttachSeeing, AttachBlind, RadioTypeOK
    <3> QED
      BY <1>0, <2>0, <2>1, <3>1 DEF NewSession, FlagsTypeOK
  <2>3. PcTypeOK'
    BY <1>0, <2>0 DEF NewSession, PcTypeOK, Places
  <2>4. SessionTypeOK' /\ AttemptsLeft'
    BY <1>0, <2>0, <2>1 DEF NewSession, SessionTypeOK, AttemptsLeft
  <2>5. RadioTypeOK'
    <3>1. <<>> \in Seq({"on", "off"}) /\ <<"off">> \in Seq({"on", "off"})
      BY EmptySeq
    <3>2. wire' \in {<<>>, <<"off">>} /\ stray' \in BOOLEAN
      BY <1>0, <1>3, Zenon DEF Attach, AttachSeeing, AttachBlind, RadioTypeOK
    <3>3. radioKeyed' = radioKeyed
      BY <2>0 DEF NewSession
    <3> QED
      BY <1>0, <3>1, <3>2, <3>3 DEF RadioTypeOK
  <2> QED
    BY <1>0, <2>0, <2>2, <2>3, <2>4, <2>5, GateUnchanged, LocalsUnchanged DEF NewSession
<1> QED
  BY <1>1, <1>2, <1>3 DEF SessionStep, Confirms

LEMMA OthersTypeOK ==
  ASSUME TypeOK, WatchdogFires \/ Settings \/ ReleasesVoice \/ RadioObeys \/ RadioMisses
                   \/ UNCHANGED vars
  PROVE  TypeOK' /\ UNCHANGED sessionVars
<1>0. /\ GateTypeOK /\ FlagsTypeOK /\ PcTypeOK
      /\ LocalsTypeOK /\ SessionTypeOK /\ RadioTypeOK
  BY TypeOKParts
<1> SUFFICES /\ GateTypeOK' /\ FlagsTypeOK' /\ PcTypeOK'
             /\ LocalsTypeOK' /\ SessionTypeOK' /\ RadioTypeOK'
             /\ UNCHANGED sessionVars
  BY DEF TypeOK, FlagsTypeOK, PcTypeOK, LocalsTypeOK, SessionTypeOK, RadioTypeOK
<1>1. CASE WatchdogFires
  <2>1. FlagsTypeOK' /\ PcTypeOK' /\ RadioTypeOK'
    BY <1>1, UnkeyTypeOK DEF WatchdogFires, Places
  <2> QED
    BY <1>0, <1>1, <2>1, GateUnchanged, LocalsUnchanged, SessionUnchanged DEF WatchdogFires
<1>2. CASE Settings \/ ReleasesVoice
  <2>1. GateTypeOK'
    BY <1>0, <1>2
       DEF Settings, ReleasesVoice, WriteAllowTransmit, SetDigitalTransmitHold, GateTypeOK
  <2> QED
    BY <1>0, <1>2, <2>1, FlagsUnchanged, LocalsUnchanged, SessionUnchanged, RadioUnchanged
       DEF Settings, ReleasesVoice, PcTypeOK
<1>3. CASE RadioObeys \/ RadioMisses
  <2>1. radioKeyed' \in BOOLEAN /\ stray' \in BOOLEAN
    BY <1>0, <1>3, Zenon DEF RadioObeys, RadioMisses, RadioTypeOK
  <2>2. wire' \in Seq({"on", "off"})
    BY <1>0, <1>3, HeadTailProperties DEF RadioObeys, RadioMisses, RadioTypeOK
  <2> QED
    BY <1>0, <1>3, <2>1, <2>2, GateUnchanged, FlagsUnchanged, LocalsUnchanged, SessionUnchanged
       DEF RadioObeys, RadioMisses, PcTypeOK, RadioTypeOK
<1>4. CASE UNCHANGED vars
  BY <1>0, <1>4, GateUnchanged, FlagsUnchanged, LocalsUnchanged, SessionUnchanged, RadioUnchanged
     DEF vars, PcTypeOK
<1> QED
  BY <1>1, <1>2, <1>3, <1>4

LEMMA NothingSentYetStep ==
  ASSUME TypeInv, [Next]_vars
  PROVE  NothingSentYet'
<1> SUFFICES ASSUME NEW d \in Call, pc'[d] \in Early
             PROVE  pc[d] \in Early /\ sent'[d] = sent[d]
  BY DEF NothingSentYet, TypeInv
<1> USE DEF TypeInv, TypeOK, Early
<1>1. ASSUME NEW c \in Call, CallStep(c) PROVE pc[d] \in Early /\ sent'[d] = sent[d]
  <2>1. CASE Begin(c) \/ ReadSetting(c) \/ Refused(c) \/ Unsendable(c) \/ Waits(c)
    BY <2>1 DEF Begin, ReadSetting, Refused, Unsendable, Waits, Admits, Go, locals
  <2>2. CASE GoesNow(c) \/ WindowBegins(c) \/ DroppedBeforeKeying(c)
    BY <2>2 DEF GoesNow, WindowBegins, Rereads, Admits, DroppedBeforeKeying, Go, locals
  <2>3. CASE Keys(c) \/ SendChunk(c)
    BY <2>3 DEF Keys, SendChunk, Go
  <2>4. CASE KeysInVain(c) \/ StreamEnds(c)
    BY <2>4 DEF KeysInVain, StreamEnds, Unkey, locals
  <2> QED
    BY <1>1, <2>1, <2>2, <2>3, <2>4 DEF CallStep
<1>2. ASSUME NEW s \in Stop, StopStep(s) PROVE pc[d] \in Early /\ sent'[d] = sent[d]
  BY <1>2, Apart DEF StopStep, Halts, Disarms, DisarmWritten, TakesVoice, LatchesForExit, StopsBy,
     Unkey, Go, locals
<1>3. CASE SessionStep
  BY <1>3, AttachRenews DEF SessionStep, LoseStreams, Teardown, Confirms, ReadsSilent, ReadsKeyed,
     ReadsNothing, Released, NewSession, Unkey, locals
<1>4. CASE WatchdogFires \/ Settings \/ ReleasesVoice \/ RadioObeys \/ RadioMisses \/ UNCHANGED vars
  BY <1>4 DEF WatchdogFires, Settings, ReleasesVoice, RadioObeys, RadioMisses, Unkey, vars, locals
<1> QED
  BY <1>1, <1>2, <1>3, <1>4 DEF Next

LEMMA TypeInvStep == TypeInv /\ [Next]_vars => TypeInv'
<1> SUFFICES ASSUME TypeInv, [Next]_vars PROVE TypeInv'
  OBVIOUS
<1>1. NothingSentYet'
  BY NothingSentYetStep
<1>2. CASE SessionStep
  BY <1>1, <1>2, SessionStepTypeOK DEF TypeInv
<1>3. CASE ~SessionStep
  <2>1. TypeOK' /\ UNCHANGED sessionVars
    BY <1>3, CallTypeOK, StopTypeOK, OthersTypeOK DEF TypeInv, Next
  <2> QED
    BY <1>1, <2>1 DEF TypeInv, AttemptsLeft, sessionVars
<1> QED
  BY <1>2, <1>3

LEMMA TypeInvariant == Spec => []TypeInv
  BY InitTypeInv, TypeInvStep, PTL DEF Spec

\* Every variable keeps its type, no call sends more chunks than its waveform
\* has (the send loop of transmit in lib/icom/transmitter.ts), and stop() repeats
\* its unkey at most three times (services/radio/icom-source.ts).
THEOREM TypeCorrect == Spec => []TypeOK
<1>1. TypeInv => TypeOK
  BY DEF TypeInv
<1> QED
  BY <1>1, TypeInvariant, PTL

---------------------------------------------------------------------------
(* One holder.  OneHolder is inductive over the types: `busy`, `wakePending`*)
(* and `keyed` each say something of the holder, so that whoever lets go   *)
(* leaves nobody, and a stop ends exactly the one who waits.               *)

HolderInv == TypeOK /\ OneHolder

LEMMA OneHolderInit == Init => OneHolder
  BY Apart DEF Init, OneHolder, Owners, Owning

\* Whoever holds it is the only one, and keyed only while streaming.
LEMMA HolderIs ==
  ASSUME HolderInv, NEW c \in Owners
  PROVE  /\ Owners = {c}
         /\ wakePending \in {None, c}
         /\ pc[c] # "window" => wakePending = None
         /\ pc[c] # "streaming" => ~keyed
  BY DEF HolderInv, TypeOK, OneHolder, Owners, Owning

\* unkey() ends whoever waits and whoever called it, and nobody else.
LEMMA UnkeyHolder ==
  ASSUME HolderInv, NEW moved, NEW place, Unkey(moved, place),
         moved \cap Call # {} => place \notin Owning
  PROVE  OneHolder'
<1>1. \A c \in Call : pc'[c] = IF c \in moved THEN place
                               ELSE IF c \in Waiting THEN "refused" ELSE pc[c]
  BY DEF Unkey, HolderInv, TypeOK
<1>2. Owners' = Owners \ (moved \cup Waiting)
  BY <1>1 DEF Owners, Owning
<1>3. busy' <=> Owners' # {}
  <2>1. busy' <=> busy /\ (moved \cup Waiting) \cap Owners = {}
    BY Zenon DEF Unkey
  <2>2. \A c, d \in Owners : c = d
    BY DEF HolderInv, OneHolder
  <2>3. busy <=> Owners # {}
    BY DEF HolderInv, OneHolder
  <2> QED
    BY <1>2, <2>1, <2>2, <2>3
<1>4. wakePending' = None /\ ~keyed'
  BY Zenon DEF Unkey
<1> QED
  BY <1>2, <1>3, <1>4 DEF HolderInv, OneHolder

\* A call that takes the transmitter, when nobody holds it.
LEMMA TakesHolder ==
  ASSUME HolderInv, NEW c \in Call, ~busy, NEW place \in Owning, Go(c, place),
         busy' = TRUE, keyed' = keyed,
         wakePending' = wakePending \/ (wakePending' = c /\ place = "window")
  PROVE  OneHolder'
<1>1. Owners = {} /\ wakePending = None /\ ~keyed
  BY DEF HolderInv, OneHolder, Owners, Owning, TypeOK
<1>2. \A d \in Call : pc'[d] = IF d = c THEN place ELSE pc[d]
  BY DEF Go, HolderInv, TypeOK
<1>3. Owners' = {c}
  BY <1>1, <1>2 DEF Owners
<1>4. ~keyed'
  BY <1>1, Zenon
<1> QED
  BY <1>1, <1>2, <1>3, <1>4 DEF OneHolder

\* The holder moves on, and nobody else does.
LEMMA HolderMoves ==
  ASSUME HolderInv, NEW c \in Owners, NEW place \in Owning, Go(c, place),
         busy' = busy, wakePending' = None,
         keyed' => place = "streaming"
  PROVE  OneHolder'
<1>1. pc' = [pc EXCEPT ![c] = place] /\ pc'[c] = place
  BY DEF Go, Owners, HolderInv, TypeOK
<1>2. Owners' = Owners
  BY <1>1 DEF Owners, HolderInv, TypeOK
<1> QED
  BY <1>1, <1>2 DEF HolderInv, OneHolder, Owners

\* Somebody who holds nothing moves to where nothing is held.
LEMMA OutsiderMoves ==
  ASSUME HolderInv, NEW x \in Call \cup Stop, NEW place, Go(x, place),
         x \in Call => pc[x] \notin Owning /\ place \notin Owning,
         busy' = busy, wakePending' = wakePending, keyed' = keyed
  PROVE  OneHolder'
<1>1. \A d \in Call : pc[d] \in Owning => pc'[d] = pc[d]
  BY Apart DEF Go, HolderInv, TypeOK
<1>2. Owners' = Owners
  BY <1>1, Apart DEF Owners, Go, HolderInv, TypeOK
<1>3. \A d \in Call : pc[d] \in {"window", "streaming"} => pc'[d] = pc[d]
  BY <1>1 DEF Owning
<1>4. wakePending # None => wakePending \in Call
  BY DEF HolderInv, TypeOK
<1>5. keyed' => \E c \in Call : pc[c] = "streaming"
  BY Zenon DEF HolderInv, OneHolder
<1>6. keyed' => \E c \in Call : pc'[c] = "streaming"
  BY <1>3, <1>5
<1> QED
  BY <1>2, <1>3, <1>4, <1>6 DEF HolderInv, OneHolder

LEMMA SameHolder ==
  ASSUME HolderInv, UNCHANGED <<busy, keyed, wakePending, pc>>
  PROVE  OneHolder'
<1>1. Owners' = Owners
  BY DEF Owners
<1> QED
  BY <1>1 DEF HolderInv, OneHolder

LEMMA CallHolder ==
  ASSUME HolderInv, NEW c \in Call, CallStep(c)
  PROVE  OneHolder'
<1>o. pc[c] \in Owning <=> c \in Owners
  BY DEF Owners
<1>1. CASE Begin(c) \/ Refused(c) \/ Unsendable(c)
  BY <1>1, OutsiderMoves DEF Begin, Refused, Unsendable, Admits, Owning, flags
<1>2. CASE ReadSetting(c) \/ SendChunk(c)
  BY <1>2, SameHolder DEF ReadSetting, SendChunk, flags
<1>3. CASE Waits(c)
  BY <1>3, TakesHolder DEF Waits, Admits, Owning
<1>4. CASE GoesNow(c)
  BY <1>4, TakesHolder DEF GoesNow, Admits, Rereads, Owning
<1>5. CASE WindowBegins(c)
  <2>1. c \in Owners /\ pc[c] = "window"
    BY <1>5, <1>o DEF WindowBegins, Owning
  <2>2. keyed' = keyed /\ busy' = busy /\ wakePending' = None /\ Go(c, "regate")
    BY <1>5, Zenon DEF WindowBegins, Rereads
  <2>3. ~keyed'
    BY <2>1, <2>2, HolderIs, Zenon
  <2> QED
    BY <2>1, <2>2, <2>3, HolderMoves DEF Owning
<1>6. CASE DroppedBeforeKeying(c)
  <2>1. c \in Owners /\ pc[c] = "regate"
    BY <1>6, <1>o DEF DroppedBeforeKeying, Owning
  <2>2. Owners = {c} /\ wakePending = None /\ ~keyed
    BY <2>1, HolderIs
  <2>3. \A d \in Call : pc'[d] = IF d = c THEN "refused" ELSE pc[d]
    BY <1>6 DEF DroppedBeforeKeying, Go, HolderInv, TypeOK
  <2>4. Owners' = {}
    BY <2>2, <2>3 DEF Owners, Owning
  <2>5. ~busy' /\ wakePending' = None /\ ~keyed'
    BY <1>6, <2>2, Zenon DEF DroppedBeforeKeying
  <2> QED
    BY <2>4, <2>5 DEF OneHolder
<1>7. CASE Keys(c)
  <2>1. c \in Owners /\ pc[c] = "regate"
    BY <1>7, <1>o DEF Keys, Owning
  <2>2. wakePending = None
    BY <2>1, HolderIs
  <2> QED
    BY <1>7, <2>1, <2>2, HolderMoves DEF Keys, Owning
<1>8. CASE KeysInVain(c) \/ StreamEnds(c)
  BY <1>8, UnkeyHolder DEF KeysInVain, StreamEnds, Owning
<1> QED
  BY <1>1, <1>2, <1>3, <1>4, <1>5, <1>6, <1>7, <1>8 DEF CallStep

LEMMA StopHolder ==
  ASSUME HolderInv, NEW s \in Stop, StopStep(s)
  PROVE  OneHolder'
<1>1. ASSUME NEW place, StopsBy(s, place) PROVE OneHolder'
  <2>1. CASE Unkey({s}, place)
    BY <2>1, Apart, UnkeyHolder
  <2>2. CASE Go(s, place) /\ UNCHANGED flags
    BY <2>2, Apart, OutsiderMoves DEF flags
  <2> QED
    BY <1>1, <2>1, <2>2 DEF StopsBy
<1>2. CASE DisarmWritten(s)
  BY <1>2, Apart, OutsiderMoves DEF DisarmWritten, flags
<1> QED
  BY <1>1, <1>2 DEF StopStep, Halts, Disarms, TakesVoice, LatchesForExit

LEMMA OneHolderStep == HolderInv /\ [Next]_vars => OneHolder'
<1> SUFFICES ASSUME HolderInv, [Next]_vars PROVE OneHolder'
  OBVIOUS
<1>1. CASE WatchdogFires \/ Teardown \/ ReadsKeyed \/ ReadsNothing
  BY <1>1, UnkeyHolder DEF WatchdogFires, Teardown, ReadsKeyed, ReadsNothing
<1>2. CASE Attach
  <2>1. Owners' = {}
    BY <1>2, AttachRenews DEF NewSession, Owners, Owning, HolderInv, TypeOK
  <2>2. ~busy' /\ ~keyed' /\ wakePending' = None
    BY <1>2, AttachRenews, Zenon DEF NewSession
  <2> QED
    BY <2>1, <2>2 DEF OneHolder
<1>3. CASE LoseStreams \/ ReadsSilent \/ Released
  BY <1>3, SameHolder DEF LoseStreams, ReadsSilent, Released, flags
<1>4. CASE Settings \/ ReleasesVoice \/ RadioObeys \/ RadioMisses \/ UNCHANGED vars
  BY <1>4, SameHolder DEF Settings, ReleasesVoice, RadioObeys, RadioMisses, vars, flags
<1> QED
  BY <1>1, <1>2, <1>3, <1>4, CallHolder, StopHolder DEF Next, SessionStep, Confirms

\* At most one call holds a session's transmitter, `busy` says whether one does,
\* only a call in its window can be woken and only a streaming one is keyed
\* (transmit and unkey in lib/icom/transmitter.ts); a rebuild leaves no holder.
THEOREM OneCallHolds == Spec => []OneHolder
<1>1. Init => OneHolder
  BY OneHolderInit
<1>2. TypeInv /\ OneHolder /\ [Next]_vars => OneHolder'
  BY OneHolderStep DEF TypeInv, HolderInv
<1> QED
  BY <1>1, <1>2, TypeInvariant, PTL DEF Spec

---------------------------------------------------------------------------
(* The transmitter is not left keyed.  The last word decides: whatever ends *)
(* a transmission is the last thing sent, so once the radio has taken it    *)
(* all it does what `keyed` says; or it was that word that was lost, or the *)
(* session began without one: then it is stray.                             *)

Strays == radioKeyed => keyed \/ stray

LastWord ==
    streams => IF wire = <<>> THEN Strays ELSE wire[Len(wire)] = "on" => keyed

LEMMA UnkeyLastWord ==
  ASSUME TypeOK, NEW moved, NEW place, Unkey(moved, place), streams' = streams
  PROVE  LastWord'
<1>1. wire' = IF streams THEN Append(wire, "off") ELSE wire
  BY Zenon DEF Unkey
<1>2. CASE streams
  <2>1. wire' = Append(wire, "off")
    BY <1>1, <1>2
  <2>2. wire' # <<>> /\ wire'[Len(wire')] = "off"
    BY <2>1, AppendProperties DEF TypeOK
  <2> QED
    BY <2>2 DEF LastWord
<1>3. CASE ~streams
  BY <1>3 DEF LastWord
<1> QED
  BY <1>2, <1>3

LEMMA SameLastWord ==
  ASSUME LastWord, UNCHANGED <<wire, radioKeyed, stray, keyed>>, streams' => streams
  PROVE  LastWord'
  BY DEF LastWord, Strays

LEMMA CallLastWord ==
  ASSUME TypeOK, LastWord, NEW c \in Call, CallStep(c)
  PROVE  LastWord'
<1>1. CASE Begin(c) \/ ReadSetting(c) \/ Refused(c) \/ Unsendable(c) \/ Waits(c)
  BY <1>1, SameLastWord
     DEF Begin, ReadSetting, Refused, Unsendable, Waits, flags, sessionVars, radioVars
<1>2. CASE GoesNow(c) \/ WindowBegins(c) \/ DroppedBeforeKeying(c) \/ SendChunk(c)
  BY <1>2, SameLastWord
     DEF GoesNow, WindowBegins, Rereads, DroppedBeforeKeying, SendChunk, flags, sessionVars, radioVars
<1>3. CASE Keys(c)
  <2>1. keyed' = TRUE
    BY <1>3, Zenon DEF Keys
  <2>2. wire' # <<>>
    BY <1>3, AppendProperties DEF Keys, TypeOK
  <2> QED
    BY <2>1, <2>2 DEF LastWord
<1>4. CASE KeysInVain(c) \/ StreamEnds(c)
  BY <1>4, UnkeyLastWord DEF KeysInVain, StreamEnds, sessionVars
<1> QED
  BY <1>1, <1>2, <1>3, <1>4 DEF CallStep

LEMMA StopLastWord ==
  ASSUME TypeOK, LastWord, NEW s \in Stop, StopStep(s)
  PROVE  LastWord'
<1>1. ASSUME NEW place, StopsBy(s, place) PROVE LastWord'
  BY <1>1, UnkeyLastWord, SameLastWord DEF StopsBy, flags, sessionVars, radioVars
<1>2. CASE DisarmWritten(s)
  BY <1>2, SameLastWord DEF DisarmWritten, flags, sessionVars, radioVars
<1> QED
  BY <1>1, <1>2 DEF StopStep, Halts, Disarms, TakesVoice, LatchesForExit

\* The radio takes what was sent, or misses it, in the order it was sent.
LEMMA RadioLastWord ==
  ASSUME TypeOK, LastWord, RadioObeys \/ RadioMisses
  PROVE  LastWord'
<1> SUFFICES ASSUME streams' PROVE IF wire' = <<>> THEN Strays'
                                   ELSE wire'[Len(wire')] = "on" => keyed'
  BY DEF LastWord
<1>1. wire # <<>> /\ wire \in Seq({"on", "off"}) /\ wire' = Tail(wire)
      /\ keyed' = keyed /\ streams
  BY DEF RadioObeys, RadioMisses, TypeOK, flags, sessionVars
<1>2. wire[Len(wire)] = "on" => keyed
  BY <1>1 DEF LastWord
<1>3. Len(wire) \in Nat /\ Len(wire) > 0
  BY <1>1
<1>4. CASE Len(wire) = 1
  <2>1. Head(wire) = "on" \/ Head(wire) = "off"
    BY <1>1
  <2>2. wire' = <<>>
    BY <1>1, <1>4
  <2>3. Head(wire) = "on" => keyed'
    BY <1>1, <1>2, <1>4
  <2>4. radioKeyed' => Head(wire) = "on" \/ stray'
    BY <2>1, Zenon DEF RadioObeys, RadioMisses
  <2> QED
    BY <2>2, <2>3, <2>4 DEF Strays
<1>5. CASE Len(wire) > 1
  <2>1. Len(wire') = Len(wire) - 1 /\ wire'[Len(wire')] = wire[Len(wire)]
    BY <1>1, <1>3, <1>5
  <2>2. wire' # <<>>
    BY <1>3, <1>5, <2>1
  <2>3. wire'[Len(wire')] = "on" => keyed'
    BY <1>1, <1>2, <2>1
  <2> QED
    BY <2>2, <2>3
<1>6. Len(wire) = 1 \/ Len(wire) > 1
  <2>1. PICK n \in Nat : n = Len(wire) /\ n > 0
    BY <1>3
  <2>2. n = 1 \/ n > 1
    BY <2>1
  <2> QED
    BY <2>1, <2>2, Zenon
<1> QED
  BY <1>4, <1>5, <1>6, Zenon

LEMMA LastWordStep ==
  ASSUME TypeOK, LastWord, [Next]_vars
  PROVE  LastWord'
<1>1. CASE WatchdogFires \/ Teardown \/ ReadsKeyed \/ ReadsNothing
  BY <1>1, UnkeyLastWord DEF WatchdogFires, Teardown, ReadsKeyed, ReadsNothing, sessionVars
<1>2. CASE Attach
  <2>1. radioKeyed' = radioKeyed /\ radioKeyed \in BOOLEAN
    BY <1>2, AttachRenews DEF NewSession, TypeOK
  <2>2. CASE AttachSeeing /\ radioKeyed
    <3>1. wire' = <<"off">>
      BY <2>2, Zenon DEF AttachSeeing
    <3> QED
      BY <3>1 DEF LastWord
  <2>3. CASE AttachSeeing /\ ~radioKeyed
    <3>1. wire' = <<>>
      BY <2>3, Zenon DEF AttachSeeing
    <3> QED
      BY <2>1, <2>3, <3>1 DEF LastWord, Strays
  <2>4. CASE AttachBlind
    <3>1. wire' = <<>> /\ stray' = radioKeyed
      BY <2>4 DEF AttachBlind
    <3> QED
      BY <2>1, <3>1 DEF LastWord, Strays
  <2> QED
    BY <1>2, <2>2, <2>3, <2>4 DEF Attach
<1>3. CASE LoseStreams \/ ReadsSilent \/ Released
  BY <1>3, SameLastWord DEF LoseStreams, ReadsSilent, Released, flags, radioVars
<1>4. CASE Settings \/ ReleasesVoice \/ UNCHANGED vars
  <2>1. UNCHANGED <<wire, radioKeyed, stray, keyed, streams>>
    BY <1>4 DEF Settings, ReleasesVoice, vars, flags, sessionVars, radioVars
  <2>2. streams' => streams
    BY <2>1, Zenon
  <2> QED
    BY <2>1, <2>2, SameLastWord
<1> QED
  BY <1>1, <1>2, <1>3, <1>4, CallLastWord, StopLastWord, RadioLastWord
     DEF Next, SessionStep, Confirms

\* Over a link that may lose any command, and sessions whose preflight may go
\* unanswered: a radio that has nothing more to take transmits only while a call
\* streams to it, unless its PTT-off was lost or this session took it over unseen
\* (unkey in lib/icom/transmitter.ts, preflight of rig.ts and its use by the attach).
THEOREM SilentUnlessKeyed == Spec => []NeverLeftKeyed
<1>1. Init => LastWord
  BY DEF Init, LastWord, Strays
<1>2. TypeInv /\ LastWord /\ [Next]_vars => LastWord'
  BY LastWordStep DEF TypeInv
<1>3. LastWord => NeverLeftKeyed
  BY DEF LastWord, Strays, NeverLeftKeyed
<1> QED
  BY <1>1, <1>2, <1>3, TypeInvariant, PTL DEF Spec

---------------------------------------------------------------------------
(* The gate.  A stop that shuts it while the session is live unkeys, and so *)
(* overtakes every call there is; one that shuts it while the session is    *)
(* torn down reaches no transmitter, but the attach that follows counts as  *)
(* a stop too.  Either way every call that could still key is overtaken, or *)
(* has read a gate that says no.                                            *)

\* c may not key: it is past keying, overtaken by a stop, or refused by the gate.
Barred(c) ==
    pc[c] \in {"gate", "window", "regate"} /\ stopsAtStart[c] = stopGen
        => pc[c] = "gate" /\ reading[c] = "off"

StopsCount == \A c \in Call : stopsAtStart[c] <= stopGen

ExitLatches ==
    \A s \in Stop :
        kind[s] = "restart" /\ pc[s] # "idle" => exitLatched /\ pc[s] # "writing"

GateInv ==
    /\ StopsCount
    /\ ExitLatches
    /\ session = "live" /\ Shut => \A c \in Call : Barred(c)

LEMMA GateInvInit == Init => GateInv
<1> SUFFICES ASSUME Init PROVE GateInv
  OBVIOUS
<1>1. \A x \in Call \cup Stop : pc[x] = "idle"
  BY DEF Init
<1>2. StopsCount
  BY DEF StopsCount, Init
<1> QED
  BY <1>1, <1>2 DEF GateInv, ExitLatches, Barred

LEMMA ShutClosesGate == GateInv /\ Shut => ReadingStarts = "off"
  BY DEF GateInv, ExitLatches, Shut, ReadingStarts

\* Every step but a call's leaves the calls' own variables alone.
Others == \/ \E s \in Stop : StopStep(s)
          \/ WatchdogFires \/ Settings \/ ReleasesVoice
          \/ SessionStep \/ RadioObeys \/ RadioMisses \/ UNCHANGED vars

LEMMA CallStops ==
  ASSUME NEW c \in Call, CallStep(c)
  PROVE  /\ stopGen' \in {stopGen, stopGen + 1}
         /\ stopsAtStart' = stopsAtStart
              \/ (Begin(c) /\ stopsAtStart' = [stopsAtStart EXCEPT ![c] = stopGen])
<1>1. CASE Begin(c) \/ ReadSetting(c) \/ Refused(c) \/ Unsendable(c) \/ Waits(c)
  BY <1>1 DEF Begin, ReadSetting, Refused, Unsendable, Waits, flags, locals
<1>2. CASE GoesNow(c) \/ WindowBegins(c) \/ DroppedBeforeKeying(c) \/ Keys(c) \/ SendChunk(c)
  BY <1>2 DEF GoesNow, WindowBegins, Rereads, DroppedBeforeKeying, Keys, SendChunk, flags, locals
<1>3. CASE KeysInVain(c) \/ StreamEnds(c)
  BY <1>3 DEF KeysInVain, StreamEnds, Unkey, locals
<1> QED
  BY <1>1, <1>2, <1>3 DEF CallStep

LEMMA StopStops ==
  ASSUME NEW s \in Stop, StopStep(s)
  PROVE  UNCHANGED <<locals, session>> /\ stopGen' \in {stopGen, stopGen + 1}
<1>1. ASSUME NEW place, StopsBy(s, place)
      PROVE  UNCHANGED <<locals, session>> /\ stopGen' \in {stopGen, stopGen + 1}
  BY <1>1 DEF StopsBy, Unkey, flags, sessionVars
<1>2. CASE DisarmWritten(s)
  BY <1>2 DEF DisarmWritten, flags, sessionVars
<1> QED
  BY <1>1, <1>2 DEF StopStep, Halts, Disarms, TakesVoice, LatchesForExit

LEMMA OthersStops ==
  ASSUME Others
  PROVE  UNCHANGED locals /\ stopGen' \in {stopGen, stopGen + 1}
<1>1. CASE WatchdogFires \/ Teardown \/ ReadsKeyed \/ ReadsNothing
  BY <1>1 DEF WatchdogFires, Teardown, ReadsKeyed, ReadsNothing, Unkey
<1>2. CASE Settings \/ ReleasesVoice \/ RadioObeys \/ RadioMisses \/ UNCHANGED vars
  BY <1>2 DEF Settings, ReleasesVoice, RadioObeys, RadioMisses, vars, flags
<1>3. CASE LoseStreams \/ ReadsSilent \/ Released \/ Attach
  BY <1>3, AttachRenews DEF LoseStreams, ReadsSilent, Released, NewSession, flags, locals
<1> QED
  BY <1>1, <1>2, <1>3, StopStops DEF Others, SessionStep, Confirms

LEMMA StopsCountStep ==
  ASSUME TypeOK, StopsCount, [Next]_vars
  PROVE  StopsCount'
<1>1. ASSUME NEW c \in Call, CallStep(c) PROVE StopsCount'
  <2>1. \A d \in Call : stopsAtStart[d] \in Nat /\ stopsAtStart[d] <= stopGen
    BY DEF StopsCount, TypeOK
  <2>2. stopGen \in Nat /\ stopGen' \in {stopGen, stopGen + 1}
    BY <1>1, CallStops DEF TypeOK
  <2>3. \A d \in Call : stopsAtStart'[d] \in {stopsAtStart[d], stopGen}
    BY <1>1, CallStops DEF TypeOK
  <2> QED
    BY <2>1, <2>2, <2>3 DEF StopsCount
<1>2. CASE Others
  BY <1>2, OthersStops DEF StopsCount, TypeOK, locals
<1> QED
  BY <1>1, <1>2 DEF Next, Others

---------------------------------------------------------------------------
(* The gate, the kinds and the stops themselves. *)

LEMMA CallLeavesStops ==
  ASSUME TypeOK, NEW c \in Call, CallStep(c)
  PROVE  UNCHANGED <<gateVars, kind, session>> /\ \A s \in Stop : pc'[s] = pc[s]
<1>0. \A s \in Stop : s # c /\ s \notin Waiting
  BY Apart DEF Waiting
<1> USE <1>0 DEF TypeOK
<1>1. CASE Begin(c) \/ ReadSetting(c) \/ Refused(c) \/ Unsendable(c) \/ Waits(c)
  BY <1>1 DEF Begin, ReadSetting, Refused, Unsendable, Waits, Go, locals, sessionVars
<1>2. CASE GoesNow(c) \/ WindowBegins(c) \/ DroppedBeforeKeying(c)
  BY <1>2 DEF GoesNow, WindowBegins, Rereads, DroppedBeforeKeying, Go, locals, sessionVars
<1>3. CASE Keys(c) \/ SendChunk(c)
  BY <1>3 DEF Keys, SendChunk, Go, sessionVars
<1>4. CASE KeysInVain(c) \/ StreamEnds(c)
  BY <1>4 DEF KeysInVain, StreamEnds, Unkey, locals, sessionVars
<1> QED
  BY <1>1, <1>2, <1>3, <1>4 DEF CallStep

\* A stop moves only itself, and latches the gate if it is for exit.
LEMMA StopAlone ==
  ASSUME TypeOK, NEW s \in Stop, StopStep(s)
  PROVE  /\ \A t \in Stop \ {s} : pc'[t] = pc[t]
         /\ exitLatched' = exitLatched \/ (LatchesForExit(s) /\ exitLatched' = TRUE)
         /\ digitalHold' = digitalHold \/ TakesVoice(s)
         /\ pc[s] = "idle" => LatchesForExit(s) \/ kind[s] # "restart"
         /\ pc[s] # "idle" => pc[s] = "writing"
         /\ pc'[s] = "writing" => kind[s] = "disarm"
<1>1. ASSUME NEW place, StopsBy(s, place)
      PROVE  (\A t \in Stop \ {s} : pc'[t] = pc[t]) /\ pc'[s] = place
  BY <1>1, Apart DEF StopsBy, Unkey, Waiting, Go, TypeOK
<1>2. CASE Halts(s) \/ Disarms(s)
  BY <1>1, <1>2 DEF Halts, Disarms, gateVars
<1>3. CASE DisarmWritten(s)
  BY <1>3 DEF DisarmWritten, WriteAllowTransmit, Go, TypeOK
<1>4. CASE TakesVoice(s)
  <2>1. (\A t \in Stop \ {s} : pc'[t] = pc[t]) /\ pc'[s] = "done"
    BY <1>1, <1>4 DEF TakesVoice
  <2>2. exitLatched' = exitLatched /\ pc[s] = "idle" /\ kind[s] = "voice"
    BY <1>4 DEF TakesVoice, SetDigitalTransmitHold
  <2> QED
    BY <1>4, <2>1, <2>2
<1>5. CASE LatchesForExit(s)
  <2>1. (\A t \in Stop \ {s} : pc'[t] = pc[t]) /\ pc'[s] = "done"
    BY <1>1, <1>5 DEF LatchesForExit
  <2>2. exitLatched' = TRUE /\ digitalHold' = digitalHold /\ pc[s] = "idle"
    BY <1>5, Zenon DEF LatchesForExit, CloseTransmitGateForExit
  <2> QED
    BY <1>5, <2>1, <2>2
<1> QED
  BY <1>2, <1>3, <1>4, <1>5 DEF StopStep

\* What neither a call nor a stop does moves no stop and leaves the latch.
LEMMA RestLeavesStops ==
  ASSUME TypeOK, Others, \A s \in Stop : ~StopStep(s)
  PROVE  /\ exitLatched' = exitLatched
         /\ digitalHold' = digitalHold \/ digitalHold' = FALSE
         /\ \A s \in Stop : pc'[s] = pc[s] \/ (pc[s] \in Owning /\ pc'[s] = "refused")
<1>0. \A s \in Stop : s \notin Waiting
  BY Apart DEF Waiting
<1>1. CASE WatchdogFires \/ Teardown \/ ReadsKeyed \/ ReadsNothing
  BY <1>0, <1>1 DEF WatchdogFires, Teardown, ReadsKeyed, ReadsNothing, Unkey, gateVars, TypeOK
<1>2. CASE Settings \/ ReleasesVoice \/ RadioObeys \/ RadioMisses \/ UNCHANGED vars
  BY <1>2 DEF Settings, ReleasesVoice, RadioObeys, RadioMisses, vars, gateVars,
     WriteAllowTransmit, SetDigitalTransmitHold
<1>3. CASE LoseStreams \/ ReadsSilent \/ Released \/ Attach
  BY <1>3, AttachRenews DEF LoseStreams, ReadsSilent, Released, NewSession, gateVars, Owning, TypeOK
<1> QED
  BY <1>1, <1>2, <1>3 DEF Others, SessionStep, Confirms

LEMMA ExitLatchesStep ==
  ASSUME TypeOK, ExitLatches, [Next]_vars
  PROVE  ExitLatches'
<1>1. ASSUME NEW c \in Call, CallStep(c) PROVE ExitLatches'
  BY <1>1, CallLeavesStops DEF ExitLatches, gateVars
<1>2. ASSUME NEW s \in Stop, StopStep(s) PROVE ExitLatches'
  <2> SUFFICES ASSUME NEW t \in Stop, kind'[t] = "restart", pc'[t] # "idle"
               PROVE  exitLatched' /\ pc'[t] # "writing"
    BY DEF ExitLatches
  <2>1. kind[t] = "restart"
    BY <1>2, StopStops DEF locals
  <2>2. exitLatched => exitLatched'
    BY <1>2, StopAlone, Zenon
  <2>3. CASE t # s
    BY <1>2, <2>1, <2>2, <2>3, StopAlone DEF ExitLatches
  <2>4. CASE t = s
    <3>1. pc'[t] # "writing"
      BY <1>2, <2>1, <2>4, StopAlone
    <3>2. CASE pc[s] = "idle"
      <4>1. exitLatched' = TRUE
        BY <1>2, <2>1, <2>4, <3>2, StopAlone, Zenon DEF LatchesForExit, CloseTransmitGateForExit
      <4> QED
        BY <3>1, <4>1
    <3>3. CASE pc[s] # "idle"
      BY <2>1, <2>2, <2>4, <3>1, <3>3 DEF ExitLatches
    <3> QED
      BY <3>2, <3>3
  <2> QED
    BY <2>3, <2>4
<1>3. CASE Others /\ \A s \in Stop : ~StopStep(s)
  <2>1. kind' = kind
    BY <1>3, OthersStops DEF locals
  <2>2. exitLatched => exitLatched'
    BY <1>3, RestLeavesStops, Zenon
  <2>3. \A s \in Stop : pc'[s] = pc[s] \/ (pc[s] # "idle" /\ pc'[s] = "refused")
    BY <1>3, RestLeavesStops DEF Owning
  <2> QED
    BY <2>1, <2>2, <2>3 DEF ExitLatches
<1> QED
  BY <1>1, <1>2, <1>3 DEF Next, Others

---------------------------------------------------------------------------
(* Shut bars every call. *)

\* A stop overtakes every call there is.
LEMMA StopBarsAll ==
  ASSUME TypeOK, StopsCount, stopGen' = stopGen + 1, stopsAtStart' = stopsAtStart
  PROVE  \A c \in Call : Barred(c)'
  BY DEF TypeOK, StopsCount, Barred

\* A barred call stays barred unless it moves, begins, or has its gate read.
LEMMA StaysBarred ==
  ASSUME TypeOK, StopsCount, NEW d \in Call, Barred(d),
         stopGen' \in {stopGen, stopGen + 1}, stopsAtStart'[d] = stopsAtStart[d],
         pc'[d] = pc[d] \/ pc'[d] \notin {"gate", "window", "regate"},
         reading'[d] = reading[d]
  PROVE  Barred(d)'
<1>1. stopsAtStart[d] \in Nat /\ stopGen \in Nat /\ stopsAtStart[d] <= stopGen
  BY DEF TypeOK, StopsCount
<1>2. stopsAtStart'[d] = stopGen' => stopsAtStart[d] = stopGen
  BY <1>1
<1>3. CASE pc'[d] = pc[d]
  BY <1>2, <1>3 DEF Barred
<1>4. CASE pc'[d] \notin {"gate", "window", "regate"}
  BY <1>4 DEF Barred
<1> QED
  BY <1>3, <1>4

LEMMA CallsStayBarred ==
  ASSUME TypeOK, GateInv, session = "live", Shut, NEW c \in Call, CallStep(c)
  PROVE  \A d \in Call : Barred(d)'
<1> SUFFICES ASSUME NEW d \in Call PROVE Barred(d)'
  OBVIOUS
<1>0. StopsCount /\ Barred(d) /\ Barred(c) /\ stopGen' \in {stopGen, stopGen + 1}
  BY CallStops DEF GateInv
<1> USE DEF TypeOK
<1>1. CASE Begin(c)
  <2>1. reading'[c] = "off" /\ pc'[c] = "gate"
    BY <1>1, ShutClosesGate DEF Begin, Go
  <2>2. CASE d = c
    BY <2>1, <2>2 DEF Barred
  <2>3. CASE d # c
    BY <1>0, <1>1, <2>3, StaysBarred DEF Begin, Go
  <2> QED
    BY <2>2, <2>3
<1>2. CASE ReadSetting(c)
  <2>1. CASE d = c
    <3>1. stopsAtStart[c] # stopGen
      BY <1>0, <1>2 DEF ReadSetting, Barred
    <3> QED
      BY <1>2, <2>1, <3>1 DEF ReadSetting, Barred, flags
  <2>2. CASE d # c
    BY <1>0, <1>2, <2>2, StaysBarred DEF ReadSetting
  <2> QED
    BY <2>1, <2>2
<1>3. CASE Refused(c) \/ DroppedBeforeKeying(c) \/ Keys(c) \/ SendChunk(c)
  BY <1>0, <1>3, StaysBarred DEF Refused, DroppedBeforeKeying, Keys, SendChunk, Go, locals
<1>4. CASE Unsendable(c) \/ Waits(c) \/ GoesNow(c)
  BY <1>0, <1>4 DEF Unsendable, Waits, GoesNow, Admits, Stopped, Barred
<1>5. CASE WindowBegins(c)
  <2>1. stopsAtStart[c] # stopGen
    BY <1>0, <1>5 DEF WindowBegins, Barred
  <2>2. CASE d = c
    BY <1>5, <2>1, <2>2 DEF WindowBegins, Rereads, Barred
  <2>3. CASE d # c
    BY <1>0, <1>5, <2>3, StaysBarred DEF WindowBegins, Rereads, Go
  <2> QED
    BY <2>2, <2>3
<1>6. CASE KeysInVain(c) \/ StreamEnds(c)
  BY <1>0, <1>6, StopBarsAll DEF KeysInVain, StreamEnds, Unkey, locals
<1> QED
  BY <1>1, <1>2, <1>3, <1>4, <1>5, <1>6 DEF CallStep

LEMMA StopsBar ==
  ASSUME TypeOK, GateInv, NEW s \in Stop, StopStep(s), session = "live", Shut'
  PROVE  \A d \in Call : Barred(d)'
<1>0. StopsCount /\ UNCHANGED locals
  BY StopStops DEF GateInv
<1>1. ASSUME NEW place, StopsBy(s, place) PROVE stopGen' = stopGen + 1
  BY <1>1 DEF StopsBy, Unkey
<1>2. CASE Halts(s) \/ Disarms(s) \/ TakesVoice(s) \/ LatchesForExit(s)
  BY <1>0, <1>1, <1>2, StopBarsAll DEF Halts, Disarms, TakesVoice, LatchesForExit, locals
<1>3. CASE DisarmWritten(s)
  <2>1. /\ \A x \in Call \cup Stop : x # s => pc'[x] = pc[x]
        /\ UNCHANGED <<stopGen, digitalHold>>
    BY <1>3 DEF DisarmWritten, Go, WriteAllowTransmit, flags, TypeOK
  <2>2. kind[s] # "restart"
    BY <1>3 DEF DisarmWritten, GateInv, ExitLatches
  <2>3. Shut
    BY <1>0, <2>1, <2>2 DEF Shut, locals
  <2>4. stopGen' \in {stopGen, stopGen + 1}
    BY <2>1
  <2> QED
    BY <1>0, <2>1, <2>3, <2>4, Apart, StaysBarred DEF GateInv, locals
<1> QED
  BY <1>2, <1>3 DEF StopStep

LEMMA RestBars ==
  ASSUME TypeOK, GateInv, Others, \A s \in Stop : ~StopStep(s), session' = "live", Shut'
  PROVE  \A d \in Call : Barred(d)'
<1>0. StopsCount /\ UNCHANGED locals
  BY OthersStops DEF GateInv
<1>1. CASE WatchdogFires \/ Attach
  BY <1>0, <1>1, AttachRenews, StopBarsAll DEF WatchdogFires, Unkey, NewSession, locals
<1>2. CASE ~WatchdogFires /\ ~Attach
  <2>1. session = "live" /\ UNCHANGED <<pc, stopGen>>
    BY <1>2 DEF Others, SessionStep, Confirms, LoseStreams, Teardown, ReadsSilent, ReadsKeyed,
       ReadsNothing, Released, Settings, ReleasesVoice, RadioObeys, RadioMisses, vars, flags,
       sessionVars
  <2>2. digitalHold' => digitalHold
    BY RestLeavesStops, Zenon
  <2>3. Shut
    BY <1>0, <2>1, <2>2 DEF Shut, locals
  <2>4. stopGen' \in {stopGen, stopGen + 1}
    BY <2>1
  <2> QED
    BY <1>0, <2>1, <2>3, <2>4, StaysBarred DEF GateInv, locals
<1> QED
  BY <1>1, <1>2

LEMMA GateInvStep == TypeOK /\ GateInv /\ [Next]_vars => GateInv'
<1> SUFFICES ASSUME TypeOK, GateInv, [Next]_vars PROVE GateInv'
  OBVIOUS
<1>1. StopsCount' /\ ExitLatches'
  BY StopsCountStep, ExitLatchesStep DEF GateInv
<1>2. ASSUME session' = "live", Shut' PROVE \A d \in Call : Barred(d)'
  <2>1. ASSUME NEW c \in Call, CallStep(c) PROVE \A d \in Call : Barred(d)'
    <3>1. Shut /\ session = "live"
      BY <1>2, <2>1, CallLeavesStops DEF Shut, gateVars
    <3> QED
      BY <2>1, <3>1, CallsStayBarred
  <2>2. ASSUME NEW s \in Stop, StopStep(s) PROVE \A d \in Call : Barred(d)'
    BY <1>2, <2>2, StopStops, StopsBar
  <2>3. CASE Others /\ \A s \in Stop : ~StopStep(s)
    BY <1>2, <2>3, RestBars
  <2> QED
    BY <2>1, <2>2, <2>3 DEF Next, Others
<1> QED
  BY <1>1, <1>2 DEF GateInv

\* Only Keys brings a call to stream.
LEMMA OnlyKeysStream ==
  ASSUME TypeOK, [Next]_vars, NEW d \in Call, pc[d] # "streaming", pc'[d] = "streaming"
  PROVE  Keys(d)
<1> USE DEF TypeOK
<1>1. ASSUME NEW c \in Call, CallStep(c) PROVE Keys(d)
  <2>1. CASE Begin(c) \/ ReadSetting(c) \/ Refused(c) \/ Unsendable(c) \/ Waits(c)
    BY <2>1 DEF Begin, ReadSetting, Refused, Unsendable, Waits, Go
  <2>2. CASE GoesNow(c) \/ WindowBegins(c) \/ DroppedBeforeKeying(c) \/ SendChunk(c)
    BY <2>2 DEF GoesNow, WindowBegins, Rereads, DroppedBeforeKeying, SendChunk, Go
  <2>3. CASE KeysInVain(c) \/ StreamEnds(c)
    BY <2>3 DEF KeysInVain, StreamEnds, Unkey
  <2>4. CASE Keys(c)
    <3>1. d = c
      BY <2>4 DEF Keys, Go
    <3> QED
      BY <2>4, <3>1
  <2> QED
    BY <1>1, <2>1, <2>2, <2>3, <2>4 DEF CallStep
<1>2. ASSUME NEW s \in Stop, StopStep(s) PROVE Keys(d)
  BY <1>2, Apart DEF StopStep, Halts, Disarms, DisarmWritten, TakesVoice, LatchesForExit, StopsBy,
     Unkey, Go
<1>3. CASE SessionStep
  BY <1>3, AttachRenews DEF SessionStep, LoseStreams, Teardown, Confirms, ReadsSilent, ReadsKeyed,
     ReadsNothing, Released, NewSession, Unkey
<1>4. CASE WatchdogFires \/ Settings \/ ReleasesVoice \/ RadioObeys \/ RadioMisses \/ UNCHANGED vars
  BY <1>4 DEF WatchdogFires, Settings, ReleasesVoice, RadioObeys, RadioMisses, Unkey, vars
<1> QED
  BY <1>1, <1>2, <1>3, <1>4 DEF Next

\* Once voice mode holds the gate, or the bridge has latched it to restart and
\* unkeyed, no call of a live session keys: not one whose reading of the gate was
\* in flight, nor one left over from the session before (isTransmitArmed, and the
\* checks of stopGen in transmit of lib/icom/transmitter.ts).
THEOREM NothingKeys == Spec => NothingKeysOnceShut
<1>1. Init => GateInv
  BY GateInvInit
<1>2. TypeInv /\ GateInv /\ [Next]_vars => GateInv'
  BY GateInvStep DEF TypeInv
<1>3. TypeInv /\ GateInv /\ [Next]_vars
        => [\A c \in Call : pc[c] # "streaming" /\ pc'[c] = "streaming"
                              => session # "live" \/ ~Shut]_vars
  <2> SUFFICES ASSUME TypeInv, GateInv, [Next]_vars, NEW d \in Call,
                      pc[d] # "streaming", pc'[d] = "streaming", session = "live", Shut
               PROVE  FALSE
    OBVIOUS
  <2>1. Keys(d)
    BY OnlyKeysStream DEF TypeInv
  <2>2. Barred(d)
    BY DEF GateInv
  <2> QED
    BY <2>1, <2>2 DEF Keys, Stopped, Barred
<1> QED
  BY <1>1, <1>2, <1>3, TypeInvariant, PTL DEF Spec, NothingKeysOnceShut

---------------------------------------------------------------------------
(* The promise.  OneHolder says whom a newcomer would have to displace (no- *)
(* body), and StopsCount that a stop overtakes every call that has begun;   *)
(* an attach, which ends whoever still holds the old transmitter, is a stop *)
(* as far as the promise can tell.                                          *)

PromiseInv == TypeOK /\ OneHolder /\ StopsCount

\* What the promise says of c's place.
PlaceName(p) ==
    IF p = "idle" THEN "out"
    ELSE IF p = "gate" THEN "asking"
    ELSE IF p \in {"window", "regate"} THEN "holding"
    ELSE IF p = "streaming" THEN "onAir"
    ELSE "ended"

LEMMA PlaceIs ==
  /\ placeOf = [c \in Call |-> PlaceName(pc[c])]
  /\ placeOf' = [c \in Call |-> PlaceName(pc'[c])]
  BY DEF placeOf, PlaceName

LEMMA PromiseInit == Init => Promise!TrInit
<1> SUFFICES ASSUME Init PROVE Promise!TrInit
  OBVIOUS
<1>1. \A c \in Call : pc[c] = "idle"
  BY DEF Init
<1> QED
  BY <1>1, PlaceIs DEF Promise!TrInit, PlaceName, overtakenOf

LEMMA HoldersAre == Promise!Holders = Owners
  BY PlaceIs DEF Promise!Holders, Promise!At, PlaceName, Owners, Owning

\* Steps the promise does not see.
LEMMA Stutters ==
  ASSUME \A c \in Call : pc'[c] = pc[c], UNCHANGED <<stopGen, stopsAtStart>>
  PROVE  UNCHANGED Promise!trVars
<1>1. placeOf' = placeOf
  BY PlaceIs
<1>2. overtakenOf' = overtakenOf
  BY DEF overtakenOf, Stopped
<1> QED
  BY <1>1, <1>2 DEF Promise!trVars

\* A call goes from one place to another, and nobody else moves.
LEMMA MovesPlace ==
  ASSUME TypeOK, NEW c \in Call, NEW p \in Places, Go(c, p), pc[c] # "idle", p # "idle",
         UNCHANGED <<stopGen, stopsAtStart>>
  PROVE  placeOf' = [placeOf EXCEPT ![c] = PlaceName(p)] /\ overtakenOf' = overtakenOf
<1>1. \A d \in Call : pc'[d] = IF d = c THEN p ELSE pc[d]
  BY DEF Go, TypeOK
<1>2. placeOf' = [placeOf EXCEPT ![c] = PlaceName(p)]
  BY <1>1, PlaceIs
<1>3. overtakenOf' = overtakenOf
  BY <1>1 DEF overtakenOf, Stopped
<1> QED
  BY <1>2, <1>3

\* A call leaves the gate, and displaces nobody.
LEMMA LeavesGate ==
  ASSUME TypeOK, NEW c \in Call, NEW p \in {"window", "regate", "refused"}, Go(c, p),
         pc[c] = "gate", p # "refused" => Owners = {}, UNCHANGED <<stopGen, stopsAtStart>>
  PROVE  Promise!AnswerWith(c, PlaceName(p))
<1>1. placeOf[c] = "asking"
  BY PlaceIs DEF PlaceName
<1>2. placeOf' = [placeOf EXCEPT ![c] = PlaceName(p)] /\ overtakenOf' = overtakenOf
  BY MovesPlace DEF Places
<1>3. placeOf' = [d \in Call |-> IF d = c THEN PlaceName(p)
                                 ELSE IF d \in {} THEN "ended" ELSE placeOf[d]]
  BY <1>2, PlaceIs
<1>4. PlaceName(p) # "ended" => Promise!Holders = {}
  BY HoldersAre DEF PlaceName
<1> QED
  BY <1>1, <1>2, <1>3, <1>4 DEF Promise!AnswerWith

\* A stop overtakes every call that has begun, and ends those in `gone`.
LEMMA StopsAll ==
  ASSUME PromiseInv, stopGen' = stopGen + 1, stopsAtStart' = stopsAtStart,
         NEW gone \in SUBSET Owners,
         \A c \in Call : IF c \in gone THEN pc'[c] \in {"sent", "refused"}
                         ELSE pc'[c] = pc[c]
  PROVE  Promise!TrNext
<1>1. \A c \in Call : stopsAtStart[c] # stopGen'
  BY DEF PromiseInv, TypeOK, StopsCount
<1>2. \A c \in Call : pc'[c] = "idle" <=> pc[c] = "idle"
  BY DEF Owners, Owning
<1>3. \A c \in Call : placeOf[c] # "out" <=> pc[c] # "idle"
  BY PlaceIs DEF PlaceName
<1>4. overtakenOf' = {c \in Call : placeOf[c] # "out"}
  BY <1>1, <1>2, <1>3 DEF overtakenOf, Stopped
<1>5. PlaceName("refused") = "ended" /\ PlaceName("sent") = "ended"
  BY DEF PlaceName
<1>6. placeOf' = [c \in Call |-> IF c \in gone THEN "ended" ELSE placeOf[c]]
  BY <1>5, PlaceIs
<1>7. gone \in SUBSET Promise!Holders
  BY HoldersAre
<1> QED
  BY <1>4, <1>6, <1>7 DEF Promise!TrNext, Promise!StopAll

LEMMA UnkeyPromise ==
  ASSUME PromiseInv, NEW moved, NEW place, Unkey(moved, place),
         moved \cap Call \subseteq Owners,
         moved \cap Call # {} => place \in {"sent", "refused"},
         stopsAtStart' = stopsAtStart
  PROVE  Promise!TrNext
<1>1. stopGen' = stopGen + 1
  BY DEF Unkey
<1>2. Waiting \subseteq Owners
  BY Apart DEF Waiting, PromiseInv, OneHolder, TypeOK, Owners, Owning
<1>3. (moved \cap Call) \cup Waiting \in SUBSET Owners
  BY <1>2
<1>4. \A c \in Call : pc'[c] = IF c \in moved THEN place
                               ELSE IF c \in Waiting THEN "refused" ELSE pc[c]
  BY DEF Unkey, PromiseInv, TypeOK
<1> QED
  BY <1>1, <1>3, <1>4, StopsAll

LEMMA CallPromise ==
  ASSUME PromiseInv, NEW c \in Call, CallStep(c)
  PROVE  [Promise!TrNext]_Promise!trVars
<1>t. TypeOK
  BY DEF PromiseInv
<1>n. ~busy => Owners = {}
  BY DEF PromiseInv, OneHolder
<1>1. CASE Begin(c)
  <2>1. \A d \in Call : pc'[d] = IF d = c THEN "gate" ELSE pc[d]
    BY <1>1, <1>t DEF Begin, Go, TypeOK
  <2>2. placeOf[c] = "out" /\ placeOf' = [placeOf EXCEPT ![c] = "asking"]
    BY <1>1, <2>1, PlaceIs DEF Begin, PlaceName
  <2>3. stopGen' = stopGen /\ stopsAtStart' = [stopsAtStart EXCEPT ![c] = stopGen]
    BY <1>1 DEF Begin, flags
  <2>4. overtakenOf' = overtakenOf
    BY <1>1, <1>t, <2>1, <2>3 DEF Begin, overtakenOf, Stopped, TypeOK
  <2> QED
    BY <2>2, <2>4 DEF Promise!TrNext, Promise!Ask
<1>2. CASE ReadSetting(c) \/ SendChunk(c)
  BY <1>2, Stutters DEF ReadSetting, SendChunk, flags
<1>3. CASE Refused(c) \/ Unsendable(c)
  <2>1. Go(c, "refused") /\ pc[c] = "gate" /\ UNCHANGED <<stopGen, stopsAtStart>>
    BY <1>3 DEF Refused, Unsendable, Admits, flags, locals
  <2>2. PlaceName("refused") = "ended"
    BY DEF PlaceName
  <2>3. Promise!AnswerWith(c, "ended")
    BY <1>t, <2>1, <2>2, LeavesGate
  <2> QED
    BY <2>3 DEF Promise!TrNext, Promise!TurnAway
<1>4. CASE Waits(c) \/ GoesNow(c)
  <2>1. PICK p \in {"window", "regate"} : Go(c, p)
    BY <1>4 DEF Waits, GoesNow, Rereads
  <2>2. /\ pc[c] = "gate" /\ stopGen = stopsAtStart[c] /\ ~busy
        /\ UNCHANGED <<stopGen, stopsAtStart>>
    BY <1>4 DEF Waits, GoesNow, Rereads, Admits, Stopped, locals
  <2>3. PlaceName(p) = "holding"
    BY DEF PlaceName
  <2>4. Promise!AnswerWith(c, "holding")
    BY <1>n, <1>t, <2>1, <2>2, <2>3, LeavesGate
  <2>5. c \notin overtakenOf
    BY <2>2 DEF overtakenOf, Stopped
  <2> QED
    BY <2>4, <2>5 DEF Promise!TrNext, Promise!Take
<1>5. CASE WindowBegins(c)
  <2>1. Go(c, "regate") /\ pc[c] = "window" /\ UNCHANGED <<stopGen, stopsAtStart>>
    BY <1>5 DEF WindowBegins, Rereads
  <2>2. placeOf' = [placeOf EXCEPT ![c] = "holding"] /\ overtakenOf' = overtakenOf
    BY <1>t, <2>1, MovesPlace DEF Places, PlaceName
  <2>3. placeOf[c] = "holding"
    BY <2>1, PlaceIs DEF PlaceName
  <2>4. placeOf' = placeOf
    BY <2>2, <2>3, PlaceIs
  <2> QED
    BY <2>2, <2>4 DEF Promise!trVars
<1>6. CASE DroppedBeforeKeying(c)
  <2>1. Go(c, "refused") /\ pc[c] = "regate" /\ UNCHANGED <<stopGen, stopsAtStart>>
    BY <1>6 DEF DroppedBeforeKeying, locals
  <2>2. placeOf' = [placeOf EXCEPT ![c] = "ended"] /\ overtakenOf' = overtakenOf
    BY <1>t, <2>1, MovesPlace DEF Places, PlaceName
  <2>3. placeOf[c] = "holding"
    BY <2>1, PlaceIs DEF PlaceName
  <2> QED
    BY <2>2, <2>3 DEF Promise!TrNext, Promise!End
<1>7. CASE Keys(c)
  <2>1. Go(c, "streaming") /\ pc[c] = "regate" /\ UNCHANGED <<stopGen, stopsAtStart>>
        /\ stopGen = stopsAtStart[c]
    BY <1>7 DEF Keys, Stopped
  <2>2. placeOf' = [placeOf EXCEPT ![c] = "onAir"] /\ overtakenOf' = overtakenOf
    BY <1>t, <2>1, MovesPlace DEF Places, PlaceName
  <2>3. placeOf[c] = "holding" /\ c \notin overtakenOf
    BY <2>1, PlaceIs DEF PlaceName, overtakenOf, Stopped
  <2> QED
    BY <2>2, <2>3 DEF Promise!TrNext, Promise!GoOnAir
<1>8. CASE KeysInVain(c) \/ StreamEnds(c)
  <2>1. c \in Owners /\ stopsAtStart' = stopsAtStart
    BY <1>8 DEF KeysInVain, StreamEnds, locals, Owners, Owning
  <2>2. Unkey({c}, "refused") \/ Unkey({c}, "sent")
    BY <1>8 DEF KeysInVain, StreamEnds
  <2> QED
    BY <2>1, <2>2, UnkeyPromise
<1> QED
  BY <1>1, <1>2, <1>3, <1>4, <1>5, <1>6, <1>7, <1>8 DEF CallStep

LEMMA StopPromise ==
  ASSUME PromiseInv, NEW s \in Stop, StopStep(s)
  PROVE  [Promise!TrNext]_Promise!trVars
<1>1. ASSUME NEW place, StopsBy(s, place) PROVE [Promise!TrNext]_Promise!trVars
  <2>0. {s} \cap Call = {} /\ stopsAtStart' = stopsAtStart
    BY <1>1, Apart DEF StopsBy, locals
  <2>1. CASE Unkey({s}, place)
    BY <2>0, <2>1, UnkeyPromise
  <2>2. CASE Go(s, place) /\ UNCHANGED flags
    BY <2>0, <2>2, Apart, Stutters DEF Go, flags, PromiseInv, TypeOK
  <2> QED
    BY <1>1, <2>1, <2>2 DEF StopsBy
<1>2. CASE DisarmWritten(s)
  BY <1>2, Apart, Stutters DEF DisarmWritten, Go, flags, locals, PromiseInv, TypeOK
<1> QED
  BY <1>1, <1>2 DEF StopStep, Halts, Disarms, TakesVoice, LatchesForExit

LEMMA PromiseStep ==
  PromiseInv /\ [Next]_vars => [Promise!TrNext]_Promise!trVars
<1> SUFFICES ASSUME PromiseInv, [Next]_vars PROVE [Promise!TrNext]_Promise!trVars
  OBVIOUS
<1>1. CASE WatchdogFires \/ Teardown \/ ReadsKeyed \/ ReadsNothing
  BY <1>1, UnkeyPromise DEF WatchdogFires, Teardown, ReadsKeyed, ReadsNothing, locals
<1>2. CASE Attach
  <2>1. stopGen' = stopGen + 1 /\ stopsAtStart' = stopsAtStart
    BY <1>2, AttachRenews DEF NewSession, locals
  <2>2. \A c \in Call : IF c \in Owners THEN pc'[c] \in {"sent", "refused"} ELSE pc'[c] = pc[c]
    BY <1>2, AttachRenews DEF NewSession, Owners, PromiseInv, TypeOK
  <2> QED
    BY <2>1, <2>2, StopsAll
<1>3. CASE LoseStreams \/ ReadsSilent \/ Released
  BY <1>3, Stutters DEF LoseStreams, ReadsSilent, Released, flags, locals
<1>4. CASE Settings \/ ReleasesVoice \/ RadioObeys \/ RadioMisses \/ UNCHANGED vars
  BY <1>4, Stutters DEF Settings, ReleasesVoice, RadioObeys, RadioMisses, vars, flags, locals
<1> QED
  BY <1>1, <1>2, <1>3, <1>4, CallPromise, StopPromise DEF Next, SessionStep, Confirms

\* IcomTransmitter keeps, across its sessions, the promise every transmitter makes
\* to the operating layer: one holder, nothing overtaken keyed.
THEOREM IcomKeepsPromise == Spec => KeepsPromise
<1>1. Init => Promise!TrInit /\ GateInv
  BY PromiseInit, GateInvInit
<1>2. TypeInv /\ GateInv /\ [Next]_vars => GateInv'
  BY GateInvStep DEF TypeInv
<1>3. TypeInv /\ OneHolder /\ GateInv /\ [Next]_vars => [Promise!TrNext]_Promise!trVars
  BY PromiseStep DEF TypeInv, GateInv, PromiseInv
<1> QED
  BY <1>1, <1>2, <1>3, TypeInvariant, OneCallHolds, PTL DEF Spec, KeepsPromise, Promise!TrSpec
=============================================================================
