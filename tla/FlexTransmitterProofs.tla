----------------------- MODULE FlexTransmitterProofs -----------------------
(***************************************************************************)
(* Theorems of FlexTransmitter, for any numbers of calls, stops and        *)
(* packets, over a link that may be slow and a radio that may ignore       *)
(* commands.                                                               *)
(***************************************************************************)
EXTENDS FlexTransmitter, SequenceTheorems, TLAPS

LEMMA WhoIsWho == Call \subseteq Client /\ Stop \subseteq Client /\ None \notin Call
  BY TransmitterAssumption

---------------------------------------------------------------------------
(* Type correctness. *)

LEMMA InitTypeOK == Init => TypeOK
<1> SUFFICES ASSUME Init PROVE TypeOK
  OBVIOUS
<1>1. GateTypeOK
  BY DEF Init, GateInit, GateTypeOK
<1>2. LinkTypeOK
  BY EmptySeq DEF Init, LinkInit, LinkTypeOK
<1>3. sent \in [Call -> 0 .. Packets]
  BY TransmitterAssumption DEF Init
<1>4. pc \in [Client -> CallPlaces \cup StopPlaces]
  BY DEF Init, CallPlaces
<1>5. reading \in [Call -> Readings]
  BY DEF Init, Readings
<1> QED
  BY <1>1, <1>2, <1>3, <1>4, <1>5 DEF Init, TypeOK

\* Sending a command, and reading or dropping a reply, keep the link well typed.
LEMMA AppendCommand ==
  ASSUME LinkTypeOK, NEW cmd \in Commands
  PROVE  Append(wire, [seq |-> seq + 1, cmd |-> cmd]) \in Seq(CommandRecords)
<1>1. [seq |-> seq + 1, cmd |-> cmd] \in CommandRecords
  BY DEF CommandRecords, LinkTypeOK
<1> QED
  BY <1>1, AppendProperties DEF LinkTypeOK

LEMMA TailReplies ==
  ASSUME LinkTypeOK, replies # <<>>
  PROVE  Tail(replies) \in Seq(ReplyRecords)
  BY HeadTailProperties DEF LinkTypeOK

LEMMA SendTypeOK ==
  ASSUME LinkTypeOK, NEW x \in Client, NEW cmd \in Commands, Send(x, cmd),
         replies' = replies \/ (replies # <<>> /\ replies' = Tail(replies))
  PROVE  LinkTypeOK'
<1>1. wire' \in Seq(CommandRecords)
  BY AppendCommand DEF Send
<1>2. replies' \in Seq(ReplyRecords)
  BY TailReplies DEF LinkTypeOK
<1> QED
  BY <1>1, <1>2 DEF LinkTypeOK, Send

LEMMA ForgetTypeOK ==
  ASSUME LinkTypeOK, NEW cmd \in Commands, SendAndForget(cmd),
         pending' \in [Client -> Nat], replies' = replies
  PROVE  LinkTypeOK'
<1>1. wire' \in Seq(CommandRecords)
  BY AppendCommand DEF SendAndForget
<1> QED
  BY <1>1 DEF LinkTypeOK, SendAndForget

LEMMA ReadTypeOK ==
  ASSUME LinkTypeOK, NEW x \in Client,
         (Answered(x) /\ ReadReply(x)) \/ GiveUp(x),
         UNCHANGED <<seq, wire, radioKeyed>>
  PROVE  LinkTypeOK'
<1>1. replies' \in Seq(ReplyRecords)
  BY TailReplies DEF LinkTypeOK, Answered, ReadReply, GiveUp
<1>2. pending' = [pending EXCEPT ![x] = 0]
  BY DEF ReadReply, GiveUp
<1>3. pending' \in [Client -> Nat]
  BY <1>2 DEF LinkTypeOK
<1> QED
  BY <1>1, <1>3 DEF LinkTypeOK

LEMMA RadioTypeOK ==
  ASSUME LinkTypeOK, LinkNext
  PROVE  LinkTypeOK'
<1>1. ASSUME wire # <<>>, NEW ok \in BOOLEAN
      PROVE  /\ Append(replies, [seq |-> Head(wire).seq, ok |-> ok]) \in Seq(ReplyRecords)
             /\ Tail(wire) \in Seq(CommandRecords)
  <2>1. Head(wire) \in CommandRecords /\ Tail(wire) \in Seq(CommandRecords)
    BY <1>1, HeadTailProperties DEF LinkTypeOK
  <2>2. [seq |-> Head(wire).seq, ok |-> ok] \in ReplyRecords
    BY <2>1 DEF CommandRecords, ReplyRecords
  <2> QED
    BY <2>1, <2>2, AppendProperties DEF LinkTypeOK
<1>2. CASE DropReply
  BY <1>2, TailReplies DEF DropReply, LinkTypeOK
<1>3. CASE RadioObeys
  <2>1. radioKeyed' \in BOOLEAN
    BY <1>3, Zenon DEF RadioObeys
  <2> QED
    BY <1>1, <1>3, <2>1 DEF RadioObeys, LinkTypeOK
<1>4. CASE RadioRefuses
  BY <1>1, <1>4 DEF RadioRefuses, LinkTypeOK
<1>5. CASE RadioIgnores
  BY <1>1, <1>5 DEF RadioIgnores, LinkTypeOK
<1> QED
  BY <1>2, <1>3, <1>4, <1>5 DEF LinkNext

LEMMA LinkUnchanged == LinkTypeOK /\ UNCHANGED linkVars => LinkTypeOK'
  BY DEF LinkTypeOK, linkVars

LEMMA GateUnchanged == GateTypeOK /\ UNCHANGED gateVars => GateTypeOK'
  BY DEF GateTypeOK, gateVars

FlagsTypeOK ==
    /\ busy \in BOOLEAN /\ keyed \in BOOLEAN /\ watchdog \in BOOLEAN
    /\ txGen \in Nat /\ stopGen \in Nat
    /\ pendingKey \in Call \cup {None}

PcTypeOK == pc \in [Client -> CallPlaces \cup StopPlaces]

LocalsTypeOK ==
    /\ kind \in [Client -> CallKinds \cup StopKinds]
    /\ stopsAtStart \in [Call -> Nat]
    /\ gen \in [Call -> Nat]
    /\ reading \in [Call -> Readings]
    /\ wasKeyed \in [Client -> BOOLEAN]
    /\ sent \in [Call -> 0 .. Packets]

HistoryTypeOK ==
    /\ aired \in [Call -> Nat]
    /\ stopAt \in [Stop -> Nat]
    /\ disarmed \in BOOLEAN

LEMMA TypeOKParts ==
  TypeOK <=> GateTypeOK /\ LinkTypeOK /\ FlagsTypeOK /\ PcTypeOK /\ LocalsTypeOK /\ HistoryTypeOK
  BY DEF TypeOK, FlagsTypeOK, PcTypeOK, LocalsTypeOK, HistoryTypeOK

\* What the parts of a step that changes nothing of theirs keep.
LEMMA FlagsUnchanged == FlagsTypeOK /\ UNCHANGED flags => FlagsTypeOK'
  BY DEF FlagsTypeOK, flags

LEMMA LocalsUnchanged == LocalsTypeOK /\ UNCHANGED locals => LocalsTypeOK'
  BY DEF LocalsTypeOK, locals

LEMMA HistoryUnchanged == HistoryTypeOK /\ UNCHANGED history => HistoryTypeOK'
  BY DEF HistoryTypeOK, history

LEMMA GoTypeOK ==
  ASSUME PcTypeOK, NEW x \in Client, NEW place \in CallPlaces \cup StopPlaces, Go(x, place)
  PROVE  PcTypeOK'
  BY DEF PcTypeOK, Go

LEMMA ReadingTypes == ReadingStarts \in Readings /\ ReadingEnds \subseteq Readings
  BY DEF ReadingStarts, ReadingEnds, Readings

LEMMA UnkeyTypeOK ==
  ASSUME TypeOK, NEW x \in Client, NEW place \in CallPlaces \cup StopPlaces,
         Unkey(x, place),
         replies' = replies \/ (replies # <<>> /\ replies' = Tail(replies))
  PROVE  /\ LinkTypeOK' /\ FlagsTypeOK' /\ PcTypeOK'
         /\ wasKeyed' \in [Client -> BOOLEAN]
<1>1. LinkTypeOK'
  BY SendTypeOK, TypeOKParts DEF Commands, Unkey
<1>2. FlagsTypeOK'
  <2>1. busy' \in BOOLEAN
    BY Zenon DEF Unkey
  <2>2. keyed' \in BOOLEAN /\ watchdog' \in BOOLEAN
    BY Zenon DEF TypeOK, Unkey
  <2>3. txGen' = txGen /\ stopGen' = stopGen + 1
        /\ pendingKey' = IF Cancelled = {} THEN pendingKey ELSE None
    BY Zenon DEF Unkey
  <2>4. pendingKey' \in Call \cup {None} /\ txGen' \in Nat /\ stopGen' \in Nat
    BY <2>3 DEF TypeOK
  <2> QED
    BY <2>1, <2>2, <2>4 DEF FlagsTypeOK
<1>3. PcTypeOK'
  BY DEF TypeOK, PcTypeOK, CallPlaces, Unkey
<1>4. wasKeyed' \in [Client -> BOOLEAN]
  BY DEF TypeOK, Unkey
<1> QED
  BY <1>1, <1>2, <1>3, <1>4

LEMMA UnkeyedTypeOK ==
  ASSUME TypeOK, NEW x \in Client, Unkeyed(x)
  PROVE  LinkTypeOK' /\ keyed' \in BOOLEAN /\ UNCHANGED <<txGen, stopGen, watchdog>>
<1>1. CASE /\ Answered(x)
           /\ ReadReply(x)
           /\ UNCHANGED <<seq, wire, radioKeyed>>
  BY <1>1, ReadTypeOK, TypeOKParts DEF Unkeyed
<1>2. CASE /\ GiveUp(x)
           /\ SendAndForget("xmit 0")
  <2>1. pending' \in [Client -> Nat]
    BY <1>2 DEF GiveUp, TypeOK, LinkTypeOK
  <2> QED
    BY <1>2, <2>1, ForgetTypeOK, TypeOKParts DEF Unkeyed, GiveUp, Commands
<1>3. CASE GiveUp(x) /\ UNCHANGED <<seq, wire, radioKeyed>>
  BY <1>3, ReadTypeOK, TypeOKParts DEF Unkeyed
<1> QED
  BY <1>1, <1>2, <1>3 DEF Unkeyed

LEMMA LetGoTypeOK ==
  ASSUME TypeOK, NEW c \in Call, LetGo(c)
  PROVE  busy' \in BOOLEAN /\ pendingKey' \in Call \cup {None}
<1>1. busy' \in BOOLEAN
  BY Zenon DEF LetGo
<1> QED
  BY <1>1 DEF LetGo, TypeOK

\* A call that passes the gate, and one that keys up.
LEMMA PassesTypeOK ==
  ASSUME TypeOK, NEW c \in Call, NEW place \in CallPlaces, PassesGate(c, place)
  PROVE  PcTypeOK'
  BY DEF TypeOK, PcTypeOK, PassesGate, CallPlaces

LEMMA TakesTypeOK ==
  ASSUME TypeOK, NEW c \in Call, NEW place \in CallPlaces, Takes(c, place),
         pendingKey' \in Call \cup {None}, watchdog' \in BOOLEAN,
         reading' \in [Call -> Readings]
  PROVE  GateTypeOK' /\ FlagsTypeOK' /\ PcTypeOK' /\ LocalsTypeOK' /\ HistoryTypeOK'
<1>1. GateTypeOK' /\ HistoryTypeOK'
  BY TypeOKParts, GateUnchanged, HistoryUnchanged DEF Takes
<1>2. PcTypeOK'
  BY PassesTypeOK DEF Takes
<1>3. busy' \in BOOLEAN /\ keyed' \in BOOLEAN
  BY Zenon DEF Takes, TypeOK
<1>4. FlagsTypeOK'
  BY <1>3 DEF Takes, TypeOK, FlagsTypeOK
<1>5. gen' \in [Call -> Nat]
  BY DEF Takes, TypeOK
<1>6. LocalsTypeOK'
  BY <1>5 DEF Takes, TypeOK, LocalsTypeOK
<1> QED
  BY <1>1, <1>2, <1>4, <1>6

LEMMA KeysUpTypeOK ==
  ASSUME TypeOK, NEW c \in Call, KeysUp(c)
  PROVE  LinkTypeOK' /\ watchdog' \in BOOLEAN
<1>1. LinkTypeOK'
  BY WhoIsWho, SendTypeOK, TypeOKParts DEF KeysUp, Commands
<1>2. watchdog' \in BOOLEAN
  BY Zenon DEF KeysUp
<1> QED
  BY <1>1, <1>2

LEMMA RereadTypeOK ==
  ASSUME TypeOK, NEW c \in Call, reading' = [reading EXCEPT ![c] = ReadingStarts]
  PROVE  reading' \in [Call -> Readings]
  BY ReadingTypes DEF TypeOK

\* `sent` stays within Packets because a call that has not started to stream has
\* sent nothing.
Early == {"idle", "gate", "window", "regate", "keying"}
NothingSentYet == \A c \in Call : pc[c] \in Early => sent[c] = 0

\* One lemma per group of actions: a call's, a stop's, and everybody else's.
LEMMA CallTypeOK ==
  ASSUME TypeOK, NothingSentYet, NEW c \in Call, CallStep(c)
  PROVE  TypeOK'
<1> c \in Client
  BY WhoIsWho
<1>0. GateTypeOK /\ LinkTypeOK /\ FlagsTypeOK /\ PcTypeOK /\ LocalsTypeOK /\ HistoryTypeOK
  BY TypeOKParts
<1> SUFFICES GateTypeOK' /\ LinkTypeOK' /\ FlagsTypeOK' /\ PcTypeOK' /\ LocalsTypeOK'
             /\ HistoryTypeOK'
  BY DEF TypeOK, FlagsTypeOK, PcTypeOK, LocalsTypeOK, HistoryTypeOK
<1>1. CASE Begin(c)
  <2>1. PcTypeOK'
    BY <1>0, <1>1, GoTypeOK DEF Begin, CallPlaces
  <2>2. LocalsTypeOK'
    BY <1>0, <1>1, ReadingTypes DEF Begin, LocalsTypeOK, FlagsTypeOK
  <2> QED
    BY <1>0, <1>1, <2>1, <2>2, GateUnchanged, LinkUnchanged, FlagsUnchanged, HistoryUnchanged
       DEF Begin
<1>2. CASE ReadSetting(c)
  <2>1. LocalsTypeOK'
    BY <1>0, <1>2, ReadingTypes DEF ReadSetting, LocalsTypeOK
  <2> QED
    BY <1>0, <1>2, <2>1, GateUnchanged, LinkUnchanged, FlagsUnchanged, HistoryUnchanged
       DEF ReadSetting, PcTypeOK
<1>3. CASE RefusedAtGate(c)
  <2>1. PcTypeOK'
    BY <1>0, <1>3, GoTypeOK DEF RefusedAtGate, CallPlaces
  <2> QED
    BY <1>0, <1>3, <2>1, GateUnchanged, LinkUnchanged, FlagsUnchanged, LocalsUnchanged,
       HistoryUnchanged DEF RefusedAtGate
<1>4. CASE DroppedAfterGate(c)
  <2>1. PcTypeOK'
    BY <1>4, PassesTypeOK DEF DroppedAfterGate, CallPlaces
  <2>2. busy' \in BOOLEAN /\ keyed' \in BOOLEAN /\ watchdog' \in BOOLEAN
    BY <1>0, <1>4, Zenon DEF DroppedAfterGate, FlagsTypeOK
  <2>3. FlagsTypeOK'
    BY <1>0, <1>4, <2>2 DEF DroppedAfterGate, FlagsTypeOK
  <2> QED
    BY <1>0, <1>4, <2>1, <2>3, GateUnchanged, LinkUnchanged, LocalsUnchanged, HistoryUnchanged
       DEF DroppedAfterGate
<1>5. CASE TakesAndWaits(c)
  <2>1. watchdog' \in BOOLEAN /\ LinkTypeOK'
    BY <1>0, <1>5, LinkUnchanged, Zenon DEF TakesAndWaits, FlagsTypeOK
  <2>2. reading' \in [Call -> Readings] /\ pendingKey' \in Call \cup {None}
    BY <1>0, <1>5 DEF TakesAndWaits, LocalsTypeOK
  <2> QED
    BY <1>5, <2>1, <2>2, TakesTypeOK DEF TakesAndWaits, CallPlaces
<1>6. CASE TakesAndRereads(c)
  <2>1. watchdog' \in BOOLEAN /\ LinkTypeOK'
    BY <1>0, <1>6, LinkUnchanged, Zenon DEF TakesAndRereads, FlagsTypeOK
  <2>2. reading' \in [Call -> Readings] /\ pendingKey' \in Call \cup {None}
    BY <1>6, RereadTypeOK DEF TakesAndRereads
  <2> QED
    BY <1>6, <2>1, <2>2, TakesTypeOK DEF TakesAndRereads, CallPlaces
<1>7. CASE TakesAndKeys(c)
  <2>1. reading' \in [Call -> Readings] /\ pendingKey' \in Call \cup {None}
    BY <1>0, <1>7 DEF TakesAndKeys, LocalsTypeOK
  <2> QED
    BY <1>7, <2>1, KeysUpTypeOK, TakesTypeOK DEF TakesAndKeys, CallPlaces
<1>8. CASE TakesForCw(c)
  <2>1. LinkTypeOK'
    BY <1>0, <1>8, SendTypeOK DEF TakesForCw, Commands
  <2>2. watchdog' \in BOOLEAN
    BY <1>0, <1>8, Zenon DEF TakesForCw, FlagsTypeOK
  <2>3. reading' \in [Call -> Readings] /\ pendingKey' \in Call \cup {None}
    BY <1>0, <1>8 DEF TakesForCw, LocalsTypeOK
  <2> QED
    BY <1>8, <2>1, <2>2, <2>3, TakesTypeOK DEF TakesForCw, CallPlaces
<1>9. CASE WindowBegins(c)
  <2>1. PcTypeOK'
    BY <1>0, <1>9, GoTypeOK DEF WindowBegins, CallPlaces
  <2>2. LocalsTypeOK'
    BY <1>0, <1>9, RereadTypeOK DEF WindowBegins, LocalsTypeOK
  <2>3. busy' \in BOOLEAN /\ keyed' \in BOOLEAN /\ watchdog' \in BOOLEAN
    BY <1>0, <1>9, Zenon DEF WindowBegins, FlagsTypeOK
  <2>4. FlagsTypeOK'
    BY <1>0, <1>9, <2>3 DEF WindowBegins, FlagsTypeOK
  <2> QED
    BY <1>0, <1>9, <2>1, <2>2, <2>4, GateUnchanged, LinkUnchanged, HistoryUnchanged
       DEF WindowBegins
<1>10. CASE DroppedBeforeKeying(c)
  <2>1. PcTypeOK'
    BY <1>0, <1>10, GoTypeOK DEF DroppedBeforeKeying, CallPlaces
  <2>2. keyed' \in BOOLEAN /\ watchdog' \in BOOLEAN
    BY <1>0, <1>10, Zenon DEF DroppedBeforeKeying, FlagsTypeOK
  <2>3. FlagsTypeOK'
    BY <1>0, <1>10, <2>2, LetGoTypeOK DEF DroppedBeforeKeying, FlagsTypeOK
  <2> QED
    BY <1>0, <1>10, <2>1, <2>3, GateUnchanged, LinkUnchanged, LocalsUnchanged, HistoryUnchanged
       DEF DroppedBeforeKeying
<1>11. CASE Keys(c)
  <2>1. PcTypeOK'
    BY <1>0, <1>11, GoTypeOK DEF Keys, CallPlaces
  <2>2. LinkTypeOK' /\ watchdog' \in BOOLEAN
    BY <1>11, KeysUpTypeOK DEF Keys
  <2>3. FlagsTypeOK'
    BY <1>0, <1>11, <2>2 DEF Keys, FlagsTypeOK
  <2> QED
    BY <1>0, <1>11, <2>1, <2>2, <2>3, GateUnchanged, LocalsUnchanged, HistoryUnchanged DEF Keys
<1> DEFINE Later == \/ KeyAcknowledged(c) \/ KeyFails(c) \/ SendPacket(c)
                    \/ StreamEnds(c) \/ StreamFails(c) \/ CallUnkeyed(c)
                    \/ CwSpeedSet(c) \/ CwSent(c) \/ CwFails(c) \/ CwEnds(c)
<1>12. CASE KeyAcknowledged(c)
  <2>1. PcTypeOK'
    BY <1>0, <1>12, GoTypeOK DEF KeyAcknowledged, CallPlaces
  <2>2. LinkTypeOK'
    BY <1>0, <1>12, ReadTypeOK DEF KeyAcknowledged
  <2>3. busy' \in BOOLEAN /\ keyed' \in BOOLEAN /\ watchdog' \in BOOLEAN /\ disarmed' \in BOOLEAN
    BY <1>0, <1>12, Zenon DEF KeyAcknowledged, FlagsTypeOK, HistoryTypeOK
  <2>4. FlagsTypeOK'
    BY <1>0, <1>12, <2>3 DEF KeyAcknowledged, FlagsTypeOK
  <2>5. sent' \in [Call -> 0 .. Packets] /\ aired' \in [Call -> Nat]
    BY <1>0, <1>12, TransmitterAssumption
       DEF KeyAcknowledged, PacketGoesOut, NothingSentYet, Early, LocalsTypeOK, HistoryTypeOK
  <2>6. LocalsTypeOK' /\ HistoryTypeOK'
    BY <1>0, <1>12, <2>3, <2>5 DEF KeyAcknowledged, LocalsTypeOK, HistoryTypeOK
  <2> QED
    BY <1>0, <1>12, <2>1, <2>2, <2>4, <2>6, GateUnchanged DEF KeyAcknowledged
<1>13. CASE KeyFails(c)
  <2>1. PcTypeOK'
    BY <1>0, <1>13, GoTypeOK DEF KeyFails, CallPlaces
  <2>2. LinkTypeOK'
    BY <1>0, <1>13, ReadTypeOK DEF KeyFails
  <2>3. busy' \in BOOLEAN /\ keyed' \in BOOLEAN /\ watchdog' \in BOOLEAN
    BY <1>0, <1>13, Zenon DEF KeyFails, FlagsTypeOK
  <2>4. FlagsTypeOK'
    BY <1>0, <1>13, <2>3 DEF KeyFails, FlagsTypeOK
  <2> QED
    BY <1>0, <1>13, <2>1, <2>2, <2>4, GateUnchanged, LocalsUnchanged, HistoryUnchanged DEF KeyFails
<1>14. CASE SendPacket(c)
  <2>1. disarmed' \in BOOLEAN
    BY <1>0, <1>14, Zenon DEF SendPacket, HistoryTypeOK
  <2>2. sent' \in [Call -> 0 .. Packets] /\ aired' \in [Call -> Nat]
    BY <1>0, <1>14, TransmitterAssumption
       DEF SendPacket, PacketGoesOut, LocalsTypeOK, HistoryTypeOK
  <2>3. LocalsTypeOK' /\ HistoryTypeOK' /\ PcTypeOK'
    BY <1>0, <1>14, <2>1, <2>2 DEF SendPacket, LocalsTypeOK, HistoryTypeOK, PcTypeOK
  <2> QED
    BY <1>0, <1>14, <2>3, GateUnchanged, LinkUnchanged, FlagsUnchanged DEF SendPacket
<1>15. CASE StreamEnds(c) \/ StreamFails(c)
  <2>1. LinkTypeOK' /\ FlagsTypeOK' /\ PcTypeOK' /\ wasKeyed' \in [Client -> BOOLEAN]
    BY <1>15, UnkeyTypeOK DEF StreamEnds, StreamFails, CallPlaces
  <2>2. LocalsTypeOK'
    BY <1>0, <1>15, <2>1 DEF StreamEnds, StreamFails, LocalsTypeOK
  <2> QED
    BY <1>0, <1>15, <2>1, <2>2, GateUnchanged, HistoryUnchanged DEF StreamEnds, StreamFails
<1>16. CASE CallUnkeyed(c)
  <2>1. PcTypeOK'
    BY <1>0, <1>16, GoTypeOK DEF CallUnkeyed, CallPlaces
  <2>2. LinkTypeOK' /\ keyed' \in BOOLEAN /\ UNCHANGED <<txGen, stopGen, watchdog>>
    BY <1>16, UnkeyedTypeOK DEF CallUnkeyed
  <2>3. FlagsTypeOK'
    BY <1>0, <1>16, <2>2, LetGoTypeOK DEF CallUnkeyed, FlagsTypeOK
  <2> QED
    BY <1>0, <1>16, <2>1, <2>2, <2>3, GateUnchanged, LocalsUnchanged, HistoryUnchanged
       DEF CallUnkeyed
<1>17. CASE CwSpeedSet(c)
  <2>1. PcTypeOK'
    BY <1>0, <1>17, GoTypeOK DEF CwSpeedSet, CallPlaces
  <2>2. LinkTypeOK'
    BY <1>0, <1>17, SendTypeOK DEF CwSpeedSet, Answered, Commands
  <2> QED
    BY <1>0, <1>17, <2>1, <2>2, GateUnchanged, FlagsUnchanged, LocalsUnchanged, HistoryUnchanged
       DEF CwSpeedSet
<1>18. CASE CwSent(c)
  <2>1. PcTypeOK'
    BY <1>0, <1>18, GoTypeOK DEF CwSent, CallPlaces
  <2>2. LinkTypeOK'
    BY <1>0, <1>18, ReadTypeOK DEF CwSent
  <2> QED
    BY <1>0, <1>18, <2>1, <2>2, GateUnchanged, FlagsUnchanged, LocalsUnchanged, HistoryUnchanged
       DEF CwSent
<1>19. CASE CwFails(c)
  <2>1. PcTypeOK'
    BY <1>0, <1>19, GoTypeOK DEF CwFails, CallPlaces
  <2>2. LinkTypeOK'
    BY <1>0, <1>19, ReadTypeOK DEF CwFails
  <2>3. keyed' \in BOOLEAN /\ watchdog' \in BOOLEAN
    BY <1>0, <1>19, Zenon DEF CwFails, FlagsTypeOK
  <2>4. FlagsTypeOK'
    BY <1>0, <1>19, <2>3, LetGoTypeOK DEF CwFails, FlagsTypeOK
  <2> QED
    BY <1>0, <1>19, <2>1, <2>2, <2>4, GateUnchanged, LocalsUnchanged, HistoryUnchanged DEF CwFails
<1>20. CASE CwEnds(c)
  <2>1. PcTypeOK'
    BY <1>0, <1>20, GoTypeOK DEF CwEnds, CallPlaces
  <2>2. keyed' \in BOOLEAN /\ watchdog' \in BOOLEAN
    BY <1>0, <1>20, Zenon DEF CwEnds, FlagsTypeOK
  <2>3. FlagsTypeOK'
    BY <1>0, <1>20, <2>2, LetGoTypeOK DEF CwEnds, FlagsTypeOK
  <2> QED
    BY <1>0, <1>20, <2>1, <2>3, GateUnchanged, LinkUnchanged, LocalsUnchanged, HistoryUnchanged
       DEF CwEnds
<1> QED
  BY <1>1, <1>2, <1>3, <1>4, <1>5, <1>6, <1>7, <1>8, <1>9, <1>10, <1>11, <1>12, <1>13, <1>14,
     <1>15, <1>16, <1>17, <1>18, <1>19, <1>20 DEF CallStep, Accepts

LEMMA StopTypeOK ==
  ASSUME TypeOK, NEW s \in Stop, StopStep(s)
  PROVE  TypeOK'
<1> s \in Client
  BY WhoIsWho
<1>0. GateTypeOK /\ LinkTypeOK /\ FlagsTypeOK /\ PcTypeOK /\ LocalsTypeOK /\ HistoryTypeOK
  BY TypeOKParts
<1> SUFFICES GateTypeOK' /\ LinkTypeOK' /\ FlagsTypeOK' /\ PcTypeOK' /\ LocalsTypeOK'
             /\ HistoryTypeOK'
  BY DEF TypeOK, FlagsTypeOK, PcTypeOK, LocalsTypeOK, HistoryTypeOK
<1>1. CASE Halts(s) \/ TakesVoice(s) \/ UnkeysForExit(s)
  <2>1. /\ LinkTypeOK' /\ FlagsTypeOK' /\ PcTypeOK'
        /\ wasKeyed' \in [Client -> BOOLEAN]
    BY <1>1, UnkeyTypeOK DEF Halts, TakesVoice, UnkeysForExit, StopUnkeys, StopPlaces, Answered
  <2>2. LocalsTypeOK'
    BY <1>0, <1>1, <2>1 DEF Halts, TakesVoice, UnkeysForExit, StopUnkeys, LocalsTypeOK
  <2>3. disarmed' \in BOOLEAN
    BY <1>0, <1>1, Zenon DEF Halts, TakesVoice, UnkeysForExit, StopUnkeys, HistoryTypeOK
  <2>4. HistoryTypeOK'
    <3>1. stopAt' = [stopAt EXCEPT ![s] = stopGen + 1] /\ aired' = aired
      BY <1>1, Zenon DEF Halts, TakesVoice, UnkeysForExit, StopUnkeys
    <3> QED
      BY <1>0, <2>3, <3>1 DEF HistoryTypeOK, FlagsTypeOK
  <2>5. GateTypeOK'
    BY <1>0, <1>1, GateUnchanged
       DEF Halts, TakesVoice, UnkeysForExit, SetDigitalTransmitHold, GateTypeOK
  <2> QED
    BY <2>1, <2>2, <2>4, <2>5
<1>2. CASE LatchesForExit(s)
  <2>1. PcTypeOK'
    BY <1>0, <1>2, GoTypeOK DEF LatchesForExit, StopPlaces
  <2>2. LinkTypeOK'
    BY <1>0, <1>2, SendTypeOK DEF LatchesForExit, Commands
  <2>3. GateTypeOK'
    BY <1>0, <1>2 DEF LatchesForExit, CloseTransmitGateForExit, GateTypeOK
  <2> QED
    BY <1>0, <1>2, <2>1, <2>2, <2>3, FlagsUnchanged, LocalsUnchanged, HistoryUnchanged
       DEF LatchesForExit
<1>3. CASE StopUnkeyed(s)
  <2>1. PcTypeOK'
    BY <1>0, <1>3, GoTypeOK DEF StopUnkeyed, StopPlaces
  <2>2. LinkTypeOK' /\ keyed' \in BOOLEAN /\ UNCHANGED <<txGen, stopGen, watchdog>>
    BY <1>3, UnkeyedTypeOK DEF StopUnkeyed
  <2>3. busy' \in BOOLEAN
    BY <1>0, <1>3, Zenon DEF StopUnkeyed, FlagsTypeOK
  <2>4. FlagsTypeOK'
    BY <1>0, <1>3, <2>2, <2>3 DEF StopUnkeyed, FlagsTypeOK
  <2> QED
    BY <1>0, <1>3, <2>1, <2>2, <2>4, GateUnchanged, LocalsUnchanged, HistoryUnchanged
       DEF StopUnkeyed
<1>4. CASE DisarmWritten(s)
  <2>1. PcTypeOK'
    BY <1>0, <1>4, GoTypeOK DEF DisarmWritten, StopPlaces
  <2>2. GateTypeOK' /\ HistoryTypeOK'
    BY <1>0, <1>4 DEF DisarmWritten, WriteAllowTransmit, GateTypeOK, HistoryTypeOK
  <2> QED
    BY <1>0, <1>4, <2>1, <2>2, LinkUnchanged, FlagsUnchanged, LocalsUnchanged DEF DisarmWritten
<1> QED
  BY <1>1, <1>2, <1>3, <1>4 DEF StopStep

LEMMA OthersTypeOK ==
  ASSUME TypeOK, WatchdogFires \/ Arms \/ SettingsTurnOff \/ ReleasesVoice \/ RadioStep
                   \/ UNCHANGED vars
  PROVE  TypeOK'
<1>0. GateTypeOK /\ LinkTypeOK /\ FlagsTypeOK /\ PcTypeOK /\ LocalsTypeOK /\ HistoryTypeOK
  BY TypeOKParts
<1> SUFFICES GateTypeOK' /\ LinkTypeOK' /\ FlagsTypeOK' /\ PcTypeOK' /\ LocalsTypeOK'
             /\ HistoryTypeOK'
  BY DEF TypeOK, FlagsTypeOK, PcTypeOK, LocalsTypeOK, HistoryTypeOK
<1>1. CASE WatchdogFires
  <2>1. LinkTypeOK'
    BY <1>0, <1>1, ForgetTypeOK DEF WatchdogFires, Commands, LinkTypeOK
  <2>2. busy' \in BOOLEAN /\ keyed' \in BOOLEAN /\ watchdog' \in BOOLEAN
    BY <1>0, <1>1, Zenon DEF WatchdogFires, FlagsTypeOK
  <2>3. FlagsTypeOK'
    <3>1. stopGen' = stopGen + 1 /\ txGen' = txGen /\ pendingKey' = pendingKey
      BY <1>1, Zenon DEF WatchdogFires
    <3> QED
      BY <1>0, <2>2, <3>1 DEF FlagsTypeOK
  <2> QED
    BY <1>0, <1>1, <2>1, <2>3, GateUnchanged, LocalsUnchanged, HistoryUnchanged
       DEF WatchdogFires, PcTypeOK
<1>2. CASE Arms \/ SettingsTurnOff \/ ReleasesVoice
  <2>1. GateTypeOK'
    BY <1>0, <1>2
       DEF Arms, SettingsTurnOff, ReleasesVoice, WriteAllowTransmit, SetDigitalTransmitHold,
           GateTypeOK
  <2>2. HistoryTypeOK'
    BY <1>0, <1>2, HistoryUnchanged DEF Arms, SettingsTurnOff, ReleasesVoice, HistoryTypeOK
  <2> QED
    BY <1>0, <1>2, <2>1, <2>2, LinkUnchanged, FlagsUnchanged, LocalsUnchanged
       DEF Arms, SettingsTurnOff, ReleasesVoice, PcTypeOK
<1>3. CASE RadioStep
  BY <1>0, <1>3, RadioTypeOK, GateUnchanged, FlagsUnchanged, LocalsUnchanged, HistoryUnchanged
     DEF RadioStep, PcTypeOK
<1>4. CASE UNCHANGED vars
  BY <1>0, <1>4, GateUnchanged, LinkUnchanged, FlagsUnchanged, LocalsUnchanged, HistoryUnchanged
     DEF vars, PcTypeOK
<1> QED
  BY <1>1, <1>2, <1>3, <1>4

\* Of the others, a call's step only moves those who give way to it: a call that
\* was waiting for its window.
LEMMA OthersGiveWay ==
  ASSUME TypeOK, NEW c \in Call, CallStep(c)
  PROVE  \A y \in Client \ {c} :
             pc'[y] = pc[y] \/ (pc'[y] = "refused" /\ y \in Cancelled \cup Superseded)
<1>c. c \in Client
  BY WhoIsWho
<1>g. \A p : Go(c, p) => \A y \in Client \ {c} : pc'[y] = pc[y]
  BY DEF Go, TypeOK
<1>1. CASE \E p : Go(c, p)
  BY <1>g, <1>1
<1>2. CASE UNCHANGED pc
  BY <1>2
<1>3. CASE \E p : PassesGate(c, p)
  BY <1>3 DEF PassesGate
<1>4. CASE \E p : Unkey(c, p)
  BY <1>4 DEF Unkey
<1>5. CASE Begin(c) \/ RefusedAtGate(c) \/ WindowBegins(c) \/ DroppedBeforeKeying(c) \/ Keys(c)
  BY <1>1, <1>5 DEF Begin, RefusedAtGate, WindowBegins, DroppedBeforeKeying, Keys
<1>6. CASE KeyAcknowledged(c) \/ KeyFails(c) \/ CallUnkeyed(c)
  BY <1>1, <1>6 DEF KeyAcknowledged, KeyFails, CallUnkeyed
<1>7. CASE CwSpeedSet(c) \/ CwSent(c) \/ CwFails(c) \/ CwEnds(c)
  BY <1>1, <1>7 DEF CwSpeedSet, CwSent, CwFails, CwEnds
<1>8. CASE ReadSetting(c) \/ SendPacket(c)
  BY <1>2, <1>8 DEF ReadSetting, SendPacket
<1>9. CASE DroppedAfterGate(c) \/ Accepts(c)
  BY <1>3, <1>9 DEF DroppedAfterGate, Accepts, TakesAndWaits, TakesAndRereads, TakesAndKeys,
     TakesForCw, Takes
<1>10. CASE StreamEnds(c) \/ StreamFails(c)
  BY <1>4, <1>10 DEF StreamEnds, StreamFails
<1> QED
  BY <1>5, <1>6, <1>7, <1>8, <1>9, <1>10 DEF CallStep

LEMMA NothingSentYetStep ==
  ASSUME TypeOK, NothingSentYet, [Next]_vars
  PROVE  NothingSentYet'
<1> SUFFICES ASSUME NEW d \in Call, pc'[d] \in Early
             PROVE  pc[d] \in Early /\ sent'[d] = sent[d]
  BY DEF NothingSentYet
<1> USE DEF TypeOK, Early
<1>1. ASSUME NEW c \in Call, CallStep(c) PROVE pc[d] \in Early /\ sent'[d] = sent[d]
  <2>0. d # c => pc'[d] = pc[d]
    BY <1>1, WhoIsWho, OthersGiveWay
  <2>1. CASE Begin(c) \/ ReadSetting(c) \/ RefusedAtGate(c)
    BY <2>1, WhoIsWho DEF Begin, ReadSetting, RefusedAtGate, Go, locals
  <2>2. CASE DroppedAfterGate(c) \/ Accepts(c)
    <3>1. pc[c] = "gate" /\ sent' = sent
      BY <2>2 DEF DroppedAfterGate, Accepts, TakesAndWaits, TakesAndRereads, TakesAndKeys,
         TakesForCw, Takes, PassesGate, locals
    <3> QED
      BY <2>0, <3>1
  <2>3. CASE WindowBegins(c) \/ DroppedBeforeKeying(c) \/ Keys(c) \/ KeyFails(c)
    BY <2>3, WhoIsWho DEF WindowBegins, DroppedBeforeKeying, Keys, KeyFails, Go, locals
  <2>4. CASE KeyAcknowledged(c) \/ SendPacket(c)
    BY <2>4, WhoIsWho DEF KeyAcknowledged, SendPacket, PacketGoesOut, Go
  <2>5. CASE StreamEnds(c) \/ StreamFails(c)
    <3>1. PICK p \in {"unkeyAll", "unkeyCut"} : Unkey(c, p) /\ sent' = sent
      BY <2>5 DEF StreamEnds, StreamFails
    <3>2. pc'[c] = p
      BY <3>1, WhoIsWho DEF Unkey
    <3> QED
      BY <2>0, <3>1, <3>2
  <2>6. CASE CallUnkeyed(c) \/ CwSpeedSet(c) \/ CwSent(c) \/ CwFails(c) \/ CwEnds(c)
    BY <2>6, WhoIsWho DEF CallUnkeyed, CwSpeedSet, CwSent, CwFails, CwEnds, Go, locals
  <2> QED
    BY <1>1, <2>1, <2>2, <2>3, <2>4, <2>5, <2>6 DEF CallStep
<1>2. ASSUME NEW s \in Stop, StopStep(s) PROVE pc[d] \in Early /\ sent'[d] = sent[d]
  <2>1. CASE Halts(s) \/ TakesVoice(s) \/ UnkeysForExit(s)
    <3>1. Unkey(s, "unkeying") /\ sent' = sent
      BY <2>1 DEF Halts, TakesVoice, UnkeysForExit, StopUnkeys
    <3>2. d \in Client /\ d # s
      BY TransmitterAssumption
    <3>3. pc'[d] \in {pc[d], "refused"}
      BY <3>1, <3>2 DEF Unkey
    <3> QED
      BY <3>1, <3>3
  <2>2. CASE LatchesForExit(s) \/ StopUnkeyed(s) \/ DisarmWritten(s)
    BY <2>2, WhoIsWho, TransmitterAssumption
       DEF LatchesForExit, StopUnkeyed, DisarmWritten, Go, locals
  <2> QED
    BY <1>2, <2>1, <2>2 DEF StopStep
<1>3. CASE WatchdogFires \/ Arms \/ SettingsTurnOff \/ ReleasesVoice \/ RadioStep \/ UNCHANGED vars
  BY <1>3 DEF WatchdogFires, Arms, SettingsTurnOff, ReleasesVoice, RadioStep, vars, locals
<1> QED
  BY <1>1, <1>2, <1>3 DEF Next

TypeInv == TypeOK /\ NothingSentYet

LEMMA TypeInvStep == TypeInv /\ [Next]_vars => TypeInv'
  BY CallTypeOK, StopTypeOK, OthersTypeOK, NothingSentYetStep DEF TypeInv, Next

LEMMA TypeInvariant == Spec => []TypeInv
<1>1. Init => TypeInv
  BY InitTypeOK DEF TypeInv, NothingSentYet, Init
<1> QED
  BY <1>1, TypeInvStep, PTL DEF Spec

\* Every variable keeps its type, and no call sends more packets than its
\* waveform has (streamAudio in lib/flex/tx.ts).
THEOREM TypeCorrect == Spec => []TypeOK
<1>1. TypeInv => TypeOK
  BY DEF TypeInv
<1> QED
  BY <1>1, TypeInvariant, PTL

---------------------------------------------------------------------------
(* Nothing keys once the gate is shut.  The gate alone does not give this: *)
(* a reading of it may be in flight when it shuts.  What closes the race is*)
(* that every shutting is followed by an unkey(), whose stopGen overtakes  *)
(* the calls that began before it, while those that begin later read a gate*)
(* that already says no.  GateInv is that argument as an invariant.        *)


\* c may not key: it is past keying, overtaken by a stop, or refused by the gate.
Barred(c) ==
    pc[c] \in {"gate", "window", "regate", "cwWpm"} /\ stopsAtStart[c] = stopGen
        => pc[c] = "gate" /\ reading[c] = "off"

StopsCount == \A c \in Call : stopsAtStart[c] <= stopGen

ExitLatches ==
    \A s \in Stop :
        kind[s] = "restart" /\ pc[s] # "idle" => exitLatched /\ pc[s] # "writing"

GateInv ==
    /\ StopsCount
    /\ ExitLatches
    /\ Shut => \A c \in Call : Barred(c)

LEMMA GateInvInit == Init => GateInv
<1> SUFFICES ASSUME Init PROVE GateInv
  OBVIOUS
<1>1. \A x \in Client : pc[x] = "idle"
  BY DEF Init
<1>2. StopsCount
  BY DEF StopsCount, Init
<1> QED
  BY <1>1, <1>2, WhoIsWho DEF GateInv, ExitLatches, Barred

LEMMA ShutClosesGate == GateInv /\ Shut => ReadingStarts = "off"
  BY DEF GateInv, ExitLatches, Shut, ReadingStarts

---------------------------------------------------------------------------
(* stopGen never falls, and a call begins at the count it finds. *)

LEMMA CallStops ==
  ASSUME TypeOK, NEW c \in Call, CallStep(c)
  PROVE  /\ stopGen' \in {stopGen, stopGen + 1}
         /\ stopsAtStart' = stopsAtStart
              \/ (Begin(c) /\ stopsAtStart' = [stopsAtStart EXCEPT ![c] = stopGen])
<1>1. CASE Begin(c)
  BY <1>1 DEF Begin, flags
<1>2. CASE ReadSetting(c) \/ RefusedAtGate(c) \/ DroppedAfterGate(c) \/ Accepts(c)
  BY <1>2 DEF ReadSetting, RefusedAtGate, DroppedAfterGate, Accepts, TakesAndWaits,
     TakesAndRereads, TakesAndKeys, TakesForCw, Takes, flags, locals
<1>3. CASE WindowBegins(c) \/ DroppedBeforeKeying(c) \/ Keys(c) \/ KeyAcknowledged(c) \/ KeyFails(c)
  BY <1>3 DEF WindowBegins, DroppedBeforeKeying, Keys, KeyAcknowledged, KeyFails, locals
<1>4. CASE SendPacket(c) \/ CallUnkeyed(c) \/ CwSpeedSet(c) \/ CwSent(c) \/ CwFails(c) \/ CwEnds(c)
  BY <1>4 DEF SendPacket, CallUnkeyed, Unkeyed, CwSpeedSet, CwSent, CwFails, CwEnds, flags, locals
<1>5. CASE StreamEnds(c) \/ StreamFails(c)
  BY <1>5 DEF StreamEnds, StreamFails, Unkey
<1> QED
  BY <1>1, <1>2, <1>3, <1>4, <1>5 DEF CallStep

LEMMA StopStops ==
  ASSUME TypeOK, NEW s \in Stop, StopStep(s)
  PROVE  stopGen' \in {stopGen, stopGen + 1} /\ stopsAtStart' = stopsAtStart
<1>1. CASE Halts(s) \/ TakesVoice(s) \/ UnkeysForExit(s)
  BY <1>1 DEF Halts, TakesVoice, UnkeysForExit, StopUnkeys, Unkey
<1>2. CASE LatchesForExit(s) \/ StopUnkeyed(s) \/ DisarmWritten(s)
  BY <1>2 DEF LatchesForExit, StopUnkeyed, Unkeyed, DisarmWritten, flags, locals
<1> QED
  BY <1>1, <1>2 DEF StopStep

Others == WatchdogFires \/ Arms \/ SettingsTurnOff \/ ReleasesVoice \/ RadioStep \/ UNCHANGED vars

LEMMA OthersStops ==
  ASSUME TypeOK, Others
  PROVE  stopGen' \in {stopGen, stopGen + 1} /\ stopsAtStart' = stopsAtStart
  BY DEF Others, WatchdogFires, Arms, SettingsTurnOff, ReleasesVoice, RadioStep, vars, flags, locals

LEMMA StopsCountStep ==
  ASSUME TypeOK, StopsCount, [Next]_vars
  PROVE  StopsCount'
<1>1. ASSUME NEW c \in Call, CallStep(c) PROVE StopsCount'
  BY <1>1, CallStops DEF StopsCount, TypeOK
<1>2. ASSUME NEW s \in Stop, StopStep(s) PROVE StopsCount'
  BY <1>2, StopStops DEF StopsCount, TypeOK
<1>3. CASE Others
  BY <1>3, OthersStops DEF StopsCount, TypeOK
<1> QED
  BY <1>1, <1>2, <1>3 DEF Next, Others

---------------------------------------------------------------------------
(* The gate, the kinds and the stops themselves. *)

LEMMA CallLeavesStops ==
  ASSUME TypeOK, NEW c \in Call, CallStep(c)
  PROVE  UNCHANGED <<gateVars, kind>> /\ \A s \in Stop : pc'[s] = pc[s]
<1>0. \A s \in Stop : s \in Client /\ s \notin Call /\ s # c
  BY TransmitterAssumption
<1>c. Superseded \subseteq Call /\ Cancelled \subseteq Call
  BY DEF Superseded, Cancelled, TypeOK
<1> USE <1>0 DEF TypeOK
<1>1. CASE Begin(c) \/ ReadSetting(c) \/ RefusedAtGate(c)
  BY <1>1 DEF Begin, ReadSetting, RefusedAtGate, Go, locals
<1>2. CASE DroppedAfterGate(c) \/ Accepts(c)
  BY <1>2, <1>c DEF DroppedAfterGate, Accepts, TakesAndWaits, TakesAndRereads, TakesAndKeys,
     TakesForCw, Takes, PassesGate, locals
<1>3. CASE WindowBegins(c) \/ DroppedBeforeKeying(c) \/ Keys(c) \/ KeyAcknowledged(c) \/ KeyFails(c)
  BY <1>3 DEF WindowBegins, DroppedBeforeKeying, Keys, KeyAcknowledged, KeyFails, Go, locals
<1>4. CASE SendPacket(c) \/ CallUnkeyed(c) \/ CwSpeedSet(c) \/ CwSent(c) \/ CwFails(c) \/ CwEnds(c)
  BY <1>4 DEF SendPacket, CallUnkeyed, CwSpeedSet, CwSent, CwFails, CwEnds, Go, locals
<1>5. CASE StreamEnds(c) \/ StreamFails(c)
  BY <1>5, <1>c DEF StreamEnds, StreamFails, Unkey
<1> QED
  BY <1>1, <1>2, <1>3, <1>4, <1>5 DEF CallStep

\* A stop moves only itself, keeps its kind, and latches the gate if it is for exit.
LEMMA StopAlone ==
  ASSUME TypeOK, NEW s \in Stop, StopStep(s)
  PROVE  /\ kind' = kind
         /\ \A t \in Stop \ {s} : pc'[t] = pc[t]
         /\ exitLatched' = exitLatched \/ (LatchesForExit(s) /\ exitLatched' = TRUE)
         /\ digitalHold' = digitalHold \/ TakesVoice(s)
         /\ pc[s] = "idle" => LatchesForExit(s) \/ kind[s] # "restart"
         /\ pc[s] # "idle" /\ pc'[s] = "unkeying" => UnkeysForExit(s)
         /\ pc[s] # "idle" => pc[s] \in {"tuneOff", "unkeying", "writing"}
         /\ pc'[s] = "done" => pc[s] \in {"unkeying", "writing"}
         /\ pc'[s] = "writing" => kind[s] = "disarm"
<1>0. \A t \in Stop : t \in Client /\ t \notin Call
  BY TransmitterAssumption
<1>c. Cancelled \subseteq Call
  BY DEF Cancelled, TypeOK
<1> USE <1>0 DEF TypeOK
<1>1. CASE Halts(s)
  BY <1>1, <1>c DEF Halts, StopUnkeys, Unkey, gateVars
<1>2. CASE TakesVoice(s)
  BY <1>2, <1>c DEF TakesVoice, SetDigitalTransmitHold, StopUnkeys, Unkey
<1>3. CASE UnkeysForExit(s)
  BY <1>3, <1>c DEF UnkeysForExit, Unkey, gateVars
<1>4. CASE LatchesForExit(s)
  BY <1>4 DEF LatchesForExit, CloseTransmitGateForExit, Go, locals
<1>5. CASE StopUnkeyed(s)
  BY <1>5 DEF StopUnkeyed, Go, gateVars, locals
<1>6. CASE DisarmWritten(s)
  BY <1>6 DEF DisarmWritten, WriteAllowTransmit, Go, locals
<1> QED
  BY <1>1, <1>2, <1>3, <1>4, <1>5, <1>6 DEF StopStep

LEMMA ExitLatchesStep ==
  ASSUME TypeOK, ExitLatches, [Next]_vars
  PROVE  ExitLatches'
<1>1. ASSUME NEW c \in Call, CallStep(c) PROVE ExitLatches'
  BY <1>1, CallLeavesStops DEF ExitLatches, gateVars
<1>2. ASSUME NEW s \in Stop, StopStep(s) PROVE ExitLatches'
  <2> SUFFICES ASSUME NEW t \in Stop, kind'[t] = "restart", pc'[t] # "idle"
               PROVE  exitLatched' /\ pc'[t] # "writing"
    BY DEF ExitLatches
  <2>1. kind[t] = "restart"
    BY <1>2, StopAlone
  <2>2. exitLatched => exitLatched'
    BY <1>2, StopAlone, Zenon
  <2>3. CASE t # s
    BY <1>2, <2>1, <2>2, <2>3, StopAlone DEF ExitLatches
  <2>4. CASE t = s
    <3>1. pc'[t] # "writing"
      BY <1>2, <2>1, <2>4, StopAlone
    <3>2. CASE pc[s] = "idle"
      <4>1. exitLatched' = TRUE
        BY <1>2, <2>1, <2>4, <3>2, StopAlone DEF LatchesForExit, CloseTransmitGateForExit
      <4> QED
        BY <3>1, <4>1
    <3>3. CASE pc[s] # "idle"
      BY <2>1, <2>2, <2>4, <3>1, <3>3 DEF ExitLatches
    <3> QED
      BY <3>2, <3>3
  <2> QED
    BY <2>3, <2>4
<1>3. CASE Others
  <2>1. exitLatched' = exitLatched /\ UNCHANGED <<pc, kind>>
    BY <1>3 DEF Others, WatchdogFires, Arms, SettingsTurnOff, ReleasesVoice, RadioStep, vars,
       WriteAllowTransmit, SetDigitalTransmitHold, gateVars, locals
  <2> QED
    BY <2>1 DEF ExitLatches
<1> QED
  BY <1>1, <1>2, <1>3 DEF Next, Others

---------------------------------------------------------------------------
(* Shut bars every call. *)

\* A stop overtakes every call there is.
LEMMA StopBarsAll ==
  ASSUME TypeOK, StopsCount, stopGen' = stopGen + 1, stopsAtStart' = stopsAtStart
  PROVE  \A c \in Call : Barred(c)'
  BY DEF TypeOK, StopsCount, Barred

\* A barred call stays barred unless it moves, begins, or has its gate read.
LEMMA StaysBarred ==
  ASSUME TypeOK, StopsCount, NEW d \in Call, Barred(d),
         stopGen' \in {stopGen, stopGen + 1}, stopsAtStart'[d] = stopsAtStart[d],
         pc'[d] = pc[d] \/ pc'[d] \notin {"gate", "window", "regate", "cwWpm"},
         reading'[d] = reading[d]
  PROVE  Barred(d)'
<1>1. stopsAtStart[d] \in Nat /\ stopGen \in Nat /\ stopsAtStart[d] <= stopGen
  BY DEF TypeOK, StopsCount
<1>2. stopsAtStart'[d] = stopGen' => stopsAtStart[d] = stopGen
  BY <1>1
<1>3. CASE pc'[d] = pc[d]
  BY <1>2, <1>3 DEF Barred
<1>4. CASE pc'[d] \notin {"gate", "window", "regate", "cwWpm"}
  BY <1>4 DEF Barred
<1> QED
  BY <1>3, <1>4

LEMMA CallsStayBarred ==
  ASSUME TypeOK, GateInv, Shut, NEW c \in Call, CallStep(c)
  PROVE  \A d \in Call : Barred(d)'
<1> SUFFICES ASSUME NEW d \in Call PROVE Barred(d)'
  OBVIOUS
<1>0. StopsCount /\ Barred(d) /\ Barred(c) /\ stopGen' \in {stopGen, stopGen + 1}
  BY CallStops DEF GateInv
<1>i. c \in Client /\ d \in Client
  BY WhoIsWho
<1> USE DEF TypeOK
<1>1. CASE Begin(c)
  <2>1. reading'[c] = "off" /\ pc'[c] = "gate"
    BY <1>1, <1>i, ShutClosesGate DEF Begin, Go
  <2>2. CASE d = c
    BY <2>1, <2>2 DEF Barred
  <2>3. CASE d # c
    BY <1>0, <1>1, <1>i, <2>3, StaysBarred DEF Begin, Go
  <2> QED
    BY <2>2, <2>3
<1>2. CASE ReadSetting(c)
  <2>1. CASE d = c
    <3>1. stopsAtStart[c] # stopGen
      BY <1>0, <1>2 DEF ReadSetting, Barred
    <3> QED
      BY <1>2, <2>1, <3>1 DEF ReadSetting, Barred, flags
  <2>2. CASE d # c
    BY <1>0, <1>2, <2>2, StaysBarred DEF ReadSetting
  <2> QED
    BY <2>1, <2>2
<1>3. CASE RefusedAtGate(c) \/ DroppedAfterGate(c)
  BY <1>0, <1>3, <1>i, StaysBarred DEF RefusedAtGate, DroppedAfterGate, PassesGate, Go, locals
<1>4. CASE Accepts(c)
  BY <1>0, <1>4
     DEF Accepts, TakesAndWaits, TakesAndRereads, TakesAndKeys, TakesForCw, Takes, PassesGate, Barred
<1>5. CASE WindowBegins(c)
  <2>1. stopsAtStart[c] # stopGen
    BY <1>0, <1>5 DEF WindowBegins, Barred
  <2>2. CASE d = c
    BY <1>5, <2>1, <2>2 DEF WindowBegins, Barred
  <2>3. CASE d # c
    BY <1>0, <1>5, <1>i, <2>3, StaysBarred DEF WindowBegins, Go
  <2> QED
    BY <2>2, <2>3
<1>6. CASE DroppedBeforeKeying(c) \/ Keys(c) \/ KeyAcknowledged(c) \/ KeyFails(c)
  BY <1>0, <1>6, <1>i, StaysBarred
     DEF DroppedBeforeKeying, Keys, KeyAcknowledged, KeyFails, Go, locals
<1>7. CASE SendPacket(c) \/ CallUnkeyed(c) \/ CwSpeedSet(c) \/ CwSent(c) \/ CwFails(c) \/ CwEnds(c)
  BY <1>0, <1>7, <1>i, StaysBarred
     DEF SendPacket, CallUnkeyed, CwSpeedSet, CwSent, CwFails, CwEnds, Go, locals
<1>8. CASE StreamEnds(c) \/ StreamFails(c)
  BY <1>0, <1>8, <1>i, StaysBarred DEF StreamEnds, StreamFails, Unkey
<1> QED
  BY <1>1, <1>2, <1>3, <1>4, <1>5, <1>6, <1>7, <1>8 DEF CallStep

LEMMA StopsBar ==
  ASSUME TypeOK, GateInv, NEW s \in Stop, StopStep(s), Shut'
  PROVE  \A d \in Call : Barred(d)'
<1>0. StopsCount /\ stopsAtStart' = stopsAtStart /\ stopGen' \in {stopGen, stopGen + 1}
  BY StopStops DEF GateInv
<1>1. CASE stopGen' = stopGen + 1
  BY <1>0, <1>1, StopBarsAll
<1>2. CASE stopGen' = stopGen
  <2>1. LatchesForExit(s) \/ StopUnkeyed(s) \/ DisarmWritten(s)
    <3>1. stopGen' # stopGen + 1
      BY <1>2 DEF TypeOK
    <3>2. ~Halts(s) /\ ~TakesVoice(s) /\ ~UnkeysForExit(s)
      BY <3>1 DEF Halts, TakesVoice, UnkeysForExit, StopUnkeys, Unkey
    <3> QED
      BY <3>2 DEF StopStep
  <2>2. s \in Client /\ s \notin Call /\ Stop \subseteq Client /\ Call \subseteq Client
    BY TransmitterAssumption
  <2>3. /\ \A d \in Call : pc'[d] = pc[d]
        /\ UNCHANGED <<reading, kind, digitalHold>>
    BY <2>1, <2>2 DEF LatchesForExit, StopUnkeyed, DisarmWritten, Go, locals, gateVars, TypeOK,
       CloseTransmitGateForExit, WriteAllowTransmit
  <2>4. \A t \in Stop : kind[t] = "restart" /\ pc'[t] \in {"unkeying", "done"}
                          => pc[t] \in {"unkeying", "done"}
    BY <2>1, <2>2 DEF LatchesForExit, StopUnkeyed, DisarmWritten, Go, TypeOK, GateInv, ExitLatches
  <2>5. Shut
    BY <2>3, <2>4 DEF Shut
  <2> QED
    BY <1>0, <2>3, <2>5, StaysBarred DEF GateInv
<1> QED
  BY <1>0, <1>1, <1>2

LEMMA GateInvStep == TypeOK /\ GateInv /\ [Next]_vars => GateInv'
<1> SUFFICES ASSUME TypeOK, GateInv, [Next]_vars PROVE GateInv'
  OBVIOUS
<1>1. StopsCount' /\ ExitLatches'
  BY StopsCountStep, ExitLatchesStep DEF GateInv
<1>2. ASSUME Shut' PROVE \A d \in Call : Barred(d)'
  <2>1. ASSUME NEW c \in Call, CallStep(c) PROVE \A d \in Call : Barred(d)'
    <3>1. Shut
      BY <1>2, <2>1, CallLeavesStops DEF Shut, gateVars
    <3> QED
      BY <2>1, <3>1, CallsStayBarred
  <2>2. ASSUME NEW s \in Stop, StopStep(s) PROVE \A d \in Call : Barred(d)'
    BY <1>2, <2>2, StopsBar
  <2>3. CASE Others
    <3>1. UNCHANGED <<pc, kind, reading>> /\ (digitalHold' = digitalHold \/ digitalHold' = FALSE)
      BY <2>3 DEF Others, WatchdogFires, Arms, SettingsTurnOff, ReleasesVoice, RadioStep, vars,
         WriteAllowTransmit, SetDigitalTransmitHold, gateVars, locals
    <3>2. digitalHold' => digitalHold
      BY <3>1, Zenon
    <3>3. Shut
      BY <1>2, <3>1, <3>2 DEF Shut
    <3> QED
      BY <2>3, <3>1, <3>3, OthersStops, StaysBarred DEF GateInv
  <2> QED
    BY <2>1, <2>2, <2>3 DEF Next, Others
<1> QED
  BY <1>1, <1>2 DEF GateInv

LEMMA BarredNeverKeys ==
  TypeOK /\ GateInv /\ [Next]_vars => [\A c \in Call : StartsRf(c) => ~Shut]_vars
<1> SUFFICES ASSUME TypeOK, GateInv, Next, NEW d \in Call, StartsRf(d), Shut PROVE FALSE
  BY DEF StartsRf, vars
<1>0. Barred(d) /\ pc'[d] # pc[d] /\ pc'[d] \in {"keying", "cwSend"}
  BY DEF GateInv, StartsRf
<1> USE WhoIsWho DEF TypeOK
<1>1. ASSUME NEW c \in Call, CallStep(c) PROVE FALSE
  <2>0. d # c => pc'[d] \in {pc[d], "refused"}
    BY <1>1, OthersGiveWay
  <2>1. d = c
    BY <1>0, <2>0
  <2>2. TakesAndKeys(d) \/ Keys(d) \/ CwSpeedSet(d)
    BY <1>0, <1>1, <2>1 DEF CallStep, Begin, ReadSetting, RefusedAtGate, DroppedAfterGate, Accepts,
       TakesAndWaits, TakesAndRereads, TakesForCw, Takes, PassesGate, WindowBegins,
       DroppedBeforeKeying, KeyAcknowledged, KeyFails, SendPacket, StreamEnds, StreamFails,
       CallUnkeyed, CwSent, CwFails, CwEnds, Go, Unkey
  <2> QED
    BY <1>0, <2>2 DEF TakesAndKeys, Keys, CwSpeedSet, Takes, PassesGate, Barred
<1>2. ASSUME NEW s \in Stop, StopStep(s) PROVE FALSE
  <2>1. d \in Client /\ d # s
    BY TransmitterAssumption
  <2>2. CASE Halts(s) \/ TakesVoice(s) \/ UnkeysForExit(s)
    BY <1>0, <2>1, <2>2 DEF Halts, TakesVoice, UnkeysForExit, StopUnkeys, Unkey
  <2>3. CASE LatchesForExit(s) \/ StopUnkeyed(s) \/ DisarmWritten(s)
    BY <1>0, <2>1, <2>3 DEF LatchesForExit, StopUnkeyed, DisarmWritten, Go
  <2> QED
    BY <1>2, <2>2, <2>3 DEF StopStep
<1>3. CASE Others
  BY <1>0, <1>3 DEF Others, WatchdogFires, Arms, SettingsTurnOff, ReleasesVoice, RadioStep, vars
<1> QED
  BY <1>1, <1>2, <1>3 DEF Next, Others

\* Once voice mode holds the gate, or the bridge has latched it to restart and
\* begun to unkey, nothing starts RF: isTransmitArmed and the stopGen checks of
\* transmit, transmitCw and keyAndStream together leave no way through.
THEOREM NothingKeys == Spec => NothingKeysOnceShut
<1>1. Init => GateInv
  BY GateInvInit
<1>2. TypeInv /\ GateInv /\ [Next]_vars => GateInv'
  BY GateInvStep DEF TypeInv
<1>3. TypeInv /\ GateInv /\ [Next]_vars => [\A c \in Call : StartsRf(c) => ~Shut]_vars
  BY BarredNeverKeys DEF TypeInv
<1> QED
  BY <1>1, <1>2, <1>3, TypeInvariant, PTL DEF Spec, NothingKeysOnceShut

---------------------------------------------------------------------------
(* One call at a time holds the transmitter, and its flags say which:      *)
(* OneHolder is inductive over the type invariant as it stands, since it   *)
(* says of every flag what the next refusal, takeover or stop relies on.   *)
(* With it the Flex transmitter implements Transmitter: every step of it   *)
(* is a step of the promise, or changes nothing the promise speaks of.     *)
(* The flags decide whom a newcomer displaces, so OneHolder is needed to   *)
(* see that it displaces exactly the holder; and `overtaken` is read off   *)
(* stopGen, so the count of stops must never run behind a call.            *)

HolderInv == TypeOK /\ OneHolder

LEMMA OneHolderInit == Init => OneHolder
  BY WhoIsWho DEF Init, OneHolder, Owners, Owning

\* What a stop, or the holder's own unkey(), finds waiting: nothing, or the holder.
LEMMA CancelledHolds ==
  ASSUME HolderInv, NEW d \in Cancelled
  PROVE  d \in Owners /\ gen[d] = txGen /\ pc[d] = "window" /\ ~keyed
  BY DEF HolderInv, OneHolder, Owners, Owning, Cancelled

LEMMA UnkeyByStop ==
  ASSUME HolderInv, NEW s \in Stop, NEW place \in StopPlaces, Unkey(s, place),
         UNCHANGED gen
  PROVE  OneHolder'
<1>1. s \notin Call /\ s \in Client
  BY TransmitterAssumption
<1>2. txGen' = txGen /\ gen' = gen /\ keyed' = keyed
      /\ pendingKey' = IF Cancelled = {} THEN pendingKey ELSE None
  BY Zenon DEF Unkey
<1>3. \A c \in Call : pc'[c] = IF c \in Cancelled THEN "refused" ELSE pc[c]
  BY <1>1, WhoIsWho DEF Unkey
<1>4. CASE Cancelled = {}
  <2>1. busy' = (busy /\ TRUE)
    BY <1>4, Zenon DEF Unkey
  <2>2. busy' <=> busy
    BY <2>1
  <2>3. Owners' = Owners
    BY <1>3, <1>4 DEF Owners
  <2>4. \A c \in Call : pc'[c] = pc[c]
    BY <1>3, <1>4
  <2> QED
    BY <1>2, <1>4, <2>2, <2>3, <2>4 DEF HolderInv, OneHolder, Owners
<1>5. CASE Cancelled # {}
  <2>1. PICK d \in Cancelled : TRUE
    BY <1>5
  <2>2. d \in Owners /\ gen[d] = txGen /\ pc[d] = "window" /\ ~keyed
    BY CancelledHolds
  <2>3. ~busy'
    BY <2>2, Zenon DEF Unkey
  <2>4. Owners' = {}
    BY <1>3, <2>2 DEF HolderInv, OneHolder, Owners, Owning
  <2> QED
    BY <1>2, <1>5, <2>2, <2>3, <2>4 DEF OneHolder
<1> QED
  BY <1>4, <1>5

LEMMA UnkeyByHolder ==
  ASSUME HolderInv, NEW c \in Call, pc[c] = "streaming",
         NEW place \in {"unkeyAll", "unkeyCut"}, Unkey(c, place), UNCHANGED gen
  PROVE  OneHolder'
<1>1. c \in Owners /\ c \in Client
  BY WhoIsWho DEF Owners, Owning
<1>2. Cancelled = {}
  BY <1>1, CancelledHolds DEF HolderInv, OneHolder
<1>3. txGen' = txGen /\ gen' = gen /\ keyed' = keyed /\ pendingKey' = pendingKey
  BY <1>2, Zenon DEF Unkey
<1>4. busy' <=> busy
  BY <1>2, Zenon DEF Unkey
<1>5. pc' = [pc EXCEPT ![c] = place]
  BY <1>1, <1>2 DEF Unkey, HolderInv, TypeOK
<1>6. Owners' = Owners
  BY <1>1, <1>5, WhoIsWho DEF Owners, Owning, HolderInv, TypeOK
<1>7. pendingKey = None
  BY <1>1, <1>2 DEF HolderInv, OneHolder, Owners, Owning
<1>8. pc'[c] = place
  BY <1>1, <1>5 DEF HolderInv, TypeOK
<1> QED
  BY <1>1, <1>3, <1>4, <1>6, <1>7, <1>8 DEF HolderInv, OneHolder

\* Whoever holds the transmitter and lets it go leaves nobody holding it.
LEMMA HolderLeaves ==
  ASSUME HolderInv, NEW c \in Owners, NEW place \in {"sent", "refused"}, Go(c, place),
         UNCHANGED <<txGen, gen>>, ~busy', pendingKey' = None, ~keyed'
  PROVE  OneHolder'
<1>1. Owners' = {}
  BY WhoIsWho DEF HolderInv, TypeOK, OneHolder, Owners, Owning, Go
<1> QED
  BY <1>1 DEF OneHolder

LEMMA LetGoLets ==
  ASSUME HolderInv, NEW c \in Owners, LetGo(c)
  PROVE  ~busy' /\ pendingKey' = None
<1>1. gen[c] = txGen
  BY DEF HolderInv, OneHolder
<1> QED
  BY <1>1, Zenon DEF LetGo

\* A call that passes the gate finds nobody but a waiting call, and displaces it.
LEMMA PassesAlone ==
  ASSUME HolderInv, NEW c \in Call, NEW place \in CallPlaces, PassesGate(c, place)
  PROVE  /\ \A d \in Call \ {c} : pc'[d] \notin Owning
         /\ pc'[c] = place
         /\ ~keyed
<1>1. ~keyed /\ (busy => Superseded # {})
  BY Zenon DEF PassesGate, InUse
<1>2. busy => Superseded = {pendingKey} /\ pendingKey # None
  BY <1>1 DEF Superseded
<1>3. ASSUME NEW d \in Call, d # c, pc[d] \in Owning PROVE d \in Superseded
  <2>1. d \in Owners /\ busy
    BY <1>3 DEF Owners, HolderInv, OneHolder
  <2>2. pendingKey \in Owners
    BY <1>2, <2>1 DEF Owners, Owning, HolderInv, OneHolder
  <2> QED
    BY <1>2, <2>1, <2>2 DEF HolderInv, OneHolder
<1>4. \A d \in Call \ {c} : pc'[d] \notin Owning
  BY <1>3, WhoIsWho DEF PassesGate, Owning
<1>5. pc'[c] = place
  BY WhoIsWho DEF PassesGate
<1> QED
  BY <1>1, <1>4, <1>5

LEMMA TakesAlone ==
  ASSUME HolderInv, NEW c \in Call, NEW place \in Owning \cap CallPlaces, Takes(c, place),
         pendingKey' = None \/ (pendingKey' = c /\ place = "window")
  PROVE  OneHolder'
<1>1. /\ \A d \in Call \ {c} : pc'[d] \notin Owning
      /\ pc'[c] = place
      /\ ~keyed
  BY PassesAlone DEF Takes
<1>2. Owners' = {c}
  BY <1>1 DEF Owners
<1>3. busy' = TRUE /\ keyed' = keyed /\ gen' = [gen EXCEPT ![c] = txGen + 1]
      /\ txGen' = txGen + 1
  BY Zenon DEF Takes
<1>4. gen'[c] = txGen'
  BY <1>3 DEF HolderInv, TypeOK
<1> QED
  BY <1>1, <1>2, <1>3, <1>4 DEF OneHolder

\* The holder moves on, and nobody else does.
LEMMA HolderMoves ==
  ASSUME HolderInv, NEW c \in Owners, NEW place \in Owning, Go(c, place),
         UNCHANGED <<busy, txGen, gen>>, pendingKey' = None,
         keyed' => place \in {"streaming", "unkeyAll", "unkeyCut"}
  PROVE  OneHolder'
<1>1. Owners' = Owners /\ pc'[c] = place
  BY WhoIsWho DEF HolderInv, TypeOK, OneHolder, Owners, Go
<1> QED
  BY <1>1 DEF HolderInv, OneHolder, Owners

\* Somebody who holds nothing moves to where nothing is held.
LEMMA OutsiderMoves ==
  ASSUME HolderInv, NEW x \in Client, NEW place, Go(x, place),
         x \in Call => pc[x] \notin Owning /\ place \notin Owning,
         UNCHANGED <<busy, txGen, gen, pendingKey>>, keyed' => keyed
  PROVE  OneHolder'
<1>1. \A d \in Call : pc[d] \in Owning => pc'[d] = pc[d]
  BY WhoIsWho DEF Go, HolderInv, TypeOK
<1>2. Owners' = Owners
  BY <1>1, WhoIsWho DEF Owners, Go, HolderInv, TypeOK
<1>3. \A d \in Call : pc[d] \in {"window", "streaming", "unkeyAll", "unkeyCut"} => pc'[d] = pc[d]
  BY <1>1 DEF Owning
<1> QED
  BY <1>2, <1>3 DEF HolderInv, OneHolder

LEMMA SameHolder ==
  ASSUME HolderInv, UNCHANGED <<busy, txGen, gen, pendingKey, pc>>, keyed' => keyed
  PROVE  OneHolder'
<1>1. Owners' = Owners
  BY DEF Owners
<1> QED
  BY <1>1 DEF HolderInv, OneHolder

LEMMA CallHolder ==
  ASSUME HolderInv, NEW c \in Call, CallStep(c)
  PROVE  OneHolder'
<1>c. c \in Client
  BY WhoIsWho
<1>o. pc[c] \in Owning <=> c \in Owners
  BY DEF Owners
<1>k. c \in Owners /\ pc[c] \notin {"streaming", "unkeyAll", "unkeyCut"} => ~keyed
  BY DEF HolderInv, OneHolder, Owners, Owning
<1>p. c \in Owners /\ pc[c] # "window" => pendingKey = None
  BY DEF HolderInv, OneHolder, Owners, Owning
<1>1. CASE Begin(c) \/ RefusedAtGate(c)
  BY <1>1, <1>c, OutsiderMoves DEF Begin, RefusedAtGate, Owning, flags, locals
<1>2. CASE ReadSetting(c) \/ SendPacket(c)
  BY <1>2, SameHolder DEF ReadSetting, SendPacket, flags
<1>3. CASE DroppedAfterGate(c)
  <2>1. /\ \A d \in Call \ {c} : pc'[d] \notin Owning
        /\ pc'[c] = "refused"
        /\ ~keyed
    BY <1>3, PassesAlone DEF DroppedAfterGate, CallPlaces
  <2>2. Owners' = {}
    BY <2>1 DEF Owners, Owning
  <2>3. busy' = FALSE /\ keyed' = keyed /\ pendingKey' = None
    BY <1>3, Zenon DEF DroppedAfterGate
  <2> QED
    BY <2>1, <2>2, <2>3 DEF OneHolder
<1>4. CASE Accepts(c)
  BY <1>4, TakesAlone
     DEF Accepts, TakesAndWaits, TakesAndRereads, TakesAndKeys, TakesForCw, Owning, CallPlaces
<1>5. CASE WindowBegins(c)
  BY <1>5, <1>k, <1>o, HolderMoves DEF WindowBegins, Owning
<1>6. CASE DroppedBeforeKeying(c) \/ CwEnds(c)
  <2>1. c \in Owners /\ ~keyed
    BY <1>6, <1>k, <1>o DEF DroppedBeforeKeying, CwEnds, Owning
  <2>2. LetGo(c) /\ keyed' = keyed /\ UNCHANGED <<txGen, gen>>
        /\ (Go(c, "refused") \/ Go(c, "sent"))
    BY <1>6, Zenon DEF DroppedBeforeKeying, CwEnds, locals
  <2> QED
    BY <2>1, <2>2, LetGoLets, HolderLeaves
<1>7. CASE Keys(c)
  BY <1>7, <1>k, <1>o, <1>p, HolderMoves DEF Keys, Owning, locals
<1>8. CASE KeyAcknowledged(c)
  BY <1>8, <1>o, <1>p, HolderMoves DEF KeyAcknowledged, Owning
<1>9. CASE KeyFails(c)
  <2>1. c \in Owners /\ ~keyed
    BY <1>9, <1>k, <1>o DEF KeyFails, Owning
  <2>2. gen[c] = txGen
    BY <2>1 DEF HolderInv, OneHolder
  <2>3. ~busy' /\ pendingKey' = None /\ keyed' = keyed /\ UNCHANGED <<txGen, gen>>
        /\ Go(c, "refused")
    BY <1>9, <2>2, Zenon DEF KeyFails, locals
  <2> QED
    BY <2>1, <2>3, HolderLeaves
<1>10. CASE StreamEnds(c) \/ StreamFails(c)
  BY <1>10, UnkeyByHolder DEF StreamEnds, StreamFails
<1>11. CASE CallUnkeyed(c)
  <2>1. c \in Owners
    BY <1>11, <1>o DEF CallUnkeyed, Owning
  <2>2. LetGo(c) /\ keyed' = FALSE /\ UNCHANGED <<txGen, gen>>
        /\ (Go(c, "refused") \/ Go(c, "sent"))
    BY <1>11 DEF CallUnkeyed, Unkeyed, locals
  <2> QED
    BY <2>1, <2>2, LetGoLets, HolderLeaves
<1>12. CASE CwSpeedSet(c) \/ CwSent(c)
  <2>1. c \in Owners /\ ~keyed /\ pendingKey = None
    BY <1>12, <1>k, <1>o, <1>p DEF CwSpeedSet, CwSent, Owning
  <2>2. UNCHANGED <<busy, txGen, gen, keyed, pendingKey>> /\ (Go(c, "cwSend") \/ Go(c, "cwTimer"))
    BY <1>12, Zenon DEF CwSpeedSet, CwSent, flags, locals
  <2>3. pendingKey' = None /\ ~keyed'
    BY <2>1, <2>2, Zenon
  <2> QED
    BY <2>1, <2>2, <2>3, HolderMoves DEF Owning
<1>13. CASE CwFails(c)
  <2>1. c \in Owners /\ ~keyed
    BY <1>13, <1>k, <1>o DEF CwFails, Owning
  <2>2. LetGo(c) /\ keyed' = keyed /\ UNCHANGED <<txGen, gen>> /\ Go(c, "refused")
    BY <1>13, Zenon DEF CwFails, locals
  <2> QED
    BY <2>1, <2>2, LetGoLets, HolderLeaves
<1> QED
  BY <1>1, <1>2, <1>3, <1>4, <1>5, <1>6, <1>7, <1>8, <1>9, <1>10, <1>11, <1>12, <1>13 DEF CallStep

LEMMA StopHolder ==
  ASSUME HolderInv, NEW s \in Stop, StopStep(s)
  PROVE  OneHolder'
<1>s. s \in Client /\ s \notin Call
  BY TransmitterAssumption
<1>1. CASE Halts(s) \/ TakesVoice(s) \/ UnkeysForExit(s)
  BY <1>1, UnkeyByStop DEF Halts, TakesVoice, UnkeysForExit, StopUnkeys, StopPlaces
<1>2. CASE LatchesForExit(s) \/ DisarmWritten(s)
  <2>1. UNCHANGED <<busy, keyed, txGen, gen, pendingKey>> /\ (Go(s, "tuneOff") \/ Go(s, "done"))
    BY <1>2 DEF LatchesForExit, DisarmWritten, flags, locals
  <2>2. keyed' => keyed
    BY <2>1, Zenon
  <2> QED
    BY <1>s, <2>1, <2>2, OutsiderMoves
<1>3. CASE StopUnkeyed(s)
  <2>1. ~keyed' /\ UNCHANGED <<busy, txGen, gen, pendingKey>>
    BY <1>3, Zenon DEF StopUnkeyed, Unkeyed, locals
  <2>2. PICK place : Go(s, place)
    BY <1>3 DEF StopUnkeyed
  <2> QED
    BY <1>s, <2>1, <2>2, OutsiderMoves
<1> QED
  BY <1>1, <1>2, <1>3 DEF StopStep

LEMMA HolderInvStep == HolderInv /\ TypeInv /\ [Next]_vars => OneHolder'
<1> SUFFICES ASSUME HolderInv, TypeInv, [Next]_vars PROVE OneHolder'
  OBVIOUS
<1>1. CASE WatchdogFires
  <2>1. ~keyed' /\ UNCHANGED <<busy, txGen, gen, pendingKey, pc>>
    BY <1>1, Zenon DEF WatchdogFires, locals
  <2> QED
    BY <2>1, SameHolder
<1>2. CASE Arms \/ SettingsTurnOff \/ ReleasesVoice \/ RadioStep \/ UNCHANGED vars
  <2>1. UNCHANGED <<busy, keyed, txGen, gen, pendingKey, pc>>
    BY <1>2 DEF Arms, SettingsTurnOff, ReleasesVoice, RadioStep, vars, flags, locals
  <2>2. keyed' => keyed
    BY <2>1, Zenon
  <2> QED
    BY <2>1, <2>2, SameHolder
<1> QED
  BY <1>1, <1>2, CallHolder, StopHolder DEF Next

\* At most one call holds the transmitter, `busy` and txGen name it, and `keyed`
\* is only ever its own (transmit, keyAndStream and unkey in lib/flex/tx.ts).
THEOREM OneCallHolds == Spec => []OneHolder
<1>1. Init => HolderInv
  BY InitTypeOK, OneHolderInit DEF HolderInv
<1>2. TypeInv /\ HolderInv /\ [Next]_vars /\ TypeInv' => HolderInv'
  BY HolderInvStep DEF HolderInv, TypeInv
<1>3. HolderInv => OneHolder
  BY DEF HolderInv
<1> QED
  BY <1>1, <1>2, <1>3, TypeInvariant, PTL DEF Spec

-----------------------------------------------------------------------------
(* The promise *)

PromiseInv == TypeOK /\ OneHolder /\ StopsCount

\* What the promise says of c's place.
PlaceName(p) ==
    IF p = "idle" THEN "out"
    ELSE IF p = "gate" THEN "asking"
    ELSE IF p \in Holding THEN "holding"
    ELSE IF p \in OnAir THEN "onAir"
    ELSE "ended"

LEMMA PlaceIs ==
  /\ placeOf = [c \in Call |-> PlaceName(pc[c])]
  /\ placeOf' = [c \in Call |-> PlaceName(pc'[c])]
  BY DEF placeOf, PlaceName

LEMMA PromiseInit == Init => Promise!TrInit
<1> SUFFICES ASSUME Init PROVE Promise!TrInit
  OBVIOUS
<1>1. \A c \in Call : pc[c] = "idle"
  BY WhoIsWho DEF Init
<1> QED
  BY <1>1, PlaceIs DEF Promise!TrInit, PlaceName, overtakenOf

LEMMA HoldersAre == Promise!Holders = Owners /\ Promise!At("holding") = {c \in Call : pc[c] \in Holding}
  BY PlaceIs DEF Promise!Holders, Promise!At, PlaceName, Owners, Owning, Holding, OnAir

\* Steps the promise does not see.
LEMMA Stutters ==
  ASSUME \A c \in Call : PlaceName(pc'[c]) = PlaceName(pc[c]) /\ (pc'[c] = "idle" <=> pc[c] = "idle"),
         UNCHANGED <<stopGen, stopsAtStart>>
  PROVE  UNCHANGED Promise!trVars
<1>1. placeOf' = placeOf
  BY PlaceIs
<1>2. overtakenOf' = overtakenOf
  BY DEF overtakenOf
<1> QED
  BY <1>1, <1>2 DEF Promise!trVars

\* A call goes from one place to another, and nobody else moves.
LEMMA MovesPlace ==
  ASSUME TypeOK, NEW c \in Call, NEW p \in CallPlaces, Go(c, p), pc[c] # "idle", p # "idle",
         UNCHANGED <<stopGen, stopsAtStart>>
  PROVE  placeOf' = [placeOf EXCEPT ![c] = PlaceName(p)] /\ overtakenOf' = overtakenOf
<1>1. \A d \in Call : pc'[d] = IF d = c THEN p ELSE pc[d]
  BY WhoIsWho DEF Go, TypeOK
<1>2. placeOf' = [placeOf EXCEPT ![c] = PlaceName(p)]
  BY <1>1, PlaceIs
<1>3. overtakenOf' = overtakenOf
  BY <1>1 DEF overtakenOf
<1> QED
  BY <1>2, <1>3

LEMMA EndsPromise ==
  ASSUME TypeOK, NEW c \in Owners, NEW p \in {"sent", "refused"}, Go(c, p),
         UNCHANGED <<stopGen, stopsAtStart>>
  PROVE  Promise!TrNext
<1>1. c \in Call /\ pc[c] \in Owning /\ PlaceName(p) = "ended"
  BY DEF Owners, PlaceName, Holding, OnAir
<1>2. placeOf[c] \in {"holding", "onAir"}
  BY <1>1, PlaceIs DEF PlaceName, Owning, Holding, OnAir
<1>3. placeOf' = [placeOf EXCEPT ![c] = "ended"] /\ overtakenOf' = overtakenOf
  BY <1>1, MovesPlace DEF CallPlaces, Owning
<1> QED
  BY <1>1, <1>2, <1>3 DEF Promise!TrNext, Promise!End

LEMMA GoesOnAir ==
  ASSUME TypeOK, NEW c \in Call, pc[c] \in Holding, NEW p \in OnAir, Go(c, p),
         stopGen = stopsAtStart[c], UNCHANGED <<stopGen, stopsAtStart>>
  PROVE  Promise!TrNext
<1>1. PlaceName(p) = "onAir" /\ placeOf[c] = "holding" /\ c \notin overtakenOf
  BY PlaceIs DEF PlaceName, Holding, OnAir, overtakenOf
<1>2. placeOf' = [placeOf EXCEPT ![c] = "onAir"] /\ overtakenOf' = overtakenOf
  BY <1>1, MovesPlace DEF CallPlaces, OnAir, Holding
<1> QED
  BY <1>1, <1>2 DEF Promise!TrNext, Promise!GoOnAir

\* A call leaves the gate, and those it supersedes give way.
LEMMA LeavesGate ==
  ASSUME PromiseInv, NEW c \in Call, NEW p \in CallPlaces, PassesGate(c, p),
         p \notin {"idle", "gate"}, UNCHANGED <<stopGen, stopsAtStart>>
  PROVE  /\ Superseded \in SUBSET Promise!At("holding")
         /\ Promise!Holders = Superseded
         /\ placeOf[c] = "asking"
         /\ placeOf' = [d \in Call |-> IF d = c THEN PlaceName(p)
                                       ELSE IF d \in Superseded THEN "ended"
                                       ELSE placeOf[d]]
         /\ overtakenOf' = overtakenOf
<1>1. ~keyed /\ (busy => Superseded # {})
  BY Zenon DEF PassesGate, InUse
<1>2. Superseded \subseteq {d \in Call : pc[d] \in Holding} /\ Owners = Superseded
  <2>1. CASE busy
    <3>1. Superseded = {pendingKey} /\ pendingKey # None
      BY <1>1, <2>1 DEF Superseded
    <3>2. pendingKey \in Call /\ pc[pendingKey] = "window"
      BY <3>1 DEF PromiseInv, OneHolder
    <3>3. Owners = {pendingKey}
      BY <3>2 DEF PromiseInv, OneHolder, Owners, Owning
    <3> QED
      BY <3>1, <3>2, <3>3 DEF Holding
  <2>2. CASE ~busy
    <3>1. Superseded = {}
      BY <2>2, Zenon DEF Superseded
    <3>2. Owners = {}
      BY <2>2 DEF PromiseInv, OneHolder
    <3> QED
      BY <3>1, <3>2
  <2> QED
    BY <2>1, <2>2
<1>3. \A d \in Call : pc'[d] = IF d = c THEN p ELSE IF d \in Superseded THEN "refused" ELSE pc[d]
  BY WhoIsWho DEF PassesGate
<1>4. placeOf' = [d \in Call |-> IF d = c THEN PlaceName(p)
                                 ELSE IF d \in Superseded THEN "ended"
                                 ELSE placeOf[d]]
  <2>1. PlaceName("refused") = "ended"
    BY DEF PlaceName, Holding, OnAir
  <2> QED
    BY <1>3, <2>1, PlaceIs
<1>5. overtakenOf' = overtakenOf
  <2>1. \A d \in Call : pc'[d] = "idle" <=> pc[d] = "idle"
    BY <1>2, <1>3 DEF PassesGate, Holding
  <2> QED
    BY <2>1 DEF overtakenOf
<1>6. placeOf[c] = "asking"
  BY PlaceIs DEF PassesGate, PlaceName
<1> QED
  BY <1>2, <1>4, <1>5, <1>6, HoldersAre

\* A stop overtakes every call that has begun, and ends those in `gone`.
LEMMA StopsAll ==
  ASSUME PromiseInv, stopGen' = stopGen + 1, stopsAtStart' = stopsAtStart,
         NEW gone \in SUBSET Owners,
         \A c \in Call : IF c \in gone THEN pc'[c] = "refused"
                         ELSE PlaceName(pc'[c]) = PlaceName(pc[c])
                              /\ (pc'[c] = "idle" <=> pc[c] = "idle")
  PROVE  Promise!TrNext
<1>1. \A c \in Call : stopsAtStart[c] # stopGen'
  BY DEF PromiseInv, TypeOK, StopsCount
<1>2. \A c \in Call : pc'[c] = "idle" <=> pc[c] = "idle"
  BY DEF Owners, Owning
<1>3. \A c \in Call : placeOf[c] # "out" <=> pc[c] # "idle"
  BY PlaceIs DEF PlaceName, Holding, OnAir
<1>4. overtakenOf' = {c \in Call : placeOf[c] # "out"}
  BY <1>1, <1>2, <1>3 DEF overtakenOf
<1>5. PlaceName("refused") = "ended"
  BY DEF PlaceName, Holding, OnAir
<1>6. placeOf' = [c \in Call |-> IF c \in gone THEN "ended" ELSE placeOf[c]]
  BY <1>5, PlaceIs
<1>7. gone \in SUBSET Promise!Holders
  BY HoldersAre
<1> QED
  BY <1>4, <1>6, <1>7 DEF Promise!TrNext, Promise!StopAll

LEMMA CancelledOwns == PromiseInv => Cancelled \subseteq Owners
  BY DEF PromiseInv, OneHolder, Cancelled, Owners, Owning

LEMMA CallPromise ==
  ASSUME PromiseInv, NEW c \in Call, CallStep(c)
  PROVE  [Promise!TrNext]_Promise!trVars
<1>i. c \in Client
  BY WhoIsWho
<1>t. TypeOK
  BY DEF PromiseInv
<1>o. pc[c] \in Owning <=> c \in Owners
  BY DEF Owners
<1>1. CASE Begin(c)
  <2>1. \A d \in Call : pc'[d] = IF d = c THEN "gate" ELSE pc[d]
    BY <1>1, <1>t, WhoIsWho DEF Begin, Go, TypeOK
  <2>2. placeOf[c] = "out" /\ placeOf' = [placeOf EXCEPT ![c] = "asking"]
    BY <1>1, <2>1, PlaceIs DEF Begin, PlaceName
  <2>3. stopGen' = stopGen /\ stopsAtStart' = [stopsAtStart EXCEPT ![c] = stopGen]
    BY <1>1 DEF Begin, flags
  <2>4. overtakenOf' = overtakenOf
    BY <1>1, <1>t, <2>1, <2>3 DEF Begin, overtakenOf, TypeOK
  <2> QED
    BY <2>2, <2>4 DEF Promise!TrNext, Promise!Ask
<1>2. CASE ReadSetting(c) \/ SendPacket(c)
  BY <1>2, Stutters DEF ReadSetting, SendPacket, flags
<1>3. CASE RefusedAtGate(c)
  <2>1. placeOf[c] = "asking" /\ PlaceName("refused") = "ended"
    BY <1>3, PlaceIs DEF RefusedAtGate, PlaceName, Holding, OnAir
  <2>2. placeOf' = [placeOf EXCEPT ![c] = "ended"] /\ overtakenOf' = overtakenOf
    BY <1>3, <1>t, <2>1, MovesPlace DEF RefusedAtGate, flags, locals, CallPlaces
  <2>3. placeOf' = [d \in Call |-> IF d = c THEN "ended"
                                   ELSE IF d \in {} THEN "ended" ELSE placeOf[d]]
    BY <2>2, PlaceIs
  <2>4. {} \in SUBSET Promise!At("holding")
    OBVIOUS
  <2>5. Promise!AnswerWith(c, "ended")
    BY <2>1, <2>2, <2>3, <2>4 DEF Promise!AnswerWith
  <2> QED
    BY <2>5 DEF Promise!TrNext, Promise!TurnAway
<1>4. CASE DroppedAfterGate(c)
  <2>1. PassesGate(c, "refused") /\ UNCHANGED <<stopGen, stopsAtStart>>
    BY <1>4 DEF DroppedAfterGate, locals
  <2>2. PlaceName("refused") = "ended"
    BY DEF PlaceName, Holding, OnAir
  <2>3. Promise!AnswerWith(c, "ended")
    BY <2>1, <2>2, LeavesGate DEF Promise!AnswerWith, CallPlaces
  <2> QED
    BY <2>3 DEF Promise!TrNext, Promise!TurnAway
<1>5. CASE Accepts(c)
  <2>1. PICK p \in {"window", "regate", "keying", "cwWpm"} : Takes(c, p)
    BY <1>5 DEF Accepts, TakesAndWaits, TakesAndRereads, TakesAndKeys, TakesForCw
  <2>2. PassesGate(c, p) /\ UNCHANGED <<stopGen, stopsAtStart>> /\ stopGen = stopsAtStart[c]
    BY <2>1 DEF Takes
  <2>3. PlaceName(p) \in {"holding", "onAir"}
    BY DEF PlaceName, Holding, OnAir
  <2>4. Promise!AnswerWith(c, PlaceName(p))
    BY <2>2, LeavesGate DEF Promise!AnswerWith, CallPlaces
  <2>5. c \notin overtakenOf
    BY <2>2 DEF overtakenOf
  <2> QED
    BY <2>3, <2>4, <2>5 DEF Promise!TrNext, Promise!Take, Promise!TakeOnAir
<1>6. CASE WindowBegins(c) \/ KeyAcknowledged(c) \/ CwSent(c)
  <2>1. UNCHANGED <<stopGen, stopsAtStart>>
    BY <1>6 DEF WindowBegins, KeyAcknowledged, CwSent, flags, locals
  <2>2. \A d \in Call : PlaceName(pc'[d]) = PlaceName(pc[d]) /\ (pc'[d] = "idle" <=> pc[d] = "idle")
    BY <1>6, <1>i, <1>t, WhoIsWho
       DEF WindowBegins, KeyAcknowledged, CwSent, Go, TypeOK, PlaceName, Holding, OnAir
  <2> QED
    BY <2>1, <2>2, Stutters
<1>7. CASE DroppedBeforeKeying(c) \/ KeyFails(c) \/ CallUnkeyed(c) \/ CwFails(c) \/ CwEnds(c)
  <2>1. c \in Owners
    BY <1>7, <1>o DEF DroppedBeforeKeying, KeyFails, CallUnkeyed, CwFails, CwEnds, Owning
  <2>2. UNCHANGED <<stopGen, stopsAtStart>> /\ (Go(c, "refused") \/ Go(c, "sent"))
    BY <1>7 DEF DroppedBeforeKeying, KeyFails, CallUnkeyed, Unkeyed, CwFails, CwEnds, locals
  <2> QED
    BY <1>t, <2>1, <2>2, EndsPromise
<1>8. CASE Keys(c)
  BY <1>8, <1>t, GoesOnAir DEF Keys, locals, Holding, OnAir
<1>9. CASE CwSpeedSet(c)
  BY <1>9, <1>t, GoesOnAir DEF CwSpeedSet, flags, locals, Holding, OnAir
<1>10. CASE StreamEnds(c) \/ StreamFails(c)
  <2>1. PICK p \in {"unkeyAll", "unkeyCut"} : Unkey(c, p)
    BY <1>10 DEF StreamEnds, StreamFails
  <2>2. stopGen' = stopGen + 1 /\ stopsAtStart' = stopsAtStart /\ pc[c] = "streaming"
    BY <1>10, <2>1 DEF StreamEnds, StreamFails, Unkey
  <2>3. c \in Owners /\ c \notin Cancelled
    BY <2>2, <1>o, <1>t DEF Cancelled, PromiseInv, OneHolder, Owning
  <2>4. Cancelled \in SUBSET Owners
    BY CancelledOwns
  <2>5. \A d \in Call : pc'[d] = IF d = c THEN p ELSE IF d \in Cancelled THEN "refused" ELSE pc[d]
    BY <2>1, WhoIsWho DEF Unkey
  <2>6. PlaceName(p) = PlaceName("streaming")
    BY DEF PlaceName, Holding, OnAir
  <2> QED
    BY <2>2, <2>3, <2>4, <2>5, <2>6, StopsAll
<1> QED
  BY <1>1, <1>2, <1>3, <1>4, <1>5, <1>6, <1>7, <1>8, <1>9, <1>10 DEF CallStep

LEMMA StopPromise ==
  ASSUME PromiseInv, NEW s \in Stop, StopStep(s)
  PROVE  [Promise!TrNext]_Promise!trVars
<1>i. s \in Client /\ s \notin Call /\ Call \subseteq Client
  BY TransmitterAssumption
<1>1. CASE Halts(s) \/ TakesVoice(s) \/ UnkeysForExit(s)
  <2>1. Unkey(s, "unkeying") /\ stopsAtStart' = stopsAtStart
    BY <1>1 DEF Halts, TakesVoice, UnkeysForExit, StopUnkeys
  <2>2. \A d \in Call : pc'[d] = IF d \in Cancelled THEN "refused" ELSE pc[d]
    BY <1>i, <2>1 DEF Unkey
  <2>3. stopGen' = stopGen + 1
    BY <2>1 DEF Unkey
  <2>4. Cancelled \in SUBSET Owners
    BY CancelledOwns
  <2> QED
    BY <2>1, <2>2, <2>3, <2>4, StopsAll
<1>2. CASE LatchesForExit(s) \/ StopUnkeyed(s) \/ DisarmWritten(s)
  <2>1. UNCHANGED <<stopGen, stopsAtStart>>
    BY <1>2 DEF LatchesForExit, StopUnkeyed, Unkeyed, DisarmWritten, flags, locals
  <2>2. \A d \in Call : pc'[d] = pc[d]
    BY <1>2, <1>i DEF LatchesForExit, StopUnkeyed, DisarmWritten, Go, PromiseInv, TypeOK
  <2> QED
    BY <2>1, <2>2, Stutters
<1> QED
  BY <1>1, <1>2 DEF StopStep

LEMMA PromiseStep ==
  PromiseInv /\ [Next]_vars => [Promise!TrNext]_Promise!trVars
<1> SUFFICES ASSUME PromiseInv, [Next]_vars PROVE [Promise!TrNext]_Promise!trVars
  OBVIOUS
<1>1. CASE WatchdogFires
  <2>1. stopGen' = stopGen + 1 /\ stopsAtStart' = stopsAtStart /\ pc' = pc
    BY <1>1 DEF WatchdogFires, locals
  <2>2. {} \in SUBSET Owners
    OBVIOUS
  <2> QED
    BY <2>1, <2>2, StopsAll
<1>2. CASE Arms \/ SettingsTurnOff \/ ReleasesVoice \/ RadioStep \/ UNCHANGED vars
  <2>1. UNCHANGED <<stopGen, stopsAtStart, pc>>
    BY <1>2 DEF Arms, SettingsTurnOff, ReleasesVoice, RadioStep, vars, flags, locals
  <2> QED
    BY <2>1, Stutters
<1> QED
  BY <1>1, <1>2, CallPromise, StopPromise DEF Next

LEMMA StopsNeverBehind == Spec => []StopsCount
<1>1. Init => GateInv
  BY GateInvInit
<1>2. TypeInv /\ GateInv /\ [Next]_vars => GateInv'
  BY GateInvStep DEF TypeInv
<1>3. GateInv => StopsCount
  BY DEF GateInv
<1> QED
  BY <1>1, <1>2, <1>3, TypeInvariant, PTL DEF Spec

\* FlexDaxTransmitter keeps the promise every transmitter makes to the operating
\* layer: one holder, nobody on the air displaced, nothing overtaken keyed.
THEOREM FlexKeepsPromise == Spec => KeepsPromise
<1>1. Init => Promise!TrInit
  BY PromiseInit
<1>2. PromiseInv /\ [Next]_vars => [Promise!TrNext]_Promise!trVars
  BY PromiseStep
<1>3. TypeOK /\ OneHolder /\ StopsCount => PromiseInv
  BY DEF PromiseInv
<1> QED
  BY <1>1, <1>2, <1>3, TypeCorrect, OneCallHolds, StopsNeverBehind, PTL
     DEF Spec, KeepsPromise, Promise!TrSpec

---------------------------------------------------------------------------
(* The order of replies.  On a link whose replies come in time every caller *)
(* waits for its own, so that who waits for what tells what the radio has   *)
(* done.  Commands are numbered in the order they are sent, and are taken   *)
(* and answered in it: a call whose unkey() has been answered was silenced, *)
(* and a stop that has been answered silenced every call that began before. *)

Members(q) == {q[i] : i \in 1 .. Len(q)}

Ascending(q) == \A i, j \in 1 .. Len(q) : i < j => q[i].seq < q[j].seq

LEMMA AppendMembers ==
  ASSUME NEW S, NEW q \in Seq(S), NEW e
  PROVE  Members(Append(q, e)) = Members(q) \cup {e}
<1>1. /\ Len(Append(q, e)) = Len(q) + 1
      /\ \A i \in 1 .. Len(q) : Append(q, e)[i] = q[i]
      /\ Append(q, e)[Len(q) + 1] = e
      /\ Len(q) \in Nat
  OBVIOUS
<1>2. 1 .. Len(q) + 1 = (1 .. Len(q)) \cup {Len(q) + 1}
  BY <1>1
<1> QED
  BY <1>1, <1>2 DEF Members

LEMMA TailMembers ==
  ASSUME NEW S, NEW q \in Seq(S), q # <<>>
  PROVE  /\ Head(q) \in Members(q)
         /\ Members(Tail(q)) \subseteq Members(q)
         /\ \A e \in Members(q) : e = Head(q) \/ e \in Members(Tail(q))
<1>1. /\ Len(q) \in Nat /\ Len(q) > 0
      /\ Len(Tail(q)) = Len(q) - 1
      /\ \A i \in 1 .. Len(q) - 1 : Tail(q)[i] = q[i + 1]
      /\ Head(q) = q[1]
  OBVIOUS
<1>2. Head(q) \in Members(q)
  BY <1>1 DEF Members
<1>3. \A i \in 1 .. Len(q) - 1 : i + 1 \in 1 .. Len(q)
  BY <1>1
<1>4. Members(Tail(q)) \subseteq Members(q)
  BY <1>1, <1>3 DEF Members
<1>5. ASSUME NEW i \in 1 .. Len(q) PROVE q[i] = Head(q) \/ q[i] \in Members(Tail(q))
  <2>1. CASE i = 1
    BY <1>1, <2>1
  <2>2. CASE i # 1
    <3>1. i - 1 \in 1 .. Len(Tail(q)) /\ Tail(q)[i - 1] = q[i]
      BY <1>1, <2>2
    <3> QED
      BY <3>1 DEF Members
  <2> QED
    BY <2>1, <2>2
<1> QED
  BY <1>2, <1>4, <1>5 DEF Members

LEMMA AppendAscending ==
  ASSUME NEW S, NEW q \in Seq(S), Ascending(q), NEW e, \A r \in Members(q) : r.seq < e.seq
  PROVE  Ascending(Append(q, e))
<1>1. /\ Len(Append(q, e)) = Len(q) + 1
      /\ \A i \in 1 .. Len(q) : Append(q, e)[i] = q[i]
      /\ Append(q, e)[Len(q) + 1] = e
      /\ Len(q) \in Nat
  OBVIOUS
<1>2. \A i, j \in 1 .. Len(q) + 1 : i < j => i \in 1 .. Len(q) /\ (j \in 1 .. Len(q) \/ j = Len(q) + 1)
  BY <1>1
<1>3. \A i \in 1 .. Len(q) : q[i].seq < e.seq
  BY DEF Members
<1> QED
  BY <1>1, <1>2, <1>3 DEF Ascending

LEMMA TailAscending ==
  ASSUME NEW S, NEW q \in Seq(S), q # <<>>, Ascending(q)
  PROVE  Ascending(Tail(q)) /\ \A r \in Members(Tail(q)) : Head(q).seq < r.seq
<1>1. /\ Len(q) \in Nat /\ Len(q) > 0
      /\ Len(Tail(q)) = Len(q) - 1
      /\ \A i \in 1 .. Len(q) - 1 : Tail(q)[i] = q[i + 1]
      /\ Head(q) = q[1]
  OBVIOUS
<1>2. \A i, j \in 1 .. Len(q) - 1 : i < j => i + 1 \in 1 .. Len(q) /\ j + 1 \in 1 .. Len(q) /\ i + 1 < j + 1
  BY <1>1
<1>3. \A j \in 1 .. Len(q) - 1 : 1 \in 1 .. Len(q) /\ j + 1 \in 1 .. Len(q) /\ 1 < j + 1
  BY <1>1
<1>4. Ascending(Tail(q))
  BY <1>1, <1>2 DEF Ascending
<1>5. \A j \in 1 .. Len(q) - 1 : Head(q).seq < Tail(q)[j].seq
  BY <1>1, <1>3 DEF Ascending
<1> QED
  BY <1>1, <1>4, <1>5 DEF Members

---------------------------------------------------------------------------
(* What a step does to the link. *)

Waits == {"keying", "unkeyAll", "unkeyCut", "unkeying"}

\* x neither sends nor reads, and does not change what it waits for.
Quietly(x) ==
    /\ UNCHANGED linkVars
    /\ pc'[x] = pc[x] \/ {pc[x], pc'[x]} \cap (Waits \cup {"streaming"}) = {}

\* x sends something that is no matter of PTT, or reads the answer to it.
Elsewise(x) ==
    /\ pc[x] \notin Waits \cup {"streaming"} /\ pc'[x] \notin Waits \cup {"streaming"}
    /\ \/ \E cmd \in Commands \ {"xmit 1"} :
            Send(x, cmd) /\ (replies' = replies \/ (replies # <<>> /\ replies' = Tail(replies)))
       \/ Answered(x) /\ ReadReply(x) /\ UNCHANGED <<seq, wire, radioKeyed>>

SendsKey(c) ==
    /\ pc[c] \notin Waits \cup {"streaming"} /\ pc'[c] = "keying"
    /\ Send(c, "xmit 1") /\ replies' = replies

SendsUnkey(x) ==
    /\ pc[x] \notin Waits /\ pc'[x] \in {"unkeyAll", "unkeyCut", "unkeying"}
    /\ Send(x, "xmit 0")
    /\ replies' = replies \/ (replies # <<>> /\ replies' = Tail(replies))

\* x reads the answer to its xmit 1 or xmit 0.
ReadsAnswer(x) ==
    /\ pc[x] \in Waits /\ pc'[x] \notin Waits
    /\ Answered(x) /\ ReadReply(x)
    /\ UNCHANGED <<seq, wire, radioKeyed>>
    /\ pc[x] = "keying" /\ pc'[x] # "streaming" => ~Head(replies).ok

OwnLink(x) ==
    Quietly(x) \/ Elsewise(x) \/ SendsKey(x) \/ SendsUnkey(x) \/ ReadsAnswer(x)

LEMMA CallLink ==
  ASSUME SlowLink = FALSE, TypeOK, NEW c \in Call, CallStep(c)
  PROVE  OwnLink(c)
<1>0. c \in Client
  BY WhoIsWho
<1>s. ~TimedOut(c)
  BY DEF TimedOut
<1>g. \A p : Go(c, p) => pc'[c] = p
  BY <1>0 DEF Go, TypeOK
<1>1. CASE Begin(c) \/ RefusedAtGate(c) \/ DroppedBeforeKeying(c) \/ CwEnds(c) \/ WindowBegins(c)
  <2>1. pc'[c] \in {"gate", "refused", "sent", "regate"} /\ pc[c] \in {"idle", "gate", "regate", "cwTimer", "window"}
    BY <1>1, <1>g DEF Begin, RefusedAtGate, DroppedBeforeKeying, CwEnds, WindowBegins
  <2>2. UNCHANGED linkVars
    BY <1>1 DEF Begin, RefusedAtGate, DroppedBeforeKeying, CwEnds, WindowBegins
  <2> QED
    BY <2>1, <2>2 DEF OwnLink, Quietly, Waits
<1>2. CASE ReadSetting(c) \/ SendPacket(c)
  BY <1>2 DEF ReadSetting, SendPacket, OwnLink, Quietly
<1>3. CASE DroppedAfterGate(c) \/ TakesAndWaits(c) \/ TakesAndRereads(c)
  <2>1. pc[c] = "gate" /\ pc'[c] \in {"refused", "window", "regate"}
    BY <1>0, <1>3 DEF DroppedAfterGate, TakesAndWaits, TakesAndRereads, Takes, PassesGate
  <2>2. UNCHANGED linkVars
    BY <1>3 DEF DroppedAfterGate, TakesAndWaits, TakesAndRereads
  <2> QED
    BY <2>1, <2>2 DEF OwnLink, Quietly, Waits
<1>4. CASE TakesAndKeys(c) \/ Keys(c)
  <2>1. pc[c] \in {"gate", "regate"} /\ pc'[c] = "keying"
    BY <1>0, <1>4, <1>g DEF TakesAndKeys, Takes, PassesGate, Keys
  <2>2. Send(c, "xmit 1") /\ replies' = replies
    BY <1>4 DEF TakesAndKeys, Keys, KeysUp
  <2> QED
    BY <2>1, <2>2 DEF OwnLink, SendsKey, Waits
<1>5. CASE TakesForCw(c) \/ CwSpeedSet(c)
  <2>1. pc[c] \in {"gate", "cwWpm"} /\ pc'[c] \in {"cwWpm", "cwSend"}
    BY <1>0, <1>5, <1>g DEF TakesForCw, CwSpeedSet, Takes, PassesGate
  <2>2. \/ Send(c, "cwx wpm") /\ replies' = replies
        \/ Send(c, "cwx send") /\ replies # <<>> /\ replies' = Tail(replies)
    BY <1>5 DEF TakesForCw, CwSpeedSet, Answered
  <2> QED
    BY <2>1, <2>2 DEF OwnLink, Elsewise, Waits, Commands
<1>6. CASE CwSent(c) \/ CwFails(c)
  <2>1. pc[c] \in {"cwWpm", "cwSend"} /\ pc'[c] \in {"cwTimer", "refused"}
    BY <1>6, <1>g DEF CwSent, CwFails
  <2>2. Answered(c) /\ ReadReply(c) /\ UNCHANGED <<seq, wire, radioKeyed>>
    BY <1>6, <1>s DEF CwSent, CwFails
  <2> QED
    BY <2>1, <2>2 DEF OwnLink, Elsewise, Waits
<1>7. CASE KeyAcknowledged(c) \/ KeyFails(c)
  <2>1. /\ pc[c] = "keying"
        /\ pc'[c] = "streaming" \/ (pc'[c] = "refused" /\ ~Head(replies).ok)
    BY <1>7, <1>g, <1>s DEF KeyAcknowledged, KeyFails
  <2>2. Answered(c) /\ ReadReply(c) /\ UNCHANGED <<seq, wire, radioKeyed>>
    BY <1>7, <1>s DEF KeyAcknowledged, KeyFails
  <2> QED
    BY <2>1, <2>2 DEF OwnLink, ReadsAnswer, Waits
<1>8. CASE StreamEnds(c) \/ StreamFails(c)
  <2>1. PICK p \in {"unkeyAll", "unkeyCut"} : Unkey(c, p)
    BY <1>8 DEF StreamEnds, StreamFails
  <2>2. pc[c] = "streaming" /\ pc'[c] = p /\ replies' = replies
    BY <1>0, <1>8, <2>1 DEF StreamEnds, StreamFails, Unkey
  <2> QED
    BY <2>1, <2>2 DEF Unkey, OwnLink, SendsUnkey, Waits
<1>9. CASE CallUnkeyed(c)
  <2>1. pc[c] \in {"unkeyAll", "unkeyCut"} /\ pc'[c] \in {"sent", "refused"}
    BY <1>9, <1>g DEF CallUnkeyed
  <2>2. Answered(c) /\ ReadReply(c) /\ UNCHANGED <<seq, wire, radioKeyed>>
    BY <1>9, <1>s DEF CallUnkeyed, Unkeyed
  <2> QED
    BY <2>1, <2>2 DEF OwnLink, ReadsAnswer, Waits
<1> QED
  BY <1>1, <1>2, <1>3, <1>4, <1>5, <1>6, <1>7, <1>8, <1>9 DEF CallStep, Accepts

LEMMA StopLink ==
  ASSUME SlowLink = FALSE, TypeOK, NEW s \in Stop, StopStep(s)
  PROVE  OwnLink(s)
<1>0. s \in Client
  BY WhoIsWho
<1>s. ~TimedOut(s)
  BY DEF TimedOut
<1>g. \A p : Go(s, p) => pc'[s] = p
  BY <1>0 DEF Go, TypeOK
<1>1. CASE Halts(s) \/ TakesVoice(s) \/ UnkeysForExit(s)
  <2>1. Unkey(s, "unkeying") /\ pc[s] \in {"idle", "tuneOff"}
    BY <1>1 DEF Halts, TakesVoice, UnkeysForExit, StopUnkeys
  <2>2. replies' = replies \/ (replies # <<>> /\ replies' = Tail(replies))
    BY <1>1, <1>s DEF Halts, TakesVoice, UnkeysForExit, StopUnkeys, Answered
  <2>3. pc'[s] = "unkeying" /\ Send(s, "xmit 0")
    BY <1>0, <2>1 DEF Unkey
  <2> QED
    BY <2>1, <2>2, <2>3 DEF OwnLink, SendsUnkey, Waits
<1>2. CASE LatchesForExit(s)
  <2>1. pc[s] = "idle" /\ pc'[s] = "tuneOff"
    BY <1>2, <1>g DEF LatchesForExit
  <2> QED
    BY <1>2, <2>1 DEF LatchesForExit, OwnLink, Elsewise, Waits, Commands
<1>3. CASE StopUnkeyed(s)
  <2>1. pc[s] = "unkeying" /\ pc'[s] \in {"writing", "done"}
    BY <1>3, <1>g DEF StopUnkeyed
  <2>2. Answered(s) /\ ReadReply(s) /\ UNCHANGED <<seq, wire, radioKeyed>>
    BY <1>3, <1>s DEF StopUnkeyed, Unkeyed
  <2> QED
    BY <2>1, <2>2 DEF OwnLink, ReadsAnswer, Waits
<1>4. CASE DisarmWritten(s)
  <2>1. pc[s] = "writing" /\ pc'[s] = "done"
    BY <1>4, <1>g DEF DisarmWritten
  <2> QED
    BY <1>4, <2>1 DEF DisarmWritten, OwnLink, Quietly, Waits
<1> QED
  BY <1>1, <1>2, <1>3, <1>4 DEF StopStep

\* Nobody else waits for anything new, and only a waiting call may be ended.
Elsewhere(x) ==
    \A y \in Client \ {x} :
        /\ pending'[y] = pending[y]
        /\ pc'[y] = pc[y] \/ (pc[y] = "window" /\ pc'[y] = "refused")

LEMMA CallElsewhere ==
  ASSUME HolderInv, NEW c \in Call, CallStep(c), OwnLink(c)
  PROVE  Elsewhere(c)
<1>1. \A y \in Client \ {c} : pending'[y] = pending[y]
  BY DEF OwnLink, Quietly, Elsewise, SendsKey, SendsUnkey, ReadsAnswer, Send, ReadReply, linkVars,
     HolderInv, TypeOK, LinkTypeOK
<1>2. \A y \in Cancelled \cup Superseded : pc[y] = "window"
  BY DEF Cancelled, Superseded, HolderInv, OneHolder
<1> QED
  BY <1>1, <1>2, OthersGiveWay DEF HolderInv, Elsewhere

LEMMA StopElsewhere ==
  ASSUME HolderInv, NEW s \in Stop, StopStep(s), OwnLink(s)
  PROVE  Elsewhere(s)
<1>1. \A y \in Client \ {s} : pending'[y] = pending[y]
  BY DEF OwnLink, Quietly, Elsewise, SendsKey, SendsUnkey, ReadsAnswer, Send, ReadReply, linkVars,
     HolderInv, TypeOK, LinkTypeOK
<1>2. \A y \in Cancelled : pc[y] = "window"
  BY DEF Cancelled, HolderInv, OneHolder
<1> USE DEF HolderInv, TypeOK
<1>3. CASE Halts(s) \/ TakesVoice(s) \/ UnkeysForExit(s)
  BY <1>1, <1>2, <1>3 DEF Halts, TakesVoice, UnkeysForExit, StopUnkeys, Unkey, Elsewhere
<1>4. CASE LatchesForExit(s) \/ StopUnkeyed(s) \/ DisarmWritten(s)
  BY <1>1, <1>4 DEF LatchesForExit, StopUnkeyed, DisarmWritten, Go, Elsewhere
<1> QED
  BY <1>3, <1>4 DEF StopStep

---------------------------------------------------------------------------
(* The invariant. *)

OnWire(x) == \E r \in Members(wire) : r.seq = pending[x]
InReplies(x) == \E a \in Members(replies) : a.seq = pending[x]

Unkeying == {"unkeyAll", "unkeyCut", "unkeying"}

\* Commands are numbered in order; what is answered was sent before what is not
\* yet taken.
Numbered ==
    /\ Ascending(wire)
    /\ \A r \in Members(wire) : r.seq <= seq
    /\ \A a \in Members(replies) : a.seq <= seq /\ \A r \in Members(wire) : a.seq < r.seq
    /\ \A x \in Client : pending[x] <= seq

\* An xmit 1 on its way is the one a call waits for, and what unkey() waits for
\* is an xmit 0.
Meant ==
    \A r \in Members(wire) :
        /\ r.cmd = "xmit 1" => \E c \in Call : pc[c] = "keying" /\ pending[c] = r.seq
        /\ \A x \in Client : pc[x] \in Unkeying /\ pending[x] = r.seq => r.cmd = "xmit 0"

\* c knows, or will know from the reply, that it has keyed the radio.
HasKeyed(c) ==
    \/ pc[c] = "streaming"
    \/ /\ pc[c] = "keying" /\ ~OnWire(c)
       /\ \A a \in Members(replies) : a.seq = pending[c] => a.ok
    \/ pc[c] \in {"unkeyAll", "unkeyCut"} /\ ~InReplies(c)

KeyHeld == radioKeyed => \E c \in Call : HasKeyed(c)

Before(c, s) == stopsAtStart[c] < stopAt[s]

\* The radio has obeyed the stop.
Obeyed(s) == pc[s] \in {"writing", "done"} \/ (pc[s] = "unkeying" /\ InReplies(s))

Halting ==
    \A s \in Stop :
        /\ stopAt[s] <= stopGen
        /\ pc[s] = "unkeying" =>
              \A c \in Call : pc[c] = "keying" /\ Before(c, s) => pending[c] < pending[s]
        /\ Obeyed(s) => /\ radioKeyed => \A c \in Owners : ~Before(c, s)
                        /\ \A c \in Call : pc[c] = "keying" /\ OnWire(c) => ~Before(c, s)

LinkInv == Numbered /\ Meant /\ KeyHeld /\ Halting

LEMMA MemberTypes ==
  ASSUME LinkTypeOK
  PROVE  /\ \A r \in Members(wire) : r.seq \in Nat /\ r.cmd \in Commands
         /\ \A a \in Members(replies) : a.seq \in Nat /\ a.ok \in BOOLEAN
<1>1. \A r \in Members(wire) : r \in CommandRecords
  BY DEF Members, LinkTypeOK
<1>2. \A a \in Members(replies) : a \in ReplyRecords
  BY DEF Members, LinkTypeOK
<1> QED
  BY <1>1, <1>2 DEF CommandRecords, ReplyRecords

LEMMA NoMembers == Members(<<>>) = {}
  BY DEF Members

LEMMA LinkInvInit == Init => LinkInv
<1> SUFFICES ASSUME Init PROVE LinkInv
  OBVIOUS
<1>1. Members(wire) = {} /\ Members(replies) = {} /\ ~radioKeyed
  BY NoMembers DEF Init, LinkInit
<1>2. Ascending(wire)
  BY DEF Init, LinkInit, Ascending
<1>3. Numbered
  BY <1>1, <1>2 DEF Numbered, Init, LinkInit
<1>4. Halting
  BY <1>1, WhoIsWho DEF Halting, Init, Obeyed, InReplies, OnWire
<1> QED
  BY <1>1, <1>3, <1>4 DEF LinkInv, Meant, KeyHeld

---------------------------------------------------------------------------
(* The radio's steps. *)

\* The radio takes the first command.
TakesFirst == wire # <<>> /\ wire' = Tail(wire) /\ UNCHANGED <<seq, pending>>

LEMMA FirstTaken ==
  ASSUME LinkTypeOK, TakesFirst, Ascending(wire)
  PROVE  /\ Head(wire) \in Members(wire)
         /\ Members(wire') \subseteq Members(wire)
         /\ Ascending(wire')
         /\ \A r \in Members(wire') : Head(wire).seq < r.seq
  BY TailMembers, TailAscending DEF LinkTypeOK, TakesFirst

\* The radio answers it.
Replies(ok) == TakesFirst /\ replies' = Append(replies, [seq |-> Head(wire).seq, ok |-> ok])

LEMMA FirstAnswered ==
  ASSUME LinkTypeOK, NEW ok, Replies(ok)
  PROVE  Members(replies') = Members(replies) \cup {[seq |-> Head(wire).seq, ok |-> ok]}
  BY AppendMembers DEF LinkTypeOK, Replies

LEMMA RadioNumbered ==
  ASSUME LinkTypeOK, Numbered, LinkNext
  PROVE  Numbered'
<1> USE DEF Numbered
<1>1. CASE DropReply
  <2>1. Members(replies') \subseteq Members(replies)
    BY <1>1, TailMembers DEF DropReply, LinkTypeOK
  <2> QED
    BY <1>1, <2>1 DEF DropReply
<1>2. ASSUME NEW ok, Replies(ok) PROVE Numbered'
  BY <1>2, FirstTaken, FirstAnswered, MemberTypes DEF Replies, TakesFirst
<1>3. CASE RadioIgnores
  BY <1>3, FirstTaken DEF RadioIgnores, TakesFirst
<1> QED
  BY <1>1, <1>2, <1>3 DEF LinkNext, RadioObeys, RadioRefuses, Replies, TakesFirst

LEMMA RadioMeant ==
  ASSUME LinkTypeOK, Numbered, Meant, LinkNext, pc' = pc
  PROVE  Meant'
<1>1. Members(wire') \subseteq Members(wire) /\ pending' = pending
  <2>1. CASE DropReply
    BY <2>1 DEF DropReply
  <2>2. CASE TakesFirst
    BY <2>2, FirstTaken DEF TakesFirst, Numbered
  <2> QED
    BY <2>1, <2>2 DEF LinkNext, RadioObeys, RadioRefuses, RadioIgnores, TakesFirst
<1> QED
  BY <1>1 DEF Meant

LEMMA RadioKeyHeld ==
  ASSUME TypeOK, LinkInv, LinkNext, pc' = pc
  PROVE  KeyHeld'
<1>t. LinkTypeOK
  BY DEF TypeOK
<1> SUFFICES ASSUME radioKeyed' PROVE \E c \in Call : HasKeyed(c)'
  BY DEF KeyHeld
<1>1. CASE DropReply \/ RadioIgnores
  <2>1. /\ Members(wire') \subseteq Members(wire)
        /\ Members(replies') \subseteq Members(replies)
        /\ UNCHANGED <<pending, radioKeyed>>
    BY <1>1, <1>t, FirstTaken, TailMembers
       DEF DropReply, RadioIgnores, TakesFirst, LinkTypeOK, LinkInv, Numbered
  <2>2. PICK c \in Call : HasKeyed(c)
    BY <2>1 DEF LinkInv, KeyHeld
  <2> QED
    BY <2>1, <2>2 DEF HasKeyed, OnWire, InReplies
<1>2. ASSUME NEW ok \in BOOLEAN, Replies(ok), Head(wire).cmd # "xmit 0", radioKeyed,
             ok \/ Head(wire).cmd \in Refusable
      PROVE  \E c \in Call : HasKeyed(c)'
  <2>1. PICK c \in Call : HasKeyed(c)
    BY <1>2 DEF LinkInv, KeyHeld
  <2>2. /\ Head(wire) \in Members(wire) /\ pending' = pending
        /\ Members(wire') \subseteq Members(wire)
        /\ Members(replies') = Members(replies) \cup {[seq |-> Head(wire).seq, ok |-> ok]}
    BY <1>t, <1>2, FirstTaken, FirstAnswered DEF Replies, TakesFirst, LinkInv, Numbered
  <2>3. pc[c] \in Unkeying => Head(wire).seq # pending[c]
    BY <1>2, <2>2, WhoIsWho DEF LinkInv, Meant
  <2>4. ~OnWire(c) => Head(wire).seq # pending[c]
    BY <2>2 DEF OnWire
  <2>5. CASE pc[c] = "streaming"
    BY <2>5 DEF HasKeyed
  <2>6. CASE pc[c] = "keying"
    BY <2>1, <2>2, <2>4, <2>6 DEF HasKeyed, OnWire
  <2>7. CASE pc[c] \in {"unkeyAll", "unkeyCut"}
    BY <2>1, <2>2, <2>3, <2>7 DEF HasKeyed, InReplies, Unkeying
  <2> QED
    BY <2>1, <2>5, <2>6, <2>7 DEF HasKeyed
<1>3. CASE RadioObeys /\ Head(wire).cmd = "xmit 1"
  <2>1. Replies(TRUE)
    BY <1>3 DEF RadioObeys, Replies, TakesFirst
  <2>2. /\ Head(wire) \in Members(wire) /\ pending' = pending
        /\ \A r \in Members(wire') : Head(wire).seq < r.seq
        /\ Members(replies') = Members(replies) \cup {[seq |-> Head(wire).seq, ok |-> TRUE]}
    BY <1>t, <2>1, FirstTaken, FirstAnswered DEF Replies, TakesFirst, LinkInv, Numbered
  <2>3. PICK c \in Call : pc[c] = "keying" /\ pending[c] = Head(wire).seq
    BY <1>3, <2>2 DEF LinkInv, Meant
  <2>4. Head(wire).seq \in Nat /\ \A a \in Members(replies) : a.seq < Head(wire).seq /\ a.seq \in Nat
    BY <1>t, <2>2, MemberTypes DEF LinkInv, Numbered
  <2>5. ~OnWire(c)'
    BY <2>2, <2>3, <2>4 DEF OnWire
  <2>6. \A a \in Members(replies') : a.seq = pending'[c] => a.ok
    BY <2>2, <2>3, <2>4
  <2> QED
    BY <2>3, <2>5, <2>6 DEF HasKeyed
<1>4. CASE RadioObeys /\ Head(wire).cmd # "xmit 1"
  BY <1>2, <1>4 DEF RadioObeys, Replies, TakesFirst
<1>5. CASE RadioRefuses
  <2>1. Replies(FALSE) /\ Head(wire).cmd \in Refusable /\ Head(wire).cmd # "xmit 0" /\ radioKeyed
    BY <1>5 DEF RadioRefuses, Replies, TakesFirst, Refusable
  <2> QED
    BY <1>2, <2>1
<1> QED
  BY <1>1, <1>3, <1>4, <1>5 DEF LinkNext

LEMMA RadioHalting ==
  ASSUME HolderInv, LinkInv, LinkNext,
         UNCHANGED <<pc, stopGen, stopAt, stopsAtStart>>
  PROVE  Halting'
<1>t. LinkTypeOK
  BY DEF HolderInv, TypeOK
<1>0. pending' = pending /\ Owners' = Owners /\ \A c, s : Before(c, s)' = Before(c, s)
  BY DEF LinkNext, DropReply, RadioObeys, RadioRefuses, RadioIgnores, Owners, Before
<1>h. \A s \in Stop :
          /\ stopAt[s] <= stopGen
          /\ pc[s] = "unkeying" =>
                \A c \in Call : pc[c] = "keying" /\ Before(c, s) => pending[c] < pending[s]
  BY DEF LinkInv, Halting
<1> SUFFICES ASSUME NEW s \in Stop, Obeyed(s)'
             PROVE  /\ radioKeyed' => \A c \in Owners : ~Before(c, s)
                    /\ \A c \in Call : pc[c] = "keying" /\ OnWire(c)' => ~Before(c, s)
  BY <1>0, <1>h DEF Halting
<1>w. \A c : OnWire(c)' => OnWire(c)
  BY <1>t, <1>0, FirstTaken
     DEF OnWire, LinkNext, DropReply, RadioObeys, RadioRefuses, RadioIgnores, TakesFirst, LinkInv, Numbered
<1>r. ASSUME Obeyed(s), radioKeyed' => radioKeyed
      PROVE  /\ radioKeyed' => \A c \in Owners : ~Before(c, s)
             /\ \A c \in Call : pc[c] = "keying" /\ OnWire(c)' => ~Before(c, s)
  BY <1>r, <1>w DEF LinkInv, Halting
<1>1. CASE DropReply \/ RadioIgnores
  <2>1. Members(replies') \subseteq Members(replies) /\ radioKeyed' = radioKeyed
    BY <1>1, <1>t, TailMembers DEF DropReply, RadioIgnores, LinkTypeOK
  <2> QED
    BY <1>0, <1>r, <2>1 DEF Obeyed, InReplies
<1>2. ASSUME NEW ok \in BOOLEAN, Replies(ok),
             \/ ok /\ RadioObeys
             \/ RadioRefuses
      PROVE  /\ radioKeyed' => \A c \in Owners : ~Before(c, s)
             /\ \A c \in Call : pc[c] = "keying" /\ OnWire(c)' => ~Before(c, s)
  <2>1. /\ Head(wire) \in Members(wire)
        /\ \A r \in Members(wire') : Head(wire).seq < r.seq
        /\ Members(replies') = Members(replies) \cup {[seq |-> Head(wire).seq, ok |-> ok]}
    BY <1>t, <1>2, FirstTaken, FirstAnswered DEF Replies, LinkInv, Numbered
  <2>2. CASE Obeyed(s) /\ (radioKeyed' => radioKeyed)
    BY <1>r, <2>2
  <2>3. CASE Obeyed(s) /\ radioKeyed' /\ ~radioKeyed
    <3>1. Head(wire).cmd = "xmit 1"
      BY <1>2, <2>3 DEF RadioObeys, RadioRefuses
    <3>2. PICK d \in Call : pc[d] = "keying" /\ pending[d] = Head(wire).seq
      BY <2>1, <3>1 DEF LinkInv, Meant
    <3>3. OnWire(d) /\ Owners = {d}
      BY <2>1, <3>2 DEF OnWire, HolderInv, OneHolder, Owners, Owning
    <3> QED
      BY <1>w, <2>3, <3>2, <3>3 DEF LinkInv, Halting
  <2>4. CASE ~Obeyed(s)
    <3>1. pc[s] = "unkeying" /\ pending[s] = Head(wire).seq
      BY <1>0, <2>1, <2>4 DEF Obeyed, InReplies
    <3>2. Head(wire).cmd = "xmit 0"
      BY <2>1, <3>1, WhoIsWho DEF LinkInv, Meant, Unkeying
    <3>3. ~radioKeyed'
      BY <1>2, <3>2 DEF RadioObeys, RadioRefuses, Refusable
    <3>4. ASSUME NEW c \in Call, pc[c] = "keying", OnWire(c)', Before(c, s) PROVE FALSE
      <4>1. PICK r \in Members(wire') : r.seq = pending[c]
        BY <1>0, <3>4 DEF OnWire
      <4>2. Head(wire).seq < pending[c]
        BY <2>1, <4>1
      <4>3. pending[c] < pending[s]
        BY <1>h, <3>1, <3>4
      <4>4. pending[c] \in Nat /\ Head(wire).seq \in Nat
        BY <1>t, <2>1, MemberTypes, WhoIsWho DEF LinkTypeOK
      <4> QED
        BY <3>1, <4>2, <4>3, <4>4
    <3> QED
      BY <3>3, <3>4
  <2> QED
    BY <2>2, <2>3, <2>4
<1>3. CASE RadioObeys
  BY <1>2, <1>3 DEF RadioObeys, Replies, TakesFirst
<1>4. CASE RadioRefuses
  BY <1>2, <1>4 DEF RadioRefuses, Replies, TakesFirst
<1> QED
  BY <1>1, <1>3, <1>4 DEF LinkNext

---------------------------------------------------------------------------
(* The steps of calls and stops. *)

\* What a command sent, or an answer read, does to the link.
LinkMoves(x) ==
    /\ radioKeyed' = radioKeyed
    /\ Members(replies') \subseteq Members(replies)
    /\ \/ seq' = seq /\ wire' = wire /\ pending'[x] \in {pending[x], 0}
       \/ /\ seq' = seq + 1 /\ pending'[x] = seq + 1
          /\ \E cmd \in Commands : wire' = Append(wire, [seq |-> seq + 1, cmd |-> cmd])

LEMMA OwnLinkMoves ==
  ASSUME LinkTypeOK, NEW x \in Client, OwnLink(x)
  PROVE  LinkMoves(x)
<1>1. ASSUME NEW cmd \in Commands, Send(x, cmd),
             replies' = replies \/ (replies # <<>> /\ replies' = Tail(replies))
      PROVE  LinkMoves(x)
  <2>1. Members(replies') \subseteq Members(replies)
    BY <1>1, TailMembers DEF LinkTypeOK
  <2>2. seq' = seq + 1 /\ pending'[x] = seq + 1 /\ radioKeyed' = radioKeyed
        /\ wire' = Append(wire, [seq |-> seq + 1, cmd |-> cmd])
    BY <1>1 DEF Send, LinkTypeOK
  <2> QED
    BY <2>1, <2>2 DEF LinkMoves
<1>2. ASSUME Answered(x), ReadReply(x), UNCHANGED <<seq, wire, radioKeyed>>
      PROVE  LinkMoves(x)
  BY <1>2, TailMembers DEF Answered, ReadReply, LinkTypeOK, LinkMoves
<1>3. CASE Quietly(x)
  BY <1>3 DEF Quietly, linkVars, LinkMoves
<1>4. CASE Elsewise(x)
  BY <1>1, <1>2, <1>4 DEF Elsewise
<1>5. CASE SendsKey(x)
  BY <1>1, <1>5 DEF SendsKey, Commands
<1>6. CASE SendsUnkey(x)
  BY <1>1, <1>6 DEF SendsUnkey, Commands
<1>7. CASE ReadsAnswer(x)
  BY <1>2, <1>7 DEF ReadsAnswer
<1> QED
  BY <1>3, <1>4, <1>5, <1>6, <1>7 DEF OwnLink

LEMMA Appended ==
  ASSUME LinkTypeOK, NEW cmd \in Commands, wire' = Append(wire, [seq |-> seq + 1, cmd |-> cmd])
  PROVE  Members(wire') = Members(wire) \cup {[seq |-> seq + 1, cmd |-> cmd]}
  BY AppendMembers DEF LinkTypeOK

\* What is on the wire was there before, or has just been given the next number.
LEMMA WireGrows ==
  ASSUME LinkTypeOK, NEW x, LinkMoves(x)
  PROVE  \A r \in Members(wire') : r \in Members(wire) \/ r.seq = seq + 1
<1>1. CASE wire' = wire
  BY <1>1
<1>2. ASSUME NEW cmd \in Commands, wire' = Append(wire, [seq |-> seq + 1, cmd |-> cmd])
      PROVE  \A r \in Members(wire') : r \in Members(wire) \/ r.seq = seq + 1
  BY <1>2, Appended
<1> QED
  BY <1>1, <1>2 DEF LinkMoves

LEMMA SentNumbered ==
  ASSUME LinkTypeOK, Numbered, seq' = seq + 1, Members(replies') \subseteq Members(replies),
         \A y \in Client : pending'[y] \in {pending[y], seq + 1},
         \E cmd \in Commands : wire' = Append(wire, [seq |-> seq + 1, cmd |-> cmd])
  PROVE  Numbered'
<1>1. PICK cmd \in Commands : wire' = Append(wire, [seq |-> seq + 1, cmd |-> cmd])
  OBVIOUS
<1>2. Members(wire') = Members(wire) \cup {[seq |-> seq + 1, cmd |-> cmd]}
  BY <1>1, Appended
<1>3. /\ seq \in Nat /\ wire \in Seq(CommandRecords)
      /\ \A r \in Members(wire) : r.seq \in Nat /\ r.seq < seq + 1
      /\ \A a \in Members(replies) : a.seq \in Nat /\ a.seq < seq + 1
      /\ \A y \in Client : pending[y] \in Nat
  BY MemberTypes DEF Numbered, LinkTypeOK
<1>4. Ascending(wire')
  <2>1. Ascending(wire) /\ \A r \in Members(wire) : r.seq < [seq |-> seq + 1, cmd |-> cmd].seq
    BY <1>3 DEF Numbered
  <2> QED
    BY <1>1, <1>3, <2>1, AppendAscending
<1>5. \A r \in Members(wire') : r.seq <= seq'
  BY <1>2, <1>3
<1>6. \A a \in Members(replies') : a.seq <= seq' /\ \A r \in Members(wire') : a.seq < r.seq
  BY <1>2, <1>3 DEF Numbered
<1>7. \A y \in Client : pending'[y] <= seq'
  BY <1>3 DEF Numbered
<1> QED
  BY <1>4, <1>5, <1>6, <1>7 DEF Numbered

LEMMA OwnNumbered ==
  ASSUME LinkTypeOK, Numbered, NEW x \in Client, LinkMoves(x), Elsewhere(x)
  PROVE  Numbered'
<1>1. \A y \in Client : y # x => pending'[y] = pending[y]
  BY DEF Elsewhere
<1>2. CASE seq' = seq /\ wire' = wire /\ pending'[x] \in {pending[x], 0}
  BY <1>1, <1>2 DEF LinkMoves, Numbered, LinkTypeOK
<1>3. CASE seq' = seq + 1 /\ pending'[x] = seq + 1
           /\ \E cmd \in Commands : wire' = Append(wire, [seq |-> seq + 1, cmd |-> cmd])
  BY <1>1, <1>3, SentNumbered DEF LinkMoves
<1> QED
  BY <1>2, <1>3 DEF LinkMoves

\* A client that only watches waits for what it waited for.
LEMMA OthersWait ==
  ASSUME LinkTypeOK, Numbered, NEW x \in Client, LinkMoves(x), Elsewhere(x),
         NEW y \in Client \ {x}
  PROVE  /\ pending'[y] = pending[y]
         /\ pc'[y] = pc[y] \/ (pc[y] = "window" /\ pc'[y] = "refused")
         /\ OnWire(y)' => OnWire(y)
         /\ InReplies(y)' => InReplies(y)
<1>1. pending'[y] = pending[y] /\ pending[y] \in Nat /\ pending[y] <= seq /\ seq \in Nat
  BY DEF Elsewhere, Numbered, LinkTypeOK
<1>2. OnWire(y)' => OnWire(y)
  BY <1>1, WireGrows DEF OnWire
<1>3. InReplies(y)' => InReplies(y)
  BY <1>1 DEF InReplies, LinkMoves
<1> QED
  BY <1>1, <1>2, <1>3 DEF Elsewhere

LEMMA SendNumbers ==
  ASSUME LinkTypeOK, NEW x \in Client, NEW cmd, Send(x, cmd)
  PROVE  pending'[x] = seq + 1
  BY DEF Send, LinkTypeOK

LEMMA QuietWaits ==
  ASSUME NEW x, Quietly(x)
  PROVE  /\ UNCHANGED linkVars
         /\ pc[x] \in Waits \cup {"streaming"} => pc'[x] = pc[x]
         /\ pc'[x] \in Waits \cup {"streaming"} => pc'[x] = pc[x]
  BY DEF Quietly

\* Only a call keys.
LEMMA StopNeverKeys ==
  ASSUME TypeOK, NEW s \in Stop, StopStep(s)
  PROVE  ~SendsKey(s)
<1>1. \A p : Go(s, p) => pc'[s] = p
  BY WhoIsWho DEF Go, TypeOK
<1>2. \A p : Unkey(s, p) => pc'[s] = p
  BY WhoIsWho DEF Unkey
<1>3. pc'[s] \in StopPlaces
  BY <1>1, <1>2 DEF StopStep, Halts, TakesVoice, StopUnkeys, LatchesForExit, UnkeysForExit, StopUnkeyed,
     DisarmWritten, StopPlaces
<1> QED
  BY <1>3 DEF SendsKey, StopPlaces

LEMMA OwnMeant ==
  ASSUME LinkTypeOK, Numbered, Meant, NEW x \in Client, OwnLink(x), Elsewhere(x), LinkMoves(x),
         SendsKey(x) => x \in Call
  PROVE  Meant'
<1> SUFFICES ASSUME NEW r \in Members(wire')
             PROVE  /\ r.cmd = "xmit 1" => \E c \in Call : pc'[c] = "keying" /\ pending'[c] = r.seq
                    /\ \A y \in Client : pc'[y] \in Unkeying /\ pending'[y] = r.seq
                                            => r.cmd = "xmit 0"
  BY DEF Meant
<1>n. /\ seq \in Nat
      /\ \A q \in Members(wire) : q.seq \in Nat /\ q.seq <= seq
      /\ \A y \in Client : pending[y] \in Nat /\ pending[y] <= seq
  BY MemberTypes DEF Numbered, LinkTypeOK
<1>1. CASE r \in Members(wire)
  <2>1. ASSUME NEW c \in Call, pc[c] = "keying", pending[c] = r.seq
        PROVE  pc'[c] = "keying" /\ pending'[c] = r.seq
    <3>1. CASE c # x
      BY <2>1, <3>1, WhoIsWho, OthersWait
    <3>2. CASE c = x
      <4>1. Quietly(x) \/ ReadsAnswer(x)
        BY <2>1, <3>2 DEF OwnLink, Elsewise, SendsKey, SendsUnkey, Waits
      <4>2. ~Answered(x)
        <5>1. replies # <<>> => Head(replies) \in Members(replies)
          BY TailMembers DEF LinkTypeOK
        <5>2. \A a \in Members(replies) : a.seq # r.seq
          BY <1>1, <1>n, MemberTypes DEF Numbered
        <5> QED
          BY <2>1, <3>2, <5>1, <5>2 DEF Answered
      <4> QED
        BY <2>1, <3>2, <4>1, <4>2, QuietWaits DEF ReadsAnswer, Waits, linkVars
    <3> QED
      BY <3>1, <3>2
  <2>2. ASSUME NEW y \in Client, pc'[y] \in Unkeying, pending'[y] = r.seq
        PROVE  r.cmd = "xmit 0"
    <3>1. CASE pc[y] \in Unkeying /\ pending[y] = r.seq
      BY <1>1, <3>1 DEF Meant
    <3>2. CASE y # x
      BY <2>2, <3>1, <3>2, OthersWait DEF Unkeying
    <3>3. CASE y = x
      <4>1. Quietly(x) \/ SendsUnkey(x)
        BY <2>2, <3>3 DEF OwnLink, Elsewise, SendsKey, ReadsAnswer, Waits, Unkeying
      <4>2. ~SendsUnkey(x)
        <5>1. SendsUnkey(x) => pending'[x] = seq + 1
          BY SendNumbers DEF SendsUnkey
        <5>2. r.seq \in Nat /\ r.seq <= seq
          BY <1>1, <1>n
        <5>3. seq + 1 # r.seq
          BY <1>n, <5>2
        <5> QED
          BY <2>2, <3>3, <5>1, <5>3
      <4> QED
        BY <2>2, <3>1, <3>3, <4>1, <4>2, QuietWaits DEF linkVars, Waits, Unkeying
    <3> QED
      BY <3>2, <3>3
  <2> QED
    BY <1>1, <2>1, <2>2 DEF Meant
<1>2. CASE r \notin Members(wire)
  <2>1. ~Quietly(x) /\ ~ReadsAnswer(x)
    BY <1>2 DEF Quietly, ReadsAnswer, linkVars
  <2>2. ASSUME NEW cmd \in Commands, Send(x, cmd)
        PROVE  /\ r.seq = seq + 1 /\ r.cmd = cmd /\ pending'[x] = r.seq
               /\ \A y \in Client : pending'[y] = r.seq => y = x
    <3>1. r = [seq |-> seq + 1, cmd |-> cmd] /\ pending'[x] = seq + 1
      BY <1>2, <2>2, Appended DEF Send, LinkTypeOK
    <3> QED
      BY <1>n, <3>1, OthersWait
  <2>3. CASE SendsKey(x)
    BY <2>2, <2>3 DEF SendsKey, Commands, Unkeying
  <2>4. CASE SendsUnkey(x)
    BY <2>2, <2>4 DEF SendsUnkey, Commands
  <2>5. CASE Elsewise(x)
    <3>1. PICK cmd \in Commands \ {"xmit 1"} : Send(x, cmd)
      BY <1>2, <2>5 DEF Elsewise
    <3>2. r.cmd # "xmit 1" /\ \A y \in Client : pending'[y] = r.seq => y = x
      BY <2>2, <3>1
    <3> QED
      BY <2>5, <3>2 DEF Elsewise, Waits, Unkeying
  <2> QED
    BY <2>1, <2>3, <2>4, <2>5 DEF OwnLink
<1> QED
  BY <1>1, <1>2

LEMMA OwnKeyHeld ==
  ASSUME TypeOK, Numbered, KeyHeld, NEW x \in Client, OwnLink(x), Elsewhere(x), LinkMoves(x),
         x \in Call => pc'[x] # "unkeying"
  PROVE  KeyHeld'
<1>t. LinkTypeOK
  BY DEF TypeOK
<1> SUFFICES ASSUME radioKeyed' PROVE \E c \in Call : HasKeyed(c)'
  BY DEF KeyHeld
<1>1. PICK c \in Call : HasKeyed(c)
  BY DEF KeyHeld, LinkMoves
<1>2. CASE c # x
  <2>1. /\ pending'[c] = pending[c] /\ pc'[c] = pc[c]
        /\ OnWire(c)' => OnWire(c)
        /\ InReplies(c)' => InReplies(c)
    BY <1>1, <1>2, <1>t, WhoIsWho, OthersWait DEF HasKeyed
  <2> QED
    BY <1>1, <2>1 DEF HasKeyed, LinkMoves
<1>3. CASE c = x
  <2>1. pc[x] \in Waits \cup {"streaming"}
    BY <1>1, <1>3 DEF HasKeyed, Waits
  <2>2. ~Elsewise(x) /\ ~SendsKey(x)
    BY <2>1 DEF Elsewise, SendsKey
  <2>3. CASE Quietly(x)
    BY <1>1, <1>3, <2>1, <2>3, QuietWaits DEF HasKeyed, OnWire, InReplies, linkVars
  <2>4. CASE SendsUnkey(x)
    <3>1. pc'[x] \in {"unkeyAll", "unkeyCut"} /\ pending'[x] = seq + 1
      BY <1>3, <1>t, <2>4, SendNumbers DEF SendsUnkey
    <3>2. \A a \in Members(replies') : a.seq \in Nat /\ a.seq <= seq /\ seq \in Nat
      BY <1>t, MemberTypes DEF Numbered, LinkMoves, LinkTypeOK
    <3>3. ~InReplies(c)'
      BY <1>3, <3>1, <3>2 DEF InReplies
    <3> QED
      BY <1>3, <3>1, <3>3 DEF HasKeyed
  <2>5. CASE ReadsAnswer(x)
    <3>1. Head(replies) \in Members(replies) /\ Head(replies).seq = pending[x]
      BY <1>t, <2>5, TailMembers DEF ReadsAnswer, Answered, LinkTypeOK
    <3>2. pc[x] = "keying" /\ Head(replies).ok
      BY <1>1, <1>3, <2>5, <3>1 DEF HasKeyed, InReplies, ReadsAnswer, Waits
    <3>3. pc'[x] = "streaming"
      BY <2>5, <3>2 DEF ReadsAnswer
    <3> QED
      BY <1>3, <3>3 DEF HasKeyed
  <2> QED
    BY <2>2, <2>3, <2>4, <2>5 DEF OwnLink
<1> QED
  BY <1>2, <1>3

---------------------------------------------------------------------------
(* What a step does to the counts of stops. *)

\* A call that begins, takes the transmitter or keys has been overtaken by no stop.
CallCounted(c) ==
    /\ stopAt' = stopAt
    /\ stopGen' \in {stopGen, stopGen + 1}
    /\ \A d \in Call : stopsAtStart'[d] = stopsAtStart[d] \/ stopsAtStart'[d] = stopGen
    /\ \A d \in Owners' : d \in Owners \/ stopsAtStart'[d] = stopGen
    /\ \A d \in Owners : stopsAtStart'[d] = stopsAtStart[d]
    /\ SendsKey(c) => stopsAtStart'[c] = stopGen

LEMMA CallCounts ==
  ASSUME TypeOK, NEW c \in Call, CallStep(c)
  PROVE  CallCounted(c) /\ pc'[c] # "unkeying"
<1>0. c \in Client /\ Call \subseteq Client
  BY WhoIsWho
<1>g. \A p : Go(c, p) => \A d \in Call : pc'[d] = IF d = c THEN p ELSE pc[d]
  BY <1>0 DEF Go, TypeOK
<1>p. \A p : PassesGate(c, p) => /\ pc[c] = "gate" /\ pc'[c] = p
                                 /\ \A d \in Call \ {c} : pc'[d] \in {pc[d], "refused"}
  BY <1>0 DEF PassesGate
<1>u. \A p : Unkey(c, p) => /\ pc'[c] = p /\ stopGen' = stopGen + 1
                            /\ \A d \in Call \ {c} : pc'[d] \in {pc[d], "refused"}
  BY <1>0 DEF Unkey
<1> USE DEF Owners, Owning, CallCounted
<1>1. CASE Begin(c)
  <2>1. stopsAtStart' = [stopsAtStart EXCEPT ![c] = stopGen] /\ UNCHANGED <<stopGen, stopAt>>
    BY <1>1 DEF Begin, flags, history
  <2>2. pc[c] = "idle" /\ pc'[c] = "gate" /\ \A d \in Call \ {c} : pc'[d] = pc[d]
    BY <1>1, <1>g DEF Begin
  <2>3. \A d \in Call : stopsAtStart'[d] = IF d = c THEN stopGen ELSE stopsAtStart[d]
    BY <2>1 DEF TypeOK
  <2> QED
    BY <2>1, <2>2, <2>3 DEF SendsKey
<1>2. CASE ReadSetting(c) \/ SendPacket(c)
  <2>1. UNCHANGED <<pc, stopsAtStart, stopGen, stopAt>>
    BY <1>2 DEF ReadSetting, SendPacket, flags, history
  <2> QED
    BY <1>2, <2>1 DEF SendsKey, Waits, ReadSetting, SendPacket
<1>3. CASE RefusedAtGate(c) \/ WindowBegins(c) \/ DroppedBeforeKeying(c)
  <2>1. UNCHANGED <<stopsAtStart, stopGen, stopAt>>
    BY <1>3 DEF RefusedAtGate, WindowBegins, DroppedBeforeKeying, flags, locals, history
  <2>2. pc'[c] \in {"refused", "regate"} /\ (pc'[c] = "regate" => pc[c] = "window")
        /\ \A d \in Call \ {c} : pc'[d] = pc[d]
    BY <1>3, <1>g DEF RefusedAtGate, WindowBegins, DroppedBeforeKeying
  <2> QED
    BY <2>1, <2>2 DEF SendsKey
<1>4. CASE DroppedAfterGate(c)
  <2>1. UNCHANGED <<stopsAtStart, stopGen, stopAt>>
    BY <1>4 DEF DroppedAfterGate, locals, history
  <2>2. pc'[c] = "refused" /\ \A d \in Call \ {c} : pc'[d] \in {pc[d], "refused"}
    BY <1>4, <1>p DEF DroppedAfterGate
  <2> QED
    BY <2>1, <2>2 DEF SendsKey
<1>5. CASE Accepts(c)
  <2>1. PICK p \in {"window", "regate", "keying", "cwWpm"} : Takes(c, p)
    BY <1>5 DEF Accepts, TakesAndWaits, TakesAndRereads, TakesAndKeys, TakesForCw
  <2>2. UNCHANGED <<stopsAtStart, stopGen, stopAt>> /\ stopGen = stopsAtStart[c]
    BY <2>1 DEF Takes, history
  <2>3. pc'[c] = p /\ \A d \in Call \ {c} : pc'[d] \in {pc[d], "refused"}
    BY <1>p, <2>1 DEF Takes
  <2> QED
    BY <2>2, <2>3
<1>6. CASE Keys(c)
  <2>1. UNCHANGED <<stopsAtStart, stopGen, stopAt>> /\ stopGen = stopsAtStart[c]
    BY <1>6 DEF Keys, locals, history
  <2>2. pc'[c] = "keying" /\ \A d \in Call \ {c} : pc'[d] = pc[d]
    BY <1>6, <1>g DEF Keys
  <2> QED
    BY <2>1, <2>2
<1>7. CASE KeyAcknowledged(c) \/ KeyFails(c) \/ CallUnkeyed(c)
  <2>1. UNCHANGED <<stopsAtStart, stopGen, stopAt>>
    BY <1>7 DEF KeyAcknowledged, KeyFails, CallUnkeyed, Unkeyed, locals, history
  <2>2. pc'[c] \in {"streaming", "refused", "sent"} /\ pc[c] \in Owning
        /\ \A d \in Call \ {c} : pc'[d] = pc[d]
    BY <1>7, <1>g DEF KeyAcknowledged, KeyFails, CallUnkeyed
  <2> QED
    BY <2>1, <2>2 DEF SendsKey
<1>8. CASE StreamEnds(c) \/ StreamFails(c)
  <2>1. PICK p \in {"unkeyAll", "unkeyCut"} : Unkey(c, p)
    BY <1>8 DEF StreamEnds, StreamFails
  <2>2. UNCHANGED <<stopsAtStart, stopAt>> /\ pc[c] = "streaming"
    BY <1>8 DEF StreamEnds, StreamFails, history
  <2> QED
    BY <1>u, <2>1, <2>2 DEF SendsKey
<1>9. CASE CwSpeedSet(c) \/ CwSent(c) \/ CwFails(c) \/ CwEnds(c)
  <2>1. UNCHANGED <<stopsAtStart, stopGen, stopAt>>
    BY <1>9 DEF CwSpeedSet, CwSent, CwFails, CwEnds, flags, locals, history
  <2>2. pc'[c] \in {"cwSend", "cwTimer", "refused", "sent"} /\ pc[c] \in Owning
        /\ \A d \in Call \ {c} : pc'[d] = pc[d]
    BY <1>9, <1>g DEF CwSpeedSet, CwSent, CwFails, CwEnds
  <2> QED
    BY <2>1, <2>2 DEF SendsKey
<1> QED
  BY <1>1, <1>2, <1>3, <1>4, <1>5, <1>6, <1>7, <1>8, <1>9 DEF CallStep

\* A stop that begins comes after everything so far.
StopCounted(s) ==
    /\ stopsAtStart' = stopsAtStart
    /\ \/ stopAt' = stopAt /\ stopGen' = stopGen
       \/ /\ SendsUnkey(s) /\ pc'[s] = "unkeying"
          /\ stopAt' = [stopAt EXCEPT ![s] = stopGen + 1] /\ stopGen' = stopGen + 1
    /\ pc'[s] \in {"writing", "done"} => pc[s] \in {"unkeying", "writing"}

LEMMA StopCounts ==
  ASSUME SlowLink = FALSE, TypeOK, NEW s \in Stop, StopStep(s)
  PROVE  StopCounted(s)
<1>0. s \in Client
  BY WhoIsWho
<1>g. \A p : Go(s, p) => pc'[s] = p
  BY <1>0 DEF Go, TypeOK
<1>1. CASE Halts(s) \/ TakesVoice(s) \/ UnkeysForExit(s)
  <2>1. Unkey(s, "unkeying") /\ pc[s] \in {"idle", "tuneOff"} /\ stopsAtStart' = stopsAtStart
        /\ stopAt' = [stopAt EXCEPT ![s] = stopGen + 1]
    BY <1>1 DEF Halts, TakesVoice, UnkeysForExit, StopUnkeys
  <2>2. replies' = replies \/ (replies # <<>> /\ replies' = Tail(replies))
    BY <1>1 DEF Halts, TakesVoice, UnkeysForExit, StopUnkeys, Answered
  <2>3. pc'[s] = "unkeying" /\ Send(s, "xmit 0") /\ stopGen' = stopGen + 1
    BY <1>0, <2>1 DEF Unkey
  <2>4. SendsUnkey(s)
    BY <2>1, <2>2, <2>3 DEF SendsUnkey, Waits
  <2> QED
    BY <2>1, <2>3, <2>4 DEF StopCounted
<1>2. CASE LatchesForExit(s) \/ StopUnkeyed(s) \/ DisarmWritten(s)
  <2>1. UNCHANGED <<stopsAtStart, stopGen, stopAt>>
    BY <1>2 DEF LatchesForExit, StopUnkeyed, Unkeyed, DisarmWritten, flags, locals, history
  <2>2. pc'[s] \in {"writing", "done"} => pc[s] \in {"unkeying", "writing"}
    BY <1>2, <1>g DEF LatchesForExit, StopUnkeyed, DisarmWritten
  <2> QED
    BY <2>1, <2>2 DEF StopCounted
<1> QED
  BY <1>1, <1>2 DEF StopStep

\* Nothing a client does makes another's answer, or its own, look obeyed that was not.
LEMMA ObeyedBefore ==
  ASSUME LinkTypeOK, Numbered, NEW x \in Client, OwnLink(x), Elsewhere(x), LinkMoves(x),
         NEW s \in Stop, Obeyed(s)',
         x = s => (pc'[s] \in {"writing", "done"} => pc[s] \in {"unkeying", "writing"})
  PROVE  Obeyed(s) /\ ~(x = s /\ SendsUnkey(s))
<1>0. s \in Client
  BY WhoIsWho
<1>1. CASE x # s
  BY <1>0, <1>1, OthersWait DEF Obeyed
<1>2. CASE x = s
  <2>1. ~SendsUnkey(s)
    <3>1. SUFFICES ASSUME SendsUnkey(s) PROVE FALSE
      OBVIOUS
    <3>2. pending'[s] = seq + 1 /\ pc'[s] \notin {"writing", "done"}
      BY <1>0, <3>1, SendNumbers DEF SendsUnkey
    <3>3. \A a \in Members(replies') : a.seq \in Nat /\ a.seq <= seq /\ seq \in Nat
      BY <1>2, MemberTypes DEF Numbered, LinkMoves, LinkTypeOK
    <3> QED
      BY <3>2, <3>3 DEF Obeyed, InReplies
  <2>2. CASE Quietly(s)
    <3>1. UNCHANGED linkVars
      BY <2>2 DEF Quietly
    <3>2. CASE pc'[s] \in {"writing", "done"}
      BY <1>2, <2>1, <2>2, <3>2, QuietWaits DEF Waits, Obeyed
    <3>3. CASE pc'[s] = "unkeying"
      BY <1>2, <2>1, <2>2, <3>1, <3>3, QuietWaits DEF Waits, Obeyed, InReplies, linkVars
    <3> QED
      BY <3>2, <3>3 DEF Obeyed
  <2>3. CASE Elsewise(s)
    BY <1>2, <2>1, <2>3 DEF Elsewise, Waits, Obeyed
  <2>4. CASE SendsKey(s)
    BY <2>4 DEF SendsKey, Obeyed
  <2>5. CASE ReadsAnswer(s)
    <3>1. Head(replies) \in Members(replies) /\ Head(replies).seq = pending[s]
      BY <2>5, TailMembers DEF ReadsAnswer, Answered, LinkTypeOK
    <3>2. pc[s] = "unkeying"
      BY <1>2, <2>5 DEF ReadsAnswer, Waits, Obeyed
    <3> QED
      BY <2>1, <1>2, <3>1, <3>2 DEF Obeyed, InReplies
  <2> QED
    BY <1>2, <2>1, <2>2, <2>3, <2>4, <2>5 DEF OwnLink
<1> QED
  BY <1>1, <1>2

\* What a call that is waiting for its xmit 1 was waiting for before.
LEMMA KeyingBefore ==
  ASSUME LinkTypeOK, Numbered, NEW x \in Client, OwnLink(x), Elsewhere(x), LinkMoves(x),
         NEW c \in Call, pc'[c] = "keying", ~(x = c /\ SendsKey(c))
  PROVE  pc[c] = "keying" /\ pending'[c] = pending[c] /\ (OnWire(c)' => OnWire(c))
<1>0. c \in Client
  BY WhoIsWho
<1>1. CASE x # c
  BY <1>0, <1>1, OthersWait
<1>2. CASE x = c
  <2>1. Quietly(c)
    BY <1>2 DEF OwnLink, Elsewise, SendsUnkey, ReadsAnswer, Waits
  <2> QED
    BY <2>1, QuietWaits DEF Waits, linkVars, OnWire
<1> QED
  BY <1>1, <1>2

LEMMA CallHalting ==
  ASSUME TypeOK, Numbered, Halting, NEW c \in Call, OwnLink(c), Elsewhere(c), LinkMoves(c),
         CallCounted(c), pc'[c] # "unkeying"
  PROVE  Halting'
<1>t. LinkTypeOK /\ c \in Client /\ Stop \subseteq Client /\ \A s \in Stop : s # c
  BY TransmitterAssumption DEF TypeOK
<1> SUFFICES ASSUME NEW s \in Stop
             PROVE  /\ stopAt'[s] <= stopGen'
                    /\ pc'[s] = "unkeying" =>
                         \A d \in Call : pc'[d] = "keying" /\ Before(d, s)' => pending'[d] < pending'[s]
                    /\ Obeyed(s)' =>
                         /\ radioKeyed' => \A d \in Owners' : ~Before(d, s)'
                         /\ \A d \in Call : pc'[d] = "keying" /\ OnWire(d)' => ~Before(d, s)'
  BY DEF Halting
<1>n. /\ stopAt'[s] = stopAt[s] /\ stopAt[s] <= stopGen
      /\ stopAt[s] \in Nat /\ stopGen \in Nat /\ \A d \in Call : stopsAtStart[d] \in Nat
  BY DEF CallCounted, Halting, TypeOK
<1>b. \A d \in Call : Before(d, s)' => Before(d, s) /\ stopsAtStart'[d] = stopsAtStart[d]
  BY <1>n DEF Before, CallCounted
<1>k. SendsKey(c) => ~Before(c, s)'
  BY <1>n DEF Before, CallCounted
<1>1. stopAt'[s] <= stopGen'
  BY <1>n DEF CallCounted
<1>2. ASSUME pc'[s] = "unkeying", NEW d \in Call, pc'[d] = "keying", Before(d, s)'
      PROVE  pending'[d] < pending'[s]
  <2>1. pc[s] = "unkeying" /\ pending'[s] = pending[s]
    BY <1>2, <1>t, OthersWait
  <2>2. pc[d] = "keying" /\ pending'[d] = pending[d]
    BY <1>2, <1>t, <1>k, KeyingBefore
  <2> QED
    BY <1>2, <1>b, <2>1, <2>2 DEF Halting
<1>3. ASSUME Obeyed(s)' PROVE Obeyed(s)
  BY <1>3, <1>t, ObeyedBefore
<1>4. ASSUME Obeyed(s)', radioKeyed', NEW d \in Owners' PROVE ~Before(d, s)'
  <2>1. radioKeyed
    BY <1>4 DEF LinkMoves
  <2>2. d \in Call
    BY DEF Owners
  <2>3. CASE d \in Owners
    BY <1>3, <1>4, <1>b, <2>1, <2>2, <2>3 DEF Halting
  <2>4. CASE stopsAtStart'[d] = stopGen
    BY <1>n, <2>4 DEF Before
  <2> QED
    BY <2>3, <2>4 DEF CallCounted
<1>5. ASSUME Obeyed(s)', NEW d \in Call, pc'[d] = "keying", OnWire(d)' PROVE ~Before(d, s)'
  <2>1. CASE d = c /\ SendsKey(c)
    BY <1>k, <2>1
  <2>2. CASE ~(c = d /\ SendsKey(d))
    <3>1. pc[d] = "keying" /\ OnWire(d)
      BY <1>5, <1>t, <2>2, KeyingBefore
    <3> QED
      BY <1>3, <1>5, <1>b, <3>1 DEF Halting
  <2> QED
    BY <2>1, <2>2
<1> QED
  BY <1>1, <1>2, <1>4, <1>5

LEMMA StopHalting ==
  ASSUME TypeOK, Numbered, Halting, NEW x \in Stop, OwnLink(x), Elsewhere(x), LinkMoves(x),
         StopCounted(x)
  PROVE  Halting'
<1>t. LinkTypeOK /\ x \in Client /\ Stop \subseteq Client /\ \A c \in Call : x # c /\ c \in Client
  BY TransmitterAssumption DEF TypeOK
<1> SUFFICES ASSUME NEW s \in Stop
             PROVE  /\ stopAt'[s] <= stopGen'
                    /\ pc'[s] = "unkeying" =>
                         \A d \in Call : pc'[d] = "keying" /\ Before(d, s)' => pending'[d] < pending'[s]
                    /\ Obeyed(s)' =>
                         /\ radioKeyed' => \A d \in Owners' : ~Before(d, s)'
                         /\ \A d \in Call : pc'[d] = "keying" /\ OnWire(d)' => ~Before(d, s)'
  BY DEF Halting
<1>n. /\ stopAt[s] <= stopGen /\ stopAt[s] \in Nat /\ stopGen \in Nat
      /\ \A d \in Call : stopsAtStart[d] \in Nat /\ stopsAtStart'[d] = stopsAtStart[d]
  BY DEF StopCounted, Halting, TypeOK
<1>w. \A d \in Call : pc'[d] = "keying" => /\ pc[d] = "keying" /\ pending'[d] = pending[d]
                                           /\ (OnWire(d)' => OnWire(d))
  BY <1>t, KeyingBefore
<1>1. CASE stopAt'[s] = stopAt[s] /\ ~(x = s /\ SendsUnkey(s))
  <2>0. \A d \in Call : Before(d, s)' <=> Before(d, s)
    BY <1>1, <1>n DEF Before
  <2>1. stopAt'[s] <= stopGen'
    BY <1>1, <1>n DEF StopCounted
  <2>2. ASSUME pc'[s] = "unkeying" PROVE pc[s] = "unkeying" /\ pending'[s] = pending[s]
    <3>1. CASE x # s
      BY <2>2, <3>1, <1>t, OthersWait
    <3>2. CASE x = s
      <4>1. Quietly(s)
        BY <1>1, <2>2, <3>2 DEF OwnLink, Elsewise, SendsKey, ReadsAnswer, Waits
      <4> QED
        BY <2>2, <4>1, QuietWaits DEF Waits, linkVars
    <3> QED
      BY <3>1, <3>2
  <2>3. Obeyed(s)' => Obeyed(s)
    BY <1>t, ObeyedBefore DEF StopCounted
  <2>4. \A d \in Owners' : d \in Call /\ d \in Owners
    BY <1>t, OthersWait DEF Owners, Owning
  <2>5. ASSUME pc'[s] = "unkeying", NEW d \in Call, pc'[d] = "keying", Before(d, s)'
        PROVE  pending'[d] < pending'[s]
    BY <1>w, <2>0, <2>2, <2>5 DEF Halting
  <2>6. ASSUME Obeyed(s)', radioKeyed', NEW d \in Owners' PROVE ~Before(d, s)'
    BY <2>0, <2>3, <2>4, <2>6 DEF Halting, LinkMoves
  <2>7. ASSUME Obeyed(s)', NEW d \in Call, pc'[d] = "keying", OnWire(d)' PROVE ~Before(d, s)'
    BY <1>w, <2>0, <2>3, <2>7 DEF Halting
  <2> QED
    BY <2>1, <2>5, <2>6, <2>7
<1>2. CASE x = s /\ SendsUnkey(s)
  <2>1. stopAt'[s] <= stopGen'
    BY <1>2, <1>n DEF StopCounted, TypeOK
  <2>2. ASSUME NEW d \in Call, pc'[d] = "keying" PROVE pending'[d] < pending'[s]
    <3>1. pending'[s] = seq + 1
      BY <1>2, <1>t, SendNumbers DEF SendsUnkey
    <3>2. pending'[d] = pending[d] /\ pending[d] <= seq /\ pending[d] \in Nat /\ seq \in Nat
      BY <1>t, <1>w, <2>2 DEF Numbered, LinkTypeOK
    <3> QED
      BY <3>1, <3>2
  <2>3. ~Obeyed(s)'
    BY <1>2, <1>t, ObeyedBefore DEF StopCounted
  <2> QED
    BY <2>1, <2>2, <2>3
<1> QED
  BY <1>1, <1>2 DEF StopCounted, TypeOK

LEMMA StillLinkInv ==
  ASSUME LinkInv, UNCHANGED <<linkVars, pc, stopsAtStart, stopAt, stopGen>>
  PROVE  LinkInv'
<1>1. Numbered' /\ Meant' /\ KeyHeld'
  BY DEF LinkInv, linkVars, Numbered, Meant, KeyHeld, HasKeyed, OnWire, InReplies
<1>2. Halting'
  BY DEF LinkInv, linkVars, Halting, Obeyed, Before, OnWire, InReplies, Owners
<1> QED
  BY <1>1, <1>2 DEF LinkInv

\* The watchdog sends an xmit 0 nobody waits for.
LEMMA WatchdogLink ==
  ASSUME TypeOK, LinkInv, WatchdogFires
  PROVE  LinkInv'
<1>t. LinkTypeOK
  BY DEF TypeOK
<1>0. /\ UNCHANGED <<pending, replies, pc, stopsAtStart, stopAt, radioKeyed>>
      /\ stopGen' = stopGen + 1 /\ seq' = seq + 1
  BY DEF WatchdogFires, SendAndForget, locals, history
<1>w. wire' = Append(wire, [seq |-> seq + 1, cmd |-> "xmit 0"])
  BY DEF WatchdogFires, SendAndForget
<1>1. Members(wire') = Members(wire) \cup {[seq |-> seq + 1, cmd |-> "xmit 0"]}
  BY <1>t, <1>w, Appended DEF Commands
<1>n. ASSUME NEW r \in Members(wire')
      PROVE  r \in Members(wire) \/ (r.seq = seq + 1 /\ r.cmd = "xmit 0")
  <2>1. CASE r = [seq |-> seq + 1, cmd |-> "xmit 0"]
    BY <2>1
  <2> QED
    BY <1>1, <2>1
<1>o. Members(wire) \subseteq Members(wire')
  BY <1>1
<1>2. Numbered'
  BY <1>t, <1>0, <1>w, SentNumbered DEF LinkInv, Commands
<1>3. Meant'
  <2> SUFFICES ASSUME NEW r \in Members(wire')
               PROVE  /\ r.cmd = "xmit 1" => \E c \in Call : pc[c] = "keying" /\ pending[c] = r.seq
                      /\ \A x \in Client : pc[x] \in Unkeying /\ pending[x] = r.seq
                                              => r.cmd = "xmit 0"
    BY <1>0 DEF Meant
  <2>1. CASE r \in Members(wire)
    BY <2>1 DEF LinkInv, Meant
  <2>2. CASE r.cmd = "xmit 0"
    BY <2>2
  <2> QED
    BY <1>n, <2>1, <2>2
<1>4. \A x \in Client : (OnWire(x)' <=> OnWire(x)) /\ (InReplies(x)' <=> InReplies(x))
  <2>1. \A x \in Client : pending'[x] = pending[x] /\ pending[x] # seq + 1
    <3>1. \A x \in Client : pending[x] \in Nat /\ pending[x] <= seq
      BY <1>t DEF LinkInv, Numbered, LinkTypeOK
    <3>2. seq \in Nat
      BY <1>t DEF LinkTypeOK
    <3> QED
      BY <1>0, <3>1, <3>2
  <2>2. \A x \in Client : InReplies(x)' <=> InReplies(x)
    BY <1>0 DEF InReplies
  <2>3. \A x \in Client : OnWire(x)' <=> OnWire(x)
    BY <1>n, <1>o, <2>1 DEF OnWire
  <2> QED
    BY <2>2, <2>3
<1>5. KeyHeld'
  BY <1>0, <1>4, WhoIsWho DEF LinkInv, KeyHeld, HasKeyed
<1>6. Halting'
  <2>1. \A s \in Stop : stopAt[s] \in Nat /\ stopGen \in Nat /\ stopAt[s] <= stopGen
    BY DEF LinkInv, Halting, TypeOK
  <2> QED
    <3> SUFFICES ASSUME NEW s \in Stop
                 PROVE  /\ stopAt[s] <= stopGen'
                        /\ pc[s] = "unkeying" =>
                             \A c \in Call : pc[c] = "keying" /\ Before(c, s) => pending[c] < pending[s]
                        /\ Obeyed(s) =>
                             /\ radioKeyed => \A c \in Owners : ~Before(c, s)
                             /\ \A c \in Call : pc[c] = "keying" /\ OnWire(c) => ~Before(c, s)
      BY <1>0, <1>4, WhoIsWho DEF Halting, Obeyed, Before, Owners
    <3>1. stopAt[s] <= stopGen'
      BY <1>0, <2>1
    <3> QED
      BY <3>1 DEF LinkInv, Halting
<1> QED
  BY <1>2, <1>3, <1>5, <1>6 DEF LinkInv

LEMMA LinkInvStep ==
  ASSUME SlowLink = FALSE
  PROVE  HolderInv /\ LinkInv /\ [Next]_vars => LinkInv'
<1> SUFFICES ASSUME HolderInv, LinkInv, [Next]_vars PROVE LinkInv'
  OBVIOUS
<1>t. TypeOK /\ LinkTypeOK
  BY DEF HolderInv, TypeOK
<1>1. ASSUME NEW c \in Call, CallStep(c) PROVE LinkInv'
  <2>1. OwnLink(c) /\ CallCounted(c) /\ pc'[c] # "unkeying" /\ c \in Client
    BY <1>1, <1>t, CallLink, CallCounts, WhoIsWho
  <2>2. Elsewhere(c) /\ LinkMoves(c)
    BY <1>1, <1>t, <2>1, CallElsewhere, OwnLinkMoves
  <2> QED
    BY <1>t, <2>1, <2>2, OwnNumbered, OwnMeant, OwnKeyHeld, CallHalting DEF LinkInv
<1>2. ASSUME NEW s \in Stop, StopStep(s) PROVE LinkInv'
  <2>1. OwnLink(s) /\ StopCounted(s) /\ ~SendsKey(s) /\ s \in Client /\ s \notin Call
    BY <1>2, <1>t, StopLink, StopCounts, StopNeverKeys, TransmitterAssumption
  <2>2. Elsewhere(s) /\ LinkMoves(s)
    BY <1>2, <1>t, <2>1, StopElsewhere, OwnLinkMoves
  <2> QED
    BY <1>t, <2>1, <2>2, OwnNumbered, OwnMeant, OwnKeyHeld, StopHalting DEF LinkInv
<1>3. CASE RadioStep
  <2>1. LinkNext /\ UNCHANGED <<pc, stopGen, stopAt, stopsAtStart>>
    BY <1>3 DEF RadioStep, flags, locals, history
  <2> QED
    BY <1>t, <2>1, RadioNumbered, RadioMeant, RadioKeyHeld, RadioHalting DEF LinkInv
<1>4. CASE Arms \/ SettingsTurnOff \/ ReleasesVoice \/ UNCHANGED vars
  <2>1. UNCHANGED <<linkVars, pc, stopsAtStart, stopAt, stopGen>>
    BY <1>4 DEF Arms, SettingsTurnOff, ReleasesVoice, vars, flags, locals, history
  <2> QED
    BY <2>1, StillLinkInv
<1> QED
  BY <1>1, <1>2, <1>3, <1>4, <1>t, WatchdogLink DEF Next

LEMMA HolderInvariant == Spec => []HolderInv
  BY TypeCorrect, OneCallHolds, PTL DEF HolderInv

LEMMA LinkInvariant ==
  ASSUME SlowLink = FALSE
  PROVE  Spec => []LinkInv
<1>1. Init => LinkInv
  BY LinkInvInit
<1>2. HolderInv /\ LinkInv /\ [Next]_vars => LinkInv'
  BY LinkInvStep
<1> QED
  BY <1>1, <1>2, HolderInvariant, PTL DEF Spec

\* On a link whose replies come before their callers give up, the radio is never left
\* keyed by calls that have all returned, also when it refuses to key (keyAndStream,
\* unkey and the watchdog in lib/flex/tx.ts).
THEOREM NeverKeyedAlone ==
  ASSUME SlowLink = FALSE
  PROVE  Spec => []NeverLeftKeyed
<1>1. LinkInv => NeverLeftKeyed
  BY DEF LinkInv, KeyHeld, HasKeyed, NeverLeftKeyed, Owners, Owning
<1> QED
  BY <1>1, LinkInvariant, PTL

\* On a prompt link a stop that has had its answer has silenced every call that
\* began before it (unkey and keyAndStream in lib/flex/tx.ts, and the halt, disarm
\* and restart handlers of services/radio/index.ts).
THEOREM HaltSilences ==
  ASSUME SlowLink = FALSE
  PROVE  Spec => []HaltedIsSilent
<1>1. TypeOK /\ LinkInv => HaltedIsSilent
  <2> SUFFICES ASSUME TypeOK, LinkInv, NEW s \in Stop, pc[s] \in {"writing", "done"}, radioKeyed
               PROVE  \E c \in Owners : stopsAtStart[c] >= stopAt[s]
    BY DEF HaltedIsSilent
  <2>1. PICK c \in Owners : TRUE
    BY DEF LinkInv, KeyHeld, HasKeyed, Owners, Owning
  <2>2. ~Before(c, s) /\ c \in Call
    BY DEF LinkInv, Halting, Obeyed, Owners
  <2>3. stopsAtStart[c] \in Nat /\ stopAt[s] \in Nat
    BY <2>2 DEF TypeOK
  <2> QED
    BY <2>2, <2>3 DEF Before
<1> QED
  BY <1>1, LinkInvariant, TypeCorrect, PTL
=============================================================================
