---------------------------- MODULE TransmitGate ----------------------------
(***************************************************************************)
(* May this radio transmit?  lib/radio/transmit-gate.ts, with the settings *)
(* row it reads.  The answer combines a row of the settings table (re-read *)
(* at every transmission), a hold that voice mode takes and releases, and a*)
(* latch the bridge closes before it restarts itself.                      *)
(***************************************************************************)
VARIABLES
    allowTransmit,  \* the `flex.allowTransmit` / `icom.allowTransmit` setting
    digitalHold,    \* voice mode owns the transmitter
    exitLatched     \* the process has decided to exit

gateVars == <<allowTransmit, digitalHold, exitLatched>>

GateTypeOK ==
    /\ allowTransmit \in BOOLEAN
    /\ digitalHold \in BOOLEAN
    /\ exitLatched \in BOOLEAN

\* The setting is off until an operator turns it on; neither hold nor latch
\* survives a restart.
GateInit ==
    /\ allowTransmit \in BOOLEAN
    /\ digitalHold = FALSE
    /\ exitLatched = FALSE

(***************************************************************************)
(* isTransmitArmed looks at the latch and the hold before its first await  *)
(* and at the setting after it, so one reading of the gate has two halves: *)
(* what it starts as, and what the setting then makes of it.               *)
(***************************************************************************)
Readings == {"unread", "off", "on"}

\* Fault: only the setting is asked.
ReadingStartsUnheld == "unread"

ReadingStarts == IF exitLatched \/ digitalHold THEN "off" ELSE "unread"

\* A settings read that throws is answered with "off" by every transmitter.
ReadingEnds == {"off"} \cup (IF allowTransmit THEN {"on"} ELSE {})

CloseTransmitGateForExit ==
    /\ exitLatched' = TRUE
    /\ UNCHANGED <<allowTransmit, digitalHold>>

SetDigitalTransmitHold(on) ==
    /\ digitalHold' = on
    /\ UNCHANGED <<allowTransmit, exitLatched>>

WriteAllowTransmit(on) ==
    /\ allowTransmit' = on
    /\ UNCHANGED <<digitalHold, exitLatched>>
=============================================================================
