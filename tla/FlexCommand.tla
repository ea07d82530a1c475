---------------------------- MODULE FlexCommand ----------------------------
(***************************************************************************)
(* The FlexRadio command connection: FlexClient.command of                 *)
(* lib/flex/client.ts on one side, the radio itself on the other.  Commands*)
(* carry a sequence number and travel over one TCP connection, so the radio*)
(* sees them in the order they were sent and its replies come back in the  *)
(* order it made them.  A command unanswered after ten seconds resolves    *)
(* with status -1, and a reply that arrives later is only noted.           *)
(***************************************************************************)
EXTENDS Naturals, Sequences

CONSTANTS
    Client,         \* whoever awaits a command: one command each at a time
    SlowLink,       \* a reply may take longer than the ten seconds allowed
    CommandsLost    \* the radio may ignore a command and answer later ones

ASSUME LinkAssumption == SlowLink \in BOOLEAN /\ CommandsLost \in BOOLEAN

VARIABLES
    seq,            \* the sequence number of the last command sent
    pending,        \* the number of the command each client awaits, or 0
    wire,           \* commands the radio has not taken yet
    replies,        \* replies the bridge has not read yet
    radioKeyed      \* the radio is transmitting on our say-so

linkVars == <<seq, pending, wire, replies, radioKeyed>>

\* xmit 1, xmit 0, transmit tune 0, cwx wpm and cwx send.
Commands == {"xmit 1", "xmit 0", "tune 0", "cwx wpm", "cwx send"}

\* What a radio with interlocks may answer with an error.
Refusable == {"xmit 1", "cwx wpm", "cwx send"}

CommandRecords == [seq : Nat, cmd : Commands]
ReplyRecords == [seq : Nat, ok : BOOLEAN]

LinkTypeOK ==
    /\ seq \in Nat
    /\ pending \in [Client -> Nat]
    /\ wire \in Seq(CommandRecords)
    /\ replies \in Seq(ReplyRecords)
    /\ radioKeyed \in BOOLEAN

LinkInit ==
    /\ seq = 0
    /\ pending = [c \in Client |-> 0]
    /\ wire = <<>>
    /\ replies = <<>>
    /\ radioKeyed = FALSE

\* c sends cmd and awaits its reply.
Send(c, cmd) ==
    /\ seq' = seq + 1
    /\ pending' = [pending EXCEPT ![c] = seq + 1]
    /\ wire' = Append(wire, [seq |-> seq + 1, cmd |-> cmd])
    /\ UNCHANGED radioKeyed

\* cmd is sent and nobody awaits its reply: `void client.command(...)`.
SendAndForget(cmd) ==
    /\ seq' = seq + 1
    /\ wire' = Append(wire, [seq |-> seq + 1, cmd |-> cmd])
    /\ UNCHANGED radioKeyed

\* The reply c awaits is the next to be read.
Answered(c) ==
    /\ pending[c] # 0
    /\ replies # <<>>
    /\ Head(replies).seq = pending[c]

\* Ten seconds have passed since c sent its command.  Deadlines run out in the
\* order the commands were sent.
TimedOut(c) ==
    /\ SlowLink
    /\ pending[c] # 0
    /\ \A d \in Client : pending[d] # 0 => pending[c] <= pending[d]

ReadReply(c) ==
    /\ replies' = Tail(replies)
    /\ pending' = [pending EXCEPT ![c] = 0]

GiveUp(c) ==
    /\ pending' = [pending EXCEPT ![c] = 0]
    /\ UNCHANGED replies

\* A reply nobody awaits any more: to a command that timed out, or one that was
\* sent and forgotten.
DropReply ==
    /\ replies # <<>>
    /\ \A c \in Client : pending[c] # Head(replies).seq
    /\ replies' = Tail(replies)
    /\ UNCHANGED <<seq, pending, wire, radioKeyed>>

---------------------------------------------------------------------------
(* The radio. *)

RadioObeys ==
    /\ wire # <<>>
    /\ wire' = Tail(wire)
    /\ replies' = Append(replies, [seq |-> Head(wire).seq, ok |-> TRUE])
    /\ radioKeyed' = \/ Head(wire).cmd = "xmit 1"
                     \/ radioKeyed /\ Head(wire).cmd # "xmit 0"
    /\ UNCHANGED <<seq, pending>>

RadioRefuses ==
    /\ wire # <<>>
    /\ Head(wire).cmd \in Refusable
    /\ wire' = Tail(wire)
    /\ replies' = Append(replies, [seq |-> Head(wire).seq, ok |-> FALSE])
    /\ UNCHANGED <<seq, pending, radioKeyed>>

RadioIgnores ==
    /\ CommandsLost
    /\ wire # <<>>
    /\ wire' = Tail(wire)
    /\ UNCHANGED <<seq, pending, replies, radioKeyed>>

LinkNext == DropReply \/ RadioObeys \/ RadioRefuses \/ RadioIgnores
=============================================================================
