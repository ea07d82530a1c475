# DigiShack in TLA+

DigiShack logs amateur-radio contacts and works the radio that makes them. This directory
holds TLA+ models of the parts of it that are hardest to test, the TLC configurations that
check them on small instances, and proofs of their main properties that TLAPS checks for
every size of instance. Paths below are those of the repository.

What matters most in this program is the transmitter. Nobody may be watching when it keys,
and the comments of `lib/flex/tx.ts` begin with the failure they are written against: a
transmitter left keyed. So the two transmit paths come first, with everything that can stop
them; then the contact itself, as the sequencer conducts it and the controller runs it; then
the queue that mails QSL cards to other people, the supervision of the decoder threads, and
the lock that keeps two software updates apart.

## 1. The system

Two Node processes share one MySQL database through Prisma. The **web server** serves the
pages (`pages/`, `components/`) and the API (`pages/api/`). The **radio bridge**
(`services/radio/index.ts`) owns the radio, the decoders and the timers. The web server asks
things of the bridge over HTTP on the loopback interface; browsers take decodes and audio
from its websockets. Each process runs one JavaScript continuation at a time: everything
between two `await`s that really suspend is atomic, and anything may happen at an `await`.
Decoders run in worker threads, a Winlink client in a child process.

| component | state it keeps | operations | what is hard | what makes it correct |
|---|---|---|---|---|
| transmit gate `lib/radio/transmit-gate.ts` | the setting (in the database), voice hold, restart latch | read (async), hold, latch | the reading spans a query | nothing keys once it is shut |
| Flex transmitter `lib/flex/tx.ts`, `client.ts` | `busy`, `keyed`, `txGen`, `stopGen`, the pending key, the watchdog; commands awaiting a reply | `transmit`, `transmitText`, `transmitAudio`, `transmitCw`, `unkey`, watchdog | six awaits in one call, a newer request that supersedes, stops at any of them, replies late or never | one holder; a stop stops; nothing left keyed |
| Icom transmitter and session `lib/icom/transmitter.ts`, `services/radio/icom-source.ts` | `busy`, `keyed`, `cancelled`, `stopGen`, the watchdog; the session | `transmit`, `unkey`, `stop`, attach, reconnect | PTT is an unacknowledged datagram, sessions die keyed, old calls outlive their session | the same, across sessions |
| QSL queue `lib/qsl/queue.ts`, `auto.ts`, `opt-out.ts` | one row per contact, its claim, the contact's flag, the opt-outs | queue, approve, skip, send, re-queue, opt out, timer pass | two processes and no lock; SMTP is not transactional; crashes | one mail per approval; opt-outs honoured; no row stranded |
| worker supervisor `lib/radio/worker-supervisor.ts` | the live worker and its generation, pending jobs, closed | `run`, `close`, reply, error, exit, timeout | late answers of replaced workers, hung workers, a `postMessage` that throws | own answers; everyone answered; healthy workers stay |
| QSO sequencer `lib/digital/qso.ts` | one contact: its state, repeats, stalls, what is owed | `onDecode`, `tick` | the other end loses, repeats or leaves; both ends must agree without ever hearing so | nobody logs half a contact; what one logs the other does not drop; it ends |
| QSO controller `services/radio/qso-controller.ts` | the contact in progress, its parity, the last window ticked, a transmission pending; the guards' pause and brake | `startCall`, `startAnswer`, `halt`, `skip`, decodes, window ticks | an await between a check and its act; early and full decodes of one window | a contact is replaced only by who may; its own windows; reported once; halt halts |
| auto operator `services/radio/auto-operator.ts`, `operating.ts` | the hunting mode, cooldowns, holds | choose a station, start a call, upload after a contact | decisions awaited on stale state | never calls against a guard |
| Icom streams `lib/icom/stream-base.ts` … | phase, sequence numbers, sent packets | open, ping, idle, retransmit, close | lost, reordered and repeated datagrams | a stream ends open or reported lost |
| update lock `lib/update/runner.ts` | a lock file | take, judge stale, discard, release | several processes, crashes, a rename that moves the wrong file | one update at a time |
| pat supervisor `services/winlink/pat-supervisor.ts` | the child | start, stop, exit, restart | the exit of an old child after a new one started | one child |
| upload runner `lib/integrations/upload-runner.ts` | marks per contact and service, breakers | run | overlapping runs, marks written after the loop | uploaded once |
| invariant lock `lib/db/invariant-lock.ts` | a row of the settings table | with lock: check and write | deadlocks, retries | the last administrator stays |
| decode pipeline `lib/radio/decode-pipeline.ts` | slot buffers, passes | audio in, windows, early and full pass | a pass that overruns its window | every window decoded or skipped once |
| schedule, JS8 sender, authentication, cluster, confirmations, backup, Winlink | small | — | a timer or a transaction each | — |
| DSP, ADIF, awards, DXCC, maps, pages | none, or the user's | pure functions and views | numeric | compared with examples by `scripts/check-*.ts` |

`PROJECT.json` lists every component with its status, and every hazard with its line.

How the modelled parts meet: the controller, the voice and text panels and the CW keyer call
the *transmitter* of whichever radio is attached, through the interface of
`lib/radio/types.ts`. The transmitter asks the *gate* before it accepts a call and again
before it keys. HALT, `/transmit-gate`, `/voice` and `exitForRestart` change the gate,
stop the transmitter, or do both, in different orders, and the orders matter. The controller
owns a sequencer, feeds it what the decoders find, and hands the transmitter what it says;
it learns only that the transmitter has returned. The QSL queue, the worker supervisor and
the update lock stand apart from the transmitter.

## 2. Modules

| module | models | used by |
|---|---|---|
| `Transmitter` | the promise of the `RadioTransmitter` interface: where each call has got to, who a stop has overtaken | refined by both transmitters |
| `TransmitGate` | the gate; a reading in two halves | both transmitters |
| `FlexCommand` | numbered commands, the radio that takes them in order, replies, timeouts | `FlexTransmitter` |
| `FlexTransmitter` (`…MC`) | `FlexDaxTransmitter` and the bridge handlers that stop it | |
| `IcomTransmitter` (`…MC`) | `IcomTransmitter`, the session around it and its rebuilds | |
| `QslQueue` (`…MC`) | the QSL queue, statement by statement, and the timer's pass | |
| `WorkerSupervisor` | the supervisor and the worker beside it | |
| `QsoSequencer` | `QsoSequencer`: what a decode and a transmit window make of one contact | the two below |
| `QsoExchange` | two sequencers at both ends of a lossy channel | |
| `QsoController` (`…MC`) | the controller around one sequencer, the requests for contacts, HALT, Skip and the guards | |
| `QsoOutcome` | what the two ends of a contact may make of it | refined by `QsoExchange` |
| `UpdateLock` | the lock file of a software update, call by call into the file system | |
| `TransmitterProofs` | one holder, from the promise alone | |
| `FlexTransmitterProofs`, `IcomTransmitterProofs` | types; one holder; the shut gate; the refinement; no radio left keyed; for Flex, HALT | |
| `QslQueueProofs`, `WorkerSupervisorProofs`, `QsoExchangeProofs`, `QsoControllerProofs`, `UpdateLockProofs` | the proofs of those modules | |

An operator with a comment that begins "Fault:" is a plausible bug in the definition that
follows it. Nothing in a specification uses one; each shows that some property would
notice that bug.

### 2.1 The gate and the Flex transmitter

A **step** is what the code runs between two awaits that can suspend it for long: a settings
query, a timer, a command's reply, a packet handed to the socket. Microtasks in between are
part of the step.

*The gate.* `isTransmitArmed` looks at the latch and the hold before its query and at the
setting after it. So `ReadingStarts` samples hold and latch when a call begins to ask, and
`ReadingEnds` what the query says. A query that throws counts as off, as every caller has it.

*A call* moves through `gate` (awaiting the first reading), `window` (awaiting its T/R
window), `regate` (awaiting the second reading), `keying` (awaiting the reply to `xmit 1`),
`streaming`, `unkeyAll`/`unkeyCut` (awaiting the reply to `xmit 0`, all packets sent or cut
short), and for CW `cwWpm`, `cwSend`, `cwTimer`. It ends `sent` or `refused`, the two outcomes
its caller can tell apart. `framed` calls wait for a window and can be superseded while they
do; `text` stands for `transmitText` and `transmitAudio`.

*A stop* is one request that ends in `unkey()`. Its kind tells what it does around that:

- `halt`: HALT, skip, `/restart`: `unkey()`, nothing else;
- `disarm`: the header's switch and FT-0: `unkey()`, and when it returns the setting is written;
- `voice`: hold the gate and `unkey()` in one turn;
- `restart`: latch the gate, await `transmit tune 0`, then `unkey()`.

The setting may also be turned off in Settings, with no unkey (`SettingsTurnOff`), or on
(`Arms`), at any time.

*The link.* `FlexCommand` numbers commands, delivers them in order and answers them. With
`SlowLink` a reply may take longer than its caller waits, with `CommandsLost` the radio may
leave a command unanswered and unobeyed. `wire` is what the radio has not yet taken,
`radioKeyed` what it does. Timeouts expire in the order of the commands.

*The watchdog* may fire whenever it is armed; on a prompt link not while `xmit 1` is
awaited, because its margin is longer than that wait can then be.

CW is keyed by the radio from its own buffer: `radioKeyed` is about PTT only, and HALT does
not empty that buffer (`lib/flex/tx.ts:1190` sends no `cwx clear`). A call that HALT finds
in `cwTimer` still returns when its timer ends.

Not modelled: losing the connection and what `failPending` does then, `start()` and its
preflight, the process's exit and the two-second cap before it, the choice of DAX or
waveform, drift and lateness of a window beyond "missed".

### 2.2 The Icom transmitter

The same calls and stops, over a radio that acknowledges nothing: `wire` holds PTT
datagrams. A session is `live`, then, given up, goes through what `stop()` does:
`unkey`, read PTT back (`ReadsSilent`, `ReadsKeyed` with a repeated unkey, `ReadsNothing`),
close the streams (`Released`), `down`; `Attach` makes the next one. Its preflight reads PTT. When
that read is answered a radio found keyed is unkeyed (`AttachSeeing`); when no CI-V frame came in
time, the read timed out or the preflight threw, nothing is sent and the transmitter is handed
out all the same (`AttachBlind`; `lib/icom/rig.ts:1464`, `1502`, `icom-source.ts:410`). The history
variable `stray` remembers that the radio transmits for one of two reasons the program cannot
see: the last PTT-off for it was lost, or a session took it over blind. The radio's obeying
any command of the session ends it. `LoseStreams` is the radio or the network taking the
streams away. `stopGen` is counted over all transmitter objects there have been, which lets
one variable serve; the calls of an earlier session are made to end at `Attach`, when
nothing they do can reach the radio any more. A stop reaches the transmitter only while the
session is live: `activeTx` is null while one is torn down (`services/radio/index.ts:3602`).

Abstracted: the CI-V and the audio stream open and close together; a waveform too long to
send or impossible to encode is a refusal like the others. With `CommandsLost` a datagram may be
lost for good while the streams live; without it, only with its streams.

### 2.3 The QSL queue

A Task is a request to the web server or a pass of the bridge's timer, and each statement
it runs against the database is a step. `row[q]` is the row's status and `claim[q]` the sender
whose token its `error` column holds. Sending is `batch` (read the approved rows), `Claims` (the
compare-and-set to SENT), `RereadsRow`, `ChecksOptOut`, `Delivers` (the mail server takes it or
not), then `Records`, `Fails` or `Declines`. `FailsAt` names the places at which the database may
fail a statement while a row is claimed; `Throws` is what the sender does then.

Abstracted: batches and candidates may be any rows of the right kind and number, where the
code takes the oldest; the age window may leave any out; paper QSLs are none; a day does
not end, so the cap counts all rows sent; each task dies by itself, which allows everything
a process dying with all its tasks would. Approvals per row are bounded by `Approvals`.
`optIn` has no caller in the repository and is left out. The mail server's answer reaches the
sender: a message that is accepted while its acknowledgement is lost, so that `sendMail` rejects
it, is not a case. The code would then mark the row FAILED and leave the contact without its
flag, so that the timer finds it a candidate again and, where it approves by itself, mails it again;
`FlagIsDurable` and `MailedOncePerApproval` say nothing of such a message. `mails`, `approvals`, `used`,
`cancelled` and `late` are history.

### 2.4 The worker supervisor

A Job is one call of `run()`, answered once: decoded, timed out, retired with its worker,
closed, never started or rejected. The supervisor's handlers run on the main thread; a worker
takes jobs from its `inbox` and puts what it says in `events`, which the main thread reads in
order, perhaps when it has long been replaced. A hung worker is one that takes no step. One
told to terminate may finish what it is at before it is gone. Job timers run out in the order
they were set, all being equally long. `Generations` bounds workers spawned or tried.
`heard` records whose audio an answer was decoded from. Log lines and the count of restarts
are left out.

### 2.5 The sequencer, and two of them

`QsoSequencer` is pure: a record `q` is the object, `onDecode(q, raw)` and `tick(q)` what the two
methods make of it. A message is a Statement: from whom, to whom, and what kind; a fox/hound
message is two of them. RRR and RR73 are one kind, as every branch of the code has them. `seen`
keeps the transmissions of the latest receive window only: an older one does not come again.
`stalledRx` stops counting at `maxRepeats`, beyond which its value makes no difference. `tick`
returns what to send and whether the contact is logged, given up, and kept as incomplete.
Reports' values, grids, contest exchanges beyond their kind, and texts are left out.

`QsoExchange` puts one at each end of a channel that loses whole transmissions. The caller has
picked a CQ of the answerer's, who is idle until it decodes the call. Windows alternate; in its
own an end is asked what to send (`TakesWindow`) or the pass that would ask it fails
(`LosesWindow`); in the other's it may decode what is on the air, twice over, or not at all. An
end that has finished may be heard calling CQ or working `Third` stations (`WorksOthers`): that is
how its partner learns that it has left. Neither is halted by hand.

### 2.6 The QSO controller

Windows are named from the running one: 0, 1 the next, 2 the one after. The decodes of the
window before it arrive while it runs: `onPriorityDecodes`, any number of times, then `onDecodes`
or `passFails`. `runTick` does nothing for the window it ticked last, and hands what the
sequencer says to the transmitter, which keeps it in `flight` until `TxReturns`. A request for a
contact is `deciding` while the automatic operator awaits its own guards, then `asking` while
`startCall` awaits the same guards again, then `begun` or `refused`. It names the windows the station
was heard in (`theirs`), and the contact takes the others. While nothing is on, the automatic
operator may call CQ: the first CQ picks the running window's parity (`CallsCq`), and `cqParity` stays
until the mode or the band changes or a CQ fallback ends (`DropsCq`, `SetsMode`, `Halts`), whatever
contacts come between. An answer (`AnswerBegins`) goes into the windows of that parity whichever
window its caller was heard in (auto-operator.ts:1220). `partner`, a history variable, is whom
the contact is with, in which windows it was heard and which CQ it answers. `HALT` is `Halts` (mode off,
contact cleared), Skip `Skips`; a take-over by the operator clears first and calls afterwards.
`outcome[r]` is what has become of r's contact: live, reported (logged or given up), or stopped
(by hand or by a contact that took its place); `rivals`, a history variable, the requests
that were already asking when the contact in progress began.

Abstracted: cooldowns, duplicates and lists are refusals that may come at any await; whether
it is too late in a window to key is a free choice; a partner may be heard in windows of either
parity and also in those in which we transmit, which allows more than a radio does; a station
sends one transmission per window; a pass ends or fails within its period, and a
transmission handed over for a window ends in it; FT8 and FT4 only, JS8 having its own
sender; Skip's cooldown is left out; a CQ is a transmission for the brake only; a station that
answers is one heard in the window before, so that its parity is known, and any message to us
makes it one, a late closing of an earlier contact included, as in the code
(auto-operator.ts:971). Of the guards, the
pause and the brake on consecutive transmissions are modelled.

### 2.7 The update lock

Every call into the file system is a step, because two processes (the old and the new
web server of a reload, or PM2's instances) take theirs in any order; within a process taking
and releasing are synchronous. `file` is whose file is under the name, `written` the tokens
whose record has been written into it, `aside` what a process has renamed away. A process
that finds a lock judges it (`inspectLock`), renames whatever is there by then (`Renames`), reads
what it got (`Rereads`) and, if that is not what it judged, links it back (`PutsBack`). Processes
in `Mortal` may die, with `DiesMidCall` also inside a call; `AsksTwice` lets a process be asked for
an update while it runs one. One Linux host with `/proc` is assumed, so that a pid that has
been given to another process is told apart; the age limit of a lock, which no run can reach,
is left out. Tokens are random in the code; here they are re-used once nobody remembers them.

### 2.8 Statements of the source that do not hold

The modules also state things the source says of itself and TLC refutes. Two have a run of
their own, expected to end in a violation:

| run | what it shows |
|---|---|
| `flex_left_keyed` | `xmit 1` is answered after its ten seconds. `keyAndStream` (tx.ts:1041) takes no reply for a refusal, clears the watchdog and returns without an `xmit 0`; the radio obeys the command later and nothing is left to unkey it. |
| `qso_halted` | The automatic operator has picked a station and awaits the guards, in `callCandidate` (auto-operator.ts:925) or in `startCall` (qso-controller.ts:549). HALT turns the mode off and finds no contact to stop. The await ends, nobody looks at the mode again, and the call begins and hands the radio its first transmission. |

Others were refuted while modelling and have no run:

- `DisarmedIsSilent` (Flex): the header's disarm unkeys (index.ts:5159), then writes the setting.
  A call made in between passes both readings of the gate, keys, and is on the air when the
  disarm has answered. Writing first, or unkeying again after the write, would close it.
- `AttachUnkeys` (Icom): the unkey of a radio found transmitting is called unconditional
  (icom-source.ts:379), and it is conditional on the preflight's answer. A PTT read that fails is
  swallowed (rig.ts:1502), a radio with no CI-V frame yet is not asked (rig.ts:1464), and a
  preflight that throws is only logged (icom-source.ts:410). The session then stands over a
  transmitting radio with its watchdog disarmed, until something is sent.
- `ReleasedIsSilent` (Icom): `stop()` unkeys once and then awaits PTT readings and closes; a call
  already past its first gate reading keys through the old transmitter meanwhile, and the
  session is released with the radio transmitting.
- `OnlyCrashStrands` with `"reading"` in `FailsAt`: `claimForSending` re-reads the row after
  claiming it (queue.ts:508), outside the sender's `try`. If that read fails, the row stays SENT
  with nothing mailed and no crash to blame.
- `NeverTwice`: `enqueueQsl` looks at the row, awaits the opt-outs and a QRZ lookup, then upserts
  to PENDING whatever the row has become (queue.ts:419). Sent meanwhile, it is reviewed and
  mailed again though nobody asked.
- `RogeredIsLogged`: `tick` says that an end which has sent RR73 logs rather than throws the
  contact away. That is so when its repeats run out; it is given up all the same when
  `stalledRx` reaches its limit first, or when the partner is heard with somebody else. Its
  report is then kept as an incomplete exchange, which is what `EndsAgree` shows.
- `OneTickPerWindow`: a call that came too late for the running window has ticked the one after
  next; a decode then ticks the running one, which forgets that, and the later window is
  ticked again when it comes.
- `ListensOnTheirs`: "whoever we are working transmitted in a window of some parity, so we transmit
  on the other" (qso-controller.ts:98). The automatic operator calls CQ in a window, a station heard in
  a window of that same parity calls us (a late closing, or a caller out of step), and it is
  answered in its own windows, over its transmissions, because nobody compares `cqParity` with the
  window it was heard in. Passing the parity opposite to `windowStartMs` would close it.
- `BrakeHolds`: the count of consecutive transmissions is put to zero by every `startCall`
  (qso-controller.ts:625), so an automatic operator that goes from call to call need never meet
  the brake that `maxConsecutiveTx` describes.
- `OneRun` (update lock), in other instances than that of the run: with `DiesMidCall`, because the
  file of a process that died between creating and writing is empty, and every empty file
  looks like the one that was judged; with three processes of which some die, because what
  was moved aside by mistake leaves the name free for a third (runner.ts:505 says two cannot
  both go on to hold a fresh one); and with `AsksTwice` when processes die. While none dies it
  holds for any number, and with two that die between calls it holds as the comment says; both
  are proved.
- `SentWasAired` (Flex): a stop lands while `xmit 1` is awaited and its `xmit 0` goes out; the
  reply to `xmit 1` then sets `keyed` (tx.ts:1052) after the stop. A waveform that is over before the
  reply to that `xmit 0` is read (a short line of text, or a reply that takes seconds) is
  reported sent, though none of it was on the air; a longer one is cut when the reply comes.
- `RetryPrecedesNextKey` (Flex): an `unkey()` whose `xmit 0` times out sends another (tx.ts:1355);
  a call accepted after the stop may have keyed by then, and is cut off.
- `SupersederTakesOver` (Flex): a newcomer aborts the waiting call (tx.ts:998) and may then be
  dropped itself: a stop came, its message does not encode, its window has gone. The waiting
  call was lost for nothing.
- `WatchdogOutlastsKey` (Icom): `unkey` disarms the watchdog (transmitter.ts:356) when it has
  sent the PTT-off, not when the radio has obeyed; a lost datagram leaves the radio keyed.
- The daily cap of `qsl.auto.maxPerDay`: the timer starts a pass whether or not the one
  before it has ended (index.ts:6717), and two passes that count the day's mail together each
  send up to the cap.

## 3. What TLC checks

States are distinct states; times are those of a small machine with two workers. A run
whose name is in 2.8 is expected to find a violation of its one property.

| run | instance | states | checks |
|---|---|---|---|
| `flex_prompt` | 2 calls of any kind, 1 stop of any kind, 2 packets, replies in time | 576,959 (80 s) | `TypeOK`, `OneHolder`, `HaltedIsSilent`, `NeverLeftKeyed`, `KeepsPromise` |
| `flex_slow` | 1 call, 1 stop, replies late or never, commands ignored | 187,989 (20 s) | `NothingKeysOnceShut` |
| `flex_live` | 2 framed calls, 1 HALT, prompt link, audio loop may stall | 43,170 (20 s) | `EveryCallReturns`, `RadioComesDown` |
| `icom_sessions` | 2 calls, 1 stop of any kind, 1 chunk, 1 rebuild, streams may die, preflights may go unanswered | 1,590,508 (135 s) | `TypeOK`, `OneHolder`, `NothingKeysOnceShut`, `KeepsPromise` |
| `icom_recovers` | 1 call, 1 stop, 2 chunks, 2 rebuilds, streams may die, datagrams may be lost, preflights may go unanswered | 582,640 (45 s) | `NeverLeftKeyed`, `RadioComesDown` |
| `qsl_sends` | 3 tasks (2 passes of the timer at most), 2 contacts with one station, one behind a gateway, 2 approvals each, crashes, failures inside the `try` | 2,381,113 (150 s) | `TypeOK`, `MailedOncePerApproval`, `OnlyCrashStrands`, `FlagIsDurable`, `OptOutHonoured`, `SkippedStays` |
| `worker_recovers` | 3 jobs, 3 generations | 174,741 (11 s) | `OwedByLive`, `InService`, `OwnAnswer`, `HeldOpenWhileOwed`, `HealthyStays`, `EveryJobAnswered` |
| `qso_exchange` | 2 ends, 2 other stations, patience of 4 | 351,997 (60 s) | `TypeOK`, `LoggedInEarnest`, `SentWithinPatience`, `EveryContactEnds`, `EndsAgree` |
| `qso_controls` | 1 request of the operator's, 1 of the automatic operator's, 1 station that may be heard with a roger and report or a fox's closing, patience and brake of 2 | 1,651,314 (105 s) | `TypeOK`, `ReportedOnce`, `PendingMeansInFlight`, `LiveContactHolds`, `OwnWindowsOnly`, `StoppedStaysSilent` |
| `update_lock` | 2 processes that may die between calls, 4 tokens | 141,246 (55 s) | `OneRun`, `ReleasesItsOwn`, `LeftLockGoes` |

**What the properties ask.**

- `OneHolder`: at most one call holds the transmitter and `busy`, `keyed`, the generation and
  the pending key say so. It is what a superseded call's `finally` could break.
- `NothingKeysOnceShut`: once voice mode holds the gate, or a restart has latched it and begun
  to unkey, no call starts RF: not one whose reading was in flight, nor one in its window.
- `HaltedIsSilent`: when a stop has had its answer the radio is silent, unless a call that
  began after the stop has keyed it. It holds over a prompt link only.
- `NeverLeftKeyed`: while the radio transmits, a call holds the transmitter or a command is
  still on its way. For Icom, which hears of nothing: once the radio has taken or lost what it was
  sent, a call is streaming, or the transmission is `stray`. So the program's own doing never
  leaves it keyed: the last word of whatever ends a transmission is a PTT-off.
- `KeepsPromise`: each transmitter implements `Transmitter`.
- `RadioComesDown`, `EveryCallReturns`: a keyed radio comes down, a call returns, though the
  audio loop stalls and (Icom) though the session dies with the PTT-off unsent: it stays up only
  where that PTT-off was itself lost, or the next preflight had no answer.
- `MailedOncePerApproval`: however many senders and passes read a row as approved, one
  message goes out for each approval. `OnlyCrashStrands`, `FlagIsDurable`: what is claimed is
  settled, and what was mailed is on the contact, unless the sender died in between.
- `OptOutHonoured`: a row claimed after an opt-out has cancelled the station's rows is not
  mailed, even if a request that read the list earlier queues it again. `SkippedStays`: no
  sender settles a row an operator has skipped.
- `OwnAnswer`, `OwedByLive`, `InService`, `HeldOpenWhileOwed`, `HealthyStays`, `EveryJobAnswered`:
  late answers, silent workers, throwing posts and late exits hurt nobody else.
- `LoggedInEarnest`: nobody logs a contact before each end has the other's report, though
  neither ever learns that its last message arrived. `EndsAgree`: the two ends implement
  `QsoOutcome`; a contact in one log is in the other, or kept there for its operator.
  `SentWithinPatience`: an exchange of reports and rogers is bounded, whatever is repeated.
  `EveryContactEnds`: each end's contact ends.
- `LiveContactHolds`: the contact in progress is replaced only by HALT, Skip, a take-over, or a
  `startCall` that was already past its check when it began. `OwnWindowsOnly`,
  `StoppedStaysSilent`: whatever is handed to the transmitter is for the contact in progress, in a
  window that its partner does not transmit in (for an answer: in a window of our CQ's, which is
  all the code promises), and never of a contact that was stopped or replaced. `ReportedOnce`: whichever of the
  two decode paths ticks last, a contact is logged or given up once. `PendingMeansInFlight`:
  the flag that breaks off an early decode after its first slices (decode-pipeline.ts) is never
  left set by a transmission that is no longer under way.
- `OneRun`, `ReleasesItsOwn`, `LeftLockGoes`: one update at a time though two processes clear the
  same abandoned lock; a release removes nobody else's; no dead process's lock stays.

**Why the bounds are enough.** What makes a transmitter hard is two calls and a stop: one
call that holds or waits, one that comes later, and something that ends both. Two packets
tell a waveform that is cut short from one that is not. A third call adds another waiting
newcomer, which meets the same flags; the proofs of section 5 do not bound calls, stops or
packets. Over a slow link one call suffices for the two safety properties, and two are used
to look for the violation. One rebuild of an Icom session lets an old call meet a new
session, two let the recovery itself be lost again. Two tasks race for a row and a third
changes it under them; two contacts with one station let an opt-out reach a row of the
sender's batch it is not busy with; two approvals let a message of one be confused with
one of the next. Three generations let a retired worker's late messages meet its successor's
successor. A patience of 4 leaves room for both counters, `repeats` and `stalledRx`, to reach
their limit first, and for a message lost and repeated in between; two other stations let an
end be heard with one and then another. Two requests, one of each kind, are what it takes for
one to begin while the other awaits; a brake and a patience of 2 are reached in a few windows. What its station
may be heard to say lets a contact of either role be logged, given up or kept as incomplete; the
rest of the exchange is `qso_exchange`'s, and the proofs hold whatever is said.
Two processes can each hold what the other judged, and four tokens are as many as they can
remember and have in the file at once. Those three systems never stop,
and deadlock is checked. In the others a behaviour may end with every call and every task finished, so deadlock is
not checked: these are finite batches of requests.

**Bounds, by name:** `Packets`, `Chunks`, `Rebuilds`, `Approvals`, `Generations`, and the sizes
of `Call`, `Stop`, `Task`, `Qso`, `Job`; `maxRepeats` and `maxConsecutiveTx`, which are settings of the
program; `Third`, `Station`, `Spoken` (what a station may be heard to say), `Process`, `Token`. Calls,
stops, tasks, jobs and requests for a contact are used once each. Symmetry
(calls, stops, tasks) is used in safety runs only.

## 4. Fairness

- Flex: weak fairness of the radio's taking commands, the replies' and queries' delivery, the
  timers, and the watchdog. Of the audio loop only that it returns once its packets are gone
  or it has been unkeyed; that it sends a packet is never assumed, because a stalled loop
  is what the watchdog is for.
- Icom: a datagram arrives or is lost, the watchdog's timer fires, PTT can be read back or the
  reading gives up, the streams close, and a lost session is torn down and another attached
  (`onLost` retries without end), its preflight answered or not. Calls are granted nothing.
- Worker supervisor: job timers only. Not that a worker answers, nor that its end is noticed.
- Exchange: windows end, an end has its say in its window, and is not always kept from asking
  its sequencer (strong fairness of `TakesWindow`: passes fail now and then, not for ever).
  Nothing is assumed of the channel: it may lose everything.
- Update lock: a call runs to its end, PM2 starts a process again, and each goes on being asked
  for updates (strong fairness of `Acquires`, which its own updates interrupt).
- Controller: none.
- QSL: none. Nothing is claimed to happen in the end; a process may stop.

Node runs every ready timer and callback, so weak fairness of each is what its event loop gives.

## 5. What TLAPS proves

Every safety property that a run checks is a theorem: for every number of calls, stops, packets,
sessions, tasks, contacts, approvals, jobs, workers and requests, every patience and brake, any
stations and whatever they say. The constants are bound by the named assumptions of their
modules and, where the table says so, by a condition that the run's instance meets as well:
`SlowLink = FALSE`, the radio's replies come before their callers have stopped waiting; failures
of the database inside the sender's `try` only; and for the update lock who may die, and when. Without the condition TLC refutes the property (2.8).

| theorem | statement |
|---|---|
| `FlexTransmitterProofs!TypeCorrect` | `Spec => []TypeOK` |
| `FlexTransmitterProofs!OneCallHolds` | `Spec => []OneHolder` |
| `FlexTransmitterProofs!NothingKeys` | `Spec => NothingKeysOnceShut` |
| `FlexTransmitterProofs!FlexKeepsPromise` | `Spec => KeepsPromise`: the refinement of `Transmitter` |
| `FlexTransmitterProofs!NeverKeyedAlone`, `!HaltSilences` | `SlowLink = FALSE` and `Spec` give `[]NeverLeftKeyed` and `[]HaltedIsSilent` |
| `IcomTransmitterProofs!TypeCorrect`, `!OneCallHolds` | `Spec => []TypeOK`, `Spec => []OneHolder` |
| `IcomTransmitterProofs!NothingKeys` | `Spec => NothingKeysOnceShut` |
| `IcomTransmitterProofs!SilentUnlessKeyed` | `Spec => []NeverLeftKeyed`, on a lossy link and over blind sessions |
| `IcomTransmitterProofs!IcomKeepsPromise` | `Spec => KeepsPromise`: the refinement of `Transmitter`, rebuilds included |
| `TransmitterProofs!OneHolderAtATime` | `TrSpec` allows one holder at a time |
| `QslQueueProofs!TypeCorrect` | `Spec => []TypeOK` |
| `QslQueueProofs!OneMailPerApproval` | `Spec => []MailedOncePerApproval` |
| `QslQueueProofs!ThrowsStrandNothing` | `FailsAt \subseteq InsideTry` and `Spec` give `[]OnlyCrashStrands` |
| `QslQueueProofs!AcceptedIsRecorded` | `FailsAt \subseteq InsideTry` and `Spec` give `[]FlagIsDurable` |
| `QslQueueProofs!OptOutsAreHonoured`, `!SkippedRowsStay` | `Spec => OptOutHonoured`, `Spec => SkippedStays` |
| `WorkerSupervisorProofs!TypeCorrect`, `!HealthyStay` | types; `Spec => HealthyStays` |
| `WorkerSupervisorProofs!WaitersAreOwed`, `!NoneDeafStays`, `!AnswersAreOwn`, `!HeldOpenExactly` | `Spec => []OwedByLive`, `[]InService`, `[]OwnAnswer`, `[]HeldOpenWhileOwed` |
| `QsoExchangeProofs!TypeCorrect`, `!LogsInEarnest`, `!SpeaksWithinPatience` | `Spec => []TypeOK`, `[]LoggedInEarnest`, `[]SentWithinPatience` |
| `QsoExchangeProofs!ExchangeKeepsOutcome` | `Spec => EndsAgree`: the refinement of `QsoOutcome` |
| `QsoExchangeProofs!NothingVanishes` | `Spec` gives: a contact logged at one end is not dropped at the other |
| `QsoControllerProofs!TypeCorrect`, `!OncePerContact`, `!FlagIsCleared` | `Spec => []TypeOK`, `[]ReportedOnce`, `[]PendingMeansInFlight` |
| `QsoControllerProofs!ContactStands`, `!SendsInItsWindows`, `!StoppedIsSilent` | `Spec` gives `LiveContactHolds`, `OwnWindowsOnly`, `StoppedStaysSilent` |
| `UpdateLockProofs!TypeCorrect` | `Spec => []TypeOK` |
| `UpdateLockProofs!OneAtATime` | `Mortal = {}` and `Spec` give `[]OneRun`, for any number of processes |
| `UpdateLockProofs!OneOfTwo`, `!OwnOfTwoRemoved` | `[]OneRun` and `ReleasesItsOwn` of at most two processes that may die, not inside a call, and are not asked while they run an update |

**The arguments.**

- *One holder.* `OneHolder` is inductive over the types as it stands, because it says of every
  flag what the next refusal, takeover or stop relies on: that every owner's generation is
  `txGen`, so that only the holder's `finally` clears the flags, and that a pending key is
  the key of a call in its window, so that superseding or cancelling leaves at most one.
- *Icom's one holder* is inductive over the types too: `busy`, the pending wake and `keyed` each say
  something of the holder, and a rebuild leaves nobody.
- *The gate* (`GateInv`). The gate alone is not enough: a reading may be in flight when it
  shuts. Every shutting is followed by an unkey, so that once the gate is shut every call that
  could still key has been overtaken by a stop, or reads a gate that already says no. It also
  needs that the latch never opens and that no call is ahead of the count of stops. For Icom a
  stop that meets a session being torn down reaches no transmitter; the attach that follows
  counts as one.
- *The promise* follows from `OneHolder` (whom a newcomer displaces) and that count (whom a
  stop has overtaken), action by action; an attach, which ends whoever still holds the old
  Icom transmitter, is a stop as far as the promise can tell.
- *Never left keyed, Icom*: nothing is acknowledged, so what counts is the last word. Whatever ends
  a transmission is the last datagram sent, and once the radio has taken all of them it does what
  `keyed` says. What it may do instead is go on with a transmission whose PTT-off was lost, or that
  a session inherited blind; `stray` says so from that moment, and any command obeyed ends both. A
  lost PTT-on leaves a silent radio behind a call that streams, which the statement allows.
- *Never left keyed, Flex*, and *HALT* (`LinkInv`), rest on the order of replies. Commands are
  numbered as they are sent, taken in that order and answered in it (`Numbered`), and on a prompt
  link everybody still waits for his own reply. So an `xmit 1` on its way is one a call waits for
  (`Meant`), a keyed radio was keyed by a call that has not yet heard of its `xmit 0` (`KeyHeld`), and
  a stop whose `xmit 0` was obeyed was obeyed after every key of a call that began before it
  (`Halting`). None of the four holds by itself. A radio that refuses to key, and says so, does
  not disturb it; a late reply does. Of a radio that says nothing these two theorems tell little:
  a timeout is what `SlowLink` allows, and without it whoever gets no reply waits on.
- *One mail per approval* rests on `Spent`: an approved row's approval is unspent and nobody
  holds it; a sender in flight holds an unspent approval, and no two hold the same; later
  approvals do not exist yet. The claim's compare-and-set takes the row out of APPROVED
  before anyone can mail it.
- *Throws strand nothing* rests on `Attended`: every claim belongs to a task at work on its row
  or dead. It assumes that the database fails only inside the `try`; it is refuted otherwise
  (2.8).
- *Accepted is recorded* rests on `Durable`: the flag, or a sender that has still to write it or
  died, and that what a gateway re-queue goes through is behind a gateway. It needs the same
  assumption as the one before it: a transaction that fails after SMTP loses the record.
- *Opt-outs* rest on `Heeded`: the list has a station before the rows are cancelled for it, the
  list never shrinks, so a sender that claims afterwards finds the station on it at its last
  look, and nobody late is at SMTP. *Skipped rows stay* needs no invariant beyond the types:
  every statement that writes a row compares it first, or makes it one to review.
- *A pass stays within its budget* (`Within`, for the types): it is in the middle of queueing a
  contact only while its count is below its budget, and counts one row for each.
- *Books* is the types, what is on the books and under which number and generation, that
  every message on its way carries a number given once for that job, that an exit or error on
  its way is of a worker that has ended, and the four invariants. None of the four is
  inductive alone: what a replaced worker says is told from its successor's by number and
  generation only. `HealthyStays` is an action property from the same invariant.

- *The exchange* (`ExchangeInv`). Neither end sees the other, so the invariant says what can be on
  the air between them (`AirMeant`): the caller's roger and 73 only once it has the answerer's
  report, the answerer's RR73 only once it has the caller's. With it goes the order of the
  reports (`InOrder`), what each state of a sequencer implies (`InRole`) and how often an end has
  spoken by then (`Spoken`). Below it are lemmas about `onDecode` and `tick` alone, for every
  sequencer of the right type. The refinement maps each step by what it does to who has a
  report and how a contact stands; `NothingVanishes` is proved of `QsoOutcome` and carried over.
- *The controller* (`ControllerInv`). Below it are lemmas about `onDecode` and `tick` for any sequencer
  and message: the partner never changes, a contact that is over stays over, and a tick reports
  it only if it was not reported (`Settled`) and then it is. So the outcome of the contact in
  progress is still open or its sequencer is settled (`ContactGood`), also across `startCall`, a
  take-over and HALT. A request that has not begun has no outcome (`RequestsGood`), and whoever awaits the guards while a
  contact is on was awaiting them when it began (`RivalsGood`): others are refused before their
  await. The parity of a contact is what its partner leaves (`ContactMatches`): opposite to the one it was
  heard in, or the CQ's (`CqTyped`). The three action properties are one conjunct each of what a step may do (`StepGood`), and
  `RunTick` proves it once for every way to a tick.
- *The update lock* (`LockInv`). While nobody dies nothing is stale: the file is that of a living
  process which holds it or is about to, so that nobody moves it aside, and `O_EXCL` decides.
- *The update lock of two that die* (`PairInv`). Now a lock in use may be moved aside by a process
  that judged the one before it. What it judged is still stale, because nobody draws a token
  that is remembered (`StillStale`), and a lock it finds without its record is about to get it
  (`Recorded`); so it sees that the two differ and puts it back. Meanwhile the name is free, but
  its only other user is the one whose lock it is, who creates none while he relies on it
  (`InPlace`). A third process is what this argument has no room for, and what refutes the property.

**Only model-checked:** the liveness properties (`RadioComesDown`, `EveryCallReturns`,
`EveryJobAnswered`, `EveryContactEnds`, `LeftLockGoes`), which rest on fairness and so on ENABLED,
out of the prover's reach. That what a mail server, a radio or a partner does is what the models
let them do is assumed, not proved.

## 6. Plan

What is left, in this order, each with an MC configuration, mutants, and the theorem named:

1. `IcomStream`: handshake, pings, idle packets and retransmission over a lossy link, as what
   `IcomTransmitter` assumes of its streams.
2. `PatSupervisor`: a child and its late exits, beside `WorkerSupervisor`, which guards against
   the same with generations.
3. `UploadRunner`: overlapping runs and the marks they write.
4. The invariant lock, the JS8 sender.
5. The rest of the automatic operator: runs, cooldowns and the upload after a contact, over
   `QsoController`; the controller over the promise of `Transmitter` instead of `flight`.
6. The connection of the Flex client, lost and rebuilt, in `FlexCommand`, and what `LinkInv` says of it.

## 7. Not modelled

Signal processing, parsing and formatting; the database beyond the rows named; pages and
rendering; the integrations' protocols; the exit and restart of the processes themselves
(a restart is modelled up to its `unkey()`). `PROJECT.json` gives the reason for each
component.
