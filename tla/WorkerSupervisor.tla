-------------------------- MODULE WorkerSupervisor --------------------------
(***************************************************************************)
(* WorkerSupervisor of lib/radio/worker-supervisor.ts, which owns the      *)
(* decoder thread of each mode (FT8/FT4, WSPR, JS8) and replaces it when it*)
(* stops answering.                                                        *)
(*                                                                         *)
(* A Job is one call of run().  The supervisor runs on the main thread, one*)
(* handler at a time; the worker runs beside it, and what it says arrives  *)
(* later, perhaps after it has been retired.  A worker that hangs is one   *)
(* that takes no step: nothing here obliges it to.                         *)
(***************************************************************************)
EXTENDS Naturals, Sequences, FiniteSets

CONSTANTS
    Job,            \* the calls of run()
    Nobody,         \* no job
    Generations     \* bound: workers spawned, or tried

ASSUME SupervisorAssumption == Nobody \notin Job /\ Generations \in Nat \ {0}

VARIABLES
    live,           \* the generation of the worker in service, or 0
    generation, seq, closed,
    pending,        \* jobs owed an answer: their number, job and generation
    refd,           \* workers that hold the process open
    running,        \* what each generation's worker is doing
    inbox, events,  \* jobs each worker has still to take; what it has said
    outcome,        \* what each caller has been told
    given,          \* (history) the generation each job was posted to, or 0
    heard           \* (history) the job whose audio the answer was decoded from

bookkeeping == <<live, generation, seq, closed, pending, refd>>
workers == <<running, inbox, events>>
callers == <<outcome, given, heard>>
vars == <<bookkeeping, workers, callers>>

Gens == 1 .. Generations
Answers == {"decoded", "timeout", "retired", "closed", "unstarted", "rejected"}
Jobs == [id : Nat, job : Job]
Events == [what : {"reply"}, id : Nat, job : Job] \cup [what : {"error", "exit"}]

TypeOK ==
    /\ live \in {0} \cup Gens
    /\ generation \in {0} \cup Gens
    /\ seq \in Nat
    /\ closed \in BOOLEAN
    /\ pending \subseteq [id : Nat, job : Job, gen : Gens]
    /\ refd \subseteq Gens
    /\ running \in [Gens -> {"none", "up", "ending", "gone"}]
    /\ inbox \in [Gens -> Seq(Jobs)]
    /\ events \in [Gens -> Seq(Events)]
    /\ outcome \in [Job -> {"unasked", "waiting"} \cup Answers]
    /\ given \in [Job -> {0} \cup Gens]
    /\ heard \in [Job -> Job \cup {Nobody}]

Init ==
    /\ live = 0 /\ generation = 0 /\ seq = 0
    /\ closed = FALSE
    /\ pending = {}
    /\ refd = {}
    /\ running = [g \in Gens |-> "none"]
    /\ inbox = [g \in Gens |-> <<>>]
    /\ events = [g \in Gens |-> <<>>]
    /\ outcome = [j \in Job |-> "unasked"]
    /\ given = [j \in Job |-> 0]
    /\ heard = [j \in Job |-> Nobody]

---------------------------------------------------------------------------
(* run() *)

Tells(j, what) == outcome' = [outcome EXCEPT ![j] = what]

RunsClosed(j) ==
    /\ outcome[j] = "unasked" /\ closed
    /\ Tells(j, "closed")
    /\ UNCHANGED <<bookkeeping, workers, given, heard>>

SpawnFails(j) ==
    /\ outcome[j] = "unasked" /\ ~closed
    /\ live = 0 /\ generation < Generations
    /\ generation' = generation + 1
    /\ Tells(j, "unstarted")
    /\ UNCHANGED <<live, seq, closed, pending, refd, workers, given, heard>>

\* ensure(): g is the worker in service, or a new one put there.
Ensures(g) ==
    \/ /\ live = g
       /\ UNCHANGED <<live, generation, running>>
    \/ /\ live = 0 /\ g = generation + 1
       /\ generation' = g /\ live' = g
       /\ running' = [running EXCEPT ![g] = "up"]

\* The job goes to g, numbered id, on the books as owed by generation `from`.
Hands(j, id, g, from) ==
    /\ pending' = {p \in pending : p.id # id} \cup {[id |-> id, job |-> j, gen |-> from]}
    /\ refd' = IF pending = {} THEN refd \cup {g} ELSE refd
    /\ inbox' = [inbox EXCEPT ![g] = Append(@, [id |-> id, job |-> j])]
    /\ given' = [given EXCEPT ![j] = g]
    /\ seq' = seq + 1
    /\ Tells(j, "waiting")
    /\ UNCHANGED <<closed, events, heard>>

\* Fault: jobs are numbered by how many are owed.
PostsReusedNumber(j) ==
    /\ outcome[j] = "unasked" /\ ~closed
    /\ \E g \in Gens : Ensures(g) /\ Hands(j, Cardinality(pending) + 1, g, g)

Posts(j) ==
    /\ outcome[j] = "unasked" /\ ~closed
    /\ \E g \in Gens : Ensures(g) /\ Hands(j, seq + 1, g, g)

\* The audio cannot be transferred: the bookkeeping is undone, the worker kept.
PostThrows(j) ==
    /\ outcome[j] = "unasked" /\ ~closed
    /\ \E g \in Gens :
          /\ Ensures(g)
          /\ refd' = IF pending = {} THEN refd \ {g} ELSE refd
    /\ seq' = seq + 1
    /\ Tells(j, "rejected")
    /\ UNCHANGED <<closed, pending, inbox, events, given, heard>>

---------------------------------------------------------------------------
(* What takes a worker out of service. *)

Owed == {p.job : p \in pending}

Terminates(g) ==
    running' = [running EXCEPT ![g] = IF @ = "up" THEN "ending" ELSE @]

\* Fault: what the worker owed is left for the next one.
RetiresLeaving(why) ==
    /\ live' = 0
    /\ UNCHANGED <<pending, outcome>>
    /\ Terminates(live)

\* Fault: what the worker owed is forgotten.
RetiresForgetting(why) ==
    /\ live' = 0
    /\ pending' = {}
    /\ UNCHANGED outcome
    /\ Terminates(live)

\* The live worker goes: whatever it still owed is answered `why`.
Retires(why) ==
    /\ live' = 0
    /\ pending' = {}
    /\ outcome' = [j \in Job |-> IF j \in Owed THEN why ELSE outcome[j]]
    /\ Terminates(live)

\* Fault: the worker that swallowed the job stays in service.
TimesOutOnly(p) ==
    /\ \A q \in pending : p.id <= q.id
    /\ pending' = pending \ {p}
    /\ Tells(p.job, "timeout")
    /\ UNCHANGED <<live, generation, seq, closed, refd, workers, given, heard>>

\* Timers have one length, so the oldest job's runs out first.  The worker that
\* swallowed it is presumed wedged.
TimesOut(p) ==
    /\ \A q \in pending : p.id <= q.id
    /\ IF p.gen = live
       THEN /\ live' = 0
            /\ pending' = {}
            /\ outcome' = [j \in Job |-> IF j = p.job THEN "timeout"
                                         ELSE IF j \in Owed THEN "retired" ELSE outcome[j]]
            /\ Terminates(live)
       ELSE /\ pending' = pending \ {p}
            /\ Tells(p.job, "timeout")
            /\ UNCHANGED <<live, running>>
    /\ UNCHANGED <<generation, seq, closed, refd, inbox, events, given, heard>>

Says(g, what) == events[g] # <<>> /\ Head(events[g]).what = what

Read(g) == events' = [events EXCEPT ![g] = Tail(@)]

\* The answer reaches the caller whose job bears its number.
Delivers(g) ==
    /\ Says(g, "reply") /\ live = g
    /\ \E p \in pending :
          /\ p.id = Head(events[g]).id
          /\ pending' = pending \ {p}
          /\ Tells(p.job, "decoded")
          /\ heard' = [heard EXCEPT ![p.job] = Head(events[g]).job]
    /\ Read(g)
    /\ UNCHANGED <<live, generation, seq, closed, running, inbox, given>>

\* Fault: the process is let go at the first answer.
TakesReplyLettingGo(g) == Delivers(g) /\ refd' = refd \ {g}

TakesReply(g) == Delivers(g) /\ refd' = IF pending' = {} THEN refd \ {g} ELSE refd

\* A retired worker's answer belongs to a job already given up on.
IgnoresReply(g) ==
    /\ Says(g, "reply")
    /\ live = g => \A p \in pending : p.id # Head(events[g]).id
    /\ Read(g)
    /\ UNCHANGED <<bookkeeping, running, inbox, callers>>

\* Fault: whichever worker has ended, the one in service is retired.
LosesWhichever(g) ==
    /\ Says(g, "error") \/ Says(g, "exit")
    /\ live # 0
    /\ Retires("retired")
    /\ Read(g)
    /\ UNCHANGED <<generation, seq, closed, refd, inbox, given, heard>>

LosesWorker(g) ==
    /\ Says(g, "error") \/ Says(g, "exit")
    /\ live = g
    /\ Retires("retired")
    /\ Read(g)
    /\ UNCHANGED <<generation, seq, closed, refd, inbox, given, heard>>

\* The exit of a worker that was terminated, or the one that follows an error.
IgnoresEnd(g) ==
    /\ Says(g, "error") \/ Says(g, "exit")
    /\ live # g
    /\ Read(g)
    /\ UNCHANGED <<bookkeeping, running, inbox, callers>>

Close ==
    /\ ~closed
    /\ closed' = TRUE
    /\ \/ live # 0 /\ Retires("closed")
       \/ live = 0 /\ UNCHANGED <<live, pending, outcome, running>>
    /\ UNCHANGED <<generation, seq, refd, inbox, events, given, heard>>

---------------------------------------------------------------------------
(* The worker, beside it. *)

Emits(g, said) == events' = [events EXCEPT ![g] = @ \o said]

\* One told to terminate may finish what it is at.
Decodes(g) ==
    /\ running[g] \in {"up", "ending"}
    /\ inbox[g] # <<>>
    /\ LET job == Head(inbox[g]) IN
          Emits(g, <<[what |-> "reply", id |-> job.id, job |-> job.job]>>)
    /\ inbox' = [inbox EXCEPT ![g] = Tail(@)]
    /\ UNCHANGED <<bookkeeping, running, callers>>

Ends(g) ==
    /\ running[g] \in {"up", "ending"}
    /\ running' = [running EXCEPT ![g] = "gone"]
    /\ \/ Emits(g, <<[what |-> "exit"]>>)
       \/ Emits(g, <<[what |-> "error"], [what |-> "exit"]>>)
    /\ UNCHANGED <<bookkeeping, inbox, callers>>

Next ==
    \/ \E j \in Job : RunsClosed(j) \/ SpawnFails(j) \/ Posts(j) \/ PostThrows(j)
    \/ \E p \in pending : TimesOut(p)
    \/ \E g \in Gens : \/ TakesReply(g) \/ IgnoresReply(g)
                       \/ LosesWorker(g) \/ IgnoresEnd(g)
                       \/ Decodes(g) \/ Ends(g)
    \/ Close

Spec == Init /\ [][Next]_vars
---------------------------------------------------------------------------
(* What is promised. *)

\* "Jobs owed by the live worker": whoever waits is on the books once, under the
\* worker in service, and nobody else is on them.  A retirement that left a job
\* behind would leave the decode pipeline waiting for a thread that is gone.
OwedByLive ==
    /\ \A p \in pending : p.gen = live /\ outcome[p.job] = "waiting"
    /\ \A j \in Job : outcome[j] = "waiting" => j \in Owed
    /\ \A p, q \in pending : p.id = q.id \/ p.job = q.job => p = q

\* No worker is kept that has failed anybody: all the one in service was ever
\* given it has decoded, or still owes.  ("Every later job was posted to it and
\* timed out in its turn.  A deaf decoder that looked alive.")
InService ==
    \A j \in Job : live # 0 /\ given[j] = live => outcome[j] \in {"waiting", "decoded"}

\* "A late answer cannot be taken for a newer job's": what a caller is given was
\* decoded from its own audio.
OwnAnswer == \A j \in Job : heard[j] \in {j, Nobody}

\* "The thread holds the process open exactly while it owes an answer", through
\* posts that throw, answers in any order and replacements.
HeldOpenWhileOwed == live # 0 => (live \in refd <=> pending # {})

\* A healthy worker is never replaced: one leaves service because it ended, or
\* because a job it had been given has just timed out, or at the close.
HealthyStays ==
    [][live # 0 /\ live' # live =>
          \/ closed'
          \/ running[live] \in {"gone"}
          \/ \E j \in Job : given[j] = live /\ outcome[j] = "waiting" /\ outcome'[j] = "timeout"]_vars

(***************************************************************************)
(* Liveness asks for the timers and nothing else: not that a worker ever   *)
(* answers, nor that its end is ever noticed.                              *)
(***************************************************************************)
TimersFire == WF_vars(\E p \in pending : TimesOut(p))

FairSpec == Spec /\ TimersFire

\* Every caller that waits is answered, whatever its worker does: the pipeline
\* behind a wedged decoder is never wedged with it.
EveryJobAnswered == \A j \in Job : outcome[j] = "waiting" ~> outcome[j] # "waiting"
=============================================================================
