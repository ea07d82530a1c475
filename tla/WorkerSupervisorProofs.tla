----------------------- MODULE WorkerSupervisorProofs -----------------------
(***************************************************************************)
(* What the worker supervisor promises, for any number of jobs, workers and*)
(* failures.  The invariant says what the main thread's books, the wires to*)
(* the workers and the callers know of each other: a number names one job  *)
(* wherever it is found, and only the worker in service is on the books.   *)
(***************************************************************************)
EXTENDS WorkerSupervisor, TLAPS

USE SupervisorAssumption DEF Gens, Answers

---------------------------------------------------------------------------
(* Types *)

LEMMA TypesInit == Init => TypeOK
<1> SUFFICES ASSUME Init
             PROVE  TypeOK
  OBVIOUS
<1>1. inbox \in [Gens -> Seq(Jobs)] /\ events \in [Gens -> Seq(Events)]
  BY DEF Init
<1>2. closed \in BOOLEAN
  BY DEF Init
<1> QED
  BY <1>1, <1>2 DEF Init, TypeOK

LEMMA HandsTypes ==
  ASSUME TypeOK, NEW j \in Job, NEW g \in Gens, Ensures(g), Hands(j, seq + 1, g, g)
  PROVE  TypeOK'
<1>1. live' \in Gens /\ generation' \in {0} \cup Gens /\ running' \in [Gens -> {"none", "up", "ending", "gone"}]
  BY DEF Ensures, TypeOK
<1>2. inbox' \in [Gens -> Seq(Jobs)]
  <2>1. [id |-> seq + 1, job |-> j] \in Jobs
    BY DEF Jobs, TypeOK
  <2> QED
    BY <2>1 DEF Hands, TypeOK
<1>3. pending' \subseteq [id : Nat, job : Job, gen : Gens]
  <2>1. [id |-> seq + 1, job |-> j, gen |-> g] \in [id : Nat, job : Job, gen : Gens]
    BY DEF TypeOK
  <2> QED
    BY <2>1 DEF Hands, TypeOK
<1>4. refd' \subseteq Gens /\ given' \in [Job -> {0} \cup Gens] /\ seq' \in Nat
  BY DEF Hands, TypeOK
<1>5. outcome' \in [Job -> {"unasked", "waiting"} \cup Answers]
  BY DEF Hands, Tells, TypeOK
<1> QED
  BY <1>1, <1>2, <1>3, <1>4, <1>5 DEF Hands, TypeOK

\* A worker's messages are read in order.
LEMMA ReadTypes ==
  ASSUME TypeOK, NEW g \in Gens, events[g] # <<>>, Read(g)
  PROVE  /\ events' \in [Gens -> Seq(Events)]
         /\ Head(events[g]) \in Events
  BY DEF Read, TypeOK

LEMMA RetiresTypes ==
  ASSUME TypeOK, NEW why \in Answers, Retires(why), live # 0
  PROVE  /\ live' = 0 /\ pending' = {}
         /\ outcome' \in [Job -> {"unasked", "waiting"} \cup Answers]
         /\ running' \in [Gens -> {"none", "up", "ending", "gone"}]
  BY DEF Retires, Terminates, TypeOK

LEMMA RunTypes ==
  ASSUME TypeOK, NEW j \in Job, RunsClosed(j) \/ SpawnFails(j) \/ Posts(j) \/ PostThrows(j)
  PROVE  TypeOK'
<1>1. CASE RunsClosed(j)
  <2>1. outcome' \in [Job -> {"unasked", "waiting"} \cup Answers]
    BY <1>1 DEF RunsClosed, Tells, TypeOK
  <2>2. closed' \in BOOLEAN
    BY <1>1, Zenon DEF RunsClosed, bookkeeping, TypeOK
  <2> QED
    BY <1>1, <2>1, <2>2 DEF RunsClosed, bookkeeping, workers, TypeOK
<1>2. CASE SpawnFails(j)
  BY <1>2 DEF SpawnFails, Tells, workers, TypeOK
<1>3. CASE Posts(j)
  BY <1>3, HandsTypes DEF Posts
<1>4. CASE PostThrows(j)
  <2>1. PICK g \in Gens : Ensures(g) /\ refd' = IF pending = {} THEN refd \ {g} ELSE refd
    BY <1>4 DEF PostThrows
  <2>2. live' \in {0} \cup Gens /\ generation' \in {0} \cup Gens
    BY <2>1 DEF Ensures, TypeOK
  <2>3. running' \in [Gens -> {"none", "up", "ending", "gone"}]
    BY <2>1 DEF Ensures, TypeOK
  <2>4. outcome' \in [Job -> {"unasked", "waiting"} \cup Answers]
    BY <1>4 DEF PostThrows, Tells, TypeOK
  <2>5. closed' \in BOOLEAN
    BY <1>4, Zenon DEF PostThrows, TypeOK
  <2>6. refd' \subseteq Gens
    BY <2>1 DEF TypeOK
  <2>7. seq' = seq + 1 /\ UNCHANGED <<pending, inbox, events, given, heard>>
    BY <1>4, Zenon DEF PostThrows
  <2> QED
    BY <2>2, <2>3, <2>4, <2>5, <2>6, <2>7 DEF TypeOK
<1> QED
  BY <1>1, <1>2, <1>3, <1>4

LEMMA MessageTypes ==
  ASSUME TypeOK, NEW g \in Gens,
         TakesReply(g) \/ IgnoresReply(g) \/ LosesWorker(g) \/ IgnoresEnd(g)
  PROVE  TypeOK'
<1>1. events[g] # <<>> /\ Read(g)
  BY DEF TakesReply, Delivers, IgnoresReply, LosesWorker, IgnoresEnd, Says
<1>2. events' \in [Gens -> Seq(Events)] /\ Head(events[g]) \in Events
  BY <1>1, ReadTypes
<1>3. CASE TakesReply(g)
  <2>1. Head(events[g]).job \in Job
    BY <1>2, <1>3 DEF TakesReply, Delivers, Says, Events
  <2> QED
    BY <1>2, <1>3, <2>1 DEF TakesReply, Delivers, Tells, TypeOK
<1>4. CASE IgnoresReply(g)
  BY <1>2, <1>4 DEF IgnoresReply, bookkeeping, callers, TypeOK
<1>5. CASE LosesWorker(g)
  <2>1. Retires("retired") /\ live # 0
    BY <1>5 DEF LosesWorker
  <2> QED
    BY <1>2, <1>5, <2>1, RetiresTypes DEF LosesWorker, TypeOK
<1>6. CASE IgnoresEnd(g)
  BY <1>2, <1>6 DEF IgnoresEnd, bookkeeping, callers, TypeOK
<1> QED
  BY <1>3, <1>4, <1>5, <1>6

LEMMA WorkerTypes ==
  ASSUME TypeOK, NEW g \in Gens, Decodes(g) \/ Ends(g)
  PROVE  TypeOK'
<1>1. CASE Decodes(g)
  <2> DEFINE said == [what |-> "reply", id |-> Head(inbox[g]).id, job |-> Head(inbox[g]).job]
  <2>1. Head(inbox[g]) \in Jobs /\ Tail(inbox[g]) \in Seq(Jobs)
    BY <1>1 DEF Decodes, TypeOK
  <2>2. said \in Events
    BY <2>1 DEF Jobs, Events
  <2>3. <<said>> \in Seq(Events)
    BY <2>2
  <2>4. events' = [events EXCEPT ![g] = @ \o <<said>>]
    BY <1>1 DEF Decodes, Emits
  <2>5. events' \in [Gens -> Seq(Events)]
    <3>1. events[g] \o <<said>> \in Seq(Events)
      BY <2>3 DEF TypeOK
    <3> QED
      BY <2>4, <3>1 DEF TypeOK
  <2>6. inbox' \in [Gens -> Seq(Jobs)]
    BY <1>1, <2>1 DEF Decodes, TypeOK
  <2> QED
    BY <1>1, <2>5, <2>6 DEF Decodes, bookkeeping, callers, TypeOK
<1>2. CASE Ends(g)
  <2>1. [what |-> "exit"] \in Events /\ [what |-> "error"] \in Events
    BY DEF Events
  <2>2. ASSUME NEW said \in Seq(Events), Emits(g, said)
        PROVE  events' \in [Gens -> Seq(Events)]
    <3>1. events[g] \o said \in Seq(Events)
      BY DEF TypeOK
    <3> QED
      BY <2>2, <3>1 DEF Emits, TypeOK
  <2>3. events' \in [Gens -> Seq(Events)]
    <3>1. <<[what |-> "exit"]>> \in Seq(Events) /\ <<[what |-> "error"], [what |-> "exit"]>> \in Seq(Events)
      BY <2>1
    <3> QED
      BY <1>2, <2>2, <3>1 DEF Ends
  <2> QED
    BY <1>2, <2>3 DEF Ends, bookkeeping, callers, TypeOK
<1> QED
  BY <1>1, <1>2

LEMMA TypesNext == TypeOK /\ [Next]_vars => TypeOK'
<1> SUFFICES ASSUME TypeOK, [Next]_vars
             PROVE  TypeOK'
  OBVIOUS
<1>1. ASSUME NEW p \in pending, TimesOut(p)
      PROVE  TypeOK'
  <2>1. p.job \in Job
    BY DEF TypeOK
  <2>2. live' \in {0} \cup Gens /\ pending' \subseteq pending
    BY <1>1 DEF TimesOut, TypeOK
  <2>3. outcome' \in [Job -> {"unasked", "waiting"} \cup Answers]
    BY <1>1, <2>1 DEF TimesOut, Tells, TypeOK
  <2>4. running' \in [Gens -> {"none", "up", "ending", "gone"}]
    <3>1. CASE p.gen = live /\ Terminates(live)
      BY <3>1 DEF Terminates, TypeOK
    <3>2. CASE UNCHANGED running
      BY <3>2 DEF TypeOK
    <3> QED
      BY <1>1, <3>1, <3>2 DEF TimesOut
  <2>5. closed' \in BOOLEAN
    BY <1>1, Zenon DEF TimesOut, TypeOK
  <2>6. pending' \subseteq [id : Nat, job : Job, gen : Gens]
    BY <2>2 DEF TypeOK
  <2>7. UNCHANGED <<generation, seq, refd, inbox, events, given, heard>>
    BY <1>1, Zenon DEF TimesOut
  <2> QED
    BY <2>2, <2>3, <2>4, <2>5, <2>6, <2>7 DEF TypeOK
<1>2. CASE Close
  BY <1>2, RetiresTypes DEF Close, TypeOK
<1>3. CASE UNCHANGED vars
  BY <1>3 DEF vars, bookkeeping, workers, callers, TypeOK
<1> QED
  BY <1>1, <1>2, <1>3, RunTypes, MessageTypes, WorkerTypes DEF Next

\* Every variable keeps its type, whatever the workers do.
THEOREM TypeCorrect == Spec => []TypeOK
  BY TypesInit, TypesNext, PTL DEF Spec

---------------------------------------------------------------------------
(* Numbers: a job's number means that job on the books, in the worker's    *)
(* inbox and in what it says, for as long as any of them holds it.         *)

Names(r, books, last) == r.id <= last /\ \A p \in books : p.id = r.id => p.job = r.job

Numbers ==
    \A g \in Gens :
        /\ \A i \in 1 .. Len(inbox[g]) : Names(inbox[g][i], pending, seq)
        /\ \A i \in 1 .. Len(events[g]) : events[g][i].what = "reply" => Names(events[g][i], pending, seq)

\* What was said is an end only if the worker has gone.
EndsAreTrue ==
    \A g \in Gens : \A i \in 1 .. Len(events[g]) :
        events[g][i].what # "reply" => running[g] = "gone"

\* Steps that post nothing, and by which no worker says anything.
LEMMA SilenceNumbers ==
  ASSUME TypeOK, Numbers, EndsAreTrue, seq' \in Nat, seq <= seq', pending' \subseteq pending,
         UNCHANGED inbox,
         \A g \in Gens : events'[g] = events[g] \/ (events[g] # <<>> /\ events'[g] = Tail(events[g])),
         \A g \in Gens : running[g] = "gone" => running'[g] = "gone"
  PROVE  Numbers' /\ EndsAreTrue'
<1>1. ASSUME NEW r, r.id \in Nat, Names(r, pending, seq)
      PROVE  Names(r, pending', seq')
  BY <1>1 DEF Names, TypeOK
<1>2. \A g \in Gens : \A i \in 1 .. Len(inbox[g]) : inbox[g][i].id \in Nat
  <2>1. \A g \in Gens : \A i \in 1 .. Len(inbox[g]) : inbox[g][i] \in Jobs
    BY DEF TypeOK
  <2> QED
    BY <2>1 DEF Jobs
<1>3. \A g \in Gens : \A i \in 1 .. Len(events[g]) :
         events[g][i].what = "reply" => events[g][i].id \in Nat
  <2>1. \A e \in Events : e.what = "reply" => e.id \in Nat
    BY DEF Events
  <2>2. events \in [Gens -> Seq(Events)]
    BY DEF TypeOK
  <2>3. \A g \in Gens : \A i \in 1 .. Len(events[g]) : events[g][i] \in Events
    BY <2>2
  <2> QED
    BY <2>1, <2>3
<1>4. ASSUME NEW g \in Gens, NEW i \in 1 .. Len(events'[g])
      PROVE  \E k \in 1 .. Len(events[g]) : events'[g][i] = events[g][k]
  <2>1. CASE events'[g] = events[g]
    BY <2>1
  <2>2. CASE events[g] # <<>> /\ events'[g] = Tail(events[g])
    <3>1. i + 1 \in 1 .. Len(events[g]) /\ events'[g][i] = events[g][i + 1]
      BY <2>2 DEF TypeOK
    <3> QED
      BY <3>1
  <2> QED
    BY <2>1, <2>2
<1>5. Numbers'
  <2>1. ASSUME NEW g \in Gens, NEW i \in 1 .. Len(inbox'[g])
        PROVE  Names(inbox'[g][i], pending', seq')
    BY <1>1, <1>2 DEF Numbers
  <2>2. ASSUME NEW g \in Gens, NEW i \in 1 .. Len(events'[g]), events'[g][i].what = "reply"
        PROVE  Names(events'[g][i], pending', seq')
    <3>1. PICK k \in 1 .. Len(events[g]) : events'[g][i] = events[g][k]
      BY <1>4
    <3>2. events[g][k].what = "reply" /\ events[g][k].id \in Nat /\ Names(events[g][k], pending, seq)
      BY <1>3, <2>2, <3>1 DEF Numbers
    <3> QED
      BY <1>1, <3>1, <3>2
  <2> QED
    BY <2>1, <2>2 DEF Numbers
<1>6. EndsAreTrue'
  <2> SUFFICES ASSUME NEW g \in Gens, NEW i \in 1 .. Len(events'[g]), events'[g][i].what # "reply"
               PROVE  running'[g] = "gone"
    BY DEF EndsAreTrue
  <2>1. PICK k \in 1 .. Len(events[g]) : events'[g][i] = events[g][k]
    BY <1>4
  <2> QED
    BY <2>1 DEF EndsAreTrue
<1> QED
  BY <1>5, <1>6

\* A new job has a new number.
LEMMA HandsNumbers ==
  ASSUME TypeOK, Numbers, EndsAreTrue, NEW j \in Job, NEW g \in Gens,
         Ensures(g), Hands(j, seq + 1, g, g),
         \A p \in pending : p.id <= seq,
         \A h \in Gens : h > generation => running[h] = "none"
  PROVE  Numbers' /\ EndsAreTrue'
<1> DEFINE new == [id |-> seq + 1, job |-> j, gen |-> g]
           job == [id |-> seq + 1, job |-> j]
<1>1. /\ pending' = {p \in pending : p.id # seq + 1} \cup {new}
      /\ inbox' = [inbox EXCEPT ![g] = Append(@, job)]
      /\ seq' = seq + 1 /\ events' = events
  BY DEF Hands
<1>2. new.id = seq + 1 /\ new.job = j /\ job.id = seq + 1 /\ job.job = j
  OBVIOUS
<1>3. job \in Jobs
  BY DEF Jobs, TypeOK
<1> HIDE DEF new, job
<1>4. ASSUME NEW r, r.id \in Nat, Names(r, pending, seq)
      PROVE  Names(r, pending', seq')
  BY <1>1, <1>2, <1>4 DEF Names, TypeOK
<1>5. Names(job, pending', seq')
  BY <1>1, <1>2 DEF Names, TypeOK
<1>6. ASSUME NEW h \in Gens, NEW i \in 1 .. Len(inbox'[h])
      PROVE  Names(inbox'[h][i], pending', seq')
  <2>1. CASE h = g /\ i = Len(inbox[g]) + 1
    <3>1. inbox'[h][i] = job
      BY <1>1, <1>3, <2>1 DEF TypeOK
    <3> QED
      BY <1>5, <3>1
  <2>2. CASE ~(h = g /\ i = Len(inbox[g]) + 1)
    <3>1. i \in 1 .. Len(inbox[h]) /\ inbox'[h][i] = inbox[h][i] /\ inbox[h][i] \in Jobs
      BY <1>1, <1>3, <2>2 DEF TypeOK
    <3>2. inbox[h][i].id \in Nat
      BY <3>1 DEF Jobs
    <3> QED
      BY <1>4, <3>1, <3>2 DEF Numbers
  <2> QED
    BY <2>1, <2>2
<1>7. ASSUME NEW h \in Gens, NEW i \in 1 .. Len(events[h]), events[h][i].what = "reply"
      PROVE  Names(events[h][i], pending', seq')
  <2>1. events[h][i] \in Events
    BY DEF TypeOK
  <2>2. events[h][i].id \in Nat
    BY <1>7, <2>1 DEF Events
  <2> QED
    BY <1>4, <1>7, <2>2 DEF Numbers
<1>8. Numbers'
  BY <1>1, <1>6, <1>7 DEF Numbers
<1>9. \A h \in Gens : running[h] = "gone" => running'[h] = "gone"
  BY DEF Ensures, TypeOK
<1>10. EndsAreTrue'
  BY <1>1, <1>9 DEF EndsAreTrue
<1> QED
  BY <1>8, <1>10

\* A worker says the number it was given; or it ends, and says so.
LEMMA WorkerNumbers ==
  ASSUME TypeOK, Numbers, EndsAreTrue, NEW g \in Gens, Decodes(g) \/ Ends(g)
  PROVE  Numbers' /\ EndsAreTrue'
<1>1. CASE Decodes(g)
  <2> DEFINE said == [what |-> "reply", id |-> Head(inbox[g]).id, job |-> Head(inbox[g]).job]
  <2>1. /\ inbox[g] # <<>>
        /\ inbox' = [inbox EXCEPT ![g] = Tail(@)]
        /\ events' = [events EXCEPT ![g] = @ \o <<said>>]
        /\ UNCHANGED <<pending, seq, running>>
    BY <1>1 DEF Decodes, Emits, bookkeeping
  <2>2. Head(inbox[g]) = inbox[g][1] /\ 1 \in 1 .. Len(inbox[g])
    BY <2>1 DEF TypeOK
  <2>3. Names(said, pending, seq) /\ said.what = "reply"
    BY <2>2 DEF Names, Numbers
  <2> HIDE DEF said
  <2>4. ASSUME NEW h \in Gens, NEW i \in 1 .. Len(inbox'[h])
        PROVE  Names(inbox'[h][i], pending, seq)
    <3>1. CASE h = g
      <4>1. i + 1 \in 1 .. Len(inbox[g]) /\ inbox'[h][i] = inbox[g][i + 1]
        BY <2>1, <3>1 DEF TypeOK
      <4> QED
        BY <4>1 DEF Numbers
    <3>2. CASE h # g
      BY <2>1, <3>2 DEF Numbers, TypeOK
    <3> QED
      BY <3>1, <3>2
  <2>5. ASSUME NEW h \in Gens, NEW i \in 1 .. Len(events'[h])
        PROVE  \/ i \in 1 .. Len(events[h]) /\ events'[h][i] = events[h][i]
               \/ events'[h][i] = said
    BY <2>1 DEF TypeOK
  <2>6. Numbers'
    BY <2>1, <2>3, <2>4, <2>5 DEF Numbers
  <2>7. EndsAreTrue'
    BY <2>1, <2>3, <2>5 DEF EndsAreTrue
  <2> QED
    BY <2>6, <2>7
<1>2. CASE Ends(g)
  <2>1. PICK said \in {<<[what |-> "exit"]>>, <<[what |-> "error"], [what |-> "exit"]>>} :
           events' = [events EXCEPT ![g] = @ \o said]
    BY <1>2 DEF Ends, Emits
  <2>2. UNCHANGED <<pending, seq, inbox>> /\ running' = [running EXCEPT ![g] = "gone"]
    BY <1>2 DEF Ends, bookkeeping
  <2>3. \A i \in 1 .. Len(said) : said[i].what # "reply"
    BY <2>1
  <2>4. said \in Seq([what : {"error", "exit"}])
    <3> DEFINE EndEvents == [what : {"error", "exit"}]
               exit == [what |-> "exit"]
               error == [what |-> "error"]
    <3>1. exit \in EndEvents /\ error \in EndEvents /\ said \in {<<exit>>, <<error, exit>>}
      BY <2>1
    <3>2. said \in Seq(EndEvents)
      <4> HIDE DEF EndEvents, exit, error
      <4>1. <<exit>> \in Seq(EndEvents)
        BY <3>1
      <4>2. <<error, exit>> \in Seq(EndEvents)
        BY <3>1
      <4> QED
        BY <3>1, <4>1, <4>2
    <3> QED
      BY <3>2
  <2>5. ASSUME NEW h \in Gens, NEW i \in 1 .. Len(events'[h])
        PROVE  \/ i \in 1 .. Len(events[h]) /\ events'[h][i] = events[h][i]
               \/ h = g /\ events'[h][i].what # "reply"
    <3>1. CASE h = g
      <4>1. events'[h] = events[h] \o said /\ events[h] \in Seq(Events)
        BY <2>1, <3>1 DEF TypeOK
      <4>2. CASE i <= Len(events[h])
        BY <2>4, <4>1, <4>2
      <4>3. CASE i > Len(events[h])
        <5>1. i - Len(events[h]) \in 1 .. Len(said) /\ events'[h][i] = said[i - Len(events[h])]
          BY <2>4, <4>1, <4>3
        <5> QED
          BY <2>3, <3>1, <5>1
      <4> QED
        BY <4>1, <4>2, <4>3
    <3>2. CASE h # g
      BY <2>1, <3>2 DEF TypeOK
    <3> QED
      BY <3>1, <3>2
  <2>6. Numbers'
    BY <2>2, <2>5 DEF Numbers
  <2>7. EndsAreTrue'
    BY <2>2, <2>5 DEF EndsAreTrue, TypeOK
  <2> QED
    BY <2>6, <2>7
<1> QED
  BY <1>1, <1>2

---------------------------------------------------------------------------
(* The books. *)

\* Who is on the books was given to the worker in service, under a number used.
Booked == \A p \in pending : p.id <= seq /\ given[p.job] = p.gen

\* Generations later than the last have done nothing.
Unborn ==
    /\ live <= generation
    /\ \A j \in Job : given[j] <= generation /\ (outcome[j] = "unasked" => given[j] = 0)
    /\ \A g \in refd : g <= generation
    /\ \A g \in Gens : g > generation => running[g] = "none"

Books ==
    /\ TypeOK
    /\ OwedByLive /\ Booked /\ Unborn
    /\ Numbers /\ EndsAreTrue
    /\ InService /\ OwnAnswer /\ HeldOpenWhileOwed

LEMMA BooksInit == Init => Books
<1> SUFFICES ASSUME Init
             PROVE  Books
  OBVIOUS
<1>1. TypeOK
  BY TypesInit
<1>2. Numbers /\ EndsAreTrue
  BY DEF Init, Numbers, EndsAreTrue
<1>3. OwedByLive /\ Booked /\ Unborn
  BY DEF Init, OwedByLive, Booked, Unborn, Owed
<1>4. InService /\ OwnAnswer /\ HeldOpenWhileOwed
  BY DEF Init, InService, OwnAnswer, HeldOpenWhileOwed
<1> QED
  BY <1>1, <1>2, <1>3, <1>4 DEF Books

\* Nobody is on the books while no worker is in service.
LEMMA NobodyOwed ==
  ASSUME Books, live = 0
  PROVE  pending = {}
  BY DEF Books, OwedByLive, TypeOK

\* The worker in service goes, and with it everybody on the books.
LEMMA ServiceEnds ==
  ASSUME Books, TypeOK', live' = 0, pending' = {}, seq' = seq,
         UNCHANGED <<generation, refd, given, heard>>,
         \A j \in Job : outcome'[j] = outcome[j] \/ outcome'[j] \notin {"unasked", "waiting"},
         \A j \in Job : j \in Owed => outcome'[j] # "waiting",
         \A g \in Gens : running[g] = "none" => running'[g] = "none",
         Numbers', EndsAreTrue'
  PROVE  Books'
<1>1. OwedByLive' /\ Booked'
  BY DEF Books, OwedByLive, Booked, Owed, TypeOK
<1>2. Unborn'
  BY DEF Books, Unborn, TypeOK
<1>3. InService' /\ OwnAnswer' /\ HeldOpenWhileOwed'
  BY DEF Books, InService, OwnAnswer, HeldOpenWhileOwed
<1> QED
  BY <1>1, <1>2, <1>3 DEF Books

\* A step that leaves books and callers alone.
LEMMA BooksUntouched ==
  ASSUME Books, TypeOK', UNCHANGED <<live, generation, seq, pending, refd, outcome, given, heard>>,
         \A g \in Gens : running[g] = "none" => running'[g] = "none",
         Numbers', EndsAreTrue'
  PROVE  Books'
<1>1. OwedByLive' /\ Booked' /\ Unborn'
  BY DEF Books, OwedByLive, Booked, Unborn, Owed
<1>2. InService' /\ OwnAnswer' /\ HeldOpenWhileOwed'
  BY DEF Books, InService, OwnAnswer, HeldOpenWhileOwed
<1> QED
  BY <1>1, <1>2 DEF Books

LEMMA EnsuresFresh ==
  ASSUME Books, NEW g \in Gens, Ensures(g)
  PROVE  /\ live' = g /\ generation <= generation' /\ g <= generation'
         /\ generation' \in Nat
         /\ live = g \/ (live = 0 /\ g > generation /\ pending = {} /\ g \notin refd)
         /\ \A h \in Gens : h > generation' => running'[h] = "none"
         /\ \A h \in Gens : running[h] = "gone" => running'[h] = "gone"
<1>1. live = 0 => pending = {}
  BY NobodyOwed
<1> QED
  BY <1>1 DEF Ensures, Books, Unborn, TypeOK

LEMMA PostsBooks ==
  ASSUME Books, NEW j \in Job, Posts(j)
  PROVE  Books'
<1>1. PICK g \in Gens : Ensures(g) /\ Hands(j, seq + 1, g, g)
  BY DEF Posts
<1>2. TypeOK'
  BY RunTypes DEF Books
<1>3. outcome[j] = "unasked" /\ given[j] = 0
  BY DEF Posts, Books, Unborn
<1>4. Numbers' /\ EndsAreTrue'
  BY <1>1, HandsNumbers DEF Books, Booked, Unborn
<1>5. /\ live' = g /\ generation <= generation' /\ g <= generation' /\ generation' \in Nat
      /\ live = g \/ (live = 0 /\ g > generation /\ pending = {} /\ g \notin refd)
      /\ \A h \in Gens : h > generation' => running'[h] = "none"
  BY <1>1, EnsuresFresh
<1> DEFINE new == [id |-> seq + 1, job |-> j, gen |-> g]
<1>6. new.id = seq + 1 /\ new.job = j /\ new.gen = g
  OBVIOUS
<1>7. \A p \in pending : /\ p.id \in Nat /\ p.job \in Job /\ p.id <= seq
                         /\ p.gen = live /\ outcome[p.job] = "waiting"
  BY DEF Books, Booked, OwedByLive, TypeOK
<1>8. pending' = pending \cup {new}
  BY <1>1, <1>7 DEF Hands, Books, TypeOK
<1>9. /\ seq' = seq + 1 /\ seq \in Nat
      /\ outcome' = [outcome EXCEPT ![j] = "waiting"]
      /\ given' = [given EXCEPT ![j] = g]
      /\ refd' = IF pending = {} THEN refd \cup {g} ELSE refd
      /\ heard' = heard
  BY <1>1 DEF Hands, Tells, Books, TypeOK
<1> HIDE DEF new
<1>10. pending = {} \/ live = g
  BY <1>5
<1>11. OwedByLive'
  <2>1. \A p \in pending' : p.gen = live' /\ outcome'[p.job] = "waiting"
    BY <1>3, <1>5, <1>6, <1>7, <1>8, <1>9, <1>10 DEF Books, TypeOK
  <2>2. \A k \in Job : outcome'[k] = "waiting" => k \in Owed'
    BY <1>6, <1>8, <1>9 DEF Books, OwedByLive, Owed, TypeOK
  <2>3. \A p, q \in pending' : p.id = q.id \/ p.job = q.job => p = q
    BY <1>3, <1>6, <1>7, <1>8, <1>9 DEF Books, OwedByLive
  <2> QED
    BY <2>1, <2>2, <2>3 DEF OwedByLive
<1>12. Booked'
  BY <1>3, <1>6, <1>7, <1>8, <1>9 DEF Books, Booked, TypeOK
<1>13. Unborn'
  <2>1. live' <= generation'
    BY <1>5
  <2>2. \A k \in Job : given'[k] <= generation' /\ (outcome'[k] = "unasked" => given'[k] = 0)
    BY <1>5, <1>9 DEF Books, Unborn, TypeOK
  <2>3. \A h \in refd' : h <= generation'
    BY <1>5, <1>9 DEF Books, Unborn, TypeOK
  <2> QED
    BY <1>5, <2>1, <2>2, <2>3 DEF Unborn
<1>14. InService'
  BY <1>3, <1>5, <1>9 DEF Books, InService, Unborn, TypeOK
<1>15. OwnAnswer'
  BY <1>9 DEF Books, OwnAnswer
<1>16. HeldOpenWhileOwed'
  BY <1>5, <1>8, <1>9 DEF Books, HeldOpenWhileOwed
<1> QED
  BY <1>2, <1>4, <1>11, <1>12, <1>13, <1>14, <1>15, <1>16 DEF Books

LEMMA RunBooks ==
  ASSUME Books, NEW j \in Job, RunsClosed(j) \/ SpawnFails(j) \/ PostThrows(j)
  PROVE  Books'
<1>1. TypeOK'
  BY RunTypes DEF Books
<1>2. outcome[j] = "unasked" /\ given[j] = 0
  BY DEF RunsClosed, SpawnFails, PostThrows, Books, Unborn
<1>3. PICK what \in {"closed", "unstarted", "rejected"} :
         outcome' = [outcome EXCEPT ![j] = what]
  BY DEF RunsClosed, SpawnFails, PostThrows, Tells
<1>4. UNCHANGED <<pending, given, heard, inbox, events>> /\ seq <= seq' /\ seq' \in Nat
  BY DEF RunsClosed, SpawnFails, PostThrows, bookkeeping, workers, Books, TypeOK
<1>5. \A h \in Gens : running[h] = "gone" => running'[h] = "gone"
  <2>1. CASE PostThrows(j)
    BY <2>1, EnsuresFresh DEF PostThrows
  <2>2. CASE UNCHANGED running
    BY <2>2
  <2> QED
    BY <2>1, <2>2 DEF RunsClosed, SpawnFails, workers
<1>6. Numbers' /\ EndsAreTrue'
  BY <1>4, <1>5, SilenceNumbers DEF Books
<1>7. /\ generation <= generation' /\ generation' \in Nat /\ live' <= generation'
      /\ live' = live \/ (live = 0 /\ live' > generation /\ pending = {})
      /\ \A h \in Gens : h > generation' => running'[h] = "none"
      /\ \A h \in refd' : h <= generation'
      /\ live' # 0 => (live' \in refd' <=> pending # {})
  <2>1. CASE RunsClosed(j)
    BY <2>1 DEF RunsClosed, bookkeeping, workers, Books, Unborn, HeldOpenWhileOwed, TypeOK
  <2>2. CASE SpawnFails(j)
    BY <2>2 DEF SpawnFails, workers, Books, Unborn, HeldOpenWhileOwed, TypeOK
  <2>3. CASE PostThrows(j)
    <3>1. PICK g \in Gens : Ensures(g) /\ refd' = IF pending = {} THEN refd \ {g} ELSE refd
      BY <2>3 DEF PostThrows
    <3>2. /\ live' = g /\ generation <= generation' /\ g <= generation' /\ generation' \in Nat
          /\ live = g \/ (live = 0 /\ g > generation /\ pending = {} /\ g \notin refd)
          /\ \A h \in Gens : h > generation' => running'[h] = "none"
      BY <3>1, EnsuresFresh
    <3>3. refd' \subseteq refd /\ \A h \in refd : h <= generation /\ h \in Nat
      BY <3>1 DEF Books, Unborn, TypeOK
    <3>4. generation \in Nat
      BY DEF Books, TypeOK
    <3>5. \A h \in refd' : h <= generation'
      BY <3>2, <3>3, <3>4
    <3>6. live' \in refd' <=> pending # {}
      <4>1. CASE pending = {}
        BY <3>1, <3>2, <4>1
      <4>2. CASE pending # {}
        BY <3>1, <3>2, <4>2 DEF Books, HeldOpenWhileOwed
      <4> QED
        BY <4>1, <4>2
    <3> QED
      BY <3>2, <3>5, <3>6
  <2> QED
    BY <2>1, <2>2, <2>3
<1>8. OwedByLive'
  <2>1. \A p \in pending : p.job # j /\ p.job \in Job
    BY <1>2 DEF Books, OwedByLive, TypeOK
  <2> QED
    BY <1>3, <1>4, <1>7, <2>1 DEF Books, OwedByLive, Owed, TypeOK
<1>9. Booked'
  BY <1>4 DEF Books, Booked, TypeOK
<1>10. Unborn'
  BY <1>2, <1>3, <1>4, <1>7 DEF Books, Unborn, TypeOK
<1>11. InService'
  BY <1>2, <1>3, <1>4, <1>7 DEF Books, InService, Unborn, TypeOK
<1>12. OwnAnswer' /\ HeldOpenWhileOwed'
  BY <1>4, <1>7 DEF Books, OwnAnswer, HeldOpenWhileOwed
<1> QED
  BY <1>1, <1>6, <1>8, <1>9, <1>10, <1>11, <1>12 DEF Books

\* A worker is told to go; nothing else about workers changes.
LEMMA TerminatesOnly ==
  ASSUME TypeOK, Terminates(live)
  PROVE  /\ \A g \in Gens : running[g] = "gone" => running'[g] = "gone"
         /\ \A g \in Gens : running[g] = "none" => running'[g] = "none"
  BY DEF Terminates, TypeOK

LEMMA TimesOutBooks ==
  ASSUME Books, NEW p \in pending, TimesOut(p)
  PROVE  Books'
<1>1. TypeOK'
  BY TypesNext DEF Books, Next
<1>2. p.gen = live
  BY DEF Books, OwedByLive
<1>3. /\ live' = 0 /\ pending' = {}
      /\ outcome' = [j \in Job |-> IF j = p.job THEN "timeout"
                                   ELSE IF j \in Owed THEN "retired" ELSE outcome[j]]
      /\ Terminates(live)
      /\ UNCHANGED <<generation, seq, refd, inbox, events, given, heard>>
  BY <1>2 DEF TimesOut
<1>4. TypeOK /\ Numbers /\ EndsAreTrue
  BY DEF Books
<1>5. seq' \in Nat /\ seq <= seq' /\ pending' \subseteq pending
  BY <1>3 DEF Books, TypeOK
<1>6. /\ \A g \in Gens : running[g] = "gone" => running'[g] = "gone"
      /\ \A g \in Gens : running[g] = "none" => running'[g] = "none"
  BY <1>3, <1>4, TerminatesOnly
<1>7. Numbers' /\ EndsAreTrue'
  BY <1>3, <1>4, <1>5, <1>6, SilenceNumbers
<1>8. /\ \A j \in Job : outcome'[j] = outcome[j] \/ outcome'[j] \notin {"unasked", "waiting"}
      /\ \A j \in Job : j \in Owed => outcome'[j] # "waiting"
  BY <1>3
<1> QED
  BY <1>1, <1>3, <1>6, <1>7, <1>8, ServiceEnds

LEMMA RetiresBooks ==
  ASSUME Books, TypeOK', NEW why \in Answers, live # 0, Retires(why),
         UNCHANGED <<generation, seq, refd, inbox, given, heard>>,
         \A g \in Gens : events'[g] = events[g] \/ (events[g] # <<>> /\ events'[g] = Tail(events[g]))
  PROVE  Books'
<1>1. /\ live' = 0 /\ pending' = {}
      /\ outcome' = [j \in Job |-> IF j \in Owed THEN why ELSE outcome[j]]
      /\ Terminates(live)
  BY DEF Retires
<1>2. TypeOK /\ Numbers /\ EndsAreTrue
  BY DEF Books
<1>3. seq' \in Nat /\ seq <= seq' /\ pending' \subseteq pending
  BY <1>1 DEF Books, TypeOK
<1>4. /\ \A g \in Gens : running[g] = "gone" => running'[g] = "gone"
      /\ \A g \in Gens : running[g] = "none" => running'[g] = "none"
  BY <1>1, <1>2, TerminatesOnly
<1>5. Numbers' /\ EndsAreTrue'
  BY <1>2, <1>3, <1>4, SilenceNumbers
<1>6. /\ \A j \in Job : outcome'[j] = outcome[j] \/ outcome'[j] \notin {"unasked", "waiting"}
      /\ \A j \in Job : j \in Owed => outcome'[j] # "waiting"
  BY <1>1 DEF Answers
<1> QED
  BY <1>1, <1>4, <1>5, <1>6, ServiceEnds

\* Reading a worker's message takes it off the wire.
LEMMA ReadsOne ==
  ASSUME TypeOK, NEW g \in Gens, events[g] # <<>>, Read(g)
  PROVE  \A h \in Gens : events'[h] = events[h] \/ (events[h] # <<>> /\ events'[h] = Tail(events[h]))
  BY DEF Read, TypeOK

LEMMA ReplyBooks ==
  ASSUME Books, NEW g \in Gens, TakesReply(g)
  PROVE  Books'
<1>1. TypeOK'
  BY MessageTypes DEF Books
<1>2. events[g] # <<>> /\ Head(events[g]).what = "reply" /\ live = g /\ Read(g)
  BY DEF TakesReply, Delivers, Says
<1>3. PICK p \in pending : /\ p.id = Head(events[g]).id
                           /\ pending' = pending \ {p}
                           /\ outcome' = [outcome EXCEPT ![p.job] = "decoded"]
                           /\ heard' = [heard EXCEPT ![p.job] = Head(events[g]).job]
  BY DEF TakesReply, Delivers, Tells
<1>4. /\ refd' = IF pending' = {} THEN refd \ {g} ELSE refd
      /\ UNCHANGED <<live, generation, seq, running, inbox, given>>
  BY DEF TakesReply, Delivers
<1>5. Head(events[g]).job = p.job
  <2>1. Head(events[g]) = events[g][1] /\ 1 \in 1 .. Len(events[g])
    BY <1>2 DEF Books, TypeOK
  <2>2. Names(events[g][1], pending, seq)
    BY <1>2, <2>1 DEF Books, Numbers
  <2> QED
    BY <1>3, <2>1, <2>2 DEF Names
<1>6. Numbers' /\ EndsAreTrue'
  <2>1. TypeOK /\ Numbers /\ EndsAreTrue
    BY DEF Books
  <2>2. seq' \in Nat /\ seq <= seq' /\ pending' \subseteq pending
    BY <1>3, <1>4 DEF Books, TypeOK
  <2>3. \A h \in Gens : events'[h] = events[h] \/ (events[h] # <<>> /\ events'[h] = Tail(events[h]))
    BY <1>2, <2>1, ReadsOne
  <2>4. \A h \in Gens : running[h] = "gone" => running'[h] = "gone"
    BY <1>4
  <2> QED
    BY <1>4, <2>1, <2>2, <2>3, <2>4, SilenceNumbers
<1>7. p.job \in Job /\ p.gen = live /\ outcome[p.job] = "waiting" /\ given[p.job] = live
  BY DEF Books, OwedByLive, Booked, TypeOK
<1>8. OwedByLive'
  <2>1. \A q \in pending' : q \in pending /\ q.job # p.job /\ q.job \in Job
    BY <1>3 DEF Books, OwedByLive, TypeOK
  <2>2. \A q \in pending' : q.gen = live' /\ outcome'[q.job] = "waiting"
    BY <1>3, <1>4, <2>1 DEF Books, OwedByLive, TypeOK
  <2>3. \A k \in Job : outcome'[k] = "waiting" => k \in Owed'
    BY <1>3, <1>7 DEF Books, OwedByLive, Owed, TypeOK
  <2>4. \A q, r \in pending' : q.id = r.id \/ q.job = r.job => q = r
    BY <2>1 DEF Books, OwedByLive
  <2> QED
    BY <2>2, <2>3, <2>4 DEF OwedByLive
<1>9. Booked' /\ Unborn'
  BY <1>3, <1>4, <1>7 DEF Books, Booked, Unborn, TypeOK
<1>10. InService'
  BY <1>3, <1>4, <1>7 DEF Books, InService, TypeOK
<1>11. OwnAnswer'
  BY <1>3, <1>5, <1>7 DEF Books, OwnAnswer, TypeOK
<1>12. HeldOpenWhileOwed'
  BY <1>2, <1>3, <1>4 DEF Books, HeldOpenWhileOwed
<1> QED
  BY <1>1, <1>6, <1>8, <1>9, <1>10, <1>11, <1>12 DEF Books

LEMMA OthersBooks ==
  ASSUME Books, NEW g \in Gens,
         IgnoresReply(g) \/ IgnoresEnd(g) \/ LosesWorker(g) \/ Decodes(g) \/ Ends(g)
  PROVE  Books'
<1>1. TypeOK'
  BY MessageTypes, WorkerTypes DEF Books
<1>2. CASE IgnoresReply(g) \/ IgnoresEnd(g)
  <2>1. /\ events[g] # <<>> /\ Read(g)
        /\ UNCHANGED <<live, generation, seq, pending, refd, running, inbox, outcome, given, heard>>
    BY <1>2 DEF IgnoresReply, IgnoresEnd, Says, bookkeeping, callers
  <2>2. Numbers' /\ EndsAreTrue'
    <3>1. TypeOK /\ Numbers /\ EndsAreTrue
      BY DEF Books
    <3>2. seq' \in Nat /\ seq <= seq' /\ pending' \subseteq pending
      BY <2>1 DEF Books, TypeOK
    <3>3. \A h \in Gens : events'[h] = events[h] \/ (events[h] # <<>> /\ events'[h] = Tail(events[h]))
      BY <2>1, <3>1, ReadsOne
    <3>4. \A h \in Gens : running[h] = "gone" => running'[h] = "gone"
      BY <2>1
    <3> QED
      BY <2>1, <3>1, <3>2, <3>3, <3>4, SilenceNumbers
  <2> QED
    BY <1>1, <2>1, <2>2, BooksUntouched
<1>3. CASE LosesWorker(g)
  <2>1. /\ events[g] # <<>> /\ Read(g) /\ live = g /\ Retires("retired")
        /\ UNCHANGED <<generation, seq, refd, inbox, given, heard>>
    BY <1>3 DEF LosesWorker, Says
  <2> QED
    BY <1>1, <2>1, ReadsOne, RetiresBooks DEF Books
<1>4. CASE Decodes(g) \/ Ends(g)
  <2>1. Numbers' /\ EndsAreTrue'
    BY <1>4, WorkerNumbers DEF Books
  <2>2. UNCHANGED <<live, generation, seq, pending, refd, outcome, given, heard>>
    BY <1>4 DEF Decodes, Ends, bookkeeping, callers
  <2>3. \A h \in Gens : running[h] = "none" => running'[h] = "none"
    BY <1>4 DEF Decodes, Ends, Books, TypeOK
  <2> QED
    BY <1>1, <2>1, <2>2, <2>3, BooksUntouched
<1> QED
  BY <1>2, <1>3, <1>4

LEMMA BooksNext == Books /\ [Next]_vars => Books'
<1> SUFFICES ASSUME Books, [Next]_vars
             PROVE  Books'
  OBVIOUS
<1>1. TypeOK'
  BY TypesNext DEF Books
<1>2. CASE Close
  <2>1. CASE live # 0 /\ Retires("closed")
    BY <1>1, <1>2, <2>1, RetiresBooks DEF Close
  <2>2. CASE UNCHANGED <<live, pending, outcome, running>>
    <3>1. UNCHANGED <<generation, seq, refd, inbox, events, given, heard>>
      BY <1>2, Zenon DEF Close
    <3>2. Numbers' /\ EndsAreTrue'
      BY <2>2, <3>1 DEF Books, Numbers, EndsAreTrue
    <3> QED
      BY <1>1, <2>2, <3>1, <3>2, BooksUntouched
  <2> QED
    BY <1>2, <2>1, <2>2 DEF Close
<1>3. CASE UNCHANGED vars
  <2>1. UNCHANGED <<live, generation, seq, pending, refd, running, inbox, events, outcome, given, heard>>
    BY <1>3 DEF vars, bookkeeping, workers, callers
  <2>2. Numbers' /\ EndsAreTrue'
    BY <2>1 DEF Books, Numbers, EndsAreTrue
  <2> QED
    BY <1>1, <2>1, <2>2, BooksUntouched
<1> QED
  BY <1>2, <1>3, PostsBooks, RunBooks, TimesOutBooks, ReplyBooks, OthersBooks DEF Next

\* The inductive invariant holds: the types, the numbers and generations on the books
\* and in what workers say, and the four invariants below.
LEMMA BooksHold == Spec => []Books
  BY BooksInit, BooksNext, PTL DEF Spec

\* Whoever waits is on the books once, and owed an answer by the worker in service:
\* no retirement, post that throws or late message leaves a caller behind.
THEOREM WaitersAreOwed == Spec => []OwedByLive
<1>1. Books => OwedByLive
  BY DEF Books
<1> QED
  BY BooksHold, <1>1, PTL

\* The worker in service has failed nobody: all it was ever given it has decoded or
\* still owes.
THEOREM NoneDeafStays == Spec => []InService
<1>1. Books => InService
  BY DEF Books
<1> QED
  BY BooksHold, <1>1, PTL

\* What a caller is given was decoded from its own audio, however late the answers of
\* replaced workers come and however numbers and answers interleave.
THEOREM AnswersAreOwn == Spec => []OwnAnswer
<1>1. Books => OwnAnswer
  BY DEF Books
<1> QED
  BY BooksHold, <1>1, PTL

\* The process is held open exactly while somebody waits.
THEOREM HeldOpenExactly == Spec => []HeldOpenWhileOwed
<1>1. Books => HeldOpenWhileOwed
  BY DEF Books
<1> QED
  BY BooksHold, <1>1, PTL

\* A worker leaves service because it has ended, because a job of its has timed
\* out, or at the close: a late exit never takes the next worker with it.
THEOREM HealthyStay == Spec => HealthyStays
<1>1. Books /\ [Next]_vars =>
        [live # 0 /\ live' # live =>
            \/ closed'
            \/ running[live] \in {"gone"}
            \/ \E j \in Job : given[j] = live /\ outcome[j] = "waiting" /\ outcome'[j] = "timeout"]_vars
  <2> SUFFICES ASSUME Books, [Next]_vars, live # 0, live' # live
               PROVE  \/ closed'
                      \/ running[live] \in {"gone"}
                      \/ \E j \in Job : /\ given[j] = live /\ outcome[j] = "waiting"
                                        /\ outcome'[j] = "timeout"
    OBVIOUS
  <2>1. ASSUME NEW j \in Job, RunsClosed(j) \/ SpawnFails(j) \/ Posts(j) \/ PostThrows(j)
        PROVE  FALSE
    BY <2>1 DEF RunsClosed, SpawnFails, Posts, PostThrows, Ensures, bookkeeping
  <2>2. ASSUME NEW p \in pending, TimesOut(p)
        PROVE  \E j \in Job : /\ given[j] = live /\ outcome[j] = "waiting"
                              /\ outcome'[j] = "timeout"
    <3>1. p.job \in Job /\ p.gen = live /\ given[p.job] = live /\ outcome[p.job] = "waiting"
      BY DEF Books, OwedByLive, Booked, TypeOK
    <3> QED
      BY <2>2, <3>1 DEF TimesOut
  <2>3. ASSUME NEW g \in Gens, LosesWorker(g)
        PROVE  running[live] = "gone"
    <3>1. events[g] # <<>> /\ Head(events[g]).what # "reply" /\ live = g
      BY <2>3 DEF LosesWorker, Says
    <3>2. Head(events[g]) = events[g][1] /\ 1 \in 1 .. Len(events[g])
      BY <3>1 DEF Books, TypeOK
    <3> QED
      BY <3>1, <3>2 DEF Books, EndsAreTrue
  <2>4. ASSUME NEW g \in Gens,
               TakesReply(g) \/ IgnoresReply(g) \/ IgnoresEnd(g) \/ Decodes(g) \/ Ends(g)
        PROVE  FALSE
    BY <2>4 DEF TakesReply, Delivers, IgnoresReply, IgnoresEnd, Decodes, Ends, bookkeeping
  <2>5. CASE Close
    BY <2>5 DEF Close
  <2>6. CASE UNCHANGED vars
    BY <2>6 DEF vars, bookkeeping
  <2> QED
    BY <2>1, <2>2, <2>3, <2>4, <2>5, <2>6 DEF Next
<1> QED
  BY BooksInit, BooksNext, <1>1, PTL DEF Spec, HealthyStays
=============================================================================
