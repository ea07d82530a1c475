----------------------------- MODULE UpdateLock -----------------------------
(***************************************************************************)
(* The lock file of a software update (lib/update/runner.ts): created with  *)
(* O_EXCL, recognised as abandoned when its process is gone, and cleared by  *)
(* being moved aside and read again.  Every call into the file system is a  *)
(* step of its own; taking and releasing are synchronous, so the requests   *)
(* of one process never come between each other's steps, and those of       *)
(* different processes do.                                                  *)
(*                                                                         *)
(* All processes are on one Linux host: kill(pid, 0) and /proc decide       *)
(* whether a holder is alive, and the age of a lock is never asked.         *)
(***************************************************************************)
EXTENDS Naturals

CONSTANTS
    Process,
    Mortal,         \* those that may die: out of memory, or reloaded by PM2
    Token,          \* a token is drawn for each request, and names its file
    DiesMidCall,    \* TRUE: a process may die between two steps of a call
    AsksTwice,      \* TRUE: a process is asked for an update while it runs one
    None, Empty     \* no token; what a file created and not yet written holds

ASSUME MortalAssumption == Mortal \subseteq Process
ASSUME NoneAssumption == None \notin Token /\ Empty \notin Token

VARIABLES
    file,           \* the file under the name LOCK_FILE: whose it is, or None
    written,        \* the tokens whose record has been written
    owner,          \* the process that drew the token
    orphans,        \* tokens of processes that have died since
    runs,           \* the tokens whose update is going on
    up,             \* the processes there are
    pc, attempt,    \* where each process is in acquireUpdateLock or releaseUpdateLock
    mine,           \* the token it is taking or releasing
    judged,         \* the contents it judged stale
    aside,          \* the file it has moved aside
    heldLock        \* __digishackUpdateLock

fileVars == <<file, written>>
runVars == <<owner, orphans, runs, up>>
procVars == <<pc, attempt, mine, judged, aside, heldLock>>
vars == <<fileVars, runVars, procVars>>

Content(t) == IF t \in written THEN t ELSE Empty

Init ==
    /\ file = None /\ written = {}
    /\ owner = [t \in Token |-> None] /\ orphans = {} /\ runs = {}
    /\ up = Process
    /\ pc = [p \in Process |-> "idle"] /\ attempt = [p \in Process |-> 1]
    /\ mine = [p \in Process |-> None] /\ judged = [p \in Process |-> None]
    /\ aside = [p \in Process |-> None] /\ heldLock = [p \in Process |-> None]

Goes(p, l) == pc' = [pc EXCEPT ![p] = l]

\* The call ends; what it knew is of no more use.
Ends(p) ==
    /\ Goes(p, "idle")
    /\ attempt' = [attempt EXCEPT ![p] = 1]
    /\ mine' = [mine EXCEPT ![p] = None]
    /\ judged' = [judged EXCEPT ![p] = None]
    /\ aside' = [aside EXCEPT ![p] = None]

\* The next attempt to create it, of three.
Retries(p) ==
    IF attempt[p] < 3
    THEN /\ Goes(p, "create")
         /\ attempt' = [attempt EXCEPT ![p] = @ + 1]
         /\ judged' = [judged EXCEPT ![p] = None]
         /\ aside' = [aside EXCEPT ![p] = None]
         /\ UNCHANGED mine
    ELSE Ends(p)

-----------------------------------------------------------------------------
\* acquireUpdateLock.

\* Random tokens do not repeat while anybody still knows one; which is drawn makes no
\* difference.
Unknown(t) ==
    /\ t # file /\ t \notin runs
    /\ \A p \in Process : t \notin {mine[p], judged[p], aside[p], heldLock[p]}

Acquires(p) ==
    /\ p \in up /\ pc[p] = "idle"
    /\ AsksTwice \/ \A t \in runs : owner[t] # p
    /\ \E t \in Token : Unknown(t)
    /\ LET t == CHOOSE u \in Token : Unknown(u)
       IN  /\ mine' = [mine EXCEPT ![p] = t]
           /\ owner' = [owner EXCEPT ![t] = p]
           /\ orphans' = orphans \ {t}
           /\ written' = written \ {t}
    /\ Goes(p, "create")
    /\ UNCHANGED <<file, runs, up, attempt, judged, aside, heldLock>>

Creates(p) ==
    /\ pc[p] = "create"
    /\ IF file = None THEN file' = mine[p] /\ Goes(p, "write")
                      ELSE UNCHANGED file /\ Goes(p, "look")
    /\ UNCHANGED <<written, runVars, attempt, mine, judged, aside, heldLock>>

\* The record is in the file, and the caller has the lock.
Writes(p) ==
    /\ pc[p] = "write"
    /\ written' = written \cup {mine[p]}
    /\ heldLock' = [heldLock EXCEPT ![p] = mine[p]]
    /\ runs' = runs \cup {mine[p]}
    /\ Ends(p)
    /\ UNCHANGED <<file, owner, orphans, up>>

\* Fault: a lock that names a living process is held, also for the process it names.
StaleWhenGone(p, t) == t \in orphans

\* inspectLock: the process is gone, or is this one and never took it.  An empty file is
\* stale when its writer is gone and ten seconds have passed; a living writer takes less.
Stale(p, t) ==
    \/ t \in orphans
    \/ t \in written /\ owner[t] = p /\ heldLock[p] # t

inspectLock(p) ==
    /\ pc[p] = "look"
    /\ \/ file = None /\ Retries(p)
       \/ /\ file # None /\ ~Stale(p, file)
          /\ Ends(p)
       \/ /\ file # None /\ Stale(p, file)
          /\ judged' = [judged EXCEPT ![p] = Content(file)]
          /\ Goes(p, "rename")
          /\ UNCHANGED <<attempt, mine, aside>>
    /\ UNCHANGED <<fileVars, runVars, heldLock>>

\* discardStaleLock: moved aside, whoever's it is by now.
Renames(p) ==
    /\ pc[p] = "rename"
    /\ \/ file = None /\ Retries(p) /\ UNCHANGED file
       \/ /\ file # None
          /\ aside' = [aside EXCEPT ![p] = file]
          /\ file' = None
          /\ Goes(p, "reread")
          /\ UNCHANGED <<attempt, mine, judged>>
    /\ UNCHANGED <<written, runVars, heldLock>>

\* Fault: what was moved is taken for what was judged.
RereadsNothing(p) ==
    /\ pc[p] = "reread"
    /\ Retries(p)
    /\ UNCHANGED <<fileVars, runVars, heldLock>>

\* Only what was judged stale is thrown away.
Rereads(p) ==
    /\ pc[p] = "reread"
    /\ IF Content(aside[p]) = judged[p] THEN Retries(p)
       ELSE Goes(p, "putback") /\ UNCHANGED <<attempt, mine, judged, aside>>
    /\ UNCHANGED <<fileVars, runVars, heldLock>>

\* Anything else is put back, unless yet another lock has appeared since.
PutsBack(p) ==
    /\ pc[p] = "putback"
    /\ file' = IF file = None THEN aside[p] ELSE file
    /\ Ends(p)
    /\ UNCHANGED <<written, runVars, heldLock>>

-----------------------------------------------------------------------------
\* releaseUpdateLock, when the update has ended.

Releases(p, t) ==
    /\ pc[p] = "idle"
    /\ t \in runs /\ owner[t] = p
    /\ runs' = runs \ {t}
    /\ heldLock' = [heldLock EXCEPT ![p] = IF @ = t THEN None ELSE @]
    /\ mine' = [mine EXCEPT ![p] = t]
    /\ Goes(p, "readown")
    /\ UNCHANGED <<fileVars, owner, orphans, up, attempt, judged, aside>>

ReadsOwn(p) ==
    /\ pc[p] = "readown"
    /\ IF file = mine[p] THEN Goes(p, "unlinkown") /\ UNCHANGED <<attempt, mine, judged, aside>>
                         ELSE Ends(p)
    /\ UNCHANGED <<fileVars, runVars, heldLock>>

UnlinksOwn(p) ==
    /\ pc[p] = "unlinkown"
    /\ file' = None
    /\ Ends(p)
    /\ UNCHANGED <<written, runVars, heldLock>>

-----------------------------------------------------------------------------
Dies(p) ==
    /\ p \in up \cap Mortal
    /\ DiesMidCall \/ pc[p] = "idle"
    /\ up' = up \ {p}
    /\ orphans' = orphans \cup {t \in Token : owner[t] = p}
    /\ runs' = {t \in runs : owner[t] # p}
    /\ heldLock' = [heldLock EXCEPT ![p] = None]
    /\ Ends(p)
    /\ UNCHANGED <<fileVars, owner>>

\* With the pid it had, or another.
Restarts(p) ==
    /\ p \in Process \ up
    /\ up' = up \cup {p}
    /\ UNCHANGED <<fileVars, owner, orphans, runs, procVars>>

Step(p) ==
    \/ Creates(p) \/ Writes(p) \/ inspectLock(p) \/ Renames(p) \/ Rereads(p) \/ PutsBack(p)
    \/ ReadsOwn(p) \/ UnlinksOwn(p)

Next ==
    \E p \in Process :
        \/ Step(p) \/ Acquires(p) \/ Dies(p) \/ Restarts(p)
        \/ \E t \in Token : Releases(p, t)

Spec == Init /\ [][Next]_vars

\* A call runs to its end, a process is started again, and each goes on being asked for
\* updates.
Fairness ==
    \A p \in Process : /\ WF_vars(Step(p)) /\ WF_vars(Restarts(p))
                       /\ SF_vars(Acquires(p))

FairSpec == Spec /\ Fairness

-----------------------------------------------------------------------------
Labels == {"idle", "create", "write", "look", "rename", "reread", "putback", "readown", "unlinkown"}

TypeOK ==
    /\ file \in Token \cup {None}
    /\ written \subseteq Token /\ orphans \subseteq Token /\ runs \subseteq Token
    /\ owner \in [Token -> Process \cup {None}]
    /\ up \subseteq Process
    /\ pc \in [Process -> Labels] /\ attempt \in [Process -> 1 .. 3]
    /\ mine \in [Process -> Token \cup {None}]
    /\ judged \in [Process -> Token \cup {None, Empty}]
    /\ aside \in [Process -> Token \cup {None}]
    /\ heldLock \in [Process -> Token \cup {None}]

\* One update at a time: "two processes recovering the same lock cannot both go on to hold a
\* fresh one".  So it is with two processes that die between calls, and are not asked
\* twice; and with any number, asked at any time, as long as none dies.
OneRun == \A t, u \in runs : t = u

\* "release() only ever removes this holder's own file".
ReleasesItsOwn ==
    [][\A p \in Process : UnlinksOwn(p) /\ file # None => file = mine[p]]_vars

\* A lock that no update holds - its process died, or it was put back too late - does not
\* stay: a request clears it.
LeftLockGoes ==
    \A t \in Token : file = t /\ t \notin runs ~> file # t \/ t \in runs
=============================================================================
