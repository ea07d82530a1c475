-------------------------- MODULE UpdateLockProofs --------------------------
(***************************************************************************)
(* The update lock.  Types hold whatever dies.  That one update runs at a   *)
(* time is proved twice: for any number of processes, asked however often,  *)
(* as long as none dies, when no lock is ever judged stale and O_EXCL       *)
(* decides alone; and for two that die between calls, when a lock in use    *)
(* may be moved aside but comes back before anybody can create another.     *)
(* Of the two that die it is proved too that a release removes its own lock *)
(* only, though a recovery may move files between its read and its unlink.  *)
(***************************************************************************)
EXTENDS UpdateLock, TLAPS

USE MortalAssumption, NoneAssumption

Busy == Labels \ {"idle"}

\* Who is in a call has a token.
Tokened == \A p \in Process : pc[p] \in Busy => mine[p] \in Token

Typed == TypeOK /\ Tokened

---------------------------------------------------------------------------
(* Types *)

LEMMA TypesInit == Init => Typed
  BY DEF Init, Typed, TypeOK, Tokened, Labels, Busy

LEMMA EndsTypes ==
  ASSUME Typed, NEW p \in Process, Ends(p)
  PROVE  /\ pc' \in [Process -> Labels] /\ attempt' \in [Process -> 1 .. 3]
         /\ mine' \in [Process -> Token \cup {None}]
         /\ judged' \in [Process -> Token \cup {None, Empty}]
         /\ aside' \in [Process -> Token \cup {None}]
         /\ Tokened'
  BY DEF Ends, Goes, Typed, TypeOK, Tokened, Labels, Busy

LEMMA RetriesTypes ==
  ASSUME Typed, NEW p \in Process, Retries(p), pc[p] \in Busy
  PROVE  /\ pc' \in [Process -> Labels] /\ attempt' \in [Process -> 1 .. 3]
         /\ mine' \in [Process -> Token \cup {None}]
         /\ judged' \in [Process -> Token \cup {None, Empty}]
         /\ aside' \in [Process -> Token \cup {None}]
         /\ Tokened'
<1>1. CASE attempt[p] < 3
  BY <1>1 DEF Retries, Goes, Typed, TypeOK, Tokened, Labels, Busy
<1>2. CASE ~(attempt[p] < 3)
  BY <1>2, EndsTypes DEF Retries
<1> QED
  BY <1>1, <1>2

LEMMA AcquireTypes ==
  ASSUME Typed, NEW p \in Process, Acquires(p) \/ Creates(p) \/ Writes(p) \/ inspectLock(p)
  PROVE  Typed'
<1>1. CASE Acquires(p)
  <2>1. PICK t \in Token : /\ mine' = [mine EXCEPT ![p] = t]
                           /\ owner' = [owner EXCEPT ![t] = p]
                           /\ orphans' = orphans \ {t}
                           /\ written' = written \ {t}
    BY <1>1 DEF Acquires
  <2> QED
    BY <1>1, <2>1 DEF Acquires, Goes, Typed, TypeOK, Tokened, Labels, Busy
<1>2. CASE Creates(p)
  BY <1>2 DEF Creates, Goes, runVars, Typed, TypeOK, Tokened, Labels, Busy
<1>3. CASE Writes(p)
  <2>1. mine[p] \in Token
    BY <1>3 DEF Writes, Typed, Tokened, Labels, Busy
  <2> QED
    BY <1>3, <2>1, EndsTypes DEF Writes, Typed, TypeOK
<1>4. CASE inspectLock(p)
  <2>1. CASE file = None
    BY <1>4, <2>1, RetriesTypes DEF inspectLock, fileVars, runVars, Typed, TypeOK, Labels, Busy
  <2>2. CASE file # None /\ Ends(p)
    BY <1>4, <2>2, EndsTypes DEF inspectLock, fileVars, runVars, Typed, TypeOK
  <2>3. CASE file # None /\ ~Ends(p)
    BY <1>4, <2>3
      DEF inspectLock, Content, Goes, fileVars, runVars, Typed, TypeOK, Tokened, Labels, Busy
  <2> QED
    BY <2>1, <2>2, <2>3
<1> QED
  BY <1>1, <1>2, <1>3, <1>4

LEMMA DiscardTypes ==
  ASSUME Typed, NEW p \in Process, Renames(p) \/ Rereads(p) \/ PutsBack(p)
  PROVE  Typed'
<1>1. CASE Renames(p) /\ file = None
  BY <1>1, RetriesTypes DEF Renames, runVars, Typed, TypeOK, Labels, Busy
<1>2. CASE Renames(p) /\ file # None
  BY <1>2 DEF Renames, Goes, runVars, Typed, TypeOK, Tokened, Labels, Busy
<1>3. CASE Rereads(p) /\ Content(aside[p]) = judged[p]
  BY <1>3, RetriesTypes DEF Rereads, fileVars, runVars, Typed, TypeOK, Labels, Busy
<1>4. CASE Rereads(p) /\ Content(aside[p]) # judged[p]
  BY <1>4 DEF Rereads, Goes, fileVars, runVars, Typed, TypeOK, Tokened, Labels, Busy
<1>5. CASE PutsBack(p)
  BY <1>5, EndsTypes DEF PutsBack, runVars, Typed, TypeOK
<1> QED
  BY <1>1, <1>2, <1>3, <1>4, <1>5

LEMMA ReleaseTypes ==
  ASSUME Typed, NEW p \in Process, ReadsOwn(p) \/ UnlinksOwn(p) \/ \E t \in Token : Releases(p, t)
  PROVE  Typed'
<1>1. CASE ReadsOwn(p) /\ file = mine[p]
  BY <1>1 DEF ReadsOwn, Goes, fileVars, runVars, Typed, TypeOK, Tokened, Labels, Busy
<1>2. CASE ReadsOwn(p) /\ file # mine[p]
  BY <1>2, EndsTypes DEF ReadsOwn, fileVars, runVars, Typed, TypeOK
<1>3. CASE UnlinksOwn(p)
  BY <1>3, EndsTypes DEF UnlinksOwn, runVars, Typed, TypeOK
<1>4. ASSUME NEW t \in Token, Releases(p, t)
      PROVE  Typed'
  BY <1>4 DEF Releases, Goes, fileVars, Typed, TypeOK, Tokened, Labels, Busy
<1> QED
  BY <1>1, <1>2, <1>3, <1>4

LEMMA LifeTypes ==
  ASSUME Typed, NEW p \in Process, Dies(p) \/ Restarts(p)
  PROVE  Typed'
<1>1. CASE Dies(p)
  BY <1>1, EndsTypes DEF Dies, fileVars, Typed, TypeOK
<1>2. CASE Restarts(p)
  BY <1>2 DEF Restarts, fileVars, procVars, Typed, TypeOK, Tokened
<1> QED
  BY <1>1, <1>2

LEMMA TypesStep == Typed /\ [Next]_vars => Typed'
<1> SUFFICES ASSUME Typed, [Next]_vars
             PROVE  Typed'
  OBVIOUS
<1>1. CASE Next
  BY <1>1, AcquireTypes, DiscardTypes, ReleaseTypes, LifeTypes DEF Next, Step
<1>2. CASE UNCHANGED vars
  BY <1>2 DEF vars, fileVars, runVars, procVars, Typed, TypeOK, Tokened
<1> QED
  BY <1>1, <1>2

\* Every variable keeps its type, whatever dies, and a process in a call has drawn a token.
THEOREM TypeCorrect == Spec => []TypeOK
<1>1. Typed => TypeOK
  BY DEF Typed
<1> QED
  BY <1>1, TypesInit, TypesStep, PTL DEF Spec

---------------------------------------------------------------------------
(* One update at a time, while nobody dies *)

\* Nobody has died, and nothing has been moved aside.
Undisturbed ==
    /\ orphans = {} /\ up = Process
    /\ \A p \in Process : pc[p] \notin {"rename", "reread", "putback"}

\* The token a process carries is its own, and its update does not run: not yet, and its
\* record is not written; or no longer.
Carried ==
    \A p \in Process : pc[p] \in Busy =>
        /\ owner[mine[p]] = p
        /\ mine[p] \notin runs
        /\ pc[p] \in {"create", "look", "write"} => mine[p] \notin written

\* Those that rely on the file being theirs.
Relies(p) == pc[p] \in {"write", "readown", "unlinkown"}

\* The file is that of the update that runs, and of whoever relies on it; a record in it is
\* known to the process it names, or that process is removing it.
Attributed ==
    /\ \A t \in runs : file = t /\ t \in written
    /\ \A p \in Process : Relies(p) => file = mine[p]
    /\ \A p \in Process : file \in written /\ owner[file] = p =>
          heldLock[p] = file \/ pc[p] \in {"readown", "unlinkown"}

LockInv == Typed /\ Undisturbed /\ Carried /\ Attributed

LEMMA LockInit == Init => LockInv
<1> SUFFICES ASSUME Init
             PROVE  LockInv
  OBVIOUS
<1>1. Undisturbed /\ Carried /\ Attributed
  BY DEF Init, Undisturbed, Carried, Attributed, Relies, Busy
<1> QED
  BY <1>1, TypesInit DEF LockInv

\* No two processes carry the same token.
LEMMA OwnTokens ==
  ASSUME LockInv, NEW p \in Process, NEW q \in Process, p # q,
         pc[p] \in Busy, pc[q] \in Busy
  PROVE  mine[p] # mine[q]
  BY DEF LockInv, Carried

LEMMA AcquiresLock ==
  ASSUME LockInv, NEW p \in Process, Acquires(p)
  PROVE  Undisturbed' /\ Carried' /\ Attributed'
<1>1. PICK t \in Token : /\ Unknown(t)
                         /\ mine' = [mine EXCEPT ![p] = t]
                         /\ owner' = [owner EXCEPT ![t] = p]
                         /\ orphans' = orphans \ {t}
                         /\ written' = written \ {t}
  BY DEF Acquires
<1>2. pc' = [pc EXCEPT ![p] = "create"] /\ pc[p] = "idle" /\ UNCHANGED <<file, runs, up, heldLock>>
  BY DEF Acquires, Goes
<1>3. Undisturbed'
  BY <1>1, <1>2 DEF LockInv, Typed, TypeOK, Undisturbed
<1>4. Carried'
  BY <1>1, <1>2 DEF LockInv, Typed, TypeOK, Carried, Unknown, Busy, Labels
<1>5. Attributed'
  BY <1>1, <1>2 DEF LockInv, Typed, TypeOK, Attributed, Relies, Unknown
<1> QED
  BY <1>3, <1>4, <1>5

LEMMA CreatesLock ==
  ASSUME LockInv, NEW p \in Process, Creates(p)
  PROVE  Undisturbed' /\ Carried' /\ Attributed'
<1>1. /\ pc[p] = "create" /\ mine[p] \in Token
      /\ UNCHANGED <<written, owner, orphans, runs, up, mine, heldLock>>
  BY DEF Creates, runVars, LockInv, Typed, Tokened, Busy, Labels
<1>2. CASE file = None
  <2>1. file' = mine[p] /\ pc' = [pc EXCEPT ![p] = "write"]
    BY <1>2 DEF Creates, Goes
  <2>2. runs = {} /\ \A q \in Process : ~Relies(q)
    BY <1>2 DEF LockInv, Typed, TypeOK, Tokened, Attributed, Relies, Busy, Labels
  <2> QED
    BY <1>1, <2>1, <2>2
      DEF LockInv, Typed, TypeOK, Undisturbed, Carried, Attributed, Relies, Busy, Labels
<1>3. CASE file # None
  <2>1. file' = file /\ pc' = [pc EXCEPT ![p] = "look"]
    BY <1>3 DEF Creates, Goes
  <2> QED
    BY <1>1, <2>1
      DEF LockInv, Typed, TypeOK, Undisturbed, Carried, Attributed, Relies, Busy, Labels
<1> QED
  BY <1>2, <1>3

LEMMA WritesLock ==
  ASSUME LockInv, NEW p \in Process, Writes(p)
  PROVE  Undisturbed' /\ Carried' /\ Attributed'
<1>1. /\ pc[p] = "write" /\ pc[p] \in Busy
      /\ pc' = [pc EXCEPT ![p] = "idle"] /\ mine' = [mine EXCEPT ![p] = None]
      /\ written' = written \cup {mine[p]} /\ runs' = runs \cup {mine[p]}
      /\ heldLock' = [heldLock EXCEPT ![p] = mine[p]]
      /\ UNCHANGED <<file, owner, orphans, up>>
  BY DEF Writes, Ends, Goes, Busy, Labels
<1>2. file = mine[p] /\ owner[mine[p]] = p /\ mine[p] \in Token
  BY <1>1 DEF LockInv, Typed, Tokened, Carried, Attributed, Relies
<1>3. Undisturbed'
  BY <1>1 DEF LockInv, Typed, TypeOK, Undisturbed
<1>4. Carried'
  <2> SUFFICES ASSUME NEW q \in Process, pc'[q] \in Busy
               PROVE  /\ owner'[mine'[q]] = q
                      /\ mine'[q] \notin runs'
                      /\ pc'[q] \in {"create", "look", "write"} => mine'[q] \notin written'
    BY DEF Carried
  <2>1. q # p /\ pc[q] \in Busy /\ pc'[q] = pc[q] /\ mine'[q] = mine[q]
    BY <1>1 DEF LockInv, Typed, TypeOK, Busy
  <2>2. mine[q] # mine[p]
    BY <1>1, <2>1, OwnTokens
  <2> QED
    BY <1>1, <2>1, <2>2 DEF LockInv, Carried
<1>5. Attributed'
  BY <1>1, <1>2 DEF LockInv, Typed, TypeOK, Attributed, Relies
<1> QED
  BY <1>3, <1>4, <1>5

\* What is found under the name is not stale.
LEMMA InspectsLock ==
  ASSUME LockInv, NEW p \in Process, inspectLock(p)
  PROVE  Undisturbed' /\ Carried' /\ Attributed'
<1>1. /\ pc[p] = "look" /\ pc[p] \in Busy
      /\ UNCHANGED <<file, written, owner, orphans, runs, up, heldLock>>
  BY DEF inspectLock, fileVars, runVars, Busy, Labels
<1>2. file # None => ~Stale(p, file)
  BY <1>1 DEF Stale, LockInv, Undisturbed, Attributed
<1>3. Retries(p) \/ Ends(p)
  BY <1>2 DEF inspectLock
<1>4. \/ /\ pc' = [pc EXCEPT ![p] = "create"] /\ mine' = mine
      \/ /\ pc' = [pc EXCEPT ![p] = "idle"] /\ mine' = [mine EXCEPT ![p] = None]
  BY <1>3 DEF Retries, Ends, Goes
<1>5. Undisturbed' /\ Carried'
  BY <1>1, <1>4 DEF LockInv, Typed, TypeOK, Undisturbed, Carried, Busy, Labels
<1>6. \A q \in Process : Relies(q)' => Relies(q) /\ mine'[q] = mine[q]
  BY <1>1, <1>4 DEF LockInv, Typed, TypeOK, Relies
<1>7. \A q \in Process : pc[q] \in {"readown", "unlinkown"} => pc'[q] = pc[q]
  BY <1>1, <1>4 DEF LockInv, Typed, TypeOK
<1>8. Attributed'
  BY <1>1, <1>4, <1>6, <1>7 DEF LockInv, Typed, TypeOK, Attributed
<1> QED
  BY <1>5, <1>8

LEMMA ReleasesLock ==
  ASSUME LockInv, NEW p \in Process, NEW t \in Token, Releases(p, t)
  PROVE  Undisturbed' /\ Carried' /\ Attributed'
<1>1. /\ pc[p] = "idle" /\ t \in runs /\ owner[t] = p
      /\ runs' = runs \ {t}
      /\ heldLock' = [heldLock EXCEPT ![p] = IF @ = t THEN None ELSE @]
      /\ mine' = [mine EXCEPT ![p] = t] /\ pc' = [pc EXCEPT ![p] = "readown"]
      /\ UNCHANGED <<file, written, owner, orphans, up>>
  BY DEF Releases, Goes, fileVars
<1>2. file = t /\ runs' = {}
  BY <1>1 DEF LockInv, Attributed
<1>3. Undisturbed'
  BY <1>1 DEF LockInv, Typed, TypeOK, Undisturbed
<1>4. Carried'
  BY <1>1, <1>2 DEF LockInv, Typed, TypeOK, Carried, Busy
<1>5. Attributed'
  BY <1>1, <1>2 DEF LockInv, Typed, TypeOK, Attributed, Relies
<1> QED
  BY <1>3, <1>4, <1>5

LEMMA ReadsOwnLock ==
  ASSUME LockInv, NEW p \in Process, ReadsOwn(p)
  PROVE  Undisturbed' /\ Carried' /\ Attributed'
<1>1. /\ pc[p] = "readown"
      /\ UNCHANGED <<file, written, owner, orphans, runs, up, heldLock>>
  BY DEF ReadsOwn, fileVars, runVars
<1>2. file = mine[p]
  BY <1>1 DEF LockInv, Attributed, Relies
<1>3. pc' = [pc EXCEPT ![p] = "unlinkown"] /\ mine' = mine
  BY <1>2 DEF ReadsOwn, Goes
<1> QED
  BY <1>1, <1>3
    DEF LockInv, Typed, TypeOK, Undisturbed, Carried, Attributed, Relies, Busy, Labels

LEMMA UnlinksLock ==
  ASSUME LockInv, NEW p \in Process, UnlinksOwn(p)
  PROVE  Undisturbed' /\ Carried' /\ Attributed'
<1>1. /\ pc[p] = "unlinkown" /\ pc[p] \in Busy /\ file' = None
      /\ pc' = [pc EXCEPT ![p] = "idle"] /\ mine' = [mine EXCEPT ![p] = None]
      /\ UNCHANGED <<written, owner, orphans, runs, up, heldLock>>
  BY DEF UnlinksOwn, Ends, Goes, runVars, Busy, Labels
<1>2. file = mine[p] /\ runs = {}
  BY <1>1 DEF LockInv, Carried, Attributed, Relies
<1>3. \A q \in Process \ {p} : ~Relies(q)
  BY <1>1, <1>2, OwnTokens DEF LockInv, Attributed, Relies, Busy, Labels
<1>4. Undisturbed' /\ Carried'
  BY <1>1 DEF LockInv, Typed, TypeOK, Undisturbed, Carried, Busy
<1>5. Attributed'
  BY <1>1, <1>2, <1>3 DEF LockInv, Typed, TypeOK, Attributed, Relies
<1> QED
  BY <1>4, <1>5

LEMMA LockStep ==
  ASSUME Mortal = {}, LockInv, [Next]_vars
  PROVE  LockInv'
<1>1. Typed'
  BY TypesStep DEF LockInv
<1>2. CASE Next
  <2>1. PICK p \in Process : \/ Step(p) \/ Acquires(p) \/ Dies(p) \/ Restarts(p)
                             \/ \E t \in Token : Releases(p, t)
    BY <1>2 DEF Next
  <2>2. ~Dies(p) /\ ~Restarts(p)
    BY DEF Dies, Restarts, LockInv, Undisturbed
  <2>3. ~Renames(p) /\ ~Rereads(p) /\ ~PutsBack(p)
    BY DEF Renames, Rereads, PutsBack, LockInv, Undisturbed
  <2> QED
    BY <1>1, <2>1, <2>2, <2>3, AcquiresLock, CreatesLock, WritesLock, InspectsLock,
       ReleasesLock, ReadsOwnLock, UnlinksLock DEF Step, LockInv
<1>3. CASE UNCHANGED vars
  BY <1>1, <1>3 DEF vars, fileVars, runVars, procVars, LockInv, Undisturbed, Carried,
                    Attributed, Relies
<1> QED
  BY <1>2, <1>3

\* While no process dies one update runs at a time, however many processes are asked however
\* often: O_EXCL decides who creates the file, and nobody takes it for abandoned.
THEOREM OneAtATime ==
  ASSUME Mortal = {}
  PROVE  Spec => []OneRun
<1>1. LockInv => OneRun
  BY DEF LockInv, Attributed, OneRun
<1>2. LockInv /\ [Next]_vars => LockInv'
  BY LockStep
<1> QED
  BY <1>1, <1>2, LockInit, PTL DEF Spec

---------------------------------------------------------------------------
(* One update at a time, of two processes that die between calls *)

AtMostTwo == \A p, q, r \in Process : p = q \/ q = r \/ p = r

\* The lock t is p's: its update runs, or p is about to write or to remove it.
Uses(p, t) == (t \in runs /\ owner[t] = p) \/ (Relies(p) /\ mine[p] = t)

HasAside(q, t) == pc[q] \in {"reread", "putback"} /\ aside[q] = t

\* A token in use is its owner's, who is alive and does nothing else meanwhile.
Owned ==
    /\ \A t \in runs : t \notin orphans /\ owner[t] \in Process /\ pc[owner[t]] = "idle"
    /\ \A p \in Process : pc[p] \in Busy => owner[mine[p]] = p /\ mine[p] \notin orphans
    /\ OneRun

\* A file without its record is about to get it: whoever wrote a lock it left is in it.
Recorded ==
    \A t \in Token : file = t \/ (\E q \in Process : HasAside(q, t)) =>
        /\ owner[t] \in Process
        /\ t \in written \/ (pc[owner[t]] = "write" /\ mine[owner[t]] = t)

\* What was judged stale still is: nobody draws its token while it is remembered.
StillStale ==
    \A q \in Process : pc[q] \in {"rename", "reread", "putback"} =>
        judged[q] \in Token /\ (judged[q] \in orphans \/ owner[judged[q]] = q)

\* A lock in use is in its place, or on its way back to it.
InPlace ==
    \A p \in Process, t \in Token : Uses(p, t) =>
        file = t \/ (file = None /\ \E q \in Process : HasAside(q, t))

PairInv == Typed /\ Owned /\ Recorded /\ StillStale /\ InPlace

LEMMA PairInit == Init => PairInv
<1> SUFFICES ASSUME Init
             PROVE  PairInv
  OBVIOUS
<1>1. Owned /\ Recorded /\ StillStale /\ InPlace
  BY DEF Init, Owned, OneRun, Recorded, StillStale, InPlace, HasAside, Uses, Relies, Busy
<1> QED
  BY <1>1, TypesInit DEF PairInv

LEMMA UsersOwn ==
  ASSUME PairInv, NEW p \in Process, NEW t \in Token, Uses(p, t)
  PROVE  /\ owner[t] = p /\ t \notin orphans
         /\ pc[p] \in {"idle", "write", "readown", "unlinkown"}
  BY DEF PairInv, Owned, Uses, Relies, Busy, Labels

\* Both would have to find theirs in the one place, or aside with a third.
LEMMA OneUser ==
  ASSUME AtMostTwo, PairInv, NEW p \in Process, NEW q \in Process, NEW t \in Token, NEW u \in Token,
         Uses(p, t), Uses(q, u)
  PROVE  p = q
<1> SUFFICES ASSUME p # q
             PROVE  FALSE
  OBVIOUS
<1>1. owner[t] # owner[u]
  BY UsersOwn
<1>2. file = t \/ (file = None /\ \E r \in Process : HasAside(r, t))
  BY DEF PairInv, InPlace
<1>3. file = u \/ (file = None /\ \E r \in Process : HasAside(r, u))
  BY DEF PairInv, InPlace
<1>4. ASSUME NEW r \in Process, HasAside(r, t)
      PROVE  FALSE
  BY <1>4, UsersOwn DEF AtMostTwo, HasAside
<1> QED
  BY <1>1, <1>2, <1>3, <1>4

\* Whoever finds no file may create it: nobody uses one.
LEMMA NoneUsed ==
  ASSUME AtMostTwo, PairInv, NEW q \in Process, file = None,
         pc[q] \in Labels \ {"idle", "write", "readown", "unlinkown", "reread", "putback"}
  PROVE  \A p \in Process, t \in Token : ~Uses(p, t)
<1> SUFFICES ASSUME NEW p \in Process, NEW t \in Token, Uses(p, t)
             PROVE  FALSE
  OBVIOUS
<1>1. PICK r \in Process : HasAside(r, t)
  BY DEF PairInv, InPlace
<1> QED
  BY <1>1, UsersOwn DEF AtMostTwo, HasAside

\* What is in use was not judged stale by whoever has it aside.
LEMMA NotJudged ==
  ASSUME PairInv, NEW p \in Process, NEW q \in Process, NEW t \in Token, Uses(p, t), HasAside(q, t)
  PROVE  Content(aside[q]) # judged[q]
<1>1. owner[t] = p /\ t \notin orphans /\ p # q
  BY UsersOwn DEF HasAside
<1>2. judged[q] \in Token /\ judged[q] # t
  BY <1>1 DEF PairInv, StillStale, HasAside
<1> QED
  BY <1>2 DEF HasAside, Content

LEMMA AcquiresPair ==
  ASSUME ~AsksTwice, PairInv, NEW p \in Process, Acquires(p)
  PROVE  Owned' /\ Recorded' /\ StillStale' /\ InPlace'
<1>1. PICK t \in Token : /\ Unknown(t)
                         /\ mine' = [mine EXCEPT ![p] = t]
                         /\ owner' = [owner EXCEPT ![t] = p]
                         /\ orphans' = orphans \ {t}
                         /\ written' = written \ {t}
  BY DEF Acquires
<1>2. /\ pc' = [pc EXCEPT ![p] = "create"] /\ pc[p] = "idle"
      /\ \A u \in runs : owner[u] # p
      /\ UNCHANGED <<file, runs, judged, aside>>
  BY DEF Acquires, Goes
<1>3. /\ t # file /\ t \notin runs
      /\ \A q \in Process : t # mine[q] /\ t # judged[q] /\ t # aside[q]
  BY <1>1 DEF Unknown
<1>4. Owned'
  BY <1>1, <1>2, <1>3 DEF PairInv, Typed, TypeOK, Owned, OneRun, Busy, Labels
<1>5. \A q \in Process, u \in Token : HasAside(q, u)' <=> HasAside(q, u)
  BY <1>2 DEF HasAside, PairInv, Typed, TypeOK
<1>6. Recorded'
  <2> SUFFICES ASSUME NEW u \in Token, file = u \/ (\E q \in Process : HasAside(q, u))
               PROVE  /\ owner'[u] \in Process
                      /\ u \in written' \/ (pc'[owner'[u]] = "write" /\ mine'[owner'[u]] = u)
    BY <1>2, <1>5 DEF Recorded
  <2>1. u # t
    BY <1>3 DEF HasAside
  <2>2. /\ owner[u] \in Process
        /\ u \in written \/ (pc[owner[u]] = "write" /\ mine[owner[u]] = u)
    BY DEF PairInv, Recorded
  <2> QED
    BY <1>1, <1>2, <2>1, <2>2 DEF PairInv, Typed, TypeOK
<1>7. StillStale'
  BY <1>1, <1>2, <1>3 DEF PairInv, Typed, TypeOK, StillStale
<1>8. \A q \in Process, u \in Token : Uses(q, u)' => Uses(q, u)
  BY <1>1, <1>2, <1>3 DEF Uses, Relies, PairInv, Typed, TypeOK
<1>9. InPlace'
  BY <1>2, <1>5, <1>8 DEF PairInv, InPlace
<1> QED
  BY <1>4, <1>6, <1>7, <1>9

LEMMA CreatesPair ==
  ASSUME AtMostTwo, PairInv, NEW p \in Process, Creates(p)
  PROVE  Owned' /\ Recorded' /\ StillStale' /\ InPlace'
<1>1. /\ pc[p] = "create" /\ mine[p] \in Token /\ owner[mine[p]] = p /\ pc[p] \in Busy
      /\ UNCHANGED <<written, owner, orphans, runs, mine, judged, aside>>
  BY DEF Creates, runVars, PairInv, Typed, Tokened, Owned, Busy, Labels
<1>2. PICK l \in {"write", "look"} : pc' = [pc EXCEPT ![p] = l]
  BY DEF Creates, Goes
<1>3. Owned' /\ StillStale'
  BY <1>1, <1>2 DEF PairInv, Typed, TypeOK, Owned, OneRun, StillStale, Busy, Labels
<1>4. \A q \in Process, u \in Token : HasAside(q, u)' <=> HasAside(q, u)
  BY <1>1, <1>2 DEF HasAside, PairInv, Typed, TypeOK
<1>5. CASE file = None
  <2>1. file' = mine[p] /\ pc' = [pc EXCEPT ![p] = "write"]
    BY <1>5 DEF Creates, Goes
  <2>2. \A q \in Process, u \in Token : ~Uses(q, u)
    BY <1>1, <1>5, NoneUsed DEF Labels
  <2>3. \A q \in Process, u \in Token : Uses(q, u)' => u = mine[p]
    BY <1>1, <2>1, <2>2 DEF Uses, Relies, PairInv, Typed, TypeOK
  <2>4. InPlace'
    BY <1>1, <2>1, <2>3 DEF InPlace
  <2>5. Recorded'
    BY <1>1, <1>4, <2>1 DEF PairInv, Typed, TypeOK, Recorded
  <2> QED
    BY <1>3, <2>4, <2>5
<1>6. CASE file # None
  <2>1. file' = file /\ pc' = [pc EXCEPT ![p] = "look"]
    BY <1>6 DEF Creates, Goes
  <2>2. \A q \in Process, u \in Token : Uses(q, u)' => Uses(q, u)
    BY <1>1, <2>1 DEF Uses, Relies, PairInv, Typed, TypeOK
  <2>3. InPlace'
    BY <1>4, <2>1, <2>2 DEF PairInv, InPlace
  <2>4. Recorded'
    BY <1>1, <1>4, <2>1 DEF PairInv, Typed, TypeOK, Recorded
  <2> QED
    BY <1>3, <2>3, <2>4
<1> QED
  BY <1>5, <1>6

LEMMA WritesPair ==
  ASSUME AtMostTwo, PairInv, NEW p \in Process, Writes(p)
  PROVE  Owned' /\ Recorded' /\ StillStale' /\ InPlace'
<1> DEFINE t == mine[p]
<1>1. /\ pc[p] = "write" /\ pc[p] \in Busy
      /\ pc' = [pc EXCEPT ![p] = "idle"] /\ mine' = [mine EXCEPT ![p] = None]
      /\ judged' = [judged EXCEPT ![p] = None] /\ aside' = [aside EXCEPT ![p] = None]
      /\ written' = written \cup {t} /\ runs' = runs \cup {t}
      /\ UNCHANGED <<file, owner, orphans>>
  BY DEF Writes, Ends, Goes, Busy, Labels
<1>2. t \in Token /\ owner[t] = p /\ t \notin orphans
  BY <1>1 DEF PairInv, Typed, Tokened, Owned
<1>3. Uses(p, t)
  BY <1>1 DEF Uses, Relies
<1>4. runs = {}
  <2> SUFFICES ASSUME NEW u \in runs
               PROVE  FALSE
    OBVIOUS
  <2>1. u \in Token /\ owner[u] \in Process /\ pc[owner[u]] = "idle"
    BY DEF PairInv, Typed, TypeOK, Owned
  <2>2. Uses(owner[u], u)
    BY DEF Uses
  <2> QED
    BY <1>1, <1>2, <1>3, <2>1, <2>2, OneUser
<1>5. Owned'
  BY <1>1, <1>2, <1>4 DEF PairInv, Typed, TypeOK, Owned, OneRun, Busy
<1>6. \A q \in Process, u \in Token : HasAside(q, u)' <=> HasAside(q, u)
  BY <1>1 DEF HasAside, PairInv, Typed, TypeOK
<1>7. Recorded'
  BY <1>1, <1>2, <1>6 DEF PairInv, Typed, TypeOK, Recorded
<1>8. StillStale'
  BY <1>1 DEF PairInv, Typed, TypeOK, StillStale
<1>9. \A q \in Process, u \in Token : Uses(q, u)' => Uses(q, u)
  BY <1>1, <1>2, <1>3 DEF Uses, Relies, PairInv, Typed, TypeOK
<1>10. InPlace'
  BY <1>1, <1>6, <1>9 DEF PairInv, InPlace
<1> QED
  BY <1>5, <1>7, <1>8, <1>10

\* A call that gives up, or tries again, leaves everything as it was found, and forgets a
\* lock it has aside: nobody may be using that one.
LEMMA GivesUpPair ==
  ASSUME PairInv, NEW p \in Process, Retries(p) \/ Ends(p), pc[p] \in Busy \ {"write"},
         \A q \in Process, u \in Token : Uses(q, u) => ~HasAside(p, u),
         UNCHANGED <<file, written, owner, orphans, runs>>
  PROVE  Owned' /\ Recorded' /\ StillStale' /\ InPlace'
<1>1. PICK l \in {"idle", "create"} :
        /\ pc' = [pc EXCEPT ![p] = l]
        /\ judged' = [judged EXCEPT ![p] = None] /\ aside' = [aside EXCEPT ![p] = None]
        /\ mine' = mine \/ (l = "idle" /\ mine' = [mine EXCEPT ![p] = None])
  BY DEF Retries, Ends, Goes
<1>2. Owned'
  BY <1>1 DEF PairInv, Typed, TypeOK, Owned, OneRun, Busy, Labels
<1>3. StillStale'
  BY <1>1 DEF PairInv, Typed, TypeOK, StillStale
<1>4. \A q \in Process, u \in Token : HasAside(q, u)' <=> HasAside(q, u) /\ q # p
  BY <1>1 DEF HasAside, PairInv, Typed, TypeOK
<1>5. \A q \in Process, u \in Token : Uses(q, u)' => Uses(q, u)
  BY <1>1 DEF Uses, Relies, PairInv, Typed, TypeOK
<1>6. Recorded'
  BY <1>1, <1>4 DEF PairInv, Typed, TypeOK, Recorded
<1>7. InPlace'
  BY <1>4, <1>5 DEF PairInv, InPlace
<1> QED
  BY <1>2, <1>3, <1>6, <1>7

LEMMA InspectsPair ==
  ASSUME PairInv, NEW p \in Process, inspectLock(p)
  PROVE  Owned' /\ Recorded' /\ StillStale' /\ InPlace'
<1>1. /\ pc[p] = "look" /\ pc[p] \in Busy
      /\ UNCHANGED <<file, written, owner, orphans, runs>>
  BY DEF inspectLock, fileVars, runVars, Busy, Labels
<1>2. CASE file # None /\ Stale(p, file) /\ Goes(p, "rename")
           /\ judged' = [judged EXCEPT ![p] = Content(file)] /\ UNCHANGED <<mine, aside>>
  <2>1. pc' = [pc EXCEPT ![p] = "rename"]
    BY <1>2 DEF Goes
  <2>2. file \in Token /\ file \in written
    BY <1>1, <1>2 DEF PairInv, Typed, TypeOK, Owned, Recorded, Stale, Busy, Labels
  <2>3. judged' = [judged EXCEPT ![p] = file]
    BY <1>2, <2>2 DEF Content
  <2>4. file \in orphans \/ owner[file] = p
    BY <1>2 DEF Stale
  <2>5. StillStale'
    BY <1>1, <2>1, <2>2, <2>3, <2>4 DEF PairInv, Typed, TypeOK, StillStale
  <2>6. Owned'
    BY <1>1, <1>2, <2>1 DEF PairInv, Typed, TypeOK, Owned, OneRun, Busy, Labels
  <2>7. \A q \in Process, u \in Token : HasAside(q, u)' <=> HasAside(q, u)
    BY <1>1, <1>2, <2>1 DEF HasAside, PairInv, Typed, TypeOK
  <2>8. \A q \in Process, u \in Token : Uses(q, u)' => Uses(q, u)
    BY <1>1, <1>2, <2>1 DEF Uses, Relies, PairInv, Typed, TypeOK
  <2>9. Recorded' /\ InPlace'
    BY <1>1, <1>2, <2>1, <2>7, <2>8 DEF PairInv, Typed, TypeOK, Recorded, InPlace
  <2> QED
    BY <2>5, <2>6, <2>9
<1>3. CASE Retries(p) \/ Ends(p)
  BY <1>1, <1>3, GivesUpPair DEF HasAside
<1> QED
  BY <1>2, <1>3 DEF inspectLock

LEMMA RenamesPair ==
  ASSUME AtMostTwo, PairInv, NEW p \in Process, Renames(p)
  PROVE  Owned' /\ Recorded' /\ StillStale' /\ InPlace'
<1>1. /\ pc[p] = "rename" /\ pc[p] \in Busy
      /\ UNCHANGED <<written, owner, orphans, runs>>
  BY DEF Renames, runVars, Busy, Labels
<1>2. CASE file = None
  BY <1>1, <1>2, GivesUpPair DEF Renames, HasAside
<1>3. CASE file # None
  <2>1. /\ aside' = [aside EXCEPT ![p] = file] /\ file' = None
        /\ pc' = [pc EXCEPT ![p] = "reread"] /\ UNCHANGED <<mine, judged>>
    BY <1>3 DEF Renames, Goes
  <2>2. Owned' /\ StillStale'
    BY <1>1, <2>1 DEF PairInv, Typed, TypeOK, Owned, OneRun, StillStale, Busy, Labels
  <2>3. \A q \in Process, u \in Token : HasAside(q, u)' <=> HasAside(q, u) \/ (q = p /\ u = file)
    BY <1>1, <2>1 DEF HasAside, PairInv, Typed, TypeOK
  <2>4. \A q \in Process, u \in Token : Uses(q, u)' => Uses(q, u)
    BY <1>1, <2>1 DEF Uses, Relies, PairInv, Typed, TypeOK
  <2>5. Recorded'
    <3> SUFFICES ASSUME NEW u \in Token, file' = u \/ (\E q \in Process : HasAside(q, u)')
                 PROVE  /\ owner[u] \in Process
                        /\ u \in written \/ (pc'[owner[u]] = "write" /\ mine[owner[u]] = u)
      BY <1>1, <2>1 DEF Recorded
    <3>1. file = u \/ (\E q \in Process : HasAside(q, u))
      BY <2>1, <2>3
    <3>2. /\ owner[u] \in Process
          /\ u \in written \/ (pc[owner[u]] = "write" /\ mine[owner[u]] = u)
      BY <3>1 DEF PairInv, Recorded
    <3> QED
      BY <1>1, <2>1, <3>2 DEF PairInv, Typed, TypeOK
  <2>6. InPlace'
    <3> SUFFICES ASSUME NEW q \in Process, NEW u \in Token, Uses(q, u)'
                 PROVE  \E r \in Process : HasAside(r, u)'
      BY <2>1 DEF InPlace
    <3>1. file = u
      BY <1>3, <2>4 DEF PairInv, InPlace
    <3> QED
      BY <2>3, <3>1
  <2> QED
    BY <2>2, <2>5, <2>6
<1> QED
  BY <1>2, <1>3

LEMMA RereadsPair ==
  ASSUME PairInv, NEW p \in Process, Rereads(p)
  PROVE  Owned' /\ Recorded' /\ StillStale' /\ InPlace'
<1>1. /\ pc[p] = "reread" /\ pc[p] \in Busy
      /\ UNCHANGED <<file, written, owner, orphans, runs>>
  BY DEF Rereads, fileVars, runVars, Busy, Labels
<1>2. CASE Content(aside[p]) = judged[p]
  <2>1. Retries(p)
    BY <1>2 DEF Rereads
  <2>2. \A q \in Process, u \in Token : Uses(q, u) => ~HasAside(p, u)
    BY <1>2, NotJudged
  <2> QED
    BY <1>1, <2>1, <2>2, GivesUpPair
<1>3. CASE Content(aside[p]) # judged[p]
  <2>1. pc' = [pc EXCEPT ![p] = "putback"] /\ UNCHANGED <<mine, judged, aside>>
    BY <1>3 DEF Rereads, Goes
  <2>2. Owned' /\ StillStale'
    BY <1>1, <2>1 DEF PairInv, Typed, TypeOK, Owned, OneRun, StillStale, Busy, Labels
  <2>3. \A q \in Process, u \in Token : HasAside(q, u)' <=> HasAside(q, u)
    BY <1>1, <2>1 DEF HasAside, PairInv, Typed, TypeOK
  <2>4. \A q \in Process, u \in Token : Uses(q, u)' => Uses(q, u)
    BY <1>1, <2>1 DEF Uses, Relies, PairInv, Typed, TypeOK
  <2>5. Recorded' /\ InPlace'
    BY <1>1, <2>1, <2>3, <2>4 DEF PairInv, Typed, TypeOK, Recorded, InPlace
  <2> QED
    BY <2>2, <2>5
<1> QED
  BY <1>2, <1>3

LEMMA PutsBackPair ==
  ASSUME AtMostTwo, PairInv, NEW p \in Process, PutsBack(p)
  PROVE  Owned' /\ Recorded' /\ StillStale' /\ InPlace'
<1>1. /\ pc[p] = "putback" /\ pc[p] \in Busy
      /\ UNCHANGED <<written, owner, orphans, runs>>
      /\ file' = IF file = None THEN aside[p] ELSE file
      /\ pc' = [pc EXCEPT ![p] = "idle"] /\ mine' = [mine EXCEPT ![p] = None]
      /\ judged' = [judged EXCEPT ![p] = None] /\ aside' = [aside EXCEPT ![p] = None]
  BY DEF PutsBack, Ends, Goes, runVars, Busy, Labels
<1>2. Owned' /\ StillStale'
  BY <1>1 DEF PairInv, Typed, TypeOK, Owned, OneRun, StillStale, Busy, Labels
<1>3. \A q \in Process, u \in Token : HasAside(q, u)' <=> HasAside(q, u) /\ q # p
  BY <1>1 DEF HasAside, PairInv, Typed, TypeOK
<1>4. \A q \in Process, u \in Token : Uses(q, u)' => Uses(q, u)
  BY <1>1 DEF Uses, Relies, PairInv, Typed, TypeOK
<1>5. Recorded'
  <2> SUFFICES ASSUME NEW u \in Token, file' = u \/ (\E q \in Process : HasAside(q, u)')
               PROVE  /\ owner[u] \in Process
                      /\ u \in written \/ (pc'[owner[u]] = "write" /\ mine'[owner[u]] = u)
    BY <1>1 DEF Recorded
  <2>1. file = u \/ (\E q \in Process : HasAside(q, u))
    BY <1>1, <1>3 DEF HasAside
  <2>2. /\ owner[u] \in Process
        /\ u \in written \/ (pc[owner[u]] = "write" /\ mine[owner[u]] = u)
    BY <2>1 DEF PairInv, Recorded
  <2> QED
    BY <1>1, <2>2 DEF PairInv, Typed, TypeOK
<1>6. InPlace'
  <2> SUFFICES ASSUME NEW q \in Process, NEW u \in Token, Uses(q, u)'
               PROVE  file' = u
    BY DEF InPlace
  <2>1. Uses(q, u)
    BY <1>4
  <2>2. CASE file = u
    BY <1>1, <2>2 DEF PairInv, Typed, TypeOK
  <2>3. CASE file = None /\ \E r \in Process : HasAside(r, u)
    <3>1. PICK r \in Process : HasAside(r, u)
      BY <2>3
    <3>2. r = p
      BY <1>1, <2>1, <3>1, UsersOwn DEF AtMostTwo, HasAside
    <3> QED
      BY <1>1, <2>3, <3>1, <3>2 DEF HasAside
  <2> QED
    BY <2>1, <2>2, <2>3 DEF PairInv, InPlace
<1> QED
  BY <1>2, <1>5, <1>6

LEMMA ReleasesPair ==
  ASSUME PairInv, NEW p \in Process, NEW t \in Token, Releases(p, t)
  PROVE  Owned' /\ Recorded' /\ StillStale' /\ InPlace'
<1>1. /\ pc[p] = "idle" /\ t \in runs /\ owner[t] = p
      /\ runs' = runs \ {t}
      /\ mine' = [mine EXCEPT ![p] = t] /\ pc' = [pc EXCEPT ![p] = "readown"]
      /\ UNCHANGED <<file, written, owner, orphans, judged, aside>>
  BY DEF Releases, Goes, fileVars
<1>2. runs' = {} /\ t \notin orphans
  BY <1>1 DEF PairInv, Owned, OneRun
<1>3. Owned' /\ StillStale'
  BY <1>1, <1>2 DEF PairInv, Typed, TypeOK, Owned, OneRun, StillStale, Busy
<1>4. \A q \in Process, u \in Token : HasAside(q, u)' <=> HasAside(q, u)
  BY <1>1 DEF HasAside, PairInv, Typed, TypeOK
<1>5. \A q \in Process, u \in Token : Uses(q, u)' => Uses(q, u)
  BY <1>1, <1>2 DEF Uses, Relies, PairInv, Typed, TypeOK
<1>6. Recorded' /\ InPlace'
  BY <1>1, <1>4, <1>5 DEF PairInv, Typed, TypeOK, Recorded, InPlace
<1> QED
  BY <1>3, <1>6

LEMMA ReadsOwnPair ==
  ASSUME PairInv, NEW p \in Process, ReadsOwn(p)
  PROVE  Owned' /\ Recorded' /\ StillStale' /\ InPlace'
<1>1. /\ pc[p] = "readown" /\ pc[p] \in Busy
      /\ UNCHANGED <<file, written, owner, orphans, runs>>
  BY DEF ReadsOwn, fileVars, runVars, Busy, Labels
<1>2. CASE file = mine[p]
  <2>1. pc' = [pc EXCEPT ![p] = "unlinkown"] /\ UNCHANGED <<mine, judged, aside>>
    BY <1>2 DEF ReadsOwn, Goes
  <2>2. Owned' /\ StillStale'
    BY <1>1, <2>1 DEF PairInv, Typed, TypeOK, Owned, OneRun, StillStale, Busy, Labels
  <2>3. \A q \in Process, u \in Token : HasAside(q, u)' <=> HasAside(q, u)
    BY <1>1, <2>1 DEF HasAside, PairInv, Typed, TypeOK
  <2>4. \A q \in Process, u \in Token : Uses(q, u)' => Uses(q, u)
    BY <1>1, <2>1 DEF Uses, Relies, PairInv, Typed, TypeOK
  <2>5. Recorded' /\ InPlace'
    BY <1>1, <2>1, <2>3, <2>4 DEF PairInv, Typed, TypeOK, Recorded, InPlace
  <2> QED
    BY <2>2, <2>5
<1>3. CASE file # mine[p]
  BY <1>1, <1>3, GivesUpPair DEF ReadsOwn, HasAside
<1> QED
  BY <1>2, <1>3

\* What a release removes is its own, unless it has gone already.
LEMMA RemovesOwn ==
  ASSUME PairInv, NEW p \in Process, pc[p] = "unlinkown", file # None
  PROVE  file = mine[p]
<1>1. mine[p] \in Token
  BY DEF PairInv, Typed, Tokened, Busy, Labels
<1>2. Uses(p, mine[p])
  BY DEF Uses, Relies
<1> QED
  BY <1>1, <1>2 DEF PairInv, InPlace

LEMMA UnlinksPair ==
  ASSUME AtMostTwo, PairInv, NEW p \in Process, UnlinksOwn(p)
  PROVE  Owned' /\ Recorded' /\ StillStale' /\ InPlace'
<1>1. /\ pc[p] = "unlinkown" /\ pc[p] \in Busy /\ file' = None
      /\ pc' = [pc EXCEPT ![p] = "idle"] /\ mine' = [mine EXCEPT ![p] = None]
      /\ judged' = [judged EXCEPT ![p] = None] /\ aside' = [aside EXCEPT ![p] = None]
      /\ UNCHANGED <<written, owner, orphans, runs>>
  BY DEF UnlinksOwn, Ends, Goes, runVars, Busy, Labels
<1>2. Owned' /\ StillStale'
  BY <1>1 DEF PairInv, Typed, TypeOK, Owned, OneRun, StillStale, Busy, Labels
<1>3. \A q \in Process, u \in Token : HasAside(q, u)' <=> HasAside(q, u)
  BY <1>1 DEF HasAside, PairInv, Typed, TypeOK
<1>4. mine[p] \in Token /\ Uses(p, mine[p])
  BY <1>1 DEF PairInv, Typed, Tokened, Uses, Relies
<1>5. \A q \in Process, u \in Token : ~Uses(q, u)'
  <2> SUFFICES ASSUME NEW q \in Process, NEW u \in Token, Uses(q, u)'
               PROVE  FALSE
    OBVIOUS
  <2>1. Uses(q, u)
    BY <1>1 DEF Uses, Relies, PairInv, Typed, TypeOK
  <2>2. q = p
    BY <1>4, <2>1, OneUser
  <2>3. u \in runs /\ owner[u] = p
    BY <1>1, <2>2 DEF Uses, Relies, PairInv, Typed, TypeOK
  <2> QED
    BY <1>1, <2>3 DEF PairInv, Owned
<1>6. InPlace'
  BY <1>5 DEF InPlace
<1>7. Recorded'
  BY <1>1, <1>3 DEF PairInv, Typed, TypeOK, Recorded
<1> QED
  BY <1>2, <1>6, <1>7

LEMMA DiesPair ==
  ASSUME ~DiesMidCall, PairInv, NEW p \in Process, Dies(p)
  PROVE  Owned' /\ Recorded' /\ StillStale' /\ InPlace'
<1>1. /\ pc[p] = "idle"
      /\ orphans' = orphans \cup {t \in Token : owner[t] = p}
      /\ runs' = {t \in runs : owner[t] # p}
      /\ pc' = [pc EXCEPT ![p] = "idle"] /\ mine' = [mine EXCEPT ![p] = None]
      /\ judged' = [judged EXCEPT ![p] = None] /\ aside' = [aside EXCEPT ![p] = None]
      /\ UNCHANGED <<file, written, owner>>
  BY DEF Dies, Ends, Goes, fileVars
<1>2. Owned' /\ StillStale'
  BY <1>1 DEF PairInv, Typed, TypeOK, Owned, OneRun, StillStale, Busy
<1>3. \A q \in Process, u \in Token : HasAside(q, u)' <=> HasAside(q, u)
  BY <1>1 DEF HasAside, PairInv, Typed, TypeOK
<1>4. \A q \in Process, u \in Token : Uses(q, u)' => Uses(q, u)
  BY <1>1 DEF Uses, Relies, PairInv, Typed, TypeOK
<1>5. Recorded' /\ InPlace'
  BY <1>1, <1>3, <1>4 DEF PairInv, Typed, TypeOK, Recorded, InPlace
<1> QED
  BY <1>2, <1>5

LEMMA PairStep ==
  ASSUME AtMostTwo, ~DiesMidCall, ~AsksTwice, PairInv, [Next]_vars
  PROVE  PairInv'
<1>1. Typed'
  BY TypesStep DEF PairInv
<1>2. ASSUME UNCHANGED <<fileVars, owner, orphans, runs, procVars>>
      PROVE  PairInv'
  BY <1>1, <1>2 DEF fileVars, procVars, PairInv, Owned, OneRun, Recorded, StillStale, InPlace,
                    HasAside, Uses, Relies
<1>3. CASE Next
  <2>1. PICK p \in Process : \/ Step(p) \/ Acquires(p) \/ Dies(p) \/ Restarts(p)
                             \/ \E t \in Token : Releases(p, t)
    BY <1>3 DEF Next
  <2>2. Restarts(p) => PairInv'
    BY <1>2 DEF Restarts
  <2> QED
    BY <1>1, <2>1, <2>2, AcquiresPair, CreatesPair, WritesPair, InspectsPair, RenamesPair,
       RereadsPair, PutsBackPair, ReleasesPair, ReadsOwnPair, UnlinksPair, DiesPair
       DEF Step, PairInv
<1>4. CASE UNCHANGED vars
  BY <1>2, <1>4 DEF vars, runVars
<1> QED
  BY <1>3, <1>4

\* Two processes that clear the same abandoned lock do not both go on to hold a fresh one,
\* however often they die between calls and start again (discardStaleLock): whoever moves a
\* lock in use aside finds that it is not what it judged, and puts it back; the other, whose
\* it is, creates none meanwhile.  A third process could.
THEOREM OneOfTwo ==
  ASSUME AtMostTwo, ~DiesMidCall, ~AsksTwice
  PROVE  Spec => []OneRun
<1>1. PairInv => OneRun
  BY DEF PairInv, Owned
<1>2. PairInv /\ [Next]_vars => PairInv'
  BY PairStep
<1> QED
  BY <1>1, <1>2, PairInit, PTL DEF Spec

\* Nor does either remove the other's lock when it releases its own, whatever has been moved
\* aside and put back between its two steps (releaseUpdateLock).
THEOREM OwnOfTwoRemoved ==
  ASSUME AtMostTwo, ~DiesMidCall, ~AsksTwice
  PROVE  Spec => ReleasesItsOwn
<1>1. PairInv /\ [Next]_vars => [\A p \in Process : UnlinksOwn(p) /\ file # None => file = mine[p]]_vars
  BY RemovesOwn DEF UnlinksOwn
<1>2. PairInv /\ [Next]_vars => PairInv'
  BY PairStep
<1> QED
  BY <1>1, <1>2, PairInit, PTL DEF Spec, ReleasesItsOwn
=============================================================================
