----------------------------- MODULE DaemonProofs -----------------------------
(***************************************************************************)
(* Proofs about the daemon: Daemon, for any number of calls of start and   *)
(* of kill, and Carrying, for any number of terminals, any room in their   *)
(* sockets and any number of times the run draws.                          *)
(***************************************************************************)
EXTENDS Daemon, Carrying, TLAPS, WellFoundedInduction, SequenceTheorems

USE DEF Hosting, Opening, Shutting, ChildStates, CarrierStates, CallerStates, KillerStates

-----------------------------------------------------------------------------
(* The inductive invariant.  OneHolder is not inductive alone: the fork    *)
(* must find a child that has never been, and what the kernel closes with  *)
(* a process must have been open in one that was there.                    *)

\* A call forks once: before it has, its child has never been.
ForksOnce ==
    \A p \in Procs :
        caller[p] \in {"idle", "connecting", "looked"} => child[p] = "unborn"

\* A socket is open from listen until the process stops listening, gives up or goes.
ListensWhileUp ==
    \A p \in listens : /\ child[p] \in {"listening", "noted", "running", "failing", "over"}
                       /\ carrier[p] \in {"off", "on"}

\* A run is carried once there is one.
CarriesOnceUp ==
    \A p \in Procs :
        child[p] \in {"unborn", "forked", "failing"} \cup Opening => carrier[p] = "off"

\* A number that is written down, or that a killer goes by, is of a process that has been.
NumbersHaveBeen ==
    /\ note # None => child[note] # "unborn"
    /\ \A k \in Killers :
          killer[k] # "idle" => seen[k] # None /\ child[seen[k]] # "unborn"

IInv == TypeOK /\ ForksOnce /\ OneHolder /\ ListensWhileUp /\ CarriesOnceUp /\ NumbersHaveBeen

LEMMA InitIInv == Init => IInv
BY NobodyAssumption
   DEF Init, IInv, TypeOK, ForksOnce, OneHolder, ListensWhileUp, CarriesOnceUp, NumbersHaveBeen

\* What every step of a child that stays on its way comes to, given how the step moves it.
LEMMA ChildIInv == ASSUME IInv, NEW p \in Procs, Child(p) PROVE IInv'
<1> USE NobodyAssumption DEF IInv, TypeOK, ForksOnce, OneHolder, ListensWhileUp, CarriesOnceUp, NumbersHaveBeen
<1>1. CASE Holds(p) BY <1>1 DEF Holds, Steps
<1>2. CASE Refused(p) BY <1>2 DEF Refused, Complains
<1>3. CASE ClearsStale(p) BY <1>3 DEF ClearsStale, Steps
<1>4. CASE Binds(p) BY <1>4 DEF Binds, Steps
<1>5. CASE Listens(p) BY <1>5 DEF Listens, Steps
<1>6. CASE Notes(p) BY <1>6 DEF Notes, Steps
<1>7. CASE Tells(p) BY <1>7 DEF Tells
<1>8. CASE FailsToHold(p)
  <2>1. CASE Complains(p, {"forked"}, "leaving") BY <1>8, <2>1 DEF FailsToHold, Complains
  <2>2. CASE Complains(p, Opening, "failing")
    <3>1. TypeOK' BY <1>8, <2>2 DEF FailsToHold, Complains
    <3>2. OneHolder' BY <2>2 DEF Complains
    <3>3. ListensWhileUp' BY <1>8, <2>2 DEF FailsToHold, Complains
    <3>4. QED BY <1>8, <2>2, <3>1, <3>2, <3>3 DEF FailsToHold, Complains
  <2>3. QED BY <1>8, <2>1, <2>2 DEF FailsToHold
<1>9. CASE RunEnds(p) BY <1>9 DEF RunEnds, Steps
<1>10. CASE StopsListening(p) BY <1>10 DEF StopsListening
<1>11. CASE TakesSocket(p) BY <1>11 DEF TakesSocket, Steps
<1>12. CASE TakesNote(p) BY <1>12 DEF TakesNote, Steps
<1>13. CASE LetsGo(p) BY <1>13 DEF LetsGo, Steps
<1>14. CASE Goes(p) BY <1>14 DEF Goes, Gone
<1>15. QED
  BY <1>1, <1>2, <1>3, <1>4, <1>5, <1>6, <1>7, <1>8, <1>9, <1>10, <1>11, <1>12,
     <1>13, <1>14 DEF Child

LEMMA CarrierIInv == ASSUME IInv, NEW p \in Procs, Carrier(p) PROVE IInv'
BY NobodyAssumption
   DEF IInv, TypeOK, ForksOnce, OneHolder, ListensWhileUp, CarriesOnceUp, NumbersHaveBeen,
       Carrier, GivesUp, DropsSocket, DropsNote, Carries

LEMMA CallerIInv == ASSUME IInv, NEW p \in Procs, Caller(p) PROVE IInv'
<1> USE NobodyAssumption DEF IInv, TypeOK, ForksOnce, OneHolder, ListensWhileUp, CarriesOnceUp, NumbersHaveBeen, Calls
<1>1. CASE Looks(p) BY <1>1 DEF Looks, Noted
<1>2. CASE Connects(p) BY <1>2 DEF Connects
<1>3. CASE Forks(p) BY <1>3 DEF Forks
<1>4. CASE Hears(p) BY <1>4 DEF Hears
<1>5. CASE HearsWhy(p) BY <1>5 DEF HearsWhy
<1>6. CASE TimesOut(p) BY <1>6 DEF TimesOut
<1>7. CASE LooksAgain(p) BY <1>7 DEF LooksAgain, Noted
<1>8. CASE ConnectsAgain(p) BY <1>8 DEF ConnectsAgain
<1>9. QED
  BY <1>1, <1>2, <1>3, <1>4, <1>5, <1>6, <1>7, <1>8 DEF Caller

LEMMA KillerIInv ==
    ASSUME IInv, NEW k \in Killers, Killer(k) PROVE IInv'
<1> USE NobodyAssumption
    DEF IInv, TypeOK, ForksOnce, OneHolder, ListensWhileUp, CarriesOnceUp, NumbersHaveBeen, Kills
<1>1. CASE Finds(k) BY <1>1 DEF Finds, Noted
<1>2. CASE Reaches(k) BY <1>2 DEF Reaches
<1>3. CASE Terms(k) BY <1>3 DEF Terms, Signals, Gone
<1>4. CASE KillsOutright(k) BY <1>4 DEF KillsOutright, Signals, Gone
<1>5. CASE LeavesBe(k) BY <1>5 DEF LeavesBe
<1>6. CASE SweepsSocket(k) BY <1>6 DEF SweepsSocket
<1>7. CASE SweepsNote(k) BY <1>7 DEF SweepsNote
<1>8. QED
  BY <1>1, <1>2, <1>3, <1>4, <1>5, <1>6, <1>7 DEF Killer

LEMMA StepIInv == IInv /\ [Next]_vars => IInv'
<1> SUFFICES ASSUME IInv, [Next]_vars PROVE IInv'
  OBVIOUS
<1>1. ASSUME NEW p \in Procs, Dies(p) PROVE IInv'
  BY <1>1, NobodyAssumption
     DEF IInv, TypeOK, ForksOnce, OneHolder, ListensWhileUp, CarriesOnceUp, NumbersHaveBeen, Dies, Gone
<1>2. ASSUME NEW p \in Procs, NumberComesRound(p) PROVE IInv'
  BY <1>2
     DEF IInv, TypeOK, ForksOnce, OneHolder, ListensWhileUp, CarriesOnceUp, NumbersHaveBeen,
         NumberComesRound
<1>3. CASE UNCHANGED vars
  BY <1>3
     DEF vars, IInv, TypeOK, ForksOnce, OneHolder, ListensWhileUp, CarriesOnceUp, NumbersHaveBeen
<1>4. QED
  BY <1>1, <1>2, <1>3, ChildIInv, CarrierIInv, CallerIInv, KillerIInv DEF Next

\* What the rest rests on.
LEMMA Inductive == Spec => []IInv
BY InitIInv, StepIInv, PTL DEF Spec

-----------------------------------------------------------------------------
(* What follows of it.                                                     *)

\* The state of every process and file stays one the code can write down.
THEOREM TypeCorrect == Spec => []TypeOK
BY Inductive, PTL DEF IInv

\* One daemon per workspace, for any number of them starting at once and any of them
\* killed anywhere: past where.holds there is one process, and no lock outlives it.
THEOREM MutualExclusion == Spec => []OneHolder
BY Inductive, PTL DEF IInv

\* What a terminal reaches through the socket is the run that holds the lock.
THEOREM HolderListens == Spec => []OnlyTheHolderListens
<1>1. IInv => OnlyTheHolderListens
  BY DEF IInv, TypeOK, OneHolder, ListensWhileUp, CarriesOnceUp, OnlyTheHolderListens
<1>2. QED
  BY <1>1, Inductive, PTL

-----------------------------------------------------------------------------
(* Until somebody tidies up, a run that is going on is one to be found.    *)

\* What the two files are while the child that holds the lock puts them there, and until its
\* run is over or can no longer be carried.
FilesAreIts ==
    \A p \in Procs : carrier[p] \in {"off", "on"} =>
        /\ child[p] \in {"bound", "listening", "noted", "running"} => sock = p
        /\ child[p] \in {"listening", "noted", "running"} => p \in listens
        /\ child[p] \in {"noted", "running"} => note = p

LEMMA ChildFiles ==
    ASSUME IInv, FilesAreIts, NEW p \in Procs, Child(p) PROVE FilesAreIts'
<1> USE NobodyAssumption DEF IInv, TypeOK, OneHolder, FilesAreIts
<1>1. CASE Holds(p) BY <1>1 DEF Holds, Steps
<1>2. CASE Refused(p) BY <1>2 DEF Refused, Complains
<1>3. CASE ClearsStale(p) BY <1>3 DEF ClearsStale, Steps
<1>4. CASE Binds(p) BY <1>4 DEF Binds, Steps
<1>5. CASE Listens(p) BY <1>5 DEF Listens, Steps
<1>6. CASE Notes(p) BY <1>6 DEF Notes, Steps
<1>7. CASE Tells(p) BY <1>7 DEF Tells, CarriesOnceUp
<1>8. CASE FailsToHold(p) BY <1>8 DEF FailsToHold, Complains
<1>9. CASE RunEnds(p) BY <1>9 DEF RunEnds, Steps
<1>10. CASE StopsListening(p) BY <1>10 DEF StopsListening
<1>11. CASE TakesSocket(p) BY <1>11 DEF TakesSocket, Steps
<1>12. CASE TakesNote(p) BY <1>12 DEF TakesNote, Steps
<1>13. CASE LetsGo(p) BY <1>13 DEF LetsGo, Steps
<1>14. CASE Goes(p) BY <1>14 DEF Goes, Gone
<1>15. QED
  BY <1>1, <1>2, <1>3, <1>4, <1>5, <1>6, <1>7, <1>8, <1>9, <1>10, <1>11, <1>12,
     <1>13, <1>14 DEF Child

\* A carrying thread that has not outlived its lock takes away no files but its own.
LEMMA CarrierFiles ==
    ASSUME IInv, FilesAreIts, NEW p \in Procs, Carrier(p), NobodyTidied' PROVE FilesAreIts'
<1> USE DEF IInv, TypeOK, FilesAreIts, Carries
<1>1. CASE GivesUp(p) BY <1>1 DEF GivesUp
<1>2. CASE DropsSocket(p) \/ DropsNote(p)
  <2>1. lock = p
    BY <1>2 DEF NobodyTidied, DropsSocket, DropsNote
  <2>2. \A q \in Procs \ {p} : child[q] \notin Hosting
    BY <2>1 DEF OneHolder
  <2>3. carrier[p] \notin {"off", "on"} /\ carrier'[p] \notin {"off", "on"}
    BY <1>2 DEF DropsSocket, DropsNote
  <2>4. UNCHANGED child /\ \A q \in Procs \ {p} : carrier'[q] = carrier[q]
    BY <1>2 DEF DropsSocket, DropsNote
  <2> QED BY <2>2, <2>3, <2>4
<1> QED BY <1>1, <1>2 DEF Carrier

LEMMA CallerFiles ==
    ASSUME IInv, FilesAreIts, NEW p \in Procs, Caller(p) PROVE FilesAreIts'
<1> USE DEF IInv, TypeOK, ForksOnce, FilesAreIts, Calls
<1>1. CASE Forks(p) BY <1>1 DEF Forks
<1>2. CASE ~Forks(p)
  <2>1. UNCHANGED <<child, carrier, sock, note, listens>>
    BY <1>2 DEF Caller, Looks, Connects, Hears, HearsWhy, TimesOut, LooksAgain,
       ConnectsAgain
  <2>2. QED BY <2>1
<1>3. QED BY <1>1, <1>2

\* A killer that has not come to tidying up has touched neither file.
LEMMA KillerFiles ==
    ASSUME IInv, FilesAreIts, NEW k \in Killers, Killer(k), NobodyTidied' PROVE FilesAreIts'
<1> USE DEF IInv, TypeOK, Kills
<1>1. ~(SweepsSocket(k) \/ SweepsNote(k))
  BY DEF SweepsSocket, SweepsNote, NobodyTidied
<1>2. CASE Terms(k) \/ KillsOutright(k)
  BY <1>2 DEF FilesAreIts, Terms, KillsOutright, Signals, Gone
<1>3. CASE Finds(k) \/ Reaches(k) \/ LeavesBe(k)
  BY <1>3 DEF FilesAreIts, Finds, Reaches, LeavesBe
<1>4. QED BY <1>1, <1>2, <1>3 DEF Killer

\* Who has tidied without the lock has done so for good.
LEMMA TidyingStays ==
    ASSUME IInv, [Next]_vars, NobodyTidied' PROVE NobodyTidied
<1> USE DEF IInv, TypeOK, NobodyTidied
<1>1. ASSUME NEW k \in Killers, Killer(k), NEW j \in Killers, killer[j] \in {"sweeping", "swept"}
      PROVE  killer'[j] \in {"sweeping", "swept"}
  BY <1>1 DEF Killer, Kills, Finds, Reaches, Terms, KillsOutright, Signals, LeavesBe,
     SweepsSocket, SweepsNote
<1>2. ASSUME NEW p \in Procs, Child(p) \/ Carrier(p) \/ Caller(p) \/ Dies(p) \/ NumberComesRound(p)
      PROVE  UNCHANGED killer
  BY <1>2
  DEF Child, Carrier, Caller, Steps, Calls, Carries, Complains, Holds, Refused, ClearsStale,
      Binds, Listens, Notes, Tells, FailsToHold, RunEnds, StopsListening, TakesSocket,
      TakesNote, LetsGo, Goes, GivesUp, DropsSocket, DropsNote, Looks, Connects, Forks,
      Hears, HearsWhy, TimesOut, LooksAgain, ConnectsAgain, Dies, NumberComesRound
<1>3. ASSUME NEW p \in Procs, carrier[p] \in {"straying", "strayed"}
      PROVE  carrier'[p] \in {"straying", "strayed"}
  <2>1. \/ UNCHANGED carrier
        \/ \E q \in Procs : Gone(q)
        \/ \E q \in Procs : Carrier(q) \/ Tells(q) \/ StopsListening(q)
    BY DEF Next, vars, Child, Caller, Killer, Steps, Calls, Complains, Kills, Holds, Refused,
       ClearsStale, Binds, Listens, Notes, FailsToHold, RunEnds, TakesSocket, TakesNote,
       LetsGo, Goes, Looks, Connects, Forks, Hears, HearsWhy, TimesOut, LooksAgain,
       ConnectsAgain, Dies, NumberComesRound, Finds, Reaches, Terms, KillsOutright, Signals,
       LeavesBe, SweepsSocket, SweepsNote, NumbersHaveBeen
  <2>2. CASE UNCHANGED carrier BY <1>3, <2>2
  <2>3. ASSUME NEW q \in Procs, Gone(q) PROVE carrier'[p] \in {"straying", "strayed"}
    BY <1>3, <2>3 DEF Gone
  <2>4. ASSUME NEW q \in Procs, Carrier(q) PROVE carrier'[p] \in {"straying", "strayed"}
    BY <1>3, <2>4 DEF Carrier, Carries, GivesUp, DropsSocket, DropsNote
  <2>5. ASSUME NEW q \in Procs, Tells(q) PROVE carrier'[p] \in {"straying", "strayed"}
    BY <1>3, <2>5 DEF Tells, CarriesOnceUp
  <2>6. ASSUME NEW q \in Procs, StopsListening(q) PROVE carrier'[p] \in {"straying", "strayed"}
    BY <1>3, <2>6 DEF StopsListening
  <2> QED
    BY <2>1, <2>2, <2>3, <2>4, <2>5, <2>6
<1> QED
  BY <1>1, <1>2, <1>3 DEF Next, vars

\* A run that is going on is one a terminal can find and a person can stop, until somebody's
\* Daemon.kill comes to tidying up, which is not done under the lock.
THEOREM Findable == Spec => []HeldIsFindable
<1>1. Init => FilesAreIts
  BY DEF Init, FilesAreIts
<1>2. IInv /\ (NobodyTidied => FilesAreIts) /\ [Next]_vars => (NobodyTidied => FilesAreIts)'
  <2> SUFFICES ASSUME IInv, NobodyTidied => FilesAreIts, [Next]_vars, NobodyTidied'
               PROVE  FilesAreIts'
    OBVIOUS
  <2>1. NobodyTidied
    BY TidyingStays
  <2>2. ASSUME NEW p \in Procs, Child(p) \/ Caller(p) PROVE FilesAreIts'
    BY <2>1, <2>2, ChildFiles, CallerFiles
  <2>3. ASSUME NEW p \in Procs, Carrier(p) PROVE FilesAreIts'
    BY <2>1, <2>3, CarrierFiles
  <2>4. ASSUME NEW p \in Procs, Dies(p) PROVE FilesAreIts'
    BY <2>1, <2>4 DEF IInv, TypeOK, OneHolder, FilesAreIts, Dies, Gone
  <2>5. ASSUME NEW p \in Procs, NumberComesRound(p) PROVE FilesAreIts'
    BY <2>1, <2>5 DEF FilesAreIts, NumberComesRound
  <2>6. ASSUME NEW k \in Killers, Killer(k) PROVE FilesAreIts'
    BY <2>1, <2>6, KillerFiles
  <2>7. CASE UNCHANGED vars
    BY <2>1, <2>7 DEF FilesAreIts, vars
  <2> QED
    BY <2>2, <2>3, <2>4, <2>5, <2>6, <2>7 DEF Next
<1>3. (NobodyTidied => FilesAreIts) => HeldIsFindable
  BY DEF FilesAreIts, HeldIsFindable
<1>4. QED
  BY <1>1, <1>2, <1>3, Inductive, PTL DEF Spec

\* What a daemon coming up clears as stale, and what one going takes away, is never a socket
\* that something listens on: the lock is held across both.
THEOREM StaleIsStale == Spec => NeverTakesALiveSocket
<1>1. ASSUME IInv, [Next]_vars, sock' # sock, sock \in Procs, NobodyTidied'
      PROVE  sock \notin listens'
  <2>1. PICK p \in Procs : \/ ClearsStale(p) \/ Binds(p) \/ TakesSocket(p) \/ DropsSocket(p)
    BY <1>1
    DEF Next, vars, Child, Carrier, Caller, Killer, Steps, Calls, Carries, Complains, Kills,
        Holds, Refused, Listens, Notes, Tells, FailsToHold, RunEnds, StopsListening, TakesNote,
        LetsGo, Goes, GivesUp, DropsNote, Looks, Connects, Forks, Hears, HearsWhy, TimesOut,
        LooksAgain, ConnectsAgain, Dies, NumberComesRound, Finds, Reaches, Terms,
        KillsOutright, Signals, LeavesBe, SweepsSocket, SweepsNote, NobodyTidied, IInv, TypeOK
  <2>2. lock = p
    BY <1>1, <2>1
    DEF IInv, TypeOK, OneHolder, Steps, ClearsStale, Binds, TakesSocket, DropsSocket, Carries,
        NobodyTidied
  <2>3. listens \subseteq {p}
    BY <1>1, <2>2 DEF IInv, TypeOK, OneHolder, ListensWhileUp
  <2>4. p \notin listens
    BY <1>1, <2>1, NobodyAssumption
    DEF IInv, ListensWhileUp, Steps, Carries, ClearsStale, Binds, DropsSocket, TakesSocket
  <2>5. listens' = listens
    BY <2>1 DEF ClearsStale, Binds, DropsSocket, TakesSocket
  <2> QED
    BY <2>3, <2>4, <2>5
<1>2. IInv /\ [Next]_vars =>
        [sock' # sock /\ sock \in Procs /\ NobodyTidied' => sock \notin listens']_vars
  BY <1>1
<1>3. QED
  BY <1>2, Inductive, PTL DEF Spec, NeverTakesALiveSocket

-----------------------------------------------------------------------------
(* The daemon implements the workspace it promises.                        *)

\* Every step of the daemon lets a process into a workspace nobody is in, or one out of it, or
\* turns one away, or is none of the workspace's business.
Inside == {p \in Procs : child[p] \in Hosting}
Been == {p \in Procs : child[p] \notin {"unborn", "forked"}}

\* What a process that goes comes to, from wherever it was.
LEMMA GoneLeaves ==
    ASSUME IInv, NEW p \in Procs, child[p] # "unborn", Gone(p)
    PROVE  [Abstract!Next]_(Abstract!vars)
<1> USE DEF IInv, TypeOK, OneHolder, Gone, Abstract!vars, Abstract!Next
<1>1. CASE child[p] = "forked"
  BY <1>1 DEF Abstract!Passes
<1>2. CASE child[p] \in Hosting
  BY <1>2 DEF Abstract!Leaves
<1>3. CASE child[p] \in {"leaving", "dead"}
  BY <1>3
<1> QED
  BY <1>1, <1>2, <1>3

THEOREM Implements == Spec => AbstractSpec
<1> USE DEF IInv, TypeOK
<1>1. Init => Abstract!Init
  BY DEF Init, Abstract!Init
<1>2. ASSUME IInv, NEW p \in Procs, Holds(p) PROVE Abstract!Next
  <2>1. Inside = {} /\ p \notin Been
    BY <1>2, NobodyAssumption DEF Holds, Steps, OneHolder, Inside, Been
  <2>2. Inside' = {p} /\ Been' = Been \cup {p}
    BY <1>2, <2>1 DEF Holds, Steps, Inside, Been
  <2>3. lock = None /\ lock' # None
    BY <1>2, NobodyAssumption DEF Holds
  <2> QED
    BY <2>1, <2>2, <2>3 DEF Inside, Been, Abstract!Next, Abstract!Enters
<1>3. ASSUME UNCHANGED lock,
             \A p \in Procs : child[p] \in Hosting <=> child'[p] \in Hosting,
             \A p \in Procs : child[p] \in {"unborn", "forked"} <=> child'[p] \in {"unborn", "forked"}
      PROVE UNCHANGED Abstract!vars
  <2>1. Inside' = Inside
    <3>1. ASSUME NEW x PROVE x \in Inside' <=> x \in Inside
      BY <1>3 DEF Inside
    <3> QED
      BY <3>1, Zenon
  <2>2. Been' = Been
    <3>1. ASSUME NEW x PROVE x \in Been' <=> x \in Been
      BY <1>3 DEF Been
    <3> QED
      BY <3>1, Zenon
  <2> QED
    BY <1>3, <2>1, <2>2 DEF Abstract!vars, Inside, Been
<1>4. ASSUME IInv, NEW p \in Procs, Child(p) PROVE [Abstract!Next]_(Abstract!vars)
  <2>1. CASE Holds(p) BY <2>1, <1>2, <1>4
  <2>2. CASE Refused(p) \/ (FailsToHold(p) /\ child[p] = "forked")
    BY <2>2, <1>4 DEF Refused, FailsToHold, Complains, Abstract!Next, Abstract!Passes
  <2>3. CASE LetsGo(p)
    <3>1. lock = p
      BY <2>3, <1>4 DEF LetsGo, Steps, OneHolder
    <3> QED
      BY <2>3, <3>1, <1>4, NobodyAssumption DEF LetsGo, Steps, Abstract!Next, Abstract!Leaves
  <2>4. CASE Goes(p)
    BY <2>4, <1>4, GoneLeaves DEF Goes
  <2>5. CASE \/ ClearsStale(p) \/ Binds(p) \/ Listens(p) \/ Notes(p) \/ Tells(p) \/ RunEnds(p)
             \/ StopsListening(p) \/ TakesSocket(p) \/ TakesNote(p)
             \/ (FailsToHold(p) /\ child[p] # "forked")
    <3>1. /\ UNCHANGED lock
          /\ \A q \in Procs : child[q] \in Hosting <=> child'[q] \in Hosting
          /\ \A q \in Procs : child[q] \in {"unborn", "forked"} <=> child'[q] \in {"unborn", "forked"}
      BY <2>5, <1>4
         DEF Steps, Complains, ClearsStale, Binds, Listens, Notes, Tells, RunEnds,
             StopsListening, TakesSocket, TakesNote, FailsToHold
    <3>2. QED BY <3>1, <1>3, <1>4
  <2>6. QED BY <2>1, <2>2, <2>3, <2>4, <2>5, <1>4 DEF Child
<1>5. ASSUME IInv, NEW p \in Procs, Carrier(p) \/ Caller(p) \/ NumberComesRound(p)
      PROVE UNCHANGED Abstract!vars
  <2>1. /\ UNCHANGED lock
        /\ \A q \in Procs : child[q] \in Hosting <=> child'[q] \in Hosting
        /\ \A q \in Procs : child[q] \in {"unborn", "forked"} <=> child'[q] \in {"unborn", "forked"}
    BY <1>5
       DEF ForksOnce, Calls, Caller, Looks, Connects, Forks, Hears, HearsWhy, TimesOut,
           LooksAgain, ConnectsAgain, Carrier, Carries, GivesUp, DropsSocket, DropsNote,
           NumberComesRound
  <2> QED BY <2>1, <1>3, <1>5
<1>6. ASSUME IInv, NEW k \in Killers, Killer(k) PROVE [Abstract!Next]_(Abstract!vars)
  <2>1. CASE Terms(k) \/ KillsOutright(k)
    <3>1. seen[k] \in Procs /\ child[seen[k]] # "unborn"
      BY <2>1, <1>6 DEF NumbersHaveBeen, Terms, KillsOutright, Signals, Kills
    <3>2. CASE Gone(seen[k])
      BY <3>1, <3>2, <1>6, GoneLeaves
    <3>3. CASE UNCHANGED <<child, lock>>
      BY <3>3, <1>3, <1>6
    <3>4. QED
      BY <2>1, <3>2, <3>3 DEF Terms, KillsOutright, Signals
  <2>2. CASE ~(Terms(k) \/ KillsOutright(k))
    <3>1. UNCHANGED <<child, lock>>
      BY <2>2, <1>6 DEF Killer, Finds, Reaches, LeavesBe, SweepsSocket, SweepsNote
    <3>2. QED BY <3>1, <1>3, <1>6
  <2>3. QED BY <2>1, <2>2
<1>7. IInv /\ [Next]_vars => [Abstract!Next]_(Abstract!vars)
  <2> SUFFICES ASSUME IInv, [Next]_vars PROVE [Abstract!Next]_(Abstract!vars)
    OBVIOUS
  <2>1. ASSUME NEW p \in Procs, Dies(p) PROVE [Abstract!Next]_(Abstract!vars)
    BY <2>1, GoneLeaves DEF Dies
  <2>2. CASE UNCHANGED vars
    BY <2>2, <1>3 DEF vars
  <2>3. QED
    BY <2>1, <2>2, <1>4, <1>5, <1>6 DEF Next
<1>8. QED
  BY <1>1, <1>7, Inductive, PTL DEF Spec, AbstractSpec, Abstract!Spec

-----------------------------------------------------------------------------
(* Carrying.  First, what sequences come to: a least number, a number after *)
(* every other, and a sequence of sequences made into one.                  *)

Below == {ss \in Nat \X Nat : ss[1] < ss[2]}

LEMMA BelowWellFounded == IsWellFoundedOn(Below, Nat)
<1>1. Below = OpToRel(<, Nat)
  BY Zenon DEF Below, OpToRel
<1> QED
  BY <1>1, NatLessThanWellFounded, Zenon

\* The least of some numbers.
LEMMA LeastOf ==
    ASSUME NEW S \in SUBSET Nat, S # {}
    PROVE  \E m \in S : \A k \in S : m <= k
<1>1. PICK m \in S : \A k \in S : <<k, m>> \notin Below
  BY BelowWellFounded, WFMin
<1>2. \A k \in S : ~(k < m)
  BY <1>1 DEF Below
<1> QED
  BY <1>2

LEMMA AllNat ==
    ASSUME NEW Q, 0 \in Q, \A n \in Nat : n \in Q => n + 1 \in Q
    PROVE  \A n \in Nat : n \in Q
<1> SUFFICES ASSUME NEW n \in Nat, n \notin Q PROVE FALSE
  OBVIOUS
<1>1. PICK m \in {k \in Nat : k \notin Q} : \A k \in {j \in Nat : j \notin Q} : m <= k
  BY LeastOf, {k \in Nat : k \notin Q} \in SUBSET Nat, n \in {k \in Nat : k \notin Q}
<1>2. m # 0 /\ m \in Nat /\ m \notin Q
  BY <1>1
<1>3. m - 1 \in Nat /\ m - 1 + 1 = m
  BY <1>2
<1>4. m - 1 \in Q
  BY <1>1, <1>2, <1>3
<1> QED
  BY <1>2, <1>3, <1>4

-----------------------------------------------------------------------------
(* What is drawn of pieces put one after another.                          *)

\* What FlattenSeq comes to at each place.
Flat(f, seqs, n) == f[1] = seqs[1] /\ \A i \in 2 .. n : f[i] = f[i - 1] \o seqs[i]

LEMMA FlatNext ==
    ASSUME NEW f, NEW seqs, NEW n \in Nat \ {0}, Flat(f, seqs, n + 1)
    PROVE  f[n + 1] = f[n] \o seqs[n + 1]
<1> DEFINE j == n + 1
<1>1. j \in 2 .. j /\ j - 1 = n /\ Flat(f, seqs, j)
  OBVIOUS
<1> HIDE DEF j
<1>2. f[j] = f[j - 1] \o seqs[j]
  BY <1>1 DEF Flat
<1>3. f[j] = f[n] \o seqs[j]
  BY <1>1, <1>2
<1> QED
  BY <1>3 DEF j

LEMMA FlatFar ==
    ASSUME NEW S, NEW seqs \in Seq(Seq(S)), NEW n \in Nat, n + 1 <= Len(seqs)
    PROVE  \E f \in [1 .. n + 1 -> Seq(S)] : Flat(f, seqs, n + 1)
<1> DEFINE Far == {k \in Nat : k + 1 <= Len(seqs) =>
                       \E f \in [1 .. k + 1 -> Seq(S)] : Flat(f, seqs, k + 1)}
<1>1. \A i \in 1 .. Len(seqs) : seqs[i] \in Seq(S)
  BY ElementOfSeq
<1>2. 0 \in Far
  <2> SUFFICES ASSUME 1 <= Len(seqs) PROVE \E f \in [1 .. 0 + 1 -> Seq(S)] : Flat(f, seqs, 0 + 1)
    OBVIOUS
  <2> DEFINE f == [i \in 1 .. 0 + 1 |-> seqs[1]]
  <2>1. seqs[1] \in Seq(S)
    BY <1>1
  <2>2. f \in [1 .. 0 + 1 -> Seq(S)] /\ Flat(f, seqs, 0 + 1)
    BY <2>1 DEF Flat
  <2> QED
    BY <2>2
<1>3. ASSUME NEW k \in Nat, k \in Far PROVE k + 1 \in Far
  <2> SUFFICES ASSUME k + 1 + 1 <= Len(seqs)
               PROVE  \E g \in [1 .. k + 1 + 1 -> Seq(S)] : Flat(g, seqs, k + 1 + 1)
    BY <1>3
  <2>1. PICK f \in [1 .. k + 1 -> Seq(S)] : Flat(f, seqs, k + 1)
    BY <1>3
  <2> DEFINE g == [i \in 1 .. k + 1 + 1 |-> IF i = k + 1 + 1 THEN f[k + 1] \o seqs[i] ELSE f[i]]
  <2>2. f[k + 1] \in Seq(S) /\ seqs[k + 1 + 1] \in Seq(S)
    BY <1>1
  <2>3. f[k + 1] \o seqs[k + 1 + 1] \in Seq(S)
    BY <2>2, ConcatProperties
  <2>4. g \in [1 .. k + 1 + 1 -> Seq(S)]
    BY <2>3
  <2>5. g[1] = seqs[1]
    BY <2>1 DEF Flat
  <2>6. ASSUME NEW i \in 2 .. k + 1 + 1 PROVE g[i] = g[i - 1] \o seqs[i]
    <3> HIDE DEF g
    <3>g. \A j \in 1 .. k + 1 + 1 : g[j] = IF j = k + 1 + 1 THEN f[k + 1] \o seqs[j] ELSE f[j]
      BY DEF g
    <3>i. i \in 1 .. k + 1 + 1 /\ i - 1 \in 1 .. k + 1 + 1 /\ i - 1 # k + 1 + 1
      OBVIOUS
    <3>1. CASE i = k + 1 + 1
      <4>1. i - 1 = k + 1
        BY <3>1
      <4> QED
        BY <3>1, <3>g, <3>i, <4>1
    <3>2. CASE i # k + 1 + 1
      <4>1. i \in 2 .. k + 1
        BY <3>2
      <4>2. f[i] = f[i - 1] \o seqs[i]
        BY <2>1, <4>1 DEF Flat
      <4> QED
        BY <3>2, <3>g, <3>i, <4>2
    <3> QED
      BY <3>1, <3>2
  <2> HIDE DEF g
  <2> QED
    BY <2>4, <2>5, <2>6 DEF Flat
<1> HIDE DEF Far
<1>4. \A k \in Nat : k \in Far
  BY <1>2, <1>3, AllNat
<1> QED
  BY <1>4 DEF Far

LEMMA Flattened ==
    ASSUME NEW S, NEW seqs \in Seq(Seq(S)), seqs # <<>>
    PROVE  \E f \in [1 .. Len(seqs) -> Seq(S)] :
               Flat(f, seqs, Len(seqs)) /\ FlattenSeq(seqs) = f[Len(seqs)]
<1>1. Len(seqs) \in Nat /\ Len(seqs) # 0
  BY EmptySeq
<1> DEFINE n == Len(seqs)
           spec(f) == f = [i \in 1 .. n |-> IF i = 1 THEN seqs[i] ELSE f[i - 1] \o seqs[i]]
           flatten == CHOOSE f : spec(f)
<1>2. FlattenSeq(seqs) = flatten[n]
  BY <1>1 DEF FlattenSeq
<1>3. PICK g \in [1 .. n -> Seq(S)] : Flat(g, seqs, n)
  <2>1. n - 1 \in Nat /\ n - 1 + 1 = n
    BY <1>1
  <2> HIDE DEF n
  <2> QED
    <3>1. \E f \in [1 .. Len(seqs) - 1 + 1 -> Seq(S)] : Flat(f, seqs, Len(seqs) - 1 + 1)
      <4> DEFINE m == Len(seqs) - 1
      <4>1. m \in Nat /\ m + 1 <= Len(seqs)
        BY <2>1 DEF n
      <4> HIDE DEF m
      <4>2. \E f \in [1 .. m + 1 -> Seq(S)] : Flat(f, seqs, m + 1)
        BY <4>1, FlatFar
      <4> QED
        BY <4>2 DEF m
    <3> QED
      BY <2>1, <3>1 DEF n
<1>4. spec(g)
  <2> DEFINE other == [i \in 1 .. n |-> IF i = 1 THEN seqs[i] ELSE g[i - 1] \o seqs[i]]
  <2>1. ASSUME NEW i \in 1 .. n PROVE g[i] = other[i]
    <3>1. CASE i = 1
      BY <1>3, <3>1 DEF Flat
    <3>2. CASE i # 1
      <4>1. i \in 2 .. n
        BY <1>1, <3>2
      <4>2. g[i] = g[i - 1] \o seqs[i]
        BY <1>3, <4>1 DEF Flat
      <4> QED
        BY <3>2, <4>2
    <3> QED
      BY <3>1, <3>2
  <2>2. DOMAIN g = 1 .. n /\ g = [i \in 1 .. n |-> g[i]]
    OBVIOUS
  <2> QED
    BY <2>1, <2>2
<1>5. spec(flatten)
  BY <1>4
<1> HIDE DEF flatten
<1>6. \A i \in 1 .. n : flatten[i] = IF i = 1 THEN seqs[i] ELSE flatten[i - 1] \o seqs[i]
  BY <1>5
<1>7. \A i \in 1 .. n : flatten[i] = g[i]
  <2> DEFINE Same == {i \in Nat : i + 1 <= n => flatten[i + 1] = g[i + 1]}
  <2>1. 0 \in Same
    BY <1>1, <1>3, <1>6 DEF Flat
  <2>2. ASSUME NEW k \in Nat, k \in Same PROVE k + 1 \in Same
    <3> SUFFICES ASSUME k + 1 + 1 <= n PROVE flatten[k + 1 + 1] = g[k + 1 + 1]
      OBVIOUS
    <3>1. k + 1 + 1 \in 2 .. n /\ k + 1 + 1 \in 1 .. n /\ k + 1 + 1 - 1 = k + 1
          /\ flatten[k + 1] = g[k + 1] /\ k + 1 + 1 # 1
      BY <1>1, <2>2
    <3> DEFINE j == k + 1 + 1
    <3>2. j \in 2 .. n /\ j \in 1 .. n /\ j - 1 = k + 1 /\ j # 1
      BY <3>1
    <3> HIDE DEF j
    <3>3. g[j] = g[j - 1] \o seqs[j]
      BY <1>3, <3>2 DEF Flat
    <3>4. flatten[j] = flatten[j - 1] \o seqs[j]
      BY <1>6, <3>2
    <3>5. flatten[j] = g[j]
      BY <3>1, <3>2, <3>3, <3>4
    <3> QED
      BY <3>5 DEF j
  <2> HIDE DEF Same
  <2>3. \A k \in Nat : k \in Same
    BY <2>1, <2>2, AllNat
  <2> SUFFICES ASSUME NEW i \in 1 .. n PROVE flatten[i] = g[i]
    OBVIOUS
  <2>4. i - 1 \in Nat /\ i - 1 + 1 = i /\ i <= n
    BY <1>1
  <2>5. i - 1 \in Same
    BY <2>3, <2>4
  <2> QED
    BY <2>4, <2>5 DEF Same
<1>8. n \in 1 .. n
  BY <1>1
<1> QED
  BY <1>2, <1>3, <1>7, <1>8

LEMMA FlattenedType ==
    ASSUME NEW S, NEW seqs \in Seq(Seq(S)) PROVE FlattenSeq(seqs) \in Seq(S)
<1>1. CASE seqs = <<>>
  <2>1. FlattenSeq(seqs) = <<>>
    BY <1>1, EmptySeq DEF FlattenSeq
  <2> QED
    BY <2>1, EmptySeq
<1>2. CASE seqs # <<>>
  <2>1. Len(seqs) \in Nat /\ Len(seqs) # 0
    BY <1>2, EmptySeq
  <2>2. PICK f \in [1 .. Len(seqs) -> Seq(S)] : FlattenSeq(seqs) = f[Len(seqs)]
    BY <1>2, Flattened
  <2>3. Len(seqs) \in 1 .. Len(seqs)
    BY <2>1
  <2> HIDE DEF FlattenSeq
  <2>4. f[Len(seqs)] \in Seq(S)
    BY <2>3
  <2> QED
    BY <2>2, <2>4, Zenon
<1> QED
  BY <1>1, <1>2

LEMMA FlattenOneMore ==
    ASSUME NEW S, NEW seqs \in Seq(Seq(S)), NEW x \in Seq(S)
    PROVE  FlattenSeq(Append(seqs, x)) = FlattenSeq(seqs) \o x
<1> DEFINE n == Len(seqs)
           more == Append(seqs, x)
<1>1. /\ more \in Seq(Seq(S)) /\ more # <<>> /\ Len(more) = n + 1 /\ n \in Nat
      /\ \A i \in 1 .. n : more[i] = seqs[i]
      /\ more[n + 1] = x
  BY AppendProperties, LenProperties
<1> HIDE DEF more
<1>2. PICK g \in [1 .. Len(more) -> Seq(S)] : Flat(g, more, n + 1) /\ FlattenSeq(more) = g[n + 1]
  BY <1>1, Flattened
<1>3. CASE seqs = <<>>
  <2>1. n = 0 /\ FlattenSeq(seqs) = <<>>
    BY <1>3, EmptySeq DEF FlattenSeq
  <2>2. FlattenSeq(more) = x
    BY <1>1, <1>2, <2>1 DEF Flat
  <2>3. <<>> \o x = x
    BY ConcatEmptySeq
  <2> QED
    BY <2>1, <2>2, <2>3 DEF more
<1>4. CASE seqs # <<>>
  <2>1. n # 0
    BY <1>4, EmptySeq
  <2>2. PICK f \in [1 .. n -> Seq(S)] : Flat(f, seqs, n) /\ FlattenSeq(seqs) = f[n]
    BY <1>4, Flattened
  <2> DEFINE Same == {k \in Nat : k + 1 <= n => f[k + 1] = g[k + 1]}
  <2>3. 0 \in Same
    BY <1>1, <1>2, <2>2 DEF Flat
  <2>4. ASSUME NEW k \in Nat, k \in Same PROVE k + 1 \in Same
    <3> SUFFICES ASSUME k + 1 + 1 <= n PROVE f[k + 1 + 1] = g[k + 1 + 1]
      OBVIOUS
    <3> DEFINE j == k + 1 + 1
    <3>1. /\ j \in 2 .. n /\ j \in 2 .. n + 1 /\ j \in 1 .. n /\ j - 1 = k + 1
          /\ f[k + 1] = g[k + 1]
      BY <1>1, <2>4
    <3> HIDE DEF j
    <3>2. f[j] = f[j - 1] \o seqs[j]
      <4>1. \A i \in 2 .. n : f[i] = f[i - 1] \o seqs[i]
        BY <2>2 DEF Flat
      <4> QED
        BY <3>1, <4>1, Zenon
    <3>3. g[j] = g[j - 1] \o more[j]
      <4>1. \A i \in 2 .. n + 1 : g[i] = g[i - 1] \o more[i]
        BY <1>2 DEF Flat
      <4> QED
        BY <3>1, <4>1, Zenon
    <3>4. f[j] = g[j]
      BY <1>1, <3>1, <3>2, <3>3
    <3> QED
      BY <3>4 DEF j
  <2> HIDE DEF Same
  <2>5. \A k \in Nat : k \in Same
    BY <2>3, <2>4, AllNat
  <2>6. n - 1 \in Nat /\ n - 1 + 1 = n
    BY <1>1, <2>1
  <2>7. f[n] = g[n]
    <3>1. n - 1 \in Same
      BY <2>5, <2>6
    <3> QED
      BY <2>6, <3>1 DEF Same
  <2>8. g[n + 1] = g[n] \o more[n + 1]
    <3> DEFINE k == n
    <3>1. k \in Nat \ {0} /\ Flat(g, more, k + 1)
      BY <1>1, <1>2, <2>1
    <3> HIDE DEF k
    <3>2. g[k + 1] = g[k] \o more[k + 1]
      BY <3>1, FlatNext
    <3> QED
      BY <3>2 DEF k
  <2> QED
    BY <1>1, <1>2, <2>2, <2>7, <2>8 DEF more
<1> QED
  BY <1>3, <1>4

-----------------------------------------------------------------------------
(* Frames, in pieces.                                                      *)

Frames == {f \in [kind : {"output", "gone", "answer"}, of : Seq(Nat)] :
              f.kind = "output" => f.of # <<>>}
Piece == [frame : Frames, half : {1, 2}]

\* What each piece has drawn once it has arrived.
Ink(p) == IF p.half = 2 THEN p.frame.of ELSE <<>>

LEMMA InkType == ASSUME NEW p \in Piece PROVE Ink(p) \in Seq(Nat)
<1>1. p.frame.of \in Seq(Nat)
  BY DEF Piece, Frames
<1> QED
  BY <1>1, EmptySeq DEF Ink

LEMMA DrawnOf ==
    ASSUME NEW q \in Seq(Piece)
    PROVE  /\ [i \in 1 .. Len(q) |-> Ink(q[i])] \in Seq(Seq(Nat))
           /\ Len([i \in 1 .. Len(q) |-> Ink(q[i])]) = Len(q)
           /\ Drawn(q) = FlattenSeq([i \in 1 .. Len(q) |-> Ink(q[i])])
           /\ Drawn(q) \in Seq(Nat)
<1> DEFINE all == [i \in 1 .. Len(q) |-> Ink(q[i])]
<1>1. Len(q) \in Nat /\ DOMAIN q = 1 .. Len(q) /\ \A i \in 1 .. Len(q) : q[i] \in Piece
  BY LenProperties, ElementOfSeq
<1>2. all \in [1 .. Len(q) -> Seq(Nat)]
  BY <1>1, InkType
<1>3. all \in Seq(Seq(Nat)) /\ Len(all) = Len(q)
  BY <1>1, <1>2
<1>4. Drawn(q) = FlattenSeq(all)
  BY <1>1 DEF Drawn, Ink
<1> HIDE DEF all
<1>5. FlattenSeq(all) \in Seq(Nat)
  BY <1>3, FlattenedType
<1> QED
  BY <1>3, <1>4, <1>5 DEF all

LEMMA DrawnNone == Drawn(<<>>) = <<>>
<1>1. <<>> \in Seq(Piece) /\ Len(<<>>) = 0
  BY EmptySeq
<1> DEFINE all == [i \in 1 .. Len(<<>>) |-> Ink(<<>>[i])]
<1>2. Len(all) = 0 /\ all \in Seq(Seq(Nat)) /\ Drawn(<<>>) = FlattenSeq(all)
  BY <1>1, DrawnOf
<1> HIDE DEF all
<1>3. all = <<>>
  BY <1>2, EmptySeq
<1> QED
  BY <1>2, <1>3 DEF FlattenSeq

LEMMA DrawnOneMore ==
    ASSUME NEW q \in Seq(Piece), NEW p \in Piece
    PROVE  Drawn(Append(q, p)) = Drawn(q) \o Ink(p)
<1> DEFINE more == Append(q, p)
           of == [i \in 1 .. Len(q) |-> Ink(q[i])]
           all == [i \in 1 .. Len(more) |-> Ink(more[i])]
<1>1. /\ more \in Seq(Piece) /\ Len(more) = Len(q) + 1 /\ Len(q) \in Nat
      /\ \A i \in 1 .. Len(q) : more[i] = q[i]
      /\ more[Len(q) + 1] = p
  BY AppendProperties, LenProperties
<1> HIDE DEF more
<1>2. of \in Seq(Seq(Nat)) /\ Len(of) = Len(q) /\ Drawn(q) = FlattenSeq(of)
  BY DrawnOf
<1>3. all \in Seq(Seq(Nat)) /\ Len(all) = Len(more) /\ Drawn(more) = FlattenSeq(all)
  BY <1>1, DrawnOf
<1>4. \A i \in 1 .. Len(q) : of[i] = Ink(q[i])
  OBVIOUS
<1>5. \A i \in 1 .. Len(more) : all[i] = Ink(more[i])
  OBVIOUS
<1> HIDE DEF of, all
<1>6. Ink(p) \in Seq(Nat)
  BY InkType
<1>7. /\ Append(of, Ink(p)) \in Seq(Seq(Nat)) /\ Len(Append(of, Ink(p))) = Len(of) + 1
      /\ \A i \in 1 .. Len(of) : Append(of, Ink(p))[i] = of[i]
      /\ Append(of, Ink(p))[Len(of) + 1] = Ink(p)
  BY <1>2, <1>6, AppendProperties
<1>8. Len(all) = Len(Append(of, Ink(p)))
  BY <1>1, <1>2, <1>3, <1>7
<1>9. ASSUME NEW i \in 1 .. Len(all) PROVE all[i] = Append(of, Ink(p))[i]
  <2>1. CASE i = Len(q) + 1
    BY <1>1, <1>2, <1>3, <1>5, <1>7, <2>1
  <2>2. CASE i # Len(q) + 1
    <3>1. i \in 1 .. Len(q) /\ i \in 1 .. Len(more)
      BY <1>1, <1>3, <2>2
    <3> QED
      BY <1>1, <1>2, <1>4, <1>5, <1>7, <3>1
  <2> QED
    BY <2>1, <2>2
<1>10. all = Append(of, Ink(p))
  BY <1>3, <1>7, <1>8, <1>9, SeqEqual
<1>11. FlattenSeq(Append(of, Ink(p))) = FlattenSeq(of) \o Ink(p)
  BY <1>2, <1>6, FlattenOneMore
<1> QED
  BY <1>2, <1>3, <1>10, <1>11 DEF more

LEMMA NumbersJoin == \A a, b, c \in Seq(Nat) : (a \o b) \o c = a \o (b \o c)
<1> SUFFICES ASSUME NEW S, NEW a \in Seq(S), NEW b \in Seq(S), NEW c \in Seq(S)
             PROVE  (a \o b) \o c = a \o (b \o c)
  OBVIOUS
<1> QED
  BY ConcatAssociative

LEMMA PiecesJoin == \A a, b, c \in Seq(Piece) : (a \o b) \o c = a \o (b \o c)
<1> SUFFICES ASSUME NEW S, NEW a \in Seq(S), NEW b \in Seq(S), NEW c \in Seq(S)
             PROVE  (a \o b) \o c = a \o (b \o c)
  OBVIOUS
<1> QED
  BY ConcatAssociative

LEMMA DrawnBoth ==
    ASSUME NEW q \in Seq(Piece), NEW r \in Seq(Piece)
    PROVE  Drawn(q \o r) = Drawn(q) \o Drawn(r)
<1> DEFINE Good == {n \in Nat : \A z \in Seq(Piece) : Len(z) = n => Drawn(q \o z) = Drawn(q) \o Drawn(z)}
<1>q. Drawn(q) \in Seq(Nat)
  BY DrawnOf
<1>1. 0 \in Good
  <2> SUFFICES ASSUME NEW z \in Seq(Piece), Len(z) = 0 PROVE Drawn(q \o z) = Drawn(q) \o Drawn(z)
    OBVIOUS
  <2>1. z = <<>>
    BY EmptySeq
  <2>2. q \o <<>> = q /\ Drawn(q) \o <<>> = Drawn(q)
    BY <1>q, ConcatEmptySeq
  <2> QED
    BY <2>1, <2>2, DrawnNone
<1>2. ASSUME NEW n \in Nat, n \in Good PROVE n + 1 \in Good
  <2> SUFFICES ASSUME NEW z \in Seq(Piece), Len(z) = n + 1 PROVE Drawn(q \o z) = Drawn(q) \o Drawn(z)
    OBVIOUS
  <2>1. z # <<>>
    BY EmptySeq
  <2>2. PICK s \in Seq(Piece), p \in Piece : z = Append(s, p)
    BY <2>1, SequenceEmptyOrAppend
  <2>3. Len(s) = n /\ Len(s) \in Nat
    BY <2>2, AppendProperties, LenProperties
  <2>4. Drawn(q \o s) = Drawn(q) \o Drawn(s)
    BY <1>2, <2>3
  <2>5. q \o z = Append(q \o s, p)
    <3>1. <<p>> \in Seq(Piece) /\ q \o s \in Seq(Piece)
      BY ConcatProperties
    <3>2. z = s \o <<p>> /\ Append(q \o s, p) = (q \o s) \o <<p>>
      BY <2>2, <3>1, AppendIsConcat
    <3>3. (q \o s) \o <<p>> = q \o (s \o <<p>>)
      BY <3>1, ConcatAssociative
    <3> QED
      BY <3>2, <3>3
  <2>6. q \o s \in Seq(Piece)
    BY ConcatProperties
  <2>7. Drawn(q \o z) = Drawn(q \o s) \o Ink(p) /\ Drawn(z) = Drawn(s) \o Ink(p)
    BY <2>2, <2>5, <2>6, DrawnOneMore
  <2>8. Drawn(s) \in Seq(Nat) /\ Ink(p) \in Seq(Nat)
    BY DrawnOf, InkType
  <2>9. (Drawn(q) \o Drawn(s)) \o Ink(p) = Drawn(q) \o (Drawn(s) \o Ink(p))
    BY <1>q, <2>8, NumbersJoin, Zenon
  <2> QED
    BY <2>4, <2>7, <2>9
<1> HIDE DEF Good
<1>3. \A n \in Nat : n \in Good
  BY <1>1, <1>2, AllNat
<1>4. Len(r) \in Nat
  BY LenProperties
<1> QED
  BY <1>3, <1>4 DEF Good

LEMMA Halving == ASSUME NEW l \in Nat PROVE l \div 2 \in Nat /\ 2 * (l \div 2) <= l /\ l <= 2 * (l \div 2) + 1
  OBVIOUS

\* Pieces that are frames, each of them whole.
Pairs(q, n) ==
    \A i \in 1 .. n : /\ q[2 * i - 1] = [frame |-> q[2 * i].frame, half |-> 1]
                      /\ q[2 * i] = [frame |-> q[2 * i].frame, half |-> 2]
Whole(q) == \E n \in Nat : Len(q) = 2 * n /\ Pairs(q, n)

LEMMA WholeNone == Whole(<<>>)
  BY 0 \in Nat, Len(<<>>) = 2 * 0 DEF Whole, Pairs

LEMMA HalvesWhole ==
    ASSUME NEW f \in Frames PROVE Halves(f) \in Seq(Piece) /\ Whole(Halves(f)) /\ Len(Halves(f)) = 2
<1>1. Halves(f) \in Seq(Piece) /\ Len(Halves(f)) = 2
  BY DEF Halves, Piece
<1>2. Halves(f)[1] = [frame |-> f, half |-> 1] /\ Halves(f)[2] = [frame |-> f, half |-> 2]
  BY DEF Halves
<1>3. Pairs(Halves(f), 1)
  <2> HIDE DEF Halves
  <2> SUFFICES ASSUME NEW i \in 1 .. 1
               PROVE  /\ Halves(f)[2 * i - 1] = [frame |-> Halves(f)[2 * i].frame, half |-> 1]
                      /\ Halves(f)[2 * i] = [frame |-> Halves(f)[2 * i].frame, half |-> 2]
    BY DEF Pairs
  <2>1. 2 * i - 1 = 1 /\ 2 * i = 2
    OBVIOUS
  <2> QED
    BY <1>2, <2>1
<1> QED
  BY <1>1, <1>3 DEF Whole

LEMMA WholeBoth ==
    ASSUME NEW q \in Seq(Piece), NEW r \in Seq(Piece), Whole(q), Whole(r)
    PROVE  Whole(q \o r)
<1> DEFINE z == q \o r
<1>1. PICK n \in Nat : Len(q) = 2 * n /\ Pairs(q, n)
  BY DEF Whole
<1>2. PICK m \in Nat : Len(r) = 2 * m /\ Pairs(r, m)
  BY DEF Whole
<1>3. /\ Len(z) = 2 * (n + m)
      /\ \A j \in 1 .. 2 * (n + m) : z[j] = IF j <= 2 * n THEN q[j] ELSE r[j - 2 * n]
  <2>1. /\ Len(z) = Len(q) + Len(r)
        /\ \A j \in 1 .. Len(q) + Len(r) : z[j] = IF j <= Len(q) THEN q[j] ELSE r[j - Len(q)]
    BY ConcatProperties
  <2> HIDE DEF z
  <2>2. Len(q) + Len(r) = 2 * (n + m)
    BY <1>1, <1>2
  <2> QED
    BY <1>1, <2>1, <2>2
<1> HIDE DEF z
<1>4. ASSUME NEW i \in 1 .. n + m
      PROVE  /\ z[2 * i - 1] = [frame |-> z[2 * i].frame, half |-> 1]
             /\ z[2 * i] = [frame |-> z[2 * i].frame, half |-> 2]
  <2>1. 2 * i - 1 \in 1 .. 2 * (n + m) /\ 2 * i \in 1 .. 2 * (n + m)
    OBVIOUS
  <2>2. CASE i <= n
    <3>1. i \in 1 .. n /\ 2 * i - 1 <= 2 * n /\ 2 * i <= 2 * n
      BY <2>2
    <3>2. z[2 * i - 1] = q[2 * i - 1] /\ z[2 * i] = q[2 * i]
      BY <1>3, <2>1, <3>1
    <3> QED
      BY <1>1, <3>1, <3>2 DEF Pairs
  <2>3. CASE ~(i <= n)
    <3> DEFINE k == i - n
    <3>1. /\ k \in 1 .. m /\ ~(2 * i - 1 <= 2 * n) /\ ~(2 * i <= 2 * n)
          /\ 2 * i - 1 - 2 * n = 2 * k - 1 /\ 2 * i - 2 * n = 2 * k
      BY <2>3
    <3> HIDE DEF k
    <3>2. z[2 * i - 1] = r[2 * k - 1] /\ z[2 * i] = r[2 * k]
      BY <1>3, <2>1, <3>1
    <3> QED
      BY <1>2, <3>1, <3>2 DEF Pairs
  <2> QED
    BY <2>2, <2>3
<1>5. n + m \in Nat /\ Pairs(z, n + m)
  BY <1>4 DEF Pairs
<1> QED
  BY <1>3, <1>5 DEF Whole, z

\* What is left of whole frames once some of them are taken off the start.
LEMMA WholeRest ==
    ASSUME NEW q \in Seq(Piece), NEW r \in Seq(Piece), Whole(q \o r),
           NEW n \in Nat, Len(q) = 2 * n
    PROVE  Whole(r)
<1> DEFINE z == q \o r
<1>1. PICK m \in Nat : Len(z) = 2 * m /\ Pairs(z, m)
  BY DEF Whole
<1>2. /\ Len(z) = 2 * n + Len(r) /\ Len(r) \in Nat
      /\ \A j \in 1 .. 2 * n + Len(r) : z[j] = IF j <= 2 * n THEN q[j] ELSE r[j - 2 * n]
  <2>1. /\ Len(z) = Len(q) + Len(r) /\ Len(r) \in Nat
        /\ \A j \in 1 .. Len(q) + Len(r) : z[j] = IF j <= Len(q) THEN q[j] ELSE r[j - Len(q)]
    BY ConcatProperties, LenProperties
  <2> HIDE DEF z
  <2> QED
    BY <2>1
<1> HIDE DEF z
<1> DEFINE k == m - n
<1>3. k \in Nat /\ Len(r) = 2 * k
  BY <1>1, <1>2
<1>4. ASSUME NEW i \in 1 .. k
      PROVE  /\ r[2 * i - 1] = [frame |-> r[2 * i].frame, half |-> 1]
             /\ r[2 * i] = [frame |-> r[2 * i].frame, half |-> 2]
  <2> DEFINE j == i + n
  <2>1. /\ j \in 1 .. m /\ 2 * j \in 1 .. 2 * n + Len(r) /\ 2 * j - 1 \in 1 .. 2 * n + Len(r)
        /\ ~(2 * j <= 2 * n) /\ ~(2 * j - 1 <= 2 * n)
        /\ 2 * j - 2 * n = 2 * i /\ 2 * j - 1 - 2 * n = 2 * i - 1
    BY <1>3
  <2> HIDE DEF j
  <2>2. z[2 * j - 1] = r[2 * i - 1] /\ z[2 * j] = r[2 * i]
    BY <1>2, <2>1
  <2> QED
    BY <1>1, <2>1, <2>2 DEF Pairs
<1> HIDE DEF k
<1>5. Pairs(r, k)
  BY <1>4 DEF Pairs
<1> QED
  BY <1>3, <1>5 DEF Whole

LEMMA WholeStart ==
    ASSUME NEW q \in Seq(Piece), NEW r \in Seq(Piece), Whole(q \o r),
           NEW n \in Nat, Len(q) = 2 * n
    PROVE  Whole(q)
<1> DEFINE z == q \o r
<1>1. PICK m \in Nat : Len(z) = 2 * m /\ Pairs(z, m)
  BY DEF Whole
<1>2. /\ Len(z) = 2 * n + Len(r) /\ Len(r) \in Nat
      /\ \A j \in 1 .. 2 * n + Len(r) : z[j] = IF j <= 2 * n THEN q[j] ELSE r[j - 2 * n]
  <2>1. /\ Len(z) = Len(q) + Len(r) /\ Len(r) \in Nat
        /\ \A j \in 1 .. Len(q) + Len(r) : z[j] = IF j <= Len(q) THEN q[j] ELSE r[j - Len(q)]
    BY ConcatProperties, LenProperties
  <2> HIDE DEF z
  <2> QED
    BY <2>1
<1> HIDE DEF z
<1>3. ASSUME NEW i \in 1 .. n
      PROVE  /\ q[2 * i - 1] = [frame |-> q[2 * i].frame, half |-> 1]
             /\ q[2 * i] = [frame |-> q[2 * i].frame, half |-> 2]
  <2>1. /\ i \in 1 .. m /\ 2 * i \in 1 .. 2 * n + Len(r) /\ 2 * i - 1 \in 1 .. 2 * n + Len(r)
        /\ 2 * i <= 2 * n /\ 2 * i - 1 <= 2 * n
    BY <1>1, <1>2
  <2>2. z[2 * i - 1] = q[2 * i - 1] /\ z[2 * i] = q[2 * i]
    BY <1>2, <2>1
  <2> QED
    BY <1>1, <2>1, <2>2 DEF Pairs
<1> QED
  BY <1>3 DEF Whole, Pairs

\* How many frames Frames.feed finds whole at the start of what it is fed.
Enough(fed, n) ==
    /\ \A i \in 1..n : SubSeq(fed, 2 * i - 1, 2 * i) = Halves(fed[2 * i].frame)
    /\ \/ n = Len(fed) \div 2
       \/ SubSeq(fed, 2 * n + 1, 2 * n + 2) # Halves(fed[2 * n + 2].frame)
Found(fed) == CHOOSE n \in 0..(Len(fed) \div 2) : Enough(fed, n)

LEMMA FoundSome ==
    ASSUME NEW fed \in Seq(Piece)
    PROVE  Found(fed) \in 0 .. (Len(fed) \div 2) /\ Enough(fed, Found(fed))
<1> DEFINE top == Len(fed) \div 2
           Off == {n \in Nat : n <= top /\ (n = top \/
                     SubSeq(fed, 2 * n + 1, 2 * n + 2) # Halves(fed[2 * n + 2].frame))}
<1>1. top \in Nat
  BY LenProperties, Halving
<1> HIDE DEF top
<1>2. top \in Off /\ Off \in SUBSET Nat
  BY <1>1
<1>3. PICK n \in Off : \A k \in Off : n <= k
  BY <1>2, LeastOf
<1>4. ASSUME NEW i \in 1 .. n PROVE SubSeq(fed, 2 * i - 1, 2 * i) = Halves(fed[2 * i].frame)
  <2> DEFINE j == i - 1
  <2>1. j \in Nat /\ j \notin Off /\ j < top /\ 2 * j + 1 = 2 * i - 1 /\ 2 * j + 2 = 2 * i
    <3>1. j \in Nat /\ ~(n <= j) /\ n <= top
      BY <1>3
    <3>2. j \notin Off
      BY <1>3, <3>1
    <3> QED
      BY <1>1, <3>1, <3>2
  <2> HIDE DEF j
  <2>2. SubSeq(fed, 2 * j + 1, 2 * j + 2) = Halves(fed[2 * j + 2].frame)
    BY <1>1, <2>1
  <2> QED
    BY <2>1, <2>2
<1>5. n \in 0 .. top /\ Enough(fed, n)
  <2>1. n \in Nat /\ n <= top
    BY <1>3
  <2>2. n = top \/ SubSeq(fed, 2 * n + 1, 2 * n + 2) # Halves(fed[2 * n + 2].frame)
    BY <1>3
  <2> QED
    BY <1>1, <1>4, <2>1, <2>2 DEF Enough, top
<1>6. \E k \in 0 .. top : Enough(fed, k)
  BY <1>5
<1> QED
  BY <1>6 DEF Found, top

\* What is fed, in two: the frames found, and the rest.
LEMMA FoundParts ==
    ASSUME NEW fed \in Seq(Piece), NEW n \in 0 .. (Len(fed) \div 2)
    PROVE  /\ SubSeq(fed, 1, 2 * n) \in Seq(Piece) /\ Len(SubSeq(fed, 1, 2 * n)) = 2 * n
           /\ SubSeq(fed, 2 * n + 1, Len(fed)) \in Seq(Piece)
           /\ SubSeq(fed, 1, 2 * n) \o SubSeq(fed, 2 * n + 1, Len(fed)) = fed
<1> DEFINE l == Len(fed)
           k == 2 * n
<1>1. l \in Nat /\ k \in 0 .. l /\ n \in Nat
  BY LenProperties, Halving
<1>2. \A i \in 1 .. l : fed[i] \in Piece
  BY ElementOfSeq
<1> HIDE DEF l, k
<1>3. SubSeq(fed, 1, k) \in Seq(Piece) /\ Len(SubSeq(fed, 1, k)) = k
  <2>1. 1 \in Int /\ k \in Int /\ \A i \in 1 .. k : fed[i] \in Piece
    BY <1>1, <1>2
  <2> QED
    BY <1>1, <2>1, SubSeqProperties
<1>4. SubSeq(fed, k + 1, l) \in Seq(Piece)
  <2>1. k + 1 \in Int /\ l \in Int /\ \A i \in k + 1 .. l : fed[i] \in Piece
    BY <1>1, <1>2
  <2> QED
    BY <2>1, SubSeqProperties
<1>5. SubSeq(fed, 1, k) \o SubSeq(fed, k + 1, l) = SubSeq(fed, 1, l)
  <2>1. 1 \in 1 .. Len(fed) + 1 /\ k \in 1 - 1 .. Len(fed) /\ l \in k .. Len(fed)
    BY <1>1 DEF l
  <2> QED
    BY <2>1, ConcatAdjacentSubSeq
<1>6. SubSeq(fed, 1, l) = fed
  BY SubSeqFull DEF l
<1> QED
  BY <1>3, <1>4, <1>5, <1>6 DEF l, k

\* Where what is on its way is whole frames, every one of them that has come whole is found.
LEMMA FoundAll ==
    ASSUME NEW fed \in Seq(Piece), NEW rest \in Seq(Piece), Whole(fed \o rest)
    PROVE  Found(fed) = Len(fed) \div 2
<1> DEFINE z == fed \o rest
           top == Len(fed) \div 2
           n == Found(fed)
<1>1. n \in 0 .. top /\ Enough(fed, n)
  BY FoundSome
<1>2. Len(fed) \in Nat /\ top \in Nat /\ 2 * top <= Len(fed)
  BY LenProperties, Halving
<1>3. PICK m \in Nat : Len(z) = 2 * m /\ Pairs(z, m)
  BY DEF Whole
<1>4. Len(fed) <= 2 * m /\ \A j \in 1 .. Len(fed) : z[j] = fed[j]
  <2>1. /\ Len(z) = Len(fed) + Len(rest) /\ Len(rest) \in Nat
        /\ \A j \in 1 .. Len(fed) + Len(rest) :
              z[j] = IF j <= Len(fed) THEN fed[j] ELSE rest[j - Len(fed)]
    BY ConcatProperties, LenProperties
  <2> HIDE DEF z
  <2> QED
    BY <1>2, <1>3, <2>1
<1> HIDE DEF z, top, n
<1> SUFFICES ASSUME n # top PROVE FALSE
  BY DEF n, top
<1> DEFINE i == n + 1
<1>5. /\ i \in 1 .. m /\ 2 * i \in 1 .. Len(fed) /\ 2 * i - 1 \in 1 .. Len(fed)
      /\ 2 * n + 1 = 2 * i - 1 /\ 2 * n + 2 = 2 * i
  BY <1>1, <1>2, <1>4
<1> HIDE DEF i
<1>6. SubSeq(fed, 2 * i - 1, 2 * i) # Halves(fed[2 * i].frame)
  BY <1>1, <1>5 DEF Enough, top
<1>7. /\ fed[2 * i - 1] = [frame |-> fed[2 * i].frame, half |-> 1]
      /\ fed[2 * i] = [frame |-> fed[2 * i].frame, half |-> 2]
  BY <1>3, <1>4, <1>5 DEF Pairs
<1>8. SubSeq(fed, 2 * i - 1, 2 * i) = <<fed[2 * i - 1], fed[2 * i]>>
  <2> DEFINE a == 2 * i - 1
             b == 2 * i
             two == SubSeq(fed, a, b)
  <2>1. a \in Int /\ b \in Int /\ b - a + 1 = 2 /\ a <= b /\ a + 1 - 1 = a /\ a + 2 - 1 = b
    BY <1>5
  <2>2. \A j \in a .. b : fed[j] \in Piece
    BY <1>2, <1>5, ElementOfSeq
  <2> HIDE DEF a, b
  <2>3. two \in Seq(Piece) /\ Len(two) = 2 /\ \A j \in 1 .. 2 : two[j] = fed[a + j - 1]
    BY <2>1, <2>2, SubSeqProperties
  <2> HIDE DEF two
  <2>4. two[1] = fed[a] /\ two[2] = fed[b]
    BY <2>1, <2>3
  <2>5. two = <<two[1], two[2]>>
    BY <2>3
  <2> QED
    BY <2>4, <2>5 DEF a, b, two
<1> QED
  BY <1>6, <1>7, <1>8 DEF Halves

-----------------------------------------------------------------------------
(* Types.                                                                  *)

CarryingTypeOK ==
    /\ pty \in BOOLEAN /\ redraws \in Nat /\ chunk \in Nat
    /\ app \in {"opening", "running", "letgone", "stopping", "unlistened", "exited"}
    /\ loop \in {"carrying", "ending", "over"} /\ going \in BOOLEAN
    /\ todo \in SUBSET Terminals
    /\ reading \in [Terminals -> {"off", "come", "joined"}] /\ since \in [Terminals -> Nat]
    /\ sending \in [Terminals -> Seq(Piece)] /\ wire \in [Terminals -> Seq(Piece)]
    /\ held \in [Terminals -> Seq(Piece)] /\ got \in [Terminals -> Seq(Nat)]
    /\ letting \in SUBSET [who : Terminals, why : BOOLEAN]
    /\ kept \in Seq(Nat) /\ spilled \in BOOLEAN /\ ever \in BOOLEAN
    /\ listening \in BOOLEAN /\ waiting \in SUBSET Terminals
    /\ closed \in SUBSET Terminals /\ owed \in SUBSET Terminals
    /\ up \in [Terminals -> {<<>>, <<"hello">>, <<"detach">>}]
    /\ at \in [Terminals -> {"away", "reading", "asking", "over", "untold", "broken"}]
    /\ \A t \in Terminals : Len(wire[t]) <= Room

LEMMA InitCarryingTypeOK == CarryingInit => CarryingTypeOK
<1> SUFFICES ASSUME CarryingInit PROVE CarryingTypeOK
  OBVIOUS
<1>1. <<>> \in Seq(Piece) /\ <<>> \in Seq(Nat) /\ Len(<<>>) = 0
  BY EmptySeq
<1>2. /\ wire \in [Terminals -> Seq(Piece)] /\ sending \in [Terminals -> Seq(Piece)]
      /\ held \in [Terminals -> Seq(Piece)] /\ got \in [Terminals -> Seq(Nat)] /\ kept \in Seq(Nat)
  BY <1>1 DEF CarryingInit
<1>3. \A t \in Terminals : Len(wire[t]) <= Room
  <2>1. 0 <= Room
    BY RoomAssumption
  <2> QED
    BY <1>1, <2>1 DEF CarryingInit
<1>4. /\ up \in [Terminals -> {<<>>, <<"hello">>, <<"detach">>}]
      /\ letting \in SUBSET [who : Terminals, why : BOOLEAN]
  BY DEF CarryingInit
<1> QED
  BY <1>2, <1>3, <1>4 DEF CarryingInit, CarryingTypeOK

\* What a socket took of what it was offered, and what is left over, are all of it in order.
Poured(t, pieces, list, w, s) ==
    /\ w \in Seq(Piece) /\ s \in Seq(Piece) /\ w \o s = wire[t] \o pieces /\ Len(w) <= Room
    /\ ~HasGone(t)
    /\ wire' = [wire EXCEPT ![t] = w] /\ sending' = [sending EXCEPT ![t] = s]
    /\ reading' = list /\ letting' = letting
PouredSo(t, pieces, list) == \E w, s : Poured(t, pieces, list, w, s)

LEMMA TakenSo ==
    ASSUME NEW w \in Seq(Piece), NEW pieces \in Seq(Piece), NEW n \in 0 .. Len(pieces)
    PROVE  /\ SubSeq(pieces, 1, n) \in Seq(Piece) /\ SubSeq(pieces, n + 1, Len(pieces)) \in Seq(Piece)
           /\ w \o SubSeq(pieces, 1, n) \in Seq(Piece)
           /\ Len(w \o SubSeq(pieces, 1, n)) = Len(w) + n
           /\ (w \o SubSeq(pieces, 1, n)) \o SubSeq(pieces, n + 1, Len(pieces)) = w \o pieces
<1> DEFINE l == Len(pieces)
<1>1. l \in Nat /\ n \in Nat /\ n <= l
  BY LenProperties
<1>2. \A i \in 1 .. l : pieces[i] \in Piece
  BY ElementOfSeq
<1> HIDE DEF l
<1>3. SubSeq(pieces, 1, n) \in Seq(Piece) /\ Len(SubSeq(pieces, 1, n)) = n
  <2>1. 1 \in Int /\ n \in Int /\ \A i \in 1 .. n : pieces[i] \in Piece
    BY <1>1, <1>2
  <2> QED
    BY <1>1, <2>1, SubSeqProperties
<1>4. SubSeq(pieces, n + 1, l) \in Seq(Piece)
  <2>1. n + 1 \in Int /\ l \in Int /\ \A i \in n + 1 .. l : pieces[i] \in Piece
    BY <1>1, <1>2
  <2> QED
    BY <2>1, SubSeqProperties
<1>5. SubSeq(pieces, 1, n) \o SubSeq(pieces, n + 1, l) = SubSeq(pieces, 1, l)
  <2>1. 1 \in 1 .. Len(pieces) + 1 /\ n \in 1 - 1 .. Len(pieces) /\ l \in n .. Len(pieces)
    BY <1>1 DEF l
  <2> QED
    BY <2>1, ConcatAdjacentSubSeq
<1>6. SubSeq(pieces, 1, l) = pieces
  BY SubSeqFull DEF l
<1> DEFINE a == SubSeq(pieces, 1, n)
           b == SubSeq(pieces, n + 1, l)
<1>7. a \in Seq(Piece) /\ b \in Seq(Piece) /\ a \o b = pieces /\ Len(a) = n
  BY <1>3, <1>4, <1>5, <1>6
<1> HIDE DEF a, b
<1>8. w \o a \in Seq(Piece) /\ Len(w \o a) = Len(w) + Len(a)
  BY <1>7, ConcatProperties
<1>9. (w \o a) \o b = w \o (a \o b)
  BY <1>7, PiecesJoin, Zenon
<1> QED
  BY <1>7, <1>8, <1>9 DEF a, b, l

LEMMA FitsOn ==
    ASSUME CarryingTypeOK, NEW t \in Terminals, NEW pieces \in Seq(Piece)
    PROVE  /\ Fits(t, pieces) \in 0 .. Len(pieces) /\ Len(wire[t]) + Fits(t, pieces) <= Room
           /\ Len(wire[t]) + Len(pieces) <= Room => Fits(t, pieces) = Len(pieces)
<1>1. Len(pieces) \in Nat /\ Len(wire[t]) \in Nat /\ Len(wire[t]) <= Room /\ Room \in Nat
  BY LenProperties, RoomAssumption DEF CarryingTypeOK
<1> DEFINE l == Len(pieces)
           n == Room - Len(wire[t])
<1>2. Fits(t, pieces) = IF l < n THEN l ELSE n
  BY DEF Fits
<1>3. l \in Nat /\ n \in Nat /\ Len(wire[t]) + n = Room
  BY <1>1
<1>4. Len(wire[t]) + l <= Room => l <= n
  BY <1>1
<1>5. Len(wire[t]) \in Nat
  BY <1>1
<1> HIDE DEF n, l
<1> QED
  <2>1. CASE l < n
    BY <1>2, <1>3, <1>4, <1>5, <2>1 DEF l
  <2>2. CASE ~(l < n)
    BY <1>2, <1>3, <1>4, <1>5, <2>2 DEF l
  <2> QED
    BY <2>1, <2>2

LEMMA PoursOn ==
    ASSUME CarryingTypeOK, NEW t \in Terminals, NEW pieces \in Seq(Piece), NEW list,
           Pours(t, pieces, list)
    PROVE  Drops(t, list) \/ PouredSo(t, pieces, list)
<1> SUFFICES ASSUME ~Drops(t, list) PROVE PouredSo(t, pieces, list)
  OBVIOUS
<1> DEFINE n == Fits(t, pieces)
           w == wire[t] \o SubSeq(pieces, 1, n)
           s == SubSeq(pieces, n + 1, Len(pieces))
<1>1. /\ ~HasGone(t) /\ reading' = list /\ letting' = letting
      /\ wire' = [wire EXCEPT ![t] = w] /\ sending' = [sending EXCEPT ![t] = s]
  BY DEF Pours
<1>2. n \in 0 .. Len(pieces) /\ Len(wire[t]) + n <= Room
  BY FitsOn
<1>3. wire[t] \in Seq(Piece)
  BY DEF CarryingTypeOK
<1> HIDE DEF n
<1>4. w \in Seq(Piece) /\ s \in Seq(Piece) /\ w \o s = wire[t] \o pieces /\ Len(w) <= Room
  BY <1>2, <1>3, TakenSo
<1> HIDE DEF w, s
<1> QED
  BY <1>1, <1>4 DEF Poured, PouredSo

LEMMA PutsOn ==
    ASSUME CarryingTypeOK, NEW t \in Terminals, NEW f \in Frames, NEW list, Puts(t, f, list)
    PROVE  \/ list[t] = "off" /\ reading' = list /\ UNCHANGED <<letting, sending, wire>>
           \/ list[t] # "off" /\ Drops(t, list)
           \/ list[t] # "off" /\ PouredSo(t, sending[t] \o Halves(f), list)
<1>1. sending[t] \in Seq(Piece) /\ Halves(f) \in Seq(Piece)
  BY HalvesWhole DEF CarryingTypeOK
<1>2. sending[t] \o Halves(f) \in Seq(Piece)
  BY <1>1, ConcatProperties
<1> DEFINE pieces == sending[t] \o Halves(f)
<1>3. \/ list[t] = "off" /\ reading' = list /\ UNCHANGED <<letting, sending, wire>>
      \/ list[t] # "off" /\ Drops(t, list)
      \/ list[t] # "off" /\ Pours(t, pieces, list)
  BY DEF Puts
<1> HIDE DEF pieces
<1>4. Pours(t, pieces, list) => Drops(t, list) \/ PouredSo(t, pieces, list)
  BY <1>2, PoursOn DEF pieces
<1> QED
  BY <1>3, <1>4 DEF pieces

Listed == {"off", "come", "joined"}

LEMMA PutsTypes ==
    ASSUME CarryingTypeOK, NEW t \in Terminals, NEW list \in [Terminals -> Listed],
           NEW pieces, Drops(t, list) \/ PouredSo(t, pieces, list)
    PROVE  /\ reading' \in [Terminals -> Listed] /\ sending' \in [Terminals -> Seq(Piece)]
           /\ wire' \in [Terminals -> Seq(Piece)] /\ \A o \in Terminals : Len(wire'[o]) <= Room
           /\ letting' \in SUBSET [who : Terminals, why : BOOLEAN]
<1>1. CASE Drops(t, list)
  <2>1. <<>> \in Seq(Piece)
    BY EmptySeq
  <2>2. /\ reading' = [list EXCEPT ![t] = "off"] /\ sending' = [sending EXCEPT ![t] = <<>>]
        /\ letting' = letting \cup {[who |-> t, why |-> FALSE]} /\ wire' = wire
    BY <1>1 DEF Drops
  <2>3. [who |-> t, why |-> FALSE] \in [who : Terminals, why : BOOLEAN]
    OBVIOUS
  <2>4. letting' \in SUBSET [who : Terminals, why : BOOLEAN]
    BY <2>2, <2>3 DEF CarryingTypeOK
  <2> QED
    BY <2>1, <2>2, <2>4 DEF CarryingTypeOK, Listed
<1>2. CASE PouredSo(t, pieces, list)
  <2>1. PICK w, s : Poured(t, pieces, list, w, s)
    BY <1>2, Zenon DEF PouredSo
  <2> QED
    BY <2>1 DEF Poured, CarryingTypeOK
<1> QED
  BY <1>1, <1>2

LEMMA LetsGoTypes ==
    ASSUME CarryingTypeOK, NEW list \in [Terminals -> Listed], LetsGoOf(list)
    PROVE  /\ reading' \in [Terminals -> Listed] /\ sending' \in [Terminals -> Seq(Piece)]
           /\ letting' \in SUBSET [who : Terminals, why : BOOLEAN] /\ owed' \in SUBSET Terminals
<1>1. <<>> \in Seq(Piece)
  BY EmptySeq
<1> QED
  BY <1>1 DEF LetsGoOf, Readers, CarryingTypeOK, Listed

\* Which of Frames.feed's answers the reading of a socket comes to.
LEMMA ReadsOn ==
    ASSUME CarryingTypeOK, NEW t \in Terminals, Reads(t)
    PROVE  \E fed \in Seq(Piece), n \in Nat :
             /\ fed = held[t] \o wire[t] /\ n = Found(fed) /\ n \in 0 .. (Len(fed) \div 2)
             /\ \/ Ended(t, "over")
                \/ /\ \A i \in 1..n : fed[2 * i].frame.kind = "output"
                   /\ held' = [held EXCEPT ![t] = SubSeq(fed, 2 * n + 1, Len(fed))]
                   /\ got' = [got EXCEPT ![t] = @ \o Drawn(SubSeq(fed, 1, 2 * n))]
                   /\ wire' = [wire EXCEPT ![t] = <<>>] /\ UNCHANGED <<at, since>>
             /\ (\E i \in 1..n : fed[2 * i].frame.kind # "output") => Ended(t, "over")
<1> DEFINE fed == held[t] \o wire[t]
           n == Found(fed)
<1>1. fed \in Seq(Piece)
  <2>1. held[t] \in Seq(Piece) /\ wire[t] \in Seq(Piece)
    BY DEF CarryingTypeOK
  <2> QED
    BY <2>1, ConcatProperties
<1>2. n \in 0 .. (Len(fed) \div 2) /\ n \in Nat
  <2> HIDE DEF fed
  <2>1. n \in 0 .. (Len(fed) \div 2)
    BY <1>1, FoundSome
  <2> QED
    BY <2>1
<1>3. \/ (\E i \in 1..n : fed[2 * i].frame.kind # "output") /\ Ended(t, "over")
      \/ /\ \A i \in 1..n : fed[2 * i].frame.kind = "output"
         /\ held' = [held EXCEPT ![t] = SubSeq(fed, 2 * n + 1, Len(fed))]
         /\ got' = [got EXCEPT ![t] = @ \o Drawn(SubSeq(fed, 1, 2 * n))]
         /\ wire' = [wire EXCEPT ![t] = <<>>] /\ UNCHANGED <<at, since>>
  BY DEF Reads, Found, Enough
<1> HIDE DEF n, fed
<1> QED
  BY <1>1, <1>2, <1>3 DEF n, fed

LEMMA EndedTypes ==
    ASSUME CarryingTypeOK, NEW t \in Terminals, NEW how \in {"over", "untold", "broken"}, Ended(t, how)
    PROVE  /\ at' \in [Terminals -> {"away", "reading", "asking", "over", "untold", "broken"}]
           /\ wire' \in [Terminals -> Seq(Piece)] /\ held' \in [Terminals -> Seq(Piece)]
           /\ got' \in [Terminals -> Seq(Nat)] /\ since' \in [Terminals -> Nat]
           /\ \A o \in Terminals : Len(wire'[o]) <= Room
<1>1. <<>> \in Seq(Piece) /\ <<>> \in Seq(Nat) /\ Len(<<>>) <= Room
  BY EmptySeq, RoomAssumption
<1>2. /\ wire' \in [Terminals -> Seq(Piece)] /\ held' \in [Terminals -> Seq(Piece)]
      /\ got' \in [Terminals -> Seq(Nat)] /\ since' \in [Terminals -> Nat]
  BY <1>1 DEF Ended, CarryingTypeOK
<1>3. ASSUME NEW o \in Terminals PROVE Len(wire'[o]) <= Room
  <2>1. CASE o = t
    BY <1>1, <2>1 DEF Ended, CarryingTypeOK
  <2>2. CASE o # t
    BY <2>2 DEF Ended, CarryingTypeOK
  <2> QED
    BY <2>1, <2>2
<1>4. at' \in [Terminals -> {"away", "reading", "asking", "over", "untold", "broken"}]
  BY DEF Ended, CarryingTypeOK
<1> QED
  BY <1>2, <1>3, <1>4

\* What a socket is offered once, for as much of it as there is room.
LEMMA OfferedTypes ==
    ASSUME CarryingTypeOK, NEW t \in Terminals, NEW f \in Frames,
           wire' = [wire EXCEPT ![t] = @ \o SubSeq(Halves(f), 1, Fits(t, Halves(f)))]
    PROVE  wire' \in [Terminals -> Seq(Piece)] /\ \A o \in Terminals : Len(wire'[o]) <= Room
<1> DEFINE two == Halves(f)
           n == Fits(t, two)
           w == wire[t] \o SubSeq(two, 1, n)
<1>1. two \in Seq(Piece) /\ wire[t] \in Seq(Piece)
  BY HalvesWhole DEF CarryingTypeOK
<1> HIDE DEF two
<1>2. n \in 0 .. Len(two) /\ Len(wire[t]) + n <= Room
  BY <1>1, FitsOn
<1> HIDE DEF n
<1>3. w \in Seq(Piece) /\ Len(w) <= Room
  BY <1>1, <1>2, TakenSo
<1>4. wire' = [wire EXCEPT ![t] = w]
  BY DEF n, two
<1> HIDE DEF w
<1>5. wire' \in [Terminals -> Seq(Piece)]
  BY <1>3, <1>4 DEF CarryingTypeOK
<1>6. \A o \in Terminals : wire'[o] = IF o = t THEN w ELSE wire[o]
  BY <1>4 DEF CarryingTypeOK
<1> QED
  BY <1>3, <1>5, <1>6 DEF CarryingTypeOK

LEMMA OutputFrame ==
    ASSUME NEW of \in Seq(Nat), of # <<>> PROVE Frame("output", of) \in Frames
  BY DEF Frame, Frames

LEMMA WordFrame ==
    ASSUME NEW kind \in {"gone", "answer"} PROVE Frame(kind, <<>>) \in Frames
<1>1. <<>> \in Seq(Nat)
  BY EmptySeq
<1> QED
  BY <1>1 DEF Frame, Frames

LEMMA ChunkFrame ==
    ASSUME CarryingTypeOK PROVE Frame("output", <<chunk>>) \in Frames
<1>1. <<chunk>> \in Seq(Nat) /\ <<chunk>> # <<>>
  BY DEF CarryingTypeOK
<1> QED
  BY <1>1, OutputFrame

\* What the terminals are sent and let go of by is of its type, whichever way it is written.
SentOK ==
    /\ reading' \in [Terminals -> Listed] /\ sending' \in [Terminals -> Seq(Piece)]
    /\ wire' \in [Terminals -> Seq(Piece)] /\ \A o \in Terminals : Len(wire'[o]) <= Room
    /\ letting' \in SUBSET [who : Terminals, why : BOOLEAN]

LEMMA PutsSentOK ==
    ASSUME CarryingTypeOK, NEW t \in Terminals, NEW f \in Frames,
           NEW list \in [Terminals -> Listed], Puts(t, f, list)
    PROVE  SentOK
<1>1. CASE reading' = list /\ UNCHANGED <<letting, sending, wire>>
  BY <1>1 DEF SentOK, CarryingTypeOK
<1>2. ASSUME NEW pieces, Drops(t, list) \/ PouredSo(t, pieces, list) PROVE SentOK
  BY <1>2, PutsTypes, Zenon DEF SentOK
<1> QED
  BY <1>1, <1>2, PutsOn

LEMMA StepCarryingTypeOK ==
    ASSUME CarryingTypeOK, [CarryingNext]_carried PROVE CarryingTypeOK'
<1> USE DEF screen, buffer, ends, theirs
<1>l. reading \in [Terminals -> Listed]
  BY DEF CarryingTypeOK, Listed
<1>1. CASE DrawsMore
  BY <1>1 DEF DrawsMore, CarryingTypeOK
<1>2. CASE Redraws
  BY <1>2 DEF Redraws, CarryingTypeOK
<1>3. CASE Detaches
  <2>1. LetsGoOf(reading)
    BY <1>3 DEF Detaches
  <2> QED
    BY <1>3, <1>l, <2>1, LetsGoTypes DEF Detaches, CarryingTypeOK, Listed
<1>4. CASE Closing
  <2>1. LetsGoOf(reading)
    BY <1>4 DEF Closing
  <2> QED
    BY <1>4, <1>l, <2>1, LetsGoTypes DEF Closing, CarryingTypeOK, Listed
<1>5. CASE Stops
  BY <1>5 DEF Stops, CarryingTypeOK
<1>6. CASE Opens \/ Unlistened \/ Exits
  BY <1>6 DEF Opens, Unlistened, Unlistens, Exits, CarryingTypeOK
<1>7. CASE GivesUpCarrying
  <2>1. LetsGoOf(reading)
    BY <1>7 DEF GivesUpCarrying
  <2> QED
    BY <1>7, <1>l, <2>1, LetsGoTypes DEF GivesUpCarrying, Unlistens, CarryingTypeOK, Listed
<1>8. CASE Drew
  <2>1. todo' \in SUBSET Terminals /\ chunk' \in Nat
    BY <1>8 DEF Drew, Readers, CarryingTypeOK
  <2>2. kept' \in Seq(Nat) /\ spilled' \in BOOLEAN
    <3>1. Append(kept, chunk') \in Seq(Nat)
      BY <2>1, AppendProperties DEF CarryingTypeOK
    <3>2. <<>> \in Seq(Nat)
      BY EmptySeq
    <3>3. kept' = kept \/ kept' = <<>> \/ kept' = Append(kept, chunk')
      BY <1>8 DEF Drew
    <3>4. spilled' = spilled \/ spilled' = (Len(kept) + 1 > Keeps)
      BY <1>8 DEF Drew
    <3>5. spilled' \in BOOLEAN
      <4> DEFINE over == Len(kept) + 1 > Keeps
      <4>1. over \in BOOLEAN
        OBVIOUS
      <4>2. spilled' = spilled \/ spilled' = over
        BY <3>4
      <4> HIDE DEF over
      <4> QED
        BY <4>1, <4>2, Zenon DEF CarryingTypeOK
    <3> QED
      BY <3>1, <3>2, <3>3, <3>5 DEF CarryingTypeOK
  <2> QED
    BY <1>8, <2>1, <2>2 DEF Drew, CarryingTypeOK
<1>9. ASSUME NEW t \in Terminals, Writes(t) PROVE CarryingTypeOK'
  <2>1. SentOK
    <3>1. Puts(t, Frame("output", <<chunk>>), reading) /\ Frame("output", <<chunk>>) \in Frames
      BY <1>9, ChunkFrame DEF Writes
    <3> QED
      BY <1>l, <3>1, PutsSentOK
  <2> QED
    BY <1>9, <2>1 DEF Writes, SentOK, CarryingTypeOK, Listed
<1>10. ASSUME NEW t \in Terminals, Sends(t) PROVE CarryingTypeOK'
  <2>1. SentOK
    <3>1. Pours(t, sending[t], reading) /\ sending[t] \in Seq(Piece)
      BY <1>10 DEF Sends, CarryingTypeOK
    <3>2. Drops(t, reading) \/ PouredSo(t, sending[t], reading)
      BY <3>1, PoursOn
    <3> QED
      BY <1>l, <3>2, PutsTypes, Zenon DEF SentOK
  <2> QED
    BY <1>10, <2>1 DEF Sends, SentOK, CarryingTypeOK, Listed
<1>11. ASSUME NEW t \in Terminals, Arrived(t) PROVE CarryingTypeOK'
  BY <1>11 DEF Arrived, CarryingTypeOK
<1>s. ASSUME NEW t \in Terminals, NEW said, Says(t, said)
      PROVE  up' \in [Terminals -> {<<>>, <<"hello">>, <<"detach">>}]
  <2>1. up' = [up EXCEPT ![t] = Tail(@)] /\ up[t] # <<>>
    BY <1>s DEF Says
  <2>2. up[t] = <<"hello">> \/ up[t] = <<"detach">>
    BY <2>1 DEF CarryingTypeOK
  <2>3. Tail(<<"hello">>) = <<>> /\ Tail(<<"detach">>) = <<>>
    OBVIOUS
  <2>4. Tail(up[t]) = <<>>
    BY <2>2, <2>3
  <2> QED
    BY <2>1, <2>4 DEF CarryingTypeOK
<1>12. ASSUME NEW t \in Terminals, Joins(t) PROVE CarryingTypeOK'
  <2>1. up' \in [Terminals -> {<<>>, <<"hello">>, <<"detach">>}]
    BY <1>12, <1>s DEF Joins
  <2> DEFINE list == [reading EXCEPT ![t] = "joined"]
  <2>2. list \in [Terminals -> Listed]
    BY <1>l DEF Listed
  <2>3. \/ kept # <<>> /\ Puts(t, Frame("output", kept), list) /\ UNCHANGED since
        \/ /\ since' = [since EXCEPT ![t] = chunk]
           /\ reading' = list /\ UNCHANGED <<letting, sending, wire>>
    BY <1>12 DEF Joins
  <2> HIDE DEF list
  <2>4. kept # <<>> => Frame("output", kept) \in Frames
    BY OutputFrame DEF CarryingTypeOK
  <2>5. SentOK
    <3>1. CASE kept # <<>> /\ Puts(t, Frame("output", kept), list)
      BY <2>2, <2>4, <3>1, PutsSentOK
    <3>2. CASE reading' = list /\ UNCHANGED <<letting, sending, wire>>
      BY <2>2, <3>2 DEF SentOK, CarryingTypeOK
    <3> QED
      BY <2>3, <3>1, <3>2
  <2>6. since' \in [Terminals -> Nat]
    BY <2>3 DEF CarryingTypeOK
  <2>7. kept' \in Seq(Nat) /\ ever' \in BOOLEAN /\ redraws' \in Nat
    <3>1. <<>> \in Seq(Nat)
      BY EmptySeq
    <3> QED
      BY <1>12, <3>1 DEF Joins, CarryingTypeOK
  <2>8. UNCHANGED <<pty, chunk, app, loop, going, todo, listening, waiting, at, held, got>>
        /\ UNCHANGED <<spilled, closed, owed>>
    BY <1>12 DEF Joins, Says
  <2> QED
    BY <2>1, <2>5, <2>6, <2>7, <2>8 DEF SentOK, CarryingTypeOK, Listed
<1>13. ASSUME NEW t \in Terminals, AnswersDetach(t) PROVE CarryingTypeOK'
  <2>1. up' \in [Terminals -> {<<>>, <<"hello">>, <<"detach">>}]
    BY <1>13, <1>s DEF AnswersDetach
  <2> DEFINE list == [reading EXCEPT ![t] = "off"]
  <2>2. list \in [Terminals -> Listed] /\ LetsGoOf(list)
    BY <1>13, <1>l DEF AnswersDetach, Listed
  <2> HIDE DEF list
  <2>3. /\ reading' \in [Terminals -> Listed] /\ sending' \in [Terminals -> Seq(Piece)]
        /\ letting' \in SUBSET [who : Terminals, why : BOOLEAN] /\ owed' \in SUBSET Terminals
    BY <2>2, LetsGoTypes
  <2>4. wire' \in [Terminals -> Seq(Piece)] /\ \A o \in Terminals : Len(wire'[o]) <= Room
    <3>1. wire' = [wire EXCEPT ![t] = @ \o SubSeq(Halves(Frame("answer", <<>>)), 1,
                                                 Fits(t, Halves(Frame("answer", <<>>))))]
      BY <1>13 DEF AnswersDetach
    <3> QED
      BY <3>1, WordFrame, OfferedTypes
  <2>5. UNCHANGED <<pty, chunk, app, loop, going, todo, listening, waiting, at, held, got>>
        /\ UNCHANGED <<redraws, buffer, since>> /\ closed' = closed \cup {t}
    BY <1>13 DEF AnswersDetach, Says
  <2> QED
    BY <2>1, <2>3, <2>4, <2>5 DEF CarryingTypeOK, Listed
<1>14. ASSUME NEW t \in Terminals, HangsUp(t) PROVE CarryingTypeOK'
  BY <1>14 DEF HangsUp, CarryingTypeOK
<1>15. ASSUME NEW one \in letting, Closes(one) PROVE CarryingTypeOK'
  <2>1. one \in [who : Terminals, why : BOOLEAN]
    BY DEF CarryingTypeOK
  <2>2. one.who \in Terminals
    BY <2>1
  <2>3. wire' \in [Terminals -> Seq(Piece)] /\ \A o \in Terminals : Len(wire'[o]) <= Room
    <3>1. CASE wire' = wire
      BY <3>1 DEF CarryingTypeOK
    <3>2. CASE wire' = [wire EXCEPT ![one.who] = @ \o SubSeq(Halves(Frame("gone", <<>>)), 1,
                                             Fits(one.who, Halves(Frame("gone", <<>>))))]
      BY <2>2, <3>2, WordFrame, OfferedTypes
    <3> QED
      BY <1>15, <3>1, <3>2 DEF Closes
  <2> QED
    BY <1>15, <2>2, <2>3 DEF Closes, CarryingTypeOK
<1>16. CASE Ends \/ Over
  BY <1>16 DEF Ends, Over, CarryingTypeOK
<1>17. ASSUME NEW t \in Terminals, NEW what \in {"hello", "detach"}, Dials(t, what)
       PROVE  CarryingTypeOK'
  <2>1. up' \in [Terminals -> {<<>>, <<"hello">>, <<"detach">>}]
    BY <1>17 DEF Dials, CarryingTypeOK
  <2> QED
    BY <1>17, <2>1 DEF Dials, CarryingTypeOK
<1>18. ASSUME NEW t \in Terminals, NEW how \in {"over", "untold", "broken"}, Ended(t, how),
              UNCHANGED <<screen, app, loop, going, todo, reading, sending, letting, buffer, ends,
                          up, owed>>
       PROVE  CarryingTypeOK'
  BY <1>18, EndedTypes DEF CarryingTypeOK
<1>19. ASSUME NEW t \in Terminals, Types(t) \/ SeesEnd(t) \/ Leaves(t) PROVE CarryingTypeOK'
  BY <1>18, <1>19 DEF Types, SeesEnd, Leaves
<1>20. ASSUME NEW t \in Terminals, Reads(t) PROVE CarryingTypeOK'
  <2>1. UNCHANGED <<screen, app, loop, going, todo, reading, sending, letting, buffer, ends,
                    up, owed>>
    BY <1>20 DEF Reads
  <2> SUFFICES ASSUME ~Ended(t, "over") PROVE CarryingTypeOK'
    BY <1>18, <2>1
  <2>2. PICK fed \in Seq(Piece), n \in Nat :
             /\ n \in 0 .. (Len(fed) \div 2)
             /\ held' = [held EXCEPT ![t] = SubSeq(fed, 2 * n + 1, Len(fed))]
             /\ got' = [got EXCEPT ![t] = @ \o Drawn(SubSeq(fed, 1, 2 * n))]
             /\ wire' = [wire EXCEPT ![t] = <<>>] /\ UNCHANGED <<at, since>>
    BY <1>20, ReadsOn
  <2>3. SubSeq(fed, 1, 2 * n) \in Seq(Piece) /\ SubSeq(fed, 2 * n + 1, Len(fed)) \in Seq(Piece)
    BY <2>2, FoundParts
  <2>4. got[t] \o Drawn(SubSeq(fed, 1, 2 * n)) \in Seq(Nat)
    <3>1. got[t] \in Seq(Nat) /\ Drawn(SubSeq(fed, 1, 2 * n)) \in Seq(Nat)
      BY <2>3, DrawnOf DEF CarryingTypeOK
    <3> QED
      BY <3>1, ConcatProperties
  <2> DEFINE front == got[t] \o Drawn(SubSeq(fed, 1, 2 * n))
             back == SubSeq(fed, 2 * n + 1, Len(fed))
  <2>5. held' = [held EXCEPT ![t] = back] /\ got' = [got EXCEPT ![t] = front]
        /\ front \in Seq(Nat) /\ back \in Seq(Piece)
    BY <2>2, <2>3, <2>4
  <2> HIDE DEF front, back
  <2>6. held' \in [Terminals -> Seq(Piece)] /\ got' \in [Terminals -> Seq(Nat)]
    BY <2>5 DEF CarryingTypeOK
  <2>7. wire' \in [Terminals -> Seq(Piece)] /\ \A o \in Terminals : Len(wire'[o]) <= Room
    <3>1. <<>> \in Seq(Piece) /\ Len(<<>>) <= Room
      BY EmptySeq, RoomAssumption
    <3>2. \A o \in Terminals : wire'[o] = IF o = t THEN <<>> ELSE wire[o]
      BY <2>2 DEF CarryingTypeOK
    <3>3. wire' \in [Terminals -> Seq(Piece)]
      BY <2>2, <3>1 DEF CarryingTypeOK
    <3> QED
      BY <3>1, <3>2, <3>3 DEF CarryingTypeOK
  <2> QED
    BY <2>1, <2>2, <2>6, <2>7 DEF CarryingTypeOK
<1>21. CASE UNCHANGED carried
  BY <1>21 DEF carried, CarryingTypeOK
<1>22. CASE Loop
  BY <1>8, <1>9, <1>10, <1>11, <1>12, <1>13, <1>14, <1>15, <1>16, <1>22 DEF Loop
<1>23. ASSUME NEW t \in Terminals, Terminal(t) PROVE CarryingTypeOK'
  BY <1>17, <1>19, <1>20, <1>23 DEF Terminal
<1> QED
  BY <1>1, <1>2, <1>3, <1>4, <1>5, <1>6, <1>7, <1>21, <1>22, <1>23 DEF CarryingNext

-----------------------------------------------------------------------------
(* What is drawn, and what is still on its way to a terminal.              *)

Run(from, n) == [i \in 1 .. n |-> from + i]

LEMMA RunMore ==
    ASSUME NEW from \in Nat, NEW n \in Nat
    PROVE  /\ Run(from, n) \in Seq(Nat) /\ Run(from, n) \o <<from + n + 1>> = Run(from, n + 1)
           /\ Append(Run(from, n), from + n + 1) = Run(from, n + 1)
<1> DEFINE q == Run(from, n)
           r == Run(from, n + 1)
           last == from + n + 1
<1>1. q \in Seq(Nat) /\ Len(q) = n /\ \A i \in 1 .. n : q[i] = from + i
  BY DEF Run
<1>2. r \in Seq(Nat) /\ Len(r) = n + 1 /\ \A i \in 1 .. n + 1 : r[i] = from + i
  BY DEF Run
<1>3. last = from + (n + 1) /\ last \in Nat
  OBVIOUS
<1> HIDE DEF q, r, last
<1>4. Append(q, last) = r
  <2>1. /\ Append(q, last) \in Seq(Nat) /\ Len(Append(q, last)) = n + 1
        /\ \A i \in 1 .. n : Append(q, last)[i] = q[i]
        /\ Append(q, last)[n + 1] = last
    BY <1>1, <1>3, AppendProperties
  <2>2. ASSUME NEW i \in 1 .. n + 1 PROVE Append(q, last)[i] = r[i]
    <3>1. CASE i \in 1 .. n
      BY <1>1, <1>2, <2>1, <3>1
    <3>2. CASE i = n + 1
      BY <1>2, <1>3, <2>1, <3>2
    <3>3. i \in 1 .. n \/ i = n + 1
      OBVIOUS
    <3> QED
      BY <3>1, <3>2, <3>3
  <2> QED
    BY <1>2, <2>1, <2>2, SeqEqual
<1>5. q \o <<last>> = Append(q, last)
  BY <1>1, <1>3, AppendIsConcat
<1> QED
  BY <1>1, <1>4, <1>5 DEF q, r, last

LEMMA RunNone == ASSUME NEW from PROVE Run(from, 0) = <<>>
<1>1. 1 .. 0 = {}
  OBVIOUS
<1> QED
  BY <1>1 DEF Run

LEMMA DrawnFrame == ASSUME NEW f \in Frames PROVE Drawn(Halves(f)) = f.of
<1> DEFINE a == [frame |-> f, half |-> 1]
           b == [frame |-> f, half |-> 2]
<1>1. a \in Piece /\ b \in Piece /\ Ink(a) = <<>> /\ Ink(b) = f.of
  BY DEF Piece, Ink
<1>2. f.of \in Seq(Nat)
  BY DEF Frames
<1>3. Halves(f) = Append(Append(<<>>, a), b)
  BY DEF Halves
<1> HIDE DEF a, b
<1>4. <<>> \in Seq(Piece) /\ <<>> \in Seq(Nat)
  BY EmptySeq
<1>5. Append(<<>>, a) \in Seq(Piece)
  BY <1>1, <1>4, AppendProperties
<1>6. Drawn(Append(<<>>, a)) = Drawn(<<>>) \o Ink(a)
  BY <1>1, <1>4, DrawnOneMore
<1>7. Drawn(Append(Append(<<>>, a), b)) = Drawn(Append(<<>>, a)) \o Ink(b)
  BY <1>1, <1>5, DrawnOneMore
<1>8. <<>> \o <<>> = <<>> /\ <<>> \o f.of = f.of
  BY <1>2, <1>4, ConcatEmptySeq
<1> QED
  BY <1>1, <1>3, <1>6, <1>7, <1>8, DrawnNone

\* The frame that ends a sequence of pieces is drawn, so that something is.
LEMMA DrawnSome ==
    ASSUME NEW q \in Seq(Piece), NEW k \in Nat \ {0}, Len(q) = k, q[k].half = 2,
           q[k].frame.kind = "output"
    PROVE  Drawn(q) # <<>>
<1>1. q # <<>> /\ q[k] \in Piece
  <2>1. k \in 1 .. Len(q)
    OBVIOUS
  <2>2. q[k] \in Piece
    BY <2>1, ElementOfSeq
  <2> QED
    BY <2>1, <2>2
<1> DEFINE m == k - 1
           p == SubSeq(q, 1, m)
           z == q[k]
<1>2. p \in Seq(Piece) /\ q = Append(p, z)
  <2>1. m \in Nat /\ k = m + 1 /\ \A i \in 1 .. m : i \in 1 .. k
    OBVIOUS
  <2>2. \A i \in 1 .. k : q[i] \in Piece
    BY ElementOfSeq
  <2> HIDE DEF m, z
  <2>3. 1 \in Int /\ m \in Int /\ \A i \in 1 .. m : q[i] \in Piece
    BY <2>1, <2>2
  <2>4. p \in Seq(Piece) /\ Len(p) = m /\ \A i \in 1 .. m : p[i] = q[i]
    BY <2>1, <2>3, SubSeqProperties
  <2> HIDE DEF p
  <2>5. z \in Piece
    BY <1>1 DEF z
  <2>6. /\ Append(p, z) \in Seq(Piece) /\ Len(Append(p, z)) = m + 1
        /\ \A i \in 1 .. m : Append(p, z)[i] = p[i]
        /\ Append(p, z)[m + 1] = z
    BY <2>4, <2>5, AppendProperties
  <2>7. ASSUME NEW i \in 1 .. k PROVE Append(p, z)[i] = q[i]
    <3>1. CASE i \in 1 .. m
      BY <2>4, <2>6, <3>1
    <3>2. CASE i = k
      BY <2>1, <2>6, <3>2 DEF z
    <3>3. i \in 1 .. m \/ i = k
      BY <2>1
    <3> QED
      BY <3>1, <3>2, <3>3
  <2> QED
    BY <2>1, <2>4, <2>6, <2>7, SeqEqual
<1>3. Ink(z) \in Seq(Nat) /\ Ink(z) # <<>>
  BY <1>1 DEF Ink, Piece, Frames
<1>4. z \in Piece
  BY <1>1
<1> HIDE DEF p, z
<1>5. Drawn(q) = Drawn(p) \o Ink(z)
  BY <1>2, <1>4, DrawnOneMore
<1>6. Drawn(p) \in Seq(Nat)
  BY <1>2, DrawnOf
<1>7. Len(Drawn(p) \o Ink(z)) = Len(Drawn(p)) + Len(Ink(z)) /\ Len(Drawn(p)) \in Nat /\ Len(Ink(z)) \in Nat
  BY <1>3, <1>6, ConcatProperties
<1>8. Len(Ink(z)) # 0
  BY <1>3, EmptySeq
<1> QED
  BY <1>5, <1>7, <1>8, EmptySeq

\* The same, of a name that the provers do not look into.
Then(a, b) == a \o b

LEMMA ThenJoins ==
    /\ \A a, b \in Seq(Piece) : Then(a, b) \in Seq(Piece)
    /\ \A a, b, c \in Seq(Piece) : Then(Then(a, b), c) = Then(a, Then(b, c))
<1>1. ASSUME NEW a \in Seq(Piece), NEW b \in Seq(Piece) PROVE Then(a, b) \in Seq(Piece)
  BY ConcatProperties DEF Then
<1>2. ASSUME NEW a \in Seq(Piece), NEW b \in Seq(Piece), NEW c \in Seq(Piece)
      PROVE  Then(Then(a, b), c) = Then(a, Then(b, c))
  BY PiecesJoin, Zenon DEF Then
<1> QED
  BY <1>1, <1>2

LEMMA StreamMore ==
    ASSUME NEW h \in Seq(Piece), NEW w \in Seq(Piece), NEW s \in Seq(Piece), NEW x \in Seq(Piece),
           NEW w2 \in Seq(Piece), NEW s2 \in Seq(Piece), Then(w2, s2) = Then(w, Then(s, x))
    PROVE  Then(Then(h, w2), s2) = Then(Then(Then(h, w), s), x)
<1>1. Then(s, x) \in Seq(Piece) /\ Then(h, w) \in Seq(Piece)
  BY ThenJoins
<1>2. Then(Then(h, w2), s2) = Then(h, Then(w, Then(s, x)))
  BY ThenJoins
<1>3. Then(Then(h, w), Then(s, x)) = Then(h, Then(w, Then(s, x)))
  BY <1>1, ThenJoins
<1>4. Then(Then(Then(h, w), s), x) = Then(Then(h, w), Then(s, x))
  BY <1>1, ThenJoins
<1> QED
  BY <1>2, <1>3, <1>4

LEMMA StreamSame ==
    ASSUME NEW h \in Seq(Piece), NEW w \in Seq(Piece), NEW s \in Seq(Piece),
           NEW w2 \in Seq(Piece), NEW s2 \in Seq(Piece), Then(w2, s2) = Then(w, s)
    PROVE  Then(Then(h, w2), s2) = Then(Then(h, w), s)
  BY ThenJoins

-----------------------------------------------------------------------------
(* What holds of each terminal, wherever it has got to.                    *)

LetGo(t, why) == [who |-> t, why |-> why] \in letting
LettingGo(t) == LetGo(t, TRUE) \/ LetGo(t, FALSE)

\* What is on its way to a terminal, from the frame it has part of to what no socket has taken.
Stream(t) == held[t] \o wire[t] \o sending[t]

Untouched(t) ==
    /\ reading[t] # "joined" /\ t \notin todo /\ ~LettingGo(t) /\ t \notin owed
    /\ held[t] = <<>> /\ wire[t] = <<>> /\ sending[t] = <<>> /\ got[t] = <<>> /\ since[t] = 0

\* A terminal connects once, says one thing, is let go of once, and its socket is closed once.
Placed(t) ==
    /\ at[t] = "away" => reading[t] = "off" /\ t \notin waiting /\ t \notin closed /\ up[t] = <<>>
    /\ at[t] = "away" \/ up[t] # <<>> => Untouched(t)
    /\ at[t] = "untold" => t \in closed
    /\ t \in waiting => reading[t] = "off" /\ t \notin closed
    /\ t \in closed => reading[t] = "off" \/ app = "exited"
    /\ LettingGo(t) =>
          reading[t] = "off" /\ (t \notin closed \/ app = "exited") /\ t \notin waiting
    /\ ~(LetGo(t, TRUE) /\ LetGo(t, FALSE))

\* How much of what the run drew has been written to one that reads it.
Written(t) == IF t \in todo THEN chunk - 1 - since[t] ELSE chunk - since[t]

\* What it has drawn and what is on its way make up what was written, in whole frames.
Reading(t) ==
    reading[t] = "joined" =>
        /\ ever /\ t \notin owed
        /\ since[t] <= chunk /\ (t \in todo => since[t] < chunk)
        /\ ~HasGone(t) =>
             /\ Whole(Stream(t)) /\ got[t] \o Drawn(Stream(t)) = Run(since[t], Written(t))
             /\ \/ app # "running" \/ redraws > 0 \/ pty \/ t \in todo
                \/ got[t] # <<>> \/ Stream(t) # <<>>

\* The process went without the loop that close had stopped waiting for.
Rushed == app = "exited" /\ loop # "over"
USE DEF Rushed

\* The reason is on its way to one that is owed it, or there is room for it.
Owed(t) ==
    t \in owed =>
        /\ reading[t] = "off" /\ t \notin waiting /\ (at[t] = "untold" => Rushed)
        /\ ~HasGone(t) =>
             /\ Whole(held[t] \o wire[t])
             /\ \/ LetGo(t, TRUE) /\ Len(wire[t]) + 2 <= Room
                \/ /\ ~LetGo(t, TRUE) /\ wire[t] # <<>>
                   /\ wire[t][Len(wire[t])].frame.kind = "gone"

Kept == kept = IF ever \/ spilled THEN <<>> ELSE Run(0, chunk)

Up == {"opening", "running"}
USE DEF Up

\* The loop, once it no longer carries, has nobody left to let go of that is not let go of.
Rounds ==
    /\ loop # "carrying" => todo = {} /\ (app \in Up => Readers(reading) = {})
    /\ ~going /\ loop = "carrying" => app \notin Up
    /\ loop = "over" => letting = {}

Held(t) == Placed(t) /\ Reading(t) /\ Owed(t)
CarryingInv == CarryingTypeOK /\ Kept /\ Rounds /\ \A t \in Terminals : Held(t)

\* A step that has nothing to do with a terminal.
Apart(t) ==
    /\ reading'[t] = reading[t] /\ since'[t] = since[t] /\ sending'[t] = sending[t]
    /\ wire'[t] = wire[t] /\ up'[t] = up[t] /\ at'[t] = at[t]
    /\ held'[t] = held[t] /\ got'[t] = got[t]
    /\ t \in todo' <=> t \in todo
    /\ t \in waiting' <=> t \in waiting
    /\ t \in closed' <=> t \in closed
    /\ t \in owed' <=> t \in owed
    /\ LetGo(t, TRUE)' <=> LetGo(t, TRUE)
    /\ LetGo(t, FALSE)' <=> LetGo(t, FALSE)

Meanwhile ==
    /\ chunk' = chunk /\ (ever => ever')
    /\ app' = "running" =>
          \/ pty'
          \/ app = "running" /\ (redraws > 0 \/ pty => redraws' > 0)
    /\ app = "exited" => app' = "exited" /\ loop' = loop

LEMMA ApartHeld == ASSUME NEW t, Held(t), Apart(t), Meanwhile PROVE Held(t)'
<1> USE DEF Apart, Meanwhile
<1>1. LettingGo(t)' <=> LettingGo(t)
  BY DEF LettingGo
<1>2. Untouched(t) => Untouched(t)'
  BY <1>1 DEF Untouched
<1>3. Placed(t)'
  BY <1>1, <1>2 DEF Placed, Held
<1>4. Stream(t)' = Stream(t) /\ Written(t)' = Written(t) /\ (HasGone(t)' <=> HasGone(t))
  BY DEF Stream, Written, HasGone
<1>5. Reading(t)'
  BY <1>4 DEF Reading, Held
<1>6. Owed(t)'
  BY <1>4 DEF Owed, Held
<1> QED
  BY <1>3, <1>5, <1>6 DEF Held

\* Off the list with no reason to give, for what cannot be sent to it.
LEMMA DropsHeld ==
    ASSUME CarryingTypeOK, NEW t \in Terminals, Held(t), NEW list \in [Terminals -> Listed],
           Drops(t, list), reading[t] # "off", app # "exited", up'[t] = <<>>,
           UNCHANGED <<at, waiting, closed, owed>>
    PROVE  Held(t)'
<1>1. reading'[t] = "off" /\ LetGo(t, FALSE)'
  BY DEF Drops, LetGo
<1>2. ~LetGo(t, TRUE)'
  <2>1. ~LetGo(t, TRUE)
    BY DEF Held, Placed, LettingGo
  <2>2. [who |-> t, why |-> TRUE] # [who |-> t, why |-> FALSE]
    OBVIOUS
  <2> QED
    BY <2>1, <2>2 DEF Drops, LetGo
<1>3. at[t] # "away" /\ t \notin waiting /\ t \notin closed /\ t \notin owed
  BY DEF Held, Placed, Owed
<1>4. Placed(t)'
  BY <1>1, <1>2, <1>3 DEF Placed, Held
<1> QED
  BY <1>1, <1>3, <1>4 DEF Held, Reading, Owed

LEMMA DropsApart ==
    ASSUME CarryingTypeOK, NEW t \in Terminals, NEW list \in [Terminals -> Listed], Drops(t, list),
           NEW o \in Terminals, o # t, list[o] = reading[o]
    PROVE  /\ reading'[o] = reading[o] /\ sending'[o] = sending[o] /\ wire'[o] = wire[o]
           /\ LetGo(o, TRUE)' <=> LetGo(o, TRUE)
           /\ LetGo(o, FALSE)' <=> LetGo(o, FALSE)
<1>1. [who |-> o, why |-> TRUE] # [who |-> t, why |-> FALSE]
  OBVIOUS
<1>2. [who |-> o, why |-> FALSE] # [who |-> t, why |-> FALSE]
  OBVIOUS
<1> QED
  BY <1>1, <1>2 DEF Drops, LetGo, CarryingTypeOK

LEMMA PouredApart ==
    ASSUME CarryingTypeOK, NEW t \in Terminals, NEW list \in [Terminals -> Listed], NEW pieces,
           PouredSo(t, pieces, list), NEW o \in Terminals, o # t, list[o] = reading[o]
    PROVE  /\ reading'[o] = reading[o] /\ sending'[o] = sending[o] /\ wire'[o] = wire[o]
           /\ LetGo(o, TRUE)' <=> LetGo(o, TRUE)
           /\ LetGo(o, FALSE)' <=> LetGo(o, FALSE)
<1>1. PICK w, s : Poured(t, pieces, list, w, s)
  BY Zenon DEF PouredSo
<1> QED
  BY <1>1 DEF Poured, LetGo, CarryingTypeOK

\* Everybody who reads is let go of with the reason.
LEMMA LetsGoHeld ==
    ASSUME CarryingTypeOK, NEW t \in Terminals, Held(t), NEW list, LetsGoOf(list),
           list[t] = "joined", reading[t] = "joined", app # "exited",
           wire'[t] = wire[t], up'[t] = up[t], at'[t] = at[t], held'[t] = held[t],
           t \in waiting' => t \in waiting, t \in closed' => t \in closed \/ t \in waiting
    PROVE  Held(t)'
<1>1. t \in Readers(list)
  BY DEF Readers
<1>2. reading'[t] = "off" /\ LetGo(t, TRUE)'
  BY <1>1 DEF LetsGoOf, LetGo
<1>3. ~LetGo(t, FALSE)'
  <2>1. ~LetGo(t, FALSE)
    BY DEF Held, Placed, LettingGo
  <2>2. [who |-> t, why |-> FALSE] \notin [who : Readers(list), why : {TRUE}]
    OBVIOUS
  <2> QED
    BY <2>1, <2>2 DEF LetsGoOf, LetGo
<1>4. /\ at[t] # "away" /\ at[t] # "untold" /\ up[t] = <<>>
      /\ t \notin waiting' /\ t \notin closed'
  BY DEF Held, Placed, Untouched
<1>5. Placed(t)'
  BY <1>2, <1>3, <1>4 DEF Placed
<1>6. Reading(t)'
  BY <1>2 DEF Reading
<1>7. Owed(t)'
  <2> SUFFICES ASSUME t \in owed' PROVE Owed(t)'
    BY DEF Owed
  <2>1. t \notin owed
    BY DEF Held, Reading
  <2>2. sending[t] = <<>> /\ Len(wire[t]) + 2 <= Room
    BY <2>1 DEF LetsGoOf
  <2>3. ~HasGone(t) => Whole(held[t] \o wire[t])
    <3>1. held[t] \o wire[t] \in Seq(Piece)
      BY ConcatProperties DEF CarryingTypeOK
    <3>2. (held[t] \o wire[t]) \o <<>> = held[t] \o wire[t]
      BY <3>1, ConcatEmptySeq
    <3> QED
      BY <2>2, <3>2 DEF Held, Reading, Stream
  <2>4. HasGone(t)' <=> HasGone(t)
    BY DEF HasGone
  <2> QED
    BY <1>2, <1>4, <2>2, <2>3, <2>4 DEF Owed
<1> QED
  BY <1>5, <1>6, <1>7 DEF Held

LEMMA LetsGoApart ==
    ASSUME CarryingTypeOK, NEW t \in Terminals, NEW list, LetsGoOf(list), list[t] # "joined"
    PROVE  /\ reading'[t] = list[t] /\ sending'[t] = sending[t]
           /\ t \in owed' <=> t \in owed
           /\ LetGo(t, TRUE)' <=> LetGo(t, TRUE)
           /\ LetGo(t, FALSE)' <=> LetGo(t, FALSE)
<1>1. t \notin Readers(list)
  BY DEF Readers
<1>2. [who |-> t, why |-> TRUE] \notin [who : Readers(list), why : {TRUE}]
  BY <1>1
<1>3. [who |-> t, why |-> FALSE] \notin [who : Readers(list), why : {TRUE}]
  OBVIOUS
<1> QED
  BY <1>1, <1>2, <1>3 DEF LetsGoOf, LetGo

LEMMA StreamOf ==
    ASSUME CarryingTypeOK, NEW t \in Terminals
    PROVE  Stream(t) \in Seq(Piece) /\ Drawn(Stream(t)) \in Seq(Nat)
<1>1. held[t] \in Seq(Piece) /\ wire[t] \in Seq(Piece) /\ sending[t] \in Seq(Piece)
  BY DEF CarryingTypeOK
<1> DEFINE hw == held[t] \o wire[t]
<1>2. hw \in Seq(Piece)
  BY <1>1, ConcatProperties
<1> HIDE DEF hw
<1>3. hw \o sending[t] \in Seq(Piece)
  BY <1>1, <1>2, ConcatProperties
<1>4. Stream(t) \in Seq(Piece)
  BY <1>3 DEF hw, Stream
<1> QED
  BY <1>4, DrawnOf

\* One frame more, however much of it the socket took.
LEMMA StreamWritten ==
    ASSUME CarryingTypeOK, NEW t \in Terminals, NEW f \in Frames, NEW list,
           PouredSo(t, sending[t] \o Halves(f), list), held'[t] = held[t], Whole(Stream(t))
    PROVE  /\ Whole(Stream(t)') /\ Stream(t)' # <<>>
           /\ Drawn(Stream(t)') = Drawn(Stream(t)) \o f.of
<1> DEFINE h == held[t]
           w == wire[t]
           s == sending[t]
           x == Halves(f)
           z == Stream(t)
<1>1. h \in Seq(Piece) /\ w \in Seq(Piece) /\ s \in Seq(Piece)
  BY DEF CarryingTypeOK
<1>2. x \in Seq(Piece) /\ Whole(x) /\ Len(x) = 2 /\ Drawn(x) = f.of
  BY HalvesWhole, DrawnFrame
<1>3. z \in Seq(Piece) /\ z = (h \o w) \o s
  BY StreamOf DEF Stream
<1>4. PICK w2, s2 : Poured(t, s \o x, list, w2, s2)
  BY Zenon DEF PouredSo
<1>5. w2 \in Seq(Piece) /\ s2 \in Seq(Piece) /\ w2 \o s2 = w \o (s \o x)
  BY <1>4 DEF Poured
<1>6. wire'[t] = w2 /\ sending'[t] = s2
  BY <1>4 DEF Poured, CarryingTypeOK
<1>7. Stream(t)' = (h \o w2) \o s2
  BY <1>6 DEF Stream
<1>w. Whole(z)
  OBVIOUS
<1> HIDE DEF h, w, s, x, z
<1>8. (h \o w2) \o s2 = ((h \o w) \o s) \o x
  <2>1. Then(w2, s2) = Then(w, Then(s, x))
    BY <1>5, Zenon DEF Then
  <2>2. Then(Then(h, w2), s2) = Then(Then(Then(h, w), s), x)
    BY <1>1, <1>2, <1>5, <2>1, StreamMore
  <2> QED
    BY <2>2, Zenon DEF Then
<1>9. Stream(t)' = z \o x
  BY <1>3, <1>7, <1>8
<1>10. Whole(z \o x) /\ Drawn(z \o x) = Drawn(z) \o Drawn(x)
  BY <1>w, <1>2, <1>3, WholeBoth, DrawnBoth
<1>11. z \o x # <<>>
  <2>1. Len(z \o x) = Len(z) + Len(x) /\ Len(z) \in Nat
    BY <1>2, <1>3, ConcatProperties, LenProperties
  <2> QED
    BY <1>2, <2>1, EmptySeq
<1> QED
  BY <1>2, <1>9, <1>10, <1>11 DEF z

LEMMA StreamStays ==
    ASSUME CarryingTypeOK, NEW t \in Terminals, NEW list, PouredSo(t, sending[t], list),
           held'[t] = held[t]
    PROVE  Stream(t)' = Stream(t)
<1> DEFINE h == held[t]
           w == wire[t]
           s == sending[t]
<1>1. h \in Seq(Piece) /\ w \in Seq(Piece) /\ s \in Seq(Piece)
  BY DEF CarryingTypeOK
<1>2. PICK w2, s2 : Poured(t, s, list, w2, s2)
  BY Zenon DEF PouredSo
<1>3. w2 \in Seq(Piece) /\ s2 \in Seq(Piece) /\ w2 \o s2 = w \o s
  BY <1>2 DEF Poured
<1>4. wire'[t] = w2 /\ sending'[t] = s2
  BY <1>2 DEF Poured, CarryingTypeOK
<1>5. Stream(t)' = (h \o w2) \o s2 /\ Stream(t) = (h \o w) \o s
  BY <1>4 DEF Stream
<1> HIDE DEF h, w, s
<1>6. (h \o w2) \o s2 = (h \o w) \o s
  <2>1. Then(w2, s2) = Then(w, s)
    BY <1>3, Zenon DEF Then
  <2>2. Then(Then(h, w2), s2) = Then(Then(h, w), s)
    BY <1>1, <1>3, <2>1, StreamSame
  <2> QED
    BY <2>2, Zenon DEF Then
<1> QED
  BY <1>5, <1>6

-----------------------------------------------------------------------------
(* Each step, and what it does to each terminal.                           *)

\* The run drawing, and the loop going on or coming to its end: nobody's.
LEMMA NobodysHeld ==
    ASSUME CarryingInv, Opens \/ DrawsMore \/ Redraws \/ Stops \/ (app # "exited" /\ (Ends \/ Over))
    PROVE  \A o \in Terminals : Held(o)'
<1> SUFFICES ASSUME NEW o \in Terminals PROVE Held(o)'
  OBVIOUS
<1> USE DEF screen, buffer, ends, theirs
<1>1. CASE Opens \/ DrawsMore
  <2>1. Apart(o) /\ Meanwhile
    BY <1>1 DEF Opens, DrawsMore, Apart, Meanwhile, LetGo
  <2> QED
    BY <2>1, ApartHeld DEF CarryingInv
<1>2. CASE Redraws
  <2>1. Apart(o) /\ Meanwhile
    BY <1>2 DEF Redraws, Apart, Meanwhile, LetGo
  <2> QED
    BY <2>1, ApartHeld DEF CarryingInv
<1>3. CASE Stops
  <2>1. Apart(o) /\ Meanwhile
    BY <1>3 DEF Stops, Apart, Meanwhile, LetGo
  <2> QED
    BY <2>1, ApartHeld DEF CarryingInv
<1>4. CASE app # "exited" /\ (Ends \/ Over)
  <2>1. Apart(o) /\ Meanwhile
    BY <1>4 DEF Ends, Over, Apart, Meanwhile, LetGo
  <2> QED
    BY <2>1, ApartHeld DEF CarryingInv
<1> QED
  BY <1>1, <1>2, <1>3, <1>4

\* The interface, or whatever holds the run, letting go of who is reading.
LEMMA LettingGoHeld ==
    ASSUME CarryingInv, Detaches \/ Closing
    PROVE  \A o \in Terminals : Held(o)'
<1> SUFFICES ASSUME NEW o \in Terminals PROVE Held(o)'
  OBVIOUS
<1> USE DEF screen, buffer, ends, theirs
<1>1. /\ LetsGoOf(reading) /\ app \in Up /\ app' \in {app, "letgone"}
      /\ UNCHANGED <<screen, loop, going, todo, buffer, ends, wire, up, theirs>>
  BY DEF Detaches, Closing
<1>2. CASE reading[o] = "joined"
  BY <1>1, <1>2, LetsGoHeld DEF CarryingInv
<1>3. CASE reading[o] # "joined"
  <2>1. Apart(o)
    BY <1>1, <1>3, LetsGoApart DEF Apart, CarryingInv
  <2>2. Meanwhile
    BY <1>1 DEF Meanwhile
  <2> QED
    BY <2>1, <2>2, ApartHeld DEF CarryingInv
<1> QED
  BY <1>2, <1>3

LEMMA GivesUpHeld ==
    ASSUME CarryingInv, GivesUpCarrying
    PROVE  \A o \in Terminals : Held(o)'
<1> SUFFICES ASSUME NEW o \in Terminals PROVE Held(o)'
  OBVIOUS
<1> USE DEF screen, buffer, ends, theirs
<1>1. /\ LetsGoOf(reading) /\ Unlistens /\ loop = "carrying"
      /\ UNCHANGED <<screen, app, todo, buffer, wire, up, theirs>>
  BY DEF GivesUpCarrying, Carrying
<1>2. app # "exited"
  BY DEF GivesUpCarrying
<1>3. CASE reading[o] = "joined"
  BY <1>1, <1>2, <1>3, LetsGoHeld DEF Unlistens, CarryingInv
<1>4. CASE reading[o] # "joined" /\ o \notin waiting
  <2>1. Apart(o)
    BY <1>1, <1>4, LetsGoApart DEF Apart, CarryingInv, Unlistens
  <2>2. Meanwhile
    BY <1>1, <1>2 DEF Meanwhile
  <2> QED
    BY <2>1, <2>2, ApartHeld DEF CarryingInv
<1>5. CASE reading[o] # "joined" /\ o \in waiting
  <2>1. /\ reading'[o] = reading[o] /\ sending'[o] = sending[o] /\ (o \in owed' <=> o \in owed)
        /\ (LetGo(o, TRUE)' <=> LetGo(o, TRUE)) /\ (LetGo(o, FALSE)' <=> LetGo(o, FALSE))
    BY <1>1, <1>5, LetsGoApart DEF CarryingInv
  <2>2. /\ Held(o) /\ reading[o] = "off" /\ at[o] # "away" /\ ~LettingGo(o) /\ o \notin owed
    BY <1>5 DEF CarryingInv, Held, Placed, Owed
  <2>3. Untouched(o) => Untouched(o)'
    BY <1>1, <2>1 DEF Untouched, LettingGo
  <2>4. Placed(o)'
    BY <1>1, <2>1, <2>2, <2>3 DEF Placed, Held, LettingGo, Unlistens
  <2> QED
    BY <2>1, <2>2, <2>4 DEF Held, Reading, Owed
<1> QED
  BY <1>3, <1>4, <1>5

\* Nobody can connect any more, and whoever had not been accepted is cut off.
LEMMA UnlistenedHeld ==
    ASSUME CarryingInv, Unlistened
    PROVE  \A o \in Terminals : Held(o)'
<1> SUFFICES ASSUME NEW o \in Terminals PROVE Held(o)'
  OBVIOUS
<1> USE DEF screen, buffer, ends, theirs
<1>1. /\ app = "stopping" /\ app' = "unlistened" /\ waiting' = {} /\ closed' = closed \cup waiting
      /\ UNCHANGED <<screen, loop, going, todo, reading, sending, letting, buffer, wire, up,
                     theirs, owed>>
  BY DEF Unlistened, Unlistens
<1>2. Meanwhile
  BY <1>1 DEF Meanwhile
<1>3. CASE o \notin waiting
  <2>1. Apart(o)
    BY <1>1, <1>3 DEF Apart, LetGo
  <2> QED
    BY <1>2, <2>1, ApartHeld DEF CarryingInv
<1>4. CASE o \in waiting
  <2>1. /\ Held(o) /\ reading[o] = "off" /\ at[o] # "away" /\ ~LettingGo(o) /\ o \notin owed
    BY <1>4 DEF CarryingInv, Held, Placed, Owed
  <2>2. Untouched(o) => Untouched(o)'
    BY <1>1 DEF Untouched, LettingGo, LetGo
  <2>3. Placed(o)'
    BY <1>1, <2>1, <2>2 DEF Placed, Held, LettingGo, LetGo
  <2> QED
    BY <1>1, <2>1, <2>3 DEF Held, Reading, Owed
<1> QED
  BY <1>3, <1>4

LEMMA ExitsHeld ==
    ASSUME CarryingInv, Exits
    PROVE  \A o \in Terminals : Held(o)'
<1> SUFFICES ASSUME NEW o \in Terminals PROVE Held(o)'
  OBVIOUS
<1> USE DEF screen, buffer, ends, theirs
<1>1. /\ app = "unlistened" /\ app' = "exited" /\ waiting' = {}
      /\ closed' = closed \cup {t \in Terminals : at[t] # "away"}
      /\ UNCHANGED <<screen, loop, reading, sending, letting, todo, buffer, wire, up, theirs, owed>>
  BY DEF Exits
<1>2. Held(o)
  BY DEF CarryingInv
<1>3. (LettingGo(o)' <=> LettingGo(o)) /\ (LetGo(o, TRUE)' <=> LetGo(o, TRUE))
      /\ (LetGo(o, FALSE)' <=> LetGo(o, FALSE))
  BY <1>1 DEF LettingGo, LetGo
<1>4. Untouched(o) => Untouched(o)'
  BY <1>1, <1>3 DEF Untouched
<1>5. Placed(o)'
  BY <1>1, <1>2, <1>3, <1>4 DEF Placed, Held
<1>6. Stream(o)' = Stream(o) /\ Written(o)' = Written(o) /\ (HasGone(o)' <=> HasGone(o))
  BY <1>1 DEF Stream, Written, HasGone
<1>7. Reading(o)'
  BY <1>1, <1>2, <1>6 DEF Reading, Held
<1>8. Owed(o)'
  BY <1>1, <1>2, <1>3, <1>6 DEF Owed, Held
<1> QED
  BY <1>5, <1>7, <1>8 DEF Held

LEMMA DrewHeld ==
    ASSUME CarryingInv, app # "exited", Drew
    PROVE  \A o \in Terminals : Held(o)'
<1> SUFFICES ASSUME NEW o \in Terminals PROVE Held(o)'
  OBVIOUS
<1> USE DEF screen, buffer, ends, theirs
<1>1. /\ todo = {} /\ pty' = FALSE /\ chunk' = chunk + 1 /\ todo' = Readers(reading)
      /\ UNCHANGED <<app, reading, sending, letting, ever, ends, wire, up, theirs, owed>>
  BY DEF Drew, Carrying
<1>2. o \in todo' <=> reading[o] = "joined"
  BY <1>1 DEF Readers
<1>3. Held(o) /\ chunk \in Nat /\ since[o] \in Nat
  BY DEF CarryingInv, CarryingTypeOK
<1>4. LettingGo(o)' <=> LettingGo(o)
  BY <1>1 DEF LettingGo, LetGo
<1>5. Untouched(o) => Untouched(o)'
  BY <1>1, <1>2, <1>4 DEF Untouched
<1>6. Placed(o)'
  BY <1>1, <1>3, <1>4, <1>5 DEF Placed, Held, LetGo
<1>7. Stream(o)' = Stream(o) /\ (HasGone(o)' <=> HasGone(o))
  BY <1>1 DEF Stream, HasGone
<1>8. reading[o] = "joined" => Written(o)' = Written(o)
  BY <1>1, <1>2, <1>3 DEF Written
<1>9. Reading(o)'
  <2> SUFFICES ASSUME reading[o] = "joined" PROVE Reading(o)'
    BY <1>1 DEF Reading
  <2>1. since[o] <= chunk /\ since'[o] = since[o]
    BY <1>1, <1>3 DEF Held, Reading
  <2>2. since'[o] <= chunk' /\ since'[o] < chunk'
    BY <1>1, <1>3, <2>1
  <2> QED
    BY <1>1, <1>2, <1>3, <1>7, <1>8, <2>2 DEF Held, Reading
<1>10. Owed(o)'
  BY <1>1, <1>3, <1>7 DEF Owed, Held, LetGo
<1> QED
  BY <1>6, <1>9, <1>10 DEF Held

LEMMA WritesHeld ==
    ASSUME CarryingInv, app # "exited", NEW t \in Terminals, Writes(t)
    PROVE  \A o \in Terminals : Held(o)'
<1> SUFFICES ASSUME NEW o \in Terminals PROVE Held(o)'
  OBVIOUS
<1> USE DEF screen, buffer, ends, theirs
<1> DEFINE f == Frame("output", <<chunk>>)
<1>1. /\ t \in todo /\ todo' = todo \ {t} /\ Puts(t, f, reading)
      /\ UNCHANGED <<screen, app, loop, going, buffer, ends, up, theirs, owed>>
  BY DEF Writes
<1>2. f \in Frames /\ f.of = <<chunk>>
  BY ChunkFrame DEF CarryingInv, Frame
<1> HIDE DEF f
<1>3. CarryingTypeOK /\ reading \in [Terminals -> Listed]
  BY DEF CarryingInv, CarryingTypeOK, Listed
<1>4. \/ reading[t] = "off" /\ reading' = reading /\ UNCHANGED <<letting, sending, wire>>
      \/ reading[t] # "off" /\ Drops(t, reading)
      \/ reading[t] # "off" /\ PouredSo(t, sending[t] \o Halves(f), reading)
  BY <1>1, <1>2, <1>3, PutsOn
<1>5. CASE o # t
  <2>1. /\ reading'[o] = reading[o] /\ sending'[o] = sending[o] /\ wire'[o] = wire[o]
        /\ LetGo(o, TRUE)' <=> LetGo(o, TRUE)
        /\ LetGo(o, FALSE)' <=> LetGo(o, FALSE)
    <3>1. CASE reading' = reading /\ UNCHANGED <<letting, sending, wire>>
      BY <3>1 DEF LetGo
    <3>2. CASE Drops(t, reading)
      BY <1>3, <1>5, <3>2, DropsApart
    <3>3. CASE PouredSo(t, sending[t] \o Halves(f), reading)
      <4> DEFINE pieces == sending[t] \o Halves(f)
      <4>1. PouredSo(t, pieces, reading)
        BY <3>3
      <4> HIDE DEF pieces
      <4> QED
        BY <1>3, <1>5, <4>1, PouredApart
    <3> QED
      BY <1>4, <3>1, <3>2, <3>3
  <2>2. Apart(o) /\ Meanwhile
    BY <1>1, <1>5, <2>1 DEF Apart, Meanwhile
  <2> QED
    BY <2>2, ApartHeld DEF CarryingInv
<1>6. CASE o = t
  <2>1. /\ Held(t) /\ at[t] # "away" /\ up[t] = <<>> /\ up' = up /\ t \notin todo'
    BY <1>1 DEF CarryingInv, Held, Placed, Untouched
  <2>2. CASE reading[t] = "off" /\ reading' = reading /\ UNCHANGED <<letting, sending, wire>>
    <3>1. Placed(t)'
      BY <1>1, <2>1, <2>2 DEF Held, Placed, LettingGo, LetGo
    <3>2. Owed(t)'
      BY <1>1, <2>1, <2>2 DEF Held, Owed, HasGone, LetGo
    <3> QED
      BY <1>6, <2>2, <3>1, <3>2 DEF Held, Reading
  <2>3. CASE reading[t] # "off" /\ Drops(t, reading)
    <3>1. UNCHANGED <<at, waiting, closed, owed>> /\ up'[t] = <<>>
      BY <1>1, <2>1
    <3> QED
      BY <1>3, <1>6, <2>1, <2>3, <3>1, DropsHeld
  <2>4. CASE reading[t] # "off" /\ PouredSo(t, sending[t] \o Halves(f), reading)
    <3>1. reading' = reading /\ letting' = letting /\ ~HasGone(t)
      BY <2>4 DEF PouredSo, Poured
    <3>2. t \notin owed
      BY <2>1, <2>4 DEF Held, Owed
    <3>3. Placed(t)'
      BY <1>1, <2>1, <3>1 DEF Held, Placed, LettingGo, LetGo
    <3>4. Reading(t)'
      <4> SUFFICES ASSUME reading[t] = "joined" PROVE Reading(t)'
        BY <3>1 DEF Reading
      <4>1. /\ ever /\ since[t] < chunk /\ Whole(Stream(t))
            /\ got[t] \o Drawn(Stream(t)) = Run(since[t], chunk - 1 - since[t])
        BY <1>1, <2>1, <3>1 DEF Held, Reading, Written
      <4>2. /\ Whole(Stream(t)') /\ Stream(t)' # <<>>
            /\ Drawn(Stream(t)') = Drawn(Stream(t)) \o <<chunk>>
        BY <1>1, <1>2, <1>3, <2>4, <4>1, StreamWritten
      <4>a. chunk \in Nat /\ since[t] \in Nat /\ since[t] < chunk
        BY <1>3, <4>1 DEF CarryingTypeOK
      <4>b. Drawn(Stream(t)) \in Seq(Nat)
        BY <1>3, StreamOf
      <4>3. got[t] \in Seq(Nat) /\ Drawn(Stream(t)) \in Seq(Nat) /\ <<chunk>> \in Seq(Nat)
            /\ chunk \in Nat /\ since[t] \in Nat
        BY <1>3, <4>a, <4>b DEF CarryingTypeOK
      <4> DEFINE n == chunk - 1 - since[t]
                 d == Drawn(Stream(t))
      <4>4. n \in Nat /\ since[t] + n + 1 = chunk /\ n + 1 = chunk - since[t]
        BY <4>a
      <4>5. Run(since[t], n) \o <<since[t] + n + 1>> = Run(since[t], n + 1)
        <5> HIDE DEF n
        <5> QED
          BY <4>3, <4>4, RunMore
      <4>6. Run(since[t], n) \o <<chunk>> = Run(since[t], chunk - since[t])
        BY <4>4, <4>5
      <4>7. got[t] \o d = Run(since[t], n)
        BY <4>1
      <4>8. d \in Seq(Nat)
        BY <4>3
      <4> HIDE DEF n, d
      <4>9. got[t] \o (d \o <<chunk>>) = (got[t] \o d) \o <<chunk>>
        BY <4>3, <4>8, NumbersJoin, Zenon
      <4>10. got[t] \o (d \o <<chunk>>) = Run(since[t], chunk - since[t])
        BY <4>6, <4>7, <4>9
      <4>11. /\ got'[t] = got[t] /\ since'[t] = since[t] /\ Written(t)' = chunk - since[t]
             /\ ever' = ever /\ t \notin owed' /\ chunk' = chunk
        BY <1>1, <2>1, <3>2 DEF Written
      <4>12. got'[t] \o Drawn(Stream(t)') = Run(since'[t], Written(t)')
        BY <4>2, <4>10, <4>11 DEF d
      <4>13. since'[t] <= chunk'
        BY <4>1, <4>3, <4>11
      <4> QED
        BY <2>1, <4>1, <4>2, <4>11, <4>12, <4>13 DEF Reading
    <3>5. Owed(t)'
      BY <1>1, <3>2 DEF Owed
    <3> QED
      BY <1>6, <3>3, <3>4, <3>5 DEF Held
  <2> QED
    BY <1>4, <2>2, <2>3, <2>4
<1> QED
  BY <1>5, <1>6

LEMMA SendsHeld ==
    ASSUME CarryingInv, app # "exited", NEW t \in Terminals, Sends(t)
    PROVE  \A o \in Terminals : Held(o)'
<1> SUFFICES ASSUME NEW o \in Terminals PROVE Held(o)'
  OBVIOUS
<1> USE DEF screen, buffer, ends, theirs
<1>1. /\ todo = {} /\ Pours(t, sending[t], reading) /\ reading[t] # "off" /\ sending[t] # <<>>
      /\ UNCHANGED <<screen, app, loop, going, todo, buffer, ends, up, theirs, owed>>
  BY DEF Sends, Carrying
<1>2. CarryingTypeOK /\ reading \in [Terminals -> Listed] /\ sending[t] \in Seq(Piece)
  BY DEF CarryingInv, CarryingTypeOK, Listed
<1>3. Drops(t, reading) \/ PouredSo(t, sending[t], reading)
  BY <1>1, <1>2, PoursOn
<1>4. CASE o # t
  <2>1. /\ reading'[o] = reading[o] /\ sending'[o] = sending[o] /\ wire'[o] = wire[o]
        /\ LetGo(o, TRUE)' <=> LetGo(o, TRUE)
        /\ LetGo(o, FALSE)' <=> LetGo(o, FALSE)
    <3>1. CASE Drops(t, reading)
      BY <1>2, <1>4, <3>1, DropsApart
    <3>2. CASE PouredSo(t, sending[t], reading)
      BY <1>2, <1>4, <3>2, PouredApart
    <3> QED
      BY <1>3, <3>1, <3>2
  <2>2. Apart(o) /\ Meanwhile
    BY <1>1, <1>4, <2>1 DEF Apart, Meanwhile
  <2> QED
    BY <2>2, ApartHeld DEF CarryingInv
<1>5. CASE o = t
  <2>1. Held(t) /\ at[t] # "away" /\ up[t] = <<>> /\ up' = up
    BY <1>1 DEF CarryingInv, Held, Placed, Untouched
  <2>2. CASE Drops(t, reading)
    <3>1. UNCHANGED <<at, waiting, closed, owed>> /\ up'[t] = <<>>
      BY <1>1, <2>1
    <3> QED
      BY <1>1, <1>2, <1>5, <2>1, <2>2, <3>1, DropsHeld
  <2>3. CASE PouredSo(t, sending[t], reading)
    <3>1. reading' = reading /\ letting' = letting
      BY <2>3 DEF PouredSo, Poured
    <3>2. t \notin owed
      BY <1>1, <2>1 DEF Held, Owed
    <3>3. Placed(t)'
      BY <1>1, <2>1, <3>1 DEF Held, Placed, LettingGo, LetGo
    <3>4. Stream(t)' = Stream(t)
      BY <1>1, <1>2, <2>3, StreamStays
    <3>5. Written(t)' = Written(t) /\ (HasGone(t)' <=> HasGone(t))
      BY <1>1 DEF Written, HasGone
    <3>6. Reading(t)'
      BY <1>1, <2>1, <3>1, <3>4, <3>5 DEF Held, Reading
    <3>7. Owed(t)'
      BY <1>1, <3>2 DEF Owed
    <3> QED
      BY <1>5, <3>3, <3>6, <3>7 DEF Held
  <2> QED
    BY <1>3, <2>2, <2>3
<1> QED
  BY <1>4, <1>5

LEMMA ArrivedHeld ==
    ASSUME CarryingInv, app # "exited", NEW t \in Terminals, Arrived(t)
    PROVE  \A o \in Terminals : Held(o)'
<1> SUFFICES ASSUME NEW o \in Terminals PROVE Held(o)'
  OBVIOUS
<1> USE DEF screen, buffer, ends, theirs
<1>1. /\ t \in waiting /\ waiting' = waiting \ {t} /\ reading' = [reading EXCEPT ![t] = "come"]
      /\ UNCHANGED <<screen, app, loop, going, todo, sending, letting, buffer,
                     listening, closed, wire, up, theirs, owed>>
  BY DEF Arrived
<1>2. CarryingTypeOK
  BY DEF CarryingInv
<1>3. CASE o # t
  <2>1. Apart(o) /\ Meanwhile
    BY <1>1, <1>2, <1>3 DEF Apart, Meanwhile, LetGo, CarryingTypeOK
  <2> QED
    BY <2>1, ApartHeld DEF CarryingInv
<1>4. CASE o = t
  <2>1. /\ Held(t) /\ at[t] # "away" /\ t \notin closed /\ ~LettingGo(t) /\ t \notin owed
        /\ reading'[t] = "come" /\ t \notin waiting'
    BY <1>1, <1>2 DEF CarryingInv, Held, Placed, Owed, CarryingTypeOK
  <2>2. ~LettingGo(t)' /\ ~LetGo(t, TRUE)'
    BY <1>1, <2>1 DEF LettingGo, LetGo
  <2>3. up[t] # <<>> => Untouched(t)'
    BY <1>1, <2>1, <2>2 DEF Held, Placed, Untouched
  <2>4. Placed(t)'
    BY <1>1, <2>1, <2>2, <2>3 DEF Held, Placed
  <2> QED
    BY <1>1, <1>4, <2>1, <2>4 DEF Held, Reading, Owed
<1> QED
  BY <1>3, <1>4

LEMMA HangsUpHeld ==
    ASSUME CarryingInv, app # "exited", NEW t \in Terminals, HangsUp(t)
    PROVE  \A o \in Terminals : Held(o)'
<1> SUFFICES ASSUME NEW o \in Terminals PROVE Held(o)'
  OBVIOUS
<1> USE DEF screen, buffer, ends, theirs
<1>1. /\ reading[t] # "off" /\ up[t] = <<>>
      /\ reading' = [reading EXCEPT ![t] = "off"] /\ closed' = closed \cup {t}
      /\ UNCHANGED <<screen, app, loop, going, todo, sending, letting, buffer,
                     listening, waiting, wire, up, theirs, owed>>
  BY DEF HangsUp
<1>2. CarryingTypeOK
  BY DEF CarryingInv
<1>3. CASE o # t
  <2>1. Apart(o) /\ Meanwhile
    BY <1>1, <1>2, <1>3 DEF Apart, Meanwhile, LetGo, CarryingTypeOK
  <2> QED
    BY <2>1, ApartHeld DEF CarryingInv
<1>4. CASE o = t
  <2>1. /\ Held(t) /\ at[t] # "away" /\ t \notin waiting /\ ~LettingGo(t) /\ t \notin owed
        /\ reading'[t] = "off" /\ t \in closed'
    BY <1>1, <1>2 DEF CarryingInv, Held, Placed, Owed, CarryingTypeOK
  <2>2. ~LettingGo(t)' /\ ~LetGo(t, TRUE)'
    BY <1>1, <2>1 DEF LettingGo, LetGo
  <2>3. Placed(t)'
    BY <1>1, <2>1, <2>2 DEF Held, Placed
  <2> QED
    BY <1>1, <1>4, <2>1, <2>3 DEF Held, Reading, Owed
<1> QED
  BY <1>3, <1>4

LEMMA JoinsHeld ==
    ASSUME CarryingInv, app # "exited", NEW t \in Terminals, Joins(t)
    PROVE  \A o \in Terminals : Held(o)'
<1> SUFFICES ASSUME NEW o \in Terminals PROVE Held(o)'
  OBVIOUS
<1> USE DEF screen, buffer, ends, theirs
<1> DEFINE list == [reading EXCEPT ![t] = "joined"]
           f == Frame("output", kept)
<1>1. /\ reading[t] # "off" /\ up[t] # <<>> /\ Head(up[t]) = "hello" /\ todo = {}
      /\ up' = [up EXCEPT ![t] = Tail(@)] /\ ever' = TRUE
      /\ redraws' = IF app = "opening" THEN redraws ELSE redraws + 1
      /\ UNCHANGED <<pty, chunk, app, loop, going, todo, listening, waiting, at, held, got>>
      /\ UNCHANGED <<spilled, closed, owed>>
  BY DEF Joins, Says, Carrying
<1>2. CarryingTypeOK /\ list \in [Terminals -> Listed] /\ list[t] = "joined"
  BY DEF CarryingInv, CarryingTypeOK, Listed
<1>3. \/ kept # <<>> /\ Puts(t, f, list) /\ UNCHANGED since
      \/ /\ kept = <<>> /\ since' = [since EXCEPT ![t] = chunk]
         /\ reading' = list /\ UNCHANGED <<letting, sending, wire>>
  BY DEF Joins
<1>4. up'[t] = <<>>
  <2>1. up[t] = <<"hello">> \/ up[t] = <<"detach">>
    BY <1>1, <1>2 DEF CarryingTypeOK
  <2>2. Tail(<<"hello">>) = <<>> /\ Tail(<<"detach">>) = <<>>
    OBVIOUS
  <2>3. Tail(up[t]) = <<>>
    BY <2>1, <2>2
  <2> QED
    BY <1>1, <1>2, <2>3 DEF CarryingTypeOK
<1>5. kept # <<>> => f \in Frames /\ f.of = kept
  BY <1>2, OutputFrame DEF CarryingTypeOK, Frame
<1>o. \A k \in Terminals : k # t => list[k] = reading[k]
  BY <1>2 DEF CarryingTypeOK
<1> HIDE DEF list, f
<1>6. kept # <<>> => Drops(t, list) \/ PouredSo(t, sending[t] \o Halves(f), list)
  BY <1>2, <1>3, <1>5, PutsOn
<1>7. CASE o # t
  <2>1. /\ reading'[o] = reading[o] /\ sending'[o] = sending[o] /\ wire'[o] = wire[o]
        /\ LetGo(o, TRUE)' <=> LetGo(o, TRUE)
        /\ LetGo(o, FALSE)' <=> LetGo(o, FALSE)
    <3>1. CASE reading' = list /\ UNCHANGED <<letting, sending, wire>>
      BY <1>7, <1>o, <3>1 DEF LetGo
    <3>2. CASE Drops(t, list)
      BY <1>2, <1>7, <1>o, <3>2, DropsApart
    <3>3. CASE PouredSo(t, sending[t] \o Halves(f), list)
      <4> DEFINE pieces == sending[t] \o Halves(f)
      <4>1. PouredSo(t, pieces, list)
        BY <3>3
      <4> HIDE DEF pieces
      <4> QED
        BY <1>2, <1>7, <1>o, <4>1, PouredApart
    <3> QED
      BY <1>3, <1>6, <3>1, <3>2, <3>3
  <2>2. since'[o] = since[o] /\ up'[o] = up[o]
    BY <1>1, <1>2, <1>3, <1>7 DEF CarryingTypeOK
  <2>3. (app # "opening" => redraws' > 0) /\ redraws \in Nat /\ redraws' \in Nat
    BY <1>1, <1>2 DEF CarryingTypeOK
  <2>4. Apart(o) /\ Meanwhile
    BY <1>1, <1>7, <2>1, <2>2, <2>3 DEF Apart, Meanwhile
  <2> QED
    BY <2>4, ApartHeld DEF CarryingInv
<1>8. CASE o = t
  <2>1. /\ Held(t) /\ at[t] # "away" /\ Untouched(t) /\ t \notin waiting /\ t \notin closed
        /\ ~LetGo(t, TRUE) /\ ~LetGo(t, FALSE)
    BY <1>1 DEF CarryingInv, Held, Placed, LettingGo
  <2>2. CASE kept # <<>> /\ Drops(t, list)
    <3>1. UNCHANGED <<at, waiting, closed, owed>>
      BY <1>1
    <3> QED
      BY <1>1, <1>2, <1>4, <1>8, <2>1, <2>2, <3>1, DropsHeld
  <2>3. ASSUME reading'[t] = "joined", letting' = letting PROVE Placed(t)' /\ Owed(t)'
    BY <1>1, <1>4, <2>1, <2>3 DEF Held, Placed, LettingGo, LetGo, Owed, Untouched
  <2>4. /\ Stream(t) = <<>> /\ got[t] = <<>> /\ since[t] = 0 /\ t \notin todo /\ t \notin owed
        /\ chunk \in Nat /\ (app # "opening" => redraws' > 0)
    <3>1. <<>> \o <<>> = <<>>
      OBVIOUS
    <3>2. Stream(t) = (<<>> \o <<>>) \o <<>>
      BY <2>1 DEF Untouched, Stream
    <3> QED
      BY <1>1, <1>2, <2>1, <3>1, <3>2 DEF Untouched, CarryingTypeOK
  <2>5. CASE kept # <<>> /\ PouredSo(t, sending[t] \o Halves(f), list)
    <3>1. reading' = list /\ letting' = letting
      BY <2>5 DEF PouredSo, Poured
    <3>2. since' = since /\ kept = Run(0, chunk) /\ kept \in Seq(Nat)
      BY <1>2, <1>3, <2>5 DEF CarryingInv, Kept, CarryingTypeOK
    <3>3. Whole(Stream(t)') /\ Drawn(Stream(t)') = Drawn(Stream(t)) \o kept
      <4>1. held'[t] = held[t] /\ Whole(Stream(t))
        BY <1>1, <2>4, WholeNone
      <4> QED
        BY <1>2, <1>5, <2>5, <4>1, StreamWritten
    <3>4. got'[t] \o Drawn(Stream(t)') = kept
      <4>1. <<>> \o kept = kept
        BY <3>2, ConcatEmptySeq
      <4> QED
        BY <1>1, <2>4, <3>3, <4>1, DrawnNone
    <3>5. Written(t)' = chunk /\ since'[t] = 0 /\ since'[t] <= chunk'
      BY <1>1, <2>4, <3>2 DEF Written
    <3>6. Reading(t)'
      BY <1>1, <2>4, <3>2, <3>3, <3>4, <3>5 DEF Reading
    <3> QED
      BY <1>2, <1>8, <2>3, <3>1, <3>6 DEF Held
  <2>6. CASE /\ kept = <<>> /\ since' = [since EXCEPT ![t] = chunk]
             /\ reading' = list /\ UNCHANGED <<letting, sending, wire>>
    <3>1. Stream(t)' = <<>> /\ since'[t] = chunk
      BY <1>1, <1>2, <2>4, <2>6 DEF Stream, CarryingTypeOK
    <3>2. Whole(Stream(t)') /\ got'[t] \o Drawn(Stream(t)') = <<>>
      <4>1. <<>> \o <<>> = <<>>
        OBVIOUS
      <4> QED
        BY <1>1, <2>4, <3>1, <4>1, WholeNone, DrawnNone
    <3>3. Written(t)' = 0
      BY <1>1, <2>4, <3>1 DEF Written
    <3>4. Run(since'[t], Written(t)') = <<>>
      BY <3>3, RunNone
    <3>5. Reading(t)'
      BY <1>1, <2>4, <3>1, <3>2, <3>4 DEF Reading
    <3> QED
      BY <1>2, <1>8, <2>3, <2>6, <3>5 DEF Held
  <2> QED
    BY <1>3, <1>6, <2>2, <2>5, <2>6
<1> QED
  BY <1>7, <1>8

LEMMA AnswersHeld ==
    ASSUME CarryingInv, app # "exited", NEW t \in Terminals, AnswersDetach(t)
    PROVE  \A o \in Terminals : Held(o)'
<1> SUFFICES ASSUME NEW o \in Terminals PROVE Held(o)'
  OBVIOUS
<1> USE DEF screen, buffer, ends, theirs
<1> DEFINE list == [reading EXCEPT ![t] = "off"]
           answer == Halves(Frame("answer", <<>>))
<1>1. /\ reading[t] # "off" /\ up[t] # <<>> /\ LetsGoOf(list)
      /\ up' = [up EXCEPT ![t] = Tail(@)] /\ closed' = closed \cup {t}
      /\ wire' = [wire EXCEPT ![t] = @ \o SubSeq(answer, 1, Fits(t, answer))]
      /\ UNCHANGED <<pty, chunk, app, loop, going, todo, listening, waiting, at, held, got>>
      /\ UNCHANGED <<redraws, buffer, since>>
  BY DEF AnswersDetach, Says
<1>2. CarryingTypeOK /\ list[t] = "off" /\ \A k \in Terminals : k # t => list[k] = reading[k]
  BY DEF CarryingInv, CarryingTypeOK
<1> HIDE DEF list, answer
<1>3. CASE o # t
  <2>1. /\ wire'[o] = wire[o] /\ up'[o] = up[o] /\ (o \in closed' <=> o \in closed)
        /\ list[o] = reading[o]
    BY <1>1, <1>2, <1>3 DEF CarryingTypeOK
  <2>2. CASE reading[o] = "joined"
    BY <1>1, <1>2, <2>1, <2>2, LetsGoHeld DEF CarryingInv
  <2>3. CASE reading[o] # "joined"
    <3>1. Apart(o)
      BY <1>1, <1>2, <2>1, <2>3, LetsGoApart DEF Apart
    <3>2. Meanwhile
      BY <1>1 DEF Meanwhile
    <3> QED
      BY <3>1, <3>2, ApartHeld DEF CarryingInv
  <2> QED
    BY <2>2, <2>3
<1>4. CASE o = t
  <2>1. /\ Held(t) /\ at[t] # "away" /\ Untouched(t) /\ t \notin waiting
        /\ ~LetGo(t, TRUE) /\ ~LetGo(t, FALSE)
    BY <1>1 DEF CarryingInv, Held, Placed, LettingGo
  <2>2. /\ reading'[t] = "off" /\ (t \in owed' <=> t \in owed)
        /\ ~LetGo(t, TRUE)' /\ ~LetGo(t, FALSE)'
    BY <1>1, <1>2, <2>1, LetsGoApart
  <2>3. up'[t] = <<>>
    <3>1. up[t] = <<"hello">> \/ up[t] = <<"detach">>
      BY <1>1, <1>2 DEF CarryingTypeOK
    <3>2. Tail(<<"hello">>) = <<>> /\ Tail(<<"detach">>) = <<>>
      OBVIOUS
    <3>3. Tail(up[t]) = <<>>
      BY <3>1, <3>2
    <3> QED
      BY <1>1, <1>2, <3>3 DEF CarryingTypeOK
  <2>4. Placed(t)'
    BY <1>1, <2>1, <2>2, <2>3 DEF Placed, LettingGo
  <2>5. t \notin owed'
    BY <2>1, <2>2 DEF Untouched
  <2> QED
    BY <1>4, <2>2, <2>4, <2>5 DEF Held, Reading, Owed
<1> QED
  BY <1>3, <1>4

LEMMA DialsHeld ==
    ASSUME CarryingInv, NEW t \in Terminals, NEW what \in {"hello", "detach"}, Dials(t, what)
    PROVE  \A o \in Terminals : Held(o)'
<1> SUFFICES ASSUME NEW o \in Terminals PROVE Held(o)'
  OBVIOUS
<1> USE DEF screen, buffer, ends, theirs
<1>1. /\ at[t] = "away" /\ waiting' = waiting \cup {t}
      /\ at' = [at EXCEPT ![t] = IF what = "hello" THEN "reading" ELSE "asking"]
      /\ up' = [up EXCEPT ![t] = <<what>>]
      /\ UNCHANGED <<screen, app, loop, going, todo, reading, sending, letting, buffer,
                     listening, closed, wire, held, got, since, owed>>
  BY DEF Dials
<1>2. CarryingTypeOK
  BY DEF CarryingInv
<1>3. CASE o # t
  <2>1. Apart(o) /\ Meanwhile
    BY <1>1, <1>2, <1>3 DEF Apart, Meanwhile, LetGo, CarryingTypeOK
  <2> QED
    BY <2>1, ApartHeld DEF CarryingInv
<1>4. CASE o = t
  <2>1. /\ reading[t] = "off" /\ t \notin closed /\ Untouched(t)
        /\ at'[t] \in {"reading", "asking"} /\ up'[t] = <<what>>
    BY <1>1, <1>2 DEF CarryingInv, Held, Placed, CarryingTypeOK
  <2>2. Untouched(t)'
    BY <1>1, <2>1 DEF Untouched, LettingGo, LetGo
  <2>3. Placed(t)'
    BY <1>1, <2>1, <2>2 DEF Placed, Untouched, LettingGo
  <2> QED
    BY <1>4, <2>2, <2>3, <2>1, <1>1 DEF Held, Reading, Owed, Untouched
<1> QED
  BY <1>3, <1>4

\* A terminal coming to its end, which is untold only where nothing waits for it and its socket
\* has been closed.
LEMMA EndedHeld ==
    ASSUME CarryingInv, NEW t \in Terminals, NEW how \in {"over", "untold", "broken"}, Ended(t, how),
           ~HasGone(t), how = "untold" => t \in closed /\ wire[t] = <<>>,
           UNCHANGED <<screen, app, loop, going, todo, reading, sending, letting, buffer, ends,
                       up, owed>>
    PROVE  \A o \in Terminals : Held(o)'
<1> SUFFICES ASSUME NEW o \in Terminals PROVE Held(o)'
  OBVIOUS
<1> USE DEF screen, buffer, ends, theirs
<1>2. CarryingTypeOK
  BY DEF CarryingInv
<1>3. CASE o # t
  <2>1. Apart(o) /\ Meanwhile
    BY <1>2, <1>3 DEF Apart, Meanwhile, LetGo, CarryingTypeOK, Ended
  <2> QED
    BY <2>1, ApartHeld DEF CarryingInv
<1>4. CASE o = t
  <2>1. /\ Held(t) /\ at[t] # "away" /\ at'[t] = how /\ since'[t] = 0 /\ HasGone(t)'
        /\ wire'[t] = <<>> /\ held'[t] = <<>> /\ got'[t] = <<>>
    BY <1>2 DEF CarryingInv, HasGone, Ended, CarryingTypeOK
  <2>2. Untouched(t) => Untouched(t)'
    BY <2>1 DEF Untouched, LettingGo, LetGo
  <2>3. Placed(t)'
    BY <2>1, <2>2 DEF Held, Placed, LettingGo, LetGo
  <2>4. Reading(t)'
    <3>1. reading[t] = "joined" => 0 <= chunk /\ (t \in todo => 0 < chunk)
      BY <1>2, <2>1 DEF Held, Reading, CarryingTypeOK
    <3> QED
      BY <2>1, <3>1 DEF Held, Reading
  <2>5. Owed(t)'
    <3>1. t \in owed /\ how = "untold" => Rushed
      <4> SUFFICES ASSUME t \in owed, how = "untold" PROVE Rushed
        OBVIOUS
      <4>1. LetGo(t, TRUE) /\ t \in closed
        BY <2>1 DEF Held, Owed
      <4>2. letting # {} /\ app = "exited"
        BY <2>1, <4>1 DEF Held, Placed, LettingGo, LetGo
      <4> QED
        BY <4>2 DEF CarryingInv, Rounds
    <3> QED
      BY <2>1, <3>1 DEF Held, Owed
  <2> QED
    BY <1>4, <2>3, <2>4, <2>5 DEF Held
<1> QED
  BY <1>3, <1>4

\* What is read leaves the rest of whole frames, and either draws something or leaves something.
LEMMA ReadingOn ==
    ASSUME NEW fed \in Seq(Piece), NEW rest \in Seq(Piece), NEW n \in Nat, n = Found(fed),
           Whole(fed \o rest), fed # <<>>, \A i \in 1 .. n : fed[2 * i].frame.kind = "output"
    PROVE  LET front == SubSeq(fed, 1, 2 * n)
               back == SubSeq(fed, 2 * n + 1, Len(fed))
           IN /\ front \in Seq(Piece) /\ back \in Seq(Piece) /\ Whole(back \o rest)
              /\ Drawn(fed \o rest) = Drawn(front) \o Drawn(back \o rest)
              /\ Drawn(front) # <<>> \/ back # <<>>
<1> DEFINE front == SubSeq(fed, 1, 2 * n)
           back == SubSeq(fed, 2 * n + 1, Len(fed))
           more == back \o rest
<1>1. n \in 0 .. (Len(fed) \div 2)
  BY FoundSome
<1>2. /\ front \in Seq(Piece) /\ Len(front) = 2 * n /\ back \in Seq(Piece)
      /\ front \o back = fed
  BY <1>1, FoundParts
<1>e. \A i \in 1 .. 2 * n : front[i] = fed[i]
  <2> DEFINE k == 2 * n
  <2>1. k \in Nat /\ k <= Len(fed) /\ Len(fed) \in Nat
    BY <1>1, LenProperties, Halving
  <2>2. \A i \in 1 .. Len(fed) : fed[i] \in Piece
    BY ElementOfSeq
  <2> HIDE DEF k
  <2>3. 1 \in Int /\ k \in Int /\ \A i \in 1 .. k : fed[i] \in Piece
    BY <2>1, <2>2
  <2>4. \A i \in 1 .. k : SubSeq(fed, 1, k)[i] = fed[i]
    BY <2>1, <2>3, SubSeqProperties
  <2> QED
    BY <2>4 DEF k
<1> HIDE DEF front, back
<1>3. more \in Seq(Piece)
  BY <1>2, ConcatProperties
<1>4. fed \o rest = front \o more
  <2>1. Then(Then(front, back), rest) = Then(front, Then(back, rest))
    BY <1>2, ThenJoins
  <2> QED
    BY <1>2, <2>1, Zenon DEF Then
<1> HIDE DEF more
<1>5. Whole(front \o more)
  BY <1>4
<1>6. Whole(more) /\ Whole(front)
  BY <1>2, <1>3, <1>5, WholeRest, WholeStart
<1>7. Drawn(front \o more) = Drawn(front) \o Drawn(more)
  BY <1>2, <1>3, DrawnBoth
<1>8. Drawn(front) # <<>> \/ back # <<>>
  <2>1. CASE n = 0
    <3>1. front = <<>>
      BY <1>2, <2>1, EmptySeq
    <3>2. <<>> \o back = back
      BY <1>2, ConcatEmptySeq
    <3> QED
      BY <1>2, <3>1, <3>2
  <2>2. CASE n # 0
    <3> DEFINE k == 2 * n
    <3>1. k \in Nat \ {0} /\ Len(front) = k /\ k \in 1 .. 2 * n /\ n \in 1 .. n
      BY <1>2, <2>2
    <3>2. PICK m \in Nat : Len(front) = 2 * m /\ Pairs(front, m)
      BY <1>6 DEF Whole
    <3>3. m = n
      BY <1>2, <3>2
    <3>4. front[k] = [frame |-> front[k].frame, half |-> 2]
      BY <3>1, <3>2, <3>3 DEF Pairs
    <3>5. front[k] = fed[k] /\ fed[k].frame.kind = "output"
      BY <1>e, <3>1
    <3>6. front[k].half = 2
      BY <3>4
    <3> HIDE DEF k
    <3> QED
      BY <1>2, <3>1, <3>5, <3>6, DrawnSome
  <2> QED
    BY <2>1, <2>2
<1> QED
  BY <1>2, <1>4, <1>6, <1>7, <1>8 DEF front, back, more

LEMMA ReadingWhole ==
    ASSUME NEW fed \in Seq(Piece), NEW n \in Nat, n = Found(fed), Whole(fed)
    PROVE  Len(fed) = 2 * n /\ SubSeq(fed, 2 * n + 1, Len(fed)) = <<>>
<1>1. <<>> \in Seq(Piece) /\ fed \o <<>> = fed
  BY EmptySeq, ConcatEmptySeq
<1>2. n = Len(fed) \div 2
  BY <1>1, FoundAll
<1>3. PICK m \in Nat : Len(fed) = 2 * m
  BY DEF Whole
<1>4. Len(fed) = 2 * n
  BY <1>2, <1>3
<1>5. SubSeq(fed, 2 * n + 1, Len(fed)) = <<>>
  <2> DEFINE k == 2 * n
  <2>1. k \in Nat /\ Len(fed) = k
    BY <1>4
  <2> HIDE DEF k
  <2>2. k + 1 \in Int /\ k \in Int /\ \A i \in k + 1 .. k : fed[i] \in Piece
    BY <2>1
  <2>3. SubSeq(fed, k + 1, k) \in Seq(Piece) /\ Len(SubSeq(fed, k + 1, k)) = 0
    BY <2>1, <2>2, SubSeqProperties
  <2>4. SubSeq(fed, k + 1, k) = <<>>
    BY <2>3, EmptySeq
  <2> QED
    BY <2>1, <2>4 DEF k
<1> QED
  BY <1>4, <1>5

LEMMA ReadsHeld ==
    ASSUME CarryingInv, NEW t \in Terminals, Reads(t)
    PROVE  \A o \in Terminals : Held(o)'
<1> USE DEF screen, buffer, ends, theirs
<1>1. /\ ~HasGone(t) /\ wire[t] # <<>>
      /\ UNCHANGED <<screen, app, loop, going, todo, reading, sending, letting, buffer, ends,
                     up, owed>>
  BY DEF Reads, HasGone
<1>2. CarryingTypeOK
  BY DEF CarryingInv
<1>3. CASE Ended(t, "over")
  BY <1>1, <1>3, EndedHeld
<1>4. CASE ~Ended(t, "over")
  <2> SUFFICES ASSUME NEW o \in Terminals PROVE Held(o)'
    OBVIOUS
  <2>1. PICK fed \in Seq(Piece), n \in Nat :
           /\ fed = held[t] \o wire[t] /\ n = Found(fed)
           /\ \A i \in 1..n : fed[2 * i].frame.kind = "output"
           /\ held' = [held EXCEPT ![t] = SubSeq(fed, 2 * n + 1, Len(fed))]
           /\ got' = [got EXCEPT ![t] = @ \o Drawn(SubSeq(fed, 1, 2 * n))]
           /\ wire' = [wire EXCEPT ![t] = <<>>] /\ UNCHANGED <<at, since>>
    BY <1>2, <1>4, ReadsOn
  <2>2. CASE o # t
    <3>1. Apart(o) /\ Meanwhile
      BY <1>1, <1>2, <2>1, <2>2 DEF Apart, Meanwhile, LetGo, CarryingTypeOK
    <3> QED
      BY <3>1, ApartHeld DEF CarryingInv
  <2>3. CASE o = t
    <3> DEFINE back == SubSeq(fed, 2 * n + 1, Len(fed))
               front == SubSeq(fed, 1, 2 * n)
    <3>1. /\ Held(t) /\ up[t] = <<>> /\ at[t] # "away" /\ fed # <<>>
          /\ held'[t] = back /\ got'[t] = got[t] \o Drawn(front) /\ wire'[t] = <<>>
          /\ at' = at /\ since' = since
      <4>1. Held(t) /\ up[t] = <<>> /\ at[t] # "away"
        BY <1>1 DEF CarryingInv, Held, Placed, Untouched
      <4>2. /\ held'[t] = back /\ got'[t] = got[t] \o Drawn(front) /\ wire'[t] = <<>>
            /\ at' = at /\ since' = since
        BY <1>2, <2>1 DEF CarryingTypeOK
      <4>3. fed # <<>>
        <5>1. held[t] \in Seq(Piece) /\ wire[t] \in Seq(Piece)
          BY <1>2 DEF CarryingTypeOK
        <5>2. Len(held[t] \o wire[t]) = Len(held[t]) + Len(wire[t]) /\ Len(held[t]) \in Nat
          BY <5>1, ConcatProperties, LenProperties
        <5>3. Len(wire[t]) # 0 /\ Len(wire[t]) \in Nat
          BY <1>1, <5>1, EmptySeq, LenProperties
        <5>4. fed = held[t] \o wire[t]
          BY <2>1
        <5> DEFINE a == Len(held[t])
                   b == Len(wire[t])
        <5>5. Len(fed) = a + b /\ a \in Nat /\ b \in Nat /\ b # 0
          BY <5>2, <5>3, <5>4
        <5> HIDE DEF a, b
        <5>6. Len(fed) # 0
          BY ONLY <5>5
        <5> QED
          BY <5>6, EmptySeq
      <4> QED
        BY <4>1, <4>2, <4>3
    <3>2. Placed(t)'
      BY <1>1, <3>1 DEF Held, Placed, LettingGo, LetGo
    <3>3. ASSUME reading[t] = "joined" PROVE Reading(t)'
      <4> DEFINE rest == sending[t]
                 more == back \o rest
                 drew == Drawn(front)
                 later == Drawn(more)
      <4>1. rest \in Seq(Piece) /\ got[t] \in Seq(Nat)
        BY <1>2 DEF CarryingTypeOK
      <4>2. /\ Whole(fed \o rest) /\ Stream(t) = fed \o rest
            /\ got[t] \o Drawn(fed \o rest) = Run(since[t], Written(t))
        BY <1>1, <2>1, <3>1, <3>3 DEF Held, Reading, Stream
      <4>3. /\ front \in Seq(Piece) /\ back \in Seq(Piece) /\ Whole(more)
            /\ Drawn(fed \o rest) = drew \o later /\ (drew # <<>> \/ back # <<>>)
        <5> HIDE DEF rest
        <5> QED
          BY <2>1, <3>1, <4>1, <4>2, ReadingOn
      <4>4. Stream(t)' = more
        <5>1. back \o <<>> = back
          BY <4>3, ConcatEmptySeq
        <5>2. Stream(t)' = (back \o <<>>) \o rest
          BY <1>1, <3>1 DEF Stream
        <5> QED
          BY <5>1, <5>2
      <4>5. more \in Seq(Piece) /\ Len(more) = Len(back) + Len(rest)
            /\ Len(back) \in Nat /\ Len(rest) \in Nat
        BY <4>1, <4>3, ConcatProperties, LenProperties
      <4>6. drew \in Seq(Nat) /\ later \in Seq(Nat)
        BY <4>3, <4>5, DrawnOf
      <4>7. Written(t)' = Written(t) /\ (HasGone(t)' <=> HasGone(t))
        BY <1>1, <2>1 DEF Written, HasGone
      <4>8. back # <<>> => more # <<>>
        <5>1. back # <<>> => Len(back) # 0
          BY <4>3, EmptySeq
        <5> QED
          BY <4>5, <5>1, EmptySeq
      <4>9. drew # <<>> => got'[t] # <<>>
        <5>1. drew # <<>> => Len(drew) # 0
          BY <4>6, EmptySeq
        <5>2. Len(got[t] \o drew) = Len(got[t]) + Len(drew) /\ Len(got[t]) \in Nat /\ Len(drew) \in Nat
          BY <4>1, <4>6, ConcatProperties, LenProperties
        <5> QED
          BY <3>1, <5>1, <5>2, EmptySeq
      <4> HIDE DEF back, front, more, drew, later, rest
      <4>10. (got[t] \o drew) \o later = got[t] \o (drew \o later)
        BY <4>1, <4>6, NumbersJoin, Zenon
      <4>11. got'[t] \o Drawn(Stream(t)') = Run(since'[t], Written(t)')
        BY <3>1, <4>2, <4>3, <4>4, <4>7, <4>10 DEF drew, later
      <4> QED
        BY <1>1, <2>1, <3>1, <3>3, <4>3, <4>4, <4>7, <4>8, <4>9, <4>11 DEF Held, Reading
    <3>4. ASSUME t \in owed PROVE Owed(t)'
      <4>1. /\ Whole(fed) /\ reading[t] = "off" /\ t \notin waiting /\ at[t] # "untold"
            /\ \/ LetGo(t, TRUE) /\ Len(wire[t]) + 2 <= Room
               \/ wire[t][Len(wire[t])].frame.kind = "gone"
        BY <1>1, <2>1, <3>1, <3>4 DEF Held, Owed, HasGone
      <4>2. Len(fed) = 2 * n /\ back = <<>>
        BY <2>1, <4>1, ReadingWhole
      <4>3. wire[t][Len(wire[t])].frame.kind # "gone"
        <5> DEFINE l == Len(fed)
                   a == Len(held[t])
                   b == Len(wire[t])
        <5>1. held[t] \in Seq(Piece) /\ wire[t] \in Seq(Piece)
          BY <1>2 DEF CarryingTypeOK
        <5>2. /\ l = a + b
              /\ \A i \in 1 .. a + b : fed[i] = IF i <= a THEN held[t][i] ELSE wire[t][i - a]
          BY <2>1, <5>1, ConcatProperties
        <5>3. a \in Nat /\ b \in Nat /\ b # 0
          BY <1>1, <5>1, EmptySeq, LenProperties
        <5>m. l = 2 * n
          BY <4>2
        <5> HIDE DEF l, a, b
        <5>4. l \in 1 .. a + b /\ ~(l <= a) /\ l - a = b
          BY ONLY <5>2, <5>3
        <5>5. fed[l] = wire[t][Len(wire[t])]
          BY <5>2, <5>4 DEF b
        <5>6. n \in 1 .. n /\ l = 2 * n
          BY ONLY <5>2, <5>3, <5>m, n \in Nat
        <5>7. fed[2 * n].frame.kind = "output"
          BY <2>1, <5>6
        <5> QED
          BY <5>5, <5>6, <5>7
      <4>4. LetGo(t, TRUE)' /\ Len(wire'[t]) + 2 <= Room
        <5>1. Len(wire[t]) \in Nat /\ Len(wire[t]) + 2 <= Room /\ LetGo(t, TRUE) /\ Len(<<>>) = 0
          <6>1. wire[t] \in Seq(Piece)
            BY <1>2 DEF CarryingTypeOK
          <6> QED
            BY <4>1, <4>3, <6>1, LenProperties, EmptySeq
        <5>2. 0 + 2 <= Room
          BY <5>1, RoomAssumption
        <5> QED
          BY <1>1, <3>1, <5>1, <5>2 DEF LetGo
      <4>5. Whole(held'[t] \o wire'[t])
        <5>1. <<>> \o <<>> = <<>>
          OBVIOUS
        <5> QED
          BY <3>1, <4>2, <5>1, WholeNone
      <4> QED
        BY <1>1, <3>1, <4>1, <4>4, <4>5 DEF Owed
    <3> QED
      BY <1>1, <2>3, <3>2, <3>3, <3>4 DEF Held, Reading, Owed
  <2> QED
    BY <2>2, <2>3
<1> QED
  BY <1>3, <1>4

LEMMA ClosesHeld ==
    ASSUME CarryingInv, app # "exited", NEW one \in letting, Closes(one)
    PROVE  \A o \in Terminals : Held(o)'
<1> SUFFICES ASSUME NEW o \in Terminals PROVE Held(o)'
  OBVIOUS
<1> USE DEF screen, buffer, ends, theirs
<1> DEFINE t == one.who
           gone == Halves(Frame("gone", <<>>))
<1>1. /\ letting' = letting \ {one} /\ closed' = closed \cup {t}
      /\ wire' = IF one.why /\ ~HasGone(t)
                 THEN [wire EXCEPT ![t] = @ \o SubSeq(gone, 1, Fits(t, gone))]
                 ELSE wire
      /\ UNCHANGED <<screen, app, loop, going, todo, reading, sending, buffer, listening,
                     waiting, up, theirs, owed>>
  BY DEF Closes
<1>2. CarryingTypeOK /\ one \in [who : Terminals, why : BOOLEAN]
  BY DEF CarryingInv, CarryingTypeOK
<1>3. t \in Terminals /\ one.why \in BOOLEAN /\ one = [who |-> t, why |-> one.why]
  BY <1>2
<1> HIDE DEF t, gone
<1>4. CASE o # t
  <2>1. wire'[o] = wire[o]
    BY <1>1, <1>2, <1>3, <1>4 DEF CarryingTypeOK
  <2>2. \A why \in BOOLEAN : [who |-> o, why |-> why] # one
    BY <1>3, <1>4
  <2>3. Apart(o) /\ Meanwhile
    BY <1>1, <1>4, <2>1, <2>2 DEF Apart, Meanwhile, LetGo
  <2> QED
    BY <2>3, ApartHeld DEF CarryingInv
<1>5. CASE o = t
  <2>1. CASE one.why
    <3>1. one = [who |-> t, why |-> TRUE]
      BY <1>3, <2>1
    <3>2. LetGo(t, TRUE) /\ ~LetGo(t, FALSE)
      BY <1>3, <3>1 DEF LetGo, CarryingInv, Held, Placed
    <3>3. ~LetGo(t, TRUE)' /\ ~LetGo(t, FALSE)'
      BY <1>1, <3>1, <3>2 DEF LetGo
    <3>4. /\ Held(t) /\ at[t] # "away" /\ up[t] = <<>> /\ reading[t] = "off" /\ t \notin waiting
      BY <1>3, <3>2 DEF CarryingInv, Held, Placed, LettingGo, Untouched
    <3>5. Placed(t)'
      BY <1>1, <3>3, <3>4 DEF Placed, Held, LettingGo
    <3>6. ASSUME t \in owed, ~HasGone(t) PROVE Owed(t)'
      <4>1. /\ Whole(held[t] \o wire[t]) /\ Len(wire[t]) + 2 <= Room
            /\ at[t] # "untold"
        BY <3>2, <3>4, <3>6 DEF Held, Owed
      <4>2. gone \in Seq(Piece) /\ Whole(gone) /\ Len(gone) = 2 /\ gone[2].frame.kind = "gone"
        <5>1. Frame("gone", <<>>) \in Frames
          BY WordFrame
        <5>2. gone \in Seq(Piece) /\ Whole(gone) /\ Len(gone) = 2
          BY <5>1, HalvesWhole DEF gone
        <5>3. gone[2] = [frame |-> Frame("gone", <<>>), half |-> 2]
          BY DEF gone, Halves
        <5>4. gone[2].frame.kind = "gone"
          BY <5>3 DEF Frame
        <5> QED
          BY <5>2, <5>4
      <4>3. Fits(t, gone) = 2
        BY <1>2, <1>3, <4>1, <4>2, FitsOn
      <4>4. SubSeq(gone, 1, 2) = gone
        BY <4>2, SubSeqFull
      <4> DEFINE h == held[t]
                 w == wire[t]
      <4>5. wire'[t] = w \o gone
        BY <1>1, <1>2, <1>3, <2>1, <3>6, <4>3, <4>4 DEF CarryingTypeOK
      <4>6. h \in Seq(Piece) /\ w \in Seq(Piece) /\ Whole(h \o w) /\ held'[t] = h
        BY <1>1, <1>2, <1>3, <4>1 DEF CarryingTypeOK
      <4> HIDE DEF h, w
      <4>7. h \o w \in Seq(Piece)
        BY <4>6, ConcatProperties
      <4>8. Whole((h \o w) \o gone)
        BY <4>2, <4>6, <4>7, WholeBoth
      <4>9. (h \o w) \o gone = h \o (w \o gone)
        BY <4>2, <4>6, PiecesJoin, Zenon
      <4>10. /\ Len(w \o gone) = Len(w) + 2 /\ Len(w) \in Nat
             /\ \A i \in 1 .. Len(w) + 2 :
                   (w \o gone)[i] = IF i <= Len(w) THEN w[i] ELSE gone[i - Len(w)]
        <5>1. /\ Len(w \o gone) = Len(w) + Len(gone)
              /\ \A i \in 1 .. Len(w) + Len(gone) :
                    (w \o gone)[i] = IF i <= Len(w) THEN w[i] ELSE gone[i - Len(w)]
          BY <4>2, <4>6, ConcatProperties
        <5>2. Len(w) \in Nat
          BY <4>6, LenProperties
        <5> QED
          BY <4>2, <5>1, <5>2
      <4>11. w \o gone # <<>> /\ (w \o gone)[Len(w \o gone)].frame.kind = "gone"
        <5> DEFINE l == Len(w) + 2
        <5>1. l \in 1 .. Len(w) + 2 /\ ~(l <= Len(w)) /\ l - Len(w) = 2 /\ l # 0
          BY <4>10
        <5> HIDE DEF l
        <5>2. (w \o gone)[l] = gone[2] /\ Len(w \o gone) = l
          BY <4>10, <5>1 DEF l
        <5>3. Len(w \o gone) # 0
          BY <5>1, <5>2
        <5> QED
          BY <4>2, <5>2, <5>3, EmptySeq
      <4> QED
        BY <1>1, <3>3, <3>4, <4>1, <4>5, <4>6, <4>8, <4>9, <4>11 DEF Owed
    <3>7. ASSUME t \in owed, HasGone(t) PROVE Owed(t)'
      BY <1>1, <3>4, <3>7 DEF Held, Owed, HasGone
    <3>8. Owed(t)'
      BY <1>1, <3>6, <3>7 DEF Owed
    <3> QED
      BY <1>1, <1>5, <3>4, <3>5, <3>8 DEF Held, Reading
  <2>2. CASE ~one.why
    <3>1. one = [who |-> t, why |-> FALSE] /\ wire' = wire
      BY <1>1, <1>3, <2>2
    <3>2. LetGo(t, FALSE) /\ ~LetGo(t, TRUE)
      BY <1>3, <3>1 DEF LetGo, CarryingInv, Held, Placed
    <3>3. ~LetGo(t, TRUE)' /\ ~LetGo(t, FALSE)'
      BY <1>1, <3>1, <3>2 DEF LetGo
    <3>4. /\ Held(t) /\ at[t] # "away" /\ up[t] = <<>> /\ reading[t] = "off" /\ t \notin waiting
      BY <1>3, <3>2 DEF CarryingInv, Held, Placed, LettingGo, Untouched
    <3>5. Placed(t)'
      BY <1>1, <3>3, <3>4 DEF Placed, Held, LettingGo
    <3>6. Owed(t)'
      BY <1>1, <3>1, <3>2, <3>3, <3>4 DEF Held, Owed, HasGone
    <3> QED
      BY <1>1, <1>5, <3>4, <3>5, <3>6 DEF Held, Reading
  <2> QED
    BY <2>1, <2>2
<1> QED
  BY <1>4, <1>5

LEMMA NobodysStep ==
    ASSUME CarryingInv, Opens \/ DrawsMore \/ Redraws \/ Stops \/ Ends \/ Over PROVE Kept' /\ Rounds'
<1> USE DEF screen, buffer, ends, theirs
<1>1. Kept'
  BY DEF Opens, DrawsMore, Redraws, Stops, Ends, Over, CarryingInv, Kept
<1>2. CASE Opens \/ DrawsMore \/ Redraws
  BY <1>1, <1>2 DEF Opens, DrawsMore, Redraws, CarryingInv, Rounds, Readers
<1>3. CASE Stops
  BY <1>1, <1>3 DEF Stops, CarryingInv, Rounds, Readers
<1>4. CASE Ends
  BY <1>1, <1>4 DEF Ends, Carrying, CarryingInv, Rounds, Readers
<1>5. CASE Over
  BY <1>1, <1>5 DEF Over, CarryingInv, Rounds, Readers
<1> QED
  BY <1>2, <1>3, <1>4, <1>5

LEMMA LettingGoStep ==
    ASSUME CarryingInv, Detaches \/ Closing PROVE Kept' /\ Rounds'
<1> USE DEF screen, buffer, ends, theirs
<1>1. /\ LetsGoOf(reading) /\ app \in Up /\ app' \in {app, "letgone"}
      /\ UNCHANGED <<screen, loop, going, todo, buffer, ends, wire, up, theirs>>
  BY DEF Detaches, Closing
<1>2. Kept'
  BY <1>1 DEF CarryingInv, Kept
<1>3. Readers(reading)' = {}
  BY <1>1 DEF LetsGoOf, Readers
<1>4. loop # "carrying" => letting' = letting
  <2> SUFFICES ASSUME loop # "carrying" PROVE letting' = letting
    OBVIOUS
  <2>1. Readers(reading) = {}
    BY <1>1 DEF CarryingInv, Rounds
  <2>2. [who : Readers(reading), why : {TRUE}] = {}
    BY <2>1
  <2> QED
    BY <1>1, <2>2 DEF LetsGoOf
<1> QED
  BY <1>1, <1>2, <1>3, <1>4 DEF CarryingInv, Rounds

LEMMA GivesUpStep == ASSUME CarryingInv, GivesUpCarrying PROVE Kept' /\ Rounds'
<1> USE DEF screen, buffer, ends, theirs
<1>1. /\ LetsGoOf(reading) /\ loop = "carrying" /\ todo = {} /\ loop' = "ending"
      /\ UNCHANGED <<screen, app, todo, buffer, wire, up, theirs>>
  BY DEF GivesUpCarrying, Carrying
<1>2. Kept'
  BY <1>1 DEF CarryingInv, Kept
<1>3. Readers(reading)' = {}
  BY <1>1 DEF LetsGoOf, Readers
<1> QED
  BY <1>1, <1>2, <1>3 DEF CarryingInv, Rounds

LEMMA ExitsStep == ASSUME CarryingInv, Unlistened \/ Exits PROVE Kept' /\ Rounds'
  BY DEF Unlistened, Unlistens, Exits, CarryingInv, Kept, Rounds, screen, buffer, ends, theirs

LEMMA DrewStep == ASSUME CarryingInv, Drew PROVE Kept' /\ Rounds'
<1> USE DEF screen, buffer, ends, theirs
<1>1. /\ loop = "carrying" /\ chunk' = chunk + 1 /\ todo' = Readers(reading)
      /\ UNCHANGED <<app, loop, going, reading, letting, ever>>
  BY DEF Drew, Carrying
<1>2. \/ (todo' # {} \/ ever \/ spilled) /\ UNCHANGED <<kept, spilled>>
      \/ /\ ~ever /\ ~spilled /\ kept' = IF spilled' THEN <<>> ELSE Append(kept, chunk')
  BY Zenon DEF Drew
<1>3. todo' # {} => ever
  BY <1>1 DEF Readers, CarryingInv, Held, Reading
<1>4. Kept'
  <2>1. CASE (todo' # {} \/ ever \/ spilled) /\ UNCHANGED <<kept, spilled>>
    BY <1>1, <1>3, <2>1 DEF Kept, CarryingInv
  <2>2. CASE /\ ~ever /\ ~spilled /\ kept' = IF spilled' THEN <<>> ELSE Append(kept, chunk')
    <3>1. kept = Run(0, chunk) /\ chunk \in Nat
      BY <2>2 DEF CarryingInv, Kept, CarryingTypeOK
    <3>2. Append(Run(0, chunk), 0 + chunk + 1) = Run(0, chunk + 1)
      BY <3>1, RunMore
    <3>3. 0 + chunk + 1 = chunk'
      BY <1>1, <3>1
    <3>4. Append(kept, chunk') = Run(0, chunk')
      BY <1>1, <3>1, <3>2, <3>3
    <3> QED
      BY <1>1, <2>2, <3>4 DEF Kept
  <2> QED
    BY <1>2, <2>1, <2>2
<1> QED
  BY <1>1, <1>4 DEF CarryingInv, Rounds, Readers

LEMMA RoundStep ==
    ASSUME CarryingInv, app # "exited", NEW t \in Terminals,
           \/ Writes(t) \/ Sends(t) \/ Arrived(t) \/ Joins(t) \/ AnswersDetach(t) \/ HangsUp(t)
    PROVE  Kept' /\ Rounds'
<1> USE DEF screen, buffer, ends, theirs
<1>1. /\ loop = "carrying" /\ loop' = loop /\ app' = app /\ going' = going
      /\ chunk' = chunk
  BY DEF Writes, Sends, Arrived, Joins, AnswersDetach, HangsUp, Says, Carrying, CarryingInv, Rounds
<1>2. Rounds'
  BY <1>1 DEF Rounds, CarryingInv
<1>3. Kept'
  <2>1. CASE Joins(t)
    BY <2>1 DEF Joins, Kept
  <2>2. CASE Writes(t) \/ Sends(t) \/ Arrived(t) \/ AnswersDetach(t) \/ HangsUp(t)
    BY <1>1, <2>2 DEF Writes, Sends, Arrived, AnswersDetach, HangsUp, Says, Kept, CarryingInv
  <2> QED
    BY <2>1, <2>2
<1> QED
  BY <1>2, <1>3

LEMMA ClosesStep ==
    ASSUME CarryingInv, NEW one \in letting, Closes(one) PROVE Kept' /\ Rounds'
<1>1. /\ loop # "over" /\ letting' = letting \ {one}
      /\ UNCHANGED <<screen, app, loop, going, todo, reading, sending, buffer, listening,
                     waiting, up, theirs, owed>>
  BY DEF Closes
<1> QED
  BY <1>1 DEF CarryingInv, Kept, Rounds, Readers, screen, buffer

LEMMA TerminalStep ==
    ASSUME CarryingInv, NEW t \in Terminals, Terminal(t) PROVE Kept' /\ Rounds'
<1>1. UNCHANGED <<screen, app, loop, going, todo, reading, letting, buffer>>
  BY DEF Terminal, Dials, Types, Reads, SeesEnd, Leaves
<1> QED
  BY <1>1 DEF CarryingInv, Kept, Rounds, Readers, screen, buffer

LEMMA TerminalHeld ==
    ASSUME CarryingInv, NEW t \in Terminals, Terminal(t) PROVE \A o \in Terminals : Held(o)'
<1>1. CASE \E what \in {"hello", "detach"} : Dials(t, what)
  BY <1>1, DialsHeld
<1>2. CASE Reads(t)
  BY <1>2, ReadsHeld
<1>3. ASSUME Types(t) \/ Leaves(t) PROVE \A o \in Terminals : Held(o)'
  <2>1. PICK how \in {"over", "broken"} : /\ ~HasGone(t) /\ Ended(t, how)
        /\ UNCHANGED <<screen, app, loop, going, todo, reading, sending, letting, buffer, ends,
                       up, owed>>
    BY <1>3 DEF Types, Leaves, HasGone
  <2> QED
    BY <2>1, EndedHeld
<1>4. CASE SeesEnd(t)
  <2>1. /\ ~HasGone(t) /\ Ended(t, "untold") /\ t \in closed /\ wire[t] = <<>>
        /\ UNCHANGED <<screen, app, loop, going, todo, reading, sending, letting, buffer, ends,
                       up, owed>>
    BY <1>4 DEF SeesEnd, HasGone
  <2> QED
    BY <2>1, EndedHeld
<1> QED
  BY <1>1, <1>2, <1>3, <1>4 DEF Terminal

LEMMA InitCarryingInv == CarryingInit => CarryingInv
<1> SUFFICES ASSUME CarryingInit PROVE CarryingInv
  OBVIOUS
<1>1. CarryingTypeOK
  BY InitCarryingTypeOK
<1>2. Kept
  <2>1. Run(0, 0) = <<>>
    BY RunNone
  <2> QED
    BY <2>1 DEF CarryingInit, Kept
<1>3. Rounds
  BY DEF CarryingInit, Rounds, Readers
<1>4. ASSUME NEW t \in Terminals PROVE Held(t)
  BY DEF CarryingInit, Held, Placed, Untouched, LettingGo, LetGo, Reading, Owed
<1> QED
  BY <1>1, <1>2, <1>3, <1>4 DEF CarryingInv

LEMMA StepCarryingInv == CarryingInv /\ [CarryingNext]_carried => CarryingInv'
<1> SUFFICES ASSUME CarryingInv, [CarryingNext]_carried PROVE CarryingInv'
  OBVIOUS
<1>1. CarryingTypeOK'
  BY StepCarryingTypeOK DEF CarryingInv
<1>2. CASE Opens \/ DrawsMore \/ Redraws \/ Stops \/ (app # "exited" /\ (Ends \/ Over))
  BY <1>1, <1>2, NobodysHeld, NobodysStep DEF CarryingInv
<1>3. CASE Detaches \/ Closing
  BY <1>1, <1>3, LettingGoHeld, LettingGoStep DEF CarryingInv
<1>4. CASE Unlistened \/ Exits
  BY <1>1, <1>4, UnlistenedHeld, ExitsHeld, ExitsStep DEF CarryingInv
<1>5. CASE GivesUpCarrying
  BY <1>1, <1>5, GivesUpHeld, GivesUpStep DEF CarryingInv
<1>6. CASE app # "exited" /\ Drew
  BY <1>1, <1>6, DrewHeld, DrewStep DEF CarryingInv
<1>7. ASSUME app # "exited", NEW t \in Terminals,
             \/ Writes(t) \/ Sends(t) \/ Arrived(t) \/ Joins(t) \/ AnswersDetach(t) \/ HangsUp(t)
      PROVE  CarryingInv'
  <2>1. Kept' /\ Rounds'
    BY <1>7, RoundStep
  <2>2. \A o \in Terminals : Held(o)'
    BY <1>7, WritesHeld, SendsHeld, ArrivedHeld, JoinsHeld, AnswersHeld, HangsUpHeld
  <2> QED
    BY <1>1, <2>1, <2>2 DEF CarryingInv
<1>8. ASSUME app # "exited", NEW one \in letting, Closes(one) PROVE CarryingInv'
  BY <1>1, <1>8, ClosesHeld, ClosesStep DEF CarryingInv
<1>9. ASSUME NEW t \in Terminals, Terminal(t) PROVE CarryingInv'
  BY <1>1, <1>9, TerminalHeld, TerminalStep DEF CarryingInv
<1>10. CASE UNCHANGED carried
  <2> USE DEF screen, buffer, ends, theirs
  <2>1. Kept' /\ Rounds'
    BY <1>10 DEF carried, CarryingInv, Kept, Rounds, Readers
  <2>2. Meanwhile
    BY <1>10 DEF carried, Meanwhile
  <2>3. ASSUME NEW t \in Terminals PROVE Held(t)'
    <3>1. Apart(t)
      BY <1>10 DEF carried, Apart, LetGo
    <3> QED
      BY <2>2, <3>1, ApartHeld DEF CarryingInv
  <2> QED
    BY <1>1, <2>1, <2>3 DEF CarryingInv
<1>11. CASE Loop
  BY <1>2, <1>6, <1>7, <1>8, <1>11 DEF Loop
<1> QED
  BY <1>2, <1>3, <1>4, <1>5, <1>9, <1>10, <1>11 DEF CarryingNext

\* The carrying of a run keeps to its types: a socket is never given more than it holds.
THEOREM CarryingTypeCorrect == CarryingSpec => []CarryingTypeOK
<1>1. CarryingInv => CarryingTypeOK
  BY DEF CarryingInv
<1> QED
  BY <1>1, InitCarryingInv, StepCarryingInv, PTL DEF CarryingSpec

\* Held._carries loses nothing of what the run draws and says nothing twice, to any terminal that
\* reads, whatever the sockets take of it and whoever comes, goes or is let go of in between.
THEOREM EverythingInOrder == CarryingSpec => []InOrder
<1>1. CarryingInv => InOrder
  <2> SUFFICES ASSUME CarryingInv, NEW t \in Readers(reading), at[t] = "reading"
               PROVE  got[t] \o Drawn(held[t] \o wire[t] \o sending[t])
                        = [i \in 1..((IF t \in todo THEN chunk - 1 ELSE chunk) - since[t]) |-> since[t] + i]
    BY DEF InOrder
  <2>1. t \in Terminals /\ reading[t] = "joined" /\ ~HasGone(t)
    BY DEF Readers, HasGone
  <2>2. got[t] \o Drawn(Stream(t)) = Run(since[t], Written(t))
    BY <2>1 DEF CarryingInv, Held, Reading
  <2>3. Written(t) = (IF t \in todo THEN chunk - 1 ELSE chunk) - since[t]
    BY DEF Written
  <2> QED
    BY <2>2, <2>3 DEF Stream, Run
<1> QED
  BY <1>1, InitCarryingInv, StepCarryingInv, PTL DEF CarryingSpec

\* Whoever is let go of with all there was for it and room for a goodbye has the goodbye on its
\* socket before the end of it, through the last rounds of the loop and the end of the process,
\* unless the process had stopped waiting for the loop.
THEOREM ToldWhy == CarryingSpec => []Told
<1>1. CarryingInv => Told
  BY DEF CarryingInv, CarryingTypeOK, Held, Owed, Told
<1> QED
  BY <1>1, InitCarryingInv, StepCarryingInv, PTL DEF CarryingSpec

\* Nobody reads a run that goes on and looks at nothing: what it drew is there, or coming.
THEOREM SomethingShown == CarryingSpec => []Shown
<1>1. CarryingInv => Shown
  <2> SUFFICES ASSUME CarryingInv, NEW t \in Readers(reading)
               PROVE  \/ app # "running" \/ redraws > 0 \/ pty \/ t \in todo \/ at[t] # "reading"
                      \/ got[t] # <<>> \/ held[t] \o wire[t] \o sending[t] # <<>>
    BY DEF Shown
  <2>1. t \in Terminals /\ reading[t] = "joined"
    BY DEF Readers
  <2> QED
    BY <2>1 DEF CarryingInv, Held, Reading, HasGone, Stream
<1> QED
  BY <1>1, InitCarryingInv, StepCarryingInv, PTL DEF CarryingSpec
=============================================================================
