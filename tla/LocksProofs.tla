----------------------------- MODULE LocksProofs ----------------------------
(***************************************************************************)
(* Proofs about module Locks and the access log in it: Collect, Break and  *)
(* the end of a worker exclude each other although CloseAndFree takes no   *)
(* lock, for any number of handlers, sessions and workers and any capacity *)
(* of the log channel.                                                     *)
(***************************************************************************)
EXTENDS Locks, TLAPS

\* Some session leads to w.
Registered(w) == \E s \in Sessions : wlist[s] = w

\* wlist only holds workers of the right session that have not deleted
\* themselves.
RegistryInv ==
  \A s \in Sessions : wlist[s] # Nil =>
    sess[wlist[s]] = s /\ lst[wlist[s]] \notin {"none", "close"}

\* A listener knows its session.
ListenInv == \A w \in Workers : lst[w] # "none" => sess[w] \in Sessions

\* A handler knows its session and, inside Break and info, its worker.
HandlerInv ==
  \A h \in Handlers :
    /\ hpc[h] # "idle" => hsess[h] \in Sessions
    /\ hpc[h] \in {"mt", "kill", "read"} => hw[h] \in Workers

\* Collect keeps wlock, so what it read in wlist stays true.
CollectInv ==
  \A h \in Handlers : hpc[h] \in {"ask", "read"} =>
    /\ h \in readers
    /\ \A w \in todo[h] : Registered(w)
    /\ hpc[h] = "read" => Registered(hw[h])

\* killSession and info run under mt of their worker.
MtInv == \A h \in Handlers : hpc[h] \in {"kill", "read"} => mt[hw[h]] = h

\* Who queues for wlock is about to read, and does not read yet.
QueueInv ==
  /\ \A h \in rwait : hpc[h] \in {"look", "blook", "scan"}
  /\ readers \cap rwait = {}

\* A file is open from the first line of a day to midnight.
FileInv ==
  /\ lastLogging => logFile
  /\ lpc = "open" => ~lastLogging
  /\ lpc = "write" => logFile

IInv ==
  /\ TypeOK /\ RegistryInv /\ ListenInv /\ HandlerInv /\ CollectInv /\ MtInv
  /\ KillExclusive /\ QueueInv /\ LockOrder /\ FileInv

USE DEF RLock, RUnlock, WantLock, Locked, Unlock, Free, Goto, ListenTo, wlock,
        tasker, handler, lockVars, logVars

-----------------------------------------------------------------------------
\* What Create does, for the worker it takes.
Made(h, w) ==
  /\ hpc[h] = "create" /\ readers = {}
  /\ w \in Workers /\ lst[w] = "none" /\ Free(w) /\ \A g \in Handlers : hw[g] # w
  /\ wlist' = [wlist EXCEPT ![hsess[h]] = w]
  /\ lst' = [lst EXCEPT ![w] = "idle"]
  /\ sess' = [sess EXCEPT ![w] = hsess[h]]
  /\ Unlock
  /\ Goto(h, "log")
  /\ UNCHANGED <<mt, hsess, hw, todo, logVars>>

\* Create registers and starts a worker that nobody refers to.
LEMMA CreateMakes ==
  ASSUME NEW h \in Handlers, Create(h)
  PROVE  \E w \in Workers : Made(h, w)
<1> DEFINE v == CHOOSE w \in Spare : TRUE
<1>1. v \in Spare
  BY DEF Create
<1>2. v \in Workers /\ lst[v] = "none" /\ Free(v) /\ \A g \in Handlers : hw[g] # v
  BY <1>1 DEF Spare
<1> HIDE DEF v
<1>3. Made(h, v)
  BY <1>2 DEF Create, Made, v
<1> QED
  BY <1>2, <1>3

\* The steps of handlers that do not touch mt, and those that do.
LockStep(h) ==
  Look(h) \/ WantCreate(h) \/ BreakLook(h) \/ Scan(h) \/ Collected(h) \/ Log(h)

MtStep(h) ==
  BreakLock(h) \/ Killed(h) \/ Read(h) \/ \E w \in Workers : Ask(h, w)

\* Steps of a listener between two clean-ups.
WorkStep(w) == Receive(w) \/ Begin(w) \/ Finish(w) \/ IdleTimeout(w) \/ WantDelete(w)

Arrives(h) == \E s \in Sessions, pc \in {"look", "blook", "scan"} : Arrive(h, s, pc)

\* There are no other steps.
LEMMA Cases ==
  ASSUME Next
  PROVE  \/ \E h \in Handlers : Arrives(h) \/ LockStep(h) \/ MtStep(h)
         \/ \E h \in Handlers, w \in Workers : Made(h, w)
         \/ \E w \in Workers : WorkStep(w) \/ Delete(w) \/ CloseAndFree(w)
         \/ LogSide
  BY CreateMakes DEF Next, HandlerStep, ListenStep, Arrives, LockStep, MtStep, WorkStep

\* wlist: only a worker that was not there is added, and one that ends is gone.
LEMMA RegistryStep ==
  ASSUME TypeOK, RegistryInv, ListenInv, HandlerInv, [Next]_allVars
  PROVE  RegistryInv'
<1> USE LocksAssumption DEF TypeOK, RegistryInv, ListenInv, HandlerInv, HandlerPC, ListenPC
<1>1. ASSUME NEW h \in Handlers, Arrives(h) PROVE RegistryInv'
  BY <1>1 DEF Arrives, Arrive
<1>2. ASSUME NEW h \in Handlers, LockStep(h) PROVE RegistryInv'
  BY <1>2 DEF LockStep, Look, WantCreate, BreakLook, Scan, Collected, Log, writeToLog
<1>3. ASSUME NEW h \in Handlers, MtStep(h) PROVE RegistryInv'
  BY <1>3 DEF MtStep, BreakLock, Killed, Read, Ask
<1>4. ASSUME NEW h \in Handlers, NEW w \in Workers, Made(h, w) PROVE RegistryInv'
  BY <1>4 DEF Made
<1>5. ASSUME NEW w \in Workers, WorkStep(w) PROVE RegistryInv'
  BY <1>5 DEF WorkStep, Receive, Begin, Finish, IdleTimeout, WantDelete
<1>6. ASSUME NEW w \in Workers, Delete(w) PROVE RegistryInv'
  BY <1>6 DEF Delete
<1>7. ASSUME NEW w \in Workers, CloseAndFree(w) PROVE RegistryInv'
  BY <1>7 DEF CloseAndFree
<1>8. CASE LogSide
  BY <1>8 DEF LogSide
<1>9. CASE UNCHANGED allVars
  BY <1>9 DEF allVars
<1> QED
  BY <1>1, <1>2, <1>3, <1>4, <1>5, <1>6, <1>7, <1>8, <1>9, Cases

\* A worker is made with the session of its handler.
LEMMA ListenInvStep ==
  ASSUME TypeOK, ListenInv, HandlerInv, [Next]_allVars
  PROVE  ListenInv'
<1> USE LocksAssumption DEF TypeOK, ListenInv, HandlerInv, ListenPC
<1>1. ASSUME NEW h \in Handlers, Arrives(h) PROVE ListenInv'
  BY <1>1 DEF Arrives, Arrive
<1>2. ASSUME NEW h \in Handlers, LockStep(h) PROVE ListenInv'
  BY <1>2 DEF LockStep, Look, WantCreate, BreakLook, Scan, Collected, Log, writeToLog
<1>3. ASSUME NEW h \in Handlers, MtStep(h) PROVE ListenInv'
  BY <1>3 DEF MtStep, BreakLock, Killed, Read, Ask
<1>4. ASSUME NEW h \in Handlers, NEW w \in Workers, Made(h, w) PROVE ListenInv'
  BY <1>4 DEF Made
<1>5. ASSUME NEW w \in Workers, WorkStep(w) PROVE ListenInv'
  BY <1>5 DEF WorkStep, Receive, Begin, Finish, IdleTimeout, WantDelete
<1>6. ASSUME NEW w \in Workers, Delete(w) PROVE ListenInv'
  BY <1>6 DEF Delete
<1>7. ASSUME NEW w \in Workers, CloseAndFree(w) PROVE ListenInv'
  BY <1>7 DEF CloseAndFree
<1>8. CASE LogSide
  BY <1>8 DEF LogSide
<1>9. CASE UNCHANGED allVars
  BY <1>9 DEF allVars
<1> QED
  BY <1>1, <1>2, <1>3, <1>4, <1>5, <1>6, <1>7, <1>8, <1>9, Cases

\* The arguments of a request, and the worker that Break and Collect got from
\* wlist.
LEMMA HandlerInvStep ==
  ASSUME TypeOK, HandlerInv, [Next]_allVars
  PROVE  HandlerInv'
<1> USE LocksAssumption DEF TypeOK, HandlerInv, HandlerPC
<1>1. ASSUME NEW h \in Handlers, Arrives(h) PROVE HandlerInv'
  BY <1>1 DEF Arrives, Arrive
<1>2. ASSUME NEW h \in Handlers, LockStep(h) PROVE HandlerInv'
  BY <1>2 DEF LockStep, Look, WantCreate, BreakLook, Scan, Collected, Log, writeToLog
<1>3. ASSUME NEW h \in Handlers, MtStep(h) PROVE HandlerInv'
  BY <1>3 DEF MtStep, BreakLock, Killed, Read, Ask
<1>4. ASSUME NEW h \in Handlers, NEW w \in Workers, Made(h, w) PROVE HandlerInv'
  BY <1>4 DEF Made
<1>5. ASSUME NEW w \in Workers, WorkStep(w) PROVE HandlerInv'
  BY <1>5 DEF WorkStep, Receive, Begin, Finish, IdleTimeout, WantDelete
<1>6. ASSUME NEW w \in Workers, Delete(w) PROVE HandlerInv'
  BY <1>6 DEF Delete
<1>7. ASSUME NEW w \in Workers, CloseAndFree(w) PROVE HandlerInv'
  BY <1>7 DEF CloseAndFree
<1>8. CASE LogSide
  BY <1>8 DEF LogSide
<1>9. CASE UNCHANGED allVars
  BY <1>9 DEF allVars
<1> QED
  BY <1>1, <1>2, <1>3, <1>4, <1>5, <1>6, <1>7, <1>8, <1>9, Cases

\* wlist does not change while somebody reads it.
LEMMA CollectStep ==
  ASSUME TypeOK, HandlerInv, CollectInv, [Next]_allVars
  PROVE  CollectInv'
<1> USE LocksAssumption DEF TypeOK, HandlerInv, CollectInv, Registered
<1>1. ASSUME NEW h \in Handlers, Arrives(h) PROVE CollectInv'
  BY <1>1 DEF Arrives, Arrive
<1>2. ASSUME NEW h \in Handlers, LockStep(h) PROVE CollectInv'
  BY <1>2 DEF LockStep, Look, WantCreate, BreakLook, Scan, Collected, Log, writeToLog
<1>3. ASSUME NEW h \in Handlers, MtStep(h) PROVE CollectInv'
  BY <1>3 DEF MtStep, BreakLock, Killed, Read, Ask
<1>4. ASSUME NEW h \in Handlers, NEW w \in Workers, Made(h, w) PROVE CollectInv'
  BY <1>4 DEF Made
<1>5. ASSUME NEW w \in Workers, WorkStep(w) PROVE CollectInv'
  BY <1>5 DEF WorkStep, Receive, Begin, Finish, IdleTimeout, WantDelete
<1>6. ASSUME NEW w \in Workers, Delete(w) PROVE CollectInv'
  BY <1>6 DEF Delete
<1>7. ASSUME NEW w \in Workers, CloseAndFree(w) PROVE CollectInv'
  BY <1>7 DEF CloseAndFree
<1>8. CASE LogSide
  BY <1>8 DEF LogSide
<1>9. CASE UNCHANGED allVars
  BY <1>9 DEF allVars
<1> QED
  BY <1>1, <1>2, <1>3, <1>4, <1>5, <1>6, <1>7, <1>8, <1>9, Cases

\* Nobody but its holder releases mt.
LEMMA MtInvStep ==
  ASSUME TypeOK, HandlerInv, MtInv, [Next]_allVars
  PROVE  MtInv'
<1> USE LocksAssumption DEF TypeOK, HandlerInv, MtInv
<1>1. ASSUME NEW h \in Handlers, Arrives(h) PROVE MtInv'
  BY <1>1 DEF Arrives, Arrive
<1>2. ASSUME NEW h \in Handlers, LockStep(h) PROVE MtInv'
  BY <1>2 DEF LockStep, Look, WantCreate, BreakLook, Scan, Collected, Log, writeToLog
<1>3. ASSUME NEW h \in Handlers, MtStep(h) PROVE MtInv'
  BY <1>3 DEF MtStep, BreakLock, Killed, Read, Ask
<1>4. ASSUME NEW h \in Handlers, NEW w \in Workers, Made(h, w) PROVE MtInv'
  BY <1>4 DEF Made
<1>5. ASSUME NEW w \in Workers, WorkStep(w) PROVE MtInv'
  BY <1>5 DEF WorkStep, Receive, Begin, Finish, IdleTimeout, WantDelete
<1>6. ASSUME NEW w \in Workers, Delete(w) PROVE MtInv'
  BY <1>6 DEF Delete
<1>7. ASSUME NEW w \in Workers, CloseAndFree(w) PROVE MtInv'
  BY <1>7 DEF CloseAndFree
<1>8. CASE LogSide
  BY <1>8 DEF LogSide
<1>9. CASE UNCHANGED allVars
  BY <1>9 DEF allVars
<1> QED
  BY <1>1, <1>2, <1>3, <1>4, <1>5, <1>6, <1>7, <1>8, <1>9, Cases

\* Run needs mt to leave its task.
LEMMA KillStep ==
  ASSUME TypeOK, HandlerInv, MtInv, KillExclusive, [Next]_allVars
  PROVE  KillExclusive'
<1> USE LocksAssumption DEF TypeOK, HandlerInv, MtInv, KillExclusive
<1>1. ASSUME NEW h \in Handlers, Arrives(h) PROVE KillExclusive'
  BY <1>1 DEF Arrives, Arrive
<1>2. ASSUME NEW h \in Handlers, LockStep(h) PROVE KillExclusive'
  BY <1>2 DEF LockStep, Look, WantCreate, BreakLook, Scan, Collected, Log, writeToLog
<1>3. ASSUME NEW h \in Handlers, MtStep(h) PROVE KillExclusive'
  BY <1>3 DEF MtStep, BreakLock, Killed, Read, Ask
<1>4. ASSUME NEW h \in Handlers, NEW w \in Workers, Made(h, w) PROVE KillExclusive'
  BY <1>4 DEF Made
<1>5. ASSUME NEW w \in Workers, WorkStep(w) PROVE KillExclusive'
  BY <1>5 DEF WorkStep, Receive, Begin, Finish, IdleTimeout, WantDelete
<1>6. ASSUME NEW w \in Workers, Delete(w) PROVE KillExclusive'
  BY <1>6 DEF Delete
<1>7. ASSUME NEW w \in Workers, CloseAndFree(w) PROVE KillExclusive'
  BY <1>7 DEF CloseAndFree
<1>8. CASE LogSide
  BY <1>8 DEF LogSide
<1>9. CASE UNCHANGED allVars
  BY <1>9 DEF allVars
<1> QED
  BY <1>1, <1>2, <1>3, <1>4, <1>5, <1>6, <1>7, <1>8, <1>9, Cases

\* Locks are given back where their sections end, and a writer that leaves lets
\* in the readers that queue.
LEMMA OrderStep ==
  ASSUME TypeOK, HandlerInv, CollectInv, QueueInv, LockOrder, [Next]_allVars
  PROVE  QueueInv' /\ LockOrder'
<1> USE LocksAssumption DEF TypeOK, HandlerInv, CollectInv, QueueInv, LockOrder
<1>1. ASSUME NEW h \in Handlers, Arrives(h) PROVE QueueInv' /\ LockOrder'
  BY <1>1 DEF Arrives, Arrive
<1>2. ASSUME NEW h \in Handlers, LockStep(h) PROVE QueueInv' /\ LockOrder'
  BY <1>2 DEF LockStep, Look, WantCreate, BreakLook, Scan, Collected, Log, writeToLog
<1>3. ASSUME NEW h \in Handlers, MtStep(h) PROVE QueueInv' /\ LockOrder'
  BY <1>3 DEF MtStep, BreakLock, Killed, Read, Ask
<1>4. ASSUME NEW h \in Handlers, NEW w \in Workers, Made(h, w)
      PROVE  QueueInv' /\ LockOrder'
  BY <1>4 DEF Made
<1>5. ASSUME NEW w \in Workers, WorkStep(w) PROVE QueueInv' /\ LockOrder'
  BY <1>5 DEF WorkStep, Receive, Begin, Finish, IdleTimeout, WantDelete
<1>6. ASSUME NEW w \in Workers, Delete(w) PROVE QueueInv' /\ LockOrder'
  BY <1>6 DEF Delete
<1>7. ASSUME NEW w \in Workers, CloseAndFree(w) PROVE QueueInv' /\ LockOrder'
  BY <1>7 DEF CloseAndFree
<1>8. CASE LogSide
  BY <1>8 DEF LogSide
<1>9. CASE UNCHANGED allVars
  BY <1>9 DEF allVars
<1> QED
  BY <1>1, <1>2, <1>3, <1>4, <1>5, <1>6, <1>7, <1>8, <1>9, Cases

\* The log: its file is chosen before the line is written.
LEMMA FileStep ==
  ASSUME TypeOK, FileInv, [Next]_allVars
  PROVE  /\ lastLogging' \in BOOLEAN /\ logFile' \in BOOLEAN
         /\ FileInv'
<1> USE DEF TypeOK, LogTypeOK, FileInv
<1>1. CASE UNCHANGED <<lpc, lastLogging, logFile>>
  BY <1>1
<1>2. CASE LogReceive
  BY <1>2 DEF LogReceive
<1>3. CASE LogOpen
  BY <1>3 DEF LogOpen
<1>4. CASE LogOpenFails
  BY <1>4 DEF LogOpenFails
<1>5. CASE LogWrite
  BY <1>5 DEF LogWrite
<1>6. CASE NextDay
  BY <1>6 DEF NextDay
<1>7. \/ UNCHANGED <<lpc, lastLogging, logFile>>
      \/ LogReceive \/ LogOpen \/ LogOpenFails \/ LogWrite \/ NextDay
  <2>1. ASSUME NEW h \in Handlers, Arrives(h) \/ LockStep(h) \/ MtStep(h)
        PROVE  UNCHANGED <<lpc, lastLogging, logFile>>
    BY <2>1 DEF Arrives, Arrive, LockStep, Look, WantCreate, BreakLook, Scan,
                Collected, Log, writeToLog, MtStep, BreakLock, Killed, Read, Ask
  <2>2. ASSUME NEW h \in Handlers, NEW w \in Workers, Made(h, w)
        PROVE  UNCHANGED <<lpc, lastLogging, logFile>>
    BY <2>2 DEF Made
  <2>3. ASSUME NEW w \in Workers, WorkStep(w) \/ Delete(w) \/ CloseAndFree(w)
        PROVE  UNCHANGED <<lpc, lastLogging, logFile>>
    BY <2>3 DEF WorkStep, Receive, Begin, Finish, IdleTimeout, WantDelete, Delete,
                CloseAndFree
  <2> QED
    BY <2>1, <2>2, <2>3, Cases DEF LogSide, LogStep, allVars
<1> QED
  BY <1>1, <1>2, <1>3, <1>4, <1>5, <1>6, <1>7

\* Every step keeps the variables in their types; logChan keeps to its capacity.
LEMMA TypeStep ==
  ASSUME TypeOK, ListenInv, HandlerInv, FileInv, [Next]_allVars
  PROVE  TypeOK'
<1> USE LocksAssumption, LogAssumption, FileStep
        DEF TypeOK, LogTypeOK, ListenInv, HandlerInv, HandlerPC, ListenPC
<1>1. ASSUME NEW h \in Handlers, Arrives(h) PROVE TypeOK'
  BY <1>1 DEF Arrives, Arrive
<1>2. ASSUME NEW h \in Handlers, LockStep(h) PROVE TypeOK'
  BY <1>2 DEF LockStep, Look, WantCreate, BreakLook, Scan, Collected, Log, writeToLog
<1>3. ASSUME NEW h \in Handlers, MtStep(h) PROVE TypeOK'
  BY <1>3 DEF MtStep, BreakLock, Killed, Read, Ask
<1>4. ASSUME NEW h \in Handlers, NEW w \in Workers, Made(h, w) PROVE TypeOK'
  BY <1>4 DEF Made
<1>5. ASSUME NEW w \in Workers, WorkStep(w) PROVE TypeOK'
  BY <1>5 DEF WorkStep, Receive, Begin, Finish, IdleTimeout, WantDelete
<1>6. ASSUME NEW w \in Workers, Delete(w) PROVE TypeOK'
  BY <1>6 DEF Delete
<1>7. ASSUME NEW w \in Workers, CloseAndFree(w) PROVE TypeOK'
  BY <1>7 DEF CloseAndFree
<1>8. CASE LogSide
  BY <1>8 DEF LogSide, LogStep, LogReceive, LogOpen, LogOpenFails, LogWrite, NextDay
<1>9. CASE UNCHANGED allVars
  BY <1>9 DEF allVars
<1> QED
  BY <1>1, <1>2, <1>3, <1>4, <1>5, <1>6, <1>7, <1>8, <1>9, Cases

-----------------------------------------------------------------------------
(* The theorems.                                                            *)

\* Before the first request there is no worker and no log file.
LEMMA InitIInv == Init => IInv
<1> SUFFICES ASSUME Init PROVE IInv
  OBVIOUS
<1>1. lastLogging \in BOOLEAN /\ logFile \in BOOLEAN
  BY Zenon DEF Init, LogInit
<1>2. TypeOK
  BY <1>1, LogAssumption DEF Init, LogInit, TypeOK, LogTypeOK, HandlerPC, ListenPC
<1>3. RegistryInv /\ ListenInv /\ HandlerInv
  BY DEF Init, RegistryInv, ListenInv, HandlerInv
<1>4. CollectInv /\ MtInv /\ KillExclusive
  BY DEF Init, CollectInv, MtInv, KillExclusive
<1>5. QueueInv /\ LockOrder
  BY DEF Init, QueueInv, LockOrder
<1>6. FileInv
  BY DEF Init, LogInit, FileInv
<1> QED
  BY <1>2, <1>3, <1>4, <1>5, <1>6 DEF IInv

\* Every step keeps the inductive invariant.
LEMMA NextIInv == IInv /\ [Next]_allVars => IInv'
<1> SUFFICES ASSUME IInv, [Next]_allVars PROVE IInv'
  OBVIOUS
<1>1. TypeOK' /\ RegistryInv' /\ ListenInv' /\ HandlerInv'
  BY TypeStep, RegistryStep, ListenInvStep, HandlerInvStep DEF IInv
<1>2. CollectInv' /\ MtInv' /\ KillExclusive' /\ FileInv'
  BY CollectStep, MtInvStep, KillStep, FileStep DEF IInv
<1>3. QueueInv' /\ LockOrder'
  BY OrderStep DEF IInv
<1> QED
  BY <1>1, <1>2, <1>3 DEF IInv

\* The inductive invariant holds in every reachable state of the handlers, the
\* listeners and the logging goroutine.
THEOREM Invariance == Spec => []IInv
<1> QED
  BY InitIInv, NextIInv, PTL DEF Spec

\* The variables keep their types; logChan never holds more than Cap lines.
THEOREM TypeCorrect == Spec => []TypeOK
<1>1. IInv => TypeOK
  BY DEF IInv
<1> QED
  BY <1>1, Invariance, PTL

\* info never reads logSteps of a worker while CloseAndFree empties it without
\* mt: Collect holds wlock, and so the worker is still registered.
THEOREM InfoIsSafe == Spec => []InfoExclusive
<1>1. IInv => InfoExclusive
  BY LocksAssumption
  DEF IInv, TypeOK, HandlerInv, CollectInv, Registered, RegistryInv, InfoExclusive
<1> QED
  BY <1>1, Invariance, PTL

\* CloseAndFree never closes the connection of a worker whose session a Break is
\* killing: the task cannot end before Break has released mt.
THEOREM KillIsSafe == Spec => []KillExclusive
<1>1. IInv => KillExclusive
  BY DEF IInv
<1> QED
  BY <1>1, Invariance, PTL

\* The logging goroutine never writes to a file that could not be opened.
THEOREM FileIsOpen == Spec => []NeverNilFile
<1>1. IInv => NeverNilFile
  BY DEF IInv, FileInv, NeverNilFile
<1> QED
  BY <1>1, Invariance, PTL

\* Locks are taken in the order wlock, mt, by goroutines that are inside their
\* sections, and every goroutine that queues has a writer before it.
THEOREM LocksInOrder == Spec => []LockOrder
<1>1. IInv => LockOrder
  BY DEF IInv
<1> QED
  BY <1>1, Invariance, PTL

\* Handler h has a lock and waits for none.
CanGo(h) ==
  \/ hpc[h] \in {"kill", "read"}
  \/ hpc[h] \in {"look", "blook", "scan"} /\ h \in readers
  \/ hpc[h] = "ask" /\ (todo[h] = {} \/ \E w \in todo[h] : Free(w))

\* A lock that somebody may wait for has a holder that can go on: that of mt
\* itself; for wlock the writer or, while it waits, some handler it waits for.
Unstuck ==
  /\ \A w \in Workers : ~Free(w) => CanGo(mt[w])
  /\ writer # Nil => Locked(writer) \/ \E h \in Handlers : CanGo(h)

\* Collect, which waits for mt with wlock in its hands, and Break, which holds mt
\* during a kill, never bring the handlers and listeners to a standstill.
THEOREM NeverStuck == Spec => []Unstuck
<1>1. ASSUME TypeOK, LockOrder PROVE Unstuck
  <2>1. ASSUME NEW w \in Workers, ~Free(w) PROVE mt[w] \in Handlers /\ CanGo(mt[w])
    BY <1>1, <2>1 DEF TypeOK, LockOrder, CanGo
  <2>2. ASSUME NEW h \in readers PROVE \E g \in Handlers : CanGo(g)
    <3>1. CASE hpc[h] = "ask" /\ \E w \in todo[h] : ~Free(w)
      BY <1>1, <2>1, <3>1 DEF TypeOK
    <3>2. CASE hpc[h] = "ask" /\ \A w \in todo[h] : Free(w)
      BY <1>1, <3>2 DEF TypeOK, CanGo
    <3>3. CASE hpc[h] # "ask"
      BY <1>1, <3>3 DEF TypeOK, LockOrder, CanGo
    <3> QED
      BY <3>1, <3>2, <3>3
  <2> QED
    BY <2>1, <2>2 DEF Unstuck
<1> QED
  BY <1>1, TypeCorrect, LocksInOrder, PTL
=============================================================================
