------------------------------- MODULE Locks --------------------------------
(***************************************************************************)
(* The locks on the way of a request: wlock, which guards the registry     *)
(* wlist (otasker/worker.go, stat.go), the mutex mt of each worker's       *)
(* tasker (otasker/oratasker.go), and the channel of the access log, which *)
(* every request ends with (loggedHandler, serveHTTP).                     *)
(*                                                                         *)
(* Three kinds of requests meet the listeners here: Run, which looks a     *)
(* worker up or registers a new one; Break, which keeps mt while it kills  *)
(* an Oracle session; and Collect (the page "!"), which keeps wlock for    *)
(* reading while it takes mt of every worker.  Tokens and channels of Run  *)
(* are module Worker's subject: a handler has what it needs once it knows  *)
(* its worker.                                                             *)
(*                                                                         *)
(* wlock is a sync.RWMutex: a writer that waits keeps new readers out, and *)
(* when it unlocks, the readers that wait go before the next writer.       *)
(***************************************************************************)
EXTENDS AccessLog, FiniteSets

CONSTANTS
  Handlers,  \* goroutines of the HTTP server
  Sessions,  \* keys of wlist
  Workers,   \* worker objects, each with a tasker and a listener goroutine
  Nil

ASSUME LocksAssumption ==
  /\ Nil \notin Handlers \cup Sessions \cup Workers
  /\ Handlers \cap Workers = {}

VARIABLES
  wlist,     \* [Sessions -> worker or Nil]
  readers,   \* goroutines that hold wlock for reading
  rwait,     \* goroutines that wait to do so
  writer,    \* the goroutine that holds wlock or is next to hold it, or Nil
  mt,        \* [Workers -> the handler that holds mt, or Nil]
  lst,       \* [Workers -> where the listener is]
  sess,      \* [Workers -> the ID argument of listen]
  hpc,       \* [Handlers -> where the handler is]
  hsess,     \* [Handlers -> the session of the request; Collect ignores it]
  hw,        \* [Handlers -> the worker it talks to, or Nil]
  todo       \* [Handlers -> workers that Collect has not asked yet]

wlock    == <<readers, rwait, writer>>
tasker   == <<mt, lst, sess>>
handler  == <<hpc, hsess, hw, todo>>
lockVars == <<wlist, wlock, tasker, handler>>
allVars  == <<lockVars, logVars>>

\* "look" and "blook": inside wlock.RLock of Run and Break; "want", "create":
\* around wlock.Lock; "mt", "kill": Break; "scan", "ask", "read": Collect.
HandlerPC == {"idle", "look", "want", "create", "blook", "mt", "kill", "scan",
              "ask", "read", "log"}

\* "task": w.Run is called, before its first section under mt; "work": behind
\* it (stateIsWorking); "want", "delete": around wlock.Lock; "close": deregistered.
ListenPC == {"none", "idle", "task", "work", "want", "delete", "close"}

TypeOK ==
  /\ LogTypeOK
  /\ wlist \in [Sessions -> Workers \cup {Nil}]
  /\ readers \subseteq Handlers /\ rwait \subseteq Handlers
  /\ writer \in Handlers \cup Workers \cup {Nil}
  /\ mt \in [Workers -> Handlers \cup {Nil}]
  /\ lst \in [Workers -> ListenPC]
  /\ sess \in [Workers -> Sessions \cup {Nil}]
  /\ hpc \in [Handlers -> HandlerPC]
  /\ hsess \in [Handlers -> Sessions \cup {Nil}]
  /\ hw \in [Handlers -> Workers \cup {Nil}]
  /\ todo \in [Handlers -> SUBSET Workers]

Init ==
  /\ LogInit
  /\ wlist = [s \in Sessions |-> Nil]
  /\ readers = {} /\ rwait = {} /\ writer = Nil
  /\ mt = [w \in Workers |-> Nil]
  /\ lst = [w \in Workers |-> "none"]
  /\ sess = [w \in Workers |-> Nil]
  /\ hpc = [h \in Handlers |-> "idle"]
  /\ hsess = [h \in Handlers |-> Nil]
  /\ hw = [h \in Handlers |-> Nil]
  /\ todo = [h \in Handlers |-> {}]

-----------------------------------------------------------------------------
(* sync.RWMutex and sync.Mutex.                                             *)

RLock(h) ==
  /\ \/ writer = Nil /\ readers' = readers \cup {h} /\ rwait' = rwait
     \/ writer # Nil /\ rwait' = rwait \cup {h} /\ readers' = readers
  /\ UNCHANGED writer

RUnlock(h) == readers' = readers \ {h} /\ UNCHANGED <<rwait, writer>>

\* Mutant: a lock whose writer waits until it meets no reader.
WantLock_Last(p) ==
  /\ writer = Nil /\ readers = {}
  /\ writer' = p
  /\ UNCHANGED <<readers, rwait>>

\* Lock in two steps: to be the next writer, and to have no readers left.
WantLock(p) == writer = Nil /\ writer' = p /\ UNCHANGED <<readers, rwait>>

Locked(p) == writer = p /\ readers = {}

Unlock == writer' = Nil /\ readers' = rwait /\ rwait' = {}

Free(w) == mt[w] = Nil

-----------------------------------------------------------------------------
(* The handlers.                                                            *)

Goto(h, pc) == hpc' = [hpc EXCEPT ![h] = pc]

\* The model's bound: worker objects that a handler may make its new worker, and
\* handlers that may yet need one.
Spare == {w \in Workers : lst[w] = "none" /\ Free(w) /\ \A h \in Handlers : hw[h] # w}

Creators == {h \in Handlers : hpc[h] \in {"look", "want", "create"}}

\* A request arrives: Run, Break or Collect asks for wlock.
Arrive(h, s, pc) ==
  /\ hpc[h] = "idle"
  /\ pc = "look" => Cardinality(Creators) < Cardinality(Spare)
  /\ Goto(h, pc)
  /\ hsess' = [hsess EXCEPT ![h] = s]
  /\ RLock(h)
  /\ UNCHANGED <<wlist, tasker, hw, todo, logVars>>

\* Run has read wlist.
Look(h) ==
  /\ hpc[h] = "look"
  /\ h \in readers
  /\ RUnlock(h)
  /\ Goto(h, IF wlist[hsess[h]] = Nil THEN "want" ELSE "log")
  /\ UNCHANGED <<wlist, tasker, hsess, hw, todo, logVars>>

WantCreate(h) ==
  /\ hpc[h] = "want"
  /\ WantLock(h)
  /\ Goto(h, "create")
  /\ UNCHANGED <<wlist, tasker, hsess, hw, todo, logVars>>

\* A new worker is registered, and its listener starts.  Which object it is does
\* not matter, and Arrive has seen to it that one is left.
Create(h) ==
  LET w == CHOOSE v \in Spare : TRUE
  IN
  /\ hpc[h] = "create"
  /\ Locked(h)
  /\ Spare # {}
  /\ wlist' = [wlist EXCEPT ![hsess[h]] = w]
  /\ lst' = [lst EXCEPT ![w] = "idle"]
  /\ sess' = [sess EXCEPT ![w] = hsess[h]]
  /\ Unlock
  /\ Goto(h, "log")
  /\ UNCHANGED <<mt, hsess, hw, todo, logVars>>

\* Break has read wlist.  If there is a worker and its token is not there, the
\* tasker's Break is called.
BreakLook(h) ==
  /\ hpc[h] = "blook"
  /\ h \in readers
  /\ RUnlock(h)
  /\ \/ Goto(h, "log") /\ UNCHANGED hw
     \/ /\ wlist[hsess[h]] # Nil
        /\ hw' = [hw EXCEPT ![h] = wlist[hsess[h]]]
        /\ Goto(h, "mt")
  /\ UNCHANGED <<wlist, tasker, hsess, todo, logVars>>

\* r.mt.Lock() of the tasker's Break: nothing to do, or a session to kill.
BreakLock(h) ==
  /\ hpc[h] = "mt"
  /\ Free(hw[h])
  /\ \/ Goto(h, "log") /\ hw' = [hw EXCEPT ![h] = Nil] /\ UNCHANGED mt
     \/ /\ lst[hw[h]] = "work"
        /\ Goto(h, "kill")
        /\ mt' = [mt EXCEPT ![hw[h]] = h]
        /\ UNCHANGED hw
  /\ UNCHANGED <<wlist, wlock, lst, sess, hsess, todo, logVars>>

\* Mutant: mt is not released when killSession returns.
Killed_Keep(h) ==
  /\ hpc[h] = "kill"
  /\ hw' = [hw EXCEPT ![h] = Nil]
  /\ Goto(h, "log")
  /\ UNCHANGED <<wlist, wlock, tasker, hsess, todo, logVars>>

\* killSession has logged in, killed and logged off.
Killed(h) ==
  /\ hpc[h] = "kill"
  /\ mt' = [mt EXCEPT ![hw[h]] = Nil]
  /\ hw' = [hw EXCEPT ![h] = Nil]
  /\ Goto(h, "log")
  /\ UNCHANGED <<wlist, wlock, lst, sess, hsess, todo, logVars>>

\* Mutant: Collect keeps the list of workers and not the lock.
Scan_Unlock(h) ==
  /\ hpc[h] = "scan"
  /\ h \in readers
  /\ todo' = [todo EXCEPT ![h] = {w \in Workers : \E s \in Sessions : wlist[s] = w}]
  /\ RUnlock(h)
  /\ Goto(h, "ask")
  /\ UNCHANGED <<wlist, tasker, hsess, hw, logVars>>

\* Collect goes through wlist; the lock is kept.
Scan(h) ==
  /\ hpc[h] = "scan"
  /\ h \in readers
  /\ todo' = [todo EXCEPT ![h] = {w \in Workers : \E s \in Sessions : wlist[s] = w}]
  /\ Goto(h, "ask")
  /\ UNCHANGED <<wlist, wlock, tasker, hsess, hw, logVars>>

\* info: r.mt.Lock() ...
Ask(h, w) ==
  /\ hpc[h] = "ask"
  /\ w \in todo[h]
  /\ Free(w)
  /\ mt' = [mt EXCEPT ![w] = h]
  /\ hw' = [hw EXCEPT ![h] = w]
  /\ todo' = [todo EXCEPT ![h] = @ \ {w}]
  /\ Goto(h, "read")
  /\ UNCHANGED <<wlist, wlock, lst, sess, hsess, logVars>>

\* ... and the map logSteps has been read.
Read(h) ==
  /\ hpc[h] = "read"
  /\ mt' = [mt EXCEPT ![hw[h]] = Nil]
  /\ hw' = [hw EXCEPT ![h] = Nil]
  /\ Goto(h, "ask")
  /\ UNCHANGED <<wlist, wlock, lst, sess, hsess, todo, logVars>>

\* Mutant: Collect returns with wlock.
Collected_Keep(h) ==
  /\ hpc[h] = "ask"
  /\ todo[h] = {}
  /\ Goto(h, "log")
  /\ UNCHANGED <<wlist, wlock, tasker, hsess, hw, todo, logVars>>

Collected(h) ==
  /\ hpc[h] = "ask"
  /\ todo[h] = {}
  /\ RUnlock(h)
  /\ Goto(h, "log")
  /\ UNCHANGED <<wlist, tasker, hsess, hw, todo, logVars>>

\* The request ends with its line in the access log.
Log(h) ==
  /\ hpc[h] = "log"
  /\ writeToLog
  /\ Goto(h, "idle")
  /\ hsess' = [hsess EXCEPT ![h] = Nil]
  /\ UNCHANGED <<wlist, wlock, tasker, hw, todo>>

-----------------------------------------------------------------------------
(* The listeners.                                                           *)

ListenTo(w, pc) == lst' = [lst EXCEPT ![w] = pc]

\* listen receives work and calls the tasker's Run.
Receive(w) ==
  /\ lst[w] = "idle"
  /\ ListenTo(w, "task")
  /\ UNCHANGED <<wlist, wlock, mt, sess, handler, logVars>>

\* Run's first section under mt.
Begin(w) ==
  /\ lst[w] = "task"
  /\ Free(w)
  /\ ListenTo(w, "work")
  /\ UNCHANGED <<wlist, wlock, mt, sess, handler, logVars>>

\* Mutant: the end of a task is noted without the mutex.
Finish_NoLock(w) ==
  /\ lst[w] = "work"
  /\ lst' \in {[lst EXCEPT ![w] = pc] : pc \in {"idle", "want"}}
  /\ UNCHANGED <<wlist, wlock, mt, sess, handler, logVars>>

\* Run's last section under mt (those in between are like it: they need mt and
\* change what only info reads).  An interrupted listener ends.
Finish(w) ==
  /\ lst[w] = "work"
  /\ Free(w)
  /\ ListenTo(w, "idle") \/ ListenTo(w, "want")
  /\ UNCHANGED <<wlist, wlock, mt, sess, handler, logVars>>

IdleTimeout(w) ==
  /\ lst[w] = "idle"
  /\ ListenTo(w, "want")
  /\ UNCHANGED <<wlist, wlock, mt, sess, handler, logVars>>

\* The deferred function: wlock.Lock() ...
WantDelete(w) ==
  /\ lst[w] = "want"
  /\ WantLock(w)
  /\ ListenTo(w, "delete")
  /\ UNCHANGED <<wlist, mt, sess, handler, logVars>>

\* ... delete and Unlock ...
Delete(w) ==
  /\ lst[w] = "delete"
  /\ Locked(w)
  /\ wlist' = [wlist EXCEPT ![sess[w]] = Nil]
  /\ Unlock
  /\ ListenTo(w, "close")
  /\ UNCHANGED <<mt, sess, handler, logVars>>

\* ... and CloseAndFree, which does not take mt: the connection is closed and
\* initLog empties the map logSteps.  The goroutine ends.
CloseAndFree(w) ==
  /\ lst[w] = "close"
  /\ ListenTo(w, "none")
  /\ sess' = [sess EXCEPT ![w] = Nil]
  /\ UNCHANGED <<wlist, wlock, mt, handler, logVars>>

-----------------------------------------------------------------------------
HandlerStep(h) ==
  \/ Look(h) \/ WantCreate(h) \/ BreakLook(h) \/ BreakLock(h) \/ Killed(h)
  \/ Scan(h) \/ Read(h) \/ Collected(h) \/ Log(h) \/ Create(h)
  \/ \E w \in Workers : Ask(h, w)

ListenStep(w) ==
  \/ Receive(w) \/ Begin(w) \/ Finish(w) \/ IdleTimeout(w)
  \/ WantDelete(w) \/ Delete(w) \/ CloseAndFree(w)

LogSide == (LogStep \/ NextDay) /\ UNCHANGED lockVars

Next ==
  \/ \E h \in Handlers :
       \/ \E s \in Sessions, pc \in {"look", "blook", "scan"} : Arrive(h, s, pc)
       \/ HandlerStep(h)
  \/ \E w \in Workers : ListenStep(w)
  \/ LogSide

Spec == Init /\ [][Next]_allVars

\* Goroutines run, kills and disk operations end.  Go's locks and channels serve
\* those who wait in turn, so a goroutine that could get a lock again and again
\* gets it.
FairSpec ==
  /\ Spec
  /\ \A h \in Handlers : SF_allVars(HandlerStep(h))
  /\ \A w \in Workers : SF_allVars(ListenStep(w))
  /\ WF_allVars(LogStep /\ UNCHANGED lockVars)

-----------------------------------------------------------------------------
(* Properties.                                                              *)

\* CloseAndFree empties logSteps without mt, which is safe only because Collect
\* can no longer reach the worker: no info reads the map while it is written
\* (the Go runtime ends the process when it sees that happen).
InfoExclusive ==
  \A h \in Handlers : hpc[h] = "read" => lst[hw[h]] # "close"

\* CloseAndFree closes the connection without mt, too.  A Break that is killing
\* the session holds mt, so the task cannot end, and the worker is not closed,
\* before the kill is over.
KillExclusive ==
  \A h \in Handlers : hpc[h] = "kill" => lst[hw[h]] = "work"

\* There is no circle of waiting, and nobody waits for a lock that was not given
\* back.  Whoever has mt is inside killSession or info and waits for no lock;
\* whoever reads under wlock waits at most for an mt; whoever is next to write
\* waits for these readers only; and a goroutine that queues for wlock is in its
\* queue and has such a writer before it.
LockOrder ==
  /\ \A w \in Workers : mt[w] # Nil => hpc[mt[w]] \in {"kill", "read"} /\ hw[mt[w]] = w
  /\ \A h \in readers : hpc[h] \in {"look", "blook", "scan", "ask", "read"}
  /\ \/ writer = Nil
     \/ writer \in Handlers /\ hpc[writer] = "create"
     \/ writer \in Workers /\ lst[writer] = "delete"
  /\ \A h \in Handlers :
       /\ hpc[h] \in {"look", "blook", "scan"} => h \in readers \cup rwait
       /\ hpc[h] = "create" => writer = h
  /\ \A w \in Workers : lst[w] = "delete" => writer = w
  /\ rwait # {} => writer # Nil

\* Every request ends, whatever Collects, Breaks and listeners hold wlock and
\* mt meanwhile and however full logChan is: neither do the two levels of locks
\* block each other nor does the log block the requests for good.
Served == \A h \in Handlers : hpc[h] # "idle" ~> hpc[h] = "idle"

\* A listener that ends gets through wlock, and its Oracle session is closed.
Released == \A w \in Workers : lst[w] = "want" ~> lst[w] = "none"
=============================================================================
