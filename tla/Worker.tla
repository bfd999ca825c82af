------------------------------- MODULE Worker -------------------------------
(***************************************************************************)
(* The session workers of package otasker (otasker/worker.go).             *)
(*                                                                         *)
(* Every browser session is served by one goroutine, the listener of a     *)
(* worker, that owns one Oracle session.  HTTP handlers call Run or Break: *)
(* they find (or create) the worker in wlist and then talk to its listener *)
(* over three kinds of Go channels:                                        *)
(*   signalChan   capacity 1, a token that says "the listener is free";    *)
(*   inChan       unbuffered, hands a work item to the listener;           *)
(*   outChanList  one channel of capacity 1 per submitted task.            *)
(*                                                                         *)
(* A step of the model is one critical section or one channel operation of *)
(* the code.  A session stands for the pair (path, sessionID) that keys    *)
(* wlist, in upper case.  Only two outcomes of a task are told apart, since *)
(* listen tells no others apart: "interrupted" (StatusRequestWasInterrupted)*)
(* and "done".  startedAt/started are left out: they only feed the         *)
(* Duration shown on the wait and break pages.                             *)
(*                                                                         *)
(* Workers and Chans name heap objects.  An object that nothing refers to  *)
(* any more may be allocated again, as the garbage collector allows.       *)
(***************************************************************************)
EXTENDS Integers, FiniteSets

CONSTANTS
  Reqs,      \* HTTP handler goroutines, each serves one call at a time
  Sessions,  \* keys of wlist
  Tasks,     \* values of taskID
  Workers,   \* worker objects
  Chans,     \* result channels
  Nil,       \* absent map entry, nil pointer, empty buffer
  CanWait,   \* owa.SessionWaitTimeout is not negative (negative: never)
  CanIdle    \* owa.SessionIdleTimeout is not negative (negative: never)

Codes == {"done", "interrupted"}

\* OracleTaskResult, tagged with the work item that produced it.
Results == [sess : Sessions, task : Tasks, code : Codes]

\* The type work, reduced to the two fields worker.go looks at.
Works == [sess : Sessions, task : Tasks]

ASSUME NilAssumption ==
  Nil \notin Sessions \cup Tasks \cup Workers \cup Chans \cup Results \cup Works
ASSUME TimeoutAssumption == CanWait \in BOOLEAN /\ CanIdle \in BOOLEAN

VARIABLES
  wlist,        \* [Sessions -> worker or Nil]: the registry, under wlock
  numberOfSessions, \* the metric of the same name
  lst,          \* [Workers -> where the listener goroutine is]
  sess,         \* [Workers -> the ID argument of listen]
  signalChan,   \* [Workers -> number of tokens in the channel]
  cur,          \* [Workers -> the work item listen holds]
  wres,         \* [Workers -> the result of Run that listen holds]
  outChanList,  \* [Workers -> [Tasks -> channel or Nil]], under the RWMutex
  buf,          \* [Chans -> the buffered result or Nil]
  rpc,          \* [Reqs -> where the handler is in Run or Break]
  rsess,        \* [Reqs -> argument sessionID]
  rtask,        \* [Reqs -> argument taskID]
  rw,           \* [Reqs -> local variable w]
  rch,          \* [Reqs -> local variable outChan]
  rres          \* [Reqs -> local variable res]

registry == <<wlist, numberOfSessions>>
listener == <<lst, sess, signalChan, cur, wres>>
mailbox  == <<outChanList, buf>>
handler  == <<rpc, rsess, rtask, rw, rch, rres>>
vars     == <<registry, listener, mailbox, handler>>

-----------------------------------------------------------------------------
(* Control points.                                                          *)

\* "none": no goroutine; the others follow listen top to bottom, the last
\* two being the deferred function.
ListenPC == {"none", "boot", "select", "run", "deliver", "signal", "exit",
             "clear"}

RunPC   == {"lookup", "create", "check", "await", "reg", "send", "recv", "del"}
BreakPC == {"blook", "btry", "bkill"}
ReqPC   == {"idle"} \cup RunPC \cup BreakPC

\* The listener holds the worker: no token may be in signalChan.
Busy == {"boot", "run", "deliver", "signal"}

\* The listener goroutine has left its loop, or never started.
Gone == {"none", "exit", "clear"}

TypeOK ==
  /\ wlist \in [Sessions -> Workers \cup {Nil}]
  /\ numberOfSessions \in Int
  /\ lst \in [Workers -> ListenPC]
  /\ sess \in [Workers -> Sessions \cup {Nil}]
  /\ signalChan \in [Workers -> 0..1]
  /\ cur \in [Workers -> Works \cup {Nil}]
  /\ wres \in [Workers -> Results \cup {Nil}]
  /\ outChanList \in [Workers -> [Tasks -> Chans \cup {Nil}]]
  /\ buf \in [Chans -> Results \cup {Nil}]
  /\ rpc \in [Reqs -> ReqPC]
  /\ rsess \in [Reqs -> Sessions \cup {Nil}]
  /\ rtask \in [Reqs -> Tasks \cup {Nil}]
  /\ rw \in [Reqs -> Workers \cup {Nil}]
  /\ rch \in [Reqs -> Chans \cup {Nil}]
  /\ rres \in [Reqs -> Results \cup {Nil}]

Init ==
  /\ wlist = [s \in Sessions |-> Nil]
  /\ numberOfSessions = 0
  /\ lst = [w \in Workers |-> "none"]
  /\ sess = [w \in Workers |-> Nil]
  /\ signalChan = [w \in Workers |-> 0]
  /\ cur = [w \in Workers |-> Nil]
  /\ wres = [w \in Workers |-> Nil]
  /\ outChanList = [w \in Workers |-> [t \in Tasks |-> Nil]]
  /\ buf = [c \in Chans |-> Nil]
  /\ rpc = [r \in Reqs |-> "idle"]
  /\ rsess = [r \in Reqs |-> Nil]
  /\ rtask = [r \in Reqs |-> Nil]
  /\ rw = [r \in Reqs |-> Nil]
  /\ rch = [r \in Reqs |-> Nil]
  /\ rres = [r \in Reqs |-> Nil]

\* Heap objects that no goroutine, map or local variable refers to.
FreshWorker(w) ==
  /\ lst[w] = "none"
  /\ \A r \in Reqs : rw[r] # w
  /\ \A s \in Sessions : wlist[s] # w

FreshChan(c) ==
  /\ \A r \in Reqs : rch[r] # c
  /\ \A w \in Workers, t \in Tasks : outChanList[w][t] # c

-----------------------------------------------------------------------------
(* Run, the handler's side.                                                 *)

Goto(r, pc) == rpc' = [rpc EXCEPT ![r] = pc]

\* The call returns and its locals go out of scope.
Return(r) ==
  /\ Goto(r, "idle")
  /\ rsess' = [rsess EXCEPT ![r] = Nil]
  /\ rtask' = [rtask EXCEPT ![r] = Nil]
  /\ rw' = [rw EXCEPT ![r] = Nil]
  /\ rch' = [rch EXCEPT ![r] = Nil]
  /\ rres' = [rres EXCEPT ![r] = Nil]

\* The HTTP server calls otasker.Run for session s and task t.
CallRun(r, s, t) ==
  /\ rpc[r] = "idle"
  /\ Goto(r, "lookup")
  /\ rsess' = [rsess EXCEPT ![r] = s]
  /\ rtask' = [rtask EXCEPT ![r] = t]
  /\ UNCHANGED <<registry, listener, mailbox, rw, rch, rres>>

\* The read of wlist under wlock.RLock.
Lookup(r) ==
  /\ rpc[r] = "lookup"
  /\ rw' = [rw EXCEPT ![r] = wlist[rsess[r]]]
  /\ Goto(r, IF wlist[rsess[r]] = Nil THEN "create" ELSE "check")
  /\ UNCHANGED <<registry, listener, mailbox, rsess, rtask, rch, rres>>

\* No worker was found: make one and register it under wlock.Lock, whatever
\* wlist holds by now, and start its listener.
Create(r, w) ==
  /\ rpc[r] = "create"
  /\ FreshWorker(w)
  /\ wlist' = [wlist EXCEPT ![rsess[r]] = w]
  /\ numberOfSessions' = numberOfSessions + 1
  /\ lst' = [lst EXCEPT ![w] = "boot"]
  /\ sess' = [sess EXCEPT ![w] = rsess[r]]
  /\ signalChan' = [signalChan EXCEPT ![w] = 0]
  /\ outChanList' = [outChanList EXCEPT ![w] = [t \in Tasks |-> Nil]]
  /\ rw' = [rw EXCEPT ![r] = w]
  /\ Goto(r, "check")
  /\ UNCHANGED <<cur, wres, buf, rsess, rtask, rch, rres>>

\* Mutant: any result channel of the worker will do.
CheckOut_AnyTask(r) ==
  /\ rpc[r] = "check"
  /\ \E t \in Tasks :
       /\ rch' = [rch EXCEPT ![r] = outChanList[rw[r]][t]]
       /\ Goto(r, IF outChanList[rw[r]][t] = Nil THEN "await" ELSE "recv")
  /\ UNCHANGED <<registry, listener, mailbox, rsess, rtask, rw, rres>>

\* Mutant: nobody looks for a channel of the task, polls submit it again.
CheckOut_Ignore(r) ==
  /\ rpc[r] = "check"
  /\ Goto(r, "await")
  /\ UNCHANGED <<registry, listener, mailbox, rsess, rtask, rw, rch, rres>>

\* w.outChan(taskID): has this task been submitted before?
CheckOut(r) ==
  /\ rpc[r] = "check"
  /\ rch' = [rch EXCEPT ![r] = outChanList[rw[r]][rtask[r]]]
  /\ Goto(r, IF outChanList[rw[r]][rtask[r]] = Nil THEN "await" ELSE "recv")
  /\ UNCHANGED <<registry, listener, mailbox, rsess, rtask, rw, rres>>

\* Mutant: the handler does not wait for the token.
TakeSignal_NoWait(r) ==
  /\ rpc[r] = "await"
  /\ signalChan' = [signalChan EXCEPT ![rw[r]] = @ - 1]
  /\ Goto(r, "reg")
  /\ UNCHANGED <<registry, lst, sess, cur, wres, mailbox, rsess, rtask, rw,
                 rch, rres>>

\* First select of Run, case <-w.signalChan.
TakeSignal(r) ==
  /\ rpc[r] = "await"
  /\ signalChan[rw[r]] = 1
  /\ signalChan' = [signalChan EXCEPT ![rw[r]] = 0]
  /\ Goto(r, "reg")
  /\ UNCHANGED <<registry, lst, sess, cur, wres, mailbox, rsess, rtask, rw,
                 rch, rres>>

\* Mutant: the break page is offered only while the listener works.
BreakPage_OnlyBusy(r) ==
  /\ rpc[r] = "await"
  /\ lst[rw[r]] \in Busy
  /\ Return(r)
  /\ UNCHANGED <<registry, listener, mailbox>>

\* First select of Run, case <-time.After(waitTimeout): StatusBreakPage.
BreakPage(r) ==
  /\ rpc[r] = "await"
  /\ CanWait
  /\ Return(r)
  /\ UNCHANGED <<registry, listener, mailbox>>

\* Mutant: a channel that is already there is used again.
Register_Reuse(r, c) ==
  /\ rpc[r] = "reg"
  /\ c = outChanList[rw[r]][rtask[r]] \/ FreshChan(c)
  /\ outChanList' = [outChanList EXCEPT ![rw[r]][rtask[r]] = c]
  /\ rch' = [rch EXCEPT ![r] = c]
  /\ Goto(r, "send")
  /\ UNCHANGED <<registry, listener, buf, rsess, rtask, rw, rres>>

\* A new channel is stored in outChanList under the worker's lock.
Register(r, c) ==
  /\ rpc[r] = "reg"
  /\ FreshChan(c)
  /\ outChanList' = [outChanList EXCEPT ![rw[r]][rtask[r]] = c]
  /\ buf' = [buf EXCEPT ![c] = Nil]
  /\ rch' = [rch EXCEPT ![r] = c]
  /\ Goto(r, "send")
  /\ UNCHANGED <<registry, listener, rsess, rtask, rw, rres>>

\* w.inChan <- wrk meets the receive in the listener's select.
Send(r) ==
  /\ rpc[r] = "send"
  /\ lst[rw[r]] = "select"
  /\ lst' = [lst EXCEPT ![rw[r]] = "run"]
  /\ cur' = [cur EXCEPT ![rw[r]] = [sess |-> rsess[r], task |-> rtask[r]]]
  /\ Goto(r, "recv")
  /\ UNCHANGED <<registry, sess, signalChan, wres, mailbox, rsess, rtask, rw,
                 rch, rres>>

\* Second select of Run, case res := <-outChan.
Recv(r) ==
  /\ rpc[r] = "recv"
  /\ buf[rch[r]] # Nil
  /\ rres' = [rres EXCEPT ![r] = buf[rch[r]]]
  /\ buf' = [buf EXCEPT ![rch[r]] = Nil]
  /\ Goto(r, "del")
  /\ UNCHANGED <<registry, listener, outChanList, rsess, rtask, rw, rch>>

\* delete(w.outChanList, taskID) under the worker's lock, and return res.
Delete(r) ==
  /\ rpc[r] = "del"
  /\ outChanList' = [outChanList EXCEPT ![rw[r]][rtask[r]] = Nil]
  /\ Return(r)
  /\ UNCHANGED <<registry, listener, buf>>

\* Mutant: a handler that gives up takes the channel of its task off the list.
WaitPage_Forget(r) ==
  /\ rpc[r] = "recv"
  /\ CanWait
  /\ outChanList' = [outChanList EXCEPT ![rw[r]][rtask[r]] = Nil]
  /\ Return(r)
  /\ UNCHANGED <<registry, listener, buf>>

\* Mutant: the handler submits the task again when it has waited in vain.
WaitPage_Resubmit(r) ==
  /\ rpc[r] = "recv"
  /\ CanWait
  /\ Goto(r, "await")
  /\ rch' = [rch EXCEPT ![r] = Nil]
  /\ UNCHANGED <<registry, listener, mailbox, rsess, rtask, rw, rres>>

\* Second select of Run, case <-time.After(waitTimeout): StatusWaitPage.
WaitPage(r) ==
  /\ rpc[r] = "recv"
  /\ CanWait
  /\ Return(r)
  /\ UNCHANGED <<registry, listener, mailbox>>

-----------------------------------------------------------------------------
(* Break.                                                                   *)

CallBreak(r, s) ==
  /\ rpc[r] = "idle"
  /\ Goto(r, "blook")
  /\ rsess' = [rsess EXCEPT ![r] = s]
  /\ UNCHANGED <<registry, listener, mailbox, rtask, rw, rch, rres>>

\* The read of wlist under wlock.RLock: nobody to break ...
BreakMissing(r) ==
  /\ rpc[r] = "blook"
  /\ wlist[rsess[r]] = Nil
  /\ Return(r)
  /\ UNCHANGED <<registry, listener, mailbox>>

\* ... or a worker whose state has to be looked at.
BreakFound(r) ==
  /\ rpc[r] = "blook"
  /\ wlist[rsess[r]] # Nil
  /\ rw' = [rw EXCEPT ![r] = wlist[rsess[r]]]
  /\ Goto(r, "btry")
  /\ UNCHANGED <<registry, listener, mailbox, rsess, rtask, rch, rres>>

\* The non-blocking receive succeeds: the worker is free, nothing to break.
BreakFree(r) ==
  /\ rpc[r] = "btry"
  /\ signalChan[rw[r]] = 1
  /\ signalChan' = [signalChan EXCEPT ![rw[r]] = 0]
  /\ Return(r)
  /\ UNCHANGED <<registry, lst, sess, cur, wres, mailbox>>

\* Mutant: Break hands the token back in the wrong branch.
BreakBusy_Token(r) ==
  /\ rpc[r] = "btry"
  /\ signalChan[rw[r]] = 0
  /\ signalChan' = [signalChan EXCEPT ![rw[r]] = 1]
  /\ Goto(r, "bkill")
  /\ UNCHANGED <<registry, lst, sess, cur, wres, mailbox, rsess, rtask, rw,
                 rch, rres>>

\* The default branch: the worker is busy, w.Break() is called ...
BreakBusy(r) ==
  /\ rpc[r] = "btry"
  /\ signalChan[rw[r]] = 0
  /\ Goto(r, "bkill")
  /\ UNCHANGED <<registry, listener, mailbox, rsess, rtask, rw, rch, rres>>

\* ... and returns.  What it does to the Oracle session is module Tasker's
\* subject; here it shows as the code that Execute chooses.
BreakReturn(r) ==
  /\ rpc[r] = "bkill"
  /\ Return(r)
  /\ UNCHANGED <<registry, listener, mailbox>>

-----------------------------------------------------------------------------
(* listen.                                                                  *)

ListenTo(w, pc) == lst' = [lst EXCEPT ![w] = pc]

\* The first token.
Boot(w) ==
  /\ lst[w] = "boot"
  /\ signalChan[w] = 0
  /\ signalChan' = [signalChan EXCEPT ![w] = 1]
  /\ ListenTo(w, "select")
  /\ UNCHANGED <<registry, sess, cur, wres, mailbox, handler>>

\* w.start() and w.Run(...), which returns some result.
Execute(w, code) ==
  /\ lst[w] = "run"
  /\ wres' = [wres EXCEPT ![w] = [sess |-> cur[w].sess, task |-> cur[w].task,
                                  code |-> code]]
  /\ ListenTo(w, "deliver")
  /\ UNCHANGED <<registry, sess, signalChan, cur, mailbox, handler>>

\* Mutant: the result of an interrupted task is not delivered.
Deliver_SkipInterrupted(w) ==
  /\ lst[w] = "deliver"
  /\ LET c == outChanList[w][cur[w].task]
     IN  buf' = IF c # Nil /\ wres[w].code = "done"
                  THEN [buf EXCEPT ![c] = wres[w]] ELSE buf
  /\ ListenTo(w, "signal")
  /\ UNCHANGED <<registry, sess, signalChan, cur, wres, outChanList, handler>>

\* w.outChan(wrk.taskID) and, if there is one, outChan <- res.  Nobody else
\* sends on the channel, so the look-up and the send can be one step.
Deliver(w) ==
  /\ lst[w] = "deliver"
  /\ LET c == outChanList[w][cur[w].task]
     IN  \/ c = Nil /\ buf' = buf
         \/ c # Nil /\ buf[c] = Nil /\ buf' = [buf EXCEPT ![c] = wres[w]]
  /\ ListenTo(w, "signal")
  /\ UNCHANGED <<registry, sess, signalChan, cur, wres, outChanList, handler>>

\* w.finish(): the token is put back.  An interrupted worker then leaves the
\* loop, the others wait for more work.
Finish(w) ==
  /\ lst[w] = "signal"
  /\ signalChan[w] = 0
  /\ signalChan' = [signalChan EXCEPT ![w] = 1]
  /\ ListenTo(w, IF wres[w].code = "interrupted" THEN "exit" ELSE "select")
  /\ cur' = [cur EXCEPT ![w] = Nil]
  /\ wres' = [wres EXCEPT ![w] = Nil]
  /\ UNCHANGED <<registry, sess, mailbox, handler>>

\* Mutant: only a worker that is marked free times out.
IdleTimeout_OnlyFree(w) ==
  /\ lst[w] = "select"
  /\ CanIdle
  /\ signalChan[w] = 1
  /\ ListenTo(w, "exit")
  /\ UNCHANGED <<registry, sess, signalChan, cur, wres, mailbox, handler>>

\* case <-time.After(idleTimeout).
IdleTimeout(w) ==
  /\ lst[w] = "select"
  /\ CanIdle
  /\ ListenTo(w, "exit")
  /\ UNCHANGED <<registry, sess, signalChan, cur, wres, mailbox, handler>>

\* Mutants: the entry is left in wlist; the gauge is decremented here too.
Deregister_Keep(w) ==
  /\ lst[w] = "exit"
  /\ ListenTo(w, "clear")
  /\ UNCHANGED <<registry, sess, signalChan, cur, wres, mailbox, handler>>

Deregister_Count(w) ==
  /\ lst[w] = "exit"
  /\ wlist' = [wlist EXCEPT ![sess[w]] = Nil]
  /\ numberOfSessions' = numberOfSessions - 1
  /\ ListenTo(w, "clear")
  /\ UNCHANGED <<sess, signalChan, cur, wres, mailbox, handler>>

\* The deferred delete(wlist[path], ID), whoever is registered there by now.
Deregister(w) ==
  /\ lst[w] = "exit"
  /\ wlist' = [wlist EXCEPT ![sess[w]] = Nil]
  /\ ListenTo(w, "clear")
  /\ UNCHANGED <<numberOfSessions, sess, signalChan, cur, wres, mailbox,
                 handler>>

\* CloseAndFree, the loop that empties outChanList and the gauge.  The
\* goroutine ends.
ClearOut(w) ==
  /\ lst[w] = "clear"
  /\ outChanList' = [outChanList EXCEPT ![w] = [t \in Tasks |-> Nil]]
  /\ numberOfSessions' = numberOfSessions - 1
  /\ ListenTo(w, "none")
  /\ UNCHANGED <<wlist, sess, signalChan, cur, wres, buf, handler>>

-----------------------------------------------------------------------------
RunStep(r) ==
  \/ Lookup(r) \/ CheckOut(r) \/ TakeSignal(r) \/ BreakPage(r)
  \/ Send(r) \/ Recv(r) \/ Delete(r) \/ WaitPage(r)
  \/ \E w \in Workers : Create(r, w)
  \/ \E c \in Chans : Register(r, c)

BreakStep(r) ==
  \/ BreakMissing(r) \/ BreakFound(r) \/ BreakFree(r) \/ BreakBusy(r)
  \/ BreakReturn(r)

Call(r) ==
  \/ \E s \in Sessions, t \in Tasks : CallRun(r, s, t)
  \/ \E s \in Sessions : CallBreak(r, s)

ListenStep(w) ==
  \/ Boot(w) \/ Deliver(w) \/ Finish(w) \/ IdleTimeout(w)
  \/ Deregister(w) \/ ClearOut(w)
  \/ \E code \in Codes : Execute(w, code)

Next ==
  \/ \E r \in Reqs : Call(r) \/ RunStep(r) \/ BreakStep(r)
  \/ \E w \in Workers : ListenStep(w)

Spec == Init /\ [][Next]_vars

\* The Go scheduler runs every goroutine that can run, timers fire, and the
\* database call inside Execute returns.  Calls are up to the users.
Fairness ==
  /\ \A r \in Reqs : WF_vars(RunStep(r)) /\ WF_vars(BreakStep(r))
  /\ \A w \in Workers : WF_vars(ListenStep(w))

FairSpec == Spec /\ Fairness

-----------------------------------------------------------------------------
(* Properties.                                                              *)

\* Handler r has taken w's token and has not yet handed its work over.
Holder(r, w) == rpc[r] \in {"reg", "send"} /\ rw[r] = w

\* signalChan is a mutual exclusion token: while the listener works, or while
\* one handler is between reading signalChan and the hand-over on inChan, no
\* other handler can submit work to the same worker.
SignalExclusive ==
  \A w \in Workers :
    /\ lst[w] \in Busy => signalChan[w] = 0
    /\ \A r \in Reqs : Holder(r, w) =>
         /\ signalChan[w] = 0
         /\ lst[w] \notin Busy
         /\ \A q \in Reqs : Holder(q, w) => q = r

\* listen never blocks on its own sends: when it puts the token back or
\* delivers a result, the buffer of capacity 1 is empty.  A listener stuck
\* there would hold its Oracle session and its wlist entry for good.
ListenerNeverBlocks ==
  \A w \in Workers :
    /\ lst[w] \in {"boot", "signal"} => signalChan[w] = 0
    /\ lst[w] = "deliver" =>
         \/ outChanList[w][cur[w].task] = Nil
         \/ buf[outChanList[w][cur[w].task]] = Nil

\* The result Run returns was produced by work submitted for the caller's own
\* session and task, whatever other handlers did with the same channel list.
ResultRouting ==
  \A r \in Reqs : rpc[r] = "del" =>
    rres[r].sess = rsess[r] /\ rres[r].task = rtask[r]

\* wlist never hands out a worker whose deferred clean-up has passed the
\* delete from wlist, nor one that serves another session.
WlistLive ==
  \A s \in Sessions : wlist[s] # Nil =>
    /\ sess[wlist[s]] = s
    /\ lst[wlist[s]] \notin {"clear", "none"}

\* The gauge numberOfSessions counts at least every registered worker.
\* (Replaced workers that are still running count too.)
GaugeCoversRegistry ==
  numberOfSessions >= Cardinality({s \in Sessions : wlist[s] # Nil})

\* Handler r is submitting task t to w, or has just collected its result.
Answers(r, w, t) == rpc[r] \in {"send", "del"} /\ rw[r] = w /\ rtask[r] = t

\* A channel that outChanList of a live worker still holds has its answer on
\* the way: being submitted, being executed, buffered, or just collected by a
\* handler that is about to delete the entry.  So a client that is shown the
\* wait page and asks again for its task is not left waiting for ever.
RegisteredIsAnswered ==
  \A w \in Workers, t \in Tasks :
    (outChanList[w][t] # Nil /\ lst[w] \notin Gone) =>
      \/ buf[outChanList[w][t]] # Nil
      \/ lst[w] \in {"run", "deliver"} /\ cur[w].task = t
      \/ \E r \in Reqs : Answers(r, w, t)

\* Handler r is in w.inChan <- wrk and nobody will ever receive: the listener
\* has left its loop.
Stranded(r) == rpc[r] = "send" /\ lst[rw[r]] \in Gone

\* The model's bound: handler r needs an object and all of them are in use.
\* (The program can always allocate.)
Exhausted(r) ==
  \/ rpc[r] = "create" /\ \A w \in Workers : ~FreshWorker(w)
  \/ rpc[r] = "reg" /\ \A c \in Chans : ~FreshChan(c)

Halted(r) == rpc[r] = "idle" \/ Stranded(r) \/ Exhausted(r)

\* Every Run and Break returns, unless it is stranded in the hand-over.
RunReturns ==
  \A r \in Reqs : rpc[r] # "idle" ~> Halted(r)

\* Once no more calls are in progress, wlist empties (what TestWorkerRun
\* waits for at its end): no session worker is leaked in the registry.
RegistryDrains ==
  <>[](\A r \in Reqs : Halted(r))
    => <>[](\A s \in Sessions : wlist[s] = Nil)

-----------------------------------------------------------------------------
(* The abstract specification that Worker implements.                       *)

Stage(r) ==
  IF rpc[r] \in {"lookup", "create", "check", "await", "reg", "send"} THEN "asked"
  ELSE IF rpc[r] = "recv" THEN "waiting"
  ELSE IF rpc[r] = "del" THEN "answered"
  ELSE "idle"

stageOf  == [r \in Reqs |-> Stage(r)]
callOf   == [r \in Reqs |-> IF Stage(r) = "idle" THEN Nil
                            ELSE [sess |-> rsess[r], task |-> rtask[r]]]
slotOf   == [r \in Reqs |-> IF rpc[r] = "recv" THEN rch[r] ELSE Nil]
answerOf == [r \in Reqs |-> IF rpc[r] = "del" THEN rres[r] ELSE Nil]

\* A worker executes from the hand-over until it has delivered the result.
executingOf ==
  [w \in Workers |-> IF lst[w] \in {"run", "deliver"} THEN cur[w] ELSE Nil]

\* Channels that nobody can reach any more hold nothing.
storeOf == [c \in Chans |-> IF FreshChan(c) THEN Nil ELSE buf[c]]

Promise == INSTANCE Service WITH
  stage <- stageOf, call <- callOf, slot <- slotOf, answer <- answerOf,
  executing <- executingOf, store <- storeOf

\* Run and listen together are the service that the HTTP handlers rely on: a
\* call sets off at most one execution; executions answer calls for the same
\* session and task; each result is the answer of at most one call; and no
\* result is dropped from a channel while a call waits there.
ServicePromise == Promise!Spec

-----------------------------------------------------------------------------
(* What comments of worker.go say and the code does not do.                 *)

\* "Signal that another request is being executed": a handler that waits for
\* the token, and so may answer with StatusBreakPage, waits for a token that
\* exists or for a worker that somebody uses.
BreakPageMeansBusy ==
  \A r \in Reqs : rpc[r] = "await" =>
    \/ signalChan[rw[r]] = 1
    \/ lst[rw[r]] \in Busy
    \/ \E q \in Reqs : Holder(q, rw[r])

\* "The signal that the worker is free was read.  Send it the task": the
\* hand-over that follows the token completes.
SendCompletes == \A r \in Reqs : rpc[r] = "send" ~> rpc[r] # "send"

\* "Remove this handler from the list of available ones": the listener that
\* ends takes itself, and no other worker, off wlist.
ExitRemovesItself ==
  [][\A w \in Workers : Deregister(w) => wlist[sess[w]] = w]_vars
=============================================================================
