---------------------------- MODULE ServiceProofs ---------------------------
(***************************************************************************)
(* Module Worker implements module Service, for any sets of handlers,      *)
(* sessions, tasks, workers and channels.  The refinement mapping is the   *)
(* one of Promise; the steps rest on the inductive invariant of            *)
(* WorkerProofs.                                                           *)
(***************************************************************************)
EXTENDS WorkerProofs

\* Service's callers as Worker's handlers show them.
callerOf == <<stageOf, callOf, slotOf, answerOf>>

\* A step of r that leaves the other handlers alone changes the abstract state
\* of r only, and not even that if r stays at the same stage with its locals.
LEMMA CallerFrame ==
  ASSUME \A q \in Reqs :
           /\ Stage(q)' = Stage(q)
           /\ Stage(q) # "idle" => rsess'[q] = rsess[q] /\ rtask'[q] = rtask[q]
           /\ rpc'[q] = "recv" <=> rpc[q] = "recv"
           /\ rpc[q] = "recv" => rch'[q] = rch[q]
           /\ rpc'[q] = "del" <=> rpc[q] = "del"
           /\ rpc[q] = "del" => rres'[q] = rres[q]
  PROVE  UNCHANGED callerOf
<1>1. stageOf' = stageOf
  BY DEF stageOf
<1>2. callOf' = callOf
  BY DEF callOf
<1>3. slotOf' = slotOf
  BY DEF slotOf
<1>4. answerOf' = answerOf
  BY DEF answerOf
<1> QED
  BY <1>1, <1>2, <1>3, <1>4 DEF callerOf

\* Where no reference to a channel appears and no content changes, results can
\* only be dropped, and only from channels at which no handler waits.
LEMMA StoreDrops ==
  ASSUME TypeOK, TypeOK',
         \A c \in Chans : \/ FreshChan(c)'
                          \/ ~FreshChan(c) /\ buf'[c] = buf[c]
                          \/ FreshChan(c) /\ buf'[c] = Nil
  PROVE  Promise!Drop
<1>1. storeOf' \in [Chans -> Results \cup {Nil}]
  BY DEF TypeOK, storeOf
<1>2. ASSUME NEW c \in Chans
      PROVE  \/ storeOf'[c] = storeOf[c]
             \/ storeOf'[c] = Nil /\ \A r \in Reqs : slotOf'[r] # c
  <2>1. CASE FreshChan(c)'
    <3>1. storeOf'[c] = Nil
      BY <2>1 DEF storeOf
    <3>2. \A r \in Reqs : slotOf'[r] # c
      BY <2>1, NilAssumption DEF FreshChan, slotOf
    <3> QED
      BY <3>1, <3>2
  <2>2. CASE ~FreshChan(c)'
    BY <2>2 DEF storeOf
  <2> QED
    BY <2>1, <2>2
<1> QED
  BY <1>1, <1>2 DEF Promise!Drop, Promise!Results, Promise!Codes, Results, Codes

\* The same channels are referred to and hold the same.
LEMMA StoreFrame ==
  ASSUME UNCHANGED <<buf, outChanList, rch>>
  PROVE  storeOf' = storeOf
<1>1. \A c \in Chans : FreshChan(c)' <=> FreshChan(c)
  BY DEF FreshChan
<1> QED
  BY <1>1 DEF storeOf

\* The initial states correspond.
LEMMA InitRefines == Init => Promise!Init
BY DEF Init, Promise!Init, stageOf, Stage, callOf, slotOf, answerOf,
       executingOf, storeOf

\* The same workers are at work on the same tasks.
LEMMA ExecutingFrame ==
  ASSUME \A w \in Workers :
           /\ lst'[w] \in {"run", "deliver"} <=> lst[w] \in {"run", "deliver"}
           /\ lst[w] \in {"run", "deliver"} => cur'[w] = cur[w]
  PROVE  executingOf' = executingOf
BY DEF executingOf

\* A step that changes nothing Service knows of.
LEMMA Stutter ==
  ASSUME UNCHANGED callerOf, executingOf' = executingOf, storeOf' = storeOf
  PROVE  UNCHANGED Promise!vars
BY DEF Promise!vars, Promise!caller, callerOf

-----------------------------------------------------------------------------
(* One lemma per group of actions.                                          *)

\* A handler that returns, from wherever it is in Run, is a call that returns.
LEMMA ReturnRefines ==
  ASSUME IInv, TypeOK', NEW r \in Reqs, rpc[r] \in RunPC, Return(r),
         UNCHANGED <<lst, cur, buf>>,
         \A w \in Workers, t \in Tasks :
           outChanList'[w][t] = Nil \/ outChanList'[w][t] = outChanList[w][t]
  PROVE  Promise!Return(r)
<1> USE DEF Return, Goto
<1>0. TypeOK
  BY DEF IInv
<1>1. Stage(r) # "idle"
  BY DEF Stage, RunPC
<1>2. stageOf[r] # "idle" /\ stageOf' = [stageOf EXCEPT ![r] = "idle"]
  BY <1>0, <1>1 DEF stageOf, Stage, TypeOK
<1>3. callOf' = [callOf EXCEPT ![r] = Nil]
  BY <1>0 DEF callOf, Stage, TypeOK
<1>4. slotOf' = [slotOf EXCEPT ![r] = Nil]
  BY <1>0 DEF slotOf, TypeOK
<1>5. answerOf' = [answerOf EXCEPT ![r] = Nil]
  BY <1>0 DEF answerOf, TypeOK
<1>6. executingOf' = executingOf
  BY ExecutingFrame
<1>7. Promise!Drop
  <2>1. ASSUME NEW c \in Chans, FreshChan(c) PROVE FreshChan(c)'
    BY <1>0, <2>1, NilAssumption DEF FreshChan, TypeOK
  <2>2. \A c \in Chans : FreshChan(c)' \/ (~FreshChan(c) /\ buf'[c] = buf[c])
    BY <2>1
  <2> QED
    BY <1>0, <2>2, StoreDrops
<1> QED
  BY <1>2, <1>3, <1>4, <1>5, <1>6, <1>7 DEF Promise!Return

\* The steps of Run before the hand-over, and those of Break, are invisible.
LEMMA QuietRefines ==
  ASSUME IInv, NEW r \in Reqs,
         \/ Lookup(r) \/ TakeSignal(r)
         \/ BreakMissing(r) \/ BreakFound(r) \/ BreakFree(r) \/ BreakBusy(r)
         \/ BreakReturn(r)
         \/ \E s \in Sessions : CallBreak(r, s)
  PROVE  UNCHANGED Promise!vars
<1> USE DEF Lookup, TakeSignal, BreakMissing, BreakFound, BreakFree, BreakBusy,
            BreakReturn, CallBreak, Goto, Return, registry, listener, mailbox
<1>0. TypeOK /\ Locals
  BY DEF IInv
<1>1. /\ UNCHANGED <<lst, cur, buf, outChanList>>
      /\ Stage(r)' = Stage(r)
      /\ rpc[r] \notin HasChan /\ rpc'[r] \notin HasChan
      /\ Stage(r) # "idle" => rsess'[r] = rsess[r] /\ rtask'[r] = rtask[r]
  BY <1>0 DEF TypeOK, Stage, HasChan
<1>2. \A q \in Reqs \ {r} : /\ rpc'[q] = rpc[q] /\ rsess'[q] = rsess[q]
                            /\ rtask'[q] = rtask[q] /\ rch'[q] = rch[q]
                            /\ rres'[q] = rres[q]
  BY <1>0 DEF TypeOK
<1>3. rch' = rch
  <2>1. rch[r] = Nil /\ rch'[r] = rch[r] 
    BY <1>0, <1>1 DEF TypeOK, Locals
  <2>2. rch' \in [Reqs -> Chans \cup {Nil}]
    BY <1>0 DEF TypeOK
  <2> QED
    BY <1>0, <1>2, <2>1, <2>2 DEF TypeOK
<1>4. UNCHANGED callerOf
  <2>1. \A q \in Reqs \ {r} : Stage(q)' = Stage(q)
    BY <1>2 DEF Stage
  <2> QED
    BY <1>1, <1>2, <2>1, CallerFrame DEF HasChan
<1>5. executingOf' = executingOf
  BY <1>1, ExecutingFrame
<1>6. storeOf' = storeOf
  BY <1>1, <1>3, StoreFrame
<1> QED
  BY <1>4, <1>5, <1>6, Stutter

\* The listener's steps that neither take work nor deliver are invisible.
LEMMA ListenRefines ==
  ASSUME IInv, NEW w \in Workers,
         \/ Boot(w) \/ Finish(w) \/ IdleTimeout(w) \/ Deregister(w)
         \/ \E code \in Codes : Execute(w, code)
  PROVE  UNCHANGED Promise!vars
<1> USE DEF Boot, Finish, IdleTimeout, Deregister, Execute, ListenTo, mailbox,
            handler, registry
<1>0. TypeOK
  BY DEF IInv
<1>1. UNCHANGED <<handler, buf, outChanList>>
  OBVIOUS
<1>2. executingOf' = executingOf
  BY <1>0, ExecutingFrame DEF TypeOK
<1>3. storeOf' = storeOf
  BY <1>1, StoreFrame DEF handler
<1>4. UNCHANGED callerOf
  BY <1>1, CallerFrame DEF Stage
<1> QED
  BY <1>2, <1>3, <1>4, Stutter

\* The call of Run is the request for a task.
LEMMA CallRefines ==
  ASSUME IInv, NEW r \in Reqs, NEW s \in Sessions, NEW t \in Tasks,
         CallRun(r, s, t)
  PROVE  Promise!Ask(r, s, t)
<1> USE DEF CallRun, Goto, registry, listener, mailbox
<1>0. TypeOK
  BY DEF IInv
<1>1. stageOf[r] = "idle" /\ stageOf' = [stageOf EXCEPT ![r] = "asked"]
  BY <1>0 DEF TypeOK, stageOf, Stage
<1>2. callOf' = [callOf EXCEPT ![r] = [sess |-> s, task |-> t]]
  BY <1>0 DEF TypeOK, callOf, Stage
<1>3. slotOf' = slotOf /\ answerOf' = answerOf
  BY <1>0 DEF TypeOK, slotOf, answerOf
<1>4. executingOf' = executingOf
  BY ExecutingFrame
<1>5. storeOf' = storeOf
  BY StoreFrame
<1> QED
  BY <1>1, <1>2, <1>3, <1>4, <1>5 DEF Promise!Ask

\* A handler that finds the channel of its task joins those who wait for it.
LEMMA CheckOutRefines ==
  ASSUME IInv, NEW r \in Reqs, CheckOut(r)
  PROVE  (\E c \in Chans : Promise!Join(r, c)) \/ UNCHANGED Promise!vars
<1> DEFINE ch == outChanList[rw[r]][rtask[r]]
<1> USE DEF CheckOut, Goto, registry, listener, mailbox
<1>0. TypeOK /\ Locals /\ rw[r] \in Workers /\ rtask[r] \in Tasks
  BY DEF IInv, Locals, RunPC, HasWorker
<1>1. rch[r] = Nil
  BY <1>0 DEF Locals, HasChan
<1>2. executingOf' = executingOf
  BY ExecutingFrame
<1>3. CASE ch = Nil
  <2>1. rch' = rch
    BY <1>0, <1>1, <1>3 DEF TypeOK
  <2>2. storeOf' = storeOf
    BY <2>1, StoreFrame
  <2>3. rpc' = [rpc EXCEPT ![r] = "await"] /\ UNCHANGED <<rsess, rtask, rres>>
    BY <1>3
  <2>4. UNCHANGED callerOf
    <3>1. rpc[r] = "check" /\ rpc'[r] = "await"
      BY <1>0, <2>3 DEF TypeOK
    <3>2. \A q \in Reqs \ {r} : rpc'[q] = rpc[q]
      BY <1>0, <2>3 DEF TypeOK
    <3>3. \A q \in Reqs : Stage(q)' = Stage(q)
      BY <3>1, <3>2 DEF Stage
    <3> QED
      BY <2>1, <2>3, <3>1, <3>2, <3>3, CallerFrame
  <2>5. UNCHANGED Promise!vars
    BY <1>2, <2>2, <2>4, Stutter
  <2> QED
    BY <2>5
<1>4. CASE ch # Nil
  <2>1. ch \in Chans
    BY <1>0, <1>4 DEF TypeOK
  <2>2. rpc' = [rpc EXCEPT ![r] = "recv"] /\ rch' = [rch EXCEPT ![r] = ch]
    BY <1>4
  <2>3. stageOf[r] = "asked" /\ stageOf' = [stageOf EXCEPT ![r] = "waiting"]
    <3>1. Stage(r) = "asked" /\ Stage(r)' = "waiting"
      BY <1>0, <2>2 DEF TypeOK, Stage
    <3>2. \A q \in Reqs \ {r} : Stage(q)' = Stage(q)
      BY <1>0, <2>2 DEF TypeOK, Stage
    <3> QED
      BY <3>1, <3>2 DEF stageOf
  <2>4. slotOf' = [slotOf EXCEPT ![r] = ch]
    BY <1>0, <2>2 DEF TypeOK, slotOf
  <2>5. callOf' = callOf /\ answerOf' = answerOf
    BY <1>0, <2>2 DEF TypeOK, callOf, answerOf, Stage
  <2>6. storeOf' = storeOf
    <3>1. \A d \in Chans : FreshChan(d)' <=> FreshChan(d)
      BY <1>0, <1>1, <2>2, NilAssumption DEF TypeOK, FreshChan
    <3> QED
      BY <3>1 DEF storeOf
  <2>7. Promise!Join(r, ch)
    BY <1>2, <2>3, <2>4, <2>5, <2>6 DEF Promise!Join, Promise!Wait
  <2> QED
    BY <2>1, <2>7
<1> QED
  BY <1>3, <1>4

\* The hand-over starts an execution of what the handler's call asks for.
LEMMA SendRefines ==
  ASSUME IInv, NEW r \in Reqs, Send(r)
  PROVE  Promise!Begin(r, rch[r], rw[r]) /\ rch[r] \in Chans /\ rw[r] \in Workers
<1> USE DEF Send, Goto, registry, mailbox
<1>0. TypeOK /\ rw[r] \in Workers /\ rtask[r] \in Tasks /\ rch[r] \in Chans
  BY DEF IInv, Locals, RunPC, HasWorker, HasChan
<1>1. stageOf[r] = "asked" /\ stageOf' = [stageOf EXCEPT ![r] = "waiting"]
  BY <1>0 DEF TypeOK, stageOf, Stage
<1>2. slotOf' = [slotOf EXCEPT ![r] = rch[r]]
  BY <1>0 DEF TypeOK, slotOf
<1>3. callOf' = callOf /\ answerOf' = answerOf
  BY <1>0 DEF TypeOK, callOf, answerOf, Stage
<1>4. storeOf' = storeOf
  BY StoreFrame
<1>5. executingOf[rw[r]] = Nil
  BY <1>0 DEF executingOf
<1>6. executingOf' = [executingOf EXCEPT ![rw[r]] = callOf[r]]
  BY <1>0 DEF TypeOK, executingOf, callOf, Stage
<1> QED
  BY <1>0, <1>1, <1>2, <1>3, <1>4, <1>5, <1>6 DEF Promise!Begin, Promise!Wait

\* The receive from the task's channel is the answer of the call.
LEMMA RecvRefines ==
  ASSUME IInv, NEW r \in Reqs, Recv(r)
  PROVE  Promise!Answer(r)
<1> USE DEF Recv, Goto, registry, listener
<1>0. TypeOK /\ rch[r] \in Chans /\ rch[r] # Nil
  BY NilAssumption DEF IInv, Locals, HasChan
<1>1. stageOf[r] = "waiting" /\ stageOf' = [stageOf EXCEPT ![r] = "answered"]
  BY <1>0 DEF TypeOK, stageOf, Stage
<1>2. slotOf[r] = rch[r] /\ slotOf' = [slotOf EXCEPT ![r] = Nil]
  BY <1>0 DEF TypeOK, slotOf
<1>3. callOf' = callOf /\ executingOf' = executingOf
  BY <1>0, ExecutingFrame DEF TypeOK, callOf, Stage
<1>4. storeOf[rch[r]] = buf[rch[r]]
  BY <1>0 DEF storeOf, FreshChan
<1>5. answerOf' = [answerOf EXCEPT ![r] = buf[rch[r]]]
  BY <1>0 DEF TypeOK, answerOf
<1>6. storeOf' = [storeOf EXCEPT ![rch[r]] = Nil]
  <2>1. \A c \in Chans : FreshChan(c)' <=> FreshChan(c)
    BY DEF FreshChan
  <2> QED
    BY <1>0, <2>1 DEF TypeOK, storeOf, FreshChan
<1>7. /\ buf[rch[r]].sess = callOf[r].sess
      /\ buf[rch[r]].task = callOf[r].task
  BY <1>0 DEF IInv, ChanContents, callOf, Stage
<1> QED
  BY <1>0, <1>1, <1>2, <1>3, <1>4, <1>5, <1>6, <1>7 DEF Promise!Answer

\* The listener's delivery ends the execution; the result is kept in the
\* channel of the task, which is empty, or lost if there is none any more.
LEMMA DeliverRefines ==
  ASSUME IInv, NEW w \in Workers, Deliver(w)
  PROVE  \E code \in Promise!Codes : Promise!End(w, code)
<1> DEFINE c == outChanList[w][cur[w].task]
<1> USE DEF Deliver, ListenTo, registry, handler
<1>0. /\ TypeOK
      /\ cur[w] \in Works /\ wres[w] \in Results
      /\ wres[w].sess = cur[w].sess /\ wres[w].task = cur[w].task
  BY DEF IInv, Listening
<1>1. executingOf[w] = cur[w] /\ cur[w] # Nil
  BY <1>0, NilAssumption DEF executingOf
<1>2. executingOf' = [executingOf EXCEPT ![w] = Nil]
  BY <1>0 DEF TypeOK, executingOf
<1>3. UNCHANGED callerOf
  BY CallerFrame DEF Stage
<1>4. \A d \in Chans : FreshChan(d)' <=> FreshChan(d)
  BY DEF FreshChan
<1>5. wres[w] = [sess |-> cur[w].sess, task |-> cur[w].task,
                 code |-> wres[w].code] /\ wres[w].code \in Promise!Codes
  BY <1>0 DEF Results, Codes, Promise!Codes
<1>6. CASE c = Nil
  <2>1. storeOf' = storeOf
    BY <1>4, <1>6 DEF storeOf
  <2>2. Promise!End(w, wres[w].code)
    BY <1>1, <1>2, <1>3, <2>1 DEF Promise!End, Promise!caller, callerOf
  <2> QED
    BY <1>5, <2>2
<1>7. CASE c # Nil
  <2>1. c \in Chans /\ ~FreshChan(c) /\ buf[c] = Nil
    BY <1>0, <1>7 DEF TypeOK, Works, FreshChan
  <2>2. storeOf[c] = Nil
    BY <2>1 DEF storeOf
  <2>3. storeOf' = [storeOf EXCEPT ![c] = wres[w]]
    BY <1>0, <1>4, <1>7, <2>1 DEF TypeOK, storeOf
  <2>4. storeOf' = [storeOf EXCEPT ![c] =
                      [sess |-> executingOf[w].sess,
                       task |-> executingOf[w].task, code |-> wres[w].code]]
    BY <1>1, <1>5, <2>3
  <2>5. Promise!End(w, wres[w].code)
    BY <1>1, <1>2, <1>3, <2>1, <2>2, <2>4 DEF Promise!End, Promise!caller,
       callerOf
  <2> QED
    BY <1>5, <2>5
<1> QED
  BY <1>6, <1>7

\* Registering a worker or a channel, and the clean-up of a listener that ends,
\* may make channels unreachable; nothing else that Service knows of changes.
LEMMA ForgetRefines ==
  ASSUME IInv, TypeOK',
         \/ \E r \in Reqs, w \in Workers : Create(r, w)
         \/ \E r \in Reqs, c \in Chans : Register(r, c)
         \/ \E w \in Workers : ClearOut(w)
  PROVE  Promise!Forget
<1>0. TypeOK /\ Locals
  BY DEF IInv
<1>1. ASSUME NEW r \in Reqs, NEW w \in Workers, Create(r, w)
      PROVE  Promise!Forget
  <2> USE <1>1 DEF Create, Goto
  <2>1. \A q \in Reqs : Stage(q)' = Stage(q)
    BY <1>0 DEF TypeOK, Stage
  <2>2. UNCHANGED callerOf
    BY <1>0, <2>1, CallerFrame DEF TypeOK
  <2>3. executingOf' = executingOf
    BY <1>0, ExecutingFrame DEF TypeOK, FreshWorker
  <2>4. \A c \in Chans : FreshChan(c) => FreshChan(c)'
    BY <1>0, NilAssumption DEF TypeOK, FreshChan
  <2>5. \A c \in Chans : FreshChan(c)' \/ (~FreshChan(c) /\ buf'[c] = buf[c])
    BY <2>4
  <2>6. Promise!Drop
    BY <1>0, <2>5, StoreDrops
  <2> QED
    BY <2>2, <2>3, <2>6 DEF Promise!Forget, Promise!caller, callerOf
<1>2. ASSUME NEW r \in Reqs, NEW c \in Chans, Register(r, c)
      PROVE  Promise!Forget
  <2> USE <1>2 DEF Register, Goto, registry, listener
  <2>0. rw[r] \in Workers /\ rtask[r] \in Tasks
    BY <1>0 DEF Locals, RunPC, HasWorker
  <2>1. \A q \in Reqs : Stage(q)' = Stage(q)
    BY <1>0 DEF TypeOK, Stage
  <2>2. UNCHANGED callerOf
    BY <1>0, <2>1, CallerFrame DEF TypeOK
  <2>3. executingOf' = executingOf
    BY ExecutingFrame
  <2>4. \A d \in Chans \ {c} : FreshChan(d) => FreshChan(d)'
    BY <1>0, <2>0, NilAssumption DEF TypeOK, FreshChan
  <2>5. buf'[c] = Nil /\ \A d \in Chans \ {c} : buf'[d] = buf[d]
    BY <1>0 DEF TypeOK
  <2>6. Promise!Drop
    BY <1>0, <2>4, <2>5, StoreDrops
  <2> QED
    BY <2>2, <2>3, <2>6 DEF Promise!Forget, Promise!caller, callerOf
<1>3. ASSUME NEW w \in Workers, ClearOut(w)
      PROVE  Promise!Forget
  <2> USE <1>3 DEF ClearOut, ListenTo, handler
  <2>1. UNCHANGED callerOf
    BY CallerFrame DEF Stage
  <2>2. executingOf' = executingOf
    BY <1>0, ExecutingFrame DEF TypeOK
  <2>3. \A c \in Chans : FreshChan(c) => FreshChan(c)'
    BY <1>0, NilAssumption DEF TypeOK, FreshChan
  <2>4. \A c \in Chans : FreshChan(c)' \/ (~FreshChan(c) /\ buf'[c] = buf[c])
    BY <2>3
  <2>5. Promise!Drop
    BY <1>0, <2>4, StoreDrops
  <2> QED
    BY <2>1, <2>2, <2>5 DEF Promise!Forget, Promise!caller, callerOf
<1> QED
  BY <1>1, <1>2, <1>3

-----------------------------------------------------------------------------
(* The theorem.                                                             *)

\* Every step of Worker is a step of Service or leaves it as it is.
LEMMA NextRefines ==
  IInv /\ TypeOK' /\ [Next]_vars => [Promise!Next]_(Promise!vars)
<1> SUFFICES ASSUME IInv, TypeOK', [Next]_vars
             PROVE  Promise!Next \/ UNCHANGED Promise!vars
  OBVIOUS
<1> USE DEF Promise!Next
<1>0. TypeOK /\ Locals
  BY DEF IInv
<1>1. CASE UNCHANGED vars
  <2> USE <1>1 DEF vars, listener, mailbox, handler
  <2>1. UNCHANGED callerOf
    BY CallerFrame DEF Stage
  <2>2. executingOf' = executingOf /\ storeOf' = storeOf
    BY ExecutingFrame, StoreFrame
  <2> QED
    BY <2>1, <2>2, Stutter
<1>2. ASSUME NEW r \in Reqs, Call(r)
      PROVE  Promise!Next \/ UNCHANGED Promise!vars
  BY <1>2, CallRefines, QuietRefines DEF Call
<1>3. ASSUME NEW r \in Reqs, RunStep(r)
      PROVE  Promise!Next \/ UNCHANGED Promise!vars
  <2>1. CASE Lookup(r) \/ TakeSignal(r)
    BY <2>1, QuietRefines
  <2>2. CASE CheckOut(r)
    BY <2>2, CheckOutRefines
  <2>3. CASE BreakPage(r)
    BY <2>3, ReturnRefines DEF BreakPage, RunPC, registry, listener, mailbox
  <2>4. CASE WaitPage(r)
    BY <2>4, ReturnRefines DEF WaitPage, RunPC, registry, listener, mailbox
  <2>5. CASE Delete(r)
    <3>1. \A w \in Workers, t \in Tasks :
            outChanList'[w][t] = Nil \/ outChanList'[w][t] = outChanList[w][t]
      BY <1>0, <2>5 DEF Delete, TypeOK
    <3> QED
      BY <2>5, <3>1, ReturnRefines DEF Delete, RunPC, registry, listener
  <2>6. CASE Send(r)
    BY <2>6, SendRefines
  <2>7. CASE Recv(r)
    BY <2>7, RecvRefines
  <2>8. CASE (\E w \in Workers : Create(r, w)) \/ (\E c \in Chans : Register(r, c))
    BY <2>8, ForgetRefines
  <2> QED
    BY <1>3, <2>1, <2>2, <2>3, <2>4, <2>5, <2>6, <2>7, <2>8 DEF RunStep
<1>4. ASSUME NEW r \in Reqs, BreakStep(r)
      PROVE  Promise!Next \/ UNCHANGED Promise!vars
  BY <1>4, QuietRefines DEF BreakStep
<1>5. ASSUME NEW w \in Workers, ListenStep(w)
      PROVE  Promise!Next \/ UNCHANGED Promise!vars
  <2>1. CASE Deliver(w)
    BY <2>1, DeliverRefines
  <2>2. CASE ClearOut(w)
    BY <2>2, ForgetRefines
  <2>3. CASE ~Deliver(w) /\ ~ClearOut(w)
    BY <1>5, <2>3, ListenRefines DEF ListenStep
  <2> QED
    BY <2>1, <2>2, <2>3
<1> QED
  BY <1>1, <1>2, <1>3, <1>4, <1>5 DEF Next

\* Run, Break and listen of worker.go implement the service that the HTTP
\* handlers rely on, for any number of handlers, sessions, tasks, workers and
\* channels.
THEOREM Refinement == Spec => ServicePromise
<1>1. IInv => TypeOK
  BY DEF IInv
<1> QED
  BY <1>1, InitRefines, NextRefines, Invariance, PTL
     DEF Spec, ServicePromise, Promise!Spec
=============================================================================
