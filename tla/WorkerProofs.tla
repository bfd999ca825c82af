---------------------------- MODULE WorkerProofs ----------------------------
(***************************************************************************)
(* Proofs about module Worker, for any sets of handlers, sessions, tasks,  *)
(* workers and channels.  The inductive invariant IInv is a conjunction of *)
(* named parts, and there is one lemma per part: what it needs of the      *)
(* others, and why every step keeps it.                                    *)
(***************************************************************************)
EXTENDS Worker, FiniteSetTheorems, TLAPS

\* Where Run and Break have a worker, and where Run has a channel.
HasWorker == {"check", "await", "reg", "send", "recv", "del", "btry", "bkill"}
HasChan   == {"send", "recv", "del"}

\* The locals of a handler are set exactly where the code has set them, and
\* the worker it found serves its session.
Locals ==
  \A r \in Reqs :
    /\ rpc[r] # "idle" => rsess[r] \in Sessions
    /\ rpc[r] \in RunPC => rtask[r] \in Tasks
    /\ rpc[r] \in HasWorker => rw[r] \in Workers /\ sess[rw[r]] = rsess[r]
    /\ rpc[r] \notin HasWorker => rw[r] = Nil
    /\ rpc[r] \in HasChan => rch[r] \in Chans
    /\ rpc[r] \notin HasChan => rch[r] = Nil

\* The listener's locals: the session it serves, the work item, the result.
Listening ==
  \A w \in Workers :
    /\ lst[w] # "none" => sess[w] \in Sessions
    /\ lst[w] \in {"run", "deliver", "signal"} =>
         cur[w] \in Works /\ cur[w].sess = sess[w]
    /\ lst[w] \in {"deliver", "signal"} =>
         /\ wres[w] \in Results
         /\ wres[w].sess = cur[w].sess
         /\ wres[w].task = cur[w].task

\* A channel belongs to one worker and one task.
ChanOwner ==
  /\ \A w, v \in Workers, t, u \in Tasks :
       outChanList[w][t] # Nil /\ outChanList[w][t] = outChanList[v][u]
         => w = v /\ t = u
  /\ \A r \in Reqs, w \in Workers, t \in Tasks :
       rch[r] # Nil /\ outChanList[w][t] = rch[r] => w = rw[r] /\ t = rtask[r]
  /\ \A r, q \in Reqs :
       rch[r] # Nil /\ rch[q] = rch[r] => rw[q] = rw[r] /\ rtask[q] = rtask[r]

\* What a channel in use holds was produced for its owner.
ChanContents ==
  /\ \A w \in Workers, t \in Tasks :
       outChanList[w][t] # Nil /\ buf[outChanList[w][t]] # Nil =>
         /\ buf[outChanList[w][t]].sess = sess[w]
         /\ buf[outChanList[w][t]].task = t
  /\ \A r \in Reqs :
       rch[r] # Nil /\ buf[rch[r]] # Nil =>
         /\ buf[rch[r]].sess = rsess[r]
         /\ buf[rch[r]].task = rtask[r]

\* The channel of a task that is being submitted or executed is empty.
PendingEmpty ==
  /\ \A r \in Reqs : rpc[r] = "send" =>
       /\ buf[rch[r]] = Nil
       /\ outChanList[rw[r]][rtask[r]] \in {rch[r], Nil}
  /\ \A w \in Workers : lst[w] \in {"run", "deliver"} =>
       \/ outChanList[w][cur[w].task] = Nil
       \/ buf[outChanList[w][cur[w].task]] = Nil

IInv ==
  /\ TypeOK
  /\ Locals
  /\ Listening
  /\ SignalExclusive
  /\ WlistLive
  /\ ChanOwner
  /\ ChanContents
  /\ PendingEmpty
  /\ ResultRouting
  /\ RegisteredIsAnswered

-----------------------------------------------------------------------------
(* One lemma per part of IInv.                                              *)

\* Every step of Run, Break and listen keeps the variables in their types.
LEMMA TypeStep ==
  ASSUME TypeOK, Locals, Listening, [Next]_vars
  PROVE  TypeOK'
<1> USE NilAssumption DEF Results, Works, Codes, ListenPC, ReqPC, RunPC,
                          BreakPC, HasWorker, HasChan, registry, listener,
                          mailbox, handler, Goto, Return, ListenTo
<1>1. CASE UNCHANGED vars
  BY <1>1 DEF TypeOK, Locals, Listening, vars
<1>2. ASSUME NEW r \in Reqs, Call(r)
      PROVE  TypeOK'
  <2>1. ASSUME NEW s \in Sessions, NEW t \in Tasks, CallRun(r, s, t)
        PROVE  TypeOK'
    BY <2>1 DEF TypeOK, Locals, Listening, CallRun
  <2>2. ASSUME NEW s \in Sessions, CallBreak(r, s)
        PROVE  TypeOK'
    BY <2>2 DEF TypeOK, Locals, Listening, CallBreak
  <2>3. QED
    BY <1>2, <2>1, <2>2 DEF Call
<1>3. ASSUME NEW r \in Reqs, RunStep(r)
      PROVE  TypeOK'
  <2>1. CASE Lookup(r)
    BY <2>1 DEF TypeOK, Locals, Listening, Lookup
  <2>2. ASSUME NEW w \in Workers, Create(r, w)
        PROVE  TypeOK'
    BY <2>2 DEF TypeOK, Locals, Listening, Create
  <2>3. CASE CheckOut(r)
    BY <2>3 DEF TypeOK, Locals, Listening, CheckOut
  <2>4. CASE TakeSignal(r)
    BY <2>4 DEF TypeOK, Locals, Listening, TakeSignal
  <2>5. CASE BreakPage(r)
    BY <2>5 DEF TypeOK, Locals, Listening, BreakPage
  <2>6. ASSUME NEW c \in Chans, Register(r, c)
        PROVE  TypeOK'
    BY <2>6 DEF TypeOK, Locals, Listening, Register
  <2>7. CASE Send(r)
    BY <2>7 DEF TypeOK, Locals, Listening, Send
  <2>8. CASE Recv(r)
    BY <2>8 DEF TypeOK, Locals, Listening, Recv
  <2>9. CASE Delete(r)
    BY <2>9 DEF TypeOK, Locals, Listening, Delete
  <2>10. CASE WaitPage(r)
    BY <2>10 DEF TypeOK, Locals, Listening, WaitPage
  <2>11. QED
    BY <1>3, <2>1, <2>2, <2>3, <2>4, <2>5, <2>6, <2>7, <2>8, <2>9, <2>10 DEF RunStep
<1>4. ASSUME NEW r \in Reqs, BreakStep(r)
      PROVE  TypeOK'
  <2>1. CASE BreakMissing(r)
    BY <2>1 DEF TypeOK, Locals, Listening, BreakMissing
  <2>2. CASE BreakFound(r)
    BY <2>2 DEF TypeOK, Locals, Listening, BreakFound
  <2>3. CASE BreakFree(r)
    BY <2>3 DEF TypeOK, Locals, Listening, BreakFree
  <2>4. CASE BreakBusy(r)
    BY <2>4 DEF TypeOK, Locals, Listening, BreakBusy
  <2>5. CASE BreakReturn(r)
    BY <2>5 DEF TypeOK, Locals, Listening, BreakReturn
  <2>6. QED
    BY <1>4, <2>1, <2>2, <2>3, <2>4, <2>5 DEF BreakStep
<1>5. ASSUME NEW w \in Workers, ListenStep(w)
      PROVE  TypeOK'
  <2>1. CASE Boot(w)
    BY <2>1 DEF TypeOK, Locals, Listening, Boot
  <2>2. ASSUME NEW code \in Codes, Execute(w, code)
        PROVE  TypeOK'
    BY <2>2 DEF TypeOK, Locals, Listening, Execute
  <2>3. CASE Deliver(w)
    BY <2>3 DEF TypeOK, Locals, Listening, Deliver
  <2>4. CASE Finish(w)
    BY <2>4 DEF TypeOK, Locals, Listening, Finish
  <2>5. CASE IdleTimeout(w)
    BY <2>5 DEF TypeOK, Locals, Listening, IdleTimeout
  <2>6. CASE Deregister(w)
    BY <2>6 DEF TypeOK, Locals, Listening, Deregister
  <2>7. CASE ClearOut(w)
    BY <2>7 DEF TypeOK, Locals, Listening, ClearOut
  <2>8. QED
    BY <1>5, <2>1, <2>2, <2>3, <2>4, <2>5, <2>6, <2>7 DEF ListenStep
<1>6. QED
  BY <1>1, <1>2, <1>3, <1>4, <1>5 DEF Next

\* The worker a handler finds serves its session because wlist says so, and
\* a new one is started with its sessionID.
LEMMA LocalsStep ==
  ASSUME TypeOK, Locals, WlistLive, [Next]_vars
  PROVE  Locals'
<1> USE NilAssumption DEF ReqPC, RunPC, BreakPC, HasWorker, HasChan, registry,
                          listener, mailbox, handler, Goto, Return, ListenTo
<1>1. CASE UNCHANGED vars
  BY <1>1 DEF TypeOK, Locals, vars
<1>2. ASSUME NEW r \in Reqs, Call(r)
      PROVE  Locals'
  <2>1. ASSUME NEW s \in Sessions, NEW t \in Tasks, CallRun(r, s, t)
        PROVE  Locals'
    BY <2>1 DEF TypeOK, Locals, CallRun
  <2>2. ASSUME NEW s \in Sessions, CallBreak(r, s)
        PROVE  Locals'
    BY <2>2 DEF TypeOK, Locals, CallBreak
  <2>3. QED
    BY <1>2, <2>1, <2>2 DEF Call
<1>3. ASSUME NEW r \in Reqs, RunStep(r)
      PROVE  Locals'
  <2>1. CASE Lookup(r)
    BY <2>1 DEF TypeOK, Locals, WlistLive, Lookup
  <2>2. ASSUME NEW w \in Workers, Create(r, w)
        PROVE  Locals'
    BY <2>2 DEF TypeOK, Locals, FreshWorker, Create
  <2>3. CASE CheckOut(r)
    BY <2>3 DEF TypeOK, Locals, CheckOut
  <2>4. CASE TakeSignal(r)
    BY <2>4 DEF TypeOK, Locals, TakeSignal
  <2>5. CASE BreakPage(r)
    BY <2>5 DEF TypeOK, Locals, BreakPage
  <2>6. ASSUME NEW c \in Chans, Register(r, c)
        PROVE  Locals'
    BY <2>6 DEF TypeOK, Locals, Register
  <2>7. CASE Send(r)
    BY <2>7 DEF TypeOK, Locals, Send
  <2>8. CASE Recv(r)
    BY <2>8 DEF TypeOK, Locals, Recv
  <2>9. CASE Delete(r)
    BY <2>9 DEF TypeOK, Locals, Delete
  <2>10. CASE WaitPage(r)
    BY <2>10 DEF TypeOK, Locals, WaitPage
  <2>11. QED
    BY <1>3, <2>1, <2>2, <2>3, <2>4, <2>5, <2>6, <2>7, <2>8, <2>9, <2>10 DEF RunStep
<1>4. ASSUME NEW r \in Reqs, BreakStep(r)
      PROVE  Locals'
  <2>1. CASE BreakMissing(r)
    BY <2>1 DEF TypeOK, Locals, BreakMissing
  <2>2. CASE BreakFound(r)
    BY <2>2 DEF TypeOK, Locals, WlistLive, BreakFound
  <2>3. CASE BreakFree(r)
    BY <2>3 DEF TypeOK, Locals, BreakFree
  <2>4. CASE BreakBusy(r)
    BY <2>4 DEF TypeOK, Locals, BreakBusy
  <2>5. CASE BreakReturn(r)
    BY <2>5 DEF TypeOK, Locals, BreakReturn
  <2>6. QED
    BY <1>4, <2>1, <2>2, <2>3, <2>4, <2>5 DEF BreakStep
<1>5. ASSUME NEW w \in Workers, ListenStep(w)
      PROVE  Locals'
  <2>1. CASE Boot(w)
    BY <2>1 DEF TypeOK, Locals, Boot
  <2>2. ASSUME NEW code \in Codes, Execute(w, code)
        PROVE  Locals'
    BY <2>2 DEF TypeOK, Locals, Execute
  <2>3. CASE Deliver(w)
    BY <2>3 DEF TypeOK, Locals, Deliver
  <2>4. CASE Finish(w)
    BY <2>4 DEF TypeOK, Locals, Finish
  <2>5. CASE IdleTimeout(w)
    BY <2>5 DEF TypeOK, Locals, IdleTimeout
  <2>6. CASE Deregister(w)
    BY <2>6 DEF TypeOK, Locals, Deregister
  <2>7. CASE ClearOut(w)
    BY <2>7 DEF TypeOK, Locals, ClearOut
  <2>8. QED
    BY <1>5, <2>1, <2>2, <2>3, <2>4, <2>5, <2>6, <2>7 DEF ListenStep
<1>6. QED
  BY <1>1, <1>2, <1>3, <1>4, <1>5 DEF Next

\* The work item comes from a handler that found this worker under its own
\* session, and the result from the work item.
LEMMA ListeningStep ==
  ASSUME TypeOK, Locals, Listening, [Next]_vars
  PROVE  Listening'
<1> USE NilAssumption DEF Results, Works, Codes, ListenPC, ReqPC, HasWorker,
                          RunPC, BreakPC, registry, listener, mailbox,
                          handler, Goto, Return, ListenTo
<1>1. CASE UNCHANGED vars
  BY <1>1 DEF TypeOK, Listening, vars
<1>2. ASSUME NEW r \in Reqs, Call(r)
      PROVE  Listening'
  <2>1. ASSUME NEW s \in Sessions, NEW t \in Tasks, CallRun(r, s, t)
        PROVE  Listening'
    BY <2>1 DEF TypeOK, Listening, CallRun
  <2>2. ASSUME NEW s \in Sessions, CallBreak(r, s)
        PROVE  Listening'
    BY <2>2 DEF TypeOK, Listening, CallBreak
  <2>3. QED
    BY <1>2, <2>1, <2>2 DEF Call
<1>3. ASSUME NEW r \in Reqs, RunStep(r)
      PROVE  Listening'
  <2>1. CASE Lookup(r)
    BY <2>1 DEF TypeOK, Listening, Lookup
  <2>2. ASSUME NEW w \in Workers, Create(r, w)
        PROVE  Listening'
    BY <2>2 DEF TypeOK, Listening, Locals, FreshWorker, Create
  <2>3. CASE CheckOut(r)
    BY <2>3 DEF TypeOK, Listening, CheckOut
  <2>4. CASE TakeSignal(r)
    BY <2>4 DEF TypeOK, Listening, TakeSignal
  <2>5. CASE BreakPage(r)
    BY <2>5 DEF TypeOK, Listening, BreakPage
  <2>6. ASSUME NEW c \in Chans, Register(r, c)
        PROVE  Listening'
    BY <2>6 DEF TypeOK, Listening, Register
  <2>7. CASE Send(r)
    BY <2>7 DEF TypeOK, Listening, Locals, Send
  <2>8. CASE Recv(r)
    BY <2>8 DEF TypeOK, Listening, Recv
  <2>9. CASE Delete(r)
    BY <2>9 DEF TypeOK, Listening, Delete
  <2>10. CASE WaitPage(r)
    BY <2>10 DEF TypeOK, Listening, WaitPage
  <2>11. QED
    BY <1>3, <2>1, <2>2, <2>3, <2>4, <2>5, <2>6, <2>7, <2>8, <2>9, <2>10 DEF RunStep
<1>4. ASSUME NEW r \in Reqs, BreakStep(r)
      PROVE  Listening'
  <2>1. CASE BreakMissing(r)
    BY <2>1 DEF TypeOK, Listening, BreakMissing
  <2>2. CASE BreakFound(r)
    BY <2>2 DEF TypeOK, Listening, BreakFound
  <2>3. CASE BreakFree(r)
    BY <2>3 DEF TypeOK, Listening, BreakFree
  <2>4. CASE BreakBusy(r)
    BY <2>4 DEF TypeOK, Listening, BreakBusy
  <2>5. CASE BreakReturn(r)
    BY <2>5 DEF TypeOK, Listening, BreakReturn
  <2>6. QED
    BY <1>4, <2>1, <2>2, <2>3, <2>4, <2>5 DEF BreakStep
<1>5. ASSUME NEW w \in Workers, ListenStep(w)
      PROVE  Listening'
  <2>1. CASE Boot(w)
    BY <2>1 DEF TypeOK, Listening, Boot
  <2>2. ASSUME NEW code \in Codes, Execute(w, code)
        PROVE  Listening'
    BY <2>2 DEF TypeOK, Listening, Execute
  <2>3. CASE Deliver(w)
    BY <2>3 DEF TypeOK, Listening, Deliver
  <2>4. CASE Finish(w)
    BY <2>4 DEF TypeOK, Listening, Finish
  <2>5. CASE IdleTimeout(w)
    BY <2>5 DEF TypeOK, Listening, IdleTimeout
  <2>6. CASE Deregister(w)
    BY <2>6 DEF TypeOK, Listening, Deregister
  <2>7. CASE ClearOut(w)
    BY <2>7 DEF TypeOK, Listening, ClearOut
  <2>8. QED
    BY <1>5, <2>1, <2>2, <2>3, <2>4, <2>5, <2>6, <2>7 DEF ListenStep
<1>6. QED
  BY <1>1, <1>2, <1>3, <1>4, <1>5 DEF Next

\* The token leaves signalChan only into one handler, and comes back only
\* from the listener, which no handler holds while it works.
LEMMA SignalStep ==
  ASSUME TypeOK, Locals, SignalExclusive, [Next]_vars
  PROVE  SignalExclusive'
<1> USE NilAssumption DEF Busy, Holder, ListenPC, ReqPC, RunPC, BreakPC,
                          HasWorker, registry, listener, mailbox, handler,
                          Goto, Return, ListenTo
<1>1. CASE UNCHANGED vars
  BY <1>1 DEF TypeOK, Locals, SignalExclusive, vars
<1>2. ASSUME NEW r \in Reqs, Call(r)
      PROVE  SignalExclusive'
  <2>1. ASSUME NEW s \in Sessions, NEW t \in Tasks, CallRun(r, s, t)
        PROVE  SignalExclusive'
    BY <2>1 DEF TypeOK, Locals, SignalExclusive, CallRun
  <2>2. ASSUME NEW s \in Sessions, CallBreak(r, s)
        PROVE  SignalExclusive'
    BY <2>2 DEF TypeOK, Locals, SignalExclusive, CallBreak
  <2>3. QED
    BY <1>2, <2>1, <2>2 DEF Call
<1>3. ASSUME NEW r \in Reqs, RunStep(r)
      PROVE  SignalExclusive'
  <2>1. CASE Lookup(r)
    BY <2>1 DEF TypeOK, Locals, SignalExclusive, Lookup
  <2>2. ASSUME NEW w \in Workers, Create(r, w)
        PROVE  SignalExclusive'
    BY <2>2 DEF TypeOK, Locals, SignalExclusive, FreshWorker, Create
  <2>3. CASE CheckOut(r)
    BY <2>3 DEF TypeOK, Locals, SignalExclusive, CheckOut
  <2>4. CASE TakeSignal(r)
    BY <2>4 DEF TypeOK, Locals, SignalExclusive, TakeSignal
  <2>5. CASE BreakPage(r)
    BY <2>5 DEF TypeOK, Locals, SignalExclusive, BreakPage
  <2>6. ASSUME NEW c \in Chans, Register(r, c)
        PROVE  SignalExclusive'
    BY <2>6 DEF TypeOK, Locals, SignalExclusive, Register
  <2>7. CASE Send(r)
    BY <2>7 DEF TypeOK, Locals, SignalExclusive, Send
  <2>8. CASE Recv(r)
    BY <2>8 DEF TypeOK, Locals, SignalExclusive, Recv
  <2>9. CASE Delete(r)
    BY <2>9 DEF TypeOK, Locals, SignalExclusive, Delete
  <2>10. CASE WaitPage(r)
    BY <2>10 DEF TypeOK, Locals, SignalExclusive, WaitPage
  <2>11. QED
    BY <1>3, <2>1, <2>2, <2>3, <2>4, <2>5, <2>6, <2>7, <2>8, <2>9, <2>10 DEF RunStep
<1>4. ASSUME NEW r \in Reqs, BreakStep(r)
      PROVE  SignalExclusive'
  <2>1. CASE BreakMissing(r)
    BY <2>1 DEF TypeOK, Locals, SignalExclusive, BreakMissing
  <2>2. CASE BreakFound(r)
    BY <2>2 DEF TypeOK, Locals, SignalExclusive, BreakFound
  <2>3. CASE BreakFree(r)
    BY <2>3 DEF TypeOK, Locals, SignalExclusive, BreakFree
  <2>4. CASE BreakBusy(r)
    BY <2>4 DEF TypeOK, Locals, SignalExclusive, BreakBusy
  <2>5. CASE BreakReturn(r)
    BY <2>5 DEF TypeOK, Locals, SignalExclusive, BreakReturn
  <2>6. QED
    BY <1>4, <2>1, <2>2, <2>3, <2>4, <2>5 DEF BreakStep
<1>5. ASSUME NEW w \in Workers, ListenStep(w)
      PROVE  SignalExclusive'
  <2>1. CASE Boot(w)
    BY <2>1 DEF TypeOK, Locals, SignalExclusive, Boot
  <2>2. ASSUME NEW code \in Codes, Execute(w, code)
        PROVE  SignalExclusive'
    BY <2>2 DEF TypeOK, Locals, SignalExclusive, Execute
  <2>3. CASE Deliver(w)
    BY <2>3 DEF TypeOK, Locals, SignalExclusive, Deliver
  <2>4. CASE Finish(w)
    BY <2>4 DEF TypeOK, Locals, SignalExclusive, Finish
  <2>5. CASE IdleTimeout(w)
    BY <2>5 DEF TypeOK, Locals, SignalExclusive, IdleTimeout
  <2>6. CASE Deregister(w)
    BY <2>6 DEF TypeOK, Locals, SignalExclusive, Deregister
  <2>7. CASE ClearOut(w)
    BY <2>7 DEF TypeOK, Locals, SignalExclusive, ClearOut
  <2>8. QED
    BY <1>5, <2>1, <2>2, <2>3, <2>4, <2>5, <2>6, <2>7 DEF ListenStep
<1>6. QED
  BY <1>1, <1>2, <1>3, <1>4, <1>5 DEF Next

\* A listener passes the delete from wlist only after its own entry is gone.
LEMMA WlistStep ==
  ASSUME TypeOK, Locals, Listening, WlistLive, [Next]_vars
  PROVE  WlistLive'
<1> USE NilAssumption DEF ListenPC, ReqPC, RunPC, BreakPC, registry, listener,
                          mailbox, handler, Goto, Return, ListenTo
<1>1. CASE UNCHANGED vars
  BY <1>1 DEF TypeOK, WlistLive, vars
<1>2. ASSUME NEW r \in Reqs, Call(r)
      PROVE  WlistLive'
  <2>1. ASSUME NEW s \in Sessions, NEW t \in Tasks, CallRun(r, s, t)
        PROVE  WlistLive'
    BY <2>1 DEF TypeOK, WlistLive, CallRun
  <2>2. ASSUME NEW s \in Sessions, CallBreak(r, s)
        PROVE  WlistLive'
    BY <2>2 DEF TypeOK, WlistLive, CallBreak
  <2>3. QED
    BY <1>2, <2>1, <2>2 DEF Call
<1>3. ASSUME NEW r \in Reqs, RunStep(r)
      PROVE  WlistLive'
  <2>1. CASE Lookup(r)
    BY <2>1 DEF TypeOK, WlistLive, Lookup
  <2>2. ASSUME NEW w \in Workers, Create(r, w)
        PROVE  WlistLive'
    BY <2>2 DEF TypeOK, WlistLive, Locals, FreshWorker, Create
  <2>3. CASE CheckOut(r)
    BY <2>3 DEF TypeOK, WlistLive, CheckOut
  <2>4. CASE TakeSignal(r)
    BY <2>4 DEF TypeOK, WlistLive, TakeSignal
  <2>5. CASE BreakPage(r)
    BY <2>5 DEF TypeOK, WlistLive, BreakPage
  <2>6. ASSUME NEW c \in Chans, Register(r, c)
        PROVE  WlistLive'
    BY <2>6 DEF TypeOK, WlistLive, Register
  <2>7. CASE Send(r)
    BY <2>7 DEF TypeOK, WlistLive, Send
  <2>8. CASE Recv(r)
    BY <2>8 DEF TypeOK, WlistLive, Recv
  <2>9. CASE Delete(r)
    BY <2>9 DEF TypeOK, WlistLive, Delete
  <2>10. CASE WaitPage(r)
    BY <2>10 DEF TypeOK, WlistLive, WaitPage
  <2>11. QED
    BY <1>3, <2>1, <2>2, <2>3, <2>4, <2>5, <2>6, <2>7, <2>8, <2>9, <2>10 DEF RunStep
<1>4. ASSUME NEW r \in Reqs, BreakStep(r)
      PROVE  WlistLive'
  <2>1. CASE BreakMissing(r)
    BY <2>1 DEF TypeOK, WlistLive, BreakMissing
  <2>2. CASE BreakFound(r)
    BY <2>2 DEF TypeOK, WlistLive, BreakFound
  <2>3. CASE BreakFree(r)
    BY <2>3 DEF TypeOK, WlistLive, BreakFree
  <2>4. CASE BreakBusy(r)
    BY <2>4 DEF TypeOK, WlistLive, BreakBusy
  <2>5. CASE BreakReturn(r)
    BY <2>5 DEF TypeOK, WlistLive, BreakReturn
  <2>6. QED
    BY <1>4, <2>1, <2>2, <2>3, <2>4, <2>5 DEF BreakStep
<1>5. ASSUME NEW w \in Workers, ListenStep(w)
      PROVE  WlistLive'
  <2>1. CASE Boot(w)
    BY <2>1 DEF TypeOK, WlistLive, Boot
  <2>2. ASSUME NEW code \in Codes, Execute(w, code)
        PROVE  WlistLive'
    BY <2>2 DEF TypeOK, WlistLive, Execute
  <2>3. CASE Deliver(w)
    BY <2>3 DEF TypeOK, WlistLive, Deliver
  <2>4. CASE Finish(w)
    BY <2>4 DEF TypeOK, WlistLive, Finish
  <2>5. CASE IdleTimeout(w)
    BY <2>5 DEF TypeOK, WlistLive, IdleTimeout
  <2>6. CASE Deregister(w)
    BY <2>6 DEF TypeOK, WlistLive, Listening, Deregister
  <2>7. CASE ClearOut(w)
    BY <2>7 DEF TypeOK, WlistLive, ClearOut
  <2>8. QED
    BY <1>5, <2>1, <2>2, <2>3, <2>4, <2>5, <2>6, <2>7 DEF ListenStep
<1>6. QED
  BY <1>1, <1>2, <1>3, <1>4, <1>5 DEF Next

\* Ownership survives every step that only takes channels away: entries leave
\* outChanList, and a handler keeps its channel only with its worker and task.
LEMMA ChanOwnerFrame ==
  ASSUME ChanOwner,
         \A w \in Workers, t \in Tasks :
           outChanList'[w][t] = Nil \/ outChanList'[w][t] = outChanList[w][t],
         \A r \in Reqs :
           \/ rch'[r] = Nil
           \/ rch'[r] = rch[r] /\ rw'[r] = rw[r] /\ rtask'[r] = rtask[r]
  PROVE  ChanOwner'
<1>1. \A w, v \in Workers, t, u \in Tasks :
        outChanList'[w][t] # Nil /\ outChanList'[w][t] = outChanList'[v][u]
          => w = v /\ t = u
  BY DEF ChanOwner
<1>2. \A r \in Reqs, w \in Workers, t \in Tasks :
        rch'[r] # Nil /\ outChanList'[w][t] = rch'[r]
          => w = rw'[r] /\ t = rtask'[r]
  BY DEF ChanOwner
<1>3. \A r, q \in Reqs :
        rch'[r] # Nil /\ rch'[q] = rch'[r]
          => rw'[q] = rw'[r] /\ rtask'[q] = rtask'[r]
  BY DEF ChanOwner
<1> QED
  BY <1>1, <1>2, <1>3 DEF ChanOwner

\* A channel is stored for one worker and one task when it is made, and a
\* handler that reads outChanList asks for that worker and that task.
LEMMA ChanOwnerStep ==
  ASSUME TypeOK, Locals, ChanOwner, [Next]_vars
  PROVE  ChanOwner'
<1> USE NilAssumption DEF ReqPC, RunPC, BreakPC, HasWorker, HasChan, registry,
                          listener, mailbox, handler, Goto, Return, ListenTo
<1>1. CASE UNCHANGED vars
  BY <1>1 DEF TypeOK, Locals, ChanOwner, vars
<1>2. ASSUME NEW r \in Reqs, Call(r)
      PROVE  ChanOwner'
  <2>1. ASSUME NEW s \in Sessions, NEW t \in Tasks, CallRun(r, s, t)
        PROVE  ChanOwner'
    <3>1. outChanList' = outChanList /\ rch' = rch
      BY <2>1 DEF CallRun
    <3>2. \A q \in Reqs : rch[q] # Nil => rw'[q] = rw[q] /\ rtask'[q] = rtask[q]
      BY <2>1 DEF TypeOK, Locals, CallRun
    <3>3. QED
      BY <3>1, <3>2, ChanOwnerFrame
  <2>2. ASSUME NEW s \in Sessions, CallBreak(r, s)
        PROVE  ChanOwner'
    <3>1. outChanList' = outChanList /\ rch' = rch
      BY <2>2 DEF CallBreak
    <3>2. \A q \in Reqs : rch[q] # Nil => rw'[q] = rw[q] /\ rtask'[q] = rtask[q]
      BY <2>2 DEF TypeOK, Locals, CallBreak
    <3>3. QED
      BY <3>1, <3>2, ChanOwnerFrame
  <2>3. QED
    BY <1>2, <2>1, <2>2 DEF Call
<1>3. ASSUME NEW r \in Reqs, RunStep(r)
      PROVE  ChanOwner'
  <2>1. CASE Lookup(r)
    <3>1. outChanList' = outChanList /\ rch' = rch
      BY <2>1 DEF Lookup
    <3>2. \A q \in Reqs : rch[q] # Nil => rw'[q] = rw[q] /\ rtask'[q] = rtask[q]
      BY <2>1 DEF TypeOK, Locals, Lookup
    <3>3. QED
      BY <3>1, <3>2, ChanOwnerFrame
  <2>2. ASSUME NEW w \in Workers, Create(r, w)
        PROVE  ChanOwner'
    BY <2>2 DEF TypeOK, Locals, ChanOwner, FreshWorker, Create
  <2>3. CASE CheckOut(r)
    BY <2>3 DEF TypeOK, Locals, ChanOwner, CheckOut
  <2>4. CASE TakeSignal(r)
    BY <2>4 DEF TypeOK, Locals, ChanOwner, TakeSignal
  <2>5. CASE BreakPage(r)
    BY <2>5 DEF TypeOK, Locals, ChanOwner, BreakPage
  <2>6. ASSUME NEW c \in Chans, Register(r, c)
        PROVE  ChanOwner'
    BY <2>6 DEF TypeOK, Locals, ChanOwner, FreshChan, Register
  <2>7. CASE Send(r)
    BY <2>7 DEF TypeOK, Locals, ChanOwner, Send
  <2>8. CASE Recv(r)
    BY <2>8 DEF TypeOK, Locals, ChanOwner, Recv
  <2>9. CASE Delete(r)
    BY <2>9 DEF TypeOK, Locals, ChanOwner, Delete
  <2>10. CASE WaitPage(r)
    BY <2>10 DEF TypeOK, Locals, ChanOwner, WaitPage
  <2>11. QED
    BY <1>3, <2>1, <2>2, <2>3, <2>4, <2>5, <2>6, <2>7, <2>8, <2>9, <2>10 DEF RunStep
<1>4. ASSUME NEW r \in Reqs, BreakStep(r)
      PROVE  ChanOwner'
  <2>1. CASE BreakMissing(r)
    BY <2>1 DEF TypeOK, Locals, ChanOwner, BreakMissing
  <2>2. CASE BreakFound(r)
    <3>1. outChanList' = outChanList /\ rch' = rch
      BY <2>2 DEF BreakFound
    <3>2. \A q \in Reqs : rch[q] # Nil => rw'[q] = rw[q] /\ rtask'[q] = rtask[q]
      BY <2>2 DEF TypeOK, Locals, BreakFound
    <3>3. QED
      BY <3>1, <3>2, ChanOwnerFrame
  <2>3. CASE BreakFree(r)
    BY <2>3 DEF TypeOK, Locals, ChanOwner, BreakFree
  <2>4. CASE BreakBusy(r)
    BY <2>4 DEF TypeOK, Locals, ChanOwner, BreakBusy
  <2>5. CASE BreakReturn(r)
    BY <2>5 DEF TypeOK, Locals, ChanOwner, BreakReturn
  <2>6. QED
    BY <1>4, <2>1, <2>2, <2>3, <2>4, <2>5 DEF BreakStep
<1>5. ASSUME NEW w \in Workers, ListenStep(w)
      PROVE  ChanOwner'
  <2>1. CASE Boot(w)
    BY <2>1 DEF TypeOK, Locals, ChanOwner, Boot
  <2>2. ASSUME NEW code \in Codes, Execute(w, code)
        PROVE  ChanOwner'
    BY <2>2 DEF TypeOK, Locals, ChanOwner, Execute
  <2>3. CASE Deliver(w)
    BY <2>3 DEF TypeOK, Locals, ChanOwner, Deliver
  <2>4. CASE Finish(w)
    BY <2>4 DEF TypeOK, Locals, ChanOwner, Finish
  <2>5. CASE IdleTimeout(w)
    BY <2>5 DEF TypeOK, Locals, ChanOwner, IdleTimeout
  <2>6. CASE Deregister(w)
    BY <2>6 DEF TypeOK, Locals, ChanOwner, Deregister
  <2>7. CASE ClearOut(w)
    BY <2>7 DEF TypeOK, Locals, ChanOwner, ClearOut
  <2>8. QED
    BY <1>5, <2>1, <2>2, <2>3, <2>4, <2>5, <2>6, <2>7 DEF ListenStep
<1>6. QED
  BY <1>1, <1>2, <1>3, <1>4, <1>5 DEF Next

\* listen delivers to the channel of the task it has executed.
LEMMA ChanContentsStep ==
  ASSUME TypeOK, Locals, Listening, ChanOwner, ChanContents, [Next]_vars
  PROVE  ChanContents'
<1> USE NilAssumption DEF ReqPC, RunPC, BreakPC, HasWorker, HasChan, Results,
                          Works, registry, listener, mailbox, handler, Goto,
                          Return, ListenTo
<1>1. CASE UNCHANGED vars
  BY <1>1 DEF TypeOK, Locals, ChanContents, vars
<1>2. ASSUME NEW r \in Reqs, Call(r)
      PROVE  ChanContents'
  <2>1. ASSUME NEW s \in Sessions, NEW t \in Tasks, CallRun(r, s, t)
        PROVE  ChanContents'
    BY <2>1 DEF TypeOK, Locals, ChanContents, CallRun
  <2>2. ASSUME NEW s \in Sessions, CallBreak(r, s)
        PROVE  ChanContents'
    BY <2>2 DEF TypeOK, Locals, ChanContents, CallBreak
  <2>3. QED
    BY <1>2, <2>1, <2>2 DEF Call
<1>3. ASSUME NEW r \in Reqs, RunStep(r)
      PROVE  ChanContents'
  <2>1. CASE Lookup(r)
    BY <2>1 DEF TypeOK, Locals, ChanContents, Lookup
  <2>2. ASSUME NEW w \in Workers, Create(r, w)
        PROVE  ChanContents'
    BY <2>2 DEF TypeOK, Locals, ChanContents, FreshWorker, Create
  <2>3. CASE CheckOut(r)
    BY <2>3 DEF TypeOK, Locals, ChanContents, ChanOwner, CheckOut
  <2>4. CASE TakeSignal(r)
    BY <2>4 DEF TypeOK, Locals, ChanContents, TakeSignal
  <2>5. CASE BreakPage(r)
    BY <2>5 DEF TypeOK, Locals, ChanContents, BreakPage
  <2>6. ASSUME NEW c \in Chans, Register(r, c)
        PROVE  ChanContents'
    BY <2>6 DEF TypeOK, Locals, ChanContents, FreshChan, ChanOwner, Register
  <2>7. CASE Send(r)
    BY <2>7 DEF TypeOK, Locals, ChanContents, Send
  <2>8. CASE Recv(r)
    BY <2>8 DEF TypeOK, Locals, ChanContents, ChanOwner, Recv
  <2>9. CASE Delete(r)
    BY <2>9 DEF TypeOK, Locals, ChanContents, Delete
  <2>10. CASE WaitPage(r)
    BY <2>10 DEF TypeOK, Locals, ChanContents, WaitPage
  <2>11. QED
    BY <1>3, <2>1, <2>2, <2>3, <2>4, <2>5, <2>6, <2>7, <2>8, <2>9, <2>10 DEF RunStep
<1>4. ASSUME NEW r \in Reqs, BreakStep(r)
      PROVE  ChanContents'
  <2>1. CASE BreakMissing(r)
    BY <2>1 DEF TypeOK, Locals, ChanContents, BreakMissing
  <2>2. CASE BreakFound(r)
    BY <2>2 DEF TypeOK, Locals, ChanContents, BreakFound
  <2>3. CASE BreakFree(r)
    BY <2>3 DEF TypeOK, Locals, ChanContents, BreakFree
  <2>4. CASE BreakBusy(r)
    BY <2>4 DEF TypeOK, Locals, ChanContents, BreakBusy
  <2>5. CASE BreakReturn(r)
    BY <2>5 DEF TypeOK, Locals, ChanContents, BreakReturn
  <2>6. QED
    BY <1>4, <2>1, <2>2, <2>3, <2>4, <2>5 DEF BreakStep
<1>5. ASSUME NEW w \in Workers, ListenStep(w)
      PROVE  ChanContents'
  <2>1. CASE Boot(w)
    BY <2>1 DEF TypeOK, Locals, ChanContents, Boot
  <2>2. ASSUME NEW code \in Codes, Execute(w, code)
        PROVE  ChanContents'
    BY <2>2 DEF TypeOK, Locals, ChanContents, Execute
  <2>3. CASE Deliver(w)
    <3> DEFINE c == outChanList[w][cur[w].task]
    <3>1. /\ cur[w] \in Works
          /\ wres[w] \in Results
          /\ wres[w].sess = sess[w]
          /\ wres[w].task = cur[w].task
      BY <2>3 DEF Listening, Deliver
    <3>2. CASE c = Nil
      BY <2>3, <3>2 DEF TypeOK, Locals, ChanContents, Deliver
    <3>3. CASE c # Nil
      <4>1. c \in Chans /\ buf' = [buf EXCEPT ![c] = wres[w]]
        BY <2>3, <3>1, <3>3 DEF TypeOK, Deliver
      <4>2. UNCHANGED <<outChanList, sess, rch, rsess, rtask, rw, rpc>>
        BY <2>3 DEF Deliver
      <4>3. ASSUME NEW x \in Workers, NEW t \in Tasks,
                   outChanList[x][t] # Nil, buf'[outChanList[x][t]] # Nil
            PROVE  /\ buf'[outChanList[x][t]].sess = sess[x]
                   /\ buf'[outChanList[x][t]].task = t
        BY <3>1, <3>3, <4>1, <4>3 DEF TypeOK, ChanOwner, ChanContents
      <4>4. ASSUME NEW r \in Reqs, rch[r] # Nil, buf'[rch[r]] # Nil
            PROVE  /\ buf'[rch[r]].sess = rsess[r]
                   /\ buf'[rch[r]].task = rtask[r]
        BY <3>1, <3>3, <4>1, <4>4 DEF TypeOK, Locals, ChanOwner, ChanContents
      <4>5. QED
        BY <4>2, <4>3, <4>4 DEF ChanContents
    <3>4. QED
      BY <3>2, <3>3
  <2>4. CASE Finish(w)
    BY <2>4 DEF TypeOK, Locals, ChanContents, Finish
  <2>5. CASE IdleTimeout(w)
    BY <2>5 DEF TypeOK, Locals, ChanContents, IdleTimeout
  <2>6. CASE Deregister(w)
    BY <2>6 DEF TypeOK, Locals, ChanContents, Deregister
  <2>7. CASE ClearOut(w)
    BY <2>7 DEF TypeOK, Locals, ChanContents, ClearOut
  <2>8. QED
    BY <1>5, <2>1, <2>2, <2>3, <2>4, <2>5, <2>6, <2>7 DEF ListenStep
<1>6. QED
  BY <1>1, <1>2, <1>3, <1>4, <1>5 DEF Next

\* Between the token and the result nobody else puts a channel or a result in
\* the way: that takes the token or the listener.
LEMMA PendingStep ==
  ASSUME TypeOK, Locals, Listening, SignalExclusive, ChanOwner, PendingEmpty,
         [Next]_vars
  PROVE  PendingEmpty'
<1> USE NilAssumption DEF ReqPC, RunPC, BreakPC, HasWorker, HasChan, Results,
                          Works, Busy, Holder, registry, listener, mailbox,
                          handler, Goto, Return, ListenTo
<1>1. CASE UNCHANGED vars
  BY <1>1 DEF TypeOK, Locals, Listening, SignalExclusive, PendingEmpty, vars
<1>2. ASSUME NEW r \in Reqs, Call(r)
      PROVE  PendingEmpty'
  <2>1. ASSUME NEW s \in Sessions, NEW t \in Tasks, CallRun(r, s, t)
        PROVE  PendingEmpty'
    BY <2>1 DEF TypeOK, Locals, Listening, SignalExclusive, PendingEmpty,
                CallRun
  <2>2. ASSUME NEW s \in Sessions, CallBreak(r, s)
        PROVE  PendingEmpty'
    BY <2>2 DEF TypeOK, Locals, Listening, SignalExclusive, PendingEmpty,
                CallBreak
  <2>3. QED
    BY <1>2, <2>1, <2>2 DEF Call
<1>3. ASSUME NEW r \in Reqs, RunStep(r)
      PROVE  PendingEmpty'
  <2>1. CASE Lookup(r)
    BY <2>1 DEF TypeOK, Locals, Listening, SignalExclusive, PendingEmpty,
                Lookup
  <2>2. ASSUME NEW w \in Workers, Create(r, w)
        PROVE  PendingEmpty'
    BY <2>2 DEF TypeOK, Locals, Listening, SignalExclusive, PendingEmpty,
                FreshWorker, Create
  <2>3. CASE CheckOut(r)
    BY <2>3 DEF TypeOK, Locals, Listening, SignalExclusive, PendingEmpty,
                CheckOut
  <2>4. CASE TakeSignal(r)
    BY <2>4 DEF TypeOK, Locals, Listening, SignalExclusive, PendingEmpty,
                TakeSignal
  <2>5. CASE BreakPage(r)
    BY <2>5 DEF TypeOK, Locals, Listening, SignalExclusive, PendingEmpty,
                BreakPage
  <2>6. ASSUME NEW c \in Chans, Register(r, c)
        PROVE  PendingEmpty'
    BY <2>6 DEF TypeOK, Locals, Listening, SignalExclusive, PendingEmpty,
                FreshChan, Register
  <2>7. CASE Send(r)
    BY <2>7 DEF TypeOK, Locals, Listening, SignalExclusive, PendingEmpty, Send
  <2>8. CASE Recv(r)
    BY <2>8 DEF TypeOK, Locals, Listening, SignalExclusive, PendingEmpty, Recv
  <2>9. CASE Delete(r)
    BY <2>9 DEF TypeOK, Locals, Listening, SignalExclusive, PendingEmpty,
                Delete
  <2>10. CASE WaitPage(r)
    BY <2>10 DEF TypeOK, Locals, Listening, SignalExclusive, PendingEmpty,
                 WaitPage
  <2>11. QED
    BY <1>3, <2>1, <2>2, <2>3, <2>4, <2>5, <2>6, <2>7, <2>8, <2>9, <2>10 DEF RunStep
<1>4. ASSUME NEW r \in Reqs, BreakStep(r)
      PROVE  PendingEmpty'
  <2>1. CASE BreakMissing(r)
    BY <2>1 DEF TypeOK, Locals, Listening, SignalExclusive, PendingEmpty,
                BreakMissing
  <2>2. CASE BreakFound(r)
    BY <2>2 DEF TypeOK, Locals, Listening, SignalExclusive, PendingEmpty,
                BreakFound
  <2>3. CASE BreakFree(r)
    BY <2>3 DEF TypeOK, Locals, Listening, SignalExclusive, PendingEmpty,
                BreakFree
  <2>4. CASE BreakBusy(r)
    BY <2>4 DEF TypeOK, Locals, Listening, SignalExclusive, PendingEmpty,
                BreakBusy
  <2>5. CASE BreakReturn(r)
    BY <2>5 DEF TypeOK, Locals, Listening, SignalExclusive, PendingEmpty,
                BreakReturn
  <2>6. QED
    BY <1>4, <2>1, <2>2, <2>3, <2>4, <2>5 DEF BreakStep
<1>5. ASSUME NEW w \in Workers, ListenStep(w)
      PROVE  PendingEmpty'
  <2>1. CASE Boot(w)
    BY <2>1 DEF TypeOK, Locals, Listening, SignalExclusive, PendingEmpty, Boot
  <2>2. ASSUME NEW code \in Codes, Execute(w, code)
        PROVE  PendingEmpty'
    BY <2>2 DEF TypeOK, Locals, Listening, SignalExclusive, PendingEmpty,
                Execute
  <2>3. CASE Deliver(w)
    BY <2>3 DEF TypeOK, Locals, Listening, SignalExclusive, PendingEmpty,
                ChanOwner, Deliver
  <2>4. CASE Finish(w)
    BY <2>4 DEF TypeOK, Locals, Listening, SignalExclusive, PendingEmpty,
                Finish
  <2>5. CASE IdleTimeout(w)
    BY <2>5 DEF TypeOK, Locals, Listening, SignalExclusive, PendingEmpty,
                IdleTimeout
  <2>6. CASE Deregister(w)
    BY <2>6 DEF TypeOK, Locals, Listening, SignalExclusive, PendingEmpty,
                Deregister
  <2>7. CASE ClearOut(w)
    BY <2>7 DEF TypeOK, Locals, Listening, SignalExclusive, PendingEmpty,
                ClearOut
  <2>8. QED
    BY <1>5, <2>1, <2>2, <2>3, <2>4, <2>5, <2>6, <2>7 DEF ListenStep
<1>6. QED
  BY <1>1, <1>2, <1>3, <1>4, <1>5 DEF Next

\* The result is taken from the channel that belongs to the caller.
LEMMA RoutingStep ==
  ASSUME TypeOK, Locals, ChanContents, ResultRouting, [Next]_vars
  PROVE  ResultRouting'
<1> USE NilAssumption DEF ReqPC, RunPC, BreakPC, HasWorker, HasChan, registry,
                          listener, mailbox, handler, Goto, Return, ListenTo
<1>1. CASE UNCHANGED vars
  BY <1>1 DEF TypeOK, ResultRouting, vars
<1>2. ASSUME NEW r \in Reqs, Call(r)
      PROVE  ResultRouting'
  <2>1. ASSUME NEW s \in Sessions, NEW t \in Tasks, CallRun(r, s, t)
        PROVE  ResultRouting'
    BY <2>1 DEF TypeOK, ResultRouting, CallRun
  <2>2. ASSUME NEW s \in Sessions, CallBreak(r, s)
        PROVE  ResultRouting'
    BY <2>2 DEF TypeOK, ResultRouting, CallBreak
  <2>3. QED
    BY <1>2, <2>1, <2>2 DEF Call
<1>3. ASSUME NEW r \in Reqs, RunStep(r)
      PROVE  ResultRouting'
  <2>1. CASE Lookup(r)
    BY <2>1 DEF TypeOK, ResultRouting, Lookup
  <2>2. ASSUME NEW w \in Workers, Create(r, w)
        PROVE  ResultRouting'
    BY <2>2 DEF TypeOK, ResultRouting, Create
  <2>3. CASE CheckOut(r)
    BY <2>3 DEF TypeOK, ResultRouting, CheckOut
  <2>4. CASE TakeSignal(r)
    BY <2>4 DEF TypeOK, ResultRouting, TakeSignal
  <2>5. CASE BreakPage(r)
    BY <2>5 DEF TypeOK, ResultRouting, BreakPage
  <2>6. ASSUME NEW c \in Chans, Register(r, c)
        PROVE  ResultRouting'
    BY <2>6 DEF TypeOK, ResultRouting, Register
  <2>7. CASE Send(r)
    BY <2>7 DEF TypeOK, ResultRouting, Send
  <2>8. CASE Recv(r)
    BY <2>8 DEF TypeOK, ResultRouting, Locals, ChanContents, Recv
  <2>9. CASE Delete(r)
    BY <2>9 DEF TypeOK, ResultRouting, Delete
  <2>10. CASE WaitPage(r)
    BY <2>10 DEF TypeOK, ResultRouting, WaitPage
  <2>11. QED
    BY <1>3, <2>1, <2>2, <2>3, <2>4, <2>5, <2>6, <2>7, <2>8, <2>9, <2>10 DEF RunStep
<1>4. ASSUME NEW r \in Reqs, BreakStep(r)
      PROVE  ResultRouting'
  <2>1. CASE BreakMissing(r)
    BY <2>1 DEF TypeOK, ResultRouting, BreakMissing
  <2>2. CASE BreakFound(r)
    BY <2>2 DEF TypeOK, ResultRouting, BreakFound
  <2>3. CASE BreakFree(r)
    BY <2>3 DEF TypeOK, ResultRouting, BreakFree
  <2>4. CASE BreakBusy(r)
    BY <2>4 DEF TypeOK, ResultRouting, BreakBusy
  <2>5. CASE BreakReturn(r)
    BY <2>5 DEF TypeOK, ResultRouting, BreakReturn
  <2>6. QED
    BY <1>4, <2>1, <2>2, <2>3, <2>4, <2>5 DEF BreakStep
<1>5. ASSUME NEW w \in Workers, ListenStep(w)
      PROVE  ResultRouting'
  <2>1. CASE Boot(w)
    BY <2>1 DEF TypeOK, ResultRouting, Boot
  <2>2. ASSUME NEW code \in Codes, Execute(w, code)
        PROVE  ResultRouting'
    BY <2>2 DEF TypeOK, ResultRouting, Execute
  <2>3. CASE Deliver(w)
    BY <2>3 DEF TypeOK, ResultRouting, Deliver
  <2>4. CASE Finish(w)
    BY <2>4 DEF TypeOK, ResultRouting, Finish
  <2>5. CASE IdleTimeout(w)
    BY <2>5 DEF TypeOK, ResultRouting, IdleTimeout
  <2>6. CASE Deregister(w)
    BY <2>6 DEF TypeOK, ResultRouting, Deregister
  <2>7. CASE ClearOut(w)
    BY <2>7 DEF TypeOK, ResultRouting, ClearOut
  <2>8. QED
    BY <1>5, <2>1, <2>2, <2>3, <2>4, <2>5, <2>6, <2>7 DEF ListenStep
<1>6. QED
  BY <1>1, <1>2, <1>3, <1>4, <1>5 DEF Next

\* The duty to answer passes from the handler that submits to the listener,
\* from it to the buffer, and from there to the handler that collects.
LEMMA AnsweredStep ==
  ASSUME TypeOK, Locals, Listening, ChanOwner, RegisteredIsAnswered,
         [Next]_vars
  PROVE  RegisteredIsAnswered'
<1> USE NilAssumption DEF Gone, ListenPC, ReqPC, RunPC, BreakPC, HasWorker,
                          HasChan, Results, Works, registry, listener,
                          mailbox, handler, Goto, Return, ListenTo
<1>1. CASE UNCHANGED vars
  BY <1>1 DEF TypeOK, Locals, RegisteredIsAnswered, Answers, vars
<1>2. ASSUME NEW r \in Reqs, Call(r)
      PROVE  RegisteredIsAnswered'
  <2>1. ASSUME NEW s \in Sessions, NEW t \in Tasks, CallRun(r, s, t)
        PROVE  RegisteredIsAnswered'
    <3>1. \A q \in Reqs, x \in Workers, u \in Tasks :
            Answers(q, x, u) => Answers(q, x, u)'
      BY <2>1 DEF TypeOK, Locals, Answers, CallRun
    <3>2. UNCHANGED <<outChanList, buf, lst, cur>>
      BY <2>1 DEF CallRun
    <3>3. QED
      BY <3>1, <3>2 DEF RegisteredIsAnswered
  <2>2. ASSUME NEW s \in Sessions, CallBreak(r, s)
        PROVE  RegisteredIsAnswered'
    <3>1. \A q \in Reqs, x \in Workers, u \in Tasks :
            Answers(q, x, u) => Answers(q, x, u)'
      BY <2>2 DEF TypeOK, Locals, Answers, CallBreak
    <3>2. UNCHANGED <<outChanList, buf, lst, cur>>
      BY <2>2 DEF CallBreak
    <3>3. QED
      BY <3>1, <3>2 DEF RegisteredIsAnswered
  <2>3. QED
    BY <1>2, <2>1, <2>2 DEF Call
<1>3. ASSUME NEW r \in Reqs, RunStep(r)
      PROVE  RegisteredIsAnswered'
  <2>1. CASE Lookup(r)
    <3>1. \A q \in Reqs, x \in Workers, u \in Tasks :
            Answers(q, x, u) => Answers(q, x, u)'
      BY <2>1 DEF TypeOK, Locals, Answers, Lookup
    <3>2. UNCHANGED <<outChanList, buf, lst, cur>>
      BY <2>1 DEF Lookup
    <3>3. QED
      BY <3>1, <3>2 DEF RegisteredIsAnswered
  <2>2. ASSUME NEW w \in Workers, Create(r, w)
        PROVE  RegisteredIsAnswered'
    <3>1. \A q \in Reqs, x \in Workers, t \in Tasks :
            Answers(q, x, t) => Answers(q, x, t)'
      BY <2>2 DEF TypeOK, Locals, Answers, Create
    <3>2. \A t \in Tasks : outChanList'[w][t] = Nil
      BY <2>2 DEF TypeOK, Create
    <3>3. \A x \in Workers : x # w =>
            outChanList'[x] = outChanList[x] /\ lst'[x] = lst[x]
      BY <2>2 DEF TypeOK, Create
    <3>4. UNCHANGED <<buf, cur>>
      BY <2>2 DEF Create
    <3>5. QED
      BY <3>1, <3>2, <3>3, <3>4 DEF RegisteredIsAnswered
  <2>3. CASE CheckOut(r)
    <3>1. \A q \in Reqs, x \in Workers, u \in Tasks :
            Answers(q, x, u) => Answers(q, x, u)'
      BY <2>3 DEF TypeOK, Locals, Answers, CheckOut
    <3>2. UNCHANGED <<outChanList, buf, lst, cur>>
      BY <2>3 DEF CheckOut
    <3>3. QED
      BY <3>1, <3>2 DEF RegisteredIsAnswered
  <2>4. CASE TakeSignal(r)
    <3>1. \A q \in Reqs, x \in Workers, u \in Tasks :
            Answers(q, x, u) => Answers(q, x, u)'
      BY <2>4 DEF TypeOK, Locals, Answers, TakeSignal
    <3>2. UNCHANGED <<outChanList, buf, lst, cur>>
      BY <2>4 DEF TakeSignal
    <3>3. QED
      BY <3>1, <3>2 DEF RegisteredIsAnswered
  <2>5. CASE BreakPage(r)
    <3>1. \A q \in Reqs, x \in Workers, u \in Tasks :
            Answers(q, x, u) => Answers(q, x, u)'
      BY <2>5 DEF TypeOK, Locals, Answers, BreakPage
    <3>2. UNCHANGED <<outChanList, buf, lst, cur>>
      BY <2>5 DEF BreakPage
    <3>3. QED
      BY <3>1, <3>2 DEF RegisteredIsAnswered
  <2>6. ASSUME NEW c \in Chans, Register(r, c)
        PROVE  RegisteredIsAnswered'
    BY <2>6 DEF TypeOK, Locals, RegisteredIsAnswered, Answers, FreshChan,
                Register
  <2>7. CASE Send(r)
    BY <2>7 DEF TypeOK, Locals, RegisteredIsAnswered, Answers, Send
  <2>8. CASE Recv(r)
    <3>1. \A q \in Reqs, x \in Workers, t \in Tasks :
            Answers(q, x, t) => Answers(q, x, t)'
      BY <2>8 DEF TypeOK, Locals, Answers, Recv
    <3>2. \A x \in Workers, t \in Tasks :
            x = rw[r] /\ t = rtask[r] => Answers(r, x, t)'
      BY <2>8 DEF TypeOK, Locals, Answers, Recv
    <3>3. \A x \in Workers, t \in Tasks :
            \/ x = rw[r] /\ t = rtask[r]
            \/ outChanList[x][t] # rch[r]
      BY <2>8 DEF Locals, ChanOwner, Recv
    <3>4. \A c \in Chans : c # rch[r] => buf'[c] = buf[c]
      BY <2>8 DEF TypeOK, Recv
    <3>5. UNCHANGED <<outChanList, lst, cur>>
      BY <2>8 DEF Recv
    <3>6. ASSUME NEW x \in Workers, NEW t \in Tasks,
                 outChanList[x][t] # Nil, lst[x] \notin Gone
          PROVE  \/ buf'[outChanList[x][t]] # Nil
                 \/ lst[x] \in {"run", "deliver"} /\ cur[x].task = t
                 \/ \E q \in Reqs : Answers(q, x, t)'
      <4>1. CASE x = rw[r] /\ t = rtask[r]
        BY <3>2, <4>1
      <4>2. CASE outChanList[x][t] # rch[r]
        BY <3>1, <3>4, <3>6, <4>2 DEF TypeOK, RegisteredIsAnswered
      <4>3. QED
        BY <3>3, <4>1, <4>2
    <3>7. QED
      BY <3>5, <3>6 DEF RegisteredIsAnswered
  <2>9. CASE Delete(r)
    BY <2>9 DEF TypeOK, Locals, RegisteredIsAnswered, Answers, Delete
  <2>10. CASE WaitPage(r)
    <3>1. \A q \in Reqs, x \in Workers, u \in Tasks :
            Answers(q, x, u) => Answers(q, x, u)'
      BY <2>10 DEF TypeOK, Locals, Answers, WaitPage
    <3>2. UNCHANGED <<outChanList, buf, lst, cur>>
      BY <2>10 DEF WaitPage
    <3>3. QED
      BY <3>1, <3>2 DEF RegisteredIsAnswered
  <2>11. QED
    BY <1>3, <2>1, <2>2, <2>3, <2>4, <2>5, <2>6, <2>7, <2>8, <2>9, <2>10 DEF RunStep
<1>4. ASSUME NEW r \in Reqs, BreakStep(r)
      PROVE  RegisteredIsAnswered'
  <2>1. CASE BreakMissing(r)
    <3>1. \A q \in Reqs, x \in Workers, u \in Tasks :
            Answers(q, x, u) => Answers(q, x, u)'
      BY <2>1 DEF TypeOK, Locals, Answers, BreakMissing
    <3>2. UNCHANGED <<outChanList, buf, lst, cur>>
      BY <2>1 DEF BreakMissing
    <3>3. QED
      BY <3>1, <3>2 DEF RegisteredIsAnswered
  <2>2. CASE BreakFound(r)
    <3>1. \A q \in Reqs, x \in Workers, u \in Tasks :
            Answers(q, x, u) => Answers(q, x, u)'
      BY <2>2 DEF TypeOK, Locals, Answers, BreakFound
    <3>2. UNCHANGED <<outChanList, buf, lst, cur>>
      BY <2>2 DEF BreakFound
    <3>3. QED
      BY <3>1, <3>2 DEF RegisteredIsAnswered
  <2>3. CASE BreakFree(r)
    <3>1. \A q \in Reqs, x \in Workers, u \in Tasks :
            Answers(q, x, u) => Answers(q, x, u)'
      BY <2>3 DEF TypeOK, Locals, Answers, BreakFree
    <3>2. UNCHANGED <<outChanList, buf, lst, cur>>
      BY <2>3 DEF BreakFree
    <3>3. QED
      BY <3>1, <3>2 DEF RegisteredIsAnswered
  <2>4. CASE BreakBusy(r)
    <3>1. \A q \in Reqs, x \in Workers, u \in Tasks :
            Answers(q, x, u) => Answers(q, x, u)'
      BY <2>4 DEF TypeOK, Locals, Answers, BreakBusy
    <3>2. UNCHANGED <<outChanList, buf, lst, cur>>
      BY <2>4 DEF BreakBusy
    <3>3. QED
      BY <3>1, <3>2 DEF RegisteredIsAnswered
  <2>5. CASE BreakReturn(r)
    <3>1. \A q \in Reqs, x \in Workers, u \in Tasks :
            Answers(q, x, u) => Answers(q, x, u)'
      BY <2>5 DEF TypeOK, Locals, Answers, BreakReturn
    <3>2. UNCHANGED <<outChanList, buf, lst, cur>>
      BY <2>5 DEF BreakReturn
    <3>3. QED
      BY <3>1, <3>2 DEF RegisteredIsAnswered
  <2>6. QED
    BY <1>4, <2>1, <2>2, <2>3, <2>4, <2>5 DEF BreakStep
<1>5. ASSUME NEW w \in Workers, ListenStep(w)
      PROVE  RegisteredIsAnswered'
  <2>1. CASE Boot(w)
    BY <2>1 DEF TypeOK, Locals, RegisteredIsAnswered, Answers, Boot
  <2>2. ASSUME NEW code \in Codes, Execute(w, code)
        PROVE  RegisteredIsAnswered'
    BY <2>2 DEF TypeOK, Locals, RegisteredIsAnswered, Answers, Execute
  <2>3. CASE Deliver(w)
    BY <2>3 DEF TypeOK, Locals, RegisteredIsAnswered, Answers, Listening,
                Deliver
  <2>4. CASE Finish(w)
    BY <2>4 DEF TypeOK, Locals, RegisteredIsAnswered, Answers, Finish
  <2>5. CASE IdleTimeout(w)
    BY <2>5 DEF TypeOK, Locals, RegisteredIsAnswered, Answers, IdleTimeout
  <2>6. CASE Deregister(w)
    BY <2>6 DEF TypeOK, Locals, RegisteredIsAnswered, Answers, Deregister
  <2>7. CASE ClearOut(w)
    BY <2>7 DEF TypeOK, Locals, RegisteredIsAnswered, Answers, ClearOut
  <2>8. QED
    BY <1>5, <2>1, <2>2, <2>3, <2>4, <2>5, <2>6, <2>7 DEF ListenStep
<1>6. QED
  BY <1>1, <1>2, <1>3, <1>4, <1>5 DEF Next

-----------------------------------------------------------------------------
(* The theorems.                                                            *)

\* Before the first call there is no worker, no channel and no result.
LEMMA InitIInv == Init => IInv
<1> SUFFICES ASSUME Init PROVE IInv
  OBVIOUS
<1>1. TypeOK
  BY DEF Init, TypeOK, ListenPC, ReqPC
<1>2. Locals /\ Listening
  BY DEF Init, Locals, Listening, RunPC, HasWorker, HasChan
<1>3. SignalExclusive /\ WlistLive
  BY DEF Init, SignalExclusive, WlistLive, Busy, Holder
<1>4. ChanOwner /\ ChanContents /\ PendingEmpty
  BY DEF Init, ChanOwner, ChanContents, PendingEmpty
<1>5. ResultRouting /\ RegisteredIsAnswered
  BY DEF Init, ResultRouting, RegisteredIsAnswered, Gone
<1>6. QED
  BY <1>1, <1>2, <1>3, <1>4, <1>5 DEF IInv

\* Every step keeps the inductive invariant.
LEMMA NextIInv == IInv /\ [Next]_vars => IInv'
<1> SUFFICES ASSUME IInv, [Next]_vars PROVE IInv'
  OBVIOUS
<1>1. TypeOK' /\ Locals' /\ Listening'
  BY TypeStep, LocalsStep, ListeningStep DEF IInv
<1>2. SignalExclusive' /\ WlistLive'
  BY SignalStep, WlistStep DEF IInv
<1>3. ChanOwner' /\ ChanContents' /\ PendingEmpty'
  BY ChanOwnerStep, ChanContentsStep, PendingStep DEF IInv
<1>4. ResultRouting' /\ RegisteredIsAnswered'
  BY RoutingStep, AnsweredStep DEF IInv
<1>5. QED
  BY <1>1, <1>2, <1>3, <1>4 DEF IInv

\* The inductive invariant holds in every reachable state of worker.go's
\* handlers and listeners, for any number of them.
THEOREM Invariance == Spec => []IInv
<1>1. Init => IInv
  BY InitIInv
<1>2. IInv /\ [Next]_vars => IInv'
  BY NextIInv
<1>3. QED
  BY <1>1, <1>2, PTL DEF Spec

\* The variables keep their types; in particular signalChan never holds more
\* than its capacity of one token.
THEOREM TypeCorrect == Spec => []TypeOK
<1>1. IInv => TypeOK
  BY DEF IInv
<1>2. QED
  BY <1>1, Invariance, PTL

\* At most one handler at a time can submit work to a worker, and none while
\* its listener works.
THEOREM Exclusion == Spec => []SignalExclusive
<1>1. IInv => SignalExclusive
  BY DEF IInv
<1>2. QED
  BY <1>1, Invariance, PTL

\* The listener goroutine never blocks on signalChan or on a result channel.
THEOREM NeverBlocks == Spec => []ListenerNeverBlocks
<1>1. IInv => ListenerNeverBlocks
  BY DEF IInv, ListenerNeverBlocks, SignalExclusive, PendingEmpty, Busy
<1>2. QED
  BY <1>1, Invariance, PTL

\* Run returns results of its own session and task only.
THEOREM Routing == Spec => []ResultRouting
<1>1. IInv => ResultRouting
  BY DEF IInv
<1>2. QED
  BY <1>1, Invariance, PTL

\* wlist only leads to workers of the right session whose listener has not
\* yet taken itself off the list.
THEOREM RegistryLive == Spec => []WlistLive
<1>1. IInv => WlistLive
  BY DEF IInv
<1>2. QED
  BY <1>1, Invariance, PTL

\* A task that is registered with a live worker has its answer on the way.
THEOREM Answered == Spec => []RegisteredIsAnswered
<1>1. IInv => RegisteredIsAnswered
  BY DEF IInv
<1>2. QED
  BY <1>1, Invariance, PTL

-----------------------------------------------------------------------------
(* The gauge of sessions.                                                   *)

\* Workers whose listener goroutine exists.
Live == {w \in Workers : lst[w] # "none"}

\* The gauge counts exactly the listeners: replaced ones, and those that end,
\* until they have emptied outChanList.
GaugeInv == IsFiniteSet(Live) /\ numberOfSessions = Cardinality(Live)

\* Only the start and the end of a listener count.
LEMMA GaugeStep ==
  ASSUME TypeOK, GaugeInv, [Next]_vars
  PROVE  GaugeInv'
<1> USE DEF registry, listener, mailbox, handler, Goto, Return, ListenTo
<1>1. ASSUME NEW r \in Reqs, NEW w \in Workers, Create(r, w) PROVE GaugeInv'
  <2>1. w \notin Live /\ Live' = Live \cup {w}
    BY <1>1 DEF Create, FreshWorker, Live, TypeOK
  <2>2. numberOfSessions' = numberOfSessions + 1
    BY <1>1 DEF Create
  <2>3. IsFiniteSet(Live \cup {w}) /\ Cardinality(Live \cup {w}) = Cardinality(Live) + 1
    BY <2>1, FS_AddElement DEF GaugeInv
  <2> QED
    BY <2>1, <2>2, <2>3 DEF GaugeInv
<1>2. ASSUME NEW w \in Workers, ClearOut(w) PROVE GaugeInv'
  <2>1. w \in Live /\ Live' = Live \ {w}
    BY <1>2 DEF ClearOut, Live, TypeOK
  <2>2. numberOfSessions' = numberOfSessions - 1
    BY <1>2 DEF ClearOut
  <2>3. IsFiniteSet(Live \ {w}) /\ Cardinality(Live \ {w}) = Cardinality(Live) - 1
    BY <2>1, FS_RemoveElement DEF GaugeInv
  <2> QED
    BY <2>1, <2>2, <2>3 DEF GaugeInv
<1>3. ASSUME numberOfSessions' = numberOfSessions,
             \A w \in Workers : lst'[w] = "none" <=> lst[w] = "none"
      PROVE  GaugeInv'
  <2>1. Live' = Live
    BY <1>3 DEF Live
  <2> QED
    BY <1>3, <2>1 DEF GaugeInv
<1>4. ASSUME NEW r \in Reqs, Call(r) \/ BreakStep(r) PROVE GaugeInv'
  BY <1>3, <1>4 DEF Call, CallRun, CallBreak, BreakStep, BreakMissing, BreakFound,
                    BreakFree, BreakBusy, BreakReturn
<1>5. ASSUME NEW r \in Reqs, RunStep(r) PROVE GaugeInv'
  <2>1. CASE \E w \in Workers : Create(r, w)
    BY <1>1, <2>1
  <2>2. CASE Send(r)
    BY <1>3, <2>2 DEF Send, TypeOK
  <2>3. CASE Lookup(r) \/ CheckOut(r) \/ TakeSignal(r) \/ BreakPage(r)
    BY <1>3, <2>3 DEF Lookup, CheckOut, TakeSignal, BreakPage
  <2>4. CASE Recv(r) \/ Delete(r) \/ WaitPage(r) \/ \E c \in Chans : Register(r, c)
    BY <1>3, <2>4 DEF Recv, Delete, WaitPage, Register
  <2> QED
    BY <1>5, <2>1, <2>2, <2>3, <2>4 DEF RunStep
<1>6. ASSUME NEW w \in Workers, ListenStep(w) PROVE GaugeInv'
  <2>1. CASE ClearOut(w)
    BY <1>2, <2>1
  <2>2. CASE Boot(w) \/ Deliver(w) \/ Finish(w)
    BY <1>3, <2>2 DEF Boot, Deliver, Finish, TypeOK
  <2>3. CASE IdleTimeout(w) \/ Deregister(w) \/ \E code \in Codes : Execute(w, code)
    BY <1>3, <2>3 DEF IdleTimeout, Deregister, Execute, TypeOK
  <2> QED
    BY <1>6, <2>1, <2>2, <2>3 DEF ListenStep
<1>7. CASE UNCHANGED vars
  BY <1>3, <1>7 DEF vars
<1> QED
  BY <1>4, <1>5, <1>6, <1>7 DEF Next

\* numberOfSessions is the number of listener goroutines, at every moment.
THEOREM GaugeCounts == Spec => []GaugeInv
<1>1. Init => GaugeInv
  <2> SUFFICES ASSUME Init PROVE GaugeInv
    OBVIOUS
  <2>1. Live = {}
    BY DEF Init, Live
  <2> QED
    BY <2>1, FS_EmptySet DEF Init, GaugeInv
<1>2. TypeOK /\ GaugeInv /\ [Next]_vars => GaugeInv'
  BY GaugeStep
<1> QED
  BY <1>1, <1>2, TypeCorrect, PTL DEF Spec

\* The gauge is not less than the number of registered sessions: each of them
\* has a worker of its own whose listener exists.
THEOREM GaugeCovers == Spec => []GaugeCoversRegistry
<1>1. ASSUME TypeOK, WlistLive, GaugeInv PROVE GaugeCoversRegistry
  <2> DEFINE S == {s \in Sessions : wlist[s] # Nil}
             f == [s \in S |-> wlist[s]]
  <2>1. \A s \in S : wlist[s] \in Live
    BY <1>1 DEF TypeOK, WlistLive, Live
  <2>2. \A s, t \in S : wlist[s] = wlist[t] => s = t
    BY <1>1 DEF WlistLive
  <2>3. f \in Injection(S, Live)
    BY <2>1, <2>2 DEF Injection, IsInjective
  <2> HIDE DEF f
  <2>4. IsFiniteSet(Live) /\ numberOfSessions = Cardinality(Live)
    BY <1>1 DEF GaugeInv
  <2>5. IsFiniteSet(S) /\ Cardinality(S) <= Cardinality(Live)
    BY <2>3, <2>4, FS_Injection
  <2>6. Cardinality(S) \in Nat /\ Cardinality(Live) \in Nat
    BY <2>4, <2>5, FS_CardinalityType
  <2> QED
    BY <2>4, <2>5, <2>6 DEF GaugeCoversRegistry
<1> QED
  BY <1>1, TypeCorrect, RegistryLive, GaugeCounts, PTL
=============================================================================
