------------------------------ MODULE OwaProofs -----------------------------
(***************************************************************************)
(* Proofs about module Owa, for any number of windows, sessions, workers   *)
(* and channels: the windows are clients of module Worker as its           *)
(* specification allows them, and however they poll, no worker is handed   *)
(* the same task twice.                                                    *)
(***************************************************************************)
EXTENDS Owa, WorkerProofs

\* The only task a window ever asks for is the one its first request got.  A
\* window in Break has none.
WindowInv ==
  \A r \in Reqs :
    /\ form[r] \in {Nil, Uuid[r]}
    /\ rtask[r] = IF rpc[r] \in RunPC THEN Uuid[r] ELSE Nil
    /\ rpc[r] \in BreakPC => form[r] = Nil

\* The window will not ask for its task again.
GivenUp(r) == page[r] = "done" \/ rpc[r] \in BreakPC

\* A live worker remembers the tasks it was handed as long as their windows may
\* ask for them: the channel is in its outChanList.
RememberInv ==
  \A r \in Reqs, w \in Workers : Uuid[r] \in taken[w] =>
    lst[w] = "none" \/ outChanList[w][Uuid[r]] # Nil \/ GivenUp(r)

\* A handler on its way to the hand-over to a live worker brings a task that is
\* new to it, and has registered the channel when it gets there.
SubmitInv ==
  \A r \in Reqs :
    rpc[r] \in {"await", "reg", "send"} /\ lst[rw[r]] # "none" =>
      /\ Uuid[r] \notin taken[rw[r]]
      /\ rpc[r] = "send" => outChanList[rw[r]][Uuid[r]] # Nil

OwaInv == OwaTypeOK /\ WindowInv /\ RememberInv /\ SubmitInv

-----------------------------------------------------------------------------
(* The use of Worker.                                                       *)

\* What a window posts is a task: its form's, or a new identifier.
LEMMA TaskOfForm ==
  ASSUME WindowInv, NEW r \in Reqs
  PROVE  makeTaskID(r) = Uuid[r] /\ Uuid[r] \in Tasks /\ Uuid[r] # Nil
BY NilAssumption, UuidAssumption DEF WindowInv, makeTaskID

\* Every step of windows and handlers is one that Worker allows its clients.
LEMMA StepOfWorker ==
  ASSUME WindowInv, [OwaNext]_owaVars
  PROVE  [Next]_vars
<1>1. ASSUME NEW r \in Reqs, Post(r) PROVE Next
  <2>1. CallRun(r, makeHandlerID(Client[r]), makeTaskID(r))
    BY <1>1 DEF Post
  <2>2. makeHandlerID(Client[r]) \in Sessions /\ makeTaskID(r) \in Tasks
    BY TaskOfForm, ClientAssumption
  <2> QED
    BY <2>1, <2>2 DEF Next, Call
<1>2. ASSUME NEW r \in Reqs, break_session(r) PROVE Next
  <2>1. CallBreak(r, makeHandlerID(Client[r]))
    BY <1>2 DEF break_session
  <2>2. makeHandlerID(Client[r]) \in Sessions
    BY ClientAssumption
  <2> QED
    BY <2>1, <2>2 DEF Next, Call
<1>3. ASSUME NEW r \in Reqs, Unauthorized(r) PROVE UNCHANGED vars
  BY <1>3 DEF Unauthorized
<1>4. ASSUME NEW r \in Reqs, Handler(r) PROVE RunStep(r) \/ BreakStep(r)
  BY <1>4 DEF Handler, Respond, Inside, HandOver, NewWorker, RunStep, BreakStep
<1>5. ASSUME NEW w \in Workers, Listener(w) PROVE ListenStep(w)
  BY <1>5 DEF Listener
<1>6. CASE UNCHANGED owaVars
  BY <1>6 DEF owaVars
<1> QED
  BY <1>1, <1>2, <1>3, <1>4, <1>5, <1>6 DEF OwaNext, Next

-----------------------------------------------------------------------------
(* One lemma per part of OwaInv.                                            *)

\* A page with a form is made at the end of Run only, where the handler still
\* has the task; Break starts without a form and ends without one.
LEMMA WindowStep ==
  ASSUME TypeOK, Locals, OwaTypeOK, WindowInv, [OwaNext]_owaVars
  PROVE  OwaTypeOK' /\ WindowInv'
<1> USE NilAssumption, UuidAssumption
    DEF OwaTypeOK, WindowInv, TypeOK, WithForm, ReqPC, RunPC, BreakPC, browser,
        registry, listener, mailbox, handler, Goto, Return
<1>1. ASSUME NEW r \in Reqs, Post(r) PROVE OwaTypeOK' /\ WindowInv'
  BY <1>1, TaskOfForm DEF Post, CallRun
<1>2. ASSUME NEW r \in Reqs, break_session(r) PROVE OwaTypeOK' /\ WindowInv'
  BY <1>2 DEF break_session, CallBreak
<1>3. ASSUME NEW r \in Reqs, Unauthorized(r) PROVE OwaTypeOK' /\ WindowInv'
  BY <1>3 DEF Unauthorized, Show, vars
<1>4. ASSUME NEW r \in Reqs, Respond(r) PROVE OwaTypeOK' /\ WindowInv'
  <2>1. CASE WaitPage(r) /\ Show(r, "wait")
    BY <1>4, <2>1 DEF Respond, WaitPage, Show
  <2>2. CASE BreakPage(r) /\ Show(r, "break")
    BY <1>4, <2>2 DEF Respond, BreakPage, Show
  <2>3. CASE Delete(r) /\ Show(r, "done")
    BY <1>4, <2>3 DEF Respond, Delete, Show
  <2>4. CASE (BreakMissing(r) \/ BreakFree(r) \/ BreakReturn(r)) /\ Show(r, "done")
    BY <1>4, <2>4 DEF Respond, BreakMissing, BreakFree, BreakReturn, Show
  <2> QED
    BY <1>4, <2>1, <2>2, <2>3, <2>4 DEF Respond
<1>5. ASSUME NEW r \in Reqs, Inside(r) PROVE OwaTypeOK' /\ WindowInv'
  <2>1. CASE Lookup(r) \/ CheckOut(r) \/ TakeSignal(r) \/ Recv(r)
    BY <1>5, <2>1 DEF Inside, Lookup, CheckOut, TakeSignal, Recv
  <2>2. CASE \E c \in Chans : Register(r, c)
    BY <1>5, <2>2 DEF Inside, Register
  <2>3. CASE BreakFound(r) \/ BreakBusy(r)
    BY <1>5, <2>3 DEF Inside, BreakFound, BreakBusy
  <2> QED
    BY <1>5, <2>1, <2>2, <2>3 DEF Inside
<1>6. ASSUME NEW r \in Reqs, HandOver(r) PROVE OwaTypeOK' /\ WindowInv'
  <2>1. rtask[r] \in Tasks
    BY <1>6 DEF HandOver, Send
  <2>2. taken' \in [Workers -> SUBSET Tasks]
    BY <1>6, <2>1 DEF HandOver
  <2>3. UNCHANGED <<page, form, rtask>> /\ rpc' = [rpc EXCEPT ![r] = "recv"]
    BY <1>6 DEF HandOver, Send
  <2> QED
    BY <1>6, <2>2, <2>3 DEF HandOver, Send
<1>7. ASSUME NEW r \in Reqs, NEW w \in Workers, NewWorker(r, w)
      PROVE  OwaTypeOK' /\ WindowInv'
  BY <1>7 DEF NewWorker, Create
<1>8. ASSUME UNCHANGED <<handler, browser, taken>> PROVE OwaTypeOK' /\ WindowInv'
  BY <1>8
<1>9. ASSUME NEW w \in Workers, Listener(w) PROVE UNCHANGED <<handler, browser, taken>>
  BY <1>9 DEF Listener, ListenStep, Boot, Deliver, Finish, IdleTimeout, Deregister,
              ClearOut, Execute
<1>10. CASE UNCHANGED owaVars
  BY <1>8, <1>10 DEF owaVars, vars
<1> QED
  BY <1>1, <1>2, <1>3, <1>4, <1>5, <1>6, <1>7, <1>8, <1>9, <1>10 DEF OwaNext, Handler

\* A channel of a task that may be asked for again is taken off outChanList of
\* a live worker by nobody: Delete ends the window, the others clear the list of
\* a worker that ends.
LEMMA RememberStep ==
  ASSUME TypeOK, Locals, OwaInv, [OwaNext]_owaVars
  PROVE  RememberInv'
<1> USE NilAssumption, UuidAssumption
    DEF OwaInv, OwaTypeOK, WindowInv, RememberInv, SubmitInv, GivenUp, TypeOK, WithForm,
        ReqPC, RunPC, BreakPC, browser, registry, listener, mailbox, handler, Goto, Return
<1>1. ASSUME NEW r \in Reqs, Post(r) PROVE RememberInv'
  BY <1>1 DEF Post, CallRun
<1>2. ASSUME NEW r \in Reqs, break_session(r) PROVE RememberInv'
  BY <1>2 DEF break_session, CallBreak
<1>3. ASSUME NEW r \in Reqs, Unauthorized(r) PROVE RememberInv'
  BY <1>3 DEF Unauthorized, Show, vars
<1>4. ASSUME NEW r \in Reqs, Respond(r) PROVE RememberInv'
  <2>1. CASE WaitPage(r) /\ Show(r, "wait")
    BY <1>4, <2>1 DEF Respond, WaitPage, Show
  <2>2. CASE BreakPage(r) /\ Show(r, "break")
    BY <1>4, <2>2 DEF Respond, BreakPage, Show
  <2>3. CASE Delete(r) /\ Show(r, "done")
    BY <1>4, <2>3 DEF Respond, Delete, Show, Locals, HasWorker
  <2>4. CASE (BreakMissing(r) \/ BreakFree(r) \/ BreakReturn(r)) /\ Show(r, "done")
    BY <1>4, <2>4 DEF Respond, BreakMissing, BreakFree, BreakReturn, Show
  <2> QED
    BY <1>4, <2>1, <2>2, <2>3, <2>4 DEF Respond
<1>5. ASSUME NEW r \in Reqs, Inside(r) PROVE RememberInv'
  <2>1. CASE Lookup(r) \/ CheckOut(r) \/ TakeSignal(r) \/ Recv(r)
    <3>1. UNCHANGED <<outChanList, lst, taken, page>>
      BY <1>5, <2>1 DEF Inside, Lookup, CheckOut, TakeSignal, Recv
    <3>2. rpc[r] \notin BreakPC /\ \A q \in Reqs : q # r => rpc'[q] = rpc[q]
      BY <2>1 DEF Lookup, CheckOut, TakeSignal, Recv
    <3> QED
      BY <3>1, <3>2
  <2>2. CASE \E c \in Chans : Register(r, c)
    BY <1>5, <2>2 DEF Inside, Register, Locals, HasWorker
  <2>3. CASE BreakFound(r) \/ BreakBusy(r)
    BY <1>5, <2>3 DEF Inside, BreakFound, BreakBusy
  <2> QED
    BY <1>5, <2>1, <2>2, <2>3 DEF Inside
<1>6. ASSUME NEW r \in Reqs, HandOver(r) PROVE RememberInv'
  BY <1>6 DEF HandOver, Send, Locals, HasWorker
<1>7. ASSUME NEW r \in Reqs, NEW w \in Workers, NewWorker(r, w) PROVE RememberInv'
  BY <1>7 DEF NewWorker, Create
<1>8. ASSUME NEW w \in Workers, Listener(w) PROVE RememberInv'
  <2>1. CASE ClearOut(w)
    BY <1>8, <2>1 DEF Listener, ClearOut, ListenTo
  <2>2. CASE Boot(w) \/ Deliver(w) \/ Finish(w)
    BY <1>8, <2>2 DEF Listener, Boot, Deliver, Finish, ListenTo
  <2>3. CASE IdleTimeout(w) \/ Deregister(w) \/ \E code \in Codes : Execute(w, code)
    BY <1>8, <2>3 DEF Listener, IdleTimeout, Deregister, Execute, ListenTo
  <2> QED
    BY <1>8, <2>1, <2>2, <2>3 DEF Listener, ListenStep
<1>9. CASE UNCHANGED owaVars
  BY <1>9 DEF owaVars, vars
<1> QED
  BY <1>1, <1>2, <1>3, <1>4, <1>5, <1>6, <1>7, <1>8, <1>9 DEF OwaNext, Handler

\* A handler goes on to the hand-over only if it found no channel of its task:
\* then the worker was never handed the task, or its listener is gone.
LEMMA SubmitStep ==
  ASSUME TypeOK, Locals, OwaInv, [OwaNext]_owaVars
  PROVE  SubmitInv'
<1> USE NilAssumption, UuidAssumption
    DEF OwaInv, OwaTypeOK, WindowInv, RememberInv, SubmitInv, GivenUp, TypeOK, WithForm,
        Locals, HasWorker, ReqPC, RunPC, BreakPC, browser, registry, listener, mailbox,
        handler, Goto, Return
<1>1. ASSUME NEW r \in Reqs, Post(r) PROVE SubmitInv'
  BY <1>1 DEF Post, CallRun
<1>2. ASSUME NEW r \in Reqs, break_session(r) PROVE SubmitInv'
  BY <1>2 DEF break_session, CallBreak
<1>3. ASSUME NEW r \in Reqs, Unauthorized(r) PROVE SubmitInv'
  BY <1>3 DEF Unauthorized, Show, vars
<1>4. ASSUME NEW r \in Reqs, Respond(r) PROVE SubmitInv'
  <2>1. CASE WaitPage(r) \/ BreakPage(r)
    BY <1>4, <2>1 DEF Respond, WaitPage, BreakPage
  <2>2. CASE Delete(r)
    BY <1>4, <2>2 DEF Respond, Delete
  <2>3. CASE BreakMissing(r) \/ BreakFree(r) \/ BreakReturn(r)
    BY <1>4, <2>3 DEF Respond, BreakMissing, BreakFree, BreakReturn
  <2> QED
    BY <1>4, <2>1, <2>2, <2>3 DEF Respond
<1>5. ASSUME NEW r \in Reqs, Inside(r) PROVE SubmitInv'
  <2>1. CASE Lookup(r) \/ TakeSignal(r) \/ Recv(r)
    BY <1>5, <2>1 DEF Inside, Lookup, TakeSignal, Recv
  <2>2. CASE CheckOut(r)
    <3>1. UNCHANGED <<outChanList, lst, taken, rw>>
      BY <1>5, <2>2 DEF Inside, CheckOut
    <3>2. \A q \in Reqs : q # r => rpc'[q] = rpc[q]
      BY <2>2 DEF CheckOut
    <3>3. rw[r] \in Workers /\ rtask[r] = Uuid[r] /\ ~GivenUp(r)
      BY <2>2 DEF CheckOut
    <3>4. rpc'[r] = IF outChanList[rw[r]][Uuid[r]] = Nil THEN "await" ELSE "recv"
      BY <2>2, <3>3 DEF CheckOut
    <3> QED
      BY <3>1, <3>2, <3>3, <3>4
  <2>3. CASE \E c \in Chans : Register(r, c)
    BY <1>5, <2>3 DEF Inside, Register
  <2>4. CASE BreakFound(r) \/ BreakBusy(r)
    BY <1>5, <2>4 DEF Inside, BreakFound, BreakBusy
  <2> QED
    BY <1>5, <2>1, <2>2, <2>3, <2>4 DEF Inside
<1>6. ASSUME NEW r \in Reqs, HandOver(r) PROVE SubmitInv'
  BY <1>6 DEF HandOver, Send
<1>7. ASSUME NEW r \in Reqs, NEW w \in Workers, NewWorker(r, w) PROVE SubmitInv'
  BY <1>7 DEF NewWorker, Create, FreshWorker
<1>8. ASSUME NEW w \in Workers, Listener(w) PROVE SubmitInv'
  <2>1. CASE ClearOut(w)
    BY <1>8, <2>1 DEF Listener, ClearOut, ListenTo
  <2>2. CASE Boot(w) \/ Deliver(w) \/ Finish(w)
    BY <1>8, <2>2 DEF Listener, Boot, Deliver, Finish, ListenTo
  <2>3. CASE IdleTimeout(w) \/ Deregister(w) \/ \E code \in Codes : Execute(w, code)
    BY <1>8, <2>3 DEF Listener, IdleTimeout, Deregister, Execute, ListenTo
  <2> QED
    BY <1>8, <2>1, <2>2, <2>3 DEF Listener, ListenStep
<1>9. CASE UNCHANGED owaVars
  BY <1>9 DEF owaVars, vars
<1> QED
  BY <1>1, <1>2, <1>3, <1>4, <1>5, <1>6, <1>7, <1>8, <1>9 DEF OwaNext, Handler

-----------------------------------------------------------------------------
(* The theorems.                                                            *)

\* Before the first request no window has a form and no worker a task.
LEMMA InitOwaInv == OwaInit => IInv /\ OwaInv
<1> SUFFICES ASSUME OwaInit PROVE IInv /\ OwaInv
  OBVIOUS
<1>1. IInv
  BY InitIInv DEF OwaInit
<1>2. OwaTypeOK
  BY DEF OwaInit, Init, OwaTypeOK, WithForm
<1>3. WindowInv /\ RememberInv /\ SubmitInv
  BY DEF OwaInit, Init, WindowInv, RememberInv, SubmitInv, RunPC, BreakPC
<1> QED
  BY <1>1, <1>2, <1>3 DEF OwaInv

\* Every step keeps Worker's invariant, because it is a step of Worker, and its
\* own.
LEMMA NextOwaInv == IInv /\ OwaInv /\ [OwaNext]_owaVars => IInv' /\ OwaInv'
<1> SUFFICES ASSUME IInv, OwaInv, [OwaNext]_owaVars PROVE IInv' /\ OwaInv'
  OBVIOUS
<1>1. TypeOK /\ Locals /\ OwaTypeOK /\ WindowInv
  BY DEF IInv, OwaInv
<1>2. IInv'
  BY <1>1, StepOfWorker, NextIInv
<1>3. OwaTypeOK' /\ WindowInv'
  BY <1>1, WindowStep
<1>4. RememberInv' /\ SubmitInv'
  BY <1>1, RememberStep, SubmitStep
<1> QED
  BY <1>2, <1>3, <1>4 DEF OwaInv

\* The inductive invariant holds whatever the windows do.
THEOREM OwaInvariance == OwaSpec => [](IInv /\ OwaInv)
BY InitOwaInv, NextOwaInv, PTL DEF OwaSpec

\* Windows and the OWA handler use Run and Break as module Worker says: what is
\* proved of Worker holds for them.
THEOREM UsesWorker == OwaSpec => Spec
<1>1. OwaInit => Init
  BY DEF OwaInit
<1>2. OwaInv /\ [OwaNext]_owaVars => [Next]_vars
  BY StepOfWorker DEF OwaInv
<1> QED
  BY <1>1, <1>2, OwaInvariance, PTL DEF OwaSpec, Spec

\* A window waits exactly while its handler is in Run or Break, and has a form
\* exactly with the wait and break pages.
THEOREM OwaTypeCorrect == OwaSpec => []OwaTypeOK
<1>1. OwaInv => OwaTypeOK
  BY DEF OwaInv
<1> QED
  BY <1>1, OwaInvariance, PTL

\* No worker is handed the same task twice, however often its window polls.
THEOREM NeverRepeated == OwaSpec => NoWorkerRepeats
<1> DEFINE New == \A r \in Reqs : HandOver(r) => rtask[r] \notin taken[rw[r]]
<1>1. ASSUME OwaInv, NEW r \in Reqs, HandOver(r)
      PROVE  rtask[r] \notin taken[rw[r]]
  <2>1. rpc[r] = "send" /\ lst[rw[r]] = "select"
    BY <1>1 DEF HandOver, Send
  <2>2. rtask[r] = Uuid[r]
    BY <1>1, <2>1 DEF OwaInv, WindowInv, RunPC
  <2> QED
    BY <1>1, <2>1, <2>2 DEF OwaInv, SubmitInv
<1>2. OwaInv /\ [OwaNext]_owaVars => [New]_owaVars
  BY <1>1
<1> QED
  BY <1>2, OwaInvariance, PTL DEF OwaSpec, NoWorkerRepeats
=============================================================================
