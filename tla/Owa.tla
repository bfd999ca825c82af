-------------------------------- MODULE Owa ---------------------------------
(***************************************************************************)
(* The OWA handler (newOwa in server.go, commonUtils.go) and the browser   *)
(* windows that call it, as the clients of module Worker.                  *)
(*                                                                         *)
(* A member of Reqs is now a window together with the handler goroutine    *)
(* that serves its request: a window has one request under way at a time,  *)
(* and a page is shown only when the handler has returned.  A window makes *)
(* one request.  While it is shown the wait or the break page, a form with *)
(* the MessageId of the task, it posts the form again, asks for            *)
(* break_session, or its user leaves.  What a window does is external.     *)
(*                                                                         *)
(* Left out: the header DebugIP = uuid, which puts every single request    *)
(* into a session of its own; the texts of the pages; how the answer of a  *)
(* task is turned into an HTTP answer.  Which users are let in is module   *)
(* Config's subject, Collect ("!") that of module Locks.                   *)
(***************************************************************************)
EXTENDS Worker

CONSTANTS
  Client,  \* [Reqs -> what the handler reads of the window's request]
  Uuid,    \* [Reqs -> the value uuid.New returns for the window's request]
  Patient  \* windows that post the form of a wait or break page again

\* The session a request belongs to: user and password (in upper case), for
\* special users also their address and the header DebugIP or X-Request-Id.
makeHandlerID(c) ==
  [user  |-> c.user,
   host  |-> IF c.isSpecial THEN c.host ELSE "",
   debug |-> IF c.isSpecial /\ c.debugIP = "" THEN c.requestId ELSE c.debugIP]

ASSUME ClientAssumption ==
  /\ \A r \in Reqs : makeHandlerID(Client[r]) \in Sessions
  /\ Patient \subseteq Reqs
ASSUME UuidAssumption ==
  /\ Uuid \in [Reqs -> Tasks]
  /\ \A r, q \in Reqs : Uuid[r] = Uuid[q] => r = q

VARIABLES
  page,    \* [Reqs -> what the window shows; "pending": a request is under way]
  form,    \* [Reqs -> the MessageId in the form of that page, or Nil]
  taken    \* [Workers -> the tasks handed to the worker since it was made]

browser == <<page, form>>
owaVars == <<vars, browser, taken>>

WithForm == {"wait", "break"}

OwaInit ==
  /\ Init
  /\ page = [r \in Reqs |-> "blank"]
  /\ form = [r \in Reqs |-> Nil]
  /\ taken = [w \in Workers |-> {}]

-----------------------------------------------------------------------------
(* The windows.                                                             *)

\* FormValue("MessageId"), or a new identifier if the request has none.
makeTaskID(r) == IF form[r] = Nil THEN Uuid[r] ELSE form[r]

\* The window sends its request, or posts the form of the page it shows.
Post(r) ==
  /\ page[r] \in WithForm \cup {"blank"}
  /\ page' = [page EXCEPT ![r] = "pending"]
  /\ CallRun(r, makeHandlerID(Client[r]), makeTaskID(r))
  /\ UNCHANGED <<form, taken>>

\* Mutant: the task stays with the window that has given it up.
break_session_KeepForm(r) ==
  /\ page[r] \in WithForm \cup {"blank"}
  /\ page' = [page EXCEPT ![r] = "pending"]
  /\ CallBreak(r, makeHandlerID(Client[r]))
  /\ UNCHANGED <<form, taken>>

\* The window calls break_session instead.
break_session(r) ==
  /\ page[r] \in WithForm \cup {"blank"}
  /\ page' = [page EXCEPT ![r] = "pending"]
  /\ form' = [form EXCEPT ![r] = Nil]
  /\ CallBreak(r, makeHandlerID(Client[r]))
  /\ UNCHANGED taken

-----------------------------------------------------------------------------
(* The handler.                                                             *)

\* A page without a form, or one made by makeWaitForm, which repeats the
\* MessageId.  Windows that are not patient are closed.
Show(r, p) ==
  LET q == IF r \in Patient THEN p ELSE "done"
  IN  /\ page' = [page EXCEPT ![r] = q]
      /\ form' = [form EXCEPT ![r] = IF q \in WithForm THEN rtask[r] ELSE Nil]

\* No user, or getConnectionParams knows none: 401 before otasker is called.
Unauthorized(r) ==
  /\ page[r] = "blank"
  /\ Show(r, "done")
  /\ UNCHANGED <<vars, taken>>

\* The switch on res.StatusCode after Run, and the answer after Break.
Respond(r) ==
  /\ \/ WaitPage(r) /\ Show(r, "wait")
     \/ BreakPage(r) /\ Show(r, "break")
     \/ Delete(r) /\ Show(r, "done")
     \/ (BreakMissing(r) \/ BreakFree(r) \/ BreakReturn(r)) /\ Show(r, "done")
  /\ UNCHANGED taken

\* The steps inside Run and Break that the window does not see ...
Inside(r) ==
  /\ \/ Lookup(r) \/ CheckOut(r) \/ TakeSignal(r) \/ Recv(r)
     \/ \E c \in Chans : Register(r, c)
     \/ BreakFound(r) \/ BreakBusy(r)
  /\ UNCHANGED <<browser, taken>>

\* ... and the two that the history variable taken records.
NewWorker(r, w) ==
  /\ Create(r, w)
  /\ taken' = [taken EXCEPT ![w] = {}]
  /\ UNCHANGED browser

HandOver(r) ==
  /\ Send(r)
  /\ taken' = [taken EXCEPT ![rw[r]] = @ \cup {rtask[r]}]
  /\ UNCHANGED browser

Handler(r) ==
  Respond(r) \/ Inside(r) \/ HandOver(r) \/ \E w \in Workers : NewWorker(r, w)

Listener(w) == ListenStep(w) /\ UNCHANGED <<browser, taken>>

OwaNext ==
  \/ \E r \in Reqs : Post(r) \/ break_session(r) \/ Unauthorized(r) \/ Handler(r)
  \/ \E w \in Workers : Listener(w)

OwaSpec == OwaInit /\ [][OwaNext]_owaVars

\* Goroutines run, timers fire, tasks end, and a page with a form is not left
\* lying (the templates' scripts post it).  A select whose token or result is
\* ready again and again is not beaten by its time-out for ever.
OwaFairSpec ==
  /\ OwaSpec
  /\ \A r \in Reqs : WF_owaVars(Handler(r))
  /\ \A r \in Patient :
       /\ WF_owaVars(page[r] \in WithForm /\ (Post(r) \/ break_session(r)))
       /\ SF_owaVars((TakeSignal(r) \/ Recv(r)) /\ Inside(r))
  /\ \A w \in Workers : WF_owaVars(Listener(w))

-----------------------------------------------------------------------------
(* Properties.                                                              *)

\* A window waits exactly while its handler is in Run or Break, and a form is
\* there exactly with the pages that makeWaitForm makes, or while the posted
\* form is being served.
OwaTypeOK ==
  /\ page \in [Reqs -> WithForm \cup {"blank", "pending", "done"}]
  /\ form \in [Reqs -> Tasks \cup {Nil}]
  /\ taken \in [Workers -> SUBSET Tasks]
  /\ \A r \in Reqs :
       /\ page[r] = "pending" <=> rpc[r] # "idle"
       /\ page[r] \in WithForm => form[r] # Nil
       /\ form[r] # Nil => page[r] \in WithForm \/ rtask[r] = form[r]

\* However often a window polls, and whatever others do in the same session, a
\* worker is never handed the same task twice: as long as the worker lives, the
\* poll finds the channel of its task.  (Another worker may get it again: when
\* the first one ended or was replaced, the request is executed anew.)
NoWorkerRepeats ==
  [][\A r \in Reqs : HandOver(r) => rtask[r] \notin taken[rw[r]]]_owaVars

\* A worker ends on its own, or because its task was interrupted.
Lost == \E w \in Workers : IdleTimeout(w) \/ Execute(w, "interrupted")

\* A window that keeps polling gets its answer in the end, through lost tokens,
\* replaced workers and repeated time-outs, unless workers go on being lost for
\* ever or its handler is stranded in the hand-over.
AnswerArrives ==
  \/ []<><<Lost>>_owaVars
  \/ \A r \in Patient :
       page[r] \in WithForm \cup {"pending"}
         ~> page[r] = "done" \/ Stranded(r) \/ Exhausted(r)
=============================================================================
