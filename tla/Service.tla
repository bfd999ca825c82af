------------------------------ MODULE Service -------------------------------
(***************************************************************************)
(* What package otasker promises the HTTP handlers that call Run, without  *)
(* workers' mailboxes, tokens and registry: an abstract specification that *)
(* module Worker implements.                                               *)
(*                                                                         *)
(* A call asks for a task of a session.  It may set off one execution of   *)
(* that task, or wait for one that another call has set off.  The result   *)
(* of an execution is kept in a slot or lost.  A slot is emptied by the    *)
(* one call that takes the result as its answer, or because nobody waits   *)
(* there.  A call may give up at any time (wait and break pages) and be    *)
(* repeated later.                                                         *)
(***************************************************************************)
CONSTANTS
  Reqs,      \* callers
  Sessions,
  Tasks,
  Workers,   \* each executes one task at a time
  Chans,     \* slots for results
  Nil

Codes   == {"done", "interrupted"}
Works   == [sess : Sessions, task : Tasks]
Results == [sess : Sessions, task : Tasks, code : Codes]

VARIABLES
  stage,     \* [Reqs -> "idle", "asked", "waiting" or "answered"]
  call,      \* [Reqs -> what the call asks for, or Nil]
  slot,      \* [Reqs -> the slot a waiting call looks at, or Nil]
  answer,    \* [Reqs -> the result the call returns, or Nil]
  executing, \* [Workers -> the work under way, or Nil]
  store      \* [Chans -> a result nobody has taken yet, or Nil]

caller == <<stage, call, slot, answer>>
vars   == <<caller, executing, store>>

Init ==
  /\ stage = [r \in Reqs |-> "idle"]
  /\ call = [r \in Reqs |-> Nil]
  /\ slot = [r \in Reqs |-> Nil]
  /\ answer = [r \in Reqs |-> Nil]
  /\ executing = [w \in Workers |-> Nil]
  /\ store = [c \in Chans |-> Nil]

\* Results are dropped from slots at which no call waits.
Drop ==
  /\ store' \in [Chans -> Results \cup {Nil}]
  /\ \A c \in Chans :
       \/ store'[c] = store[c]
       \/ store'[c] = Nil /\ \A r \in Reqs : slot'[r] # c

Ask(r, s, t) ==
  /\ stage[r] = "idle"
  /\ stage' = [stage EXCEPT ![r] = "asked"]
  /\ call' = [call EXCEPT ![r] = [sess |-> s, task |-> t]]
  /\ UNCHANGED <<slot, answer, executing, store>>

\* The call waits at slot c from now on ...
Wait(r, c) ==
  /\ stage[r] = "asked"
  /\ stage' = [stage EXCEPT ![r] = "waiting"]
  /\ slot' = [slot EXCEPT ![r] = c]
  /\ UNCHANGED <<call, answer, store>>

\* ... for the result of an execution that it sets off itself ...
Begin(r, c, w) ==
  /\ Wait(r, c)
  /\ executing[w] = Nil
  /\ executing' = [executing EXCEPT ![w] = call[r]]

\* ... or for what has been set off before.
Join(r, c) == Wait(r, c) /\ UNCHANGED executing

End(w, code) ==
  /\ executing[w] # Nil
  /\ executing' = [executing EXCEPT ![w] = Nil]
  /\ \/ store' = store
     \/ \E c \in Chans :
          /\ store[c] = Nil
          /\ store' = [store EXCEPT ![c] =
                         [sess |-> executing[w].sess,
                          task |-> executing[w].task, code |-> code]]
  /\ UNCHANGED caller

\* A call takes the result it waits for, and nobody else gets that one.
Answer(r) ==
  /\ stage[r] = "waiting"
  /\ LET res == store[slot[r]]
     IN  /\ res # Nil
         /\ res.sess = call[r].sess /\ res.task = call[r].task
         /\ answer' = [answer EXCEPT ![r] = res]
  /\ store' = [store EXCEPT ![slot[r]] = Nil]
  /\ stage' = [stage EXCEPT ![r] = "answered"]
  /\ slot' = [slot EXCEPT ![r] = Nil]
  /\ UNCHANGED <<call, executing>>

\* A call returns, with its answer or with a wait or break page.
Return(r) ==
  /\ stage[r] # "idle"
  /\ stage' = [stage EXCEPT ![r] = "idle"]
  /\ call' = [call EXCEPT ![r] = Nil]
  /\ slot' = [slot EXCEPT ![r] = Nil]
  /\ answer' = [answer EXCEPT ![r] = Nil]
  /\ Drop
  /\ UNCHANGED executing

Forget == Drop /\ UNCHANGED <<caller, executing>>

Next ==
  \/ \E r \in Reqs :
       \/ \E s \in Sessions, t \in Tasks : Ask(r, s, t)
       \/ \E c \in Chans, w \in Workers : Begin(r, c, w)
       \/ \E c \in Chans : Join(r, c)
       \/ Answer(r)
       \/ Return(r)
  \/ \E w \in Workers, code \in Codes : End(w, code)
  \/ Forget

Spec == Init /\ [][Next]_vars
=============================================================================
