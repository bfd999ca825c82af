---------------------------- MODULE TaskerProofs ----------------------------
(***************************************************************************)
(* Proofs about module Tasker: Run never panics, no Oracle session leaks,  *)
(* Break kills with matching arguments, and a finished Run leaves neither  *)
(* a broken connection nor an open step, for any number of Breaks, users,  *)
(* Oracle sessions, uploaded files and chunks.                             *)
(***************************************************************************)
EXTENDS Tasker, TLAPS

\* Where Run is between the openStep and the closeStep of each step.
OpenAt ==
  [connect    |-> {"newconn", "setcred", "eval", "evalclr", "evalcall",
                   "evalend", "connend"},
   evalSid    |-> {"evalclr", "evalcall", "evalend"},
   describe   |-> {"desccall", "descend"},
   saveFile   |-> {"savecall", "saveend"},
   run        |-> {"save", "savecall", "saveend", "bind", "exec", "result",
                   "chunk", "chunkend", "runend"},
   chunk      |-> {"chunk", "chunkend"},
   disconnect |-> {"discclose", "disclog"}]

\* logSteps has an open step exactly there.
LogInv == \A k \in Steps : logSteps[k] = "open" <=> pc \in OpenAt[k]

\* disconnect is called from connect and after an error; getRestChunks goes on
\* only while there are chunks.
FlowInv ==
  /\ pc \in {"disc", "discclose", "disclog", "discnil"} => ret \in {"login", "fail"}
  /\ pc = "chunk" => todo > 0

\* What r.conn is at each point of Run.
ConnInv ==
  /\ pc \in {"discclose", "setcred", "eval", "evalclr", "evalcall", "evalend",
             "work", "desccall", "descend", "runproc", "save", "savecall",
             "saveend", "bind", "exec", "result", "chunk", "chunkend", "runend"}
       => conn \in Sids
  /\ pc \in {"disclog", "discnil"} => conn = Unconnected
  /\ pc \in {"login", "newconn", "fail"} => conn = Nil
  /\ pc \in {"idle", "connect", "finish", "exit"} => conn # Unconnected
  /\ pc \in {"idle", "finish", "exit"} /\ err # "none" => conn = Nil
  /\ pc = "connend" /\ err = "none" => conn \in Sids
  /\ pc # "panic"

\* mt is held by the one Break that is under way, and only killSession has
\* arguments.
MtInv ==
  \A b \in Breakers :
    /\ bpc[b] # "idle" <=> mt = b
    /\ bpc[b] = "kill" <=> bsid[b] # Nil

\* connUserName and connStr are those of the connection, except between the
\* logon and their assignment; a session identifier belongs to them and to this
\* connection, or to one that is closed already.
FieldInv ==
  /\ conn = Nil => connCred = Nil /\ sessID = Nil
  /\ pc \in {"setcred", "eval", "evalclr", "evalcall"} => sessID = Nil
  /\ pc = "setcred" => dbCred[conn] = cred
  /\ conn \in Sids /\ pc # "setcred" => dbCred[conn] = connCred
  /\ sessID # Nil =>
       /\ dbCred[sessID] = connCred
       /\ conn = sessID \/ db[sessID] = "none"

IInv ==
  /\ TypeOK /\ FlowInv /\ ConnInv /\ MtInv /\ FieldInv /\ LogInv
  /\ OneSession /\ KillConsistent

-----------------------------------------------------------------------------
(* The steps of Run, grouped: those that leave the connection, the database  *)
(* and the Breaks alone, and the others.                                     *)

QuietConnect ==
  \/ Reuse \/ Reconnect \/ DiscNone \/ DiscOpen \/ DiscFree \/ DiscLog \/ Login
  \/ EvalOpen \/ EvalFails \/ EvalEnd \/ ConnEnd

QuietSave ==
  \/ DescOpen \/ DescOk \/ DescFails \/ DescEnd \/ RunOpen \/ SaveOpen \/ SaveSkip
  \/ FileFails \/ SaveOk \/ SaveFails \/ SaveNoName \/ SaveEnd \/ Saved

QuietExec ==
  \/ BindFails \/ Bind \/ ExecOk \/ ExecFails \/ ResultFails \/ ResultComplete
  \/ ChunkOpen \/ ChunkOk \/ ChunkFails \/ ChunkEnd \/ RunEnd \/ DumpError \/ Fail
  \/ Finish

Quiet == QuietConnect \/ QuietSave \/ QuietExec \/ \E c \in Creds : Begin(c)

\* DiscClose, DiscNil and the logon change what the tasker knows of its session.
Loud ==
  \/ DiscClose \/ DiscNil \/ LogonFails \/ SetCred \/ EvalClear \/ EvalOk
  \/ \E s \in Sids : LogonOk(s)

Breaking == \E b \in Breakers : BreakCall(b) \/ BreakStep(b)

\* There are no other steps.
LEMMA Cases == Next => Quiet \/ Loud \/ CloseAndFree \/ Breaking
  BY DEF Next, RunStep, Quiet, QuietConnect, QuietSave, QuietExec, Loud, Breaking

USE DEF OpenStep, CloseStep, Section, Goto, CallOk, CallFails, BreakReturn,
        IsConnected, fields, locals, oracle, breaks, history

\* A quiet step lets Breaks see nothing but the log and stateIsWorking change.
LEMMA QuietFrame ==
  ASSUME Quiet
  PROVE  UNCHANGED <<mt, fields, oracle, breaks>>
<1>1. CASE QuietConnect
  BY <1>1 DEF QuietConnect, Reuse, Reconnect, DiscNone, DiscOpen, DiscFree, DiscLog,
              Login, EvalOpen, EvalFails, EvalEnd, ConnEnd
<1>2. CASE QuietSave
  BY <1>2 DEF QuietSave, DescOpen, DescOk, DescFails, DescEnd, RunOpen, SaveOpen,
              SaveSkip, FileFails, SaveOk, SaveFails, SaveNoName, SaveEnd, Saved
<1>3. CASE QuietExec
  BY <1>3 DEF QuietExec, BindFails, Bind, ExecOk, ExecFails, ResultFails,
              ResultComplete, ChunkOpen, ChunkOk, ChunkFails, ChunkEnd, RunEnd,
              DumpError, Fail, Finish
<1>4. CASE \E c \in Creds : Begin(c)
  BY <1>4 DEF Begin
<1> QED
  BY <1>1, <1>2, <1>3, <1>4 DEF Quiet

\* A Break changes nothing that Run works with, but for the state of a session
\* that it kills.
LEMMA BreakFrame ==
  ASSUME Breaking
  PROVE  UNCHANGED <<pc, fields, locals, logSteps, stateIsWorking, dbCred, failed>>
  BY DEF Breaking, BreakStep, BreakCall, BreakNothing, BreakCheck, BreakNoSession,
         BreakKill, KillSession

\* How disconnect returns, and the loop of getRestChunks.
LEMMA FlowStep ==
  ASSUME TypeOK, FlowInv, [Next]_vars
  PROVE  FlowInv'
<1> USE DEF TypeOK, FlowInv, PCs
<1>1. CASE QuietConnect
  BY <1>1 DEF QuietConnect, Reuse, Reconnect, DiscNone, DiscOpen, DiscFree, DiscLog,
              Login, EvalOpen, EvalFails, EvalEnd, ConnEnd
<1>2. CASE QuietSave
  BY <1>2 DEF QuietSave, DescOpen, DescOk, DescFails, DescEnd, RunOpen, SaveOpen,
              SaveSkip, FileFails, SaveOk, SaveFails, SaveNoName, SaveEnd, Saved
<1>3. CASE QuietExec
  <2>1. CASE ChunkOpen \/ ChunkOk
    BY <2>1, TaskerConstants DEF ChunkOpen, ChunkOk
  <2>2. CASE ~(ChunkOpen \/ ChunkOk)
    BY <1>3, <2>2 DEF QuietExec, BindFails, Bind, ExecOk, ExecFails, ResultFails,
                ResultComplete, ChunkFails, ChunkEnd, RunEnd, DumpError, Fail, Finish
  <2> QED
    BY <2>1, <2>2
<1>4. CASE \E c \in Creds : Begin(c)
  BY <1>4 DEF Begin
<1>5. CASE Loud
  BY <1>5 DEF Loud, DiscClose, DiscNil, LogonFails, SetCred, EvalClear, EvalOk, LogonOk
<1>6. CASE CloseAndFree
  BY <1>6 DEF CloseAndFree
<1>7. CASE Breaking
  BY <1>7, BreakFrame
<1>8. CASE UNCHANGED vars
  BY <1>8 DEF vars
<1> QED
  BY <1>1, <1>2, <1>3, <1>4, <1>5, <1>6, <1>7, <1>8, Cases DEF Quiet

\* connect, disconnect and the error paths leave r.conn as the next point of Run
\* expects it.
LEMMA ConnStep ==
  ASSUME TypeOK, FlowInv, ConnInv, [Next]_vars
  PROVE  ConnInv'
<1> USE DEF TypeOK, FlowInv, ConnInv, PCs
<1>1. CASE QuietConnect
  BY <1>1 DEF QuietConnect, Reuse, Reconnect, DiscNone, DiscOpen, DiscFree, DiscLog,
              Login, EvalOpen, EvalFails, EvalEnd, ConnEnd
<1>2. CASE QuietSave
  BY <1>2 DEF QuietSave, DescOpen, DescOk, DescFails, DescEnd, RunOpen, SaveOpen,
              SaveSkip, FileFails, SaveOk, SaveFails, SaveNoName, SaveEnd, Saved
<1>3. CASE QuietExec
  BY <1>3, TaskerConstants DEF QuietExec, BindFails, Bind, ExecOk, ExecFails, ResultFails,
              ResultComplete, ChunkOpen, ChunkOk, ChunkFails, ChunkEnd, RunEnd,
              DumpError, Fail, Finish
<1>4. CASE \E c \in Creds : Begin(c)
  BY <1>4 DEF Begin
<1>5. CASE Loud
  BY <1>5, TaskerConstants
  DEF Loud, DiscClose, DiscNil, LogonFails, SetCred, EvalClear, EvalOk, LogonOk
<1>6. CASE CloseAndFree
  BY <1>6, TaskerConstants DEF CloseAndFree
<1>7. CASE Breaking
  BY <1>7, BreakFrame
<1>8. CASE UNCHANGED vars
  BY <1>8 DEF vars
<1> QED
  BY <1>1, <1>2, <1>3, <1>4, <1>5, <1>6, <1>7, <1>8, Cases DEF Quiet

\* Steps are opened and closed in pairs.
LEMMA LogStep ==
  ASSUME TypeOK, FlowInv, ConnInv, LogInv, [Next]_vars
  PROVE  LogInv'
<1> USE DEF TypeOK, FlowInv, ConnInv, LogInv, Steps, OpenAt, PCs
<1>1. CASE QuietConnect
  BY <1>1 DEF QuietConnect, Reuse, Reconnect, DiscNone, DiscOpen, DiscFree, DiscLog,
              Login, EvalOpen, EvalFails, EvalEnd, ConnEnd
<1>2. CASE QuietSave
  BY <1>2 DEF QuietSave, DescOpen, DescOk, DescFails, DescEnd, RunOpen, SaveOpen,
              SaveSkip, FileFails, SaveOk, SaveFails, SaveNoName, SaveEnd, Saved
<1>3. CASE QuietExec
  BY <1>3 DEF QuietExec, BindFails, Bind, ExecOk, ExecFails, ResultFails,
              ResultComplete, ChunkOpen, ChunkOk, ChunkFails, ChunkEnd, RunEnd,
              DumpError, Fail, Finish
<1>4. CASE \E c \in Creds : Begin(c)
  BY <1>4 DEF Begin, EmptyLog
<1>5. CASE Loud
  BY <1>5 DEF Loud, DiscClose, DiscNil, LogonFails, SetCred, EvalClear, EvalOk, LogonOk
<1>6. CASE CloseAndFree
  BY <1>6 DEF CloseAndFree, EmptyLog
<1>7. CASE Breaking
  BY <1>7, BreakFrame
<1>8. CASE UNCHANGED vars
  BY <1>8 DEF vars
<1> QED
  BY <1>1, <1>2, <1>3, <1>4, <1>5, <1>6, <1>7, <1>8, Cases DEF Quiet

\* The three flags.
LEMMA FlagStep ==
  ASSUME TypeOK, [Next]_vars
  PROVE  stateIsWorking' \in BOOLEAN /\ broken' \in BOOLEAN /\ failed' \in BOOLEAN
<1> DEFINE Flag(new, old) == new = old \/ new = TRUE \/ new = FALSE
<1>1. /\ Flag(stateIsWorking', stateIsWorking)
      /\ Flag(broken', broken) /\ Flag(failed', failed)
  <2>1. CASE QuietConnect
    BY <2>1 DEF QuietConnect, Reuse, Reconnect, DiscNone, DiscOpen, DiscFree, DiscLog,
                Login, EvalOpen, EvalFails, EvalEnd, ConnEnd
  <2>2. CASE QuietSave
    BY <2>2 DEF QuietSave, DescOpen, DescOk, DescFails, DescEnd, RunOpen, SaveOpen,
                SaveSkip, FileFails, SaveOk, SaveFails, SaveNoName, SaveEnd, Saved
  <2>3. CASE QuietExec
    BY <2>3 DEF QuietExec, BindFails, Bind, ExecOk, ExecFails, ResultFails,
                ResultComplete, ChunkOpen, ChunkOk, ChunkFails, ChunkEnd, RunEnd,
                DumpError, Fail, Finish
  <2>4. CASE \E c \in Creds : Begin(c)
    BY <2>4 DEF Begin
  <2>5. CASE Loud
    BY <2>5 DEF Loud, DiscClose, DiscNil, LogonFails, SetCred, EvalClear, EvalOk, LogonOk
  <2>6. CASE CloseAndFree
    BY <2>6 DEF CloseAndFree
  <2>7. CASE Breaking
    BY <2>7 DEF Breaking, BreakStep, BreakCall, BreakNothing, BreakCheck,
                BreakNoSession, BreakKill, KillSession
  <2>8. CASE UNCHANGED vars
    BY <2>8 DEF vars
  <2> QED
    BY <2>1, <2>2, <2>3, <2>4, <2>5, <2>6, <2>7, <2>8, Cases DEF Quiet
<1> QED
  BY <1>1, Zenon DEF TypeOK

\* Every step of Run, CloseAndFree and Break keeps the variables in their types.
LEMMA TypeStep ==
  ASSUME TypeOK, FlowInv, ConnInv, MtInv, [Next]_vars
  PROVE  TypeOK'
<1> USE TaskerConstants, FlagStep DEF TypeOK, FlowInv, ConnInv, Errors, CallError, PCs
<1>1. CASE QuietConnect
  BY <1>1 DEF QuietConnect, Reuse, Reconnect, DiscNone, DiscOpen, DiscFree, DiscLog,
              Login, EvalOpen, EvalFails, EvalEnd, ConnEnd
<1>2. CASE QuietSave
  BY <1>2 DEF QuietSave, DescOpen, DescOk, DescFails, DescEnd, RunOpen, SaveOpen,
              SaveSkip, FileFails, SaveOk, SaveFails, SaveNoName, SaveEnd, Saved
<1>3. CASE QuietExec
  BY <1>3 DEF QuietExec, BindFails, Bind, ExecOk, ExecFails, ResultFails,
              ResultComplete, ChunkOpen, ChunkOk, ChunkFails, ChunkEnd, RunEnd,
              DumpError, Fail, Finish
<1>4. CASE \E c \in Creds : Begin(c)
  BY <1>4 DEF Begin, EmptyLog, Steps
<1>5. CASE Loud
  BY <1>5 DEF Loud, DiscClose, DiscNil, LogonFails, SetCred, EvalClear, EvalOk, LogonOk
<1>6. CASE CloseAndFree
  BY <1>6 DEF CloseAndFree, EmptyLog, Steps
<1>7. ASSUME NEW b \in Breakers, BreakCall(b) \/ BreakStep(b) PROVE TypeOK'
  <2>1. CASE BreakCall(b) \/ BreakNothing(b) \/ BreakCheck(b) \/ BreakNoSession(b)
    BY <2>1 DEF BreakCall, BreakNothing, BreakCheck, BreakNoSession
  <2>2. CASE BreakKill(b)
    BY <2>2 DEF BreakKill
  <2>3. CASE KillSession(b)
    BY <2>3 DEF KillSession
  <2> QED
    BY <1>7, <2>1, <2>2, <2>3 DEF BreakStep
<1>8. CASE UNCHANGED vars
  BY <1>8 DEF vars
<1> QED
  BY <1>1, <1>2, <1>3, <1>4, <1>5, <1>6, <1>7, <1>8, Cases DEF Quiet, Breaking

\* The mutex: a Break releases it on every path.
LEMMA MtStep ==
  ASSUME TypeOK, MtInv, [Next]_vars
  PROVE  MtInv'
<1> USE DEF MtInv
<1>1. CASE Quiet
  BY <1>1, QuietFrame
<1>2. CASE Loud
  BY <1>2 DEF Loud, DiscClose, DiscNil, LogonFails, SetCred, EvalClear, EvalOk, LogonOk
<1>3. CASE CloseAndFree
  BY <1>3 DEF CloseAndFree
<1>4. ASSUME NEW b \in Breakers, BreakCall(b) \/ BreakStep(b) PROVE MtInv'
  <2> USE TaskerConstants DEF TypeOK
  <2>1. CASE BreakCall(b) \/ BreakNothing(b) \/ BreakCheck(b) \/ BreakNoSession(b)
    BY <2>1 DEF BreakCall, BreakNothing, BreakCheck, BreakNoSession
  <2>2. CASE BreakKill(b)
    BY <2>2 DEF BreakKill
  <2>3. CASE KillSession(b)
    BY <2>3 DEF KillSession
  <2> QED
    BY <1>4, <2>1, <2>2, <2>3 DEF BreakStep
<1>5. CASE UNCHANGED vars
  BY <1>5 DEF vars
<1> QED
  BY <1>1, <1>2, <1>3, <1>4, <1>5, Cases DEF Breaking

\* A logon finds no session of this tasker, a connection is closed before it is
\* forgotten.
LEMMA SessionStep ==
  ASSUME TypeOK, ConnInv, MtInv, KillConsistent, OneSession, [Next]_vars
  PROVE  OneSession'
<1> USE DEF OneSession, TypeOK
<1>1. CASE Quiet
  BY <1>1, QuietFrame
<1>2. CASE Loud
  BY <1>2, TaskerConstants
  DEF Loud, DiscClose, DiscNil, LogonFails, SetCred, EvalClear, EvalOk, LogonOk, ConnInv
<1>3. CASE CloseAndFree
  BY <1>3, TaskerConstants DEF CloseAndFree
<1>4. CASE Breaking
  <2>1. conn' = conn
    BY <1>4, BreakFrame
  <2>2. \A s \in Sids : db'[s] # "none" => db[s] # "none"
    BY <1>4 DEF Breaking, BreakStep, BreakCall, BreakNothing, BreakCheck,
                BreakNoSession, BreakKill, KillSession
  <2> QED
    BY <2>1, <2>2
<1>5. CASE UNCHANGED vars
  BY <1>5 DEF vars
<1> QED
  BY <1>1, <1>2, <1>3, <1>4, <1>5, Cases

\* The fields that Break reads.
LEMMA FieldStep ==
  ASSUME TypeOK, FlowInv, ConnInv, MtInv, OneSession, FieldInv, [Next]_vars
  PROVE  FieldInv'
<1> USE DEF FieldInv, TypeOK, OneSession
<1>1. CASE Quiet
  <2>1. UNCHANGED <<mt, fields, oracle, breaks>>
    BY <1>1, QuietFrame
  <2>2. /\ pc # "setcred"
        /\ pc' \in {"setcred", "eval", "evalclr", "evalcall"} =>
             pc' = "evalclr" /\ pc = "eval"
    <3> USE DEF FlowInv
    <3>1. CASE QuietConnect
      BY <3>1 DEF QuietConnect, Reuse, Reconnect, DiscNone, DiscOpen, DiscFree,
                  DiscLog, Login, EvalOpen, EvalFails, EvalEnd, ConnEnd
    <3>2. CASE QuietSave
      BY <3>2 DEF QuietSave, DescOpen, DescOk, DescFails, DescEnd, RunOpen, SaveOpen,
                  SaveSkip, FileFails, SaveOk, SaveFails, SaveNoName, SaveEnd, Saved
    <3>3. CASE QuietExec
      BY <3>3 DEF QuietExec, BindFails, Bind, ExecOk, ExecFails, ResultFails,
                  ResultComplete, ChunkOpen, ChunkOk, ChunkFails, ChunkEnd, RunEnd,
                  DumpError, Fail, Finish
    <3>4. CASE \E c \in Creds : Begin(c)
      BY <3>4 DEF Begin
    <3> QED
      BY <1>1, <3>1, <3>2, <3>3, <3>4 DEF Quiet
  <2> QED
    BY <2>1, <2>2
<1>2. CASE Loud
  <2> USE TaskerConstants DEF ConnInv
  <2>1. CASE DiscClose \/ DiscNil
    BY <2>1 DEF DiscClose, DiscNil, FlowInv
  <2>2. CASE LogonFails \/ SetCred \/ EvalClear \/ EvalOk
    BY <2>2 DEF LogonFails, SetCred, EvalClear, EvalOk
  <2>3. CASE \E s \in Sids : LogonOk(s)
    BY <2>3 DEF LogonOk
  <2> QED
    BY <1>2, <2>1, <2>2, <2>3 DEF Loud
<1>3. CASE CloseAndFree
  BY <1>3, TaskerConstants DEF CloseAndFree, ConnInv
<1>4. CASE Breaking
  <2>1. UNCHANGED <<pc, fields, dbCred, cred>>
    BY <1>4, BreakFrame
  <2>2. \A s \in Sids : db[s] = "none" => db'[s] = "none"
    BY <1>4 DEF Breaking, BreakStep, BreakCall, BreakNothing, BreakCheck,
                BreakNoSession, BreakKill, KillSession
  <2> QED
    BY <2>1, <2>2
<1>5. CASE UNCHANGED vars
  BY <1>5 DEF vars
<1> QED
  BY <1>1, <1>2, <1>3, <1>4, <1>5, Cases

\* While killSession runs, mt keeps Run from forgetting the session, and a logon
\* gets another one.
LEMMA KillStep ==
  ASSUME TypeOK, ConnInv, MtInv, OneSession, FieldInv, KillConsistent, [Next]_vars
  PROVE  KillConsistent'
<1> USE DEF KillConsistent
<1>1. CASE Quiet
  BY <1>1, QuietFrame
<1>2. CASE Loud
  <2> USE TaskerConstants DEF TypeOK, MtInv, OneSession, ConnInv
  <2>1. CASE DiscClose \/ LogonFails
    BY <2>1 DEF DiscClose, LogonFails
  <2>2. CASE DiscNil
    BY <2>2 DEF DiscNil
  <2>3. CASE SetCred \/ EvalClear \/ EvalOk
    BY <2>3 DEF SetCred, EvalClear, EvalOk
  <2>4. ASSUME NEW s \in Sids, LogonOk(s) PROVE KillConsistent'
    BY <2>4 DEF LogonOk
  <2> QED
    BY <1>2, <2>1, <2>2, <2>3, <2>4 DEF Loud
<1>3. CASE CloseAndFree
  BY <1>3 DEF CloseAndFree, TypeOK, MtInv
<1>4. ASSUME NEW b \in Breakers, BreakCall(b) \/ BreakStep(b) PROVE KillConsistent'
  <2>1. UNCHANGED <<fields, dbCred>>
    BY <1>4, BreakFrame DEF Breaking
  <2>2. CASE BreakCall(b) \/ BreakNothing(b) \/ BreakCheck(b) \/ BreakNoSession(b)
    BY <2>1, <2>2 DEF BreakCall, BreakNothing, BreakCheck, BreakNoSession, TypeOK
  <2>3. CASE BreakKill(b)
    BY <2>1, <2>3 DEF BreakKill, FieldInv, TypeOK
  <2>4. CASE KillSession(b)
    BY <2>1, <2>4, TaskerConstants DEF KillSession, MtInv, TypeOK
  <2> QED
    BY <1>4, <2>2, <2>3, <2>4 DEF BreakStep
<1>5. CASE UNCHANGED vars
  BY <1>5 DEF vars
<1> QED
  BY <1>1, <1>2, <1>3, <1>4, <1>5, Cases DEF Breaking

-----------------------------------------------------------------------------
(* The theorems.                                                            *)

\* A new tasker has no connection and no steps.
LEMMA InitIInv == Init => IInv
<1> SUFFICES ASSUME Init PROVE IInv
  OBVIOUS
<1>0. stateIsWorking \in BOOLEAN /\ broken \in BOOLEAN /\ failed \in BOOLEAN
  BY Zenon DEF Init
<1>1. TypeOK
  BY <1>0, TaskerConstants DEF Init, TypeOK, EmptyLog, Steps, PCs, Errors
<1>2. FlowInv /\ ConnInv /\ MtInv
  BY TaskerConstants DEF Init, FlowInv, ConnInv, MtInv
<1>3. FieldInv /\ OneSession /\ KillConsistent
  BY TaskerConstants DEF Init, FieldInv, OneSession, KillConsistent
<1>4. LogInv
  BY DEF Init, LogInv, EmptyLog, Steps, OpenAt
<1> QED
  BY <1>1, <1>2, <1>3, <1>4 DEF IInv

\* Every step keeps the inductive invariant.
LEMMA NextIInv == IInv /\ [Next]_vars => IInv'
<1> SUFFICES ASSUME IInv, [Next]_vars PROVE IInv'
  OBVIOUS
<1>1. TypeOK' /\ FlowInv' /\ ConnInv' /\ MtInv'
  BY TypeStep, FlowStep, ConnStep, MtStep DEF IInv
<1>2. FieldInv' /\ LogInv' /\ OneSession' /\ KillConsistent'
  BY FieldStep, LogStep, SessionStep, KillStep DEF IInv
<1> QED
  BY <1>1, <1>2 DEF IInv

\* The inductive invariant holds in every reachable state of a tasker, whatever
\* fails and whenever Break is called.
THEOREM Invariance == Spec => []IInv
<1> QED
  BY InitIInv, NextIInv, PTL DEF Spec

\* Every field of the tasker, every local of Run and Break keeps its type; in
\* particular one Break at a time holds mt.
THEOREM TypeCorrect == Spec => []TypeOK
<1>1. IInv => TypeOK
  BY DEF IInv
<1> QED
  BY <1>1, Invariance, PTL

\* Run does not reach the panic of connect, and closeStep finds the step that
\* openStep stored, on every error path.
THEOREM Panics == Spec => []NeverPanics
<1>1. IInv => NeverPanics
  BY DEF IInv, ConnInv, LogInv, NeverPanics, Closing, OpenAt, Steps
<1> QED
  BY <1>1, Invariance, PTL

\* Run, CloseAndFree and failed logons never leave an Oracle session behind.
THEOREM NoSessionLeaks == Spec => []OneSession
<1>1. IInv => OneSession
  BY DEF IInv
<1> QED
  BY <1>1, Invariance, PTL

\* Break passes killSession the identifier and the credentials of one and the
\* same session of this tasker, although Run writes both without mt.
THEOREM KillsOwnSession == Spec => []KillConsistent
<1>1. IInv => KillConsistent
  BY DEF IInv
<1> QED
  BY <1>1, Invariance, PTL

\* A Run that has returned an error has no connection, and no step stays open.
THEOREM Rest == Spec => []AtRest
<1>1. IInv => AtRest
  BY DEF IInv, ConnInv, LogInv, AtRest, OpenAt, Steps
<1> QED
  BY <1>1, Invariance, PTL
=============================================================================
