------------------------------- MODULE Tasker -------------------------------
(***************************************************************************)
(* One oracleTasker (otasker/oratasker.go): the owner of an Oracle session. *)
(*                                                                         *)
(* The listener goroutine of a worker calls Run, one task after the other, *)
(* and CloseAndFree at its end; handlers call Break at any time.  Break and *)
(* the bookkeeping parts of Run exclude each other by the mutex mt, but Run *)
(* changes conn, the credentials and sessID outside of it while it logs in. *)
(* Break keeps mt while it kills the session over a connection of its own.  *)
(*                                                                         *)
(* A step is one section under mt, one call of the database or one          *)
(* assignment to a field that Break reads.  openStep and the setStepInfo    *)
(* that follows it, and setStepInfo and closeStep, are one section each:    *)
(* they only touch the step's entry in logSteps.  Statement texts, times    *)
(* and counters are left out.  The database is external: a call may fail,   *)
(* and it does fail with ORA-00028 once the session has been killed.        *)
(***************************************************************************)
EXTENDS Integers

CONSTANTS
  Breakers,  \* handlers that may call Break
  Creds,     \* (userName, userPass, connStr) of requests
  Sids,      \* Oracle session identifiers
  Nil,       \* nil pointer, empty string
  Unconnected, \* a *oracle.Connection without a session
  MaxParts   \* bound: files of one request, further chunks of one answer

ASSUME TaskerConstants ==
  /\ Nil \notin Breakers \cup Creds \cup Sids
  /\ Unconnected \notin Sids \cup {Nil}
  /\ MaxParts \in Nat

VARIABLES
  mt,       \* who holds the mutex: a breaker or Nil
  conn, connCred, sessID, stateIsWorking, logSteps, \* fields of oracleTasker
  pc,       \* where the listener goroutine is in Run
  ret,      \* where disconnect returns to
  cred,     \* arguments of Run
  err,      \* the error Run is returning with
  todo,     \* files to save, or chunks to fetch, still to come
  db,       \* [Sids -> state of the session in the database]
  dbCred,   \* [Sids -> who logged in]
  bpc,      \* [Breakers -> where Break is]
  bsid, bcred, \* [Breakers -> arguments of killSession]
  broken,   \* history: this Run's session was killed by a Break during the Run
  failed    \* history: a database call of this Run has failed

fields == <<conn, connCred, sessID>>
locals == <<ret, cred, err, todo>>
oracle == <<db, dbCred>>
breaks == <<bpc, bsid, bcred>>
history == <<broken, failed>>
vars == <<mt, fields, stateIsWorking, logSteps, pc, locals, oracle, breaks,
          history>>

Steps == {"connect", "evalSid", "describe", "saveFile", "run", "chunk",
          "disconnect"}

\* What packError tells apart here: ORA-00028/00031, and all the rest.
Errors == {"none", "ora", "interrupted"}

\* conn.IsConnected()
IsConnected == conn \in Sids

EmptyLog == [k \in Steps |-> "absent"]

Init ==
  /\ mt = Nil
  /\ conn = Nil /\ connCred = Nil /\ sessID = Nil
  /\ stateIsWorking = FALSE /\ logSteps = EmptyLog
  /\ pc = "idle" /\ ret = "idle" /\ cred = Nil /\ err = "none" /\ todo = 0
  /\ db = [s \in Sids |-> "none"] /\ dbCred = [s \in Sids |-> Nil]
  /\ bpc = [b \in Breakers |-> "idle"]
  /\ bsid = [b \in Breakers |-> Nil] /\ bcred = [b \in Breakers |-> Nil]
  /\ broken = FALSE /\ failed = FALSE

-----------------------------------------------------------------------------
(* Pieces of Run.                                                           *)

\* openStep and closeStep: sections under mt that take Run from one point to
\* another.
OpenStep(k, from, to) ==
  /\ pc = from /\ mt = Nil
  /\ logSteps' = [logSteps EXCEPT ![k] = "open"]
  /\ pc' = to
  /\ UNCHANGED <<mt, fields, stateIsWorking, oracle, breaks, history>>

CloseStep(k, from, to) ==
  /\ pc = from /\ mt = Nil
  /\ logSteps' = [logSteps EXCEPT ![k] = "closed"]
  /\ pc' = to
  /\ UNCHANGED <<mt, fields, stateIsWorking, oracle, breaks, history>>

\* A section under mt that only rewrites or reads texts of logSteps.
Section(from, to) ==
  /\ pc = from /\ mt = Nil
  /\ pc' = to
  /\ UNCHANGED <<mt, fields, stateIsWorking, logSteps, oracle, breaks, history>>

\* Control moves on; nothing Break could see changes.
Goto(from, to) ==
  /\ pc = from
  /\ pc' = to
  /\ UNCHANGED <<mt, fields, stateIsWorking, logSteps, oracle, breaks, history>>

\* A statement executed on r.conn succeeds, or returns an error.
CallOk(from, to) ==
  /\ pc = from
  /\ db[conn] = "alive"
  /\ pc' = to
  /\ UNCHANGED <<mt, connCred, conn, stateIsWorking, logSteps, oracle, breaks,
                 history>>

CallError == IF db[conn] = "killed" THEN "interrupted" ELSE "ora"

CallFails(from, to) ==
  /\ pc = from
  /\ failed' = TRUE
  /\ pc' = to
  /\ UNCHANGED <<mt, fields, stateIsWorking, logSteps, oracle, breaks, broken>>

-----------------------------------------------------------------------------
(* Run up to the call of run: connect, disconnect, evalSessionID.           *)

\* Entry of Run, under mt.  (cafMutex is held until the end of Run.)
Begin(c) ==
  /\ pc = "idle" /\ mt = Nil
  /\ logSteps' = EmptyLog
  /\ stateIsWorking' = TRUE
  /\ cred' = c /\ err' = "none" /\ todo' = 0
  /\ broken' = FALSE /\ failed' = FALSE
  /\ pc' = "connect"
  /\ UNCHANGED <<mt, fields, ret, oracle, breaks>>

\* connect: the connection of the last Run serves again ...
Reuse ==
  /\ conn # Nil /\ connCred = cred
  /\ Goto("connect", IF IsConnected THEN "work" ELSE "panic")
  /\ UNCHANGED locals

\* Mutant: a connection with other credentials is just replaced.
Reconnect_NoDisconnect ==
  /\ conn = Nil \/ connCred # cred
  /\ Goto("connect", "login")
  /\ UNCHANGED locals

\* ... or there is none, or it is somebody else's: disconnect() first.
Reconnect ==
  /\ conn = Nil \/ connCred # cred
  /\ Goto("connect", "disc")
  /\ ret' = "login"
  /\ UNCHANGED <<cred, err, todo>>

\* disconnect with nothing to do; with a live connection; after a failed logon.
DiscNone == conn = Nil /\ Goto("disc", ret) /\ UNCHANGED locals

DiscOpen ==
  /\ IsConnected
  /\ OpenStep("disconnect", "disc", "discclose")
  /\ UNCHANGED locals

\* Mutant: the step is closed on this path too, where it was not opened.
DiscFree_CloseStep == conn = Unconnected /\ Goto("disc", "disclog") /\ UNCHANGED locals

DiscFree == conn = Unconnected /\ Goto("disc", "discnil") /\ UNCHANGED locals

\* r.conn.Close(), not under mt: the Oracle session ends.
DiscClose ==
  /\ pc = "discclose"
  /\ db' = [db EXCEPT ![conn] = "none"]
  /\ conn' = Unconnected
  /\ pc' = "disclog"
  /\ UNCHANGED <<mt, connCred, sessID, stateIsWorking, logSteps, locals, dbCred,
                 breaks, history>>

DiscLog == CloseStep("disconnect", "disclog", "discnil") /\ UNCHANGED locals

\* Mutant: the session identifier survives the connection.
DiscNil_KeepSid ==
  /\ pc = "discnil" /\ mt = Nil
  /\ conn' = Nil /\ connCred' = Nil
  /\ pc' = ret
  /\ UNCHANGED <<mt, sessID, stateIsWorking, logSteps, locals, oracle, breaks,
                 history>>

DiscNil ==
  /\ pc = "discnil" /\ mt = Nil
  /\ conn' = Nil /\ connCred' = Nil /\ sessID' = Nil
  /\ pc' = ret
  /\ UNCHANGED <<mt, stateIsWorking, logSteps, locals, oracle, breaks, history>>

Login == OpenStep("connect", "login", "newconn") /\ UNCHANGED locals

\* oracle.NewConnection, assigned to r.conn outside mt.  It also returns a
\* connection object when the logon fails.
LogonOk(s) ==
  /\ pc = "newconn"
  /\ db[s] = "none" /\ \A b \in Breakers : bsid[b] # s
  /\ db' = [db EXCEPT ![s] = "alive"] /\ dbCred' = [dbCred EXCEPT ![s] = cred]
  /\ conn' = s
  /\ pc' = "setcred"
  /\ UNCHANGED <<mt, connCred, sessID, stateIsWorking, logSteps, locals, breaks,
                 history>>

\* Mutant: the step is left open when the logon fails.
LogonFails_NoClose ==
  /\ pc = "newconn"
  /\ conn' = Unconnected
  /\ err' = "ora" /\ failed' = TRUE
  /\ pc' = "error"
  /\ UNCHANGED <<mt, connCred, sessID, stateIsWorking, logSteps, ret, cred,
                 todo, oracle, breaks, broken>>

LogonFails ==
  /\ pc = "newconn"
  /\ conn' = Unconnected
  /\ err' = "ora" /\ failed' = TRUE
  /\ pc' = "connend"
  /\ UNCHANGED <<mt, connCred, sessID, stateIsWorking, logSteps, ret, cred,
                 todo, oracle, breaks, broken>>

\* connUserName, connUserPass and connStr are stored, outside mt.
SetCred ==
  /\ pc = "setcred"
  /\ connCred' = cred
  /\ pc' = "eval"
  /\ UNCHANGED <<mt, conn, sessID, stateIsWorking, logSteps, locals, oracle,
                 breaks, history>>

\* evalSessionID: the step, r.sessID = "" outside mt, the query.
EvalOpen == OpenStep("evalSid", "eval", "evalclr") /\ UNCHANGED locals

EvalClear ==
  /\ pc = "evalclr"
  /\ sessID' = Nil
  /\ pc' = "evalcall"
  /\ UNCHANGED <<mt, conn, connCred, stateIsWorking, logSteps, locals, oracle,
                 breaks, history>>

EvalOk == CallOk("evalcall", "evalend") /\ sessID' = conn /\ UNCHANGED locals

EvalFails ==
  /\ CallFails("evalcall", "evalend")
  /\ err' = CallError
  /\ UNCHANGED <<ret, cred, todo>>

EvalEnd == CloseStep("evalSid", "evalend", "connend") /\ UNCHANGED locals

ConnEnd ==
  /\ CloseStep("connect", "connend", IF err = "none" THEN "work" ELSE "error")
  /\ UNCHANGED locals

-----------------------------------------------------------------------------
(* run.                                                                     *)

\* A procedure name is described first; a path with "/" (get_resource) is not,
\* and has no files to save.
DescOpen == OpenStep("describe", "work", "desccall") /\ UNCHANGED locals

DescOk == CallOk("desccall", "descend") /\ UNCHANGED <<sessID, locals>>

DescFails ==
  /\ CallFails("desccall", "descend")
  /\ err' = CallError
  /\ UNCHANGED <<ret, cred, todo>>

DescEnd ==
  /\ CloseStep("describe", "descend", IF err = "none" THEN "runproc" ELSE "error")
  /\ UNCHANGED locals

RunOpen ==
  /\ \/ OpenStep("run", "runproc", "save") /\ todo' \in 0..MaxParts
     \/ OpenStep("run", "work", "bind") /\ todo' = 0
  /\ UNCHANGED <<ret, cred, err>>

\* saveFile: a file that is really a string parameter is skipped, one that
\* cannot be read ends Run, and for the others there is one saveFileToDB each.
SaveSkip ==
  /\ todo > 0
  /\ Goto("save", "save")
  /\ todo' = todo - 1
  /\ UNCHANGED <<ret, cred, err>>

FileFails ==
  /\ todo > 0
  /\ CallFails("save", "runend")
  /\ err' = "ora"
  /\ UNCHANGED <<ret, cred, todo>>

SaveOpen ==
  /\ todo > 0
  /\ OpenStep("saveFile", "save", "savecall")
  /\ todo' = todo - 1
  /\ UNCHANGED <<ret, cred, err>>

SaveOk == CallOk("savecall", "saveend") /\ UNCHANGED <<sessID, locals>>

SaveFails ==
  /\ CallFails("savecall", "saveend")
  /\ err' = CallError
  /\ UNCHANGED <<ret, cred, todo>>

\* The stored name cannot be read: saveFileToDB returns the wrong variable, nil.
SaveNoName ==
  /\ CallFails("savecall", "saveend")
  /\ db[conn] = "alive"
  /\ UNCHANGED locals

SaveEnd ==
  /\ CloseStep("saveFile", "saveend", IF err = "none" THEN "save" ELSE "runend")
  /\ UNCHANGED locals

Saved == todo = 0 /\ Goto("save", "bind") /\ UNCHANGED locals

\* The variables are bound (errV when one cannot be, or the procedure's
\* description is missing) ...
BindFails ==
  /\ CallFails("bind", "runend")
  /\ err' = "ora"
  /\ UNCHANGED <<ret, cred, todo>>

\* ... setStepInfo, under mt ...
Bind == Section("bind", "exec") /\ UNCHANGED locals

\* ... and the statement is executed.  The answer is complete (or a lob), or
\* there are more chunks to fetch.
ExecOk ==
  /\ CallOk("exec", "result")
  /\ todo' \in 0..MaxParts
  /\ UNCHANGED <<sessID, ret, cred, err>>

ExecFails ==
  /\ CallFails("exec", "runend")
  /\ err' = CallError
  /\ UNCHANGED <<ret, cred, todo>>

\* Reading an output variable or the lob fails.
ResultFails ==
  /\ CallFails("result", "runend")
  /\ err' = CallError
  /\ UNCHANGED <<ret, cred, todo>>

ResultComplete == todo = 0 /\ Goto("result", "runend") /\ UNCHANGED locals

\* getRestChunks: the caller ignores the error it returns.
ChunkOpen ==
  /\ todo > 0
  /\ OpenStep("chunk", "result", "chunk")
  /\ UNCHANGED locals

\* Mutant: the flag that says whether more chunks exist is not looked at.
ChunkOk_NoEnd ==
  /\ CallOk("chunk", "chunk")
  /\ todo' = todo - 1
  /\ UNCHANGED <<sessID, ret, cred, err>>

ChunkOk ==
  /\ CallOk("chunk", IF todo = 1 THEN "chunkend" ELSE "chunk")
  /\ todo' = todo - 1
  /\ UNCHANGED <<sessID, ret, cred, err>>

ChunkFails == CallFails("chunk", "chunkend") /\ UNCHANGED locals

ChunkEnd == CloseStep("chunk", "chunkend", "runend") /\ UNCHANGED locals

RunEnd ==
  /\ CloseStep("run", "runend", IF err = "none" THEN "finish" ELSE "error")
  /\ UNCHANGED locals

-----------------------------------------------------------------------------
(* The end of Run, and CloseAndFree.                                        *)

\* dumpError reads the last statement under mt; then disconnect().
DumpError ==
  /\ Section("error", "disc")
  /\ ret' = "fail"
  /\ UNCHANGED <<cred, err, todo>>

\* r.logErrorsNum++ under mt.
Fail == Section("fail", "finish") /\ UNCHANGED locals

\* The deferred function of Run.  After an interrupted task the listener calls
\* CloseAndFree.
Finish ==
  /\ pc = "finish" /\ mt = Nil
  /\ stateIsWorking' = FALSE
  /\ pc' = IF err = "interrupted" THEN "exit" ELSE "idle"
  /\ UNCHANGED <<mt, fields, logSteps, locals, oracle, breaks, history>>

\* The connection is closed but not forgotten; mt is not taken.  When closing
\* returns an error (a killed session) the log is not cleared.
CloseAndFree ==
  /\ pc \in {"idle", "exit"}
  /\ db' = [s \in Sids |-> IF s = conn THEN "none" ELSE db[s]]
  /\ conn' = IF conn = Nil THEN Nil ELSE Unconnected
  /\ logSteps' = IF IsConnected /\ db[conn] = "killed" THEN logSteps ELSE EmptyLog
  /\ pc' = "closed"
  /\ UNCHANGED <<mt, connCred, sessID, stateIsWorking, locals, dbCred, breaks,
                 history>>

-----------------------------------------------------------------------------
(* Break: mt is held from BreakCall to the return.                          *)

BreakCall(b) ==
  /\ bpc[b] = "idle" /\ mt = Nil
  /\ mt' = b
  /\ bpc' = [bpc EXCEPT ![b] = "check"]
  /\ UNCHANGED <<fields, stateIsWorking, logSteps, pc, locals, oracle, bsid,
                 bcred, history>>

\* Return releases mt and forgets the arguments of killSession.
BreakReturn(b) ==
  /\ mt' = Nil
  /\ bpc' = [bpc EXCEPT ![b] = "idle"]
  /\ bsid' = [bsid EXCEPT ![b] = Nil] /\ bcred' = [bcred EXCEPT ![b] = Nil]

\* Mutant: an early return that forgets to unlock.
BreakNothing_Locked(b) ==
  /\ bpc[b] = "check"
  /\ ~stateIsWorking \/ ~IsConnected
  /\ bpc' = [bpc EXCEPT ![b] = "idle"]
  /\ UNCHANGED <<mt, fields, stateIsWorking, logSteps, pc, locals, oracle, bsid,
                 bcred, history>>

\* The three early returns "nothing to break".
BreakNothing(b) ==
  /\ bpc[b] = "check"
  /\ ~stateIsWorking \/ ~IsConnected
  /\ BreakReturn(b)
  /\ UNCHANGED <<fields, stateIsWorking, logSteps, pc, locals, oracle, history>>

BreakCheck(b) ==
  /\ bpc[b] = "check"
  /\ stateIsWorking /\ IsConnected
  /\ bpc' = [bpc EXCEPT ![b] = "args"]
  /\ UNCHANGED <<mt, fields, stateIsWorking, logSteps, pc, locals, oracle, bsid,
                 bcred, history>>

\* Mutant: Break waits for the session identifier instead of giving up.
BreakNoSession_Wait(b) ==
  /\ bpc[b] = "args" /\ sessID = Nil
  /\ bpc' = [bpc EXCEPT ![b] = "check"]
  /\ UNCHANGED <<mt, fields, stateIsWorking, logSteps, pc, locals, oracle, bsid,
                 bcred, history>>

\* "No information about the session."
BreakNoSession(b) ==
  /\ bpc[b] = "args" /\ sessID = Nil
  /\ BreakReturn(b)
  /\ UNCHANGED <<fields, stateIsWorking, logSteps, pc, locals, oracle, history>>

\* killSession is called with what the fields hold now ...
BreakKill(b) ==
  /\ bpc[b] = "args" /\ sessID # Nil
  /\ bsid' = [bsid EXCEPT ![b] = sessID] /\ bcred' = [bcred EXCEPT ![b] = connCred]
  /\ bpc' = [bpc EXCEPT ![b] = "kill"]
  /\ UNCHANGED <<mt, fields, stateIsWorking, logSteps, pc, locals, oracle,
                 history>>

\* ... and kills that session, if it still exists, or returns an error.
KillSession(b) ==
  /\ bpc[b] = "kill"
  /\ \/ UNCHANGED <<db, broken>>
     \/ /\ db[bsid[b]] = "alive"
        /\ db' = [db EXCEPT ![bsid[b]] = "killed"]
        /\ broken' = TRUE
  /\ BreakReturn(b)
  /\ UNCHANGED <<fields, stateIsWorking, logSteps, pc, locals, dbCred, failed>>

-----------------------------------------------------------------------------
RunStep ==
  \/ Reuse \/ Reconnect \/ DiscNone \/ DiscOpen \/ DiscFree \/ DiscClose
  \/ DiscLog \/ DiscNil \/ Login \/ LogonFails \/ SetCred \/ EvalOpen
  \/ EvalClear \/ EvalOk \/ EvalFails \/ EvalEnd \/ ConnEnd
  \/ DescOpen \/ DescOk \/ DescFails \/ DescEnd \/ RunOpen \/ SaveOpen
  \/ SaveSkip \/ FileFails \/ SaveOk \/ SaveFails \/ SaveNoName
  \/ SaveEnd \/ Saved \/ BindFails \/ Bind \/ ExecOk
  \/ ExecFails \/ ResultFails \/ ResultComplete \/ ChunkOpen \/ ChunkOk
  \/ ChunkFails \/ ChunkEnd \/ RunEnd \/ DumpError \/ Fail \/ Finish
  \/ \E s \in Sids : LogonOk(s)

BreakStep(b) ==
  \/ BreakNothing(b) \/ BreakCheck(b) \/ BreakNoSession(b) \/ BreakKill(b)
  \/ KillSession(b)

Next ==
  \/ \E c \in Creds : Begin(c)
  \/ RunStep
  \/ CloseAndFree
  \/ \E b \in Breakers : BreakCall(b) \/ BreakStep(b)

Spec == Init /\ [][Next]_vars

\* The listener goroutine runs on, database calls return, and so does a Break
\* that has the mutex.
FairSpec == Spec /\ WF_vars(RunStep) /\ \A b \in Breakers : WF_vars(BreakStep(b))

-----------------------------------------------------------------------------
(* Properties.                                                              *)

PCs == {"idle", "connect", "disc", "discclose", "disclog", "discnil", "login",
        "newconn", "setcred", "eval", "evalclr", "evalcall", "evalend",
        "connend", "work", "desccall", "descend", "runproc", "save", "savecall",
        "saveend", "bind", "exec", "result", "chunk", "chunkend", "runend",
        "error", "fail", "finish", "exit", "closed", "panic"}

TypeOK ==
  /\ mt \in Breakers \cup {Nil}
  /\ conn \in Sids \cup {Nil, Unconnected}
  /\ connCred \in Creds \cup {Nil} /\ cred \in Creds \cup {Nil}
  /\ sessID \in Sids \cup {Nil}
  /\ stateIsWorking \in BOOLEAN
  /\ logSteps \in [Steps -> {"absent", "open", "closed"}]
  /\ pc \in PCs /\ ret \in PCs
  /\ err \in Errors /\ todo \in 0..MaxParts
  /\ db \in [Sids -> {"none", "alive", "killed"}]
  /\ dbCred \in [Sids -> Creds \cup {Nil}]
  /\ bpc \in [Breakers -> {"idle", "check", "args", "kill"}]
  /\ bsid \in [Breakers -> Sids \cup {Nil}]
  /\ bcred \in [Breakers -> Creds \cup {Nil}]
  /\ broken \in BOOLEAN /\ failed \in BOOLEAN

\* The points of Run that finish a step, and the step.
Closing == [disclog |-> "disconnect", evalend |-> "evalSid",
            connend |-> "connect", descend |-> "describe",
            saveend |-> "saveFile", chunkend |-> "chunk", runend |-> "run"]

\* Run never panics: connect never finds its own connection without a session
\* ("must never get here"), and closeStep and setStepInfo never dereference a
\* step that openStep did not store.
NeverPanics ==
  /\ pc # "panic"
  /\ pc \in DOMAIN Closing => logSteps[Closing[pc]] = "open"

\* No Oracle session is leaked: the only session this tasker may have in the
\* database is the one its connection refers to, through failed logons, errors
\* in any phase, changes of user, kills and CloseAndFree.
OneSession == \A s \in Sids : db[s] # "none" => conn = s

\* Break kills with matching arguments: the session identifier and the
\* credentials it passes to killSession belong together, and the session is
\* still this tasker's, although connect and evalSessionID write these fields
\* without the mutex.
KillConsistent ==
  \A b \in Breakers : bpc[b] = "kill" =>
    /\ dbCred[bsid[b]] = bcred[b]
    /\ conn = bsid[b] \/ db[bsid[b]] = "none"

\* When Run has returned an error, the tasker has no connection, and the step
\* log of a finished Run has no open step (stat.go would show it as running).
AtRest ==
  pc \in {"idle", "exit"} =>
    /\ err # "none" => conn = Nil
    /\ \A k \in Steps : logSteps[k] # "open"

\* Run and Break come to an end: no error path keeps mt.
RunEnds ==
  <>[](\A b \in Breakers : bpc[b] = "idle") => []<>(~stateIsWorking)
BreakEnds == \A b \in Breakers : bpc[b] # "idle" ~> bpc[b] = "idle"

-----------------------------------------------------------------------------
(* What comments of oratasker.go say and the code does not do.              *)

\* "If an error occurred, we always close the connection to the database."
ErrorClosesConn == pc \in {"idle", "exit"} /\ failed => conn = Nil

\* "Execution has already finished.  Nothing to interrupt": a Run reports that
\* it was interrupted only if a Break killed its session during that Run.
InterruptedByBreak == err = "interrupted" => broken
=============================================================================
