------------------------------- MODULE Config -------------------------------
(***************************************************************************)
(* The configuration: reader.go polls it from the database, parseConfig     *)
(* (server.go) installs users and router, updateUsers (users.go) keeps the  *)
(* user list, and every request reads the router under confLock and, later, *)
(* the user list under ulock.  main starts the server once the first        *)
(* configuration is in, and stops the reader on a signal.                   *)
(*                                                                         *)
(* A configuration document is known by its place in history.  Of its       *)
(* contents the model keeps what a request is granted a connection from:    *)
(* the section Http.Users (Nil when there is none) and the groups of the    *)
(* one OWA handler; names are upper-case.  Requests do not affect each      *)
(* other.  Oracle and the administrator who edits documents are external.   *)
(***************************************************************************)
EXTENDS Integers, Sequences

CONSTANTS
  Requests,   \* goroutines of net/http
  Names,      \* user names
  Grps,       \* user groups
  Sids,       \* connection strings
  Documents,  \* what the administrator may store
  GlobalSids, \* values of the flag -cs: a connection string, or Nil
  Nil,
  MaxVersion, \* bound: documents stored one after another
  MaxOutages  \* bound: times the database goes down

\* absent: c.config answers {} or raises an error; empty: it answers no rows;
\* bad: not the JSON of a configuration; conflict: two handlers claim one route.
Kinds == {"good", "absent", "empty", "bad", "conflict"}

UserLists == [Names -> Grps \cup {Nil}]

ASSUME ConfigConstants ==
  /\ Documents \subseteq [kind : Kinds, users : UserLists \cup {Nil},
                          grps : [Grps -> Sids \cup {Nil}]]
  /\ GlobalSids \subseteq Sids \cup {Nil}
  /\ Nil \notin UserLists \cup Grps \cup Sids \cup {"open", "broken"}
  /\ MaxVersion \in Nat \ {0} /\ MaxOutages \in Nat

VARIABLES
  history,          \* the documents stored so far; the last one is in the database
  dbUp, outages,    \* is the database up, and how often did it go down
  conn,             \* the reader's connection: Nil, "open" or "broken"
  sessions,         \* connections that the driver has not freed
  rpc, buf,         \* the reader: where it is, the document it has read (0: none)
  main,             \* the main goroutine
  conectionString,  \* the flag -cs
  ulist, prev,      \* users.go: the list, the section it was made from
  router, prevConf, \* server.go: what is routed by, what it was parsed from
  served,           \* the document that ports, timeouts and names are from
  req               \* [Requests -> where it is, its router, its user, its connStr]

reader == <<conn, sessions, rpc, buf, main>>
installed == <<ulist, prev, router, prevConf, served>>
oracle == <<history, dbUp, outages>>
vars == <<oracle, reader, conectionString, installed, req>>

EmptyList == [n \in Names |-> Nil]

\* doc: the document the router was made from; users: the newest installed
\* document with a section Http.Users at that time, which no variable of the
\* code holds.
NoRouter == [doc |-> 0, users |-> 0]

IdleRequest == [pc |-> "idle", rt |-> NoRouter, user |-> Nil, connStr |-> Nil]

Init ==
  /\ history \in {<<d>> : d \in Documents} /\ dbUp \in BOOLEAN /\ outages = 0
  /\ conn = Nil /\ sessions = 0 /\ rpc = "check" /\ buf = 0 /\ main = "start"
  /\ conectionString \in GlobalSids
  /\ ulist = EmptyList /\ prev = Nil
  /\ router = NoRouter /\ prevConf = 0 /\ served = 0
  /\ req = [r \in Requests |-> IdleRequest]

Alive == main # "down" /\ rpc # "crashed"

-----------------------------------------------------------------------------
(* reader.go: one reading.                                                  *)

\* Mutant: after an error the timer is not set again.
Return_NoReset(ok) ==
  /\ rpc' = IF ok THEN "wait" ELSE "stopped"
  /\ main' = IF main # "start" THEN main ELSE IF ok THEN "serving" ELSE "down"
  /\ buf' = 0

\* A reading ends.  The first one is part of startReading, whose error ends the
\* process; an error of a later one is logged, and the timer is set again.
Return(ok) ==
  /\ rpc' = IF main = "start" /\ ~ok THEN "stopped" ELSE "wait"
  /\ main' = IF main # "start" THEN main ELSE IF ok THEN "serving" ELSE "down"
  /\ buf' = 0

TimerFires ==
  /\ rpc = "wait" /\ Alive
  /\ rpc' = "check"
  /\ UNCHANGED <<oracle, conn, sessions, buf, main, conectionString, installed, req>>

\* readConfig with a connection that answers Ping.
PingOk ==
  /\ rpc = "check" /\ conn = "open"
  /\ rpc' = "query"
  /\ UNCHANGED <<oracle, conn, sessions, buf, main, conectionString, installed, req>>

\* Mutant: the connection is forgotten without being freed.
PingFails_Leak ==
  /\ rpc = "check" /\ conn = "broken"
  /\ conn' = Nil /\ sessions' = sessions
  /\ rpc' = "login"
  /\ UNCHANGED <<oracle, buf, main, conectionString, installed, req>>

\* ... that does not: it is closed and freed.
PingFails ==
  /\ rpc = "check" /\ conn = "broken"
  /\ conn' = Nil /\ sessions' = sessions - 1
  /\ rpc' = "login"
  /\ UNCHANGED <<oracle, buf, main, conectionString, installed, req>>

\* ... and without one.
NoConnection ==
  /\ rpc = "check" /\ conn = Nil
  /\ rpc' = "login"
  /\ UNCHANGED <<oracle, conn, sessions, buf, main, conectionString, installed, req>>

LoginOk ==
  /\ rpc = "login" /\ dbUp
  /\ conn' = "open" /\ sessions' = sessions + 1
  /\ rpc' = "query"
  /\ UNCHANGED <<oracle, buf, main, conectionString, installed, req>>

\* Mutant: no early return, NewCursor of a nil connection.
LoginFails_GoOn ==
  /\ rpc = "login" /\ ~dbUp
  /\ rpc' = "crashed"
  /\ UNCHANGED <<oracle, conn, sessions, buf, main, conectionString, installed, req>>

\* The connection that NewConnection returns with its error is freed at once.
LoginFails ==
  /\ rpc = "login" /\ ~dbUp
  /\ Return(FALSE)
  /\ UNCHANGED <<oracle, conn, sessions, conectionString, installed, req>>

QueryOk ==
  /\ rpc = "query" /\ conn = "open" /\ history[Len(history)].kind # "absent"
  /\ buf' = Len(history)
  /\ rpc' = "parse"
  /\ UNCHANGED <<oracle, conn, sessions, main, conectionString, installed, req>>

\* Execute or FetchAll fails, or the document is {}; conn stays as it is.
QueryFails ==
  /\ rpc = "query"
  /\ conn = "broken" \/ history[Len(history)].kind = "absent"
  /\ Return(FALSE)
  /\ UNCHANGED <<oracle, conn, sessions, conectionString, installed, req>>

-----------------------------------------------------------------------------
(* parseConfig.                                                             *)

\* bytes.Equal(prevConf, buf); no rows make an empty buf.
SameDocument ==
  IF prevConf = 0 THEN history[buf].kind = "empty"
                  ELSE history[buf] = history[prevConf]

ParseSame ==
  /\ rpc = "parse" /\ SameDocument
  /\ Return(TRUE)
  /\ UNCHANGED <<oracle, conn, sessions, conectionString, installed, req>>

\* json.Unmarshal fails.
ParseBad ==
  /\ rpc = "parse" /\ ~SameDocument /\ history[buf].kind \in {"bad", "empty"}
  /\ Return(FALSE)
  /\ UNCHANGED <<oracle, conn, sessions, conectionString, installed, req>>

\* httprouter panics when a route is registered twice; nothing recovers.
ParseConflict ==
  /\ rpc = "parse" /\ ~SameDocument /\ history[buf].kind = "conflict"
  /\ rpc' = "crashed"
  /\ UNCHANGED <<oracle, conn, sessions, buf, main, conectionString, installed, req>>

\* copy(dst, src) where dst is as long as src or empty: an empty one stays so.
CopyInto(dst, src, empty) == IF dst = empty THEN empty ELSE src

\* Mutant: users that are not in the new section stay.
updateUsers_Keep(users) ==
  IF prev = users THEN ulist
  ELSE [n \in Names |-> IF users[n] = Nil THEN ulist[n] ELSE users[n]]

\* Mutant: an absent section is not looked for.
updateUsers_NoCheck(users) == users

\* The list that updateUsers leaves: emptied and filled from the section, unless
\* the section equals prev.
updateUsers(users) ==
  IF prev = users THEN ulist ELSE IF users = Nil THEN EmptyList ELSE users

\* parseConfig up to updateUsers, in whose section of ulock the list changes.
\* confLock is taken, and held until the router is assigned.
InstallUsers ==
  /\ rpc = "parse" /\ ~SameDocument /\ history[buf].kind = "good"
  /\ served' = IF served = 0 THEN buf ELSE served
  /\ ulist' = updateUsers(history[buf].users)
  /\ prev' = IF prev = history[buf].users THEN prev
             ELSE CopyInto(prev, history[buf].users, Nil)
  /\ rpc' = "router"
  /\ UNCHANGED <<oracle, conn, sessions, buf, main, conectionString, router,
                 prevConf, req>>

InstallRouter ==
  /\ rpc = "router"
  /\ router' = [doc |-> buf,
                users |-> IF history[buf].users = Nil THEN router.users ELSE buf]
  /\ prevConf' = CopyInto(prevConf, buf, 0)
  /\ Return(TRUE)
  /\ UNCHANGED <<oracle, conn, sessions, conectionString, ulist, prev, served, req>>

confLockHeld == rpc = "router"

-----------------------------------------------------------------------------
(* Stopping.                                                                *)

\* A signal: stopReading offers stopChan.
Signal ==
  /\ main = "serving" /\ Alive
  /\ main' = "stopping"
  /\ UNCHANGED <<oracle, conn, sessions, rpc, buf, conectionString, installed, req>>

\* Mutant: without a connection the reader does not look at stopChan.
StopReader_NeedsConn ==
  /\ rpc = "wait" /\ main = "stopping" /\ conn # Nil
  /\ conn' = Nil /\ sessions' = sessions - 1 /\ rpc' = "stopped"
  /\ UNCHANGED <<oracle, buf, main, conectionString, installed, req>>

\* The reader frees its connection; Free of a nil connection panics.
StopReader ==
  /\ rpc = "wait" /\ main = "stopping"
  /\ IF conn = Nil
     THEN rpc' = "crashed" /\ UNCHANGED <<conn, sessions>>
     ELSE rpc' = "stopped" /\ conn' = Nil /\ sessions' = sessions - 1
  /\ UNCHANGED <<oracle, buf, main, conectionString, installed, req>>

\* stoppedChan; stopServer does nothing, and main returns.
Exit ==
  /\ rpc = "stopped" /\ main = "stopping"
  /\ main' = "down"
  /\ UNCHANGED <<oracle, conn, sessions, rpc, buf, conectionString, installed, req>>

-----------------------------------------------------------------------------
(* A request of the OWA handler.                                            *)

Serving == Alive /\ main # "start"

\* loggedHandler reads the router.
Arrive(r, n) ==
  /\ Serving /\ req[r].pc = "idle" /\ ~confLockHeld /\ router.doc # 0
  /\ req' = [req EXCEPT ![r] =
               [pc |-> "routed", rt |-> router, user |-> n, connStr |-> Nil]]
  /\ UNCHANGED <<oracle, reader, conectionString, installed>>

\* Mutant: the groups are not looked at when -cs is given.
getConnectionParams_AnyGroup(user, grps) ==
  IF ulist[user] = Nil THEN Nil
  ELSE IF conectionString # Nil THEN conectionString
  ELSE grps[ulist[user]]

\* The connection string of a user whose group the handler has.
getConnectionParams(user, grps) ==
  IF ulist[user] = Nil \/ grps[ulist[user]] = Nil THEN Nil
  ELSE IF conectionString # Nil THEN conectionString ELSE grps[ulist[user]]

\* The user is looked up in the list of now, the group in the router's.
Lookup(r) ==
  /\ Serving /\ req[r].pc = "routed"
  /\ req' = [req EXCEPT ![r].pc = "answered",
               ![r].connStr = getConnectionParams(req[r].user,
                                                  history[req[r].rt.doc].grps)]
  /\ UNCHANGED <<oracle, reader, conectionString, installed>>

\* The task runs with connStr, or the answer is 401.
Finish(r) ==
  /\ Serving /\ req[r].pc = "answered"
  /\ req' = [req EXCEPT ![r] = IdleRequest]
  /\ UNCHANGED <<oracle, reader, conectionString, installed>>

-----------------------------------------------------------------------------
(* The outside.                                                             *)

Edit(d) ==
  /\ Len(history) < MaxVersion
  /\ history' = Append(history, d)
  /\ UNCHANGED <<dbUp, outages, reader, conectionString, installed, req>>

\* Every session of the database is gone.
DbDown ==
  /\ dbUp /\ outages < MaxOutages
  /\ dbUp' = FALSE /\ outages' = outages + 1
  /\ conn' = IF conn = "open" THEN "broken" ELSE conn
  /\ UNCHANGED <<history, sessions, rpc, buf, main, conectionString, installed, req>>

DbUp ==
  /\ ~dbUp
  /\ dbUp' = TRUE
  /\ UNCHANGED <<history, outages, reader, conectionString, installed, req>>

\* The process has ended.
Ended == ~Alive /\ UNCHANGED vars

-----------------------------------------------------------------------------
Read ==
  \/ TimerFires \/ PingOk \/ PingFails \/ NoConnection \/ LoginOk \/ LoginFails
  \/ QueryOk \/ QueryFails

Parse == ParseSame \/ ParseBad \/ ParseConflict \/ InstallUsers \/ InstallRouter

Handle(r) == (\E n \in Names : Arrive(r, n)) \/ Lookup(r) \/ Finish(r)

Next ==
  \/ Read \/ Parse \/ Signal \/ StopReader \/ Exit
  \/ \E r \in Requests : Handle(r)
  \/ \E d \in Documents : Edit(d)
  \/ DbDown \/ DbUp \/ Ended

Spec == Init /\ [][Next]_vars

\* The reader goes on: its timer fires and its calls of the database return.
\* When it comes to its select again and again while stopReading offers
\* stopChan, it takes the offer.
FairSpec ==
  /\ Spec
  /\ WF_vars(Read \/ Parse) /\ SF_vars(StopReader) /\ WF_vars(Exit)

-----------------------------------------------------------------------------
(* Properties.                                                              *)

Routers == [doc : Nat, users : Nat]

TypeOK ==
  /\ history \in Seq(Documents) /\ dbUp \in BOOLEAN /\ outages \in Nat
  /\ conn \in {Nil, "open", "broken"} /\ sessions \in Int
  /\ rpc \in {"wait", "check", "login", "query", "parse", "router", "stopped",
              "crashed"}
  /\ buf \in Nat /\ main \in {"start", "serving", "stopping", "down"}
  /\ conectionString \in GlobalSids
  /\ ulist \in UserLists /\ prev \in UserLists \cup {Nil}
  /\ router \in Routers /\ prevConf \in Nat /\ served \in Nat
  /\ req \in [Requests -> [pc : {"idle", "routed", "answered"}, rt : Routers,
                           user : Names \cup {Nil}, connStr : Sids \cup {Nil}]]

\* The users that document v leaves in force (v = 0: none was read yet).
UsersOf(v) == IF v = 0 THEN EmptyList ELSE history[v].users

\* Between two installations the user list is that of the newest installed
\* document with a section Http.Users, whatever readings failed in between: who
\* is no longer in the section is no longer in ulist.  (A document without the
\* section leaves the users of an earlier one in force.)
UsersInForce == ~confLockHeld => ulist = UsersOf(router.users)

\* The list that updateUsers made of document v grants the request its string.
GrantedBy(q, v) ==
  LET g == UsersOf(v)[q.user] IN
  /\ g # Nil /\ history[q.rt.doc].grps[g] # Nil
  /\ q.connStr = IF conectionString # Nil THEN conectionString
                 ELSE history[q.rt.doc].grps[g]

\* Router and users are read under different locks, and a configuration may be
\* installed between the two.  Still a request is never granted a connection by
\* users older than the router it came in by: the user is in the section that was
\* in force when the router was installed, or in that of a newer document, and in
\* a group that the router's own document has.  So the removal of a user holds
\* for every request that arrives after the installation.
GrantIsConfigured ==
  \A r \in Requests : req[r].pc = "answered" /\ req[r].connStr # Nil =>
    \E v \in req[r].rt.users .. Len(history) :
      UsersOf(v) # Nil /\ GrantedBy(req[r], v)

\* The reader never loses a connection: whatever failed, the driver has exactly
\* the one that conn refers to.
NoLeak == sessions = IF conn = Nil THEN 0 ELSE 1

\* No outage and no failed reading takes the process down: it only panics on a
\* document with conflicting routes, or when it is stopped without a connection.
OutageSurvived ==
  rpc = "crashed" => \/ buf # 0 /\ history[buf].kind = "conflict"
                     \/ main = "stopping" /\ conn = Nil

\* The newest document is installed, unless it cannot be.
Newest == history[Len(history)].kind = "good" => router.doc = Len(history)

\* Once the database stays up the newest configuration is installed for good,
\* after any outages and bad documents, until the process ends.
InstalledEventually ==
  <>[]dbUp => <>[](Newest \/ ~Alive \/ main = "stopping")

\* stopReading returns, or the process has panicked: the reader takes the
\* request to stop even if it is in a reading when it comes, or has no database.
StopEnds == main = "stopping" ~> ~Alive
=============================================================================
