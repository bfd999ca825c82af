---------------------------- MODULE ConfigProofs ----------------------------
(***************************************************************************)
(* What a request is granted, which users are in force, what becomes of the *)
(* reader's connection and when the process panics, for any documents,      *)
(* requests, users, groups and any number of edits and outages.             *)
(***************************************************************************)
EXTENDS Config, TLAPS

\* There is always a document, and copy never fills an empty slice.
HistoryInv == Len(history) >= 1 /\ prev = Nil /\ prevConf = 0

\* The reader's buf is a stored document, not older than the users in force.
BufInv ==
  /\ buf \in 0..Len(history)
  /\ rpc \in {"parse", "router"} => buf >= 1 /\ router.users <= buf

\* The newest document whose section Http.Users has been installed, while the
\* router may still be that of an earlier one.
InForce == IF rpc = "router" /\ history[buf].users # Nil THEN buf ELSE router.users

\* The router refers to stored documents, and ulist is the list in force.
UsersInv ==
  /\ router.doc \in 0..Len(history) /\ router.users \in 0..Len(history)
  /\ router.users # 0 => history[router.users].users # Nil
  /\ ulist = UsersOf(InForce)

\* A request's router is not newer than the present one.
RequestInv ==
  \A r \in Requests : req[r].pc # "idle" =>
    /\ req[r].rt.doc \in 1..Len(history)
    /\ req[r].rt.users <= router.users
    /\ req[r].user \in Names

\* Login is tried without a connection.
ConnInv == rpc = "login" => conn = Nil

IInv ==
  /\ TypeOK /\ HistoryInv /\ BufInv /\ UsersInv /\ RequestInv /\ ConnInv
  /\ GrantIsConfigured /\ NoLeak /\ OutageSurvived

USE DEF Routers

\* Nothing has been read, and the first reading begins.
LEMMA InitIInv == Init => IInv
<1> SUFFICES ASSUME Init PROVE IInv
  OBVIOUS
<1>1. history \in Seq(Documents) /\ Len(history) = 1
  <2>1. PICK d \in Documents : history = <<d>>
    BY DEF Init
  <2> QED
    BY <2>1
<1>2. EmptyList \in UserLists
  BY DEF EmptyList, UserLists
<1>3. TypeOK
  BY <1>1, <1>2 DEF Init, TypeOK, NoRouter, IdleRequest
<1>4. HistoryInv /\ BufInv /\ ConnInv /\ NoLeak /\ OutageSurvived
  BY <1>1 DEF Init, HistoryInv, BufInv, ConnInv, NoLeak, OutageSurvived
<1>5. UsersInv
  BY <1>1 DEF Init, UsersInv, InForce, UsersOf, NoRouter
<1>6. RequestInv /\ GrantIsConfigured
  BY DEF Init, RequestInv, GrantIsConfigured, IdleRequest
<1> QED
  BY <1>3, <1>4, <1>5, <1>6 DEF IInv

\* What is stored has the fields of a document.
LEMMA Stored ==
  ASSUME TypeOK, NEW v \in 1..Len(history)
  PROVE  /\ history[v] \in Documents
         /\ history[v].kind \in Kinds
         /\ history[v].users \in UserLists \cup {Nil}
         /\ history[v].grps \in [Grps -> Sids \cup {Nil}]
<1>1. history[v] \in Documents
  BY DEF TypeOK
<1> QED
  BY <1>1, ConfigConstants

\* A step that installs nothing and is not of a request leaves alone what is
\* said of users, router and requests.
LEMMA Quiet ==
  ASSUME IInv,
         UNCHANGED <<history, conectionString, installed, req>>,
         \/ rpc' = rpc /\ buf' = buf
         \/ rpc # "router" /\ rpc' # "router"
  PROVE  HistoryInv' /\ UsersInv' /\ RequestInv' /\ GrantIsConfigured'
<1>1. HistoryInv'
  BY DEF IInv, HistoryInv, installed
<1>2. UsersInv'
  <2>1. InForce' = InForce
    BY DEF InForce, installed
  <2>2. \A v : UsersOf(v)' = UsersOf(v)
    BY DEF UsersOf, EmptyList
  <2> QED
    BY <2>1, <2>2 DEF IInv, UsersInv, UsersOf, installed
<1>3. RequestInv'
  BY DEF IInv, RequestInv, installed
<1>4. GrantIsConfigured'
  BY DEF IInv, GrantIsConfigured, GrantedBy, UsersOf, EmptyList
<1> QED
  BY <1>1, <1>2, <1>3, <1>4

\* The end of a reading that has changed nothing but the reader.
LEMMA ReturnIInv ==
  ASSUME IInv, NEW ok \in BOOLEAN, Return(ok),
         rpc \in {"login", "query", "parse"},
         UNCHANGED <<oracle, conn, sessions, conectionString, installed, req>>
  PROVE  IInv'
<1>1. HistoryInv' /\ UsersInv' /\ RequestInv' /\ GrantIsConfigured'
  BY Quiet DEF Return, oracle
<1>2. TypeOK'
  BY DEF IInv, TypeOK, Return, oracle, installed
<1>3. BufInv' /\ ConnInv' /\ NoLeak' /\ OutageSurvived'
  BY DEF IInv, TypeOK, HistoryInv, BufInv, ConnInv, NoLeak, OutageSurvived,
         Return, oracle, installed
<1> QED
  BY <1>1, <1>2, <1>3 DEF IInv

\* Every step of readConfig.
LEMMA ReadIInv == ASSUME IInv, Read PROVE IInv'
<1> USE DEF oracle, installed
<1>1. CASE TimerFires \/ PingOk \/ NoConnection
  <2>1. HistoryInv' /\ UsersInv' /\ RequestInv' /\ GrantIsConfigured'
    BY <1>1, Quiet DEF TimerFires, PingOk, NoConnection
  <2>2. TypeOK'
    BY <1>1 DEF IInv, TypeOK, TimerFires, PingOk, NoConnection
  <2>3. BufInv' /\ ConnInv' /\ NoLeak' /\ OutageSurvived'
    BY <1>1 DEF IInv, BufInv, ConnInv, NoLeak, OutageSurvived,
                TimerFires, PingOk, NoConnection
  <2> QED
    BY <2>1, <2>2, <2>3 DEF IInv
<1>2. CASE PingFails \/ LoginOk
  <2>1. HistoryInv' /\ UsersInv' /\ RequestInv' /\ GrantIsConfigured'
    BY <1>2, Quiet DEF PingFails, LoginOk
  <2>2. TypeOK'
    BY <1>2 DEF IInv, TypeOK, PingFails, LoginOk
  <2>3. BufInv' /\ ConnInv' /\ OutageSurvived'
    BY <1>2 DEF IInv, BufInv, ConnInv, OutageSurvived, PingFails, LoginOk
  <2>4. NoLeak'
    BY <1>2, ConfigConstants DEF IInv, TypeOK, ConnInv, NoLeak, PingFails, LoginOk
  <2> QED
    BY <2>1, <2>2, <2>3, <2>4 DEF IInv
<1>3. CASE LoginFails \/ QueryFails
  BY <1>3, ReturnIInv DEF LoginFails, QueryFails
<1>4. CASE QueryOk
  <2>1. HistoryInv' /\ UsersInv' /\ RequestInv' /\ GrantIsConfigured'
    BY <1>4, Quiet DEF QueryOk
  <2>2. Len(history) \in Nat
    BY DEF IInv, TypeOK
  <2>3. TypeOK'
    BY <1>4, <2>2 DEF IInv, TypeOK, QueryOk
  <2>4. BufInv'
    BY <1>4, <2>2 DEF IInv, HistoryInv, BufInv, UsersInv, QueryOk
  <2>5. ConnInv' /\ NoLeak' /\ OutageSurvived'
    BY <1>4 DEF IInv, ConnInv, NoLeak, OutageSurvived, QueryOk
  <2> QED
    BY <2>1, <2>3, <2>4, <2>5 DEF IInv
<1> QED
  BY <1>1, <1>2, <1>3, <1>4 DEF Read

\* Every step of parseConfig.
LEMMA ParseIInv == ASSUME IInv, Parse PROVE IInv'
<1> USE DEF oracle, installed
<1>0. TypeOK /\ HistoryInv /\ BufInv /\ UsersInv /\ RequestInv
  BY DEF IInv
<1>1. CASE ParseSame \/ ParseBad
  BY <1>1, ReturnIInv DEF ParseSame, ParseBad
<1>2. CASE ParseConflict
  <2>1. HistoryInv' /\ UsersInv' /\ RequestInv' /\ GrantIsConfigured'
    BY <1>2, Quiet DEF ParseConflict
  <2>2. TypeOK'
    BY <1>2 DEF IInv, TypeOK, ParseConflict
  <2>3. BufInv' /\ ConnInv' /\ NoLeak' /\ OutageSurvived'
    BY <1>2 DEF IInv, BufInv, ConnInv, NoLeak, OutageSurvived, ParseConflict
  <2> QED
    BY <2>1, <2>2, <2>3 DEF IInv
<1>3. CASE InstallUsers
  <2>1. buf \in 1..Len(history)
    BY <1>0, <1>3 DEF InstallUsers, BufInv
  <2>2. history[buf].users \in UserLists \cup {Nil}
    BY <1>0, <2>1, Stored
  <2>3. ulist' = IF history[buf].users = Nil THEN ulist ELSE history[buf].users
    BY <1>0, <1>3 DEF InstallUsers, updateUsers, HistoryInv
  <2>4. prev' = Nil
    BY <1>0, <1>3 DEF InstallUsers, HistoryInv, CopyInto
  <2>5. TypeOK'
    BY <1>0, <1>3, <2>2, <2>3, <2>4 DEF InstallUsers, TypeOK
  <2>6. HistoryInv' /\ BufInv'
    BY <1>0, <1>3, <2>4 DEF InstallUsers, HistoryInv, BufInv
  <2>7. UsersInv'
    <3>1. UsersOf(InForce)' = IF history[buf].users = Nil THEN UsersOf(router.users)
                              ELSE history[buf].users
      BY <1>0, <1>3, <2>1 DEF InstallUsers, InForce, UsersOf, EmptyList
    <3>2. ulist = UsersOf(router.users)
      BY <1>0, <1>3 DEF InstallUsers, UsersInv, InForce
    <3> QED
      BY <1>0, <1>3, <2>3, <3>1, <3>2 DEF InstallUsers, UsersInv
  <2>8. RequestInv' /\ GrantIsConfigured'
    BY <1>3 DEF IInv, InstallUsers, RequestInv, GrantIsConfigured, GrantedBy,
                UsersOf, EmptyList
  <2>9. ConnInv' /\ NoLeak' /\ OutageSurvived'
    BY <1>3 DEF IInv, InstallUsers, ConnInv, NoLeak, OutageSurvived
  <2> QED
    BY <2>5, <2>6, <2>7, <2>8, <2>9 DEF IInv
<1>4. CASE InstallRouter
  <2>1. buf \in 1..Len(history) /\ router.users <= buf
    BY <1>0, <1>4 DEF InstallRouter, BufInv
  <2>2. /\ router' \in Routers /\ router'.doc = buf
        /\ router'.users = InForce /\ router.users <= router'.users
    BY <1>0, <1>4, <2>1 DEF InstallRouter, InForce, TypeOK
  <2>3. TypeOK'
    BY <1>0, <1>4, <2>2 DEF InstallRouter, TypeOK, Return, HistoryInv, CopyInto
  <2>4. HistoryInv' /\ BufInv'
    BY <1>0, <1>4 DEF InstallRouter, HistoryInv, BufInv, CopyInto, Return, TypeOK
  <2>5. UsersInv'
    <3>1. InForce' = InForce
      BY <1>4, <2>2 DEF InstallRouter, Return, InForce
    <3>2. UsersOf(InForce)' = UsersOf(InForce)
      BY <1>4, <3>1 DEF InstallRouter, UsersOf, EmptyList
    <3>3. router'.users # 0 => history[router'.users].users # Nil
      BY <1>0, <1>4, <2>2 DEF InstallRouter, UsersInv, InForce
    <3>4. router'.users \in 0..Len(history)
      BY <1>0, <2>1, <2>2 DEF UsersInv, InForce
    <3> QED
      BY <1>0, <1>4, <2>1, <2>2, <3>2, <3>3, <3>4 DEF InstallRouter, UsersInv
  <2>6. RequestInv'
    BY <1>0, <1>4, <2>2 DEF InstallRouter, RequestInv, TypeOK
  <2>7. GrantIsConfigured'
    BY <1>4 DEF IInv, InstallRouter, GrantIsConfigured, GrantedBy, UsersOf, EmptyList
  <2>8. ConnInv' /\ NoLeak' /\ OutageSurvived'
    BY <1>4 DEF IInv, InstallRouter, Return, ConnInv, NoLeak, OutageSurvived
  <2> QED
    BY <2>3, <2>4, <2>5, <2>6, <2>7, <2>8 DEF IInv
<1> QED
  BY <1>1, <1>2, <1>3, <1>4 DEF Parse

\* The steps of main and of stopping, and the database going down and up.
LEMMA OtherIInv ==
  ASSUME IInv, Signal \/ StopReader \/ Exit \/ DbDown \/ DbUp \/ Ended
  PROVE  IInv'
<1> USE DEF oracle, reader, installed, vars
<1>1. HistoryInv' /\ UsersInv' /\ RequestInv' /\ GrantIsConfigured'
  <2>1. UNCHANGED <<history, conectionString, installed, req>>
    BY DEF Signal, StopReader, Exit, DbDown, DbUp, Ended
  <2>2. \/ rpc' = rpc /\ buf' = buf
        \/ rpc # "router" /\ rpc' # "router"
    BY DEF Signal, StopReader, Exit, DbDown, DbUp, Ended
  <2> QED
    BY <2>1, <2>2, Quiet
<1>2. TypeOK'
  <2>1. CASE Signal \/ Exit \/ DbUp \/ Ended
    BY <2>1 DEF IInv, TypeOK, Signal, Exit, DbUp, Ended
  <2>2. CASE StopReader
    BY <2>2 DEF IInv, TypeOK, StopReader
  <2>3. CASE DbDown
    <3>1. dbUp' \in BOOLEAN
      BY <2>3, Zenon DEF DbDown
    <3>2. outages' \in Nat
      BY <2>3 DEF IInv, TypeOK, DbDown
    <3>3. conn' \in {Nil, "open", "broken"}
      BY <2>3 DEF IInv, TypeOK, DbDown
    <3> QED
      BY <2>3, <3>1, <3>2, <3>3 DEF IInv, TypeOK, DbDown
  <2> QED
    BY <2>1, <2>2, <2>3
<1>3. BufInv' /\ ConnInv'
  BY ConfigConstants
  DEF IInv, BufInv, ConnInv, Signal, StopReader, Exit, DbDown, DbUp, Ended
<1>4. NoLeak'
  BY ConfigConstants
  DEF IInv, TypeOK, NoLeak, Signal, StopReader, Exit, DbDown, DbUp, Ended
<1>5. OutageSurvived'
  BY ConfigConstants
  DEF IInv, OutageSurvived, Signal, StopReader, Exit, DbDown, DbUp, Ended, Alive
<1> QED
  BY <1>1, <1>2, <1>3, <1>4, <1>5 DEF IInv

\* A request: Lookup is the step that grants.
LEMMA HandleIInv ==
  ASSUME IInv, NEW r \in Requests, Handle(r)
  PROVE  IInv'
<1> USE DEF oracle, reader, installed
<1>0. TypeOK /\ HistoryInv /\ BufInv /\ UsersInv /\ RequestInv /\ GrantIsConfigured
  BY DEF IInv
<1>1. UNCHANGED <<oracle, reader, conectionString, installed>>
  BY DEF Handle, Arrive, Lookup, Finish
<1>2. HistoryInv' /\ BufInv' /\ ConnInv' /\ NoLeak' /\ OutageSurvived'
  BY <1>1 DEF IInv, HistoryInv, BufInv, ConnInv, NoLeak, OutageSurvived
<1>3. UsersInv' /\ \A v : UsersOf(v)' = UsersOf(v)
  BY <1>0, <1>1 DEF UsersInv, InForce, UsersOf, EmptyList
<1>4. SUFFICES TypeOK' /\ RequestInv' /\ GrantIsConfigured'
  BY <1>2, <1>3 DEF IInv
<1>a. ASSUME \A s \in Requests : req'[s].pc = "answered" => req'[s] = req[s]
      PROVE  GrantIsConfigured'
  <2> SUFFICES ASSUME NEW s \in Requests, req'[s].pc = "answered",
                      req'[s].connStr # Nil
               PROVE  \E v \in req'[s].rt.users .. Len(history') :
                        UsersOf(v)' # Nil /\ GrantedBy(req[s], v)'
    BY <1>1, <1>a DEF GrantIsConfigured, GrantedBy
  <2>1. req'[s] = req[s]
    BY <1>a
  <2>2. PICK v \in req[s].rt.users .. Len(history) :
               UsersOf(v) # Nil /\ GrantedBy(req[s], v)
    BY <1>0, <2>1 DEF GrantIsConfigured
  <2>3. UsersOf(v)' = UsersOf(v) /\ GrantedBy(req[s], v)'
    BY <1>1, <1>3, <2>1, <2>2 DEF GrantedBy
  <2> QED
    BY <1>1, <2>1, <2>2, <2>3
<1>5. CASE \E n \in Names : Arrive(r, n)
  <2>1. TypeOK'
    BY <1>0, <1>1, <1>5 DEF Arrive, TypeOK
  <2>2. RequestInv'
    BY <1>0, <1>1, <1>5 DEF Arrive, TypeOK, RequestInv, UsersInv
  <2>3. GrantIsConfigured'
    BY <1>0, <1>5, <1>a DEF Arrive, TypeOK
  <2> QED
    BY <2>1, <2>2, <2>3
<1>6. CASE Finish(r)
  <2>1. TypeOK'
    BY <1>0, <1>1, <1>6 DEF Finish, TypeOK, IdleRequest, NoRouter
  <2>2. RequestInv'
    BY <1>0, <1>1, <1>6 DEF Finish, TypeOK, RequestInv, IdleRequest
  <2>3. GrantIsConfigured'
    BY <1>0, <1>6, <1>a DEF Finish, TypeOK, IdleRequest
  <2> QED
    BY <2>1, <2>2, <2>3
<1>7. CASE Lookup(r)
  <2> DEFINE q == req[r]
             grps == history[q.rt.doc].grps
             g == ulist[q.user]
  <2>1. /\ q.pc = "routed" /\ q.rt.doc \in 1..Len(history)
        /\ q.rt.users <= router.users /\ q.user \in Names
    BY <1>0, <1>7 DEF Lookup, RequestInv
  <2>2. grps \in [Grps -> Sids \cup {Nil}] /\ g \in Grps \cup {Nil}
    BY <1>0, <2>1, Stored DEF TypeOK, UserLists
  <2>3. conectionString \in Sids \cup {Nil}
    BY <1>0, ConfigConstants DEF TypeOK
  <2>4. getConnectionParams(q.user, grps) \in Sids \cup {Nil}
    BY <2>2, <2>3 DEF getConnectionParams
  <2>5. /\ req' \in [Requests -> [pc : {"idle", "routed", "answered"}, rt : Routers,
                         user : Names \cup {Nil}, connStr : Sids \cup {Nil}]]
        /\ req'[r].pc = "answered" /\ req'[r].rt = q.rt /\ req'[r].user = q.user
        /\ req'[r].connStr = getConnectionParams(q.user, grps)
        /\ \A s \in Requests : s # r => req'[s] = req[s]
    BY <1>0, <1>7, <2>4 DEF Lookup, TypeOK
  <2>6. TypeOK'
    BY <1>0, <1>1, <2>5 DEF TypeOK
  <2>7. RequestInv'
    BY <1>0, <1>1, <2>1, <2>5 DEF RequestInv
  <2>8. InForce \in q.rt.users .. Len(history) /\ UsersOf(InForce) # Nil
    <3>1. InForce \in router.users .. Len(history)
      BY <1>0 DEF BufInv, UsersInv, InForce, TypeOK
    <3>2. UsersOf(InForce) # Nil
      BY <1>0, ConfigConstants DEF UsersInv, TypeOK
    <3>3. q.rt.users \in Nat /\ router.users \in Nat
      BY <1>0 DEF TypeOK
    <3> QED
      BY <1>0, <2>1, <3>1, <3>2, <3>3 DEF TypeOK
  <2>9. req'[r].connStr # Nil => GrantedBy(req'[r], InForce)
    <3>1. UsersOf(InForce)[q.user] = g
      BY <1>0 DEF UsersInv
    <3> QED
      BY <2>5, <3>1 DEF GrantedBy, getConnectionParams
  <2>10. ASSUME NEW s \in Requests, req'[s].pc = "answered", req'[s].connStr # Nil
         PROVE  \E v \in req'[s].rt.users .. Len(history) :
                  UsersOf(v) # Nil /\ GrantedBy(req'[s], v)
    <3>1. CASE s = r
      BY <2>5, <2>8, <2>9, <2>10, <3>1
    <3>2. CASE s # r
      BY <1>0, <2>5, <2>10, <3>2 DEF GrantIsConfigured
    <3> QED
      BY <3>1, <3>2
  <2>11. GrantIsConfigured'
    BY <1>1, <2>10 DEF GrantIsConfigured, GrantedBy, UsersOf, EmptyList
  <2> QED
    BY <2>6, <2>7, <2>11
<1> QED
  BY <1>5, <1>6, <1>7 DEF Handle

\* A new document is appended: what was said of the stored ones remains.
LEMMA EditIInv ==
  ASSUME IInv, NEW d \in Documents, Edit(d)
  PROVE  IInv'
<1> USE DEF oracle, reader, installed
<1>0. TypeOK /\ HistoryInv /\ BufInv /\ UsersInv /\ RequestInv /\ GrantIsConfigured
  BY DEF IInv
<1>1. /\ history' \in Seq(Documents) /\ Len(history) \in Nat
      /\ Len(history') = Len(history) + 1
      /\ \A v \in 1..Len(history) : history'[v] = history[v]
  BY <1>0 DEF Edit, TypeOK
<1>2. UNCHANGED <<dbUp, outages, reader, conectionString, installed, req>>
  BY DEF Edit
<1>3. \A v \in 0..Len(history) : UsersOf(v)' = UsersOf(v)
  BY <1>1 DEF UsersOf, EmptyList
<1>4. TypeOK'
  BY <1>0, <1>1, <1>2 DEF TypeOK
<1>5. HistoryInv' /\ BufInv'
  BY <1>0, <1>1, <1>2 DEF HistoryInv, BufInv
<1>6. ConnInv' /\ NoLeak'
  BY <1>2 DEF IInv, ConnInv, NoLeak
<1>7. OutageSurvived'
  BY <1>0, <1>1, <1>2 DEF IInv, OutageSurvived, BufInv
<1>8. UsersInv'
  <2>1. InForce' = InForce /\ InForce \in 0..Len(history)
    BY <1>0, <1>1, <1>2 DEF InForce, BufInv, UsersInv
  <2> QED
    BY <1>0, <1>1, <1>2, <1>3, <2>1 DEF UsersInv, UsersOf
<1>9. RequestInv'
  BY <1>0, <1>1, <1>2 DEF RequestInv
<1>10. GrantIsConfigured'
  <2> SUFFICES ASSUME NEW r \in Requests, req[r].pc = "answered", req[r].connStr # Nil
               PROVE  \E v \in req[r].rt.users .. Len(history') :
                        UsersOf(v)' # Nil /\ GrantedBy(req[r], v)'
    BY <1>2 DEF GrantIsConfigured, GrantedBy
  <2>1. PICK v \in req[r].rt.users .. Len(history) :
               UsersOf(v) # Nil /\ GrantedBy(req[r], v)
    BY <1>0 DEF GrantIsConfigured
  <2>2. v \in 0..Len(history) /\ v \in req[r].rt.users .. Len(history')
    BY <1>0, <1>1, <2>1 DEF TypeOK
  <2>3. history'[req[r].rt.doc] = history[req[r].rt.doc]
    BY <1>0, <1>1 DEF RequestInv
  <2>4. UsersOf(v)' = UsersOf(v)
    BY <1>3, <2>2
  <2>5. GrantedBy(req[r], v)'
    BY <1>2, <2>1, <2>3, <2>4 DEF GrantedBy
  <2> QED
    BY <2>1, <2>2, <2>4, <2>5
<1> QED
  BY <1>4, <1>5, <1>6, <1>7, <1>8, <1>9, <1>10 DEF IInv

\* The inductive invariant holds in every reachable state.
THEOREM Invariance == Spec => []IInv
<1>1. IInv /\ [Next]_vars => IInv'
  <2> SUFFICES ASSUME IInv, [Next]_vars PROVE IInv'
    OBVIOUS
  <2>1. CASE UNCHANGED vars
    <3> USE <2>1 DEF vars, oracle, reader, installed
    <3>1. TypeOK' /\ HistoryInv' /\ BufInv'
      BY DEF IInv, TypeOK, HistoryInv, BufInv
    <3>2. UsersInv' /\ RequestInv' /\ ConnInv'
      BY DEF IInv, UsersInv, InForce, UsersOf, EmptyList, RequestInv, ConnInv
    <3>3. GrantIsConfigured'
      BY DEF IInv, GrantIsConfigured, GrantedBy, UsersOf, EmptyList
    <3>4. NoLeak' /\ OutageSurvived'
      BY DEF IInv, NoLeak, OutageSurvived
    <3>5. QED
      BY <3>1, <3>2, <3>3, <3>4 DEF IInv
  <2>2. CASE Next
    BY <2>2, ReadIInv, ParseIInv, OtherIInv, HandleIInv, EditIInv DEF Next
  <2> QED
    BY <2>1, <2>2
<1> QED
  BY InitIInv, <1>1, PTL DEF Spec

\* Every variable keeps its type.
THEOREM TypeCorrect == Spec => []TypeOK
<1>1. IInv => TypeOK
  BY DEF IInv
<1> QED
  BY Invariance, <1>1, PTL

\* Between installations ulist is the list of the newest installed document that
\* has users (parseConfig, updateUsers).
THEOREM Users == Spec => []UsersInForce
<1>1. IInv => UsersInForce
  BY DEF IInv, UsersInv, UsersInForce, InForce, confLockHeld
<1> QED
  BY Invariance, <1>1, PTL

\* A request is never granted a connection by users older than its router.
THEOREM Granted == Spec => []GrantIsConfigured
<1>1. IInv => GrantIsConfigured
  BY DEF IInv
<1> QED
  BY Invariance, <1>1, PTL

\* The reader never loses a connection of the driver.
THEOREM Unleaked == Spec => []NoLeak
<1>1. IInv => NoLeak
  BY DEF IInv
<1> QED
  BY Invariance, <1>1, PTL

\* Outages and failed readings do not end the process.
THEOREM Survival == Spec => []OutageSurvived
<1>1. IInv => OutageSurvived
  BY DEF IInv
<1> QED
  BY Invariance, <1>1, PTL
=============================================================================
