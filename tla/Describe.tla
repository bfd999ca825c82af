------------------------------ MODULE Describe ------------------------------
(***************************************************************************)
(* The cache of procedure descriptions, otasker/describe.go, for one key    *)
(* "connStr.procedure" of plist; entries of different keys are independent. *)
(*                                                                         *)
(* Before each request the listener goroutine of a tasker calls Describe:   *)
(* it reads the time stamp of the cached entry under the read lock, asks    *)
(* the database whether the object has changed since (stm_descr_short),     *)
(* fetches the arguments if so (stm_descr_long) and replaces the entry      *)
(* under the write lock.  It then looks up each argument of the request,    *)
(* one read lock at a time.  The locks are not held between these steps.    *)
(*                                                                         *)
(* Oracle is external: DDL of other sessions changes objects at any time,   *)
(* an object may become invalid, and a query may fail.  last_ddl_time has a *)
(* resolution of one second: clock counts seconds.  What an argument list   *)
(* says is represented by the object and the version it describes.          *)
(***************************************************************************)
EXTENDS Integers, Sequences

CONSTANTS
  Callers,    \* listener goroutines of taskers with this connStr
  Users,      \* database users
  Objects,    \* stored procedures that the name may stand for
  Resolve,    \* [Users -> Objects]: DBMS_UTILITY.NAME_RESOLVE of the name
  Nil,
  MaxTime,    \* bound: seconds
  MaxVersion, \* bound: versions of an object
  MaxArgs     \* bound: arguments of a request

ASSUME DescribeConstants ==
  /\ Resolve \in [Users -> Objects]
  /\ Nil \notin [obj : Objects, ver : Nat \ {0}]
  /\ Nil \notin [timestamp : Nat, list : [obj : Objects, ver : Nat \ {0}]]
  /\ MaxTime \in Nat /\ MaxVersion \in Nat \ {0} /\ MaxArgs \in Nat

VARIABLES
  clock,   \* sysdate
  born,    \* [Objects -> the seconds in which its versions were created]
  ddl,     \* [Objects -> last_ddl_time]
  valid,   \* [Objects -> status is not 'INVALID']
  plist,   \* the cache entry of the key
  pc, user, timestamp, rows, \* [Callers -> locals of Describe]
  asked    \* [Callers -> arguments looked up so far]

database == <<clock, born, ddl, valid>>
vars == <<database, plist, pc, user, timestamp, rows, asked>>

\* The zero time.Time, before any last_ddl_time.
NoTime == 0

\* What identifies an argument list.
Current(o) == [obj |-> o, ver |-> Len(born[o])]

Init ==
  /\ clock = 2
  /\ born \in [Objects -> {<<1>>, <<2>>}]
  /\ ddl = [o \in Objects |-> born[o][1]] /\ valid = [o \in Objects |-> TRUE]
  /\ plist = Nil
  /\ pc = [c \in Callers |-> "idle"] /\ user = [c \in Callers |-> Nil]
  /\ timestamp = [c \in Callers |-> NoTime] /\ rows = [c \in Callers |-> Nil]
  /\ asked = [c \in Callers |-> 0]

-----------------------------------------------------------------------------
\* The caller is done with the description; its locals are gone.
Return(c) ==
  /\ pc' = [pc EXCEPT ![c] = "idle"] /\ user' = [user EXCEPT ![c] = Nil]
  /\ timestamp' = [timestamp EXCEPT ![c] = NoTime]
  /\ rows' = [rows EXCEPT ![c] = Nil] /\ asked' = [asked EXCEPT ![c] = 0]

(* Describe.                                                                *)

\* ProcedureInfo, under the read lock.
Call(c, u) ==
  /\ pc[c] = "idle"
  /\ user' = [user EXCEPT ![c] = u]
  /\ timestamp' = [timestamp EXCEPT ![c] =
                     IF plist = Nil THEN NoTime ELSE plist.timestamp]
  /\ pc' = [pc EXCEPT ![c] = "short"]
  /\ UNCHANGED <<database, plist, rows, asked>>

\* stm_descr_short recompiles an invalid object, which is a DDL of its own.
Compile(o) ==
  /\ valid' = [valid EXCEPT ![o] = TRUE]
  /\ ddl' = [ddl EXCEPT ![o] = IF valid[o] THEN @ ELSE clock]
  /\ UNCHANGED <<clock, born>>

\* :updated = 0: the entry is as new as the object.
ShortSame(c) ==
  /\ pc[c] = "short"
  /\ Compile(Resolve[user[c]])
  /\ ddl'[Resolve[user[c]]] <= timestamp[c]
  /\ pc' = [pc EXCEPT ![c] = "described"]
  /\ UNCHANGED <<plist, user, timestamp, rows, asked>>

\* :updated = 1, and :last_ddl_time is the object's.
ShortUpdated(c) ==
  /\ pc[c] = "short"
  /\ Compile(Resolve[user[c]])
  /\ ddl'[Resolve[user[c]]] > timestamp[c]
  /\ timestamp' = [timestamp EXCEPT ![c] = ddl'[Resolve[user[c]]]]
  /\ pc' = [pc EXCEPT ![c] = "long"]
  /\ UNCHANGED <<plist, user, rows, asked>>

\* Mutant: the error of FetchAll is not looked at.
Long_NoRows(c) ==
  /\ pc[c] = "long"
  /\ rows' = [rows EXCEPT ![c] = Nil]
  /\ pc' = [pc EXCEPT ![c] = "store"]
  /\ UNCHANGED <<database, plist, user, timestamp, asked>>

\* stm_descr_long for the object_id that the short query returned.
Long(c) ==
  /\ pc[c] = "long"
  /\ rows' = [rows EXCEPT ![c] = Current(Resolve[user[c]])]
  /\ pc' = [pc EXCEPT ![c] = "store"]
  /\ UNCHANGED <<database, plist, user, timestamp, asked>>

\* An error of either query ends Describe, and with it the request.
QueryFails(c) ==
  /\ pc[c] \in {"short", "long"}
  /\ Return(c)
  /\ UNCHANGED <<database, plist>>

\* Mutant: the entry is stamped with the present time.
Store_Now(c) ==
  /\ pc[c] = "store"
  /\ plist' = [timestamp |-> clock, list |-> rows[c]]
  /\ pc' = [pc EXCEPT ![c] = "described"]
  /\ UNCHANGED <<database, user, timestamp, rows, asked>>

\* Mutant: an existing entry keeps its arguments.
Store_KeepArgs(c) ==
  /\ pc[c] = "store"
  /\ plist' = [timestamp |-> timestamp[c],
               list |-> IF plist = Nil THEN rows[c] ELSE plist.list]
  /\ pc' = [pc EXCEPT ![c] = "described"]
  /\ UNCHANGED <<database, user, timestamp, rows, asked>>

\* The entry is created, or emptied and filled again, under the write lock.
Store(c) ==
  /\ pc[c] = "store"
  /\ plist' = [timestamp |-> timestamp[c], list |-> rows[c]]
  /\ pc' = [pc EXCEPT ![c] = "described"]
  /\ UNCHANGED <<database, user, timestamp, rows, asked>>

-----------------------------------------------------------------------------
(* The caller, oracleTasker.run.                                            *)

\* ArgumentInfo for the next argument, under the read lock.
ArgumentInfo(c) ==
  /\ pc[c] = "described" /\ asked[c] < MaxArgs
  /\ rows' = [rows EXCEPT ![c] = plist.list]
  /\ asked' = [asked EXCEPT ![c] = @ + 1]
  /\ UNCHANGED <<database, plist, pc, user, timestamp>>

\* ProcedureInfo for the package name; run goes on with the statement.
ProcedureInfo(c) ==
  /\ pc[c] = "described" /\ plist # Nil
  /\ Return(c)
  /\ UNCHANGED <<database, plist>>

-----------------------------------------------------------------------------
(* Oracle.                                                                  *)

\* create or replace
Ddl(o) ==
  /\ Len(born[o]) < MaxVersion
  /\ born' = [born EXCEPT ![o] = Append(@, clock)]
  /\ ddl' = [ddl EXCEPT ![o] = clock] /\ valid' = [valid EXCEPT ![o] = TRUE]
  /\ UNCHANGED <<clock, plist, pc, user, timestamp, rows, asked>>

\* Something the object depends on has changed.
Invalidate(o) ==
  /\ valid[o] /\ Len(born[o]) < MaxVersion
  /\ valid' = [valid EXCEPT ![o] = FALSE]
  /\ UNCHANGED <<clock, born, ddl, plist, pc, user, timestamp, rows, asked>>

Tick ==
  /\ clock < MaxTime
  /\ clock' = clock + 1
  /\ UNCHANGED <<born, ddl, valid, plist, pc, user, timestamp, rows, asked>>

-----------------------------------------------------------------------------
Step(c) ==
  \/ ShortSame(c) \/ ShortUpdated(c) \/ Long(c) \/ QueryFails(c) \/ Store(c)
  \/ ArgumentInfo(c) \/ ProcedureInfo(c)

Next ==
  \/ \E c \in Callers : Step(c) \/ \E u \in Users : Call(c, u)
  \/ \E o \in Objects : Ddl(o) \/ Invalidate(o)
  \/ Tick

Spec == Init /\ [][Next]_vars

-----------------------------------------------------------------------------
(* Properties.                                                              *)

Lists == [obj : Objects, ver : Nat \ {0}]

TypeOK ==
  /\ clock \in Nat
  /\ born \in [Objects -> Seq(Nat)]
  /\ ddl \in [Objects -> Nat] /\ valid \in [Objects -> BOOLEAN]
  /\ plist \in [timestamp : Nat, list : Lists] \cup {Nil}
  /\ pc \in [Callers -> {"idle", "short", "long", "store", "described"}]
  /\ user \in [Callers -> Users \cup {Nil}]
  /\ timestamp \in [Callers -> Nat]
  /\ rows \in [Callers -> Lists \cup {Nil}]
  /\ asked \in [Callers -> 0..MaxArgs]

\* The versions of l's object that are newer than l were created at t or later.
NewerSince(l, t) ==
  \A v \in l.ver + 1 .. Len(born[l.obj]) : born[l.obj][v] >= t

\* A stale entry is detectable, in any interleaving of Describes and DDL: when
\* the cached argument list is not the current one, what it misses has happened
\* no earlier than its time stamp.  So the comparison in stm_descr_short sends
\* the next Describe to the long query, unless the change fell into the very
\* second the time stamp names.
StaleIsDetectable == plist # Nil => NewerSince(plist.list, plist.timestamp)

\* The entry has the current arguments, or misses only changes of the second
\* that its time stamp names, which no Describe can notice.
Fresh ==
  plist # Nil /\ \A v \in plist.list.ver + 1 .. Len(born[plist.list.obj]) :
                    born[plist.list.obj][v] = plist.timestamp

-----------------------------------------------------------------------------
(* What a comment of describe.go says and the code does not do.             *)

\* "We ALWAYS check whether there were changes": the arguments looked up after
\* Describe are those of the object that the caller's procedure name stands for.
ChecksOwnObject ==
  \A c \in Callers : pc[c] = "described" /\ asked[c] > 0 =>
    rows[c].obj = Resolve[user[c]]
=============================================================================
