--------------------------- MODULE DescribeProofs ---------------------------
(***************************************************************************)
(* A stale cache entry is detectable, for any number of callers, users,     *)
(* objects, versions and seconds.                                          *)
(***************************************************************************)
EXTENDS Describe, TLAPS

\* The database's clock is not behind a last_ddl_time, which is later than the
\* zero time, and every object has a version.
DatabaseInv ==
  \A o \in Objects : ddl[o] \in 1..clock /\ Len(born[o]) >= 1

\* A caller on its way to the long query, or back from it, has a time stamp of
\* the past; the list it brings back misses only what happened since then.  One
\* that has described its procedure has an entry to look at.
CallerInv ==
  \A c \in Callers :
    /\ pc[c] # "idle" => user[c] \in Users
    /\ pc[c] = "short" => timestamp[c] = NoTime \/ plist # Nil
    /\ pc[c] \in {"long", "store"} => timestamp[c] <= clock
    /\ pc[c] = "store" => rows[c] \in Lists /\ NewerSince(rows[c], timestamp[c])
    /\ pc[c] = "described" => plist # Nil

\* The cached list misses only what happened since its time stamp, which is in
\* the past.
EntryInv ==
  plist # Nil =>
    plist.timestamp <= clock /\ NewerSince(plist.list, plist.timestamp)

IInv == TypeOK /\ DatabaseInv /\ CallerInv /\ EntryInv

USE DEF NoTime

\* The initial database, in which nothing is cached or under way.
LEMMA InitIInv == Init => IInv
<1> SUFFICES ASSUME Init PROVE IInv
  OBVIOUS
<1>1. born \in [Objects -> Seq(Nat)] /\ \A o \in Objects : Len(born[o]) = 1
  <2>1. /\ <<1>> \in Seq(Nat) /\ Len(<<1>>) = 1
        /\ <<2>> \in Seq(Nat) /\ Len(<<2>>) = 1
    OBVIOUS
  <2>2. born \in [Objects -> {<<1>>, <<2>>}]
    BY DEF Init
  <2> QED
    BY <2>1, <2>2
<1>2. \A o \in Objects : born[o][1] \in {1, 2}
  BY DEF Init
<1>3. TypeOK
  BY <1>1, <1>2, DescribeConstants DEF Init, TypeOK
<1>4. DatabaseInv
  BY <1>1, <1>2 DEF Init, DatabaseInv
<1> QED
  BY <1>3, <1>4 DEF Init, IInv, CallerInv, EntryInv

\* A step of a caller: only Store touches the entry.
LEMMA StepIInv ==
  ASSUME IInv, NEW c \in Callers, Step(c)
  PROVE  IInv'
<1>0. TypeOK /\ DatabaseInv /\ CallerInv /\ EntryInv
  BY DEF IInv
<1>1. pc[c] # "idle" => Resolve[user[c]] \in Objects
  BY <1>0, DescribeConstants DEF CallerInv
<1>2. \A o \in Objects : Compile(o) =>
        /\ ddl' \in [Objects -> Nat] /\ valid' \in [Objects -> BOOLEAN]
        /\ clock' = clock /\ born' = born
        /\ \A p \in Objects : ddl'[p] \in 1..clock
  BY <1>0 DEF Compile, TypeOK, DatabaseInv
<1>3. CASE ShortSame(c)
  <2>1. /\ ddl' \in [Objects -> Nat] /\ valid' \in [Objects -> BOOLEAN]
        /\ clock' = clock /\ born' = born
        /\ \A p \in Objects : ddl'[p] \in 1..clock
    BY <1>1, <1>2, <1>3 DEF ShortSame
  <2>2. plist # Nil
    <3>1. ddl'[Resolve[user[c]]] \in 1..clock /\ clock \in Nat
      BY <1>0, <1>1, <1>3, <2>1 DEF ShortSame, TypeOK
    <3>2. timestamp[c] # NoTime
      BY <1>0, <1>3, <3>1 DEF ShortSame, TypeOK
    <3> QED
      BY <1>0, <1>3, <3>2 DEF ShortSame, CallerInv
  <2>3. TypeOK'
    BY <1>0, <1>3, <2>1 DEF ShortSame, TypeOK
  <2>4. DatabaseInv'
    BY <1>0, <2>1 DEF DatabaseInv
  <2>5. CallerInv'
    BY <1>0, <1>3, <2>1, <2>2 DEF ShortSame, CallerInv, TypeOK, NewerSince
  <2>6. EntryInv'
    BY <1>0, <1>3, <2>1 DEF ShortSame, EntryInv, NewerSince
  <2> QED
    BY <2>3, <2>4, <2>5, <2>6 DEF IInv
<1>4. CASE ShortUpdated(c)
  <2>1. /\ ddl' \in [Objects -> Nat] /\ valid' \in [Objects -> BOOLEAN]
        /\ clock' = clock /\ born' = born
        /\ \A p \in Objects : ddl'[p] \in 1..clock
    BY <1>1, <1>2, <1>4 DEF ShortUpdated
  <2>2. Resolve[user[c]] \in Objects
    BY <1>1, <1>4 DEF ShortUpdated
  <2>3. TypeOK'
    BY <1>0, <1>4, <2>1, <2>2 DEF ShortUpdated, TypeOK
  <2>4. DatabaseInv'
    BY <1>0, <2>1 DEF DatabaseInv
  <2>5. timestamp'[c] <= clock'
    BY <1>0, <1>4, <2>1, <2>2 DEF ShortUpdated, TypeOK
  <2>6. CallerInv'
    BY <1>0, <1>4, <2>1, <2>5 DEF ShortUpdated, CallerInv, TypeOK, NewerSince
  <2>7. EntryInv'
    BY <1>0, <1>4, <2>1 DEF ShortUpdated, EntryInv, NewerSince
  <2> QED
    BY <2>3, <2>4, <2>6, <2>7 DEF IInv
<1>5. CASE Long(c)
  <2>1. Resolve[user[c]] \in Objects /\ UNCHANGED <<database, plist>>
    BY <1>1, <1>5 DEF Long
  <2>2. rows'[c] \in Lists /\ NewerSince(rows'[c], timestamp[c])
    BY <1>0, <1>5, <2>1
    DEF Long, TypeOK, DatabaseInv, Current, Lists, NewerSince
  <2>3. TypeOK'
    BY <1>0, <1>5, <2>2 DEF Long, TypeOK, database
  <2>4. CallerInv'
    BY <1>0, <1>5, <2>2 DEF Long, CallerInv, TypeOK, NewerSince, database
  <2> QED
    BY <1>0, <2>1, <2>3, <2>4
    DEF IInv, DatabaseInv, EntryInv, NewerSince, database
<1>6. CASE QueryFails(c) \/ ProcedureInfo(c)
  <2>1. Return(c) /\ UNCHANGED <<database, plist>>
    BY <1>6 DEF QueryFails, ProcedureInfo
  <2>2. TypeOK'
    BY <1>0, <2>1, DescribeConstants DEF Return, TypeOK, database
  <2>3. CallerInv'
    BY <1>0, <2>1 DEF Return, CallerInv, TypeOK, NewerSince, database
  <2> QED
    BY <1>0, <2>1, <2>2, <2>3
    DEF IInv, DatabaseInv, EntryInv, NewerSince, database
<1>7. CASE Store(c)
  <2>1. /\ plist' = [timestamp |-> timestamp[c], list |-> rows[c]]
        /\ UNCHANGED <<database, user, timestamp, rows, asked>>
        /\ pc[c] = "store" /\ pc' = [pc EXCEPT ![c] = "described"]
    BY <1>7 DEF Store
  <2>2. /\ rows[c] \in Lists /\ NewerSince(rows[c], timestamp[c])
        /\ timestamp[c] <= clock
    BY <1>0, <2>1 DEF CallerInv
  <2>3. TypeOK'
    BY <1>0, <2>1, <2>2 DEF TypeOK, database
  <2>4. EntryInv'
    BY <2>1, <2>2 DEF EntryInv, NewerSince, database
  <2>5. plist' # Nil
    BY <1>0, <2>1, <2>2, DescribeConstants DEF TypeOK, Lists
  <2>6. CallerInv'
    BY <1>0, <2>1, <2>5 DEF CallerInv, TypeOK, NewerSince, database
  <2> QED
    BY <1>0, <2>1, <2>3, <2>4, <2>6 DEF IInv, DatabaseInv, database
<1>8. CASE ArgumentInfo(c)
  <2>1. plist \in [timestamp : Nat, list : Lists]
    BY <1>0, <1>8 DEF ArgumentInfo, CallerInv, TypeOK
  <2>2. TypeOK'
    BY <1>0, <1>8, <2>1, DescribeConstants DEF ArgumentInfo, TypeOK, database
  <2>3. CallerInv'
    BY <1>0, <1>8 DEF ArgumentInfo, CallerInv, TypeOK, NewerSince, database
  <2> QED
    BY <1>0, <1>8, <2>2, <2>3
    DEF ArgumentInfo, IInv, DatabaseInv, EntryInv, NewerSince, database
<1> QED
  BY <1>3, <1>4, <1>5, <1>6, <1>7, <1>8 DEF Step

\* DDL of another session: the new version is born now, after every time stamp.
LEMMA DdlIInv ==
  ASSUME IInv, NEW o \in Objects, Ddl(o)
  PROVE  IInv'
<1>0. TypeOK /\ DatabaseInv /\ CallerInv /\ EntryInv
  BY DEF IInv
<1>1. clock' = clock /\ clock \in Nat \ {0}
  BY <1>0 DEF Ddl, TypeOK, DatabaseInv
<1>2. \A p \in Objects :
        /\ born'[p] \in Seq(Nat) /\ Len(born'[p]) >= Len(born[p])
        /\ \A v \in 1..Len(born[p]) : born'[p][v] = born[p][v]
        /\ \A v \in Len(born[p]) + 1 .. Len(born'[p]) : born'[p][v] = clock
  BY <1>0, <1>1 DEF Ddl, TypeOK
<1>3. ASSUME NEW l \in Lists, NEW t \in Nat, t <= clock, NewerSince(l, t)
      PROVE  NewerSince(l, t)'
  <2>1. l.obj \in Objects /\ l.ver \in Nat
    BY DEF Lists
  <2>2. Len(born[l.obj]) \in Nat /\ Len(born'[l.obj]) \in Nat
    BY <1>0, <1>2, <2>1 DEF TypeOK
  <2>3. ASSUME NEW v \in l.ver + 1 .. Len(born'[l.obj])
        PROVE  born'[l.obj][v] >= t
    <3>1. CASE v <= Len(born[l.obj])
      <4>1. v \in l.ver + 1 .. Len(born[l.obj]) /\ v \in 1..Len(born[l.obj])
        BY <2>1, <2>2, <3>1
      <4> QED
        BY <1>2, <1>3, <2>1, <4>1 DEF NewerSince
    <3>2. CASE v > Len(born[l.obj])
      <4>1. v \in Len(born[l.obj]) + 1 .. Len(born'[l.obj])
        BY <2>1, <2>2, <3>2
      <4> QED
        BY <1>1, <1>2, <1>3, <2>1, <4>1
    <3> QED
      BY <2>1, <2>2, <3>1, <3>2
  <2> QED
    BY <2>3 DEF NewerSince
<1>4. TypeOK'
  BY <1>0, <1>1, <1>2 DEF Ddl, TypeOK
<1>5. DatabaseInv'
  BY <1>0, <1>1, <1>2 DEF Ddl, TypeOK, DatabaseInv
<1>6. CallerInv'
  BY <1>0, <1>1, <1>3 DEF Ddl, CallerInv, TypeOK
<1>7. EntryInv'
  BY <1>0, <1>1, <1>3 DEF Ddl, EntryInv, TypeOK
<1> QED
  BY <1>4, <1>5, <1>6, <1>7 DEF IInv

\* The invariant is inductive.
LEMMA NextIInv == IInv /\ [Next]_vars => IInv'
<1> SUFFICES ASSUME IInv, [Next]_vars PROVE IInv'
  OBVIOUS
<1>0. TypeOK /\ DatabaseInv /\ CallerInv /\ EntryInv
  BY DEF IInv
<1>1. CASE \E c \in Callers : Step(c)
  BY <1>1, StepIInv
<1>2. ASSUME NEW c \in Callers, NEW u \in Users, Call(c, u) PROVE IInv'
  <2>1. timestamp'[c] \in Nat /\ (timestamp'[c] = NoTime \/ plist # Nil)
    BY <1>0, <1>2 DEF Call, TypeOK
  <2>2. TypeOK'
    BY <1>0, <1>2, <2>1 DEF Call, TypeOK, database
  <2>3. CallerInv'
    BY <1>0, <1>2, <2>1 DEF Call, CallerInv, TypeOK, NewerSince, database
  <2> QED
    BY <1>0, <1>2, <2>2, <2>3
    DEF Call, IInv, DatabaseInv, EntryInv, NewerSince, database
<1>3. CASE \E o \in Objects : Ddl(o)
  BY <1>3, DdlIInv
<1>4. ASSUME NEW o \in Objects, Invalidate(o) PROVE IInv'
  BY <1>0, <1>4 DEF Invalidate, IInv, TypeOK, DatabaseInv, CallerInv, EntryInv,
                    NewerSince
<1>5. CASE Tick
  <2>1. TypeOK' /\ clock' > clock
    BY <1>0, <1>5 DEF Tick, TypeOK
  <2>2. DatabaseInv'
    BY <1>0, <1>5, <2>1 DEF Tick, DatabaseInv, TypeOK
  <2>3. CallerInv'
    BY <1>0, <1>5, <2>1 DEF Tick, CallerInv, TypeOK, NewerSince
  <2>4. EntryInv'
    BY <1>0, <1>5, <2>1 DEF Tick, EntryInv, TypeOK, NewerSince
  <2> QED
    BY <2>1, <2>2, <2>3, <2>4 DEF IInv
<1>6. CASE UNCHANGED vars
  BY <1>0, <1>6 DEF vars, database, IInv, TypeOK, DatabaseInv, CallerInv,
                    EntryInv, NewerSince
<1> QED
  BY <1>1, <1>2, <1>3, <1>4, <1>5, <1>6 DEF Next

\* The strengthened invariant holds in every reachable state.
THEOREM Invariance == Spec => []IInv
<1> QED
  BY InitIInv, NextIInv, PTL DEF Spec

\* Every variable of the cache, its callers and the database keeps its type.
THEOREM TypeCorrect == Spec => []TypeOK
<1>1. IInv => TypeOK
  BY DEF IInv
<1> QED
  BY <1>1, Invariance, PTL

\* However Describes of one name and DDL interleave, a stale entry of plist has
\* a time stamp that the comparison in stm_descr_short exposes, up to changes in
\* the very second it names.
THEOREM Detectable == Spec => []StaleIsDetectable
<1>1. IInv => StaleIsDetectable
  BY DEF IInv, EntryInv, StaleIsDetectable
<1> QED
  BY <1>1, Invariance, PTL
=============================================================================
