---------------------------- MODULE BindingProofs ---------------------------
(***************************************************************************)
(* Proofs about module Binding: requests use the cache of descriptions as  *)
(* module Describe says, their statements have exactly the bind variables  *)
(* they mention and lose no argument, and uploads are atomic, for any      *)
(* number of callers, versions and parameters, all types and all forms.    *)
(***************************************************************************)
EXTENDS Binding, DescribeProofs

\* Statements.
Stms == [proc : SUBSET Params, ctx : SUBSET {Hash(p) : p \in Params},
         params : SUBSET (Params \cup {Hash(p) : p \in Params}),
         vers : SUBSET (1..MaxVersion)]

\* The types of the request's variables.
BindInv ==
  /\ files \in [Callers -> SUBSET Params]
  /\ values \in [Callers -> SUBSET Params]
  /\ stm \in [Callers -> Stms]
  /\ tx \in [Callers -> SUBSET Params]

\* What is described is one of the versions that exist.
VersionInv ==
  /\ \A o \in Objects : Len(born[o]) <= MaxVersion
  /\ \A c \in Callers : rows[c] # Nil => rows[c].ver \in 1..MaxVersion
  /\ plist # Nil => plist.list.ver \in 1..MaxVersion

RunInv ==
  /\ IInv /\ VersionInv /\ BindInv
  /\ BoundExactly /\ ArgumentsKept /\ UploadsAreAtomic

-----------------------------------------------------------------------------
(* The use of Describe.                                                     *)

\* The steps by which the program leaves Describe's variables in a new state are
\* Describe's: in particular a request whose binding fails has described its
\* procedure, and so returns like one that is executed.
LEMMA StepOfDescribe ==
  ASSUME IInv, [BindNext]_runVars
  PROVE  [Next]_vars
<1>1. ASSUME NEW c \in Callers, RunStep(c) PROVE Step(c)
  <2>1. CASE Short(c) \/ Refresh(c) \/ DescribeFails(c)
    BY <2>1 DEF Short, Refresh, DescribeFails, Step
  <2>2. CASE \E p \in Params : BindFile(c, p) \/ BindValue(c, p)
    BY <2>2 DEF BindFile, BindValue, BindParam, Step
  <2>3. CASE BindFails(c)
    BY <2>3 DEF BindFails, IInv, CallerInv, ProcedureInfo, Step
  <2>4. CASE Execute(c) \/ ExecuteFails(c)
    BY <2>4 DEF Execute, ExecuteFails, Step
  <2> QED
    BY <1>1, <2>1, <2>2, <2>3, <2>4 DEF RunStep
<1>2. ASSUME NEW c \in Callers, NEW u \in Users, NEW f \in Forms, Start(c, u, f)
      PROVE  Call(c, u)
  BY <1>2 DEF Start
<1>3. CASE Environment
  BY <1>3 DEF Environment, Next
<1>4. CASE UNCHANGED runVars
  BY <1>4 DEF runVars
<1> QED
  BY <1>1, <1>2, <1>3, <1>4 DEF BindNext, Next

\* Versions only grow, up to the bound, and lists are made of current ones.
LEMMA VersionStep ==
  ASSUME IInv, VersionInv, [Next]_vars
  PROVE  VersionInv'
<1>0. TypeOK /\ DatabaseInv /\ CallerInv
  BY DEF IInv
<1> USE <1>0, DescribeConstants DEF VersionInv, TypeOK, database
<1>1. ASSUME NEW c \in Callers, Step(c) PROVE VersionInv'
  <2>1. CASE ShortSame(c) \/ ShortUpdated(c)
    BY <2>1 DEF ShortSame, ShortUpdated, Compile
  <2>2. CASE Long(c)
    <3>1. Resolve[user[c]] \in Objects
      BY <2>2 DEF Long, CallerInv
    <3>2. Len(born[Resolve[user[c]]]) \in 1..MaxVersion
      BY <3>1 DEF DatabaseInv
    <3> QED
      BY <2>2, <3>2 DEF Long, Current
  <2>3. CASE QueryFails(c) \/ ProcedureInfo(c)
    BY <2>3 DEF QueryFails, ProcedureInfo, Return
  <2>4. CASE Store(c)
    BY <2>4 DEF Store, CallerInv, Lists
  <2>5. CASE ArgumentInfo(c)
    BY <2>5 DEF ArgumentInfo, CallerInv
  <2> QED
    BY <1>1, <2>1, <2>2, <2>3, <2>4, <2>5 DEF Step
<1>2. ASSUME NEW c \in Callers, NEW u \in Users, Call(c, u) PROVE VersionInv'
  BY <1>2 DEF Call
<1>3. ASSUME NEW o \in Objects, Ddl(o) PROVE VersionInv'
  BY <1>3 DEF Ddl
<1>4. ASSUME NEW o \in Objects, Invalidate(o) PROVE VersionInv'
  BY <1>4 DEF Invalidate
<1>5. CASE Tick
  BY <1>5 DEF Tick
<1>6. CASE UNCHANGED vars
  BY <1>6 DEF vars
<1> QED
  BY <1>1, <1>2, <1>3, <1>4, <1>5, <1>6 DEF Next

-----------------------------------------------------------------------------
(* prepareParam.                                                            *)

\* One more parameter: the statement stays well formed, mentions what it binds,
\* and a parameter goes to the context only, and never to the procedure, exactly
\* when the description does not know it.
LEMMA Prepared ==
  ASSUME NEW s \in Stms, NEW p \in Params,
         NEW t \in Scalar \cup Table \cup {"boolean", Other},
         prepareParam(s, p, t) # Nil
  PROVE  LET n == prepareParam(s, p, t)
         IN  /\ n \in Stms
             /\ n.vers = s.vers
             /\ s.params = s.proc \cup s.ctx => n.params = n.proc \cup n.ctx
             /\ s.proc \subseteq n.proc /\ s.ctx \subseteq n.ctx
             /\ n.ctx \subseteq s.ctx \cup {Hash(p)}
             /\ t # Other => p \in n.proc
<1>1. Pass(s, p) \in Stms /\ Pass(s, p).vers = s.vers
      /\ Pass(s, p).proc = s.proc \cup {p} /\ Pass(s, p).ctx = s.ctx
      /\ Pass(s, p).params = s.params \cup {p}
  BY DEF Pass, Stms
<1>2. ASSUME NEW q \in Stms
      PROVE  LET n == StoreInContext(q, p)
             IN  /\ n \in Stms /\ n.vers = q.vers /\ n.proc = q.proc
                 /\ \/ n.ctx = q.ctx /\ n.params = q.params
                    \/ /\ n.ctx = q.ctx \cup {Hash(p)}
                       /\ n.params = q.params \cup {Hash(p)}
  BY DEF StoreInContext, Stms
<1>3. \/ prepareParam(s, p, t) = StoreInContext(Pass(s, p), p)
      \/ prepareParam(s, p, t) = Pass(s, p)
      \/ prepareParam(s, p, t) = StoreInContext(s, p) /\ t = Other
  BY DEF prepareParam, prepareStringParam, prepareScalar, prepareBoolean,
         prepareTable, prepareOther, Scalar, Table, Other
<1>4. CASE prepareParam(s, p, t) = StoreInContext(Pass(s, p), p)
  BY <1>1, <1>2, <1>4
<1>5. CASE prepareParam(s, p, t) = Pass(s, p)
  BY <1>1, <1>5
<1>6. CASE prepareParam(s, p, t) = StoreInContext(s, p) /\ t = Other
  BY <1>2, <1>6
<1> QED
  BY <1>3, <1>4, <1>5, <1>6

-----------------------------------------------------------------------------
(* The steps of a request.                                                  *)

\* BindParam adds one parameter, with the type that the present entry gives it.
LEMMA Bound ==
  ASSUME RunInv, NEW c \in Callers, NEW p \in Params, BindParam(c, p)
  PROVE  /\ stm' \in [Callers -> Stms]
         /\ \A d \in Callers \ {c} : stm'[d] = stm[d]
         /\ stm'[c].params = stm'[c].proc \cup stm'[c].ctx
         /\ stm[c].proc \subseteq stm'[c].proc
         /\ stm'[c].ctx \subseteq stm[c].ctx \cup {Hash(p)}
         /\ (\A v \in 1..MaxVersion : DataType[v][p] # Other) => p \in stm'[c].proc
<1> DEFINE l == plist.list
           t == TypeIn(l, p)
           s == prepareParam(stm[c], p, t)
<1>1. rows'[c] = l /\ l \in Lists /\ l # Nil /\ l.ver \in 1..MaxVersion
  <2>1. plist # Nil
    BY DEF RunInv, IInv, CallerInv, BindParam, ArgumentInfo
  <2>2. rows'[c] = l
    BY DEF RunInv, IInv, TypeOK, BindParam, ArgumentInfo
  <2> QED
    BY <2>1, <2>2, DescribeConstants DEF RunInv, IInv, TypeOK, VersionInv, Lists
<1>2. t = DataType[l.ver][p] /\ t \in Scalar \cup Table \cup {"boolean", Other}
  BY <1>1, BindingConstants DEF TypeIn
<1>3. s # Nil /\ stm[c] \in Stms
  BY <1>1 DEF BindParam, RunInv, BindInv
<1> HIDE DEF t, l, s
<1>4. /\ s \in Stms
      /\ s.vers = stm[c].vers
      /\ stm[c].params = stm[c].proc \cup stm[c].ctx => s.params = s.proc \cup s.ctx
      /\ stm[c].proc \subseteq s.proc /\ s.ctx \subseteq stm[c].ctx \cup {Hash(p)}
      /\ t # Other => p \in s.proc
  BY <1>2, <1>3, Prepared DEF s
<1>5. stm' = [stm EXCEPT ![c] = [s EXCEPT !.vers = @ \cup {l.ver}]]
  <2>1. {k.ver : k \in {l} \ {Nil}} = {l.ver}
    BY <1>1
  <2> QED
    BY <1>1, <2>1 DEF BindParam, s, t
<1>6. /\ stm'[c] \in Stms /\ stm'[c].proc = s.proc /\ stm'[c].ctx = s.ctx
      /\ stm'[c].params = s.params
  BY <1>1, <1>4, <1>5 DEF RunInv, BindInv, Stms
<1> QED
  BY <1>1, <1>2, <1>4, <1>5, <1>6 DEF RunInv, BindInv, BoundExactly

Statements == BindInv /\ BoundExactly /\ ArgumentsKept

\* Statements that do not change, or are forgotten, keep what is said of them.
LEMMA Untouched ==
  ASSUME RunInv,
         files' \in [Callers -> SUBSET Params], values' \in [Callers -> SUBSET Params],
         tx' \in [Callers -> SUBSET Params],
         stm' = stm \/ \E c \in Callers : stm' = [stm EXCEPT ![c] = NoStm]
  PROVE  Statements'
<1>1. NoStm \in Stms /\ NoStm.params = NoStm.proc \cup NoStm.ctx /\ NoStm.ctx = {}
  BY DEF NoStm, Stms
<1>2. stm' \in [Callers -> Stms] /\ \A d \in Callers : stm'[d] \in {stm[d], NoStm}
  BY <1>1 DEF RunInv, BindInv
<1>3. BoundExactly'
  BY <1>1, <1>2 DEF RunInv, BoundExactly
<1>4. ArgumentsKept'
  BY <1>1, <1>2 DEF RunInv, ArgumentsKept
<1> QED
  BY <1>2, <1>3, <1>4 DEF Statements, BindInv

\* A parameter is bound: of the context, only its own variable can be new.
LEMMA BindingStep ==
  ASSUME RunInv, NEW c \in Callers, NEW p \in Params, BindParam(c, p),
         files' \in [Callers -> SUBSET Params], values' \in [Callers -> SUBSET Params],
         tx' \in [Callers -> SUBSET Params]
  PROVE  Statements'
<1>1. BindInv'
  BY Bound DEF BindInv
<1>2. BoundExactly'
  BY Bound DEF RunInv, BoundExactly
<1>3. ASSUME NEW d \in Callers, NEW q \in Params, Hash(q) \in stm'[d].ctx,
             \A v \in 1..MaxVersion : DataType[v][q] # Other
      PROVE  q \in stm'[d].proc
  <2>1. CASE d # c
    BY <1>3, <2>1, Bound DEF RunInv, ArgumentsKept
  <2>2. CASE d = c /\ q = p
    BY <1>3, <2>2, Bound
  <2>3. CASE d = c /\ q # p
    <3>1. Hash(q) # Hash(p)
      BY <2>3 DEF Hash
    <3>2. Hash(q) \in stm[c].ctx
      BY <1>3, <2>3, <3>1, Bound
    <3> QED
      BY <1>3, <2>3, <3>2, Bound DEF RunInv, ArgumentsKept
  <2> QED
    BY <2>1, <2>2, <2>3
<1> QED
  BY <1>1, <1>2, <1>3 DEF Statements, ArgumentsKept

\* One step per action: statements are built, executed and forgotten, and
\* uploads with them.
LEMMA RequestStep ==
  ASSUME RunInv, [BindNext]_runVars
  PROVE  Statements' /\ UploadsAreAtomic'
<1>0. IInv /\ TypeOK /\ BindInv /\ UploadsAreAtomic
  BY DEF RunInv, IInv
<1> USE <1>0 DEF UploadsAreAtomic, BindInv, TypeOK
<1>1. ASSUME NEW c \in Callers, RunStep(c) PROVE Statements' /\ UploadsAreAtomic'
  <2>1. CASE Short(c)
    <3>1. Statements'
      BY <2>1, Untouched DEF Short
    <3> QED
      BY <2>1, <3>1 DEF Short, ShortSame, ShortUpdated
  <2>2. CASE Refresh(c)
    <3>1. Statements'
      BY <2>2, Untouched DEF Refresh, bindVars
    <3> QED
      BY <2>2, <3>1 DEF Refresh, bindVars, Long, Store
  <2>3. ASSUME Forget(c), tx' = [tx EXCEPT ![c] = {}],
               pc' = [pc EXCEPT ![c] = "idle"]
        PROVE  Statements' /\ UploadsAreAtomic'
    <3>1. Statements'
      BY <2>3, Untouched DEF Forget
    <3> QED
      BY <2>3, <3>1
  <2>4. CASE DescribeFails(c)
    BY <2>3, <2>4 DEF DescribeFails, QueryFails, Return, disconnect
  <2>5. CASE BindFails(c)
    BY <2>3, <2>5 DEF BindFails, Return, disconnect
  <2>6. CASE Execute(c) \/ ExecuteFails(c)
    BY <2>3, <2>6 DEF Execute, ExecuteFails, ProcedureInfo, Return, disconnect
  <2>7. ASSUME NEW p \in Params, BindFile(c, p) \/ BindValue(c, p)
        PROVE  Statements' /\ UploadsAreAtomic'
    <3>1. BindParam(c, p)
      BY <2>7 DEF BindFile, BindValue
    <3>2. /\ files' = files \/ files' = [files EXCEPT ![c] = @ \ {p}]
          /\ values' = values \/ values' = [values EXCEPT ![c] = @ \ {p}]
          /\ tx' = tx \/ tx' = [tx EXCEPT ![c] = @ \cup {p}]
      BY <2>7 DEF BindFile, BindValue
    <3>4. /\ files[c] \ {p} \in SUBSET Params /\ values[c] \ {p} \in SUBSET Params
          /\ tx[c] \cup {p} \in SUBSET Params
      OBVIOUS
    <3>5. files' \in [Callers -> SUBSET Params] /\ values' \in [Callers -> SUBSET Params]
      BY <3>2, <3>4
    <3>6. tx' \in [Callers -> SUBSET Params]
      BY <3>2, <3>4
    <3>3. pc' = pc /\ pc[c] = "described" /\ \A d \in Callers \ {c} : tx'[d] = tx[d]
      BY <2>7 DEF BindFile, BindValue, BindParam, ArgumentInfo
    <3> QED
      BY <3>1, <3>3, <3>5, <3>6, BindingStep
  <2> QED
    BY <1>1, <2>1, <2>2, <2>4, <2>5, <2>6, <2>7 DEF RunStep
<1>2. ASSUME NEW c \in Callers, NEW u \in Users, NEW f \in Forms, Start(c, u, f)
      PROVE  Statements' /\ UploadsAreAtomic'
  <2>1. f[1] \in SUBSET Params /\ f[2] \in SUBSET Params
    BY BindingConstants
  <2>2. Statements'
    BY <1>2, <2>1, Untouched DEF Start
  <2> QED
    BY <1>2, <2>2 DEF Start, Call
<1>3. CASE Environment
  <2>1. Statements'
    BY <1>3, Untouched DEF Environment, bindVars
  <2> QED
    BY <1>3, <2>1 DEF Environment, bindVars, Ddl, Invalidate, Tick
<1>4. CASE UNCHANGED runVars
  <2>1. Statements'
    BY <1>4, Untouched DEF runVars, bindVars
  <2> QED
    BY <1>4, <2>1 DEF runVars, bindVars, vars
<1> QED
  BY <1>1, <1>2, <1>3, <1>4 DEF BindNext

-----------------------------------------------------------------------------
(* The theorems.                                                            *)

\* Nothing is cached, and no request is under way.
LEMMA InitRunInv == BindInit => RunInv
<1> SUFFICES ASSUME BindInit PROVE RunInv
  OBVIOUS
<1>1. Init /\ IInv
  BY InitIInv DEF BindInit
<1>2. VersionInv
  <2>1. \A o \in Objects : Len(born[o]) = 1
    <3>1. Len(<<1>>) = 1 /\ Len(<<2>>) = 1
      OBVIOUS
    <3> QED
      BY <1>1, <3>1 DEF Init
  <2>2. plist = Nil /\ \A c \in Callers : rows[c] = Nil
    BY <1>1 DEF Init
  <2>3. MaxVersion \in Nat /\ 1 <= MaxVersion
    BY DescribeConstants
  <2> QED
    BY <2>1, <2>2, <2>3 DEF VersionInv
<1>3. NoStm \in Stms /\ NoStm.params = NoStm.proc \cup NoStm.ctx /\ NoStm.ctx = {}
  BY DEF NoStm, Stms
<1>4. BindInv /\ BoundExactly /\ ArgumentsKept /\ UploadsAreAtomic
  BY <1>3 DEF BindInit, BindInv, BoundExactly, ArgumentsKept, UploadsAreAtomic
<1> QED
  BY <1>1, <1>2, <1>4 DEF RunInv

\* Every step of requests and of the database keeps the inductive invariant.
LEMMA NextRunInv == RunInv /\ [BindNext]_runVars => RunInv'
<1> SUFFICES ASSUME RunInv, [BindNext]_runVars PROVE RunInv'
  OBVIOUS
<1>1. IInv /\ VersionInv /\ [Next]_vars
  BY StepOfDescribe DEF RunInv
<1>2. IInv' /\ VersionInv'
  BY <1>1, NextIInv, VersionStep
<1> QED
  BY <1>2, RequestStep DEF RunInv, Statements

\* The inductive invariant holds in every reachable state of the requests that
\* share a cache entry.
THEOREM BindInvariance == BindSpec => []RunInv
<1> QED
  BY InitRunInv, NextRunInv, PTL DEF BindSpec

\* run uses describe.go as module Describe says: whatever a request does, the
\* cache and its callers behave according to Describe's specification.
THEOREM UsesDescribe == BindSpec => Spec
<1>1. RunInv /\ [BindNext]_runVars => [Next]_vars
  BY StepOfDescribe DEF RunInv
<1>2. BindInit => Init
  BY DEF BindInit
<1> QED
  BY <1>1, <1>2, BindInvariance, PTL DEF BindSpec, Spec

\* The variables of the cache and of the requests keep their types: statements
\* mention parameters of the request and versions that exist.
THEOREM BindTypeCorrect == BindSpec => []BindTypeOK
<1>1. RunInv => BindTypeOK
  BY DEF RunInv, IInv, BindInv, BindTypeOK, Stms
<1> QED
  BY <1>1, BindInvariance, PTL

\* A stale description is detectable for requests that bind and execute, too.
THEOREM StaleDetectable == BindSpec => []StaleIsDetectable
<1> QED
  BY UsesDescribe, Detectable, PTL

\* For every mixture of types, sqlParams has exactly the bind variables that the
\* statement mentions.
THEOREM ExactlyBound == BindSpec => []BoundExactly
<1>1. RunInv => BoundExactly
  BY DEF RunInv
<1> QED
  BY <1>1, BindInvariance, PTL

\* No exchange of descriptions while a request is bound turns an argument that
\* all versions have into a context parameter.
THEOREM NoArgumentLost == BindSpec => []ArgumentsKept
<1>1. RunInv => ArgumentsKept
  BY DEF RunInv
<1> QED
  BY <1>1, BindInvariance, PTL

\* Uploads are committed by the statement of their own request or rolled back.
THEOREM AtomicUploads == BindSpec => []UploadsAreAtomic
<1>1. RunInv => UploadsAreAtomic
  BY DEF RunInv
<1> QED
  BY <1>1, BindInvariance, PTL
=============================================================================
