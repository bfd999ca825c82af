------------------------------ MODULE Binding -------------------------------
(***************************************************************************)
(* oracleTasker.run from the description of the procedure to the execution *)
(* of the statement, otasker/oratasker.go: the uploaded files are saved,   *)
(* each parameter of the request is looked up in the description, module   *)
(* Describe's, and bound according to its type, and the statement is       *)
(* executed.  Other requests describe the same procedure meanwhile.        *)
(*                                                                         *)
(* Values are left out.  A statement is known by the names in its parts    *)
(* and by the versions of the procedure its types were taken from.  Names  *)
(* of files and names of values are different (parse.go of mltpart turns a *)
(* value with the name of a file into a file), and so are bind names.      *)
(*                                                                         *)
(* Every caller has a connection of its own.  What saveFile inserts stays  *)
(* in the connection's transaction until a statement commits; Oracle and   *)
(* the driver, whose Close rolls back, are external.                       *)
(***************************************************************************)
EXTENDS Describe

CONSTANTS
  Params,    \* names of parameters
  Forms,     \* requests: pairs of a set of files and a set of values
  DataType,  \* [versions -> [Params -> type]]: what a description says
  StoreProc  \* paramStoreProc is configured

Scalar == {"string", "number", "integer", "date"}
Table  == {"stringTab", "numberTab", "integerTab", "dateTab", "booleanTab"}

\* No such argument: ArgumentInfo returns 0.
Other == "other"

ASSUME BindingConstants ==
  /\ DataType \in [1..MaxVersion -> [Params -> Scalar \cup Table \cup {"boolean", Other}]]
  /\ StoreProc \in BOOLEAN
  /\ \A f \in Forms : f[1] \subseteq Params /\ f[2] \subseteq Params \ f[1]

VARIABLES
  files, values, \* [Callers -> parameters of the request yet to be bound]
  stm,           \* [Callers -> the statement so far]
  tx             \* [Callers -> inserts that are not committed]

bindVars == <<files, values, stm, tx>>
runVars  == <<vars, bindVars>>

\* The second bind variable of a parameter, for paramStoreProc.
Hash(p) == <<p, "#">>

\* proc: arguments in the call; ctx: bind variables in the calls of
\* paramStoreProc; params: keys of sqlParams; vers: versions asked.
NoStm == [proc |-> {}, ctx |-> {}, params |-> {}, vers |-> {}]

BindTypeOK ==
  /\ TypeOK
  /\ files \in [Callers -> SUBSET Params]
  /\ values \in [Callers -> SUBSET Params]
  /\ tx \in [Callers -> SUBSET Params]
  /\ \A c \in Callers :
       /\ stm[c].proc \subseteq Params
       /\ stm[c].ctx \subseteq {Hash(p) : p \in Params}
       /\ stm[c].params \subseteq Params \cup {Hash(p) : p \in Params}
       /\ stm[c].vers \subseteq 1..MaxVersion

BindInit ==
  /\ Init
  /\ files = [c \in Callers |-> {}]
  /\ values = [c \in Callers |-> {}]
  /\ stm = [c \in Callers |-> NoStm]
  /\ tx = [c \in Callers |-> {}]

-----------------------------------------------------------------------------
(* prepareParam, by type.                                                   *)

\* "p => :p"
Pass(s, p) == [s EXCEPT !.proc = @ \cup {p}, !.params = @ \cup {p}]

\* Mutant: "paramStoreProc('P', :p)"
StoreInContext_Same(s, p) ==
  IF StoreProc THEN [s EXCEPT !.ctx = @ \cup {p}, !.params = @ \cup {p}] ELSE s

\* "paramStoreProc('P', :p#)"
StoreInContext(s, p) ==
  IF StoreProc
  THEN [s EXCEPT !.ctx = @ \cup {Hash(p)}, !.params = @ \cup {Hash(p)}]
  ELSE s

prepareStringParam(s, p) == StoreInContext(Pass(s, p), p)

\* Numbers, integers and dates are bound as strings and converted by Oracle.
prepareScalar(s, p) == StoreInContext(Pass(s, p), p)

\* Mutant: a boolean is saved like the other types, without a bind variable.
prepareBoolean_Bind(s, p) ==
  IF StoreProc THEN [Pass(s, p) EXCEPT !.ctx = @ \cup {Hash(p)}] ELSE Pass(s, p)

\* The call compares ":p = 'true'"; the value is saved as a literal.
prepareBoolean(s, p) == Pass(s, p)

\* Tables of booleans are refused.  The second variable of a table of dates gets
\* strings for values, which the driver refuses.
prepareTable(s, p, t) ==
  IF t = "booleanTab" \/ (t = "dateTab" /\ StoreProc)
  THEN Nil
  ELSE StoreInContext(Pass(s, p), p)

\* Not an argument of the procedure: saved in the context only.
prepareOther(s, p) == StoreInContext(s, p)

prepareParam(s, p, t) ==
  IF t = "string" THEN prepareStringParam(s, p)
  ELSE IF t \in Scalar THEN prepareScalar(s, p)
  ELSE IF t = "boolean" THEN prepareBoolean(s, p)
  ELSE IF t \in Table THEN prepareTable(s, p, t)
  ELSE prepareOther(s, p)

\* What ArgumentInfo says of p in the argument list l.
TypeIn(l, p) == IF l = Nil THEN Other ELSE DataType[l.ver][p]

-----------------------------------------------------------------------------
\* Run has returned: nothing of the request is left.
Forget(c) ==
  /\ files' = [files EXCEPT ![c] = {}]
  /\ values' = [values EXCEPT ![c] = {}]
  /\ stm' = [stm EXCEPT ![c] = NoStm]

\* Mutant: the connection is kept after an error.
disconnect_Keep(c) == Forget(c) /\ UNCHANGED tx

\* After any error Run closes the connection, which rolls back.
disconnect(c) == Forget(c) /\ tx' = [tx EXCEPT ![c] = {}]

\* A request arrives, and run calls Describe.
Start(c, u, f) ==
  /\ Call(c, u)
  /\ files' = [files EXCEPT ![c] = f[1]]
  /\ values' = [values EXCEPT ![c] = f[2]]
  /\ UNCHANGED <<stm, tx>>

\* stm_descr_short ends with a commit.
Short(c) ==
  /\ ShortSame(c) \/ ShortUpdated(c)
  /\ tx' = [tx EXCEPT ![c] = {}]
  /\ UNCHANGED <<files, values, stm>>

Refresh(c) ==
  /\ Long(c) \/ Store(c)
  /\ UNCHANGED bindVars

DescribeFails(c) == QueryFails(c) /\ disconnect(c)

\* ArgumentInfo and prepareParam for p.
BindParam(c, p) ==
  LET s == prepareParam(stm[c], p, TypeIn(rows'[c], p)) IN
  /\ ArgumentInfo(c)
  /\ s # Nil
  /\ stm' = [stm EXCEPT ![c] = [s EXCEPT !.vers = @ \cup {l.ver : l \in {rows'[c]} \ {Nil}}]]

\* saveFile has inserted p, before p is looked up.
BindFile(c, p) ==
  /\ p \in files[c]
  /\ BindParam(c, p)
  /\ files' = [files EXCEPT ![c] = @ \ {p}]
  /\ tx' = [tx EXCEPT ![c] = @ \cup {p}]
  /\ UNCHANGED values

BindValue(c, p) ==
  /\ files[c] = {}
  /\ p \in values[c]
  /\ BindParam(c, p)
  /\ values' = [values EXCEPT ![c] = @ \ {p}]
  /\ UNCHANGED <<files, tx>>

\* saveFile fails, or prepareParam does.
BindFails(c) ==
  /\ pc[c] = "described"
  /\ \/ files[c] # {}
     \/ \E p \in values[c] : prepareParam(stm[c], p, TypeIn(plist.list, p)) = Nil
  /\ Return(c)
  /\ disconnect(c)
  /\ UNCHANGED <<database, plist>>

\* The statement ends with a commit ...
Execute(c) ==
  /\ files[c] = {} /\ values[c] = {}
  /\ ProcedureInfo(c)
  /\ Forget(c)
  /\ tx' = [tx EXCEPT ![c] = {}]

\* ... or with an error, before or after its commit.
ExecuteFails(c) ==
  /\ files[c] = {} /\ values[c] = {}
  /\ ProcedureInfo(c)
  /\ disconnect(c)

-----------------------------------------------------------------------------
RunStep(c) ==
  \/ Short(c) \/ Refresh(c) \/ DescribeFails(c)
  \/ \E p \in Params : BindFile(c, p) \/ BindValue(c, p)
  \/ BindFails(c) \/ Execute(c) \/ ExecuteFails(c)

Environment ==
  /\ (\E o \in Objects : Ddl(o) \/ Invalidate(o)) \/ Tick
  /\ UNCHANGED bindVars

BindNext ==
  \/ \E c \in Callers :
       \/ RunStep(c)
       \/ \E u \in Users, f \in Forms : Start(c, u, f)
  \/ Environment

BindSpec == BindInit /\ [][BindNext]_runVars

\* A request that is under way goes on, and queries return.
BindFairSpec == BindSpec /\ \A c \in Callers : WF_runVars(RunStep(c))

-----------------------------------------------------------------------------
(* Properties.                                                              *)

\* sqlParams has exactly the bind variables that the statement mentions, for
\* every mixture of types and with paramStoreProc or without: Oracle refuses a
\* statement with one too few or one too many.
BoundExactly ==
  \A c \in Callers : stm[c].params = stm[c].proc \cup stm[c].ctx

\* A parameter that every version of the procedure declares is passed to it,
\* whatever descriptions replace each other while the request is bound: the error
\* that ArgumentInfo returns is ignored, and a description that was missing or
\* empty for a moment would silently turn arguments into context.
ArgumentsKept ==
  \A c \in Callers, p \in Params :
    Hash(p) \in stm[c].ctx /\ (\A v \in 1..MaxVersion : DataType[v][p] # Other)
      => p \in stm[c].proc

\* An uploaded file is committed with the statement of its own request or not at
\* all: no upload is left in the transaction of a connection for the next request
\* there, whose Describe would commit it.
UploadsAreAtomic ==
  \A c \in Callers : pc[c] # "described" => tx[c] = {}

\* The versions that no Describe can tell from the current one.
Undetectable ==
  {v \in 1..Len(born[plist.list.obj]) :
     \A n \in v + 1 .. Len(born[plist.list.obj]) : born[plist.list.obj][n] = plist.timestamp}

\* The arguments of a request are looked up one lock section at a time, so that a
\* statement may mix types of several versions.  That passes: after the last DDL,
\* if requests keep coming, the cache becomes fresh for good and statements use
\* no version that Describe could tell from the current one.
Settles ==
  (\A c \in Callers : []<>(pc[c] = "described"))
    => <>[](Fresh /\ \A c \in Callers : stm[c].vers \subseteq Undetectable)
=============================================================================
