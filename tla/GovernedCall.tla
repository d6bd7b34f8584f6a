---------------------------- MODULE GovernedCall ----------------------------
(***************************************************************************)
(* Governed calls of several processes over one audit database and one     *)
(* Ceph cluster: the wrapper of governance/decorators.py from _CallState   *)
(* to _finalize, the connection's request under it, crashes and restarts   *)
(* of the processes, and the operator's reconcile_pending.                 *)
(*                                                                         *)
(* A call is identified by a value of Calls and made once; the threads of  *)
(* a process interleave as its calls do.  The budget verdict, the undo     *)
(* descriptor and the cluster's answer are choices here.                   *)
(***************************************************************************)
EXTENDS AuditLog

CONSTANTS
  Kinds,      \* what the calls are: real writes, their dry-run previews, reads
  CliProcs,   \* processes whose calls run in the main thread (the CLI)
  HostLock,   \* fcntl exists: the rotation lock spans the host's processes
  Nobody      \* proc of a call that has not started

ASSUME KindsAreKnown == Kinds \subseteq {"write", "preview", "read"}
ASSUME CliProcsAreProcs == CliProcs \subseteq Procs
ASSUME HostLockIsBoolean == HostLock \in BOOLEAN
ASSUME NobodyIsNoProc == Nobody \notin Procs

VARIABLES
  up,        \* the processes that are running
  pc,        \* pc[c]: where call c stands
  proc,      \* proc[c]: the process that makes it
  kind,      \* kind[c]: chosen from Kinds when c starts
  strict,    \* strict[c]: log's `strict` while c is inserting a row
  intent,    \* _CallState.intent_id, 0 for None
  status,    \* _CallState.status before _finalize looks at the result
  result,    \* what the tool returned, "none" until it does
  inflight,  \* the calls whose mutating request is on its way to the cluster
  effect,    \* the calls whose change the cluster has applied
  sent,      \* the calls that ever handed their request to the network
  token,     \* the calls with an undo token in undo.db
  answer     \* what the caller got

callVars == <<pc, proc, kind, strict, intent, status, result, answer>>
worldVars == <<up, inflight, effect, sent, token>>
vars == <<auditVars, callVars, worldVars>>

\* Seeded fault: the rotation lock is not released when log returns.
GuardedForEver == {"rename", "create", "insert", "done"}
Guarded == {"rename", "create", "insert"}
Active == Guarded \cup {"check", "begin", "run", "sent", "annotate", "finalize"}
Ended == {"done", "crashed"}
Results == {"none", "ok", "error", "unknown"}
Answers == {"none", "ok", "error", "unknown", "refused", "interrupted", "audit_unavailable"}

TypeOK ==
  /\ AuditTypeOK
  /\ up \subseteq Procs
  /\ pc \in [Calls -> {"idle"} \cup Active \cup Ended]
  /\ proc \in [Calls -> Procs \cup {Nobody}]
  /\ kind \in [Calls -> {"write", "preview", "read"}]
  /\ strict \in [Calls -> BOOLEAN]
  /\ intent \in [Calls -> Nat]
  /\ status \in [Calls -> {"ok", "error", "budget_exceeded"}]
  /\ result \in [Calls -> Results]
  /\ answer \in [Calls -> Answers]
  /\ inflight \subseteq Calls
  /\ effect \subseteq Calls
  /\ sent \subseteq Calls
  /\ token \subseteq Calls

Init ==
  /\ AuditInit
  /\ up = {}
  /\ pc = [c \in Calls |-> "idle"]
  /\ proc = [c \in Calls |-> Nobody]
  /\ kind = [c \in Calls |-> "read"]
  /\ strict = [c \in Calls |-> FALSE]
  /\ intent = [c \in Calls |-> 0]
  /\ status = [c \in Calls |-> "ok"]
  /\ result = [c \in Calls |-> "none"]
  /\ answer = [c \in Calls |-> "none"]
  /\ inflight = {}
  /\ effect = {}
  /\ sent = {}
  /\ token = {}

Goto(c, label) == pc' = [pc EXCEPT ![c] = label]

-----------------------------------------------------------------------------
(* Processes.                                                              *)

Boot(p) ==
  /\ p \notin up
  /\ up' = up \cup {p}
  /\ OpenEngine(p)
  /\ UNCHANGED <<callVars, inflight, effect, sent, token>>

\* The calls of a killed process end where they stand; the locks it held go
\* with it, its requests on the wire do not.
Crash(p) ==
  /\ p \in up
  /\ up' = up \ {p}
  /\ pc' = [c \in Calls |-> IF proc[c] = p /\ pc[c] \in Active THEN "crashed" ELSE pc[c]]
  /\ UNCHANGED <<auditVars, proc, kind, strict, intent, status, result, answer,
                 inflight, effect, sent, token>>

-----------------------------------------------------------------------------
(* The wrapper, up to the tool.                                            *)

Start(c) ==
  /\ pc[c] = "idle"
  /\ \E p \in up, k \in Kinds :
        /\ proc' = [proc EXCEPT ![c] = p]
        /\ kind' = [kind EXCEPT ![c] = k]
  /\ Goto(c, "check")
  /\ UNCHANGED <<auditVars, worldVars, strict, intent, status, result, answer>>

\* _pre_check, and the test in _begin_write that lets reads and previews by.
PreCheck(c) ==
  /\ pc[c] = "check"
  /\ \/ /\ Goto(c, IF kind[c] = "write" THEN "begin" ELSE "run")
        /\ UNCHANGED <<status, answer>>
     \/ /\ status' = [status EXCEPT ![c] = "budget_exceeded"]
        /\ answer' = [answer EXCEPT ![c] = "refused"]
        /\ Goto(c, "finalize")
  /\ UNCHANGED <<auditVars, worldVars, proc, kind, strict, intent, result>>

\* begin_write raised AuditUnavailable, which _capture_error turns into an
\* "error" status: no intent, and the tool does not run.
Refuse(c) ==
  /\ status' = [status EXCEPT ![c] = "error"]
  /\ answer' = [answer EXCEPT ![c] = "refused"]
  /\ Goto(c, "finalize")
  /\ UNCHANGED <<proc, kind, strict, intent, result>>

BeginRefused(c) ==
  /\ pc[c] = "begin"
  /\ blocked[proc[c]] \/ ~available[proc[c]]
  /\ Latch(proc[c])
  /\ Refuse(c)
  /\ UNCHANGED <<db, hasTable, archives, available, worldVars>>

-----------------------------------------------------------------------------
(* log, under _rotation_guard.                                             *)

\* flock on audit.lock across processes, where there is one; the RLock of the
\* module between the threads of a process.
Excludes(c, d) == HostLock \/ proc[c] = proc[d]

\* Seeded fault: only the threads of the process are kept out.
GuardFreeOfThreads(c) == \A d \in Calls : pc[d] \in Guarded => proc[c] # proc[d]

GuardFree(c) == \A d \in Calls : pc[d] \in Guarded => ~Excludes(c, d)

EnterGuard(c, isStrict) ==
  /\ GuardFree(c)
  /\ Goto(c, IF RotationDue THEN "rename" ELSE "insert")
  /\ strict' = [strict EXCEPT ![c] = isStrict]
  /\ UNCHANGED <<auditVars, worldVars, proc, kind, intent, status, result, answer>>

BeginWrite(c) ==
  /\ pc[c] = "begin"
  /\ ~blocked[proc[c]] /\ available[proc[c]]
  /\ EnterGuard(c, TRUE)

\* Any failure up to the rename (a checkpoint a reader holds up, say) leaves
\* the file in place; one after it leaves none.  Either is only logged.
RotateRename(c) ==
  /\ pc[c] = "rename"
  /\ RenameToArchive
  /\ Goto(c, "create")
  /\ UNCHANGED <<worldVars, proc, kind, strict, intent, status, result, answer>>

RotateCreate(c) ==
  /\ pc[c] = "create"
  /\ CreateFresh
  /\ Goto(c, "insert")
  /\ UNCHANGED <<worldVars, proc, kind, strict, intent, status, result, answer>>

RotateFails(c) ==
  /\ pc[c] \in {"rename", "create"}
  /\ Goto(c, "insert")
  /\ UNCHANGED <<auditVars, worldVars, proc, kind, strict, intent, status, result, answer>>

InsertIntent(c) ==
  /\ pc[c] = "insert" /\ strict[c]
  /\ Insert(c, "pending")
  /\ intent' = [intent EXCEPT ![c] = Len(db')]
  /\ Goto(c, "run")
  /\ UNCHANGED <<worldVars, proc, kind, strict, status, result, answer>>

\* Seeded fault: the write goes ahead without its intent.
IntentFailsOpen(c) ==
  /\ pc[c] = "insert" /\ strict[c]
  /\ Goto(c, "run")
  /\ UNCHANGED <<auditVars, worldVars, proc, kind, strict, intent, status, result, answer>>

IntentFails(c) ==
  /\ pc[c] = "insert" /\ strict[c]
  /\ Latch(proc[c])
  /\ Refuse(c)
  /\ UNCHANGED <<db, hasTable, archives, available, worldVars>>

-----------------------------------------------------------------------------
(* The tool, and CephConnection.request under it.                          *)

Return(c, r) ==
  /\ result' = [result EXCEPT ![c] = r]
  /\ Goto(c, "annotate")
  /\ UNCHANGED <<auditVars, up, sent, token, proc, kind, strict, intent, status, answer>>

RunReadOnly(c) ==
  /\ pc[c] = "run" /\ kind[c] # "write"
  /\ \E r \in {"ok", "error", "unknown"} : Return(c, r)
  /\ UNCHANGED <<inflight, effect>>

\* The tool ends without a mutating request of its own.  It has none to send
\* and returns normally: throttle_recovery without values, or undo_apply, whose
\* inverse is a governed call of its own and which reports one that failed as
\* applied: False, without an `error`.  A guard of the tool refuses, or the
\* target is unreachable.  Or the login does not come through: _auth_header
\* runs outside request's try, so a login whose response is lost escapes as
\* the httpx error that tool_errors marks unknown.
ReturnUnsent(c) ==
  /\ pc[c] = "run" /\ kind[c] = "write"
  /\ \E r \in {"ok", "error", "unknown"} : Return(c, r)
  /\ UNCHANGED <<inflight, effect>>

Send(c) ==
  /\ pc[c] = "run" /\ kind[c] = "write"
  /\ inflight' = inflight \cup {c}
  /\ sent' = sent \cup {c}
  /\ Goto(c, "sent")
  /\ UNCHANGED <<auditVars, up, effect, token, proc, kind, strict, intent, status, result, answer>>

\* The cluster applies a request, whatever became of its sender.
Apply(c) ==
  /\ c \in inflight
  /\ inflight' = inflight \ {c}
  /\ effect' = effect \cup {c}
  /\ UNCHANGED <<auditVars, callVars, up, sent, token>>

Confirmed(c) ==
  /\ pc[c] = "sent" /\ c \in effect
  /\ Return(c, "ok")
  /\ UNCHANGED <<inflight, effect>>

\* A status outside 2xx.  A 401 is retried once after a new login, in the
\* request's own steps; if the response to that login is lost, the httpx error
\* escapes as unknown, as in ReturnUnsent.
Rejected(c) ==
  /\ pc[c] = "sent" /\ c \in inflight
  /\ inflight' = inflight \ {c}
  /\ \E r \in {"error", "unknown"} : Return(c, r)
  /\ UNCHANGED effect

\* No usable response: request wraps every httpx.HTTPError in CephApiError,
\* which tool_errors reports as an ordinary error.
ResponseLost(c) ==
  /\ pc[c] = "sent"
  /\ Return(c, "error")
  /\ UNCHANGED <<inflight, effect>>

\* Ctrl-C in the main thread.  KeyboardInterrupt is no Exception: neither
\* tool_errors nor the wrapper's except clauses see it, the finally does.
Interrupt(c) ==
  /\ pc[c] \in {"begin", "run", "sent"} /\ proc[c] \in CliProcs
  /\ answer' = [answer EXCEPT ![c] = "interrupted"]
  /\ Goto(c, "finalize")
  /\ UNCHANGED <<auditVars, worldVars, proc, kind, strict, intent, status, result>>

-----------------------------------------------------------------------------
(* _annotate_result and _finalize.                                         *)

\* Seeded fault: a token for every write that returned, errors included.
AnnotateAlways(c) ==
  /\ pc[c] = "annotate"
  /\ token' = IF kind[c] = "write" THEN token \cup {c} ELSE token
  /\ answer' = [answer EXCEPT ![c] = result[c]]
  /\ Goto(c, "finalize")
  /\ UNCHANGED <<auditVars, up, inflight, effect, sent, proc, kind, strict, intent, status, result>>

\* _record_undo: only for a write that returned normally.  There may be no
\* inverse, or undo.db may fail: recording is best-effort.
Annotate(c) ==
  /\ pc[c] = "annotate"
  /\ \/ UNCHANGED token
     \/ /\ kind[c] = "write" /\ result[c] = "ok"
        /\ token' = token \cup {c}
  /\ answer' = [answer EXCEPT ![c] = result[c]]
  /\ Goto(c, "finalize")
  /\ UNCHANGED <<auditVars, up, inflight, effect, sent, proc, kind, strict, intent, status, result>>

\* Seeded faults: the error payload is not looked at; unknown is an error;
\* the result overrides a call that never ran.
FinalStatusOfException(c) == status[c]
FinalStatusErrorFirst(c) ==
  IF status[c] = "ok" /\ result[c] \in {"error", "unknown"} THEN "error" ELSE status[c]
FinalStatusOfResult(c) == result[c]

\* is_unknown is looked at first, then `error`.
FinalStatus(c) ==
  IF status[c] = "ok" /\ result[c] # "none" THEN result[c] ELSE status[c]

FinishWrite(c) ==
  /\ pc[c] = "finalize" /\ intent[c] # 0
  /\ Resolve(intent[c], FinalStatus(c))
  /\ Goto(c, "done")
  /\ UNCHANGED <<worldVars, proc, kind, strict, intent, status, result, answer>>

\* Seeded fault: a failed finish_write is only logged.
FinishFailsQuietly(c) ==
  /\ pc[c] = "finalize" /\ intent[c] # 0
  /\ Latch(proc[c])
  /\ Goto(c, "done")
  /\ UNCHANGED <<db, hasTable, archives, available, worldVars,
                 proc, kind, strict, intent, status, result, answer>>

\* The UPDATE cannot run, or finds no pending row: AuditUnavailable replaces
\* whatever the wrapper was returning.
FinishFails(c) ==
  /\ pc[c] = "finalize" /\ intent[c] # 0
  /\ Latch(proc[c])
  /\ answer' = [answer EXCEPT ![c] = "audit_unavailable"]
  /\ Goto(c, "done")
  /\ UNCHANGED <<db, hasTable, archives, available, worldVars,
                 proc, kind, strict, intent, status, result>>

LogWithoutEngine(c) ==
  /\ pc[c] = "finalize" /\ intent[c] = 0
  /\ ~available[proc[c]]
  /\ Goto(c, "done")
  /\ UNCHANGED <<auditVars, worldVars, proc, kind, strict, intent, status, result, answer>>

LogFinal(c) ==
  /\ pc[c] = "finalize" /\ intent[c] = 0
  /\ available[proc[c]]
  /\ EnterGuard(c, FALSE)

InsertFinal(c) ==
  /\ pc[c] = "insert" /\ ~strict[c]
  /\ Insert(c, FinalStatus(c))
  /\ Goto(c, "done")
  /\ UNCHANGED <<worldVars, proc, kind, strict, intent, status, result, answer>>

\* Not strict: the row is lost, the call's answer stands.
FinalFails(c) ==
  /\ pc[c] = "insert" /\ ~strict[c]
  /\ Goto(c, "done")
  /\ UNCHANGED <<auditVars, worldVars, proc, kind, strict, intent, status, result, answer>>

-----------------------------------------------------------------------------
\* reconcile_pending, by an operator who has checked that the process is not
\* executing the write any more.
Reconcile(id) ==
  /\ pc[db[id].call] \in Ended
  /\ Resolve(id, "unknown")
  /\ UNCHANGED <<callVars, worldVars>>

CallStep(c) ==
  \/ PreCheck(c) \/ BeginRefused(c) \/ BeginWrite(c)
  \/ RotateRename(c) \/ RotateCreate(c) \/ RotateFails(c)
  \/ InsertIntent(c) \/ IntentFails(c)
  \/ RunReadOnly(c) \/ ReturnUnsent(c) \/ Send(c)
  \/ Confirmed(c) \/ Rejected(c) \/ ResponseLost(c)
  \/ Annotate(c) \/ FinishWrite(c) \/ FinishFails(c)
  \/ LogWithoutEngine(c) \/ LogFinal(c) \/ InsertFinal(c) \/ FinalFails(c)

Next ==
  \/ \E p \in Procs : Boot(p) \/ Crash(p)
  \/ \E c \in Calls : Start(c) \/ CallStep(c) \/ Apply(c) \/ Interrupt(c)
  \/ \E id \in DOMAIN db : Reconcile(id)

Spec == Init /\ [][Next]_vars

\* The steps of a call are the program's own: Python runs the thread, SQLite
\* gives up after its busy timeout, httpx after its read timeout.  Starting,
\* crashing, interrupting, applying and reconciling are not promised.
FairSpec == Spec /\ \A c \in Calls : WF_vars(CallStep(c))

-----------------------------------------------------------------------------
(* Properties.                                                             *)

\* "Real writes require a committed pending audit row" (README): a mutating
\* request is on the wire or applied only for a call whose intent was committed.
NoEffectWithoutIntent == \A c \in inflight \cup effect : intent[c] # 0

\* The rotation never takes an unresolved intent out of audit.db, where
\* finish_write, health and reconcile_pending look for it.
NoPendingArchived ==
  \A i \in DOMAIN archives : \A j \in DOMAIN archives[i] : archives[i][j].status # "pending"

\* While a call runs, its intent id names its own row, still pending, however
\* often the file was rotated meanwhile: finish_write resolves that row and no
\* other call's.
IntentIsOwnRow ==
  \A c \in Calls : pc[c] \in Active /\ intent[c] # 0 =>
     /\ intent[c] \in DOMAIN db
     /\ db[intent[c]] = [call |-> c, status |-> "pending"]

\* A pending row nobody is working on is never silent: its process died, or
\* the caller was told that the intent remains pending.
OrphanIsReported ==
  \A id \in DOMAIN db : Pending(id) =>
     LET c == db[id].call
     IN  pc[c] = "done" => answer[c] = "audit_unavailable"

\* What a normal return vouches for: the cluster made the change, or the tool
\* had no request of its own to send and nothing is owed.
Vouched(c) ==
  \/ c \in effect
  \/ c \notin sent /\ result[c] = "ok"

\* An undo token stands for a change the cluster made: previews, refusals,
\* errors and undetermined outcomes leave none, whatever was sent.  The one
\* exception is a tool that returned normally without sending anything
\* (_throttle_undo records the priors of a throttle without values).
TokenImpliesEffect == \A c \in token : kind[c] = "write" /\ Vouched(c)

\* The rotation lock holds out what it should.
LockIsExclusive ==
  \A c, d \in Calls :
    c # d /\ pc[c] \in Guarded /\ pc[d] \in Guarded => ~Excludes(c, d)

\* Between the rotation's look for pending rows and its rename, none appears.
RenameIsSafe ==
  \A c \in Calls : pc[c] = "rename" => ~ \E id \in DOMAIN db : Pending(id)

\* Where a call has its intent, and where it cannot have one yet.
IntentComesFirst ==
  \A c \in Calls :
    /\ pc[c] \in {"idle", "check", "begin"} \cup Guarded => intent[c] = 0
    /\ pc[c] = "run" /\ kind[c] = "write" => intent[c] # 0
    /\ c \in inflight \cup effect => c \in sent
    /\ c \in sent => intent[c] # 0 /\ pc[c] \in {"sent", "annotate", "finalize"} \cup Ended

\* A pending row is the intent of the call it names, and of no other.
PendingIsOwned == \A id \in DOMAIN db : Pending(id) => intent[db[id].call] = id

\* The inductive invariant behind the three safety invariants above: without
\* the lock and the emptiness at the rename, nothing keeps a call's row where
\* its intent id points.
Inductive ==
  /\ TypeOK
  /\ LockIsExclusive
  /\ RenameIsSafe
  /\ IntentComesFirst
  /\ PendingIsOwned
  /\ IntentIsOwnRow
  /\ NoPendingArchived

AllRows == {db[j] : j \in DOMAIN db}
             \cup UNION {{archives[i][j] : j \in DOMAIN archives[i]} : i \in DOMAIN archives}

\* "ok" in the audit trail of a write means the cluster confirmed what the
\* call sent, if it sent anything, unless the user interrupted the call.
OkRowIsConfirmed ==
  \A row \in AllRows :
     row.status = "ok" /\ kind[row.call] = "write" /\ answer[row.call] # "interrupted"
       => Vouched(row.call)

\* A write answers its caller normally only if its row holds that outcome by
\* the time the call ends.
AnswerIsAudited ==
  [][\A c \in Calls :
       kind[c] = "write" /\ answer[c] \in {"ok", "error", "unknown"}
         /\ pc[c] \in Active /\ pc'[c] = "done" /\ answer'[c] = answer[c]
       => db'[intent[c]] = [call |-> c, status |-> answer[c]]]_vars

\* A resolved row is history: no step changes it, in audit.db or on its way
\* into an archive.
ResolvedIsFinal ==
  [][\A id \in DOMAIN db : ~Pending(id) =>
       \/ id \in DOMAIN db' /\ db'[id] = db[id]
       \/ archives' # archives /\ archives'[Len(archives')] = db]_vars

\* Every call that starts ends: nothing in the wrapper waits for ever, and the
\* rotation guard is not left taken.
EveryCallEnds == \A c \in Calls : (pc[c] = "check") ~> (pc[c] \in Ended)

\* An intent that reached the database is resolved, unless its process died or
\* the audit storage failed at the end.
IntentIsResolved ==
  \A c \in Calls : (pc[c] = "run" /\ intent[c] # 0) ~>
     \/ pc[c] = "crashed"
     \/ answer[c] = "audit_unavailable"
     \/ pc[c] = "done" /\ \A row \in AllRows : row.call = c => row.status # "pending"

\* The promise of the write path.  An intent counts as pending while its row
\* can be found pending in audit.db.
Entry ==
  [c \in Calls |->
     IF intent[c] = 0 THEN "none"
     ELSE IF \E id \in DOMAIN db : Pending(id) /\ db[id].call = c THEN "pending"
     ELSE "closed"]

Ledger == INSTANCE WriteAhead WITH entry <- Entry, changed <- effect

\* The governed calls keep the promise, across processes, crashes, rotations
\* and failures of the storage.
WriteAheadHolds == Ledger!Spec

\* No write is audited "ok" that the cluster did not confirm, save one that had
\* nothing to send (_finalize: auditing an undetermined outcome as ok is "the
\* very lie the unknown verdict exists to prevent").
OkRowIsNoLie ==
  \A row \in AllRows :
     row.status = "ok" /\ kind[row.call] = "write" => Vouched(row.call)
=============================================================================
